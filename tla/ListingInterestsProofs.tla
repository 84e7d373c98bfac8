----------------------- MODULE ListingInterestsProofs -----------------------
(* Machine-checked proofs about ListingInterests, for any number of        *)
(* listings, handlers and ticks, any limits, caps and deadlines.           *)
EXTENDS ListingInterests, TLAPS

-----------------------------------------------------------------------------
(* Typing of what the actions are built from.                              *)

LEMMA InterestsType ==
    /\ \A i \in Interests : Target(i) \in Listings /\ Requester(i) \in Listings
    /\ Null \notin Interests /\ Null \notin Listings /\ Null \notin Int
BY ListingsAssumption, NullAssumption, NullNotATime DEF Interests, Target, Requester

LEMMA BlankType == Blank \in Mems
BY DEF Blank, Mems

LEMMA MemEdits ==
    ASSUME NEW m \in Mems
    PROVE  /\ \A x \in Int : [m EXCEPT !.now = x] \in Mems
           /\ \A x \in SUBSET Listings : [m EXCEPT !.due = x] \in Mems
           /\ \A x \in Listings \cup {Null} : [m EXCEPT !.l = x] \in Mems
           /\ \A x \in Interests \cup {Null} : [m EXCEPT !.i = x] \in Mems
           /\ \A x \in SUBSET Interests : [m EXCEPT !.rows = x] \in Mems
           /\ \A x \in SUBSET Listings : [m EXCEPT !.rerun = x] \in Mems
           /\ \A x \in {"idle", "close", "findInterests", "expire"} :
                 [m EXCEPT !.back = x] \in Mems
BY DEF Mems

(* Which edits leave the request and the listing at hand alone.            *)
LEMMA MemHands ==
    ASSUME NEW m \in Mems
    PROVE  /\ \A x : [m EXCEPT !.rows = x].i = m.i /\ [m EXCEPT !.rows = x].l = m.l
           /\ \A x, y : [m EXCEPT !.due = y, !.l = x].l = x
           /\ \A x, y : [m EXCEPT !.rerun = y, !.l = x].l = x
           /\ \A x : [m EXCEPT !.l = x].l = x
           /\ \A x : [m EXCEPT !.i = x].i = x
           /\ \A x, y : [m EXCEPT !.i = x, !.now = y].i = x
BY DEF Mems

LEMMA RowTypes ==
    ASSUME TypeOK
    PROVE  /\ \A r \in ListingRows : Closed(r) \in ListingRows
           /\ \A r \in ListingRows : Activated(r) \in ListingRows
           /\ \A i \in Interests : Matched(i) \in ListingRows
           /\ \A r \in InterestRows : Requested(r) \in InterestRows
           /\ \A r \in InterestRows, s \in InterestStatus :
                 Answered(r, s) \in InterestRows /\ Ended(r, s) \in InterestRows
<1> USE DEF ListingRows, InterestRows, Deadlines
<1>1. clock \in Int /\ ListingDeadline \in Int /\ InterestDeadline \in Int
  BY NumbersAssumption DEF TypeOK, ListingDeadline, InterestDeadline
<1>2. StartOfDay(clock) \in Int
  BY <1>1, NumbersAssumption DEF StartOfDay
<1>3. \A r \in ListingRows : Closed(r) \in ListingRows /\ Activated(r) \in ListingRows
  BY <1>1 DEF Closed, Activated, ListingStatus
<1>4. \A i \in Interests : Matched(i) \in ListingRows
  BY DEF Matched, ListingStatus
<1>5. \A r \in InterestRows : Requested(r) \in InterestRows
  BY <1>1, <1>2 DEF Requested, InterestStatus, OPEN_INTEREST_STATUSES
<1>6. \A r \in InterestRows, s \in InterestStatus :
         Answered(r, s) \in InterestRows /\ Ended(r, s) \in InterestRows
  BY DEF Answered, Ended
<1> QED
  BY <1>3, <1>4, <1>5, <1>6

(* The control state after a move.                                         *)
Free == {"idle", "close", "findInterests", "expire", "ready", "rerun"}

LEMMA MoveFree ==
    ASSUME ControlOK, NEW p \in Procs, NEW label \in Free, NEW m \in Mems,
           Move(p, label, m)
    PROVE  ControlOK'
BY DEF ControlOK, Move, Free, Labels, AtInterest, AtListing

LEMMA MoveToInterest ==
    ASSUME ControlOK, NEW p \in Procs, NEW label \in AtInterest, NEW m \in Mems,
           m.i \in Interests, Move(p, label, m)
    PROVE  ControlOK'
BY DEF ControlOK, Move, Labels, AtInterest, AtListing

LEMMA MoveToListing ==
    ASSUME ControlOK, NEW p \in Procs, NEW label \in AtListing, NEW m \in Mems,
           m.l \in Listings, Move(p, label, m)
    PROVE  ControlOK'
BY DEF ControlOK, Move, Labels, AtInterest, AtListing

LEMMA KeepFree ==
    ASSUME ControlOK, NEW p \in Procs, NEW m \in Mems, pc[p] \in Free, Keep(p, m)
    PROVE  ControlOK'
BY DEF ControlOK, Keep, Free, AtInterest, AtListing

LEMMA DoneType ==
    ASSUME ControlOK, NEW p \in Procs, Done(p)
    PROVE  ControlOK'
BY MoveFree, BlankType DEF Done, Free

(* The tables after an update of one row.                                  *)
LEMMA SetType ==
    ASSUME TypeOK
    PROVE  /\ \A l \in Listings \cup {Null}, r \in ListingRows :
                 SetListing(l, r) => listing' \in [Listings -> ListingRows]
           /\ \A i \in Interests \cup {Null}, r \in InterestRows :
                 SetInterest(i, r) => interest' \in [Interests -> InterestRows]
BY DEF TypeOK, SetListing, SetInterest

-----------------------------------------------------------------------------
(* TypeOK                                                                  *)

LEMMA SweepType ==
    ASSUME TypeOK, NEW p \in Procs, Sweep(p)
    PROVE  TypeOK'
<1> USE InterestsType, BlankType
<1>0. mem[p] \in Mems /\ clock \in Int /\ ControlOK
  BY DEF TypeOK, ControlOK
<1>m. /\ mem[p].due \subseteq Listings /\ mem[p].rerun \subseteq Listings
      /\ mem[p].rows \subseteq Interests /\ mem[p].l \in Listings \cup {Null}
      /\ mem[p].back \in {"idle", "close", "findInterests", "expire"}
  BY <1>0 DEF Mems
<1>1. CASE ExpireListings(p)
  <2>1. PICK B \in Oldest(OverdueListings(clock), listing, ListingSweepLimit) :
          Move(p, "close", [Blank EXCEPT !.now = clock, !.due = B])
    BY <1>1 DEF ExpireListings
  <2>2. B \in SUBSET Listings
    BY <2>1 DEF Oldest, OverdueListings
  <2>3. [Blank EXCEPT !.now = clock, !.due = B] \in Mems
    BY <1>0, <2>2, MemEdits
  <2> QED
    BY <1>1, <2>1, <2>3, MoveFree DEF ExpireListings, TypeOK, Free
<1>2. CASE CloseExpired(p)
  <2>1. PICK l \in mem[p].due :
          \/ /\ SetListing(l, Closed(listing[l]))
             /\ Move(p, "stale", [mem[p] EXCEPT !.due = @ \ {l}, !.l = l])
          \/ /\ Keep(p, [mem[p] EXCEPT !.due = @ \ {l}])
             /\ UNCHANGED listing
    BY <1>2 DEF CloseExpired
  <2>2. l \in Listings /\ mem[p].due \ {l} \in SUBSET Listings
    BY <1>m, <2>1
  <2>3. /\ [mem[p] EXCEPT !.due = @ \ {l}] \in Mems
        /\ [mem[p] EXCEPT !.due = @ \ {l}, !.l = l] \in Mems
    BY <1>0, <2>2, MemEdits
  <2>4. Closed(listing[l]) \in ListingRows
    BY <2>2, RowTypes DEF TypeOK
  <2>5. listing' \in [Listings -> ListingRows]
    BY <2>1, <2>2, <2>4, SetType DEF TypeOK
  <2>6. [mem[p] EXCEPT !.due = @ \ {l}, !.l = l].l = l
    BY <1>0, MemHands
  <2>7. ControlOK'
    BY <1>0, <1>2, <2>1, <2>2, <2>3, <2>6, MoveToListing, KeepFree
    DEF CloseExpired, Free, AtListing
  <2> QED
    BY <2>7, <1>2, <2>5, <2>6 DEF CloseExpired, TypeOK
<1>3. CASE FindStaleInterests(p)
  <2>1. OpenTouching(mem[p].l) \in SUBSET Interests
    BY DEF OpenTouching
  <2>2. /\ [mem[p] EXCEPT !.l = Null] \in Mems
        /\ [mem[p] EXCEPT !.rows = OpenTouching(mem[p].l)] \in Mems
    BY <1>0, <2>1, MemEdits
  <2>3. mem[p].l \in Listings /\ [mem[p] EXCEPT !.rows = OpenTouching(mem[p].l)].l = mem[p].l
    BY <1>0, <1>3, MemHands DEF FindStaleInterests, ControlOK, AtListing
  <2>4. ControlOK'
    BY <1>0, <1>3, <2>2, <2>3, MoveFree, MoveToListing DEF FindStaleInterests, Free, AtListing
  <2> QED
    BY <1>3, <2>4 DEF FindStaleInterests, TypeOK
<1>4. CASE ReleaseStale(p)
  <2> DEFINE again == {Requester(i) : i \in mem[p].rows} \ {mem[p].l}
  <2>1. again \in SUBSET Listings
    BY <1>m
  <2>2. [mem[p] EXCEPT !.rerun = again, !.rows = {}, !.l = Null, !.back = "close"] \in Mems
    <3> HIDE DEF again
    <3> QED
      BY <1>0, <2>1, MemEdits
  <2>3. ControlOK'
    BY <1>0, <1>4, <2>2, MoveFree DEF ReleaseStale, Free
  <2>4. interest' \in [Interests -> InterestRows]
    BY <1>4, RowTypes DEF ReleaseStale, TypeOK, InterestStatus
  <2> QED
    BY <1>4, <2>3, <2>4 DEF ReleaseStale, TypeOK
<1>5. CASE ExpirePendingChains(p)
  <2>1. PICK broken \in SUBSET Chains :
          \/ Move(p, "findInterests", Blank)
          \/ Move(p, "rerun", [Blank EXCEPT !.rerun = UNION broken,
                                            !.back = "findInterests"])
    BY <1>5 DEF ExpirePendingChains
  <2>2. UNION broken \in SUBSET Listings
    BY ListingsAssumption
  <2>3. [Blank EXCEPT !.rerun = UNION broken, !.back = "findInterests"] \in Mems
    BY <2>2, MemEdits
  <2>4. ControlOK'
    BY <1>0, <2>1, <2>3, MoveFree DEF Free
  <2> QED
    BY <1>5, <2>4 DEF ExpirePendingChains, TypeOK
<1>6. CASE ExpireListingInterests(p)
  <2>1. PICK B \in Oldest(OverdueInterests(clock), interest, InterestSweepLimit) :
          Move(p, "expire", [Blank EXCEPT !.rows = B])
    BY <1>6 DEF ExpireListingInterests
  <2>2. B \in SUBSET Interests
    BY <2>1 DEF Oldest, OverdueInterests
  <2>3. [Blank EXCEPT !.rows = B] \in Mems
    BY <2>2, MemEdits
  <2> QED
    BY <1>6, <2>1, <2>3, MoveFree DEF ExpireListingInterests, TypeOK, Free
<1>7. CASE ExpireInterest(p)
  <2>1. PICK i \in mem[p].rows :
          \/ /\ SetInterest(i, Answered(interest[i], "EXPIRED"))
             /\ Move(p, "rerun", [mem[p] EXCEPT !.rows = @ \ {i},
                                   !.rerun = {Requester(i)}, !.back = "expire"])
          \/ /\ Keep(p, [mem[p] EXCEPT !.rows = @ \ {i}])
             /\ UNCHANGED interest
    BY <1>7 DEF ExpireInterest
  <2>2. /\ i \in Interests /\ mem[p].rows \ {i} \in SUBSET Interests
        /\ {Requester(i)} \in SUBSET Listings
    BY <1>m, <2>1
  <2>3. /\ [mem[p] EXCEPT !.rows = @ \ {i}] \in Mems
        /\ [mem[p] EXCEPT !.rows = @ \ {i}, !.rerun = {Requester(i)},
                          !.back = "expire"] \in Mems
    BY <1>0, <2>2, MemEdits
  <2>4. Answered(interest[i], "EXPIRED") \in InterestRows
    BY <2>2, RowTypes DEF TypeOK, InterestStatus
  <2>5. interest' \in [Interests -> InterestRows]
    BY <2>1, <2>2, <2>4, SetType DEF TypeOK
  <2>6. ControlOK'
    BY <1>0, <1>7, <2>1, <2>3, MoveFree, KeepFree DEF ExpireInterest, Free
  <2> QED
    BY <1>7, <2>5, <2>6 DEF ExpireInterest, TypeOK
<1>8. CASE InterestsSwept(p)
  BY <1>0, <1>8, MoveFree DEF InterestsSwept, TypeOK, Free
<1>9. CASE RerunRead(p)
  <2>1. PICK l \in mem[p].rerun :
          \/ Move(p, "rerunClose", [mem[p] EXCEPT !.rerun = @ \ {l}, !.l = l])
          \/ Keep(p, [mem[p] EXCEPT !.rerun = @ \ {l}])
    BY <1>9 DEF RerunRead
  <2>2. l \in Listings /\ mem[p].rerun \ {l} \in SUBSET Listings
    BY <1>m, <2>1
  <2>3. /\ [mem[p] EXCEPT !.rerun = @ \ {l}] \in Mems
        /\ [mem[p] EXCEPT !.rerun = @ \ {l}, !.l = l] \in Mems
    BY <1>0, <2>2, MemEdits
  <2>4. [mem[p] EXCEPT !.rerun = @ \ {l}, !.l = l].l = l
    BY <1>0, MemHands
  <2>5. ControlOK'
    BY <1>0, <1>9, <2>1, <2>2, <2>3, <2>4, MoveToListing, KeepFree
    DEF RerunRead, Free, AtListing
  <2> QED
    BY <1>9, <2>5 DEF RerunRead, TypeOK
<1>10. CASE RerunClose(p)
  <2>1. [mem[p] EXCEPT !.l = Null] \in Mems
    BY <1>0, MemEdits
  <2>2. ControlOK'
    BY <1>0, <1>10, <2>1, MoveFree DEF RerunClose, Free
  <2>3. listing' \in [Listings -> ListingRows]
    BY <1>10, RowTypes DEF RerunClose, TypeOK, SetListing
  <2> QED
    BY <1>10, <2>2, <2>3 DEF RerunClose, TypeOK
<1>11. CASE RerunDone(p)
  <2>1. [mem[p] EXCEPT !.back = "idle"] \in Mems
    BY <1>0, MemEdits
  <2> QED
    BY <1>11, <1>m, <2>1, MoveFree DEF RerunDone, TypeOK, Free
<1> QED
  BY <1>1, <1>2, <1>3, <1>4, <1>5, <1>6, <1>7, <1>8, <1>9, <1>10, <1>11 DEF Sweep

LEMMA HandleType ==
    ASSUME TypeOK, NEW w \in Workers, Handle(w)
    PROVE  TypeOK'
<1> USE InterestsType, BlankType
<1>0. w \in Procs /\ mem[w] \in Mems /\ clock \in Int /\ ControlOK
  BY DEF TypeOK, ControlOK, Procs
<1>m. /\ mem[w].rows \subseteq Interests /\ mem[w].l \in Listings \cup {Null}
      /\ mem[w].i \in Interests \cup {Null}
  BY <1>0 DEF Mems
<1>b. /\ \A S \in SUBSET Listings : [Blank EXCEPT !.rerun = S] \in Mems
      /\ \A i \in Interests \cup {Null} : [Blank EXCEPT !.i = i] \in Mems
      /\ \A l \in Listings : [Blank EXCEPT !.l = l] \in Mems
      /\ \A S \in SUBSET Interests : [mem[w] EXCEPT !.rows = S] \in Mems
  BY <1>0, MemEdits
<1>s. /\ \A s \in InterestStatus :
            SetInterest(mem[w].i, Answered(interest[mem[w].i], s))
              => interest' \in [Interests -> InterestRows]
      /\ SetInterest(mem[w].i, Requested(interest[mem[w].i]))
              => interest' \in [Interests -> InterestRows]
      /\ \A l \in Listings \cup {Null} : SetListing(l, Activated(listing[l]))
              => listing' \in [Listings -> ListingRows]
  BY <1>m, RowTypes DEF TypeOK, SetInterest, SetListing
<1>1. CASE RunForListing(w) \/ RerunListingsForMembers(w)
  <2>1. PICK S \in SUBSET Listings : Move(w, "rerun", [Blank EXCEPT !.rerun = S])
    BY <1>1, ListingsAssumption DEF RunForListing, RerunListingsForMembers
  <2>2. ControlOK'
    BY <1>0, <1>b, <2>1, MoveFree DEF Free
  <2> QED
    BY <1>1, <2>2 DEF RunForListing, RerunListingsForMembers, TypeOK
<1>2. CASE RequestInterest(w)
  <2>1. PICK i \in Interests : Move(w, "openCap", [Blank EXCEPT !.i = i, !.now = clock])
    BY <1>2 DEF RequestInterest
  <2>2. [Blank EXCEPT !.i = i, !.now = clock] \in Mems
    BY <1>0, MemEdits
  <2>3. [Blank EXCEPT !.i = i, !.now = clock].i = i
    BY MemHands
  <2>4. ControlOK'
    BY <1>0, <2>1, <2>2, <2>3, MoveToInterest DEF AtInterest
  <2> QED
    BY <1>2, <2>4 DEF RequestInterest, TypeOK
<1>3. CASE CheckOpenCap(w) \/ CheckDailyCap(w)
  <2>0. mem[w].i \in Interests
    BY <1>0, <1>3 DEF ControlOK, CheckOpenCap, CheckDailyCap, AtInterest
  <2>1. ControlOK'
    BY <1>0, <1>3, <2>0, MoveToInterest, DoneType DEF CheckOpenCap, CheckDailyCap, AtInterest
  <2> QED
    BY <1>3, <2>1 DEF CheckOpenCap, CheckDailyCap, TypeOK
<1>4. CASE FindRequesterListing(w)
  <2>0. mem[w].i \in Interests /\ [Blank EXCEPT !.i = mem[w].i].i = mem[w].i
    BY <1>0, <1>4, MemHands DEF ControlOK, FindRequesterListing, AtInterest
  <2>1. ControlOK'
    BY <1>0, <1>4, <1>b, <2>0, MoveToInterest, DoneType DEF FindRequesterListing, AtInterest
  <2> QED
    BY <1>4, <2>1 DEF FindRequesterListing, TypeOK
<1>5. CASE UpsertInterest(w) \/ ApproveInterest(w) \/ DeclineInterest(w)
  <2>1. interest' \in [Interests -> InterestRows]
    BY <1>5, <1>s DEF UpsertInterest, ApproveInterest, DeclineInterest, InterestStatus,
                      OPEN_INTEREST_STATUSES
  <2>2. ControlOK'
    BY <1>0, <1>5, DoneType DEF UpsertInterest, ApproveInterest, DeclineInterest
  <2> QED
    BY <1>5, <2>1, <2>2 DEF UpsertInterest, ApproveInterest, DeclineInterest, TypeOK
<1>6. CASE \/ ReadForApproval(w) \/ ReadForDecline(w)
           \/ ConfirmRenter(w) \/ ConfirmTakenByRequester(w)
  <2>1. PICK i \in Interests, label \in {"approve", "decline", "txTarget"} :
          Move(w, label, [Blank EXCEPT !.i = i]) /\ agreed' \subseteq agreed \cup {i}
    BY <1>6 DEF ReadForApproval, ReadForDecline, ConfirmRenter, ConfirmTakenByRequester
  <2>2. [Blank EXCEPT !.i = i] \in Mems /\ [Blank EXCEPT !.i = i].i = i
    BY <1>b, MemHands
  <2>3. ControlOK'
    BY <1>0, <2>1, <2>2, MoveToInterest DEF AtInterest
  <2> QED
    BY <2>3, <1>6, <2>1, <2>2 DEF ReadForApproval, ReadForDecline, ConfirmRenter,
                            ConfirmTakenByRequester, TypeOK
<1>7. CASE TxTarget(w) \/ TxRequester(w)
  <2>1. /\ RivalsOnTarget(mem[w].i) \in SUBSET Interests
        /\ mem[w].rows \cup RivalsOnRequester(mem[w].i) \in SUBSET Interests
    BY <1>m DEF RivalsOnTarget, RivalsOnRequester
  <2>2. /\ mem[w].i \in Interests
        /\ \A S \in SUBSET Interests : [mem[w] EXCEPT !.rows = S].i = mem[w].i
    BY <1>0, <1>7, MemHands DEF ControlOK, TxTarget, TxRequester, AtInterest
  <2>3. ControlOK'
    BY <1>0, <1>7, <1>b, <2>1, <2>2, MoveToInterest DEF TxTarget, TxRequester, AtInterest
  <2> QED
    BY <1>7, <2>3 DEF TxTarget, TxRequester, TypeOK
<1>8. CASE ReadForRenewal(w)
  <2>1. PICK l \in Listings : Move(w, "renew", [Blank EXCEPT !.l = l])
    BY <1>8 DEF ReadForRenewal
  <2>2. [Blank EXCEPT !.l = l] \in Mems /\ [Blank EXCEPT !.l = l].l = l
    BY <1>b, MemHands
  <2>3. ControlOK'
    BY <1>0, <2>1, <2>2, MoveToListing DEF AtListing
  <2> QED
    BY <2>3, <1>8, <2>2 DEF ReadForRenewal, TypeOK
<1>9. CASE CreateListing(w)
  BY <1>9, <1>s DEF CreateListing, TypeOK, ControlOK
<1>10. CASE RenewListing(w)
  <2>1. ControlOK'
    BY <1>0, <1>10, DoneType DEF RenewListing
  <2> QED
    BY <1>10, <1>m, <1>s, <2>1 DEF RenewListing, TypeOK
<1>11. CASE Return(w)
  BY <1>0, <1>11, DoneType DEF Return, TypeOK
<1>12. CASE TxCommit(w)
  <2>1. {Requester(j) : j \in mem[w].rows} \in SUBSET Listings
    BY <1>m
  <2>2. ControlOK'
    BY <1>0, <1>12, <1>b, <2>1, MoveFree DEF TxCommit, Free
  <2>3. interest' \in [Interests -> InterestRows]
    BY <1>12, RowTypes DEF TxCommit, TypeOK, InterestStatus
  <2>4. listing' \in [Listings -> ListingRows]
    <3>1. mem[w].i \in Interests
      BY <1>0, <1>12 DEF TxCommit, ControlOK, AtInterest
    <3> QED
      BY <1>12, <3>1, RowTypes DEF TxCommit, TypeOK
  <2>5. late' \subseteq Listings
    <3>1. mem[w].i \in Interests
      BY <1>0, <1>12 DEF TxCommit, ControlOK, AtInterest
    <3> QED
      BY <1>12, <3>1 DEF TxCommit, TypeOK, MatchedBy
  <2> QED
    BY <1>12, <2>2, <2>3, <2>4, <2>5 DEF TxCommit, TypeOK
<1> QED
  BY <1>1, <1>2, <1>3, <1>4, <1>5, <1>6, <1>7, <1>8, <1>9, <1>10, <1>11, <1>12 DEF Handle

(* Every table, every process's place and what it has read keep their type.*)
THEOREM TypeCorrect == Spec => []TypeOK
<1>1. Init => TypeOK
  BY ListingsAssumption, NumbersAssumption, BlankType
  DEF Init, TypeOK, ControlOK, Labels, AtInterest, AtListing, ListingRows, InterestRows, ListingStatus, InterestStatus, Deadlines
<1>2. TypeOK /\ [Next]_vars => TypeOK'
  <2> SUFFICES ASSUME TypeOK, [Next]_vars PROVE TypeOK'
    OBVIOUS
  <2>1. ASSUME NEW p \in Procs, Fail(p) PROVE TypeOK'
    BY <2>1, DoneType DEF Fail, TypeOK
  <2>2. CASE Tick
    BY <2>2 DEF Tick, TypeOK, ControlOK
  <2>3. CASE UNCHANGED vars
    BY <2>3 DEF vars, TypeOK, ControlOK
  <2> QED
    BY <2>1, <2>2, <2>3, SweepType, HandleType DEF Next
<1> QED
  BY <1>1, <1>2, PTL DEF Spec

-----------------------------------------------------------------------------
(* The nine actions that write a table; the others are reads.              *)

LEMMA Writers ==
    ASSUME [Next]_vars
    PROVE  \/ UNCHANGED <<listing, interest>>
           \/ \E p \in Procs : \/ CloseExpired(p) \/ RerunClose(p)
                               \/ ReleaseStale(p) \/ ExpireInterest(p)
           \/ \E w \in Workers : \/ UpsertInterest(w) \/ ApproveInterest(w)
                                 \/ DeclineInterest(w) \/ TxCommit(w)
                                 \/ CreateListing(w) \/ RenewListing(w)
<1>1. ASSUME NEW p \in Procs, Sweep(p)
      PROVE  \/ UNCHANGED <<listing, interest>>
             \/ CloseExpired(p) \/ RerunClose(p) \/ ReleaseStale(p) \/ ExpireInterest(p)
  BY <1>1 DEF Sweep, ExpireListings, FindStaleInterests, ExpirePendingChains,
              ExpireListingInterests, InterestsSwept, RerunRead, RerunDone
<1>2. ASSUME NEW w \in Workers, Handle(w)
      PROVE  \/ UNCHANGED <<listing, interest>>
             \/ UpsertInterest(w) \/ ApproveInterest(w) \/ DeclineInterest(w)
             \/ TxCommit(w) \/ CreateListing(w) \/ RenewListing(w)
  BY <1>2 DEF Handle, RunForListing, RerunListingsForMembers, RequestInterest,
              CheckOpenCap, CheckDailyCap, FindRequesterListing, ReadForApproval,
              ReadForDecline, ConfirmRenter, ConfirmTakenByRequester, TxTarget,
              TxRequester, ReadForRenewal, Return
<1>3. ASSUME NEW p \in Procs, Fail(p) PROVE UNCHANGED <<listing, interest>>
  BY <1>3 DEF Fail
<1> QED
  BY <1>1, <1>2, <1>3 DEF Next, Tick, vars

(* What a writer writes, and where.                                        *)
LEMMA RowWritten ==
    ASSUME TypeOK
    PROVE  /\ \A p \in Procs : CloseExpired(p) =>
                 \/ UNCHANGED listing
                 \/ \E l \in Listings : /\ StillOverdue(l, mem[p].now)
                                        /\ SetListing(l, Closed(listing[l]))
           /\ \A p \in Procs : RerunClose(p) =>
                 /\ mem[p].l \in Listings /\ pc[p] = "rerunClose"
                 /\ \/ UNCHANGED listing
                    \/ /\ IsActive(mem[p].l)
                       /\ SetListing(mem[p].l, Closed(listing[mem[p].l]))
           /\ \A p \in Procs : ExpireInterest(p) =>
                 \/ UNCHANGED interest
                 \/ \E i \in Interests : /\ IsOpen(i)
                                         /\ SetInterest(i, Answered(interest[i], "EXPIRED"))
           /\ \A w \in Workers : \/ UpsertInterest(w) \/ ApproveInterest(w)
                                 \/ DeclineInterest(w) \/ TxCommit(w)
                 => mem[w].i \in Interests
           /\ \A w \in Workers : CreateListing(w) =>
                 \E l \in Listings : /\ listing[l].status = "NONE"
                                     /\ SetListing(l, Activated(listing[l]))
           /\ \A w \in Workers : RenewListing(w) =>
                 \E l \in Listings : SetListing(l, Activated(listing[l]))
<1>1. \A p \in Procs : mem[p].due \subseteq Listings /\ mem[p].rows \subseteq Interests
  BY DEF TypeOK, ControlOK, Mems
<1>2. \A p \in Procs : CloseExpired(p) =>
         \/ UNCHANGED listing
         \/ \E l \in Listings : /\ StillOverdue(l, mem[p].now)
                                /\ SetListing(l, Closed(listing[l]))
  BY <1>1 DEF CloseExpired
<1>3. \A p \in Procs : ExpireInterest(p) =>
         \/ UNCHANGED interest
         \/ \E i \in Interests : /\ IsOpen(i)
                                 /\ SetInterest(i, Answered(interest[i], "EXPIRED"))
  BY <1>1 DEF ExpireInterest, StillExpirable
<1>4. \A p \in Procs : RerunClose(p) => mem[p].l \in Listings
  BY DEF RerunClose, TypeOK, ControlOK, AtListing
<1>5. \A w \in Workers : \/ UpsertInterest(w) \/ ApproveInterest(w)
                         \/ DeclineInterest(w) \/ TxCommit(w)
         => mem[w].i \in Interests
  BY DEF UpsertInterest, ApproveInterest, DeclineInterest, TxCommit, TypeOK,
         ControlOK, AtInterest, Procs
<1>6. \A w \in Workers : RenewListing(w) => mem[w].l \in Listings
  BY DEF RenewListing, TypeOK, ControlOK, AtListing, Procs
<1> QED
  BY <1>2, <1>3, <1>4, <1>5, <1>6 DEF RerunClose, RerunCloses, CreateListing, RenewListing

-----------------------------------------------------------------------------
(* Deadlined, from TypeOK alone.                                           *)

LEMMA DeadlinedStep ==
    ASSUME TypeOK, Deadlined, [Next]_vars
    PROVE  Deadlined'
<1> DEFINE L(f) == \A l \in Listings : (f[l].status = "ACTIVE") <=> (f[l].expiresAt # Null)
           I(f) == \A i \in Interests : f[i].status = "REQUESTED" => f[i].expiresAt # Null
<1>0. L(listing) /\ I(interest)
  BY DEF Deadlined, IsActive
<1>1. ListingDeadline # Null /\ InterestDeadline # Null
  BY NumbersAssumption, NullAssumption, NullNotATime DEF TypeOK, ListingDeadline, InterestDeadline
<1>2. \A l \in Listings : SetListing(l, Closed(listing[l])) => L(listing')
  BY <1>0 DEF SetListing, Closed, TypeOK
<1>3. \A l \in Listings : SetListing(l, Activated(listing[l])) => L(listing')
  BY <1>0, <1>1 DEF SetListing, Activated, TypeOK
<1>4. \A i \in Interests, s \in InterestStatus \ {"REQUESTED"} :
         SetInterest(i, Answered(interest[i], s)) => I(interest')
  BY <1>0 DEF SetInterest, Answered, TypeOK, InterestRows
<1>5. ASSUME NEW p \in Procs, CloseExpired(p) \/ RerunClose(p) PROVE Deadlined'
  <2>1. L(listing')
    BY <1>0, <1>2, <1>5, RowWritten
  <2>2. UNCHANGED interest
    BY <1>5 DEF CloseExpired, RerunClose
  <2> QED
    BY <1>0, <2>1, <2>2 DEF Deadlined, IsActive
<1>6. ASSUME NEW p \in Procs, ExpireInterest(p) PROVE Deadlined'
  <2>1. I(interest')
    BY <1>0, <1>4, <1>6, RowWritten DEF InterestStatus
  <2>2. UNCHANGED listing
    BY <1>6 DEF ExpireInterest
  <2> QED
    BY <1>0, <2>1, <2>2 DEF Deadlined, IsActive
<1>7. ASSUME NEW p \in Procs, ReleaseStale(p) PROVE Deadlined'
  BY <1>0, <1>7 DEF ReleaseStale, Ended, Deadlined, IsActive
<1>8. ASSUME NEW w \in Workers, UpsertInterest(w) PROVE Deadlined'
  <2>1. I(interest')
    BY <1>0, <1>1, <1>8 DEF UpsertInterest, SetInterest, Requested, TypeOK
  <2> QED
    BY <1>0, <1>8, <2>1 DEF UpsertInterest, Deadlined, IsActive
<1>9. ASSUME NEW w \in Workers, ApproveInterest(w) \/ DeclineInterest(w) PROVE Deadlined'
  <2>1. I(interest')
    BY <1>4, <1>9, RowWritten DEF ApproveInterest, DeclineInterest, InterestStatus,
                                  OPEN_INTEREST_STATUSES
  <2>2. UNCHANGED listing
    BY <1>9 DEF ApproveInterest, DeclineInterest
  <2> QED
    BY <1>0, <2>1, <2>2 DEF Deadlined, IsActive
<1>10. ASSUME NEW w \in Workers, TxCommit(w) PROVE Deadlined'
  <2>1. L(listing')
    BY <1>0, <1>10 DEF TxCommit, Matched
  <2>2. I(interest')
    BY <1>0, <1>10 DEF TxCommit, Ended
  <2> QED
    BY <2>1, <2>2 DEF Deadlined, IsActive
<1>11. ASSUME NEW w \in Workers, CreateListing(w) \/ RenewListing(w) PROVE Deadlined'
  <2>1. L(listing')
    BY <1>3, <1>11, RowWritten
  <2>2. UNCHANGED interest
    BY <1>11 DEF CreateListing, RenewListing
  <2> QED
    BY <1>0, <2>1, <2>2 DEF Deadlined, IsActive
<1>12. CASE UNCHANGED <<listing, interest>>
  BY <1>0, <1>12 DEF Deadlined, IsActive
<1> QED
  BY <1>5, <1>6, <1>7, <1>8, <1>9, <1>10, <1>11, <1>12, Writers

(* An ACTIVE listing and a REQUESTED request always carry a deadline.      *)
THEOREM DeadlinedAlways == Spec => []Deadlined
<1>1. Init => Deadlined
  BY NullAssumption, NullNotATime, NumbersAssumption DEF Init, Deadlined, IsActive
<1> QED
  BY <1>1, TypeCorrect, DeadlinedStep, PTL DEF Spec

-----------------------------------------------------------------------------
(* BothSidesMatched                                                        *)

(* A match names a request the listing is a party of, and whatever became  *)
(* of the other party, it was matched too.                                 *)
MatchNamed ==
    \A l \in Listings :
        /\ listing[l].status = "MATCHED" => listing[l].matched # Null
        /\ listing[l].matched # Null =>
              /\ l \in MatchedBy(listing[l].matched)
              /\ \A m \in MatchedBy(listing[l].matched) : listing[m].matched # Null

LEMMA MatchNamedStep ==
    ASSUME TypeOK, MatchNamed, [Next]_vars
    PROVE  MatchNamed'
<1> DEFINE Same(l) == /\ listing'[l].matched = listing[l].matched
                      /\ listing'[l].status = "MATCHED" => listing[l].status = "MATCHED"
<1>1. ASSUME \A l \in Listings : Same(l) PROVE MatchNamed'
  <2> SUFFICES ASSUME NEW l \in Listings
               PROVE  /\ listing'[l].status = "MATCHED" => listing'[l].matched # Null
                      /\ listing'[l].matched # Null =>
                            /\ l \in MatchedBy(listing'[l].matched)
                            /\ \A m \in MatchedBy(listing'[l].matched) :
                                  listing'[m].matched # Null
    BY DEF MatchedBy, MatchNamed
  <2>1. listing[l].matched # Null => MatchedBy(listing[l].matched) \subseteq Listings
    BY InterestsType DEF TypeOK, ListingRows, MatchedBy
  <2> QED
    BY <1>1, <2>1 DEF MatchedBy, MatchNamed
<1>2. ASSUME NEW p \in Procs, CloseExpired(p) \/ RerunClose(p) PROVE MatchNamed'
  <2>1. \/ UNCHANGED listing
        \/ \E l \in Listings : SetListing(l, Closed(listing[l]))
    BY <1>2, RowWritten
  <2>2. \A l \in Listings : Same(l)
    BY <2>1 DEF SetListing, Closed, TypeOK
  <2> QED
    BY <1>1, <2>2
<1>3. ASSUME NEW p \in Procs, ReleaseStale(p) \/ ExpireInterest(p) PROVE MatchNamed'
  BY <1>1, <1>3 DEF ReleaseStale, ExpireInterest
<1>4. ASSUME NEW w \in Workers, UpsertInterest(w) \/ ApproveInterest(w) \/ DeclineInterest(w)
      PROVE  MatchNamed'
  BY <1>1, <1>4 DEF UpsertInterest, ApproveInterest, DeclineInterest
<1>5. ASSUME NEW w \in Workers, CreateListing(w) \/ RenewListing(w) PROVE MatchNamed'
  BY <1>1, <1>5, RowWritten DEF SetListing, Activated, TypeOK
<1>6. ASSUME NEW w \in Workers, TxCommit(w) PROVE MatchNamed'
  <2> DEFINE i == mem[w].i
  <2>1. i \in Interests /\ i # Null /\ MatchedBy(i) \subseteq Listings
    BY <1>6, RowWritten, InterestsType DEF MatchedBy
  <2>2. \A l \in Listings : listing'[l] = IF l \in MatchedBy(i) THEN Matched(i) ELSE listing[l]
    BY <1>6 DEF TxCommit
  <2>3. \A l \in MatchedBy(i) : listing'[l].matched = i
    BY <2>1, <2>2 DEF Matched
  <2> SUFFICES ASSUME NEW l \in Listings
               PROVE  /\ listing'[l].status = "MATCHED" => listing'[l].matched # Null
                      /\ listing'[l].matched # Null =>
                            /\ l \in MatchedBy(listing'[l].matched)
                            /\ \A m \in MatchedBy(listing'[l].matched) :
                                  listing'[m].matched # Null
    BY DEF MatchedBy, MatchNamed
  <2>4. CASE l \in MatchedBy(i)
    BY <2>1, <2>3, <2>4
  <2>5. CASE l \notin MatchedBy(i)
    <3>1. listing'[l] = listing[l]
      BY <2>2, <2>5
    <3>2. listing[l].matched # Null => MatchedBy(listing[l].matched) \subseteq Listings
      BY InterestsType DEF TypeOK, ListingRows, MatchedBy
    <3>3. \A m \in Listings : listing[m].matched # Null => listing'[m].matched # Null
      BY <2>1, <2>2, <2>3
    <3> QED
      BY <3>1, <3>2, <3>3 DEF MatchedBy, MatchNamed
  <2> QED
    BY <2>4, <2>5
<1>7. CASE UNCHANGED <<listing, interest>>
  BY <1>1, <1>7
<1> QED
  BY <1>2, <1>3, <1>4, <1>5, <1>6, <1>7, Writers

LEMMA MatchNamedAlways == Spec => []MatchNamed
<1>1. Init => MatchNamed
  BY DEF Init, MatchNamed
<1> QED
  BY <1>1, TypeCorrect, MatchNamedStep, PTL DEF Spec

(* A matched listing stays MATCHED unless a renewal had read it before the *)
(* match; those about to renew a MATCHED listing are known.                *)
MatchKept ==
    /\ \A l \in Listings :
          listing[l].matched # Null => l \in late \/ listing[l].status = "MATCHED"
    /\ \A v \in Workers : pc[v] = "renew" =>
          mem[v].l \in late \/ listing[mem[v].l].status # "MATCHED"

(* A handler about to renew was so before, or has just read the listing.   *)
LEMMA RenewalsStep ==
    ASSUME TypeOK, [Next]_vars, NEW v \in Workers, pc'[v] = "renew"
    PROVE  \/ pc[v] = "renew" /\ mem'[v].l = mem[v].l
           \/ Renewable(mem'[v].l) /\ UNCHANGED <<listing, late>>
<1> DEFINE Goal == \/ pc[v] = "renew" /\ mem'[v].l = mem[v].l
                   \/ Renewable(mem'[v].l) /\ UNCHANGED <<listing, late>>
<1>1. ASSUME NEW p \in Procs, NEW label, NEW m, Move(p, label, m), label # "renew"
      PROVE  Goal
  BY <1>1 DEF Move, TypeOK, ControlOK
<1>2. ASSUME NEW p \in Procs, NEW m, Keep(p, m), pc[p] # "renew" PROVE Goal
  BY <1>2 DEF Keep, TypeOK, ControlOK
<1>3. ASSUME NEW p \in Procs, Done(p) PROVE Goal
  BY <1>1, <1>3 DEF Done
<1>4. ASSUME NEW p \in Procs, Sweep(p) PROVE Goal
  <2>1. CASE ExpireListings(p) \/ FindStaleInterests(p) \/ ReleaseStale(p)
    BY <1>1, <2>1 DEF ExpireListings, FindStaleInterests, ReleaseStale
  <2>2. CASE CloseExpired(p) \/ ExpireInterest(p) \/ RerunRead(p)
    BY <1>1, <1>2, <2>2 DEF CloseExpired, ExpireInterest, RerunRead
  <2>3. CASE ExpirePendingChains(p) \/ ExpireListingInterests(p)
    BY <1>1, <2>3 DEF ExpirePendingChains, ExpireListingInterests
  <2>4. CASE InterestsSwept(p) \/ RerunClose(p)
    BY <1>1, <2>4 DEF InterestsSwept, RerunClose
  <2>5. CASE RerunDone(p)
    BY <1>1, <2>5 DEF RerunDone, TypeOK, ControlOK, Mems
  <2> QED
    BY <1>4, <2>1, <2>2, <2>3, <2>4, <2>5 DEF Sweep
<1>5. ASSUME NEW w \in Workers, Handle(w) PROVE Goal
  <2>0. w \in Procs
    BY DEF Procs
  <2>1. CASE RunForListing(w) \/ RerunListingsForMembers(w) \/ RequestInterest(w)
    BY <1>1, <2>0, <2>1 DEF RunForListing, RerunListingsForMembers, RequestInterest
  <2>2. CASE CheckOpenCap(w) \/ CheckDailyCap(w) \/ FindRequesterListing(w)
    BY <1>1, <1>3, <2>0, <2>2 DEF CheckOpenCap, CheckDailyCap, FindRequesterListing
  <2>3. CASE UpsertInterest(w) \/ ApproveInterest(w) \/ DeclineInterest(w)
    BY <1>3, <2>0, <2>3 DEF UpsertInterest, ApproveInterest, DeclineInterest
  <2>4. CASE \/ ReadForApproval(w) \/ ReadForDecline(w)
             \/ ConfirmRenter(w) \/ ConfirmTakenByRequester(w)
    BY <1>1, <2>0, <2>4
    DEF ReadForApproval, ReadForDecline, ConfirmRenter, ConfirmTakenByRequester
  <2>5. CASE TxTarget(w) \/ TxRequester(w) \/ TxCommit(w)
    BY <1>1, <2>0, <2>5 DEF TxTarget, TxRequester, TxCommit
  <2>6. CASE CreateListing(w)
    BY <2>6 DEF CreateListing
  <2>7. CASE ReadForRenewal(w)
    <3>1. PICK l \in Listings : Renewable(l) /\ Move(w, "renew", [Blank EXCEPT !.l = l])
      BY <2>7 DEF ReadForRenewal
    <3>2. [Blank EXCEPT !.l = l].l = l /\ UNCHANGED <<listing, late>>
      BY <2>7 DEF ReadForRenewal, Blank
    <3>3. CASE v = w
      BY <2>0, <3>1, <3>2, <3>3 DEF Move, TypeOK, ControlOK
    <3>4. CASE v # w
      BY <2>0, <3>1, <3>4 DEF Move, TypeOK, ControlOK
    <3> QED
      BY <3>3, <3>4
  <2>8. CASE RenewListing(w) \/ Return(w)
    BY <1>3, <2>0, <2>8 DEF RenewListing, Return
  <2> QED
    BY <1>5, <2>1, <2>2, <2>3, <2>4, <2>5, <2>6, <2>7, <2>8 DEF Handle
<1>6. ASSUME NEW p \in Procs, Fail(p) PROVE Goal
  BY <1>3, <1>6 DEF Fail
<1>7. CASE Tick \/ UNCHANGED vars
  BY <1>7 DEF Tick, vars
<1> QED
  BY <1>4, <1>5, <1>6, <1>7 DEF Next

LEMMA MatchKeptStep ==
    ASSUME TypeOK, MatchKept, [Next]_vars
    PROVE  MatchKept'
<1> DEFINE Kept(l) == listing'[l].matched # Null
                         => l \in late' \/ listing'[l].status = "MATCHED"
           NewlyMatched(l) == /\ listing'[l].status = "MATCHED"
                              /\ listing[l].status # "MATCHED"
<1>0. \A v \in Workers : pc[v] = "renew" => mem[v].l \in Listings
  BY DEF TypeOK, ControlOK, AtListing, Procs
<1>1. ASSUME late \subseteq late', \A l \in Listings : Kept(l),
             \A l \in Listings : NewlyMatched(l) /\ BeingRenewed(l) => l \in late'
      PROVE  MatchKept'
  <2>1. ASSUME NEW v \in Workers, pc'[v] = "renew"
        PROVE  mem'[v].l \in late' \/ listing'[mem'[v].l].status # "MATCHED"
    <3>1. CASE pc[v] = "renew" /\ mem'[v].l = mem[v].l
      BY <1>0, <1>1, <3>1 DEF MatchKept, BeingRenewed
    <3>2. CASE Renewable(mem'[v].l) /\ UNCHANGED <<listing, late>>
      BY <3>2 DEF Renewable
    <3> QED
      BY <2>1, <3>1, <3>2, RenewalsStep
  <2> QED
    BY <1>1, <2>1 DEF MatchKept
<1>2. ASSUME UNCHANGED <<listing, late>> PROVE MatchKept'
  BY <1>1, <1>2 DEF MatchKept
<1>3. ASSUME NEW l \in Listings, NEW row, SetListing(l, row), UNCHANGED late,
             row.matched = listing[l].matched, row.status # "MATCHED",
             listing[l].matched # Null => l \in late
      PROVE  MatchKept'
  <2>1. \A m \in Listings : Kept(m) /\ ~NewlyMatched(m)
    BY <1>3 DEF SetListing, MatchKept, TypeOK
  <2> QED
    BY <1>1, <1>3, <2>1
<1>4. ASSUME NEW p \in Procs, CloseExpired(p) \/ RerunClose(p) PROVE MatchKept'
  <2>1. \/ UNCHANGED listing
        \/ \E l \in Listings : IsActive(l) /\ SetListing(l, Closed(listing[l]))
    BY <1>4, RowWritten DEF StillOverdue
  <2>2. UNCHANGED late
    BY <1>4 DEF CloseExpired, RerunClose
  <2> QED
    BY <1>2, <1>3, <2>1, <2>2 DEF Closed, IsActive, MatchKept
<1>5. ASSUME NEW p \in Procs, ReleaseStale(p) \/ ExpireInterest(p) PROVE MatchKept'
  BY <1>2, <1>5 DEF ReleaseStale, ExpireInterest
<1>6. ASSUME NEW w \in Workers, UpsertInterest(w) \/ ApproveInterest(w) \/ DeclineInterest(w)
      PROVE  MatchKept'
  BY <1>2, <1>6 DEF UpsertInterest, ApproveInterest, DeclineInterest
<1>7. ASSUME NEW w \in Workers, CreateListing(w) PROVE MatchKept'
  <2>1. PICK l \in Listings : listing[l].status = "NONE" /\ SetListing(l, Activated(listing[l]))
    BY <1>7 DEF CreateListing
  <2> QED
    BY <1>3, <1>7, <2>1 DEF CreateListing, Activated, MatchKept
<1>8. ASSUME NEW w \in Workers, RenewListing(w) PROVE MatchKept'
  <2>1. /\ mem[w].l \in Listings /\ UNCHANGED late
        /\ SetListing(mem[w].l, Activated(listing[mem[w].l]))
    BY <1>0, <1>8 DEF RenewListing
  <2>2. listing[mem[w].l].matched # Null => mem[w].l \in late
    BY <1>8, <2>1 DEF RenewListing, MatchKept
  <2> QED
    BY <1>3, <2>1, <2>2 DEF Activated
<1>9. ASSUME NEW w \in Workers, TxCommit(w) PROVE MatchKept'
  <2>1. \A l \in Listings : listing'[l] = IF l \in MatchedBy(mem[w].i)
                                          THEN Matched(mem[w].i) ELSE listing[l]
    BY <1>9 DEF TxCommit
  <2>2. late' = late \cup {l \in MatchedBy(mem[w].i) : BeingRenewed(l)}
    BY <1>9 DEF TxCommit
  <2> QED
    BY <1>1, <2>1, <2>2 DEF Matched, MatchKept
<1>10. CASE UNCHANGED <<listing, interest>>
  <2>1. UNCHANGED late \/ \E w \in Workers : TxCommit(w)
    BY DEF Next, vars, Sweep, Handle, Fail, Tick,
           ExpireListings, CloseExpired, FindStaleInterests, ReleaseStale,
           ExpirePendingChains, ExpireListingInterests, ExpireInterest, InterestsSwept,
           RerunRead, RerunClose, RerunDone,
           RunForListing, RerunListingsForMembers, RequestInterest, CheckOpenCap,
           CheckDailyCap, FindRequesterListing, UpsertInterest, ReadForApproval,
           ApproveInterest, ReadForDecline, DeclineInterest, ConfirmRenter,
           ConfirmTakenByRequester, TxTarget, TxRequester, CreateListing,
           ReadForRenewal, RenewListing, Return
  <2> QED
    BY <1>2, <1>9, <1>10, <2>1
<1> QED
  BY <1>4, <1>5, <1>6, <1>7, <1>8, <1>9, <1>10, Writers

(* Both sides of a match stay MATCHED, except a listing whose renewal read *)
(* it before the match and wrote it after.                                 *)
THEOREM BothSidesMatchedAlways == Spec => []BothSidesMatched
<1>1. Init => MatchKept
  BY DEF Init, MatchKept, Procs
<1>2. TypeOK /\ MatchNamed /\ MatchKept => BothSidesMatched
  <2> SUFFICES ASSUME TypeOK, MatchNamed, MatchKept,
                      NEW l \in Listings, listing[l].matched # Null,
                      NEW m \in Parties(listing[l].matched)
               PROVE  m \in late \/ (listing[m].status = "MATCHED"
                                     /\ m \in Parties(listing[m].matched))
    BY DEF BothSidesMatched
  <2>1. m \in MatchedBy(listing[l].matched) /\ m \in Listings
    BY InterestsType DEF Parties, MatchedBy, TypeOK, ListingRows
  <2>2. listing[m].matched # Null
    BY <2>1 DEF MatchNamed
  <2>3. m \in Parties(listing[m].matched)
    BY <2>1, <2>2 DEF MatchNamed, Parties, MatchedBy
  <2> QED
    BY <2>1, <2>2, <2>3 DEF MatchKept
<1> QED
  BY <1>1, <1>2, TypeCorrect, MatchNamedAlways, MatchKeptStep, PTL DEF Spec

-----------------------------------------------------------------------------
(* ExpiryEndsOnlyOpen                                                      *)

(* An expiry never overwrites a final answer or a confirmation.            *)
THEOREM ExpiryEndsOnlyOpenAlways == Spec => ExpiryEndsOnlyOpen
<1> DEFINE Step == \A i \in Interests :
              interest'[i].status = "EXPIRED" =>
                  interest[i].status \in OPEN_INTEREST_STATUSES \cup {"EXPIRED"}
<1>1. ASSUME TypeOK, [Next]_vars PROVE Step
  <2>1. ASSUME NEW p \in Procs, CloseExpired(p) \/ RerunClose(p) PROVE Step
    BY <2>1 DEF CloseExpired, RerunClose
  <2>2. ASSUME NEW p \in Procs, ReleaseStale(p) PROVE Step
    BY <2>2 DEF ReleaseStale, StillOpen, IsOpen
  <2>3. ASSUME NEW p \in Procs, ExpireInterest(p) PROVE Step
    BY <1>1, <2>3, RowWritten DEF SetInterest, IsOpen, TypeOK
  <2>4. ASSUME NEW w \in Workers, UpsertInterest(w) \/ ApproveInterest(w) \/ DeclineInterest(w)
        PROVE  Step
    BY <1>1, <2>4 DEF UpsertInterest, ApproveInterest, DeclineInterest, SetInterest,
                      Requested, Answered, TypeOK, InterestRows
  <2>5. ASSUME NEW w \in Workers, TxCommit(w) PROVE Step
    BY <1>1, <2>5 DEF TxCommit, Ended
  <2>6. ASSUME NEW w \in Workers, CreateListing(w) \/ RenewListing(w) PROVE Step
    BY <2>6 DEF CreateListing, RenewListing
  <2>7. CASE UNCHANGED <<listing, interest>>
    BY <2>7
  <2> QED
    BY <1>1, <2>1, <2>2, <2>3, <2>4, <2>5, <2>6, <2>7, Writers
<1>2. TypeOK /\ [Next]_vars => [Step]_vars
  BY <1>1
<1> QED
  BY <1>2, TypeCorrect, PTL DEF Spec, ExpiryEndsOnlyOpen

-----------------------------------------------------------------------------
(* SweepClosesOnlyOverdue: what was overdue at the time of the query is    *)
(* overdue now, because that time has passed.                              *)

NowPast == \A p \in Procs : mem[p].now <= clock /\ clock >= 0

LEMMA NowPastStep ==
    ASSUME TypeOK, NowPast, [Next]_vars
    PROVE  NowPast'
<1>0. clock \in Int /\ \A q \in Procs : mem[q] \in Mems /\ mem[q].now \in Int
  BY DEF TypeOK, ControlOK, Mems
<1>1. ASSUME NEW p \in Procs, NEW label, NEW m, Move(p, label, m), UNCHANGED clock,
             m.now \in {0, clock, mem[p].now}
      PROVE  NowPast'
  BY <1>0, <1>1 DEF NowPast, Move, TypeOK, ControlOK
<1>2. ASSUME NEW p \in Procs, NEW m, Keep(p, m), UNCHANGED clock, m.now = mem[p].now
      PROVE  NowPast'
  BY <1>0, <1>2 DEF NowPast, Keep, TypeOK, ControlOK
<1>3. ASSUME NEW p \in Procs, Done(p), UNCHANGED clock PROVE NowPast'
  BY <1>1, <1>3 DEF Done, Blank
<1>n. /\ \A x, y : [Blank EXCEPT !.now = clock, !.due = y].now = clock
      /\ \A x : [Blank EXCEPT !.i = x, !.now = clock].now = clock
      /\ \A x : [Blank EXCEPT !.i = x].now = 0 /\ [Blank EXCEPT !.l = x].now = 0
      /\ \A x : [Blank EXCEPT !.rows = x].now = 0 /\ [Blank EXCEPT !.rerun = x].now = 0
      /\ \A x, y : [Blank EXCEPT !.rerun = x, !.back = y].now = 0
      /\ Blank.now = 0
  BY DEF Blank
<1>k. ASSUME NEW p \in Procs
      PROVE  /\ \A x : [mem[p] EXCEPT !.due = x].now = mem[p].now
             /\ \A x, y : [mem[p] EXCEPT !.due = x, !.l = y].now = mem[p].now
             /\ \A x : [mem[p] EXCEPT !.l = x].now = mem[p].now
             /\ \A x : [mem[p] EXCEPT !.rows = x].now = mem[p].now
             /\ \A x : [mem[p] EXCEPT !.rerun = x].now = mem[p].now
             /\ \A x : [mem[p] EXCEPT !.back = x].now = mem[p].now
             /\ \A x, y : [mem[p] EXCEPT !.rerun = x, !.l = y].now = mem[p].now
             /\ \A x, y, z : [mem[p] EXCEPT !.rows = x, !.rerun = y, !.back = z].now = mem[p].now
             /\ \A x, y, z, u : [mem[p] EXCEPT !.rerun = x, !.rows = y, !.l = z, !.back = u].now
                                  = mem[p].now
  BY <1>0 DEF Mems
<1>4. ASSUME NEW p \in Procs, Sweep(p) PROVE NowPast'
  <2>1. CASE ExpireListings(p)
    BY <1>1, <1>n, <2>1 DEF ExpireListings
  <2>2. CASE CloseExpired(p)
    <3>1. PICK l : \/ Move(p, "stale", [mem[p] EXCEPT !.due = @ \ {l}, !.l = l])
                   \/ Keep(p, [mem[p] EXCEPT !.due = @ \ {l}])
      BY <2>2 DEF CloseExpired
    <3>2. UNCHANGED clock
      BY <2>2 DEF CloseExpired
    <3>3. /\ [mem[p] EXCEPT !.due = @ \ {l}, !.l = l].now = mem[p].now
          /\ [mem[p] EXCEPT !.due = @ \ {l}].now = mem[p].now
      BY <1>k
    <3> QED
      BY <1>1, <1>2, <3>1, <3>2, <3>3
  <2>3. CASE FindStaleInterests(p)
    BY <1>1, <1>k, <2>3 DEF FindStaleInterests
  <2>9. CASE ReleaseStale(p)
    <3> DEFINE again == {Requester(i) : i \in mem[p].rows} \ {mem[p].l}
               m == [mem[p] EXCEPT !.rerun = again, !.rows = {}, !.l = Null, !.back = "close"]
    <3>1. Move(p, "rerun", m) /\ UNCHANGED clock
      BY <2>9 DEF ReleaseStale
    <3>2. m.now = mem[p].now
      <4> HIDE DEF again
      <4> QED
        BY <1>k
    <3> HIDE DEF m
    <3> QED
      BY <1>1, <3>1, <3>2
  <2>4. CASE ExpirePendingChains(p) \/ ExpireListingInterests(p)
    BY <1>1, <1>n, <2>4 DEF ExpirePendingChains, ExpireListingInterests
  <2>5. CASE ExpireInterest(p)
    <3>1. PICK i : \/ Move(p, "rerun", [mem[p] EXCEPT !.rows = @ \ {i},
                                   !.rerun = {Requester(i)}, !.back = "expire"])
                   \/ Keep(p, [mem[p] EXCEPT !.rows = @ \ {i}])
      BY <2>5 DEF ExpireInterest
    <3>2. UNCHANGED clock
      BY <2>5 DEF ExpireInterest
    <3>3. /\ [mem[p] EXCEPT !.rows = @ \ {i}, !.rerun = {Requester(i)},
                            !.back = "expire"].now = mem[p].now
          /\ [mem[p] EXCEPT !.rows = @ \ {i}].now = mem[p].now
      BY <1>k
    <3> QED
      BY <1>1, <1>2, <3>1, <3>2, <3>3
  <2>6. CASE InterestsSwept(p)
    BY <1>1, <1>n, <2>6 DEF InterestsSwept
  <2>7. CASE RerunRead(p)
    <3>1. PICK l : \/ Move(p, "rerunClose", [mem[p] EXCEPT !.rerun = @ \ {l}, !.l = l])
                   \/ Keep(p, [mem[p] EXCEPT !.rerun = @ \ {l}])
      BY <2>7 DEF RerunRead
    <3>2. UNCHANGED clock
      BY <2>7 DEF RerunRead
    <3>3. /\ [mem[p] EXCEPT !.rerun = @ \ {l}, !.l = l].now = mem[p].now
          /\ [mem[p] EXCEPT !.rerun = @ \ {l}].now = mem[p].now
      BY <1>k
    <3> QED
      BY <1>1, <1>2, <3>1, <3>2, <3>3
  <2>8. CASE RerunClose(p) \/ RerunDone(p)
    BY <1>1, <1>k, <2>8 DEF RerunClose, RerunDone
  <2> QED
    BY <1>4, <2>1, <2>2, <2>3, <2>4, <2>5, <2>6, <2>7, <2>8, <2>9 DEF Sweep
<1>5. ASSUME NEW w \in Workers, Handle(w) PROVE NowPast'
  <2>0. w \in Procs
    BY DEF Procs
  <2>1. CASE RunForListing(w) \/ RerunListingsForMembers(w) \/ RequestInterest(w)
    BY <1>1, <1>n, <2>0, <2>1 DEF RunForListing, RerunListingsForMembers, RequestInterest
  <2>2. CASE CheckOpenCap(w) \/ CheckDailyCap(w) \/ FindRequesterListing(w)
    BY <1>1, <1>3, <1>n, <2>0, <2>2 DEF CheckOpenCap, CheckDailyCap, FindRequesterListing
  <2>3. CASE UpsertInterest(w) \/ ApproveInterest(w) \/ DeclineInterest(w)
    BY <1>3, <2>0, <2>3 DEF UpsertInterest, ApproveInterest, DeclineInterest
  <2>4. CASE ReadForApproval(w) \/ ReadForDecline(w) \/ ReadForRenewal(w)
    BY <1>1, <1>n, <2>0, <2>4 DEF ReadForApproval, ReadForDecline, ReadForRenewal
  <2>5. CASE ConfirmRenter(w) \/ ConfirmTakenByRequester(w)
    BY <1>1, <1>n, <2>0, <2>5 DEF ConfirmRenter, ConfirmTakenByRequester
  <2>6. CASE TxTarget(w) \/ TxRequester(w)
    BY <1>1, <1>k, <2>0, <2>6 DEF TxTarget, TxRequester
  <2>7. CASE TxCommit(w)
    BY <1>1, <1>n, <2>0, <2>7 DEF TxCommit
  <2>8. CASE CreateListing(w)
    BY <2>8 DEF CreateListing, NowPast
  <2>9. CASE RenewListing(w) \/ Return(w)
    BY <1>3, <2>0, <2>9 DEF RenewListing, Return
  <2> QED
    BY <1>5, <2>1, <2>2, <2>3, <2>4, <2>5, <2>6, <2>7, <2>8, <2>9 DEF Handle
<1>6. ASSUME NEW p \in Procs, Fail(p) PROVE NowPast'
  BY <1>3, <1>6 DEF Fail
<1>7. CASE Tick
  BY <1>0, <1>7 DEF Tick, NowPast
<1>8. CASE UNCHANGED vars
  BY <1>8 DEF vars, NowPast
<1> QED
  BY <1>4, <1>5, <1>6, <1>7, <1>8 DEF Next

(* A sweep never closes a listing that was renewed or matched after it was *)
(* selected.                                                               *)
THEOREM SweepClosesOnlyOverdueAlways == Spec => SweepClosesOnlyOverdue
<1> DEFINE Step == \A l \in Listings :
              listing'[l].status = "CLOSED" /\ listing[l].status # "CLOSED" =>
                  /\ IsActive(l)
                  /\ \/ Overdue(listing[l], clock)
                     \/ \E p \in Procs : pc[p] = "rerunClose" /\ mem[p].l = l
<1>1. ASSUME TypeOK, NowPast, [Next]_vars PROVE Step
  <2>1. ASSUME NEW p \in Procs, CloseExpired(p) PROVE Step
    <3>1. clock \in Int /\ mem[p].now \in Int /\ mem[p].now <= clock
      BY <1>1 DEF TypeOK, ControlOK, Mems, NowPast
    <3>2. \A l \in Listings : StillOverdue(l, mem[p].now) =>
              IsActive(l) /\ Overdue(listing[l], clock)
      BY <1>1, <3>1 DEF StillOverdue, Overdue, TypeOK, ListingRows, Deadlines
    <3> QED
      BY <1>1, <2>1, <3>2, RowWritten DEF SetListing, TypeOK
  <2>2. ASSUME NEW p \in Procs, RerunClose(p) PROVE Step
    BY <1>1, <2>2, RowWritten DEF SetListing, TypeOK
  <2>3. ASSUME NEW p \in Procs, ReleaseStale(p) \/ ExpireInterest(p) PROVE Step
    BY <2>3 DEF ReleaseStale, ExpireInterest
  <2>4. ASSUME NEW w \in Workers, UpsertInterest(w) \/ ApproveInterest(w) \/ DeclineInterest(w)
        PROVE  Step
    BY <2>4 DEF UpsertInterest, ApproveInterest, DeclineInterest
  <2>5. ASSUME NEW w \in Workers, TxCommit(w) PROVE Step
    BY <2>5 DEF TxCommit, Matched
  <2>6. ASSUME NEW w \in Workers, CreateListing(w) \/ RenewListing(w) PROVE Step
    BY <1>1, <2>6, RowWritten DEF SetListing, Activated, TypeOK
  <2>7. CASE UNCHANGED <<listing, interest>>
    BY <2>7
  <2> QED
    BY <1>1, <2>1, <2>2, <2>3, <2>4, <2>5, <2>6, <2>7, Writers
<1>2. Init => NowPast
  BY DEF Init, NowPast, Blank
<1>3. TypeOK /\ NowPast /\ [Next]_vars => [Step]_vars
  BY <1>1
<1> QED
  BY <1>2, <1>3, TypeCorrect, NowPastStep, PTL DEF Spec, SweepClosesOnlyOverdue

-----------------------------------------------------------------------------
(* ContactNeedsOwner.  The strengthening says it of the handlers as well:  *)
(* one about to write an approval or a confirmation has the owner's        *)
(* consent already, whatever the row has become since.                     *)

Consenting == {"approve", "txTarget", "txRequester", "txCommit"}
Consent ==
    /\ ContactNeedsOwner
    /\ \A p \in Procs : pc[p] \in Consenting => mem[p].i \in agreed

LEMMA ConsentOfHandlers ==
    ASSUME TypeOK, Consent, [Next]_vars
    PROVE  /\ agreed \subseteq agreed'
           /\ \A p \in Procs : pc'[p] \in Consenting => mem'[p].i \in agreed'
<1> DEFINE Handlers == \A p \in Procs : pc'[p] \in Consenting => mem'[p].i \in agreed'
<1>0. \A q \in Procs : mem[q] \in Mems
  BY DEF TypeOK, ControlOK
<1>1. ASSUME NEW p \in Procs, NEW label, NEW m, Move(p, label, m), agreed \subseteq agreed',
             label \in Consenting => m.i \in agreed'
      PROVE  Handlers
  BY <1>1 DEF Consent, Move, TypeOK, ControlOK
<1>2. ASSUME NEW p \in Procs, NEW m, Keep(p, m), pc[p] \notin Consenting, UNCHANGED agreed
      PROVE  Handlers
  BY <1>2 DEF Consent, Keep, TypeOK, ControlOK
<1>3. ASSUME NEW p \in Procs, Done(p), UNCHANGED agreed PROVE Handlers
  BY <1>1, <1>3 DEF Done, Consenting
<1>4. ASSUME NEW p \in Procs, Sweep(p) PROVE UNCHANGED agreed /\ Handlers
  <2>1. CASE ExpireListings(p) \/ FindStaleInterests(p) \/ ReleaseStale(p)
    BY <1>1, <2>1 DEF ExpireListings, FindStaleInterests, ReleaseStale, Consenting
  <2>2. CASE CloseExpired(p)
    BY <1>1, <1>2, <2>2 DEF CloseExpired, Consenting
  <2>3. CASE ExpirePendingChains(p) \/ ExpireListingInterests(p) \/ InterestsSwept(p)
    BY <1>1, <2>3 DEF ExpirePendingChains, ExpireListingInterests, InterestsSwept, Consenting
  <2>4. CASE ExpireInterest(p)
    BY <1>1, <1>2, <2>4 DEF ExpireInterest, Consenting
  <2>5. CASE RerunRead(p)
    BY <1>1, <1>2, <2>5 DEF RerunRead, Consenting
  <2>6. CASE RerunClose(p)
    BY <1>1, <2>6 DEF RerunClose, Consenting
  <2>7. CASE RerunDone(p)
    BY <1>0, <1>1, <2>7 DEF RerunDone, Consenting, Mems
  <2> QED
    BY <1>4, <2>1, <2>2, <2>3, <2>4, <2>5, <2>6, <2>7 DEF Sweep
<1>5. ASSUME NEW w \in Workers, Handle(w) PROVE agreed \subseteq agreed' /\ Handlers
  <2>0. w \in Procs /\ (pc[w] \in Consenting => mem[w].i \in agreed)
    BY DEF Procs, Consent
  <2>i. \A x : [Blank EXCEPT !.i = x].i = x
    BY DEF Blank
  <2>1. CASE RunForListing(w) \/ RerunListingsForMembers(w) \/ RequestInterest(w)
    BY <1>1, <2>0, <2>1 DEF RunForListing, RerunListingsForMembers, RequestInterest, Consenting
  <2>2. CASE CheckOpenCap(w) \/ CheckDailyCap(w) \/ FindRequesterListing(w)
    BY <1>1, <1>3, <2>0, <2>2
    DEF CheckOpenCap, CheckDailyCap, FindRequesterListing, Consenting
  <2>3. CASE UpsertInterest(w) \/ ApproveInterest(w) \/ DeclineInterest(w)
    BY <1>3, <2>0, <2>3 DEF UpsertInterest, ApproveInterest, DeclineInterest
  <2>4. CASE ReadForDecline(w) \/ ReadForRenewal(w)
    BY <1>1, <2>0, <2>4 DEF ReadForDecline, ReadForRenewal, Consenting
  <2>5. CASE ReadForApproval(w) \/ ConfirmRenter(w)
    <3>1. PICK i \in Interests, label \in Consenting :
            Move(w, label, [Blank EXCEPT !.i = i]) /\ agreed' = agreed \cup {i}
      BY <2>5 DEF ReadForApproval, ConfirmRenter, Consenting
    <3> QED
      BY <1>1, <2>0, <2>i, <3>1
  <2>6. CASE ConfirmTakenByRequester(w)
    <3>1. PICK i \in Interests : /\ CanTake(i) /\ UNCHANGED agreed
                                 /\ Move(w, "txTarget", [Blank EXCEPT !.i = i])
      BY <2>6 DEF ConfirmTakenByRequester
    <3>2. i \in agreed
      BY <3>1 DEF CanTake, Consent, ContactNeedsOwner
    <3> QED
      BY <1>1, <2>0, <2>i, <3>1, <3>2
  <2>7. CASE TxTarget(w) \/ TxRequester(w)
    <3>1. mem[w].i \in agreed
      BY <2>0, <2>7 DEF TxTarget, TxRequester, Consenting
    <3>2. PICK label, x : Move(w, label, [mem[w] EXCEPT !.rows = x]) /\ UNCHANGED agreed
      BY <2>7 DEF TxTarget, TxRequester
    <3>3. [mem[w] EXCEPT !.rows = x].i = mem[w].i
      BY <1>0, <2>0 DEF Mems
    <3> DEFINE m == [mem[w] EXCEPT !.rows = x]
    <3>4. m.i \in agreed /\ Move(w, label, m) /\ UNCHANGED agreed
      BY <3>1, <3>2, <3>3
    <3> HIDE DEF m
    <3> QED
      BY <1>1, <2>0, <3>4
  <2>8. CASE TxCommit(w)
    BY <1>1, <2>0, <2>8 DEF TxCommit, Consenting
  <2>9. CASE CreateListing(w)
    BY <2>9 DEF CreateListing, Consent
  <2>10. CASE RenewListing(w) \/ Return(w)
    BY <1>3, <2>0, <2>10 DEF RenewListing, Return
  <2> QED
    BY <1>5, <2>1, <2>2, <2>3, <2>4, <2>5, <2>6, <2>7, <2>8, <2>9, <2>10 DEF Handle
<1>6. ASSUME NEW p \in Procs, Fail(p) PROVE UNCHANGED agreed /\ Handlers
  BY <1>3, <1>6 DEF Fail
<1>7. CASE Tick
  BY <1>7 DEF Tick, Consent
<1>8. CASE UNCHANGED vars
  BY <1>8 DEF vars, Consent
<1> QED
  BY <1>4, <1>5, <1>6, <1>7, <1>8 DEF Next

LEMMA ConsentStep ==
    ASSUME TypeOK, Consent, [Next]_vars
    PROVE  Consent'
<1> DEFINE Shown(i, f) == f[i].status \in {"CONTACT_APPROVED", "CONFIRMED_RENTER"}
<1>0. agreed \subseteq agreed'
  BY ConsentOfHandlers
<1>1. ASSUME \A i \in Interests : Shown(i, interest') => i \in agreed PROVE Consent'
  BY <1>0, <1>1, ConsentOfHandlers DEF Consent, ContactNeedsOwner
<1>o. \A i \in Interests : Shown(i, interest) => i \in agreed
  BY DEF Consent, ContactNeedsOwner
<1>2. ASSUME NEW p \in Procs, CloseExpired(p) \/ RerunClose(p) PROVE Consent'
  BY <1>1, <1>2, <1>o DEF CloseExpired, RerunClose
<1>3. ASSUME NEW p \in Procs, ReleaseStale(p) PROVE Consent'
  BY <1>1, <1>3, <1>o DEF ReleaseStale, Ended
<1>4. ASSUME NEW p \in Procs, ExpireInterest(p) PROVE Consent'
  <2>1. \A i \in Interests : Shown(i, interest') => Shown(i, interest)
    BY <1>4, RowWritten DEF SetInterest, Answered, TypeOK, InterestRows
  <2> QED
    BY <1>1, <1>o, <2>1
<1>5. ASSUME NEW w \in Workers, UpsertInterest(w) \/ DeclineInterest(w) PROVE Consent'
  <2>1. \A i \in Interests : Shown(i, interest') => Shown(i, interest)
    BY <1>5 DEF UpsertInterest, DeclineInterest, SetInterest, Answered, Requested,
                TypeOK, InterestRows
  <2> QED
    BY <1>1, <1>o, <2>1
<1>6. ASSUME NEW w \in Workers, ApproveInterest(w) \/ TxCommit(w) PROVE Consent'
  <2>1. mem[w].i \in agreed
    BY <1>6 DEF Consent, Consenting, ApproveInterest, TxCommit, Procs
  <2>2. \A i \in Interests : i # mem[w].i => (Shown(i, interest') => Shown(i, interest))
    BY <1>6 DEF ApproveInterest, TxCommit, SetInterest, Answered, Ended, TypeOK, InterestRows
  <2> QED
    BY <1>1, <1>o, <2>1, <2>2
<1>7. ASSUME NEW w \in Workers, CreateListing(w) \/ RenewListing(w) PROVE Consent'
  BY <1>1, <1>7, <1>o DEF CreateListing, RenewListing
<1>8. CASE UNCHANGED <<listing, interest>>
  BY <1>1, <1>8, <1>o
<1> QED
  BY <1>2, <1>3, <1>4, <1>5, <1>6, <1>7, <1>8, Writers

(* The owner's phone is shown on a request only with the owner's consent.  *)
THEOREM ContactNeedsOwnerAlways == Spec => []ContactNeedsOwner
<1>1. Init => Consent
  BY DEF Init, Consent, ContactNeedsOwner, Consenting
<1>2. Consent => ContactNeedsOwner
  BY DEF Consent
<1> QED
  BY <1>1, <1>2, TypeCorrect, ConsentStep, PTL DEF Spec
=============================================================================
