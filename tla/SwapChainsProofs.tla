-------------------------- MODULE SwapChainsProofs --------------------------
(* Machine-checked proofs about SwapChains, for any listings and wishes,   *)
(* any number of handlers, ticks and unlocks, any limit and deadline.      *)
EXTENDS SwapChains, TLAPS

-----------------------------------------------------------------------------
(* Typing of what the actions are built from.                              *)

LEMMA NullApart ==
    Null \notin Int /\ Null \notin Listings /\ Null \notin Unlocks /\ Null \notin Chains
BY NullAssumption, NullNotATime

LEMMA ChainMembers ==
    \A c \in Chains : /\ c \in SUBSET Listings
                      /\ Members(c) \in SUBSET Users
                      /\ \A l \in c : l \in Listings /\ Owner[l] \in Members(c)
                                      /\ Owner[l] \in Users
BY DEF Chains, Members, Users

LEMMA BlankType == Blank \in Mems
BY DEF Blank, Mems

LEMMA MemEdits ==
    ASSUME NEW m \in Mems
    PROVE  /\ \A x \in SUBSET Chains : [m EXCEPT !.todo = x] \in Mems
           /\ \A x \in {"idle", "interests"} : [m EXCEPT !.after = x] \in Mems
           /\ \A x \in SUBSET Listings : [m EXCEPT !.rerun = x] \in Mems
           /\ \A x \in {"idle", "chains", "break", "ready", "conflicts"} :
                 [m EXCEPT !.back = x] \in Mems
           /\ \A x \in Chains \cup {Null} : [m EXCEPT !.c = x] \in Mems
           /\ \A x \in Listings \cup {Null} : [m EXCEPT !.l = x] \in Mems
           /\ \A x \in Unlocks \cup {Null} : [m EXCEPT !.u = x] \in Mems
           /\ \A x \in SUBSET Listings : [m EXCEPT !.matched = x] \in Mems
           /\ \A x \in BOOLEAN : [m EXCEPT !.expiring = x] \in Mems
BY DEF Mems

LEMMA RowTypes ==
    ASSUME TypeOK
    PROVE  /\ Proposed \in ChainRows
           /\ \A r \in ChainRows : Locked(r) \in ChainRows /\ Broken(r) \in ChainRows
           /\ \A r \in ChainRows, l \in Listings : Accepted(r, l) \in ChainRows
<1>1. clock + AcceptTtl \in Int
  BY NumbersAssumption DEF TypeOK
<1> QED
  BY <1>1 DEF ChainRows, ChainStatus, Proposed, Locked, Broken, Accepted

LEMMA HandOf ==
    \A m \in Mems : \A x :
        /\ [m EXCEPT !.c = x].c = x
        /\ [m EXCEPT !.l = x].c = m.c
        /\ [m EXCEPT !.u = x].c = m.c
        /\ [m EXCEPT !.u = x].l = m.l
        /\ [m EXCEPT !.u = x].u = x
BY DEF Mems

(* The control state after a move.                                         *)
HandTyped(label, m) ==
    /\ label \in AtChain => m.c \in Chains
    /\ label \in AtMember => m.l \in m.c
    /\ label = "approve" => m.u \in Unlocks

LEMMA MoveType ==
    ASSUME ControlOK, NEW p \in Procs, NEW label \in Labels, NEW m \in Mems,
           HandTyped(label, m), Move(p, label, m)
    PROVE  ControlOK'
BY DEF ControlOK, Move, HandTyped

(* The labels where nothing is at hand.                                    *)
Free == {"idle", "chains", "break", "rerun", "interests", "ready", "conflicts"}

LEMMA MoveFree ==
    ASSUME ControlOK, NEW p \in Procs, NEW label \in Free, NEW m \in Mems,
           Move(p, label, m)
    PROVE  ControlOK'
BY MoveType DEF Free, Labels, HandTyped, AtChain, AtMember

LEMMA DoneType ==
    ASSUME ControlOK, NEW p \in Procs, Done(p)
    PROVE  ControlOK'
BY MoveFree, BlankType DEF Done, Free

(* The table of chains after an update of one row.                         *)
ChainsOK ==
    /\ chain \in [Chains -> ChainRows]
    /\ \A c \in Chains : chain[c].accepted \subseteq c

LEMMA SetChainType ==
    ASSUME ChainsOK, NEW c \in Chains, NEW r \in ChainRows, r.accepted \subseteq c,
           SetChain(c, r)
    PROVE  ChainsOK'
BY DEF ChainsOK, SetChain

LEMMA SetUnlockType ==
    ASSUME TypeOK, NEW u \in Unlocks, NEW c \in Chains, NEW approvers \in SUBSET Users,
           SetUnlock(u, c, approvers)
    PROVE  unlock' \in [Unlocks -> UnlockRows]
BY DEF TypeOK, UnlockRows, SetUnlock

LEMMA CrossingsType ==
    ASSUME late \in Crossings, NEW S \in SUBSET Chains
    PROVE  /\ [late EXCEPT !.lock = @ \cup S] \in Crossings
           /\ [late EXCEPT !.expiry = @ \cup S] \in Crossings
           /\ [late EXCEPT !.left = @ \cup S] \in Crossings
BY DEF Crossings

-----------------------------------------------------------------------------
(* TypeOK                                                                  *)

LEMMA SweepType ==
    ASSUME TypeOK, NEW p \in Procs, Sweep(p)
    PROVE  TypeOK'
<1> USE BlankType, NullApart
<1>0. mem[p] \in Mems /\ clock \in Int /\ ControlOK /\ ChainsOK
  BY DEF TypeOK, ControlOK, ChainsOK
<1>m. /\ mem[p].todo \subseteq Chains /\ mem[p].rerun \subseteq Listings
      /\ mem[p].after \in {"idle", "interests"}
      /\ mem[p].back \in {"idle", "chains", "break", "ready", "conflicts"}
  BY <1>0 DEF Mems
<1>c. pc[p] \in AtChain => mem[p].c \in Chains
  BY <1>0 DEF ControlOK
<1>1. CASE ExpireListings(p)
  <2>1. PICK S \in Swept : Move(p, "rerun", [Blank EXCEPT !.rerun = S, !.back = "chains"])
    BY <1>1 DEF ExpireListings
  <2>2. [Blank EXCEPT !.rerun = S, !.back = "chains"] \in Mems
    BY <2>1, ListingsAssumption DEF Blank, Mems
  <2> QED
    BY <1>0, <1>1, <2>1, <2>2, MoveFree DEF ExpireListings, TypeOK, Free
<1>2. CASE ExpirePendingChains(p)
  <2>1. PICK B \in Oldest(OverdueChains(clock), ByAcceptBy, ExpireLimit) :
          Move(p, "break", [Blank EXCEPT !.todo = B, !.after = "interests",
                                         !.expiring = TRUE])
    BY <1>2 DEF ExpirePendingChains
  <2>2. B \in SUBSET Chains
    BY <2>1 DEF Oldest, OverdueChains
  <2>3. [Blank EXCEPT !.todo = B, !.after = "interests", !.expiring = TRUE] \in Mems
    BY <2>2 DEF Blank, Mems
  <2> QED
    BY <1>0, <1>2, <2>1, <2>3, MoveFree DEF ExpirePendingChains, TypeOK, Free
<1>3. CASE ExpireListingInterests(p)
  <2>1. PICK S \in Swept :
          Move(p, "rerun", [Blank EXCEPT !.rerun = S,
                                         !.back = IF p \in Workers THEN "ready" ELSE "idle"])
    BY <1>3 DEF ExpireListingInterests
  <2>2. [Blank EXCEPT !.rerun = S, !.back = IF p \in Workers THEN "ready" ELSE "idle"] \in Mems
    BY <2>1, ListingsAssumption DEF Blank, Mems
  <2> QED
    BY <1>0, <1>3, <2>1, <2>2, MoveFree DEF ExpireListingInterests, TypeOK, Free
<1>4. CASE ReadForBreak(p)
  <2>1. PICK c \in mem[p].todo :
          \/ Move(p, "break", [mem[p] EXCEPT !.todo = @ \ {c}])
          \/ Move(p, "breakWrite", [[mem[p] EXCEPT !.todo = @ \ {c}] EXCEPT !.c = c])
    BY <1>4 DEF ReadForBreak
  <2>2. c \in Chains /\ mem[p].todo \ {c} \in SUBSET Chains
    BY <1>m, <2>1
  <2> DEFINE left == [mem[p] EXCEPT !.todo = @ \ {c}]
  <2>3. left \in Mems
    BY <1>0, <2>2, MemEdits
  <2>4. [left EXCEPT !.c = c] \in Mems /\ [left EXCEPT !.c = c].c = c
    <3> HIDE DEF left
    <3> QED
      BY <2>2, <2>3, MemEdits, HandOf
  <2>5. HandTyped("breakWrite", [left EXCEPT !.c = c])
    BY <2>2, <2>4 DEF HandTyped, AtMember
  <2>6. ControlOK'
    BY <1>0, <2>1, <2>3, <2>4, <2>5, MoveFree, MoveType DEF Free, Labels
  <2> QED
    BY <1>4, <2>6 DEF ReadForBreak, TypeOK
<1>5. CASE BreakChain(p)
  <2>1. mem[p].c \in Chains /\ mem[p].c \in SUBSET Listings
    BY <1>5, <1>c, ChainMembers DEF BreakChain, AtChain
  <2>2. chain[mem[p].c] \in ChainRows /\ Broken(chain[mem[p].c]) \in ChainRows
        /\ Broken(chain[mem[p].c]).accepted \subseteq mem[p].c
    BY <1>0, <2>1, RowTypes DEF ChainsOK, Broken
  <2>3. ChainsOK'
    BY <1>0, <1>5, <2>1, <2>2, SetChainType DEF BreakChain
  <2>4. [mem[p] EXCEPT !.rerun = mem[p].c, !.c = Null, !.back = "break"] \in Mems
    BY <1>0, <2>1 DEF Mems
  <2>5. late' \in Crossings
    <3>1. {c \in {mem[p].c} : InHand(c, Accepting)} \in SUBSET Chains
      BY <2>1
    <3> QED
      BY <1>5, <3>1, CrossingsType DEF BreakChain, TypeOK
  <2> QED
    BY <1>0, <1>5, <2>3, <2>4, <2>5, MoveFree DEF BreakChain, TypeOK, Free, ChainsOK
<1>6. CASE BreaksDone(p)
  BY <1>0, <1>m, <1>6, MoveFree DEF BreaksDone, TypeOK, Free
<1>7. CASE RunForListing(p)
  <2>1. PICK l \in mem[p].rerun :
          \/ \E c \in BestCycles(l, active) :
                Move(p, "existing", [[mem[p] EXCEPT !.rerun = @ \ {l}] EXCEPT !.c = c])
          \/ Move(p, "rerun", [mem[p] EXCEPT !.rerun = @ \ {l}])
    BY <1>7 DEF RunForListing
  <2> DEFINE left == [mem[p] EXCEPT !.rerun = @ \ {l}]
  <2>2. left \in Mems
    BY <1>0, <1>m, MemEdits
  <2>3. ASSUME NEW c \in BestCycles(l, active), Move(p, "existing", [left EXCEPT !.c = c])
        PROVE  ControlOK'
    <3>1. c \in Chains
      BY <2>3 DEF BestCycles, CyclesFrom
    <3>2. [left EXCEPT !.c = c] \in Mems /\ [left EXCEPT !.c = c].c = c
      <4> HIDE DEF left
      <4> QED
        BY <2>2, <3>1, MemEdits, HandOf
    <3> QED
      BY <1>0, <2>3, <3>1, <3>2, MoveType DEF HandTyped, AtMember, Labels
  <2>4. ControlOK'
    BY <1>0, <2>1, <2>2, <2>3, MoveFree DEF Free
  <2> QED
    BY <1>7, <2>4 DEF RunForListing, TypeOK
<1>8. CASE RerunDone(p)
  <2>1. [mem[p] EXCEPT !.back = "idle"] \in Mems /\ mem[p].back \in Free
    BY <1>0, <1>m, MemEdits DEF Free
  <2> QED
    BY <1>0, <1>8, <2>1, MoveFree DEF RerunDone, TypeOK
<1>9. [mem[p] EXCEPT !.c = Null] \in Mems
  BY <1>0, MemEdits
<1>10. CASE FindExisting(p)
  <2>1. HandTyped("locked", mem[p])
    BY <1>c, <1>10 DEF FindExisting, HandTyped, AtChain, AtMember
  <2> QED
    BY <1>0, <1>9, <1>10, <2>1, MoveFree, MoveType DEF FindExisting, TypeOK, Free, Labels
<1>11. CASE FindLocked(p)
  <2>1. HandTyped("create", mem[p])
    BY <1>c, <1>11 DEF FindLocked, HandTyped, AtChain, AtMember
  <2> QED
    BY <1>0, <1>9, <1>11, <2>1, MoveFree, MoveType DEF FindLocked, TypeOK, Free, Labels
<1>12. CASE CreateChain(p)
  <2>1. mem[p].c \in Chains /\ Proposed.accepted \subseteq mem[p].c
    BY <1>c, <1>12 DEF CreateChain, AtChain, Proposed
  <2>2. ChainsOK'
    BY <1>0, <1>12, <2>1, RowTypes, SetChainType DEF CreateChain, ChainsOK
  <2> QED
    BY <1>0, <1>9, <1>12, <2>2, MoveFree DEF CreateChain, TypeOK, Free, ChainsOK
<1> QED
  BY <1>1, <1>2, <1>3, <1>4, <1>5, <1>6, <1>7, <1>8, <1>10, <1>11, <1>12 DEF Sweep

LEMMA HandleType ==
    ASSUME TypeOK, NEW w \in Workers, Handle(w)
    PROVE  TypeOK'
<1> USE BlankType, NullApart
<1>0. /\ w \in Procs /\ mem[w] \in Mems /\ clock \in Int /\ ControlOK /\ ChainsOK
      /\ active \subseteq Listings
  BY DEF TypeOK, ControlOK, ChainsOK, Procs
<1>c. /\ pc[w] \in AtChain => mem[w].c \in Chains
      /\ pc[w] \in AtMember => mem[w].l \in mem[w].c
      /\ pc[w] = "approve" => mem[w].u \in Unlocks
  BY <1>0 DEF ControlOK
<1>1. CASE RunForUser(w)
  <2>1. PICK l \in Listings : Move(w, "rerun", [Blank EXCEPT !.rerun = {l}])
    BY <1>1 DEF RunForUser
  <2>2. [Blank EXCEPT !.rerun = {l}] \in Mems
    BY <2>1, MemEdits
  <2> QED
    BY <1>0, <1>1, <2>1, <2>2, MoveFree DEF RunForUser, TypeOK, Free
<1>2. CASE RerunChainMembersByAdmin(w)
  <2>1. PICK c \in Chains : Move(w, "rerun", [Blank EXCEPT !.rerun = c])
    BY <1>2 DEF RerunChainMembersByAdmin
  <2>2. [Blank EXCEPT !.rerun = c] \in Mems
    BY <2>1, ChainMembers, MemEdits
  <2> QED
    BY <1>0, <1>2, <2>1, <2>2, MoveFree DEF RerunChainMembersByAdmin, TypeOK, Free
<1>3. CASE ReadForAccept(w)
  <2>1. PICK c \in Chains :
          \/ Move(w, "break", [Blank EXCEPT !.todo = {c}, !.expiring = TRUE])
          \/ \E l \in c : Move(w, "accept", [Blank EXCEPT !.c = c, !.l = l])
    BY <1>3 DEF ReadForAccept
  <2>2. [Blank EXCEPT !.todo = {c}, !.expiring = TRUE] \in Mems
    BY <2>1 DEF Blank, Mems
  <2>3. ASSUME NEW l \in c, Move(w, "accept", [Blank EXCEPT !.c = c, !.l = l])
        PROVE  ControlOK'
    <3>1. l \in Listings
      BY <2>1, <2>3, ChainMembers
    <3>2. /\ [Blank EXCEPT !.c = c, !.l = l] \in Mems
          /\ HandTyped("accept", [Blank EXCEPT !.c = c, !.l = l])
      BY <2>1, <2>3, <3>1 DEF Blank, Mems, HandTyped
    <3> QED
      BY <1>0, <2>3, <3>2, MoveType DEF Labels
  <2>4. ControlOK'
    BY <1>0, <2>1, <2>2, <2>3, MoveFree DEF Free
  <2> QED
    BY <1>3, <2>4 DEF ReadForAccept, TypeOK
<1>4. CASE AcceptChain(w)
  <2>1. mem[w].c \in Chains /\ mem[w].l \in mem[w].c /\ mem[w].l \in Listings
    BY <1>c, <1>4, ChainMembers DEF AcceptChain, AtChain, AtMember
  <2>2. /\ Accepted(chain[mem[w].c], mem[w].l) \in ChainRows
        /\ Accepted(chain[mem[w].c], mem[w].l).accepted \subseteq mem[w].c
    BY <1>0, <2>1, RowTypes DEF ChainsOK, Accepted
  <2>3. ChainsOK'
    BY <1>0, <1>4, <2>1, <2>2, SetChainType DEF AcceptChain
  <2>4. [mem[w] EXCEPT !.l = Null] \in Mems /\ [mem[w] EXCEPT !.l = Null].c = mem[w].c
    BY <1>0, MemEdits, HandOf
  <2>5. HandTyped("count", [mem[w] EXCEPT !.l = Null])
    BY <2>1, <2>4 DEF HandTyped, AtMember
  <2>6. ControlOK'
    BY <1>0, <1>4, <2>4, <2>5, MoveType DEF AcceptChain, Labels
  <2> QED
    BY <1>4, <2>3, <2>6 DEF AcceptChain, TypeOK, ChainsOK
<1>5. CASE CountAccepted(w)
  <2>1. HandTyped("lock", mem[w])
    BY <1>c, <1>5 DEF CountAccepted, HandTyped, AtChain, AtMember
  <2> QED
    BY <1>0, <1>5, <2>1, MoveType, DoneType DEF CountAccepted, TypeOK, Labels
<1>6. CASE LockChain(w)
  <2>1. mem[w].c \in Chains
    BY <1>c, <1>6 DEF LockChain, AtChain
  <2>2. /\ Locked(chain[mem[w].c]) \in ChainRows
        /\ Locked(chain[mem[w].c]).accepted \subseteq mem[w].c
    BY <1>0, <2>1, RowTypes DEF ChainsOK, Locked
  <2>3. ChainsOK'
    BY <1>0, <1>6, <2>1, <2>2, SetChainType DEF LockChain
  <2>4. late' \in Crossings
    <3>1. {c \in {mem[w].c} : ExpiringNow(c)} \in SUBSET Chains
      BY <2>1
    <3> QED
      BY <1>6, <3>1, CrossingsType DEF LockChain, TypeOK
  <2> QED
    BY <1>0, <1>6, <2>3, <2>4, DoneType DEF LockChain, TypeOK, ChainsOK
<1>7. CASE DeclineChain(w)
  <2>1. PICK c \in Chains : Move(w, "break", [Blank EXCEPT !.todo = {c}])
    BY <1>7 DEF DeclineChain
  <2>2. [Blank EXCEPT !.todo = {c}] \in Mems
    BY <2>1, MemEdits
  <2> QED
    BY <1>0, <1>7, <2>1, <2>2, MoveFree DEF DeclineChain, TypeOK, Free
<1>8. CASE ConfirmInterest(w)
  <2>1. PICK i \in Compatible, S \in Swept :
          /\ active' = active \ {i[1], i[2]}
          /\ Move(w, "rerun", [Blank EXCEPT !.rerun = S, !.matched = {i[1], i[2]},
                                            !.back = "conflicts"])
    BY <1>8 DEF ConfirmInterest
  <2>2. [Blank EXCEPT !.rerun = S, !.matched = {i[1], i[2]}, !.back = "conflicts"] \in Mems
    <3>1. S \in SUBSET Listings /\ {i[1], i[2]} \in SUBSET Listings
      BY <2>1, ListingsAssumption
    <3> QED
      BY <3>1 DEF Blank, Mems
  <2> QED
    BY <1>0, <1>8, <2>1, <2>2, MoveFree DEF ConfirmInterest, TypeOK, Free
<1>9. CASE BreakChainsForListings(w)
  <2>1. ConflictsWith(mem[w].matched) \in SUBSET Chains
    BY DEF ConflictsWith
  <2>2. [Blank EXCEPT !.todo = ConflictsWith(mem[w].matched)] \in Mems
    BY <2>1, MemEdits
  <2>3. late' \in Crossings
    <3>1. {c \in Owed(w) : InHand(c, Proposing)} \in SUBSET Chains
      BY DEF Owed
    <3> QED
      BY <1>9, <3>1, CrossingsType DEF BreakChainsForListings, TypeOK
  <2> QED
    BY <1>0, <1>9, <2>2, <2>3, MoveFree DEF BreakChainsForListings, TypeOK, Free
<1>10. CASE RequestContactUnlock(w)
  <2>1. PICK c \in Chains : \E l \in c : Move(w, "unlock", [Blank EXCEPT !.c = c, !.l = l])
    BY <1>10 DEF RequestContactUnlock
  <2>2. PICK l \in c : Move(w, "unlock", [Blank EXCEPT !.c = c, !.l = l])
    BY <2>1
  <2>3. l \in Listings
    BY <2>1, <2>2, ChainMembers
  <2>4. /\ [Blank EXCEPT !.c = c, !.l = l] \in Mems
        /\ HandTyped("unlock", [Blank EXCEPT !.c = c, !.l = l])
    BY <2>1, <2>2, <2>3 DEF Blank, Mems, HandTyped
  <2> QED
    BY <1>0, <1>10, <2>2, <2>4, MoveType DEF RequestContactUnlock, TypeOK, Labels
<1>11. CASE CreateUnlock(w)
  <2>1. mem[w].c \in Chains /\ mem[w].l \in mem[w].c
    BY <1>c, <1>11 DEF CreateUnlock, AtChain, AtMember
  <2>2. ASSUME NEW u \in Unlocks, SetUnlock(u, mem[w].c, {}),
               Move(w, "approve", [mem[w] EXCEPT !.u = u])
        PROVE  ControlOK' /\ unlock' \in [Unlocks -> UnlockRows]
    <3>1. [mem[w] EXCEPT !.u = u] \in Mems
      BY <1>0, MemEdits
    <3>2. HandTyped("approve", [mem[w] EXCEPT !.u = u])
      BY <1>0, <2>1, HandOf DEF HandTyped
    <3>3. ControlOK'
      BY <1>0, <2>2, <3>1, <3>2, MoveType DEF Labels
    <3>4. {} \in SUBSET Users
      OBVIOUS
    <3> QED
      BY <2>1, <2>2, <3>3, <3>4, SetUnlockType
  <2>3. ControlOK' /\ unlock' \in [Unlocks -> UnlockRows]
    BY <1>0, <1>11, <2>2, DoneType DEF CreateUnlock, TypeOK
  <2> QED
    BY <1>11, <2>3 DEF CreateUnlock, TypeOK
<1>12. CASE ApproveOwnUnlock(w)
  <2>1. /\ mem[w].c \in Chains /\ mem[w].u \in Unlocks /\ Owner[mem[w].l] \in Users
        /\ unlock[mem[w].u].approvers \in SUBSET Users
    BY <1>c, <1>12, ChainMembers
    DEF ApproveOwnUnlock, AtChain, AtMember, TypeOK, UnlockRows
  <2>2. unlock' \in [Unlocks -> UnlockRows]
    BY <1>12, <2>1, SetUnlockType DEF ApproveOwnUnlock
  <2> QED
    BY <1>0, <1>12, <2>2, DoneType DEF ApproveOwnUnlock, TypeOK
<1>13. CASE ApproveContactUnlock(w)
  <2>0. PICK u \in Unlocks :
          /\ unlock[u].chain # Null
          /\ \E user \in Members(unlock[u].chain) :
                SetUnlock(u, unlock[u].chain, unlock[u].approvers \cup {user})
    BY <1>13 DEF ApproveContactUnlock
  <2>1. PICK user \in Members(unlock[u].chain) :
          SetUnlock(u, unlock[u].chain, unlock[u].approvers \cup {user})
    BY <2>0
  <2>2. unlock[u].chain \in Chains /\ unlock[u].approvers \cup {user} \in SUBSET Users
    BY <2>0, <2>1, ChainMembers DEF TypeOK, UnlockRows
  <2>3. unlock' \in [Unlocks -> UnlockRows]
    BY <2>1, <2>2, SetUnlockType
  <2> QED
    BY <1>13, <2>3 DEF ApproveContactUnlock, TypeOK, ControlOK
<1>14. CASE Return(w)
  BY <1>0, <1>14, DoneType DEF Return, TypeOK
<1> QED
  BY <1>1, <1>2, <1>3, <1>4, <1>5, <1>6, <1>7, <1>8, <1>9, <1>10, <1>11, <1>12, <1>13, <1>14
  DEF Handle

LEMMA TypeStep ==
    ASSUME TypeOK, [Next]_vars
    PROVE  TypeOK'
<1>1. ASSUME NEW p \in Procs, Fail(p) PROVE TypeOK'
  <2>1. Owed(p) \in SUBSET Chains
    BY DEF Owed
  <2>2. late' \in Crossings
    BY <1>1, <2>1, CrossingsType DEF Fail, TypeOK
  <2> QED
    BY <1>1, <2>2, DoneType DEF Fail, TypeOK
<1>2. CASE Tick
  BY <1>2 DEF Tick, TypeOK, ControlOK
<1>3. CASE ListingOpensOrCloses
  <2>1. active' \subseteq Listings
    BY <1>3, ListingsAssumption DEF ListingOpensOrCloses, TypeOK
  <2> QED
    BY <1>3, <2>1 DEF ListingOpensOrCloses, TypeOK, ControlOK
<1>4. CASE UNCHANGED vars
  BY <1>4 DEF vars, TypeOK, ControlOK
<1> QED
  BY <1>1, <1>2, <1>3, <1>4, SweepType, HandleType DEF Next

(* Every variable keeps its type, in every behaviour.                      *)
THEOREM TypeCorrect == Spec => []TypeOK
<1>1. Init => TypeOK
  BY BlankType, NullApart
  DEF Init, TypeOK, ChainRows, ChainStatus, UnlockRows, Crossings, ControlOK, Labels, AtChain,
      AtMember
<1> QED
  BY <1>1, TypeStep, PTL DEF Spec

-----------------------------------------------------------------------------
(* Who writes what, and where a step may take a process.                   *)

LEMMA ChainWriters ==
    ASSUME [Next]_vars
    PROVE  \/ UNCHANGED <<chain, late>>
           \/ /\ chain' = chain
              /\ \E S : late' = [late EXCEPT !.left = @ \cup S]
           \/ \E p \in Procs : BreakChain(p) \/ CreateChain(p)
           \/ \E w \in Workers : AcceptChain(w) \/ LockChain(w)
<1>1. ASSUME NEW p \in Procs, Sweep(p) \/ Fail(p)
      PROVE  \/ UNCHANGED <<chain, late>>
             \/ chain' = chain /\ \E S : late' = [late EXCEPT !.left = @ \cup S]
             \/ BreakChain(p) \/ CreateChain(p)
  BY <1>1 DEF Sweep, Fail, ExpireListings, ExpirePendingChains, ExpireListingInterests,
    ReadForBreak, BreaksDone, RunForListing, RerunDone, FindExisting, FindLocked
<1>2. ASSUME NEW w \in Workers, Handle(w)
      PROVE  \/ UNCHANGED <<chain, late>>
             \/ chain' = chain /\ \E S : late' = [late EXCEPT !.left = @ \cup S]
             \/ AcceptChain(w) \/ LockChain(w)
  BY <1>2 DEF Handle, RunForUser, RerunChainMembersByAdmin, ReadForAccept, CountAccepted,
    DeclineChain, ConfirmInterest, BreakChainsForListings, RequestContactUnlock,
    CreateUnlock, ApproveOwnUnlock, ApproveContactUnlock, Return
<1> QED
  BY <1>1, <1>2 DEF Next, Tick, ListingOpensOrCloses, vars

(* The history only grows.                                                 *)
LEMMA LateGrows ==
    ASSUME TypeOK, [Next]_vars
    PROVE  /\ late.lock \subseteq late'.lock
           /\ late.expiry \subseteq late'.expiry
           /\ late.left \subseteq late'.left
<1>1. ASSUME NEW p \in Procs, BreakChain(p) \/ CreateChain(p)
      PROVE  \/ UNCHANGED late
             \/ \E S : late' = [late EXCEPT !.lock = @ \cup S]
  BY <1>1 DEF BreakChain, CreateChain
<1>2. ASSUME NEW w \in Workers, AcceptChain(w) \/ LockChain(w)
      PROVE  \/ UNCHANGED late
             \/ \E S : late' = [late EXCEPT !.expiry = @ \cup S]
  BY <1>2 DEF AcceptChain, LockChain
<1>3. \/ UNCHANGED late
      \/ \E S : \/ late' = [late EXCEPT !.lock = @ \cup S]
               \/ late' = [late EXCEPT !.expiry = @ \cup S]
               \/ late' = [late EXCEPT !.left = @ \cup S]
  BY <1>1, <1>2, ChainWriters
<1> QED
  BY <1>3 DEF TypeOK, Crossings

LEMMA ChainWritten ==
    ASSUME TypeOK, [Next]_vars
    PROVE  \/ chain' = chain
           \/ \E p \in Procs, c \in Chains :
                /\ mem[p].c = c
                /\ \/ pc[p] = "breakWrite" /\ SetChain(c, Broken(chain[c]))
                   \/ pc[p] = "create" /\ ~Exists(c) /\ SetChain(c, Proposed)
                   \/ /\ pc[p] = "accept" /\ p \in Workers /\ mem[p].l \in c
                      /\ SetChain(c, Accepted(chain[c], mem[p].l))
                   \/ pc[p] = "lock" /\ p \in Workers /\ SetChain(c, Locked(chain[c]))
<1>0. Workers \subseteq Procs
  BY DEF Procs
<1>1. \A p \in Procs : /\ pc[p] \in AtChain => mem[p].c \in Chains
                       /\ pc[p] \in AtMember => mem[p].l \in mem[p].c
  BY DEF TypeOK, ControlOK
<1>4. ASSUME NEW p \in Procs, BreakChain(p)
      PROVE  \E c \in Chains : /\ mem[p].c = c /\ pc[p] = "breakWrite"
                               /\ SetChain(c, Broken(chain[c]))
  BY <1>1, <1>4 DEF BreakChain, AtChain
<1>5. ASSUME NEW p \in Procs, CreateChain(p)
      PROVE  \/ chain' = chain
             \/ \E c \in Chains : /\ mem[p].c = c /\ pc[p] = "create" /\ ~Exists(c)
                                  /\ SetChain(c, Proposed)
  BY <1>1, <1>5 DEF CreateChain, HashTaken, AtChain
<1>6. ASSUME NEW p \in Workers, AcceptChain(p)
      PROVE  \E c \in Chains : /\ mem[p].c = c /\ pc[p] = "accept" /\ mem[p].l \in c
                               /\ SetChain(c, Accepted(chain[c], mem[p].l))
  BY <1>0, <1>1, <1>6 DEF AcceptChain, AtChain, AtMember
<1>7. ASSUME NEW p \in Workers, LockChain(p)
      PROVE  \E c \in Chains : /\ mem[p].c = c /\ pc[p] = "lock"
                               /\ SetChain(c, Locked(chain[c]))
  BY <1>0, <1>1, <1>7 DEF LockChain, AtChain
<1>8. CASE chain' = chain
  BY <1>8
<1>9. CASE chain' # chain
  <2>1. \/ \E p \in Procs : BreakChain(p) \/ CreateChain(p)
        \/ \E w \in Workers : AcceptChain(w) \/ LockChain(w)
    BY <1>9, ChainWriters
  <2> QED
    BY <1>0, <1>4, <1>5, <1>6, <1>7, <1>9, <2>1
<1> QED
  BY <1>8, <1>9

LEMMA UnlockWritten ==
    ASSUME TypeOK, [Next]_vars
    PROVE  \/ unlock' = unlock
           \/ \E w \in Workers, u \in Unlocks :
                pc[w] = "unlock" /\ FreeRow(u) /\ SetUnlock(u, mem[w].c, {})
           \/ \E w \in Workers : ApproveOwnUnlock(w) \/ ApproveContactUnlock(w)
<1>1. ASSUME NEW p \in Procs, Sweep(p) \/ Fail(p)
      PROVE  unlock' = unlock
  BY <1>1 DEF Sweep, Fail, ExpireListings, ExpirePendingChains, ExpireListingInterests,
    ReadForBreak, BreakChain, BreaksDone, RunForListing, RerunDone, FindExisting,
    FindLocked, CreateChain
<1>2. ASSUME NEW w \in Workers, Handle(w), unlock' # unlock
      PROVE  CreateUnlock(w) \/ ApproveOwnUnlock(w) \/ ApproveContactUnlock(w)
  BY <1>2 DEF Handle, RunForUser, RerunChainMembersByAdmin, ReadForAccept, AcceptChain,
    CountAccepted, LockChain, DeclineChain, ConfirmInterest, BreakChainsForListings,
    RequestContactUnlock, Return
<1>3. ASSUME NEW w \in Workers, CreateUnlock(w), unlock' # unlock
      PROVE  \E u \in Unlocks :
                pc[w] = "unlock" /\ FreeRow(u) /\ SetUnlock(u, mem[w].c, {})
  BY <1>3 DEF CreateUnlock
<1> QED
  BY <1>1, <1>2, <1>3 DEF Next, Tick, ListingOpensOrCloses, vars

(* A step moves at most one process, and to the labels where a chain is    *)
(* held for a member only by the action that takes it there.               *)
Holding == {"accept", "count", "lock", "unlock", "approve"}
Still(q) == pc'[q] = pc[q] /\ mem'[q] = mem[q]
Only(p) == \A q \in Procs \ {p} : Still(q)
Takes(w) == \/ ReadForAccept(w) \/ AcceptChain(w) \/ CountAccepted(w)
            \/ RequestContactUnlock(w) \/ CreateUnlock(w)

LEMMA StepMoves ==
    ASSUME TypeOK
    PROVE  /\ \A p \in Procs : Sweep(p) \/ Fail(p) => Only(p) /\ pc'[p] \notin Holding
           /\ \A w \in Workers : Handle(w) =>
                 \/ UNCHANGED <<pc, mem>>
                 \/ Only(w) /\ (pc'[w] \notin Holding \/ Takes(w))
<1> USE DEF Still
<1>0. pc \in [Procs -> Labels] /\ mem \in [Procs -> Mems] /\ Workers \subseteq Procs
  BY DEF TypeOK, ControlOK, Procs
<1>1. ASSUME NEW p \in Procs, NEW label, NEW m, Move(p, label, m)
      PROVE  Only(p) /\ pc'[p] = label
  BY <1>0, <1>1 DEF Move, Only
<1> HIDE DEF Still
<1>2. ASSUME NEW p \in Procs, Sweep(p) \/ Fail(p)
      PROVE  Only(p) /\ pc'[p] \notin Holding
  <2>1. ASSUME ExpireListings(p) \/ ExpirePendingChains(p) \/ ExpireListingInterests(p)
        PROVE  Only(p) /\ pc'[p] \notin Holding
    BY <1>0, <2>1 DEF ExpireListings, ExpirePendingChains, ExpireListingInterests, Holding, Move, Only, Still
  <2>2. ASSUME ReadForBreak(p) \/ RunForListing(p)
        PROVE  Only(p) /\ pc'[p] \notin Holding
    BY <1>0, <2>2 DEF ReadForBreak, RunForListing, Holding, Move, Only, Still
  <2>3. ASSUME BreakChain(p) \/ FindExisting(p) \/ FindLocked(p) \/ CreateChain(p)
        PROVE  Only(p) /\ pc'[p] \notin Holding
    BY <1>0, <1>1, <2>3 DEF BreakChain, FindExisting, FindLocked, CreateChain, Holding
  <2>4. mem[p].after \notin Holding /\ mem[p].back \notin Holding
    BY <1>0 DEF Mems, Holding
  <2>5. ASSUME BreaksDone(p) \/ RerunDone(p) \/ Fail(p)
        PROVE  Only(p) /\ pc'[p] \notin Holding
    BY <1>0, <1>1, <2>4, <2>5 DEF BreaksDone, RerunDone, Fail, Done, Holding
  <2> QED
    BY <1>2, <2>1, <2>2, <2>3, <2>5 DEF Sweep
<1>3. ASSUME NEW w \in Workers, Handle(w)
      PROVE  \/ UNCHANGED <<pc, mem>>
             \/ Only(w) /\ (pc'[w] \notin Holding \/ Takes(w))
  <2>1. ASSUME ReadForAccept(w) \/ AcceptChain(w) \/ CountAccepted(w)
        PROVE  Only(w) /\ Takes(w)
    BY <1>0, <1>1, <2>1 DEF ReadForAccept, AcceptChain, CountAccepted, Done, Takes
  <2>2. ASSUME RequestContactUnlock(w) \/ CreateUnlock(w)
        PROVE  Only(w) /\ Takes(w)
    BY <1>0, <1>1, <2>2 DEF RequestContactUnlock, CreateUnlock, Done, Takes
  <2>3. ASSUME RunForUser(w) \/ RerunChainMembersByAdmin(w) \/ DeclineChain(w)
        PROVE  Only(w) /\ pc'[w] \notin Holding
    BY <1>0, <2>3 DEF RunForUser, RerunChainMembersByAdmin, DeclineChain, Holding, Move, Only, Still
  <2>4. ASSUME \/ LockChain(w) \/ ConfirmInterest(w) \/ BreakChainsForListings(w)
               \/ ApproveOwnUnlock(w) \/ Return(w)
        PROVE  Only(w) /\ pc'[w] \notin Holding
    BY <1>0, <1>1, <2>4 DEF LockChain, ConfirmInterest, BreakChainsForListings, ApproveOwnUnlock,
      Return, Done, Holding, Move, Only, Still
  <2>5. CASE ApproveContactUnlock(w)
    BY <2>5 DEF ApproveContactUnlock
  <2> QED
    BY <1>3, <2>1, <2>2, <2>3, <2>4, <2>5 DEF Handle
<1> QED
  BY <1>2, <1>3

LEMMA OneMoves ==
    ASSUME TypeOK, [Next]_vars
    PROVE  \E p \in Procs \cup {Null} :
              /\ \A q \in Procs \ {p} : Still(q)
              /\ p \in Procs => \/ Still(p) \/ pc'[p] \notin Holding
                                \/ p \in Workers /\ Takes(p)
<1>1. CASE UNCHANGED <<pc, mem>>
  BY <1>1 DEF Still
<1>2. \/ UNCHANGED <<pc, mem>>
      \/ \E p \in Procs : Sweep(p) \/ Fail(p)
      \/ \E w \in Workers : Handle(w)
  BY DEF Next, Tick, ListingOpensOrCloses, vars
<1> QED
  BY <1>1, <1>2, StepMoves DEF Only, Procs

-----------------------------------------------------------------------------
(* What a chain once is.                                                   *)

Settled(c) == Exists(c) /\ AllAccepted(c)
Sealed(c) == Settled(c) /\ ~IsPending(c)

LEMMA ChainStable ==
    ASSUME TypeOK, [Next]_vars, NEW c \in Chains
    PROVE  /\ Exists(c) => Exists(c)'
           /\ Settled(c) => Settled(c)'
           /\ Sealed(c) => Sealed(c)'
<1> DEFINE Stays == /\ Exists(c) => Exists(c)'
                    /\ Settled(c) => Settled(c)'
                    /\ Sealed(c) => Sealed(c)'
<1> USE DEF Sealed, Settled, Exists, AllAccepted, IsPending
<1>1. CASE chain' = chain
  BY <1>1
<1>2. ASSUME NEW d \in Chains, NEW l \in d, SetChain(d, Accepted(chain[d], l))
      PROVE  Stays
  <2>1. /\ chain \in [Chains -> ChainRows]
        /\ \A e \in Chains : e # d => chain'[e] = chain[e]
        /\ chain'[d].status = chain[d].status
        /\ chain'[d].accepted = chain[d].accepted \cup {l}
    BY <1>2 DEF TypeOK, SetChain, Accepted
  <2>2. CASE c = d
    BY <2>1, <2>2
  <2>3. CASE c # d
    BY <2>1, <2>3
  <2> QED
    BY <2>2, <2>3
<1>3. ASSUME NEW d \in Chains,
             \/ SetChain(d, Broken(chain[d])) \/ SetChain(d, Locked(chain[d]))
             \/ ~Exists(d) /\ SetChain(d, Proposed)
      PROVE  Stays
  BY <1>3 DEF TypeOK, ChainRows, SetChain, Broken, Locked, Proposed
<1> QED
  BY <1>1, <1>2, <1>3, ChainWritten

(* One chain per set of members, ever.                                     *)
THEOREM ProposedOnceAlways == Spec => ProposedOnce
<1>1. TypeOK /\ [Next]_vars =>
        \A c \in Chains : Exists(c) => chain'[c].status # "NONE" /\
          (chain'[c].status = "PENDING" => IsPending(c))
  <2> SUFFICES ASSUME TypeOK, [Next]_vars, NEW c \in Chains, Exists(c)
               PROVE  chain'[c].status # "NONE" /\
                        (chain'[c].status = "PENDING" => IsPending(c))
    OBVIOUS
  <2> USE DEF Exists, IsPending
  <2>1. CASE chain' = chain
    BY <2>1
  <2>2. CASE \E d \in Chains, l \in Listings :
               \/ SetChain(d, Broken(chain[d])) \/ SetChain(d, Locked(chain[d]))
               \/ ~Exists(d) /\ SetChain(d, Proposed)
               \/ SetChain(d, Accepted(chain[d], l))
    BY <2>2 DEF TypeOK, ChainRows, SetChain, Broken, Locked, Proposed, Accepted
  <2>3. CASE \E d \in Chains :
               \/ SetChain(d, Broken(chain[d])) \/ SetChain(d, Locked(chain[d]))
               \/ ~Exists(d) /\ SetChain(d, Proposed)
    BY <2>3 DEF TypeOK, ChainRows, SetChain, Broken, Locked, Proposed
  <2> QED
    BY <2>1, <2>2, <2>3, ChainWritten, ChainMembers
<1> QED
  BY <1>1, TypeCorrect, PTL DEF Spec, ProposedOnce

-----------------------------------------------------------------------------
(* Nobody is bound, and nobody's number shown, without everyone's consent. *)
(* Inductive only together with what the handlers hold: whoever counted    *)
(* the acceptances, or read the chain as LOCKED, still finds them all.     *)

HandOK(label, m) ==
    /\ label \in {"accept", "count"} => Exists(m.c)
    /\ label = "lock" => Settled(m.c)
    /\ label \in {"unlock", "approve"} => Sealed(m.c)
    /\ label = "approve" => unlock[m.u].chain = m.c
Hands == \A p \in Procs : HandOK(pc[p], mem[p])
Unlocked ==
    \A u \in Unlocks : unlock[u].chain # Null =>
        /\ Sealed(unlock[u].chain)
        /\ unlock[u].approvers \subseteq Members(unlock[u].chain)
ConsentInv == Hands /\ LockedByAll /\ Unlocked

LEMMA LockedStep ==
    ASSUME TypeOK, ConsentInv, [Next]_vars
    PROVE  LockedByAll'
<1> SUFFICES ASSUME NEW c \in Chains, IsLocked(c)' PROVE AllAccepted(c)'
  BY DEF LockedByAll
<1>1. CASE Settled(c)
  BY <1>1, ChainStable DEF Settled
<1>2. CASE ~Settled(c)
  <2>1. ~IsLocked(c)
    BY <1>2 DEF ConsentInv, LockedByAll, Settled, IsLocked, Exists
  <2>2. chain' # chain
    BY <2>1 DEF IsLocked
  <2>3. PICK p \in Procs, d \in Chains :
           /\ mem[p].c = d
           /\ \/ pc[p] = "breakWrite" /\ SetChain(d, Broken(chain[d]))
              \/ pc[p] = "create" /\ ~Exists(d) /\ SetChain(d, Proposed)
              \/ pc[p] = "accept" /\ SetChain(d, Accepted(chain[d], mem[p].l))
              \/ pc[p] = "lock" /\ SetChain(d, Locked(chain[d]))
    BY <2>2, ChainWritten
  <2>4. pc[p] = "lock" /\ d = c
    BY <2>1, <2>3 DEF TypeOK, ChainRows, SetChain, Broken, Proposed, Accepted, Locked, IsLocked
  <2> QED
    BY <1>2, <2>3, <2>4 DEF ConsentInv, Hands, HandOK
<1> QED
  BY <1>1, <1>2

(* An unlock row, once there, stays with its chain.                        *)
LEMMA UnlockStable ==
    ASSUME TypeOK, Hands, [Next]_vars, NEW u \in Unlocks, unlock[u].chain # Null
    PROVE  unlock'[u].chain = unlock[u].chain
<1>0. unlock \in [Unlocks -> UnlockRows] /\ Workers \subseteq Procs
  BY DEF TypeOK, Procs
<1>1. CASE unlock' = unlock
  BY <1>1
<1>2. ASSUME NEW w \in Workers, NEW v \in Unlocks, FreeRow(v), SetUnlock(v, mem[w].c, {})
      PROVE  unlock'[u].chain = unlock[u].chain
  BY <1>0, <1>2 DEF FreeRow, SetUnlock
<1>3. ASSUME NEW w \in Workers, ApproveOwnUnlock(w)
      PROVE  unlock'[u].chain = unlock[u].chain
  <2>1. unlock[mem[w].u].chain = mem[w].c
    BY <1>0, <1>3 DEF Hands, HandOK, ApproveOwnUnlock
  <2> QED
    BY <1>0, <1>3, <2>1 DEF ApproveOwnUnlock, SetUnlock
<1>4. ASSUME NEW w \in Workers, ApproveContactUnlock(w)
      PROVE  unlock'[u].chain = unlock[u].chain
  BY <1>0, <1>4 DEF ApproveContactUnlock, SetUnlock
<1> QED
  BY <1>1, <1>2, <1>3, <1>4, UnlockWritten

LEMMA UnlockedStep ==
    ASSUME TypeOK, ConsentInv, [Next]_vars
    PROVE  Unlocked'
<1> SUFFICES ASSUME NEW u \in Unlocks, unlock'[u].chain # Null
             PROVE  /\ Sealed(unlock[u].chain)'
                    /\ unlock'[u].approvers \subseteq Members(unlock'[u].chain)
  BY DEF Unlocked, Members
<1>0. /\ unlock \in [Unlocks -> UnlockRows] /\ Workers \subseteq Procs
      /\ \A w \in Workers : /\ pc[w] \in AtChain => mem[w].c \in Chains
                            /\ pc[w] \in AtMember => mem[w].l \in mem[w].c
                            /\ pc[w] = "approve" => mem[w].u \in Unlocks
  BY DEF TypeOK, ControlOK, Procs
<1>1. ASSUME NEW c \in Chains, Sealed(c), unlock'[u].chain = c
      PROVE  Sealed(unlock[u].chain)'
  <2>1. Sealed(c)'
    BY <1>1, ChainStable
  <2> QED
    BY <1>1, <2>1 DEF Sealed, Settled, Exists, AllAccepted, IsPending
<1>2. ASSUME unlock[u].chain # Null
      PROVE  Sealed(unlock[u].chain)'
  BY <1>0, <1>1, <1>2, UnlockStable DEF ConsentInv, Unlocked, UnlockRows
<1>3. CASE unlock' = unlock
  BY <1>2, <1>3 DEF ConsentInv, Unlocked
<1>4. ASSUME NEW w \in Workers, NEW v \in Unlocks, pc[w] = "unlock", FreeRow(v),
             SetUnlock(v, mem[w].c, {})
      PROVE  /\ Sealed(unlock[u].chain)'
             /\ unlock'[u].approvers \subseteq Members(unlock'[u].chain)
  <2>1. mem[w].c \in Chains /\ Sealed(mem[w].c)
    BY <1>0, <1>4 DEF ConsentInv, Hands, HandOK, AtChain
  <2>2. CASE u = v
    <3>1. unlock'[u].chain = mem[w].c /\ unlock'[u].approvers = {}
      BY <1>0, <1>4, <2>2 DEF SetUnlock
    <3> QED
      BY <1>1, <2>1, <3>1
  <2>3. CASE u # v
    BY <1>0, <1>2, <1>4, <2>3 DEF SetUnlock, ConsentInv, Unlocked
  <2> QED
    BY <2>2, <2>3
<1>5. ASSUME NEW w \in Workers, ApproveOwnUnlock(w)
      PROVE  /\ Sealed(unlock[u].chain)'
             /\ unlock'[u].approvers \subseteq Members(unlock'[u].chain)
  <2>1. /\ mem[w].u \in Unlocks /\ mem[w].c \in Chains
        /\ unlock[mem[w].u].chain = mem[w].c /\ mem[w].c # Null
        /\ Owner[mem[w].l] \in Members(mem[w].c)
    BY <1>0, <1>5, ChainMembers, NullApart
    DEF ApproveOwnUnlock, AtChain, AtMember, ConsentInv, Hands, HandOK
  <2>2. unlock[u].chain # Null
    BY <1>0, <1>5, <2>1 DEF ApproveOwnUnlock, SetUnlock
  <2> QED
    BY <1>0, <1>2, <1>5, <2>1, <2>2 DEF ApproveOwnUnlock, SetUnlock, ConsentInv, Unlocked
<1>6. ASSUME NEW w \in Workers, ApproveContactUnlock(w)
      PROVE  /\ Sealed(unlock[u].chain)'
             /\ unlock'[u].approvers \subseteq Members(unlock'[u].chain)
  <2>1. unlock[u].chain # Null
    BY <1>0, <1>6 DEF ApproveContactUnlock, SetUnlock
  <2> QED
    BY <1>0, <1>2, <1>6, <2>1 DEF ApproveContactUnlock, SetUnlock, ConsentInv, Unlocked
<1> QED
  BY <1>3, <1>4, <1>5, <1>6, UnlockWritten

LEMMA HandsStep ==
    ASSUME TypeOK, ConsentInv, [Next]_vars
    PROVE  Hands'
<1>0. Workers \subseteq Procs /\ ControlOK
  BY DEF TypeOK, Procs
<1>1. ASSUME NEW q \in Procs, Still(q)
      PROVE  HandOK(pc[q], mem[q])'
  <2>1. PICK label, m : label = pc[q] /\ m = mem[q]
    OBVIOUS
  <2>2. pc'[q] = label /\ mem'[q] = m
    BY <1>1, <2>1 DEF Still
  <2>3. HandTyped(label, m) /\ HandOK(label, m)
    BY <2>1 DEF ConsentInv, Hands, TypeOK, ControlOK, HandTyped
  <2>4. label \in Holding => /\ Exists(m.c) => Exists(m.c)'
                             /\ Settled(m.c) => Settled(m.c)'
                             /\ Sealed(m.c) => Sealed(m.c)'
    BY <2>3, ChainStable DEF HandTyped, Holding, AtChain
  <2>5. label = "approve" => unlock'[m.u].chain = m.c
    BY <2>3, UnlockStable, NullApart DEF HandTyped, HandOK, ConsentInv, AtChain
  <2>6. HandOK(label, m)'
    BY <2>3, <2>4, <2>5 DEF HandOK, Holding
  <2> QED
    BY <2>2, <2>6 DEF HandOK, Sealed, Settled, Exists, AllAccepted, IsPending
<1>2. ASSUME NEW p \in Procs, pc'[p] \notin Holding
      PROVE  HandOK(pc[p], mem[p])'
  BY <1>2 DEF HandOK, Holding
<1>3. ASSUME NEW w \in Workers, NEW c \in Chains, mem'[w].c = c,
             Exists(c), pc'[w] \in {"accept", "count"}
      PROVE  HandOK(pc[w], mem[w])'
  <2>1. Exists(c)'
    BY <1>3, ChainStable
  <2> QED
    BY <1>3, <2>1 DEF HandOK, Exists
<1>4. ASSUME NEW w \in Workers, NEW c \in Chains, mem'[w].c = c,
             \/ Settled(c) /\ pc'[w] = "lock"
             \/ Sealed(c) /\ pc'[w] = "unlock"
             \/ Sealed(c) /\ pc'[w] = "approve" /\ unlock'[mem'[w].u].chain = c
      PROVE  HandOK(pc[w], mem[w])'
  <2>1. (Settled(c) => Settled(c)') /\ (Sealed(c) => Sealed(c)')
    BY ChainStable
  <2> QED
    BY <1>4, <2>1 DEF HandOK, Sealed, Settled, Exists, AllAccepted, IsPending
<1>5. ASSUME NEW w \in Workers, Takes(w)
      PROVE  Still(w) \/ HandOK(pc[w], mem[w])'
  <2>0. /\ w \in Procs /\ mem[w] \in Mems /\ mem \in [Procs -> Mems] /\ pc \in [Procs -> Labels]
        /\ pc[w] \in AtChain => mem[w].c \in Chains
        /\ HandOK(pc[w], mem[w])
    BY <1>0 DEF ControlOK, ConsentInv, Hands
  <2>1. CASE ReadForAccept(w)
    <3>1. PICK c \in Chains :
            /\ CanAccept(c)
            /\ \/ Move(w, "break", [Blank EXCEPT !.todo = {c}, !.expiring = TRUE])
               \/ \E l \in c : Move(w, "accept", [Blank EXCEPT !.c = c, !.l = l])
      BY <2>1 DEF ReadForAccept
    <3>2. Exists(c)
      BY <3>1 DEF CanAccept, IsPending, Exists
    <3>3. pc'[w] = "break" \/ (pc'[w] = "accept" /\ mem'[w].c = c)
      BY <2>0, <3>1 DEF Move, Blank
    <3> QED
      BY <1>2, <1>3, <2>0, <3>2, <3>3 DEF Holding
  <2>2. CASE AcceptChain(w)
    <3>1. pc'[w] = "count" /\ mem'[w].c = mem[w].c
      BY <2>0, <2>2, HandOf DEF AcceptChain, Move
    <3> QED
      BY <1>3, <2>0, <2>2, <3>1 DEF AcceptChain, HandOK, AtChain
  <2>3. CASE CountAccepted(w)
    <3>1. \/ pc'[w] = "idle"
          \/ pc'[w] = "lock" /\ mem'[w].c = mem[w].c /\ AllAccepted(mem[w].c)
      BY <2>0, <2>3 DEF CountAccepted, Move, Done
    <3> QED
      BY <1>2, <1>4, <2>0, <2>3, <3>1 DEF CountAccepted, HandOK, AtChain, Settled, Holding
  <2>4. CASE RequestContactUnlock(w)
    <3>1. PICK c \in Chains, l \in Listings :
            CanUnlock(c) /\ Move(w, "unlock", [Blank EXCEPT !.c = c, !.l = l])
      BY <2>4, ChainMembers DEF RequestContactUnlock
    <3>2. Sealed(c)
      BY <3>1 DEF CanUnlock, ConsentInv, LockedByAll, Sealed, Settled, Exists, IsLocked,
                  IsPending
    <3>3. pc'[w] = "unlock" /\ mem'[w].c = c
      BY <2>0, <3>1 DEF Move, Blank
    <3> QED
      BY <1>4, <3>2, <3>3
  <2>5. CASE CreateUnlock(w)
    <3>1. mem[w].c \in Chains /\ Sealed(mem[w].c)
      BY <2>0, <2>5 DEF CreateUnlock, HandOK, AtChain
    <3>2. ASSUME NEW u \in Unlocks, SetUnlock(u, mem[w].c, {}),
                 Move(w, "approve", [mem[w] EXCEPT !.u = u])
          PROVE  HandOK(pc[w], mem[w])'
      <4>1. pc'[w] = "approve" /\ mem'[w].c = mem[w].c /\ mem'[w].u = u
        BY <2>0, <3>2, HandOf DEF Move
      <4>2. unlock'[u].chain = mem[w].c
        BY <3>2 DEF SetUnlock, TypeOK
      <4> QED
        BY <1>4, <3>1, <4>1, <4>2
    <3>3. ASSUME Done(w) PROVE HandOK(pc[w], mem[w])'
      BY <1>2, <2>0, <3>3 DEF Done, Move, Holding
    <3> QED
      BY <2>5, <3>2, <3>3 DEF CreateUnlock
  <2> QED
    BY <1>5, <2>1, <2>2, <2>3, <2>4, <2>5 DEF Takes
<1> QED
  BY <1>1, <1>2, <1>5, OneMoves DEF Hands

LEMMA ConsentAlways == Spec => []ConsentInv
<1>1. Init => ConsentInv
  BY DEF Init, ConsentInv, Hands, HandOK, LockedByAll, Unlocked, IsLocked
<1> QED
  BY <1>1, TypeCorrect, LockedStep, UnlockedStep, HandsStep, PTL DEF Spec, ConsentInv

(* A chain is LOCKED only if every member accepted it.                     *)
THEOREM LockedByAllAlways == Spec => []LockedByAll
BY ConsentAlways, PTL DEF ConsentInv

(* Contacts are unlocked in chains that everyone accepted and that were    *)
(* locked, by members.                                                     *)
THEOREM ContactsNeedAllAlways == Spec => []ContactsNeedAll
<1>1. TypeOK /\ ConsentInv => ContactsNeedAll
  BY NullApart DEF ConsentInv, Unlocked, ContactsNeedAll, ContactsShown, Sealed, Settled,
    Exists, IsPending, IsLocked, IsBroken, TypeOK, UnlockRows, ChainRows, ChainStatus
<1> QED
  BY <1>1, TypeCorrect, ConsentAlways, PTL

-----------------------------------------------------------------------------
(* A chain waiting for its members can run out, a LOCKED one cannot.       *)
THEOREM PendingHasDeadlineAlways == Spec => []PendingHasDeadline
<1>1. Init => PendingHasDeadline
  BY DEF Init, PendingHasDeadline, IsPending, IsLocked
<1>2. TypeOK /\ PendingHasDeadline /\ [Next]_vars => PendingHasDeadline'
  <2> SUFFICES ASSUME TypeOK, PendingHasDeadline, [Next]_vars, NEW c \in Chains
               PROVE  /\ IsPending(c)' => (chain[c].acceptBy # Null)'
                      /\ IsLocked(c)' => (chain[c].acceptBy = Null)'
    BY DEF PendingHasDeadline
  <2> USE DEF PendingHasDeadline, IsPending, IsLocked
  <2>1. CASE chain' = chain
    BY <2>1
  <2>2. clock + AcceptTtl # Null
    BY NumbersAssumption, NullApart DEF TypeOK
  <2>3. ASSUME NEW d \in Chains, NEW l,
               \/ SetChain(d, Broken(chain[d])) \/ SetChain(d, Locked(chain[d]))
               \/ SetChain(d, Proposed) \/ SetChain(d, Accepted(chain[d], l))
        PROVE  /\ IsPending(c)' => (chain[c].acceptBy # Null)'
               /\ IsLocked(c)' => (chain[c].acceptBy = Null)'
    BY <2>2, <2>3 DEF TypeOK, ChainRows, SetChain, Broken, Locked, Proposed, Accepted
  <2> QED
    BY <2>1, <2>3, ChainWritten
<1> QED
  BY <1>1, <1>2, TypeCorrect, PTL DEF Spec

-----------------------------------------------------------------------------
(* What each step makes of a process: its label, and what its memory then  *)
(* holds of chains to break, return label, chain, listings matched, reason.*)

Turns(p, label, todo, back, c, matched, expiring) ==
    /\ pc'[p] = label
    /\ mem'[p].todo = todo /\ mem'[p].back = back /\ mem'[p].c = c
    /\ mem'[p].matched = matched /\ mem'[p].expiring = expiring

(* With the memory of p as it was, but for todo, back and c.               *)
Goes(p, label, todo, back, c) ==
    Turns(p, label, todo, back, c, mem[p].matched, mem[p].expiring)

(* With a new memory.                                                      *)
Starts(p, label, back, c) == Turns(p, label, {}, back, c, {}, FALSE)

LEMMA SweepTurns ==
    ASSUME TypeOK, NEW p \in Procs
    PROVE  /\ ExpireListings(p) => Starts(p, "rerun", "chains", Null)
           /\ ExpirePendingChains(p) =>
                 \E B \in SUBSET OverdueChains(clock) :
                    Turns(p, "break", B, "idle", Null, {}, TRUE)
           /\ ExpireListingInterests(p) =>
                 Starts(p, "rerun", IF p \in Workers THEN "ready" ELSE "idle", Null)
           /\ ReadForBreak(p) =>
                 \E c \in mem[p].todo :
                    \/ /\ IsBroken(c) \/ (mem[p].expiring /\ IsLocked(c))
                       /\ Goes(p, "break", mem[p].todo \ {c}, mem[p].back, mem[p].c)
                    \/ /\ ~IsBroken(c)
                       /\ Goes(p, "breakWrite", mem[p].todo \ {c}, mem[p].back, c)
           /\ BreakChain(p) => Goes(p, "rerun", mem[p].todo, "break", Null)
           /\ BreaksDone(p) => Starts(p, mem[p].after, "idle", Null)
           /\ RunForListing(p) =>
                 \/ \E c \in Chains :
                       c \subseteq active /\ Goes(p, "existing", mem[p].todo, mem[p].back, c)
                 \/ Goes(p, "rerun", mem[p].todo, mem[p].back, mem[p].c)
           /\ RerunDone(p) => Goes(p, mem[p].back, mem[p].todo, "idle", mem[p].c)
           /\ FindExisting(p) =>
                 \/ Goes(p, "rerun", mem[p].todo, mem[p].back, Null)
                 \/ ~Exists(mem[p].c) /\ Goes(p, "locked", mem[p].todo, mem[p].back, mem[p].c)
           /\ FindLocked(p) =>
                 \/ Goes(p, "rerun", mem[p].todo, mem[p].back, Null)
                 \/ Goes(p, "create", mem[p].todo, mem[p].back, mem[p].c)
           /\ CreateChain(p) => Goes(p, "rerun", mem[p].todo, mem[p].back, Null)
           /\ Fail(p) => Starts(p, "idle", "idle", Null)
<1>0. pc \in [Procs -> Labels] /\ mem \in [Procs -> Mems] /\ mem[p] \in Mems
  BY DEF TypeOK, ControlOK
<1>m. ASSUME NEW label, NEW m, Move(p, label, m)
      PROVE  pc'[p] = label /\ mem'[p] = m
  BY <1>0, <1>m DEF Move
<1> USE DEF Turns, Goes, Starts
<1>1. ASSUME ExpireListings(p) PROVE Starts(p, "rerun", "chains", Null)
  <2>1. PICK S : Move(p, "rerun", [Blank EXCEPT !.rerun = S, !.back = "chains"])
    BY <1>1 DEF ExpireListings
  <2>2. pc'[p] = "rerun" /\ mem'[p] = [Blank EXCEPT !.rerun = S, !.back = "chains"]
    BY <1>m, <2>1
  <2> QED
    BY <2>2 DEF Blank
<1>2. ASSUME ExpirePendingChains(p)
      PROVE  \E B \in SUBSET OverdueChains(clock) :
                Turns(p, "break", B, "idle", Null, {}, TRUE)
  <2>1. PICK B \in SUBSET OverdueChains(clock) :
          Move(p, "break", [Blank EXCEPT !.todo = B, !.after = "interests",
                                         !.expiring = TRUE])
    BY <1>2 DEF ExpirePendingChains, Oldest
  <2>2. /\ pc'[p] = "break"
        /\ mem'[p] = [Blank EXCEPT !.todo = B, !.after = "interests", !.expiring = TRUE]
    BY <1>m, <2>1
  <2> QED
    BY <2>2 DEF Blank
<1>3. ASSUME ExpireListingInterests(p)
      PROVE  Starts(p, "rerun", IF p \in Workers THEN "ready" ELSE "idle", Null)
  <2>1. PICK S :
          Move(p, "rerun", [Blank EXCEPT !.rerun = S,
                                         !.back = IF p \in Workers THEN "ready" ELSE "idle"])
    BY <1>3 DEF ExpireListingInterests
  <2>2. /\ pc'[p] = "rerun"
        /\ mem'[p] = [Blank EXCEPT !.rerun = S,
                                   !.back = IF p \in Workers THEN "ready" ELSE "idle"]
    BY <1>m, <2>1
  <2> QED
    BY <2>2 DEF Blank
<1>4. ASSUME ReadForBreak(p)
      PROVE  \E c \in mem[p].todo :
                \/ /\ IsBroken(c) \/ (mem[p].expiring /\ IsLocked(c))
                   /\ Goes(p, "break", mem[p].todo \ {c}, mem[p].back, mem[p].c)
                \/ /\ ~IsBroken(c)
                   /\ Goes(p, "breakWrite", mem[p].todo \ {c}, mem[p].back, c)
  <2>1. PICK c \in mem[p].todo :
          \/ /\ IsBroken(c) \/ (mem[p].expiring /\ IsLocked(c))
             /\ Move(p, "break", [mem[p] EXCEPT !.todo = @ \ {c}])
          \/ /\ ~IsBroken(c)
             /\ Move(p, "breakWrite", [[mem[p] EXCEPT !.todo = @ \ {c}] EXCEPT !.c = c])
    BY <1>4 DEF ReadForBreak, SparedByExpiry
  <2>2. CASE Move(p, "break", [mem[p] EXCEPT !.todo = @ \ {c}]) /\
             (IsBroken(c) \/ (mem[p].expiring /\ IsLocked(c)))
    <3>1. Goes(p, "break", mem[p].todo \ {c}, mem[p].back, mem[p].c)
      BY <1>0, <1>m, <2>2 DEF Mems
    <3> QED
      BY <2>2, <3>1
  <2>3. CASE Move(p, "breakWrite", [[mem[p] EXCEPT !.todo = @ \ {c}] EXCEPT !.c = c]) /\
             ~IsBroken(c)
    <3>1. /\ pc'[p] = "breakWrite"
          /\ mem'[p] = [[mem[p] EXCEPT !.todo = @ \ {c}] EXCEPT !.c = c]
      BY <1>m, <2>3
    <3>2. Goes(p, "breakWrite", mem[p].todo \ {c}, mem[p].back, c)
      BY <1>0, <3>1 DEF Mems
    <3> QED
      BY <2>3, <3>2
  <2> QED
    BY <2>1, <2>2, <2>3
<1>5. ASSUME BreakChain(p) PROVE Goes(p, "rerun", mem[p].todo, "break", Null)
  <2>1. /\ pc'[p] = "rerun"
        /\ mem'[p] = [mem[p] EXCEPT !.rerun = mem[p].c, !.c = Null, !.back = "break"]
    BY <1>m, <1>5 DEF BreakChain
  <2> QED
    BY <1>0, <2>1 DEF Mems
<1>6. ASSUME BreaksDone(p) PROVE Starts(p, mem[p].after, "idle", Null)
  BY <1>m, <1>6 DEF BreaksDone, Blank
<1>7. ASSUME RunForListing(p)
      PROVE  \/ \E c \in Chains :
                   c \subseteq active /\ Goes(p, "existing", mem[p].todo, mem[p].back, c)
             \/ Goes(p, "rerun", mem[p].todo, mem[p].back, mem[p].c)
  <2>1. PICK l \in mem[p].rerun :
          \/ \E c \in BestCycles(l, active) :
                Move(p, "existing", [[mem[p] EXCEPT !.rerun = @ \ {l}] EXCEPT !.c = c])
          \/ Move(p, "rerun", [mem[p] EXCEPT !.rerun = @ \ {l}])
    BY <1>7 DEF RunForListing
  <2>2. ASSUME NEW c \in BestCycles(l, active),
               Move(p, "existing", [[mem[p] EXCEPT !.rerun = @ \ {l}] EXCEPT !.c = c])
        PROVE  c \in Chains /\ c \subseteq active
               /\ Goes(p, "existing", mem[p].todo, mem[p].back, c)
    <3>1. c \in Chains /\ c \subseteq active
      BY <2>2 DEF BestCycles, CyclesFrom
    <3>2. /\ pc'[p] = "existing"
          /\ mem'[p] = [[mem[p] EXCEPT !.rerun = @ \ {l}] EXCEPT !.c = c]
      BY <1>m, <2>2
    <3>3. Goes(p, "existing", mem[p].todo, mem[p].back, c)
      BY <1>0, <3>2 DEF Mems
    <3> QED
      BY <3>1, <3>3
  <2>3. ASSUME Move(p, "rerun", [mem[p] EXCEPT !.rerun = @ \ {l}])
        PROVE  Goes(p, "rerun", mem[p].todo, mem[p].back, mem[p].c)
    BY <1>0, <1>m, <2>3 DEF Mems
  <2> QED
    BY <2>1, <2>2, <2>3
<1>8. ASSUME RerunDone(p) PROVE Goes(p, mem[p].back, mem[p].todo, "idle", mem[p].c)
  BY <1>0, <1>m, <1>8 DEF RerunDone, Mems
<1>9. ASSUME NEW label, Move(p, label, [mem[p] EXCEPT !.c = Null])
      PROVE  Goes(p, label, mem[p].todo, mem[p].back, Null)
  BY <1>0, <1>m, <1>9 DEF Mems
<1>10. ASSUME NEW label, Move(p, label, mem[p])
       PROVE  Goes(p, label, mem[p].todo, mem[p].back, mem[p].c)
  BY <1>m, <1>10
<1>11. ASSUME Done(p) PROVE Starts(p, "idle", "idle", Null)
  BY <1>m, <1>11 DEF Done, Blank
<1> HIDE DEF Turns, Goes, Starts
<1>12. /\ FindExisting(p) =>
             \/ Goes(p, "rerun", mem[p].todo, mem[p].back, Null)
             \/ ~Exists(mem[p].c) /\ Goes(p, "locked", mem[p].todo, mem[p].back, mem[p].c)
       /\ FindLocked(p) =>
             \/ Goes(p, "rerun", mem[p].todo, mem[p].back, Null)
             \/ Goes(p, "create", mem[p].todo, mem[p].back, mem[p].c)
       /\ CreateChain(p) => Goes(p, "rerun", mem[p].todo, mem[p].back, Null)
       /\ Fail(p) => Starts(p, "idle", "idle", Null)
  BY <1>9, <1>10, <1>11 DEF FindExisting, FindLocked, CreateChain, Fail
<1> QED
  BY <1>1, <1>2, <1>3, <1>4, <1>5, <1>6, <1>7, <1>8, <1>12

LEMMA HandleTurns ==
    ASSUME TypeOK, NEW w \in Workers
    PROVE  /\ RunForUser(w) => Starts(w, "rerun", "idle", Null)
           /\ RerunChainMembersByAdmin(w) => Starts(w, "rerun", "idle", Null)
           /\ ReadForAccept(w) =>
                 \E c \in Chains :
                    /\ IsPending(c)
                    /\ \/ /\ OutOfTime(c, clock)
                          /\ Turns(w, "break", {c}, "idle", Null, {}, TRUE)
                       \/ Starts(w, "accept", "idle", c)
           /\ AcceptChain(w) => Goes(w, "count", mem[w].todo, mem[w].back, mem[w].c)
           /\ CountAccepted(w) =>
                 \/ AllAccepted(mem[w].c) /\ Goes(w, "lock", mem[w].todo, mem[w].back, mem[w].c)
                 \/ Starts(w, "idle", "idle", Null)
           /\ LockChain(w) => Starts(w, "idle", "idle", Null)
           /\ DeclineChain(w) =>
                 \E c \in Chains :
                    Exists(c) /\ Turns(w, "break", {c}, "idle", Null, {}, FALSE)
           /\ ConfirmInterest(w) =>
                 \E L \in SUBSET Listings :
                    /\ active' = active \ L
                    /\ Turns(w, "rerun", {}, "conflicts", Null, L, FALSE)
           /\ BreakChainsForListings(w) =>
                 Turns(w, "break", ConflictsWith(mem[w].matched), "idle", Null, {}, FALSE)
           /\ RequestContactUnlock(w) => \E c \in Chains : Starts(w, "unlock", "idle", c)
           /\ CreateUnlock(w) =>
                 \/ Goes(w, "approve", mem[w].todo, mem[w].back, mem[w].c)
                 \/ Starts(w, "idle", "idle", Null)
           /\ ApproveOwnUnlock(w) => Starts(w, "idle", "idle", Null)
           /\ Return(w) => Starts(w, "idle", "idle", Null)
<1>0. pc \in [Procs -> Labels] /\ mem \in [Procs -> Mems] /\ mem[w] \in Mems /\ w \in Procs
  BY DEF TypeOK, ControlOK, Procs
<1>m. ASSUME NEW label, NEW m, Move(w, label, m)
      PROVE  pc'[w] = label /\ mem'[w] = m
  BY <1>0, <1>m DEF Move
<1> USE DEF Turns, Goes, Starts
<1>1. ASSUME NEW S, NEW label, Move(w, label, [Blank EXCEPT !.rerun = S])
      PROVE  Starts(w, label, "idle", Null)
  <2>1. pc'[w] = label /\ mem'[w] = [Blank EXCEPT !.rerun = S]
    BY <1>m, <1>1
  <2> QED
    BY <2>1 DEF Blank
<1>2. ASSUME NEW T, Move(w, "break", [Blank EXCEPT !.todo = T])
      PROVE  Turns(w, "break", T, "idle", Null, {}, FALSE)
  <2>1. pc'[w] = "break" /\ mem'[w] = [Blank EXCEPT !.todo = T]
    BY <1>m, <1>2
  <2> QED
    BY <2>1 DEF Blank
<1>3. ASSUME NEW T, Move(w, "break", [Blank EXCEPT !.todo = T, !.expiring = TRUE])
      PROVE  Turns(w, "break", T, "idle", Null, {}, TRUE)
  <2>1. pc'[w] = "break" /\ mem'[w] = [Blank EXCEPT !.todo = T, !.expiring = TRUE]
    BY <1>m, <1>3
  <2> QED
    BY <2>1 DEF Blank
<1>4. ASSUME NEW label, NEW c, NEW l, Move(w, label, [Blank EXCEPT !.c = c, !.l = l])
      PROVE  Starts(w, label, "idle", c)
  <2>1. pc'[w] = label /\ mem'[w] = [Blank EXCEPT !.c = c, !.l = l]
    BY <1>m, <1>4
  <2> QED
    BY <2>1 DEF Blank
<1>5. ASSUME NEW S, NEW L,
             Move(w, "rerun", [Blank EXCEPT !.rerun = S, !.matched = L, !.back = "conflicts"])
      PROVE  Turns(w, "rerun", {}, "conflicts", Null, L, FALSE)
  <2>1. pc'[w] = "rerun" /\ mem'[w] = [Blank EXCEPT !.rerun = S, !.matched = L, !.back = "conflicts"]
    BY <1>m, <1>5
  <2> QED
    BY <2>1 DEF Blank
<1>6. ASSUME NEW label,
             \/ Move(w, label, mem[w])
             \/ Move(w, label, [mem[w] EXCEPT !.l = Null])
             \/ \E u \in Unlocks : Move(w, label, [mem[w] EXCEPT !.u = u])
      PROVE  Goes(w, label, mem[w].todo, mem[w].back, mem[w].c)
  <2>1. /\ pc'[w] = label
        /\ \/ mem'[w] = mem[w]
           \/ mem'[w] = [mem[w] EXCEPT !.l = Null]
           \/ \E u \in Unlocks : mem'[w] = [mem[w] EXCEPT !.u = u]
    BY <1>m, <1>6
  <2> QED
    BY <1>0, <2>1 DEF Mems
<1>7. ASSUME Done(w) PROVE Starts(w, "idle", "idle", Null)
  BY <1>m, <1>7 DEF Done, Blank
<1> HIDE DEF Turns, Goes, Starts
<1>8. RunForUser(w) \/ RerunChainMembersByAdmin(w) => Starts(w, "rerun", "idle", Null)
  BY <1>1 DEF RunForUser, RerunChainMembersByAdmin
<1>9. ASSUME ReadForAccept(w)
      PROVE  \E c \in Chains :
                /\ IsPending(c)
                /\ \/ /\ OutOfTime(c, clock)
                      /\ Turns(w, "break", {c}, "idle", Null, {}, TRUE)
                   \/ Starts(w, "accept", "idle", c)
  BY <1>3, <1>4, <1>9 DEF ReadForAccept, CanAccept
<1>10. DeclineChain(w) =>
          \E c \in Chains :
             Exists(c) /\ Turns(w, "break", {c}, "idle", Null, {}, FALSE)
  BY <1>2 DEF DeclineChain
<1>11. ASSUME ConfirmInterest(w)
       PROVE  \E L \in SUBSET Listings :
                 /\ active' = active \ L
                 /\ Turns(w, "rerun", {}, "conflicts", Null, L, FALSE)
  <2>1. PICK i \in Compatible, S \in Swept :
          /\ active' = active \ {i[1], i[2]}
          /\ Move(w, "rerun", [Blank EXCEPT !.rerun = S, !.matched = {i[1], i[2]},
                                            !.back = "conflicts"])
    BY <1>11 DEF ConfirmInterest
  <2>2. {i[1], i[2]} \in SUBSET Listings
    BY <2>1, ListingsAssumption
  <2> QED
    BY <1>5, <2>1, <2>2
<1>12. BreakChainsForListings(w) =>
          Turns(w, "break", ConflictsWith(mem[w].matched), "idle", Null, {}, FALSE)
  BY <1>2 DEF BreakChainsForListings
<1>13. RequestContactUnlock(w) => \E c \in Chains : Starts(w, "unlock", "idle", c)
  BY <1>4 DEF RequestContactUnlock
<1>14. /\ AcceptChain(w) => Goes(w, "count", mem[w].todo, mem[w].back, mem[w].c)
       /\ CountAccepted(w) =>
             \/ AllAccepted(mem[w].c) /\ Goes(w, "lock", mem[w].todo, mem[w].back, mem[w].c)
             \/ Starts(w, "idle", "idle", Null)
       /\ LockChain(w) => Starts(w, "idle", "idle", Null)
  BY <1>6, <1>7 DEF AcceptChain, CountAccepted, LockChain
<1>15. /\ CreateUnlock(w) =>
             \/ Goes(w, "approve", mem[w].todo, mem[w].back, mem[w].c)
             \/ Starts(w, "idle", "idle", Null)
       /\ ApproveOwnUnlock(w) => Starts(w, "idle", "idle", Null)
       /\ Return(w) => Starts(w, "idle", "idle", Null)
  BY <1>6, <1>7 DEF CreateUnlock, ApproveOwnUnlock, Return
<1> QED
  BY <1>8, <1>9, <1>10, <1>11, <1>12, <1>13, <1>14, <1>15

-----------------------------------------------------------------------------
(* The system's expiry.  A process that breaks chains for the deadline     *)
(* read each of them as overdue, and overdue it stays, for nothing moves a *)
(* deadline or reopens a chain; and a tick breaks for no other reason.     *)
(* Whoever breaks a chain found it in the table.                           *)

Due(c) == Exists(c) /\ (IsPending(c) => OutOfTime(c, clock))

ExpiryOK(p, label, m) ==
    /\ \A c \in m.todo : Exists(c)
    /\ label = "breakWrite" => Exists(m.c)
    /\ m.expiring => /\ \A c \in m.todo : Due(c)
                     /\ label = "breakWrite" => Due(m.c)
    /\ p \notin Workers /\ (label \in {"break", "breakWrite"} \/ m.back = "break")
          => m.expiring
ExpiryInv == \A p \in Procs : ExpiryOK(p, pc[p], mem[p])

LEMMA ClockGrows ==
    ASSUME TypeOK, [Next]_vars
    PROVE  clock' \in Int /\ clock <= clock'
<1>1. ASSUME NEW p \in Procs, Sweep(p) \/ Fail(p)
      PROVE  clock' = clock
  BY <1>1 DEF Sweep, Fail, ExpireListings, ExpirePendingChains, ExpireListingInterests,
    ReadForBreak, BreakChain, BreaksDone, RunForListing, RerunDone, FindExisting,
    FindLocked, CreateChain
<1>2. ASSUME NEW w \in Workers, Handle(w)
      PROVE  clock' = clock
  BY <1>2 DEF Handle, RunForUser, RerunChainMembersByAdmin, ReadForAccept, AcceptChain,
    CountAccepted, LockChain, DeclineChain, ConfirmInterest, BreakChainsForListings,
    RequestContactUnlock, CreateUnlock, ApproveOwnUnlock, ApproveContactUnlock, Return
<1> QED
  BY <1>1, <1>2, NumbersAssumption DEF TypeOK, Next, Tick, ListingOpensOrCloses, vars

LEMMA DueStays ==
    ASSUME TypeOK, [Next]_vars, NEW c \in Chains, Due(c)
    PROVE  Due(c)'
<1>1. Exists(c)'
  BY ChainStable DEF Due
<1>2. ASSUME IsPending(c)'
      PROVE  IsPending(c) /\ chain'[c].acceptBy = chain[c].acceptBy
  <2>1. chain[c].status # "NONE"
    BY DEF Due, Exists
  <2>2. CASE chain' = chain
    BY <1>2, <2>2 DEF IsPending
  <2>3. ASSUME NEW d \in Chains, NEW l \in Listings,
               \/ SetChain(d, Broken(chain[d])) \/ SetChain(d, Locked(chain[d]))
               \/ ~Exists(d) /\ SetChain(d, Proposed)
               \/ SetChain(d, Accepted(chain[d], l))
        PROVE  IsPending(c) /\ chain'[c].acceptBy = chain[c].acceptBy
    BY <1>2, <2>1, <2>3
    DEF IsPending, Exists, TypeOK, SetChain, Broken, Locked, Proposed, Accepted
  <2>4. ASSUME NEW d \in Chains,
               \/ SetChain(d, Broken(chain[d])) \/ SetChain(d, Locked(chain[d]))
               \/ ~Exists(d) /\ SetChain(d, Proposed)
        PROVE  IsPending(c) /\ chain'[c].acceptBy = chain[c].acceptBy
    BY <1>2, <2>1, <2>4
    DEF IsPending, Exists, TypeOK, SetChain, Broken, Locked, Proposed
  <2> QED
    BY <2>2, <2>3, <2>4, ChainWritten, ChainMembers
<1>3. ASSUME IsPending(c)'
      PROVE  OutOfTime(c, clock)'
  <2>1. /\ chain[c].acceptBy # Null /\ chain[c].acceptBy < clock
        /\ chain[c].acceptBy \in Int \cup {Null} /\ clock \in Int
    BY <1>2, <1>3 DEF Due, OutOfTime, Overdue, ByAcceptBy, TypeOK, ChainRows
  <2>2. chain'[c].acceptBy # Null /\ chain'[c].acceptBy < clock'
    BY <1>2, <1>3, <2>1, ClockGrows
  <2> QED
    BY <2>2 DEF OutOfTime, Overdue, ByAcceptBy
<1> QED
  BY <1>1, <1>3 DEF Due

LEMMA SweepExpiry ==
    ASSUME TypeOK, ExpiryInv, NEW p \in Procs, Sweep(p) \/ Fail(p)
    PROVE  ExpiryOK(p, pc'[p], mem'[p])
<1>0. /\ ExpiryOK(p, pc[p], mem[p])
      /\ mem[p].after \in {"idle", "interests"} /\ mem[p].back # "breakWrite"
  BY DEF TypeOK, ControlOK, ExpiryInv, Mems
<1>1. \A c \in OverdueChains(clock) : Due(c) /\ Exists(c)
  BY DEF OverdueChains, Due, Exists, IsPending
<1>2. CASE \/ ExpireListings(p) \/ ExpirePendingChains(p) \/ ExpireListingInterests(p)
           \/ BreaksDone(p) \/ Fail(p)
  BY <1>0, <1>1, <1>2, SweepTurns DEF Turns, Starts, ExpiryOK
<1>3. CASE ReadForBreak(p) \/ BreakChain(p) \/ RerunDone(p)
  <2>1. (ReadForBreak(p) => pc[p] = "break") /\ (BreakChain(p) => pc[p] = "breakWrite")
    BY DEF ReadForBreak, BreakChain
  <2> QED
    BY <1>0, <1>3, <2>1, SweepTurns DEF Turns, Goes, ExpiryOK
<1>4. CASE RunForListing(p) \/ FindExisting(p) \/ FindLocked(p) \/ CreateChain(p)
  BY <1>0, <1>4, SweepTurns DEF Turns, Goes, ExpiryOK
<1> QED
  BY <1>2, <1>3, <1>4 DEF Sweep

LEMMA HandleExpiry ==
    ASSUME TypeOK, ExpiryInv, NEW w \in Workers, Handle(w)
    PROVE  UNCHANGED <<pc, mem>> \/ ExpiryOK(w, pc'[w], mem'[w])
<1>0. ExpiryOK(w, pc[w], mem[w])
  BY DEF ExpiryInv, Procs
<1>1. /\ \A c \in Chains : IsPending(c) => Exists(c)
      /\ \A L : \A c \in ConflictsWith(L) : Exists(c)
  BY DEF IsPending, IsLocked, Exists, ConflictsWith
<1>2. CASE \/ RunForUser(w) \/ RerunChainMembersByAdmin(w) \/ DeclineChain(w)
           \/ ConfirmInterest(w) \/ BreakChainsForListings(w) \/ RequestContactUnlock(w)
           \/ LockChain(w) \/ ApproveOwnUnlock(w) \/ Return(w)
  BY <1>1, <1>2, HandleTurns DEF Turns, Starts, ExpiryOK
<1>3. CASE ReadForAccept(w)
  BY <1>1, <1>3, HandleTurns DEF Turns, Starts, ExpiryOK, Due
<1>4. CASE AcceptChain(w) \/ CountAccepted(w) \/ CreateUnlock(w)
  BY <1>0, <1>4, HandleTurns DEF Turns, Goes, Starts, ExpiryOK
<1>5. CASE ApproveContactUnlock(w)
  BY <1>5 DEF ApproveContactUnlock
<1> QED
  BY <1>2, <1>3, <1>4, <1>5 DEF Handle

LEMMA ExpiryStep ==
    ASSUME TypeOK, ExpiryInv, [Next]_vars
    PROVE  ExpiryInv'
<1>0. mem \in [Procs -> Mems] /\ pc \in [Procs -> Labels] /\ Workers \subseteq Procs
      /\ TypeOK' /\ \A q \in Procs : pc[q] \in AtChain => mem[q].c \in Chains
  BY TypeStep DEF TypeOK, ControlOK, Procs
<1>1. ASSUME NEW q \in Procs
      PROVE  ExpiryOK(q, pc'[q], mem'[q])
  <2>1. ASSUME Still(q) PROVE ExpiryOK(q, pc'[q], mem'[q])
    BY <2>1 DEF Still, ExpiryInv
  <2>2. ASSUME NEW p \in Procs, Sweep(p) \/ Fail(p) PROVE ExpiryOK(q, pc'[q], mem'[q])
    BY <2>1, <2>2, SweepExpiry, StepMoves DEF Only
  <2>3. ASSUME NEW w \in Workers, Handle(w) PROVE ExpiryOK(q, pc'[q], mem'[q])
    <3>1. CASE UNCHANGED <<pc, mem>>
      BY <2>1, <3>1 DEF Still
    <3>2. CASE ~UNCHANGED <<pc, mem>>
      BY <2>1, <2>3, <3>2, HandleExpiry, StepMoves DEF Only
    <3> QED
      BY <3>1, <3>2
  <2>4. ASSUME UNCHANGED <<pc, mem>> PROVE ExpiryOK(q, pc'[q], mem'[q])
    BY <2>1, <2>4 DEF Still
  <2> QED
    BY <2>2, <2>3, <2>4 DEF Next, Tick, ListingOpensOrCloses, vars
<1>2. ASSUME NEW q \in Procs
      PROVE  ExpiryOK(q, pc[q], mem[q])'
  <2>1. PICK label, m : label = pc'[q] /\ m = mem'[q]
    OBVIOUS
  <2>2. m.todo \subseteq Chains /\ (label = "breakWrite" => m.c \in Chains)
    BY <1>0, <2>1 DEF TypeOK, ControlOK, Mems, AtChain
  <2>3. ExpiryOK(q, label, m)
    BY <1>1, <2>1
  <2>4. ExpiryOK(q, label, m)'
    BY <2>2, <2>3, DueStays, ChainStable DEF ExpiryOK
  <2> QED
    BY <2>1, <2>4 DEF ExpiryOK, Due, Exists, IsPending, OutOfTime, ByAcceptBy
<1> QED
  BY <1>2 DEF ExpiryInv

LEMMA ExpiryInvAlways == Spec => []ExpiryInv
<1>1. Init => ExpiryInv
  BY DEF Init, ExpiryInv, ExpiryOK, Blank
<1> QED
  BY <1>1, ExpiryStep, TypeCorrect, PTL DEF Spec

(* A chain such a process has in hand was not LOCKED when it was read: if  *)
(* it is LOCKED now, the lock crossed the expiry.                          *)
SparedInv ==
    \A p \in Procs : pc[p] = "breakWrite" /\ mem[p].expiring =>
        (IsLocked(mem[p].c) => mem[p].c \in late.expiry)

LEMMA LockedLate ==
    ASSUME TypeOK, [Next]_vars, NEW c \in Chains, ExpiringNow(c), ~IsLocked(c), IsLocked(c)'
    PROVE  c \in late'.expiry
<1>0. chain \in [Chains -> ChainRows] /\ Workers \subseteq Procs
      /\ \A p \in Procs : pc[p] \in AtChain => mem[p].c \in Chains
  BY DEF TypeOK, ControlOK, Procs
<1>1. ASSUME NEW p \in Procs, BreakChain(p) \/ CreateChain(p) PROVE FALSE
  <2>1. mem[p].c \in Chains
    BY <1>0, <1>1 DEF BreakChain, CreateChain, AtChain
  <2> QED
    BY <1>0, <1>1, <2>1 DEF BreakChain, CreateChain, SetChain, Broken, Proposed, IsLocked
<1>2. ASSUME NEW w \in Workers, AcceptChain(w) PROVE FALSE
  <2>1. mem[w].c \in Chains
    BY <1>0, <1>2 DEF AcceptChain, AtChain
  <2> QED
    BY <1>0, <1>2, <2>1 DEF AcceptChain, SetChain, Accepted, IsLocked
<1>3. ASSUME NEW w \in Workers, LockChain(w) PROVE c \in late'.expiry
  <2>1. mem[w].c = c
    BY <1>0, <1>3 DEF LockChain, SetChain, IsLocked
  <2> QED
    BY <1>3, <2>1 DEF LockChain, TypeOK, Crossings
<1> QED
  BY <1>1, <1>2, <1>3, ChainWriters DEF IsLocked

(* Who is about to break a chain was so before, or has just read it.       *)
LEMMA BreaksStep ==
    ASSUME TypeOK, [Next]_vars, NEW q \in Procs, pc'[q] = "breakWrite", ~Still(q)
    PROVE  ReadForBreak(q)
<1>0. mem[q].after # "breakWrite" /\ mem[q].back # "breakWrite"
  BY DEF TypeOK, ControlOK, Mems
<1>1. ASSUME NEW p \in Procs, Sweep(p) \/ Fail(p) PROVE ReadForBreak(q)
  <2>1. p = q
    BY <1>1, StepMoves DEF Only
  <2> QED
    BY <1>0, <1>1, <2>1, SweepTurns DEF Sweep, Turns, Goes, Starts
<1>2. ASSUME NEW w \in Workers, Handle(w) PROVE FALSE
  <2>1. w = q /\ ~UNCHANGED <<pc, mem>>
    BY <1>2, StepMoves DEF Only, Still
  <2> QED
    BY <1>2, <2>1, HandleTurns DEF Handle, ApproveContactUnlock, Turns, Goes, Starts
<1> QED
  BY <1>1, <1>2 DEF Next, Tick, ListingOpensOrCloses, vars, Still

LEMMA SparedStep ==
    ASSUME TypeOK, SparedInv, [Next]_vars
    PROVE  SparedInv'
<1> SUFFICES ASSUME NEW q \in Procs, pc'[q] = "breakWrite", mem'[q].expiring,
                    IsLocked(mem[q].c)'
             PROVE  mem'[q].c \in late'.expiry
  BY DEF SparedInv
<1>1. CASE Still(q)
  <2>1. PICK c : c = mem[q].c
    OBVIOUS
  <2>2. c \in Chains /\ mem'[q].c = c /\ ExpiringNow(c)
    BY <1>1, <2>1 DEF Still, TypeOK, ControlOK, AtChain, ExpiringNow
  <2>3. IsLocked(c)'
    BY <2>2 DEF IsLocked
  <2>4. IsLocked(c) => c \in late.expiry
    BY <1>1, <2>1 DEF SparedInv, Still
  <2> QED
    BY <2>2, <2>3, <2>4, LateGrows, LockedLate
<1>2. CASE ~Still(q)
  <2>1. ReadForBreak(q)
    BY <1>2, BreaksStep
  <2>2. PICK c \in mem[q].todo :
          \/ /\ IsBroken(c) \/ (mem[q].expiring /\ IsLocked(c))
             /\ Move(q, "break", [mem[q] EXCEPT !.todo = @ \ {c}])
          \/ /\ ~(IsBroken(c) \/ (mem[q].expiring /\ IsLocked(c)))
             /\ Move(q, "breakWrite", [[mem[q] EXCEPT !.todo = @ \ {c}] EXCEPT !.c = c])
    BY <2>1 DEF ReadForBreak, SparedByExpiry
  <2>3. /\ ~(mem[q].expiring /\ IsLocked(c))
        /\ mem'[q] = [[mem[q] EXCEPT !.todo = @ \ {c}] EXCEPT !.c = c]
    <3>1. pc \in [Procs -> Labels] /\ mem \in [Procs -> Mems]
      BY DEF TypeOK, ControlOK
    <3>2. ~Move(q, "break", [mem[q] EXCEPT !.todo = @ \ {c}])
      BY <3>1 DEF Move
    <3>3. \A m : Move(q, "breakWrite", m) => mem'[q] = m
      BY <3>1 DEF Move
    <3> QED
      BY <2>2, <3>2, <3>3
  <2>4. mem'[q].c = c /\ mem'[q].expiring = mem[q].expiring
    <3>1. mem[q] \in Mems
      BY DEF TypeOK, ControlOK
    <3> QED
      BY <2>3, <3>1 DEF Mems
  <2>5. chain' = chain
    BY <2>1 DEF ReadForBreak
  <2> QED
    BY <2>3, <2>4, <2>5 DEF IsLocked
<1> QED
  BY <1>1, <1>2

(* The system's expiry breaks no chain that still has time, nor a LOCKED   *)
(* one unless the lock came between its read and its write.                *)
THEOREM ExpiryBreaksOnlyOverdueAlways == Spec => ExpiryBreaksOnlyOverdue
<1>1. Init => SparedInv
  BY DEF Init, SparedInv
<1>2. TypeOK /\ ExpiryInv /\ SparedInv /\ [Next]_vars =>
        \A c \in Chains :
          ~IsBroken(c) /\ chain'[c].status = "BROKEN" =>
              \/ IsPending(c) /\ OutOfTime(c, clock)
              \/ IsLocked(c) /\ c \in late.expiry
              \/ \E w \in Workers : pc[w] = "breakWrite" /\ mem[w].c = c
                                     /\ ~mem[w].expiring
  <2> SUFFICES ASSUME TypeOK, ExpiryInv, SparedInv, [Next]_vars, NEW c \in Chains,
                      ~IsBroken(c), chain'[c].status = "BROKEN",
                      ~\E w \in Workers : pc[w] = "breakWrite" /\ mem[w].c = c
                                          /\ ~mem[w].expiring
               PROVE  \/ IsPending(c) /\ OutOfTime(c, clock)
                      \/ IsLocked(c) /\ c \in late.expiry
    OBVIOUS
  <2>1. chain' # chain
    BY DEF IsBroken
  <2>2. PICK p \in Procs, d \in Chains :
           /\ mem[p].c = d
           /\ \/ pc[p] = "breakWrite" /\ SetChain(d, Broken(chain[d]))
              \/ SetChain(d, Proposed)
              \/ SetChain(d, Accepted(chain[d], mem[p].l))
              \/ SetChain(d, Locked(chain[d]))
    BY <2>1, ChainWritten
  <2>3. pc[p] = "breakWrite" /\ mem[p].c = c
    BY <2>2 DEF IsBroken, TypeOK, SetChain, Broken, Proposed, Accepted, Locked
  <2>4. mem[p].expiring
    BY <2>3 DEF ExpiryInv, ExpiryOK, TypeOK, ControlOK, Mems
  <2>5. Due(c) /\ (IsLocked(c) => c \in late.expiry)
    BY <2>3, <2>4 DEF ExpiryInv, ExpiryOK, SparedInv
  <2>6. IsPending(c) \/ IsLocked(c)
    BY <2>5 DEF Due, Exists, IsPending, IsLocked, IsBroken, TypeOK, ChainRows, ChainStatus
  <2> QED
    BY <2>5, <2>6 DEF Due
<1> QED
  BY <1>1, <1>2, ExpiryInvAlways, SparedStep, TypeCorrect, PTL DEF Spec, ExpiryBreaksOnlyOverdue
=============================================================================
