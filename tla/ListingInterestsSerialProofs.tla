-------------------- MODULE ListingInterestsSerialProofs --------------------
(* What holds when the handlers do not overlap: at most one request is     *)
(* served at a time, any number of lifecycle ticks run beside it.          *)
(* The confirmed requests are then an exclusive registry, which the run    *)
(* two_renters shows to fail for two handlers.                             *)
EXTENDS ListingInterestsProofs, FiniteSetTheorems

OneWorker == \A v, w \in Workers : v = w

Confirmed == {i \in Interests : interest[i].status = "CONFIRMED_RENTER"}
Rival(i, j) == i # j /\ (Target(i) = Target(j) \/ Requester(i) = Requester(j))

(* i is not confirmed and has no confirmed rival.                          *)
Clear(i) == \A j \in Confirmed : j # i /\ ~Rival(i, j)

IsMatched(l) == listing[l].status = "MATCHED"

SerialData ==
    /\ \A i, j \in Confirmed : ~Rival(i, j)
    /\ \A j \in Interests : IsOpen(j) => Clear(j)
    /\ \A i \in Confirmed : \A l \in MatchedBy(i) : IsMatched(l)
    /\ MatchSettled

AtRequest == {"openCap", "dailyCap", "requesterListing", "upsert"}
AtAnswer == {"approve", "decline", "txTarget", "txRequester", "txCommit"}
Guarded == AtRequest \cup AtAnswer \cup {"renew"}

(* What the handler read still holds when it writes.                       *)
StillTrue(w) ==
    /\ pc[w] = "renew" => ~IsMatched(mem[w].l)
    /\ pc[w] \in AtRequest => ~IsMatched(Target(mem[w].i))
    /\ pc[w] = "upsert" => ~IsMatched(Requester(mem[w].i))
    /\ pc[w] \in AtAnswer => Clear(mem[w].i)
    /\ pc[w] \in {"txRequester", "txCommit"} =>
          /\ RivalsOnTarget(mem[w].i) \subseteq mem[w].rows
          /\ mem[w].rows \cap Confirmed = {}
    /\ pc[w] = "txCommit" => RivalsOnRequester(mem[w].i) \subseteq mem[w].rows

SerialInv == SerialData /\ \A w \in Workers : StillTrue(w)

-----------------------------------------------------------------------------
(* A step that confirms nothing, opens nothing and matches nothing keeps   *)
(* the data part, and what any handler that does not move has read.        *)

Harmless ==
    /\ \A i \in Interests :
          \/ interest'[i].status = interest[i].status
          \/ IsOpen(i) /\ interest'[i].status = "EXPIRED"
    /\ \A l \in Listings :
          \/ listing'[l] = listing[l]
          \/ ~IsMatched(l) /\ listing'[l].status # "MATCHED"

LEMMA HarmlessMeans ==
    ASSUME Harmless
    PROVE  /\ Confirmed' = Confirmed
           /\ \A i \in Interests : IsOpen(i)' => IsOpen(i)
           /\ \A l \in Listings : /\ IsMatched(l)' <=> IsMatched(l)
                                  /\ IsMatched(l) => listing'[l].matched = listing[l].matched
<1>1. Confirmed' = Confirmed
  BY DEF Harmless, Confirmed, IsOpen, OPEN_INTEREST_STATUSES
<1>2. \A i \in Interests : IsOpen(i)' => IsOpen(i)
  BY DEF Harmless, IsOpen, OPEN_INTEREST_STATUSES
<1>3. \A l \in Listings : /\ IsMatched(l)' <=> IsMatched(l)
                          /\ IsMatched(l) => listing'[l].matched = listing[l].matched
  BY DEF Harmless, IsMatched
<1> QED
  BY <1>1, <1>2, <1>3

LEMMA ClearKept ==
    ASSUME Confirmed' = Confirmed
    PROVE  \A j : Clear(j)' <=> Clear(j)
BY DEF Clear, Rival

LEMMA HarmlessData ==
    ASSUME TypeOK, SerialData, MatchNamed, Harmless
    PROVE  SerialData'
<1>1. \A i \in Interests : MatchedBy(i) \subseteq Listings
  BY InterestsType DEF MatchedBy
<1>3. \A j \in Interests : IsOpen(j)' => Clear(j)'
  BY HarmlessMeans, ClearKept DEF SerialData
<1>4. \A i \in Confirmed' : \A l \in MatchedBy(i) : IsMatched(l)'
  BY <1>1, HarmlessMeans DEF SerialData, Confirmed
<1>5. MatchSettled'
  <2> SUFFICES ASSUME NEW l \in Listings, IsMatched(l)'
               PROVE  interest'[listing'[l].matched].status = "CONFIRMED_RENTER"
    BY DEF MatchSettled, IsMatched
  <2>1. /\ IsMatched(l) /\ listing'[l].matched = listing[l].matched
    BY HarmlessMeans
  <2>2. listing[l].matched \in Interests
    BY <2>1 DEF MatchNamed, IsMatched, TypeOK, ListingRows
  <2>3. listing[l].matched \in Confirmed
    BY <2>1, <2>2 DEF SerialData, MatchSettled, IsMatched, Confirmed
  <2> QED
    BY <2>1, <2>3, HarmlessMeans DEF Confirmed
<1> QED
  BY <1>3, <1>4, <1>5, HarmlessMeans DEF SerialData, Rival

LEMMA HarmlessHandler ==
    ASSUME TypeOK, Harmless, NEW w \in Workers, StillTrue(w),
           pc'[w] = pc[w], mem'[w] = mem[w]
    PROVE  StillTrue(w)'
<1>1. /\ pc[w] \in AtRequest \cup AtAnswer => mem[w].i \in Interests
      /\ pc[w] = "renew" => mem[w].l \in Listings
  BY DEF TypeOK, ControlOK, AtRequest, AtAnswer, AtInterest, AtListing, Procs
<1>2. \A i \in Interests : Target(i) \in Listings /\ Requester(i) \in Listings
  BY InterestsType
<1>4. \A i : /\ RivalsOnTarget(i)' \subseteq RivalsOnTarget(i)
             /\ RivalsOnRequester(i)' \subseteq RivalsOnRequester(i)
  BY HarmlessMeans DEF RivalsOnTarget, RivalsOnRequester
<1> QED
  BY <1>1, <1>2, <1>4, HarmlessMeans, ClearKept DEF StillTrue, AtRequest, AtAnswer

(* A sweep, whoever runs it, is harmless and ends at no guarded place.     *)
LEMMA SweepHarmless ==
    ASSUME TypeOK, NEW p \in Procs, Sweep(p)
    PROVE  /\ Harmless
           /\ pc'[p] \notin Guarded
           /\ \A q \in Procs : q # p => pc'[q] = pc[q] /\ mem'[q] = mem[q]
<1>1. ASSUME UNCHANGED <<listing, interest>> PROVE Harmless
  BY <1>1 DEF Harmless
<1>2. ASSUME CloseExpired(p) \/ RerunClose(p) PROVE Harmless
  <2>1. \/ UNCHANGED listing
        \/ \E l \in Listings : IsActive(l) /\ SetListing(l, Closed(listing[l]))
    BY <1>2, RowWritten DEF StillOverdue
  <2>2. UNCHANGED interest
    BY <1>2 DEF CloseExpired, RerunClose
  <2> QED
    BY <2>1, <2>2 DEF Harmless, IsMatched, IsActive, SetListing, Closed, TypeOK
<1>3. ASSUME ReleaseStale(p) PROVE Harmless
  BY <1>3 DEF ReleaseStale, StillOpen, Ended, Harmless
<1>4. ASSUME ExpireInterest(p) PROVE Harmless
  <2>1. \/ UNCHANGED interest
        \/ \E i \in Interests : /\ IsOpen(i)
                                /\ SetInterest(i, Answered(interest[i], "EXPIRED"))
    BY <1>4, RowWritten
  <2>2. UNCHANGED listing
    BY <1>4 DEF ExpireInterest
  <2>3. \A i \in Interests : \/ interest'[i] = interest[i]
                             \/ IsOpen(i) /\ interest'[i].status = "EXPIRED"
    BY <2>1 DEF SetInterest, Answered, TypeOK, InterestRows
  <2> QED
    BY <2>2, <2>3 DEF Harmless
<1>5. Harmless
  BY <1>1, <1>2, <1>3, <1>4 DEF Sweep, ExpireListings, FindStaleInterests,
     ExpirePendingChains, ExpireListingInterests, InterestsSwept, RerunRead, RerunDone
<1>6. \A q \in Procs : q # p => pc'[q] = pc[q] /\ mem'[q] = mem[q]
  BY DEF Sweep, ExpireListings, CloseExpired, FindStaleInterests, ReleaseStale,
     ExpirePendingChains, ExpireListingInterests, ExpireInterest, InterestsSwept,
     RerunRead, RerunClose, RerunDone, Move, Keep, TypeOK, ControlOK
<1>7. pc'[p] \notin Guarded
  <2>1. CASE RerunDone(p)
    BY <2>1 DEF RerunDone, Move, TypeOK, ControlOK, Mems, Guarded, AtRequest, AtAnswer
  <2>2. CASE ~RerunDone(p)
    BY <2>2 DEF Sweep, ExpireListings, CloseExpired, FindStaleInterests, ReleaseStale,
       ExpirePendingChains, ExpireListingInterests, ExpireInterest, InterestsSwept,
       RerunRead, RerunClose, Move, Keep, TypeOK, ControlOK, Guarded, AtRequest, AtAnswer
  <2> QED
    BY <2>1, <2>2
<1> QED
  BY <1>5, <1>6, <1>7

-----------------------------------------------------------------------------
(* The handler's own steps.                                                *)

(* Data kept, and the handler at an unguarded place or with nothing new    *)
(* to keep true.                                                           *)
LEMMA QuietStep ==
    ASSUME TypeOK, SerialInv, MatchNamed, Harmless, OneWorker,
           NEW w \in Workers, StillTrue(w)'
    PROVE  SerialInv'
<1>1. SerialData'
  BY HarmlessData DEF SerialInv
<1>2. \A v \in Workers : v = w
  BY DEF OneWorker
<1> QED
  BY <1>1, <1>2 DEF SerialInv

LEMMA Unguarded ==
    ASSUME NEW w, pc'[w] \notin Guarded
    PROVE  StillTrue(w)'
BY DEF StillTrue, Guarded, AtRequest, AtAnswer

(* An open request is clear: a read that finds it open may rely on it.     *)
LEMMA OpenIsClear ==
    ASSUME SerialData, NEW i \in Interests, IsOpen(i)
    PROVE  Clear(i)
BY DEF SerialData

LEMMA SerialReads ==
    ASSUME TypeOK, SerialInv, MatchNamed, OneWorker, NEW w \in Workers,
           \/ RunForListing(w) \/ RerunListingsForMembers(w)
           \/ RequestInterest(w) \/ CheckOpenCap(w) \/ CheckDailyCap(w)
           \/ FindRequesterListing(w) \/ ReadForApproval(w) \/ ReadForDecline(w)
           \/ ConfirmRenter(w) \/ ConfirmTakenByRequester(w)
           \/ TxTarget(w) \/ TxRequester(w) \/ ReadForRenewal(w) \/ Return(w)
    PROVE  SerialInv'
<1>0. /\ w \in Procs /\ mem[w] \in Mems /\ StillTrue(w) /\ SerialData
      /\ pc \in [Procs -> Labels] /\ mem \in [Procs -> Mems]
  BY DEF TypeOK, ControlOK, Procs, SerialInv
<1>1. UNCHANGED <<listing, interest>>
  BY DEF RunForListing, RerunListingsForMembers, RequestInterest, CheckOpenCap,
     CheckDailyCap, FindRequesterListing, ReadForApproval, ReadForDecline, ConfirmRenter,
     ConfirmTakenByRequester, TxTarget, TxRequester, ReadForRenewal, Return
<1>2. Harmless
  BY <1>1 DEF Harmless
<1>3. SUFFICES StillTrue(w)'
  BY <1>2, QuietStep
<1>4. ASSUME NEW label, NEW m, Move(w, label, m)
      PROVE  pc'[w] = label /\ mem'[w] = m
  BY <1>0, <1>4 DEF Move
<1>5. ASSUME NEW m, NEW label, Move(w, label, m), label \notin Guarded
      PROVE  StillTrue(w)'
  BY <1>4, <1>5, Unguarded
<1>6. ASSUME Done(w) PROVE StillTrue(w)'
  BY <1>5, <1>6 DEF Done, Guarded, AtRequest, AtAnswer
<1>i. \A i : [Blank EXCEPT !.i = i].i = i
  BY DEF Blank
<1>7. CASE RunForListing(w) \/ RerunListingsForMembers(w)
  <2>1. PICK m : Move(w, "rerun", m)
    BY <1>7 DEF RunForListing, RerunListingsForMembers
  <2> QED
    BY <1>5, <2>1 DEF Guarded, AtRequest, AtAnswer
<1>8. CASE RequestInterest(w)
  <2>1. PICK i \in Interests : /\ Live(Target(i), clock)
                               /\ Move(w, "openCap", [Blank EXCEPT !.i = i, !.now = clock])
    BY <1>8 DEF RequestInterest
  <2>2. [Blank EXCEPT !.i = i, !.now = clock].i = i
    BY DEF Blank
  <2>3. pc'[w] = "openCap" /\ mem'[w].i = i
    BY <1>4, <2>1, <2>2
  <2>4. ~IsMatched(Target(i))'
    BY <1>1, <2>1 DEF Live, IsActive, IsMatched
  <2> QED
    BY <2>3, <2>4 DEF StillTrue, AtAnswer
<1>9. CASE CheckOpenCap(w) \/ CheckDailyCap(w)
  <2>1. CASE Done(w)
    BY <1>6, <2>1
  <2>2. CASE ~Done(w)
    <3>1. /\ pc[w] \in {"openCap", "dailyCap"}
          /\ \E label \in {"dailyCap", "requesterListing"} : Move(w, label, mem[w])
      BY <1>9, <2>2 DEF CheckOpenCap, CheckDailyCap
    <3>2. pc'[w] \in {"dailyCap", "requesterListing"} /\ mem'[w] = mem[w]
      BY <1>4, <3>1
    <3>3. ~IsMatched(Target(mem[w].i))
      BY <1>0, <3>1 DEF StillTrue, AtRequest
    <3> QED
      BY <1>1, <3>2, <3>3 DEF StillTrue, AtAnswer, IsMatched
  <2> QED
    BY <2>1, <2>2
<1>10. CASE FindRequesterListing(w)
  <2>1. CASE Done(w)
    BY <1>6, <2>1
  <2>2. CASE ~Done(w)
    <3>1. /\ pc[w] = "requesterListing" /\ Live(Requester(mem[w].i), mem[w].now)
          /\ Move(w, "upsert", [Blank EXCEPT !.i = mem[w].i])
      BY <1>10, <2>2 DEF FindRequesterListing
    <3>2. pc'[w] = "upsert" /\ mem'[w].i = mem[w].i
      BY <1>4, <1>i, <3>1
    <3>3. ~IsMatched(Target(mem[w].i)) /\ ~IsMatched(Requester(mem[w].i))
      BY <1>0, <3>1 DEF StillTrue, AtRequest, Live, IsActive, IsMatched
    <3> QED
      BY <1>1, <3>2, <3>3 DEF StillTrue, AtAnswer, IsMatched
  <2> QED
    BY <2>1, <2>2
<1>11. CASE \/ ReadForApproval(w) \/ ReadForDecline(w)
            \/ ConfirmRenter(w) \/ ConfirmTakenByRequester(w)
  <2>1. PICK i \in Interests, label \in {"approve", "decline", "txTarget"} :
          IsOpen(i) /\ Move(w, label, [Blank EXCEPT !.i = i])
    BY <1>11 DEF ReadForApproval, ReadForDecline, ConfirmRenter, ConfirmTakenByRequester,
       CanApprove, CanDecline, CanConfirm, CanTake, IsOpen, OPEN_INTEREST_STATUSES
  <2>2. pc'[w] = label /\ mem'[w].i = i
    BY <1>4, <1>i, <2>1
  <2>3. Clear(i)'
    BY <1>0, <1>2, <2>1, OpenIsClear, HarmlessMeans, ClearKept
  <2> QED
    BY <2>2, <2>3 DEF StillTrue, AtRequest
<1>12. CASE TxTarget(w) \/ TxRequester(w)
  <2>0. PICK i : i = mem[w].i
    OBVIOUS
  <2>1. Clear(i) /\ (pc[w] = "txRequester" => /\ RivalsOnTarget(i) \subseteq mem[w].rows
                                             /\ mem[w].rows \cap Confirmed = {})
    BY <1>0, <1>12, <2>0 DEF StillTrue, TxTarget, TxRequester, AtAnswer
  <2>2. Clear(i)' /\ Confirmed' = Confirmed
    BY <1>2, <2>1, HarmlessMeans, ClearKept
  <2>3. /\ RivalsOnTarget(i)' = RivalsOnTarget(i)
        /\ RivalsOnRequester(i)' = RivalsOnRequester(i)
    BY <1>1 DEF RivalsOnTarget, RivalsOnRequester, IsOpen
  <2>4. /\ RivalsOnTarget(i) \cap Confirmed = {}
        /\ RivalsOnRequester(i) \cap Confirmed = {}
    BY DEF RivalsOnTarget, RivalsOnRequester, Confirmed, IsOpen, OPEN_INTEREST_STATUSES
  <2>5. \A S : [mem[w] EXCEPT !.rows = S].i = i /\ [mem[w] EXCEPT !.rows = S].rows = S
    BY <1>0, <2>0 DEF Mems
  <2>6. CASE TxTarget(w)
    <3>1. pc'[w] = "txRequester" /\ mem'[w].i = i /\ mem'[w].rows = RivalsOnTarget(i)
      <4>1. Move(w, "txRequester", [mem[w] EXCEPT !.rows = RivalsOnTarget(i)])
        BY <2>0, <2>6 DEF TxTarget
      <4> QED
        BY <1>4, <2>5, <4>1
    <3> QED
      BY <2>2, <2>3, <2>4, <3>1 DEF StillTrue, AtRequest
  <2>7. CASE TxRequester(w)
    <3>1. /\ pc[w] = "txRequester" /\ pc'[w] = "txCommit" /\ mem'[w].i = i
          /\ mem'[w].rows = mem[w].rows \cup RivalsOnRequester(i)
      <4>1. Move(w, "txCommit",
                 [mem[w] EXCEPT !.rows = mem[w].rows \cup RivalsOnRequester(i)])
        BY <2>0, <2>7 DEF TxRequester
      <4> QED
        BY <1>4, <2>5, <2>7, <4>1 DEF TxRequester
    <3>2. /\ RivalsOnTarget(i) \subseteq mem'[w].rows
          /\ RivalsOnRequester(i) \subseteq mem'[w].rows
          /\ mem'[w].rows \cap Confirmed = {}
      BY <2>1, <2>4, <3>1
    <3> QED
      BY <2>2, <2>3, <3>1, <3>2 DEF StillTrue, AtRequest
  <2> QED
    BY <1>12, <2>6, <2>7
<1>13. CASE ReadForRenewal(w)
  <2>1. PICK l \in Listings : Renewable(l) /\ Move(w, "renew", [Blank EXCEPT !.l = l])
    BY <1>13 DEF ReadForRenewal
  <2>2. pc'[w] = "renew" /\ mem'[w].l = l
    BY <1>4, <2>1 DEF Blank
  <2>3. ~IsMatched(l)'
    BY <1>1, <2>1 DEF Renewable, IsMatched
  <2> QED
    BY <2>2, <2>3 DEF StillTrue, AtRequest, AtAnswer
<1>14. CASE Return(w)
  BY <1>6, <1>14 DEF Return
<1> QED
  BY <1>7, <1>8, <1>9, <1>10, <1>11, <1>12, <1>13, <1>14

(* An update of one clear request that does not confirm it.                *)
LEMMA ClearUpdate ==
    ASSUME TypeOK, SerialData, MatchNamed, UNCHANGED listing,
           NEW i \in Interests, Clear(i),
           NEW row \in InterestRows, SetInterest(i, row), row.status # "CONFIRMED_RENTER"
    PROVE  SerialData'
<1>1. i \notin Confirmed
  BY DEF Clear
<1>2. \A j \in Interests : interest'[j] = IF j = i THEN row ELSE interest[j]
  BY DEF SetInterest, TypeOK
<1>3. Confirmed' = Confirmed
  BY <1>1, <1>2 DEF Confirmed
<1>4. \A j \in Interests : IsOpen(j)' => Clear(j)'
  BY <1>2, <1>3, ClearKept DEF SerialData, IsOpen
<1>5. \A j \in Confirmed' : \A l \in MatchedBy(j) : IsMatched(l)'
  BY <1>3 DEF SerialData, IsMatched
<1>6. MatchSettled'
  <2> SUFFICES ASSUME NEW l \in Listings, listing[l].status = "MATCHED"
               PROVE  interest'[listing[l].matched].status = "CONFIRMED_RENTER"
    BY DEF MatchSettled
  <2>1. listing[l].matched \in Interests
    BY DEF MatchNamed, TypeOK, ListingRows
  <2> QED
    BY <1>1, <1>2, <2>1 DEF SerialData, MatchSettled, Confirmed
<1> QED
  BY <1>3, <1>4, <1>5, <1>6 DEF SerialData, Rival

LEMMA SerialWrites ==
    ASSUME TypeOK, SerialInv, MatchNamed, OneWorker, NEW w \in Workers,
           \/ UpsertInterest(w) \/ ApproveInterest(w) \/ DeclineInterest(w)
           \/ CreateListing(w) \/ RenewListing(w)
    PROVE  SerialInv'
<1>0. w \in Procs /\ StillTrue(w) /\ SerialData /\ pc \in [Procs -> Labels]
  BY DEF TypeOK, ControlOK, Procs, SerialInv
<1>1. pc'[w] \notin Guarded
  BY <1>0 DEF UpsertInterest, ApproveInterest, DeclineInterest, CreateListing, RenewListing,
     Done, Move, Guarded, AtRequest, AtAnswer
<1>2. StillTrue(w)' /\ \A v \in Workers : v = w
  BY <1>1, Unguarded DEF OneWorker
<1>3. CASE UpsertInterest(w) \/ ApproveInterest(w) \/ DeclineInterest(w)
  <2>1. PICK i \in Interests : i = mem[w].i
    BY <1>3, RowWritten
  <2>2. CASE UpsertInterest(w)
    <3>1. ~IsMatched(Target(i)) /\ ~IsMatched(Requester(i))
      BY <1>0, <2>1, <2>2 DEF StillTrue, UpsertInterest, AtRequest
    <3>2. Clear(i)
      BY <1>0, <3>1 DEF SerialData, Clear, Rival, MatchedBy
    <3>3. /\ Requested(interest[i]) \in InterestRows
          /\ Requested(interest[i]).status # "CONFIRMED_RENTER"
      BY RowTypes DEF TypeOK, Requested
    <3> QED
      BY <1>0, <1>2, <2>1, <2>2, <3>2, <3>3, ClearUpdate DEF UpsertInterest, SerialInv
  <2>3. CASE ApproveInterest(w) \/ DeclineInterest(w)
    <3>1. Clear(i)
      BY <1>0, <2>1, <2>3 DEF StillTrue, ApproveInterest, DeclineInterest, AtAnswer
    <3>2. PICK status \in {"CONTACT_APPROVED", "DECLINED"} :
            SetInterest(i, Answered(interest[i], status)) /\ UNCHANGED listing
      BY <2>1, <2>3 DEF ApproveInterest, DeclineInterest
    <3>3. /\ Answered(interest[i], status) \in InterestRows
          /\ Answered(interest[i], status).status # "CONFIRMED_RENTER"
      BY RowTypes DEF TypeOK, Answered, InterestRows, InterestStatus, OPEN_INTEREST_STATUSES
    <3> QED
      BY <1>0, <1>2, <3>1, <3>2, <3>3, ClearUpdate DEF SerialInv
  <2> QED
    BY <1>3, <2>2, <2>3
<1>4. CASE CreateListing(w) \/ RenewListing(w)
  <2>1. PICK l \in Listings : ~IsMatched(l) /\ SetListing(l, Activated(listing[l]))
    <3>1. CASE CreateListing(w)
      BY <3>1 DEF CreateListing, IsMatched
    <3>2. CASE RenewListing(w)
      <4>1. mem[w].l \in Listings /\ ~IsMatched(mem[w].l)
        BY <1>0, <3>2 DEF RenewListing, StillTrue, TypeOK, ControlOK, AtListing
      <4> QED
        BY <3>2, <4>1 DEF RenewListing
    <3> QED
      BY <1>4, <3>1, <3>2
  <2>2. UNCHANGED interest
    BY <1>4 DEF CreateListing, RenewListing
  <2>3. Harmless
    BY <2>1, <2>2 DEF Harmless, IsMatched, SetListing, Activated, TypeOK
  <2> QED
    BY <1>2, <2>3, QuietStep
<1> QED
  BY <1>3, <1>4

LEMMA SerialCommit ==
    ASSUME TypeOK, SerialInv, MatchNamed, OneWorker, NEW w \in Workers, TxCommit(w)
    PROVE  /\ SerialInv'
           /\ mem[w].i \in Interests /\ Clear(mem[w].i)
           /\ Confirmed' = Confirmed \cup {mem[w].i}
<1>0. w \in Procs /\ StillTrue(w) /\ SerialData /\ pc \in [Procs -> Labels]
  BY DEF TypeOK, ControlOK, Procs, SerialInv
<1>1. PICK i \in Interests : i = mem[w].i
  BY RowWritten
<1>2. PICK rows : rows = mem[w].rows
  OBVIOUS
<1>3. /\ Clear(i) /\ rows \cap Confirmed = {}
      /\ RivalsOnTarget(i) \subseteq rows /\ RivalsOnRequester(i) \subseteq rows
  BY <1>0, <1>1, <1>2 DEF StillTrue, TxCommit, AtAnswer
<1>4. \A j \in Interests :
         interest'[j].status = IF j = i THEN "CONFIRMED_RENTER"
                               ELSE IF j \in rows THEN "RELEASED" ELSE interest[j].status
  BY <1>1, <1>2 DEF TxCommit, Ended
<1>5. \A l \in Listings :
         listing'[l] = IF l \in MatchedBy(i) THEN Matched(i) ELSE listing[l]
  BY <1>1 DEF TxCommit
<1>6. Confirmed' = Confirmed \cup {i}
  BY <1>3, <1>4 DEF Confirmed
<1>7. \A j, k \in Confirmed' : ~Rival(j, k)
  BY <1>0, <1>3, <1>6 DEF SerialData, Clear, Rival
<1>8. \A j \in Interests : IsOpen(j)' => Clear(j)'
  <2> SUFFICES ASSUME NEW j \in Interests, interest'[j].status \in OPEN_INTEREST_STATUSES
               PROVE  \A k \in Confirmed' : k # j /\ ~Rival(j, k)
    BY DEF IsOpen, Clear, Rival
  <2>1. j # i /\ j \notin rows /\ IsOpen(j)
    BY <1>4 DEF IsOpen, OPEN_INTEREST_STATUSES
  <2>2. Clear(j)
    BY <1>0, <2>1 DEF SerialData
  <2>3. ~Rival(j, i)
    BY <1>3, <2>1 DEF Rival, RivalsOnTarget, RivalsOnRequester
  <2> QED
    BY <1>6, <2>1, <2>2, <2>3 DEF Clear
<1>9. \A j \in Confirmed' : \A l \in MatchedBy(j) : IsMatched(l)'
  <2> SUFFICES ASSUME NEW j \in Confirmed', NEW l \in MatchedBy(j)
               PROVE  listing'[l].status = "MATCHED"
    BY DEF IsMatched
  <2>1. l \in Listings
    BY InterestsType DEF Confirmed, MatchedBy
  <2> QED
    BY <1>0, <1>5, <1>6, <2>1 DEF SerialData, IsMatched, Matched
<1>10. MatchSettled'
  <2> SUFFICES ASSUME NEW l \in Listings, listing'[l].status = "MATCHED"
               PROVE  interest'[listing'[l].matched].status = "CONFIRMED_RENTER"
    BY DEF MatchSettled
  <2>1. CASE l \in MatchedBy(i)
    BY <1>4, <1>5, <2>1 DEF Matched
  <2>2. CASE l \notin MatchedBy(i)
    <3>1. /\ listing'[l] = listing[l]
          /\ interest[listing[l].matched].status = "CONFIRMED_RENTER"
      BY <1>0, <1>5, <2>2 DEF SerialData, MatchSettled
    <3>2. listing[l].matched \in Interests
      BY <3>1 DEF MatchNamed, TypeOK, ListingRows
    <3> QED
      BY <1>3, <1>4, <3>1, <3>2 DEF Confirmed
  <2> QED
    BY <2>1, <2>2
<1>11. pc'[w] \notin Guarded
  BY <1>0 DEF TxCommit, Move, Guarded, AtRequest, AtAnswer
<1>12. StillTrue(w)' /\ \A v \in Workers : v = w
  BY <1>11, Unguarded DEF OneWorker
<1> QED
  BY <1>1, <1>3, <1>6, <1>7, <1>8, <1>9, <1>10, <1>12 DEF SerialInv, SerialData

-----------------------------------------------------------------------------
(* The invariant and what follows from it.                                 *)

LEMMA SerialStep ==
    ASSUME TypeOK, SerialInv, MatchNamed, OneWorker, [Next]_vars
    PROVE  /\ SerialInv'
           /\ \/ Confirmed' = Confirmed
              \/ \E i \in Interests : Clear(i) /\ Confirmed' = Confirmed \cup {i}
<1> DEFINE Registry == \/ Confirmed' = Confirmed
                       \/ \E i \in Interests : Clear(i) /\ Confirmed' = Confirmed \cup {i}
<1>0. \A w \in Workers : w \in Procs /\ StillTrue(w)
  BY DEF Procs, SerialInv
<1>1. ASSUME Harmless, \A w \in Workers : \/ pc'[w] \notin Guarded
                                          \/ pc'[w] = pc[w] /\ mem'[w] = mem[w]
      PROVE  SerialInv' /\ Registry
  <2>1. \A w \in Workers : StillTrue(w)'
    BY <1>0, <1>1, HarmlessHandler, Unguarded
  <2> QED
    BY <1>1, <2>1, HarmlessData, HarmlessMeans DEF SerialInv
<1>2. ASSUME NEW p \in Procs, Sweep(p) PROVE SerialInv' /\ Registry
  BY <1>0, <1>1, <1>2, SweepHarmless
<1>3. ASSUME NEW p \in Procs, Fail(p) PROVE SerialInv' /\ Registry
  <2>1. Harmless
    BY <1>3 DEF Fail, Harmless
  <2>2. \A w \in Workers : \/ pc'[w] \notin Guarded
                           \/ pc'[w] = pc[w] /\ mem'[w] = mem[w]
    BY <1>0, <1>3 DEF Fail, Done, Move, TypeOK, ControlOK, Guarded, AtRequest, AtAnswer
  <2> QED
    BY <1>1, <2>1, <2>2
<1>4. CASE Tick \/ UNCHANGED vars
  <2>1. UNCHANGED <<listing, interest, pc, mem>>
    BY <1>4 DEF Tick, vars
  <2>2. Harmless
    BY <2>1 DEF Harmless
  <2> QED
    BY <1>1, <2>1, <2>2
<1>5. ASSUME NEW w \in Workers, Handle(w) PROVE SerialInv' /\ Registry
  <2>1. CASE TxCommit(w)
    BY <2>1, SerialCommit
  <2>2. CASE \/ UpsertInterest(w) \/ ApproveInterest(w) \/ DeclineInterest(w)
             \/ CreateListing(w) \/ RenewListing(w)
    <3>1. SerialInv'
      BY <2>2, SerialWrites
    <3>2. Confirmed' = Confirmed
      <4>1. CASE CreateListing(w) \/ RenewListing(w)
        BY <4>1 DEF CreateListing, RenewListing, Confirmed
      <4>2. CASE UpsertInterest(w)
        <5>1. PICK i \in Interests : i = mem[w].i
          BY <4>2, RowWritten
        <5>2. ~IsMatched(Target(i))
          BY <1>0, <4>2, <5>1 DEF StillTrue, UpsertInterest, AtRequest
        <5>3. i \notin Confirmed
          BY <5>2 DEF SerialInv, SerialData, MatchedBy
        <5>4. \A j \in Interests : j # i => interest'[j] = interest[j]
          BY <4>2, <5>1 DEF UpsertInterest, SetInterest, TypeOK
        <5>5. interest'[i].status = "REQUESTED"
          BY <4>2, <5>1 DEF UpsertInterest, SetInterest, Requested, TypeOK
        <5> QED
          BY <5>3, <5>4, <5>5 DEF Confirmed
      <4>3. CASE ApproveInterest(w) \/ DeclineInterest(w)
        <5>1. PICK i \in Interests : i = mem[w].i
          BY <4>3, RowWritten
        <5>2. i \notin Confirmed
          BY <1>0, <4>3, <5>1 DEF StillTrue, Clear, ApproveInterest, DeclineInterest, AtAnswer
        <5>3. \A j \in Interests : j # i => interest'[j] = interest[j]
          BY <4>3, <5>1 DEF ApproveInterest, DeclineInterest, SetInterest, TypeOK
        <5>4. interest'[i].status \in {"CONTACT_APPROVED", "DECLINED"}
          BY <4>3, <5>1 DEF ApproveInterest, DeclineInterest, SetInterest, Answered,
                            TypeOK, InterestRows
        <5> QED
          BY <5>2, <5>3, <5>4 DEF Confirmed
      <4> QED
        BY <2>2, <4>1, <4>2, <4>3
    <3> QED
      BY <3>1, <3>2
  <2>3. CASE UNCHANGED interest /\ ~TxCommit(w)
             /\ ~(\/ UpsertInterest(w) \/ ApproveInterest(w) \/ DeclineInterest(w)
                  \/ CreateListing(w) \/ RenewListing(w))
    BY <1>5, <2>3, SerialReads DEF Handle, Confirmed
  <2> QED
    BY <1>5, <2>1, <2>2, <2>3 DEF Handle, RunForListing, RerunListingsForMembers,
       RequestInterest, CheckOpenCap, CheckDailyCap, FindRequesterListing, ReadForApproval,
       ReadForDecline, ConfirmRenter, ConfirmTakenByRequester, TxTarget, TxRequester,
       ReadForRenewal, Return
<1> QED
  BY <1>2, <1>3, <1>4, <1>5 DEF Next

LEMMA SerialInit == Init => SerialInv
BY DEF Init, SerialInv, SerialData, MatchSettled, StillTrue, Confirmed, IsOpen,
   OPEN_INTEREST_STATUSES, AtRequest, AtAnswer, Procs

LEMMA SerialSafety ==
    ASSUME OneWorker
    PROVE  Spec => [](MatchSettled /\ RivalsReleased)
<1>1. SerialInv => MatchSettled /\ RivalsReleased
  BY DEF SerialInv, SerialData, RivalsReleased, Clear, Rival, Confirmed
<1> QED
  BY <1>1, SerialInit, SerialStep, TypeCorrect, MatchNamedAlways, PTL DEF Spec

(* One request at a time: the request that matched a listing is confirmed. *)
THEOREM SerialMatchSettled ==
    ASSUME OneWorker
    PROVE  Spec => []MatchSettled
BY SerialSafety, PTL

(* One request at a time: no open request competes with a confirmed one.   *)
THEOREM SerialRivalsReleased ==
    ASSUME OneWorker
    PROVE  Spec => []RivalsReleased
BY SerialSafety, PTL

(* One request at a time: confirming implements the exclusive registry of  *)
(* ExclusiveRenting.                                                       *)
THEOREM SerialRefinement ==
    ASSUME OneWorker
    PROVE  Spec => ExclusiveRentings
<1>1. Init => Renting!Init
  BY DEF Init, Renting!Init
<1>2. SerialInv /\ TypeOK /\ MatchNamed /\ [Next]_vars
        => [Renting!Next]_{i \in Interests : interest[i].status = "CONFIRMED_RENTER"}
  <2> SUFFICES ASSUME SerialInv, TypeOK, MatchNamed, [Next]_vars
               PROVE  Renting!Next \/ Confirmed' = Confirmed
    BY DEF Confirmed
  <2>1. CASE Confirmed' = Confirmed
    BY <2>1
  <2>2. ASSUME NEW i \in Interests, Clear(i), Confirmed' = Confirmed \cup {i}
        PROVE  Renting!Next
    BY <2>2 DEF Renting!Next, Renting!Confirm, Renting!Clash, Clear, Rival, Confirmed,
                Target, Requester
  <2> QED
    BY <2>1, <2>2, SerialStep
<1> QED
  BY <1>1, <1>2, SerialInit, SerialStep, TypeCorrect, MatchNamedAlways, PTL
  DEF Spec, ExclusiveRentings, Renting!Spec

(* One request at a time: nothing reactivates a MATCHED listing.           *)
THEOREM SerialMatchedStays ==
    ASSUME OneWorker
    PROVE  Spec => MatchedStays
<1>1. SerialInv /\ TypeOK /\ MatchNamed /\ [Next]_vars
        => \A l \in Listings :
              listing[l].status = "MATCHED" => listing'[l].status = "MATCHED"
  <2> SUFFICES ASSUME SerialInv, TypeOK, [Next]_vars, NEW l \in Listings,
                      listing[l].status = "MATCHED"
               PROVE  listing'[l].status = "MATCHED"
    OBVIOUS
  <2>1. CASE UNCHANGED listing
    BY <2>1
  <2>2. ASSUME NEW p \in Procs, CloseExpired(p) \/ RerunClose(p)
        PROVE  listing'[l].status = "MATCHED"
    BY <2>2 DEF CloseExpired, RerunClose, StillOverdue, RerunCloses, IsActive, SetListing, TypeOK
  <2>3. ASSUME NEW w \in Workers, CreateListing(w)
        PROVE  listing'[l].status = "MATCHED"
    BY <2>3 DEF CreateListing, SetListing, TypeOK
  <2>4. ASSUME NEW w \in Workers, RenewListing(w)
        PROVE  listing'[l].status = "MATCHED"
    BY <2>4 DEF RenewListing, SetListing, TypeOK, SerialInv, StillTrue, IsMatched
  <2>5. ASSUME NEW w \in Workers, TxCommit(w)
        PROVE  listing'[l].status = "MATCHED"
    BY <2>5 DEF TxCommit, Matched, TypeOK
  <2>6. ASSUME NEW p \in Procs, ReleaseStale(p) \/ ExpireInterest(p)
        PROVE  UNCHANGED listing
    BY <2>6 DEF ReleaseStale, ExpireInterest, SetInterest
  <2>7. ASSUME NEW w \in Workers,
               UpsertInterest(w) \/ ApproveInterest(w) \/ DeclineInterest(w)
        PROVE  UNCHANGED listing
    BY <2>7 DEF UpsertInterest, ApproveInterest, DeclineInterest, SetInterest
  <2> QED
    BY <2>1, <2>2, <2>3, <2>4, <2>5, <2>6, <2>7, Writers
<1> QED
  BY <1>1, SerialInit, SerialStep, TypeCorrect, MatchNamedAlways, PTL
  DEF Spec, MatchedStays

-----------------------------------------------------------------------------
(* DailyWithinCap.                                                         *)

Made(i) == interest[i].status # "NONE"

(* A request at hand for an answer was made, and so were the rivals read.  *)
MadeInv ==
    \A p \in Procs :
        /\ pc[p] \in AtAnswer => Made(mem[p].i)
        /\ pc[p] \in {"txRequester", "txCommit"} => \A j \in mem[p].rows : Made(j)

(* What counts against the daily cap of a user.                            *)
Today(u) == {i \in Interests : /\ Owner[Requester(i)] = u
                               /\ Made(i) /\ interest[i].createdAt >= StartOfDay(clock)}

(* A request past the check of the cap fits in it.                         *)
Admitted == {"requesterListing", "upsert"}
DailyInv ==
    /\ DailyWithinCap
    /\ \A w \in Workers : pc[w] \in Admitted => DailyCount(Asking(w)) < MaxDaily

(* Once made, a request keeps the day it was made on.                      *)
KeepsDay(i) == /\ Made(i)' <=> Made(i)
               /\ interest'[i].createdAt = interest[i].createdAt

LEMMA DaysKept ==
    ASSUME TypeOK, MadeInv, [Next]_vars, NEW i \in Interests
    PROVE  \/ KeepsDay(i)
           \/ \E w \in Workers : UpsertInterest(w) /\ mem[w].i = i /\ ~Made(i) /\ Made(i)'
<1> USE DEF KeepsDay, Made
<1>1. ASSUME NEW p \in Procs, CloseExpired(p) \/ RerunClose(p) PROVE KeepsDay(i)
  BY <1>1 DEF CloseExpired, RerunClose
<1>2. ASSUME NEW p \in Procs, ReleaseStale(p) PROVE KeepsDay(i)
  BY <1>2 DEF ReleaseStale, StillOpen, IsOpen, OPEN_INTEREST_STATUSES, Ended
<1>3. ASSUME NEW p \in Procs, ExpireInterest(p) PROVE KeepsDay(i)
  BY <1>3, RowWritten DEF SetInterest, Answered, TypeOK, InterestRows, IsOpen,
     OPEN_INTEREST_STATUSES
<1>4. ASSUME NEW w \in Workers, UpsertInterest(w) PROVE KeepsDay(i) \/ mem[w].i = i
  BY <1>4 DEF UpsertInterest, SetInterest, TypeOK
<1>5. ASSUME NEW w \in Workers, UpsertInterest(w), mem[w].i = i
      PROVE  Made(i)' /\ (Made(i) => KeepsDay(i))
  BY <1>5 DEF UpsertInterest, SetInterest, Requested, TypeOK
<1>6. ASSUME NEW w \in Workers, ApproveInterest(w) \/ DeclineInterest(w) PROVE KeepsDay(i)
  <2>1. Made(mem[w].i)
    BY <1>6 DEF MadeInv, ApproveInterest, DeclineInterest, AtAnswer, Procs
  <2> QED
    BY <1>6, <2>1 DEF ApproveInterest, DeclineInterest, SetInterest, Answered, TypeOK,
       InterestRows
<1>7. ASSUME NEW w \in Workers, TxCommit(w) PROVE KeepsDay(i)
  <2>1. Made(mem[w].i) /\ \A j \in mem[w].rows : Made(j)
    BY <1>7 DEF MadeInv, TxCommit, AtAnswer, Procs
  <2> QED
    BY <1>7, <2>1 DEF TxCommit, Ended
<1>8. ASSUME NEW w \in Workers, CreateListing(w) \/ RenewListing(w) PROVE KeepsDay(i)
  BY <1>8 DEF CreateListing, RenewListing
<1>9. CASE UNCHANGED <<listing, interest>>
  BY <1>9
<1> QED
  BY <1>1, <1>2, <1>3, <1>4, <1>5, <1>6, <1>7, <1>8, <1>9, Writers

LEMMA MadeStep ==
    ASSUME TypeOK, MadeInv, [Next]_vars
    PROVE  MadeInv'
<1> DEFINE Row(i) == interest'[i].status # "NONE"
           OK(p) == /\ pc'[p] \in AtAnswer => Row(mem'[p].i)
                    /\ pc'[p] \in {"txRequester", "txCommit"} => \A j \in mem'[p].rows : Row(j)
<1>0. /\ \A i \in Interests : Made(i) => Row(i)
      /\ \A p \in Procs : mem[p] \in Mems /\ mem[p].rows \subseteq Interests
                          /\ (pc[p] \in AtAnswer => mem[p].i \in Interests)
      /\ pc \in [Procs -> Labels] /\ mem \in [Procs -> Mems]
  <2>1. \A i \in Interests : Made(i) => Row(i)
    BY DaysKept DEF KeepsDay, Made
  <2> QED
    BY <2>1 DEF TypeOK, ControlOK, Mems, AtAnswer, AtInterest
<1>1. ASSUME NEW p \in Procs, pc'[p] = pc[p], mem'[p] = mem[p] PROVE OK(p)
  BY <1>0, <1>1 DEF MadeInv, AtAnswer
<1>2. ASSUME NEW p \in Procs, pc'[p] \notin Guarded PROVE OK(p)
  BY <1>2 DEF Guarded, AtAnswer
<1>3. SUFFICES \A p \in Procs : OK(p)
  BY DEF MadeInv, Made
<1>4. ASSUME NEW p \in Procs, Sweep(p) PROVE \A q \in Procs : OK(q)
  BY <1>1, <1>2, <1>4, SweepHarmless
<1>5. ASSUME NEW w \in Workers, Handle(w) PROVE \A q \in Procs : OK(q)
  <2>0. w \in Procs
    BY DEF Procs
  <2>1. \A q \in Procs : q # w => pc'[q] = pc[q] /\ mem'[q] = mem[q]
    BY <1>0, <1>5 DEF Handle, RunForListing, RerunListingsForMembers,
       RequestInterest, CheckOpenCap, CheckDailyCap, FindRequesterListing, UpsertInterest,
       ReadForApproval, ApproveInterest, ReadForDecline, DeclineInterest, ConfirmRenter,
       ConfirmTakenByRequester, TxTarget, TxRequester, TxCommit, CreateListing,
       ReadForRenewal, RenewListing, Return, Move, Done
  <2>m. ASSUME NEW label, NEW m, Move(w, label, m) PROVE pc'[w] = label /\ mem'[w] = m
    BY <1>0, <2>0, <2>m DEF Move
  <2>i. \A x : [Blank EXCEPT !.i = x].i = x
    BY DEF Blank
  <2>2. CASE \/ ReadForApproval(w) \/ ReadForDecline(w)
             \/ ConfirmRenter(w) \/ ConfirmTakenByRequester(w)
    <3>1. PICK i \in Interests, label \in {"approve", "decline", "txTarget"} :
            Made(i) /\ Move(w, label, [Blank EXCEPT !.i = i])
      BY <2>2 DEF ReadForApproval, ReadForDecline, ConfirmRenter, ConfirmTakenByRequester,
         CanApprove, CanDecline, CanConfirm, CanTake, IsOpen, OPEN_INTEREST_STATUSES, Made
    <3>2. pc'[w] = label /\ mem'[w].i = i
      BY <2>i, <2>m, <3>1
    <3>3. OK(w)
      BY <1>0, <3>1, <3>2
    <3> QED
      BY <1>1, <2>1, <3>3
  <2>3. CASE TxTarget(w) \/ TxRequester(w)
    <3>1. PICK S, label :
            /\ S \subseteq Interests /\ \A j \in S : Made(j)
            /\ Move(w, label, [mem[w] EXCEPT !.rows = S])
      <4>1. CASE TxTarget(w)
        <5>1. \A j \in RivalsOnTarget(mem[w].i) : Made(j) /\ j \in Interests
          BY DEF RivalsOnTarget, IsOpen, OPEN_INTEREST_STATUSES, Made
        <5>2. Move(w, "txRequester", [mem[w] EXCEPT !.rows = RivalsOnTarget(mem[w].i)])
          BY <4>1 DEF TxTarget
        <5> QED
          BY <5>1, <5>2
      <4>2. CASE TxRequester(w)
        <5> DEFINE S == mem[w].rows \cup RivalsOnRequester(mem[w].i)
        <5>1. \A j \in S : Made(j) /\ j \in Interests
          BY <1>0, <2>0, <4>2 DEF RivalsOnRequester, IsOpen, OPEN_INTEREST_STATUSES, Made,
             MadeInv, TxRequester
        <5>2. Move(w, "txCommit", [mem[w] EXCEPT !.rows = S])
          BY <4>2 DEF TxRequester
        <5> HIDE DEF S
        <5> QED
          BY <5>1, <5>2
      <4> QED
        BY <2>3, <4>1, <4>2
    <3>2. mem'[w].i = mem[w].i /\ mem'[w].rows = S
      <4> DEFINE m == [mem[w] EXCEPT !.rows = S]
      <4>1. m.i = mem[w].i /\ m.rows = S
        BY <1>0, <2>0 DEF Mems
      <4>2. mem'[w] = m
        BY <2>m, <3>1
      <4> HIDE DEF m
      <4> QED
        BY <4>1, <4>2
    <3>3. Made(mem[w].i) /\ mem[w].i \in Interests
      BY <1>0, <2>0, <2>3 DEF MadeInv, TxTarget, TxRequester, AtAnswer
    <3>4. OK(w)
      BY <1>0, <3>1, <3>2, <3>3
    <3> QED
      BY <1>1, <2>1, <3>4
  <2>4. CASE CheckOpenCap(w) \/ CheckDailyCap(w) \/ FindRequesterListing(w) \/ RequestInterest(w)
    <3>1. PICK label, m : label \in AtRequest \cup {"idle"} /\ Move(w, label, m)
      BY <2>4 DEF CheckOpenCap, CheckDailyCap, FindRequesterListing, RequestInterest, Done,
         AtRequest
    <3>2. pc'[w] \notin AtAnswer
      BY <2>m, <3>1 DEF AtRequest, AtAnswer
    <3>3. OK(w)
      BY <3>2 DEF AtAnswer
    <3> QED
      BY <1>1, <2>1, <3>3
  <2>5. CASE CreateListing(w)
    BY <1>1, <2>5 DEF CreateListing
  <2>6. CASE ReadForRenewal(w)
    <3>1. pc'[w] = "renew"
      BY <2>6, <2>m DEF ReadForRenewal
    <3>2. OK(w)
      BY <3>1 DEF AtAnswer
    <3> QED
      BY <1>1, <2>1, <3>2
  <2>7. CASE \/ RunForListing(w) \/ RerunListingsForMembers(w) \/ UpsertInterest(w)
             \/ ApproveInterest(w) \/ DeclineInterest(w) \/ TxCommit(w)
             \/ RenewListing(w) \/ Return(w)
    <3>1. PICK label, m : label \in {"idle", "rerun"} /\ Move(w, label, m)
      <4>1. RunForListing(w) \/ RerunListingsForMembers(w) => \E m : Move(w, "rerun", m)
        BY DEF RunForListing, RerunListingsForMembers
      <4>2. TxCommit(w) => \E m : Move(w, "rerun", m)
        BY DEF TxCommit
      <4>3. UpsertInterest(w) \/ ApproveInterest(w) \/ DeclineInterest(w)
              => \E m : Move(w, "idle", m)
        BY DEF UpsertInterest, ApproveInterest, DeclineInterest, Done
      <4>4. RenewListing(w) \/ Return(w) => \E m : Move(w, "idle", m)
        BY DEF RenewListing, Return, Done
      <4> QED
        BY <2>7, <4>1, <4>2, <4>3, <4>4
    <3>2. pc'[w] \notin Guarded
      BY <2>m, <3>1 DEF Guarded, AtRequest, AtAnswer
    <3> QED
      BY <1>1, <1>2, <2>0, <2>1, <3>2
  <2> QED
    BY <1>5, <2>2, <2>3, <2>4, <2>5, <2>6, <2>7 DEF Handle
<1>6. ASSUME NEW p \in Procs, Fail(p) PROVE \A q \in Procs : OK(q)
  <2>1. Move(p, "idle", Blank)
    BY <1>6 DEF Fail, Done
  <2>2. pc'[p] = "idle" /\ \A q \in Procs : q # p => pc'[q] = pc[q] /\ mem'[q] = mem[q]
    BY <1>0, <2>1 DEF Move
  <2> QED
    BY <1>1, <1>2, <2>2 DEF Guarded, AtRequest, AtAnswer
<1>7. CASE Tick \/ UNCHANGED vars
  BY <1>1, <1>7 DEF Tick, vars
<1> QED
  BY <1>4, <1>5, <1>6, <1>7 DEF Next

LEMMA Division ==
    ASSUME NEW t \in Int, NEW d \in Nat, d >= 1
    PROVE  (t \div d) \in Int /\ (t % d) \in 0 .. d - 1 /\ t = d * (t \div d) + (t % d)
OBVIOUS

(* The day never begins earlier at a later time.                           *)
LEMMA StartOfDayGrows ==
    ASSUME NEW t \in Int
    PROVE  StartOfDay(t) \in Int /\ StartOfDay(t + 1) \in Int /\ StartOfDay(t) <= StartOfDay(t + 1)
<1> DEFINE d == DayLength
           q == t \div d
           r == (t + 1) \div d
           x == t % d
           y == (t + 1) % d
<1>0. d \in Nat /\ d >= 1 /\ t \in Int /\ t + 1 \in Int
  BY NumbersAssumption
<1>1. d \in Nat /\ d >= 1 /\ q \in Int /\ r \in Int
  BY <1>0, Division
<1>2. x \in 0 .. d - 1 /\ t = d * q + x
  BY <1>0, Division
<1>3. y \in 0 .. d - 1 /\ t + 1 = d * r + y
  BY <1>0, Division
<1>4. StartOfDay(t) = t - x /\ StartOfDay(t + 1) = t + 1 - y
  BY <1>0 DEF StartOfDay
<1> HIDE DEF q, r, d, x, y
<1>5. d * q \in Int /\ d * r \in Int
  BY <1>1
<1>6. d * q <= d * r
  <2>1. CASE r >= q
    <3>1. r - q \in Nat /\ d * r = d * q + d * (r - q) /\ d * (r - q) \in Nat
      BY <1>1, <2>1
    <3> QED
      BY <1>5, <3>1
  <2>2. CASE r < q
    <3>1. q - 1 - r \in Nat /\ d * q = d * r + d + d * (q - 1 - r) /\ d * (q - 1 - r) \in Nat
      BY <1>1, <2>2
    <3> QED
      BY <1>1, <1>2, <1>3, <1>5, <3>1
  <2> QED
    BY <1>1, <2>1, <2>2
<1> QED
  BY <1>1, <1>2, <1>3, <1>4, <1>5, <1>6

(* A step that counts nothing more against the cap, and a request that     *)
(* goes no further than it went, keep what was checked.                    *)
LEMMA TodayFinite ==
    ASSUME NEW u
    PROVE  IsFiniteSet(Today(u)) /\ Cardinality(Today(u)) \in Nat
           /\ DailyCount(u) = Cardinality(Today(u))
<1>1. IsFiniteSet(Listings \X Listings)
  BY FS_Product, ListingsAssumption
<1>2. Today(u) \subseteq Listings \X Listings
  BY ListingsAssumption DEF Today, Interests
<1>3. IsFiniteSet(Today(u))
  BY <1>1, <1>2, FS_Subset
<1>4. DailyCount(u) = Cardinality(Today(u))
  BY DEF DailyCount, Today, Made
<1> QED
  BY <1>3, <1>4, FS_CardinalityType

LEMMA TodayShrinks ==
    ASSUME NEW u, Today(u)' \subseteq Today(u)
    PROVE  DailyCount(u)' \in Nat /\ DailyCount(u) \in Nat /\ DailyCount(u)' <= DailyCount(u)
<1>1. Cardinality(Today(u)') <= Cardinality(Today(u)) /\ IsFiniteSet(Today(u)')
  BY TodayFinite, FS_Subset
<1>2. Cardinality(Today(u)') \in Nat
  BY <1>1, FS_CardinalityType
<1>3. DailyCount(u)' = Cardinality(Today(u)')
  BY DEF DailyCount, Today, Made
<1> QED
  BY <1>1, <1>2, <1>3, TodayFinite

(* Only an upsert adds to what counts, and only the request it makes.      *)
LEMMA TodayAdds ==
    ASSUME TypeOK, MadeInv, [Next]_vars, NEW u
    PROVE  \/ Today(u)' \subseteq Today(u)
           \/ \E w \in Workers : /\ UpsertInterest(w) /\ Asking(w) = u
                                 /\ Today(u)' \subseteq Today(u) \cup {mem[w].i}
<1>1. StartOfDay(clock)' \in Int /\ StartOfDay(clock) \in Int /\ StartOfDay(clock) <= StartOfDay(clock)'
  <2>1. clock \in Int /\ (clock' = clock \/ clock' = clock + 1)
    BY DEF TypeOK, Next, Sweep, Handle, Fail, Tick, vars, ExpireListings, CloseExpired,
       FindStaleInterests, ReleaseStale, ExpirePendingChains, ExpireListingInterests,
       ExpireInterest, InterestsSwept, RerunRead, RerunClose, RerunDone, RunForListing,
       RerunListingsForMembers, RequestInterest, CheckOpenCap, CheckDailyCap,
       FindRequesterListing, UpsertInterest, ReadForApproval, ApproveInterest, ReadForDecline,
       DeclineInterest, ConfirmRenter, ConfirmTakenByRequester, TxTarget, TxRequester, TxCommit,
       CreateListing, ReadForRenewal, RenewListing, Return
  <2>2. StartOfDay(clock)' = StartOfDay(clock')
    BY DEF StartOfDay
  <2>3. StartOfDay(clock) \in Int
    BY <2>1, StartOfDayGrows
  <2> QED
    BY <2>1, <2>2, <2>3, StartOfDayGrows
<1>2. \A i \in Interests : KeepsDay(i) /\ i \in Today(u)' => i \in Today(u)
  BY <1>1 DEF KeepsDay, Today, TypeOK, InterestRows
<1>3. CASE \A i \in Interests : KeepsDay(i)
  <2>1. Today(u)' \subseteq Interests
    BY DEF Today
  <2> QED
    BY <1>2, <1>3, <2>1
<1>4. CASE ~ \A i \in Interests : KeepsDay(i)
  <2>1. PICK w \in Workers : UpsertInterest(w) /\ mem[w].i \in Interests
    BY <1>4, DaysKept
  <2>2. \A i \in Interests : i # mem[w].i => KeepsDay(i)
    BY <2>1 DEF UpsertInterest, SetInterest, TypeOK, KeepsDay, Made
  <2>3. Today(u)' \subseteq Today(u) \cup {mem[w].i}
    <3>1. Today(u)' \subseteq Interests
      BY DEF Today
    <3> QED
      BY <1>2, <2>2, <3>1
  <2>4. ASSUME Asking(w) # u PROVE Today(u)' \subseteq Today(u)
    <3>1. mem[w].i \notin Today(u)'
      BY <2>4 DEF Today, Asking
    <3> QED
      BY <2>3, <3>1
  <2> QED
    BY <2>1, <2>3, <2>4
<1> QED
  BY <1>3, <1>4

(* Past the check of the cap, and with the same request at hand, came only *)
(* who was past it before or has just been checked.                        *)
LEMMA AdmittedFrom ==
    ASSUME TypeOK, [Next]_vars, NEW w \in Workers, pc'[w] \in Admitted
    PROVE  /\ mem'[w].i = mem[w].i /\ mem[w].i \in Interests
           /\ pc[w] \in Admitted \/ WithinDailyCap(Asking(w))
           /\ ~UpsertInterest(w)
<1>0. /\ w \in Procs /\ mem[w] \in Mems /\ pc \in [Procs -> Labels] /\ mem \in [Procs -> Mems]
      /\ (pc[w] \in Admitted \cup {"dailyCap"} => mem[w].i \in Interests)
  BY DEF Procs, TypeOK, ControlOK, Admitted, AtInterest
<1>1. ASSUME NEW v \in Workers, NEW label, NEW m, Move(v, label, m)
      PROVE  IF v = w THEN label \in Admitted /\ mem'[w] = m
                      ELSE pc'[w] = pc[w] /\ mem'[w] = mem[w]
  BY <1>0, <1>1 DEF Move, Procs
<1>2. CASE pc'[w] = pc[w] /\ mem'[w] = mem[w]
  <2>1. ~UpsertInterest(w)
    BY <1>0, <1>2 DEF UpsertInterest, Done, Move, Admitted
  <2> QED
    BY <1>0, <1>2, <2>1
<1>3. ASSUME NEW p \in Procs, Sweep(p) PROVE pc'[w] = pc[w] /\ mem'[w] = mem[w]
  <2>1. Admitted \subseteq Guarded
    BY DEF Admitted, Guarded, AtRequest
  <2> QED
    BY <1>0, <1>3, <2>1, SweepHarmless
<1>4. ASSUME NEW p \in Procs, Fail(p) PROVE pc'[w] = pc[w] /\ mem'[w] = mem[w]
  BY <1>0, <1>4 DEF Fail, Done, Move, Admitted
<1>5. ASSUME NEW v \in Workers, Handle(v), v # w PROVE pc'[w] = pc[w] /\ mem'[w] = mem[w]
  BY <1>0, <1>5 DEF Handle, RunForListing, RerunListingsForMembers,
       RequestInterest, CheckOpenCap, CheckDailyCap, FindRequesterListing, UpsertInterest,
       ReadForApproval, ApproveInterest, ReadForDecline, DeclineInterest, ConfirmRenter,
       ConfirmTakenByRequester, TxTarget, TxRequester, TxCommit, CreateListing,
       ReadForRenewal, RenewListing, Return, Move, Done
<1>6. ASSUME Handle(w), ~(pc'[w] = pc[w] /\ mem'[w] = mem[w])
      PROVE  CheckDailyCap(w) \/ FindRequesterListing(w)
  <2>1. ASSUME NEW label, NEW m, Move(w, label, m), label \notin Admitted PROVE FALSE
    BY <1>1, <2>1
  <2>2. ASSUME NEW label \in Labels \ Admitted PROVE \A m : ~Move(w, label, m)
    BY <2>1, <2>2
  <2>3. ~CreateListing(w)
    BY <1>6 DEF CreateListing
  <2> QED
    BY <1>6, <2>2, <2>3 DEF Handle, RunForListing, RerunListingsForMembers,
       RequestInterest, CheckOpenCap, UpsertInterest,
       ReadForApproval, ApproveInterest, ReadForDecline, DeclineInterest, ConfirmRenter,
       ConfirmTakenByRequester, TxTarget, TxRequester, TxCommit,
       ReadForRenewal, RenewListing, Return, Done, Labels, Admitted
<1>7. CASE CheckDailyCap(w)
  <2>1. /\ pc[w] = "dailyCap" /\ WithinDailyCap(Asking(w))
        /\ Move(w, "requesterListing", mem[w])
    BY <1>1, <1>7 DEF CheckDailyCap, Done, Admitted
  <2> QED
    BY <1>0, <1>1, <2>1 DEF UpsertInterest, Admitted
<1>8. CASE FindRequesterListing(w)
  <2>1. pc[w] = "requesterListing" /\ Move(w, "upsert", [Blank EXCEPT !.i = mem[w].i])
    BY <1>1, <1>8 DEF FindRequesterListing, Done, Admitted
  <2>2. [Blank EXCEPT !.i = mem[w].i].i = mem[w].i
    BY DEF Blank
  <2>3. mem'[w].i = mem[w].i
    BY <1>1, <2>1, <2>2
  <2> QED
    BY <1>0, <2>1, <2>3 DEF UpsertInterest, Admitted
<1> QED
  BY <1>2, <1>3, <1>4, <1>5, <1>6, <1>7, <1>8 DEF Next, Tick, vars

LEMMA DailyStep ==
    ASSUME TypeOK, MadeInv, DailyInv, [Next]_vars, OneWorker
    PROVE  DailyInv'
<1>0. MaxDaily \in Nat
  BY NumbersAssumption
<1>1. ASSUME NEW u, DailyCount(u) <= MaxDaily PROVE DailyCount(u)' <= MaxDaily
  <2>1. CASE Today(u)' \subseteq Today(u)
    BY <1>0, <1>1, <2>1, TodayShrinks
  <2>2. ASSUME NEW w \in Workers, UpsertInterest(w), Asking(w) = u,
               Today(u)' \subseteq Today(u) \cup {mem[w].i}
        PROVE  DailyCount(u)' <= MaxDaily
    <3>1. DailyCount(u) < MaxDaily
      BY <2>2 DEF DailyInv, UpsertInterest, Admitted
    <3>2. IsFiniteSet(Today(u)) /\ DailyCount(u) = Cardinality(Today(u))
          /\ Cardinality(Today(u)) \in Nat
      BY TodayFinite
    <3>3. /\ IsFiniteSet(Today(u) \cup {mem[w].i})
          /\ \/ Cardinality(Today(u) \cup {mem[w].i}) = Cardinality(Today(u))
             \/ Cardinality(Today(u) \cup {mem[w].i}) = Cardinality(Today(u)) + 1
      BY <3>2, FS_AddElement
    <3>4. /\ IsFiniteSet(Today(u)')
          /\ Cardinality(Today(u)') <= Cardinality(Today(u) \cup {mem[w].i})
      BY <2>2, <3>3, FS_Subset
    <3>5. Cardinality(Today(u)') \in Nat
      BY <3>4, FS_CardinalityType
    <3>6. DailyCount(u)' = Cardinality(Today(u)')
      BY DEF DailyCount, Today, Made
    <3> QED
      BY <1>0, <3>1, <3>2, <3>3, <3>4, <3>5, <3>6
  <2> QED
    BY <2>1, <2>2, TodayAdds
<1>2. DailyWithinCap'
  BY <1>1 DEF DailyInv, DailyWithinCap
<1>3. ASSUME NEW w \in Workers, pc'[w] \in Admitted PROVE DailyCount(Asking(w))' < MaxDaily
  <2>0. PICK u : u = Asking(w)
    OBVIOUS
  <2>1. /\ mem'[w].i = mem[w].i /\ mem[w].i \in Interests
        /\ pc[w] \in Admitted \/ WithinDailyCap(u)
        /\ ~UpsertInterest(w)
    BY <1>3, <2>0, AdmittedFrom
  <2>2. DailyCount(u) < MaxDaily
    BY <2>0, <2>1 DEF DailyInv, WithinDailyCap
  <2>3. \A v \in Workers : ~UpsertInterest(v)
    BY <2>1 DEF OneWorker
  <2>4. Today(u)' \subseteq Today(u)
    BY <2>3, TodayAdds
  <2>5. DailyCount(u)' < MaxDaily
    BY <1>0, <2>2, <2>4, TodayShrinks
  <2>6. Owner[Requester(mem'[w].i)] = u
    BY <2>0, <2>1 DEF Asking
  <2> QED
    BY <2>5, <2>6 DEF DailyCount, Asking
<1> QED
  BY <1>2, <1>3 DEF DailyInv

(* One request at a time: no tenant makes more new requests in a day than  *)
(* the cap, though the count is read two queries before the upsert and the *)
(* day may turn in between.                                                *)
THEOREM SerialDailyWithinCap ==
    ASSUME OneWorker
    PROVE  Spec => []DailyWithinCap
<1>1. Init => MadeInv /\ DailyInv
  <2> SUFFICES ASSUME Init PROVE MadeInv /\ DailyInv
    OBVIOUS
  <2>1. MadeInv
    BY DEF Init, MadeInv, AtAnswer
  <2>2. \A u : DailyCount(u) = 0
    <3> TAKE u
    <3>1. Today(u) = {}
      BY DEF Init, Today, Made
    <3> QED
      BY <3>1, TodayFinite, FS_EmptySet
  <2>3. MaxDaily \in Nat
    BY NumbersAssumption
  <2>4. \A w \in Workers : pc[w] \notin Admitted
    BY DEF Init, Procs, Admitted
  <2>5. DailyInv
    BY <2>2, <2>3, <2>4 DEF DailyInv, DailyWithinCap
  <2> QED
    BY <2>1, <2>5
<1>2. DailyInv => DailyWithinCap
  BY DEF DailyInv
<1> QED
  BY <1>1, <1>2, MadeStep, DailyStep, TypeCorrect, PTL DEF Spec
=============================================================================
