----------------------- MODULE SwapChainsConsentProofs ----------------------
(* What holds of the chains however many handlers and ticks overlap and    *)
(* die: they are the consents of ChainConsent, and a confirmation leaves   *)
(* none behind but those that crossed it, which are named.                 *)
EXTENDS SwapChainsProofs

-----------------------------------------------------------------------------
(* The chains are consents.  Who locks read that everyone accepted         *)
(* (ConsentInv); who accepts or locks read the chain as PENDING, and if it *)
(* was broken since, the crossing is known; a chain not yet proposed is    *)
(* accepted by nobody.                                                     *)

Agreeable(c) == IsPending(c) \/ IsLocked(c) \/ c \in late.lock
AcceptInv == \A p \in Procs : pc[p] \in Accepting => Agreeable(mem[p].c)

(* Only a break that crosses an acceptance takes the chain away from it.   *)
LEMMA AgreeableStep ==
    ASSUME TypeOK, [Next]_vars, NEW c \in Chains, Agreeable(c), InHand(c, Accepting)
    PROVE  Agreeable(c)'
<1>0. /\ chain \in [Chains -> ChainRows] /\ late \in Crossings /\ Workers \subseteq Procs
      /\ \A p \in Procs : pc[p] \in AtChain => mem[p].c \in Chains
  BY DEF TypeOK, ControlOK, Procs
<1>1. ASSUME chain'[c].status = chain[c].status
      PROVE  Agreeable(c)'
  BY <1>1, LateGrows DEF Agreeable, IsPending, IsLocked
<1>2. ASSUME NEW p \in Procs, BreakChain(p) PROVE Agreeable(c)'
  <2>1. CASE mem[p].c = c
    BY <1>0, <1>2, <2>1 DEF BreakChain, Agreeable, Crossings
  <2>2. CASE mem[p].c # c
    BY <1>0, <1>1, <1>2, <2>2 DEF BreakChain, SetChain
  <2> QED
    BY <2>1, <2>2
<1>3. ASSUME NEW p \in Procs, CreateChain(p) PROVE Agreeable(c)'
  <2>1. c # mem[p].c => chain'[c].status = chain[c].status
    BY <1>0, <1>3 DEF CreateChain, SetChain
  <2>2. c = mem[p].c => chain'[c].status \in {"PENDING", chain[c].status}
    BY <1>0, <1>3 DEF CreateChain, SetChain, Proposed
  <2> QED
    BY <1>1, <2>1, <2>2 DEF Agreeable, IsPending
<1>4. ASSUME NEW w \in Workers, AcceptChain(w) PROVE Agreeable(c)'
  <2>1. chain'[c].status = chain[c].status
    BY <1>0, <1>4 DEF AcceptChain, SetChain, Accepted
  <2> QED
    BY <1>1, <2>1
<1>5. ASSUME NEW w \in Workers, LockChain(w) PROVE Agreeable(c)'
  <2>1. chain'[c].status \in {"LOCKED", chain[c].status}
    BY <1>0, <1>5 DEF LockChain, SetChain, Locked
  <2> QED
    BY <1>1, <2>1 DEF Agreeable, IsLocked
<1> QED
  BY <1>1, <1>2, <1>3, <1>4, <1>5, ChainWriters

(* Who is accepting was so before, with the chain in hand, or reads it.    *)
LEMMA AcceptsStep ==
    ASSUME TypeOK, [Next]_vars, NEW q \in Procs, pc'[q] \in Accepting
    PROVE  \/ pc[q] \in Accepting /\ mem'[q].c = mem[q].c
           \/ ReadForAccept(q) /\ IsPending(mem'[q].c)
<1>0. Accepting \subseteq Holding
  BY DEF Accepting, Holding
<1>1. CASE Still(q)
  BY <1>1 DEF Still
<1>2. CASE ~Still(q)
  <2>1. q \in Workers /\ Takes(q)
    BY <1>0, <1>2, OneMoves
  <2>2. CASE AcceptChain(q)
    BY <2>1, <2>2, HandleTurns DEF AcceptChain, Accepting, Turns, Goes
  <2>3. CASE CountAccepted(q)
    BY <2>1, <2>3, HandleTurns DEF CountAccepted, Accepting, Turns, Goes, Starts
  <2>4. CASE ReadForAccept(q)
    BY <2>1, <2>4, HandleTurns DEF Accepting, Turns, Starts
  <2>5. CASE RequestContactUnlock(q) \/ CreateUnlock(q)
    BY <2>1, <2>5, HandleTurns DEF Accepting, Turns, Goes, Starts
  <2> QED
    BY <2>1, <2>2, <2>3, <2>4, <2>5 DEF Takes
<1> QED
  BY <1>1, <1>2

LEMMA AcceptStep ==
    ASSUME TypeOK, AcceptInv, [Next]_vars
    PROVE  AcceptInv'
<1> SUFFICES ASSUME NEW q \in Procs, pc'[q] \in Accepting
             PROVE  Agreeable(mem[q].c)'
  BY DEF AcceptInv
<1>1. PICK c : c = mem'[q].c
  OBVIOUS
<1>2. Agreeable(c)'
  <2>1. CASE pc[q] \in Accepting /\ mem'[q].c = mem[q].c
    <3>1. c \in Chains /\ InHand(c, Accepting) /\ Agreeable(c)
      BY <1>1, <2>1 DEF AcceptInv, InHand, TypeOK, ControlOK, AtChain, Accepting
    <3> QED
      BY <3>1, AgreeableStep
  <2>2. CASE ReadForAccept(q) /\ IsPending(mem'[q].c)
    BY <1>1, <2>2 DEF ReadForAccept, Agreeable, IsPending
  <2> QED
    BY <2>1, <2>2, AcceptsStep
<1> QED
  BY <1>1, <1>2 DEF Agreeable, IsPending, IsLocked

Untouched == \A c \in Chains : ~Exists(c) => chain[c].accepted = {}

LEMMA UntouchedStep ==
    ASSUME TypeOK, ConsentInv, Untouched, [Next]_vars
    PROVE  Untouched'
<1> SUFFICES ASSUME NEW c \in Chains, ~Exists(c)'
             PROVE  chain'[c].accepted = {}
  BY DEF Untouched
<1>1. ~Exists(c)
  BY ChainStable
<1>2. chain'[c] = chain[c]
  <2>1. CASE chain' = chain
    BY <2>1
  <2>2. CASE chain' # chain
    <3>1. PICK p \in Procs, d \in Chains :
            /\ mem[p].c = d
            /\ \/ SetChain(d, Broken(chain[d]))
               \/ SetChain(d, Proposed)
               \/ pc[p] = "accept" /\ SetChain(d, Accepted(chain[d], mem[p].l))
               \/ SetChain(d, Locked(chain[d]))
      BY <2>2, ChainWritten
    <3>2. pc[p] = "accept" => Exists(d)
      BY <3>1 DEF ConsentInv, Hands, HandOK
    <3>3. c # d
      BY <1>1, <3>1, <3>2 DEF TypeOK, SetChain, Broken, Proposed, Locked, Exists
    <3> QED
      BY <3>1, <3>3 DEF TypeOK, SetChain
  <2> QED
    BY <2>1, <2>2
<1> QED
  BY <1>1, <1>2 DEF Untouched

LEMMA ConsentStep ==
    ASSUME TypeOK, ConsentInv, ExpiryInv, AcceptInv, Untouched, [Next]_vars
    PROVE  [Consents!Next]_<<[c \in Chains |-> chain[c].status],
                             [c \in Chains |-> chain[c].accepted], late.lock>>
<1> DEFINE status == [c \in Chains |-> chain[c].status]
           accepted == [c \in Chains |-> chain[c].accepted]
           Same == status' = status /\ accepted' = accepted /\ late'.lock = late.lock
<1>0. /\ chain \in [Chains -> ChainRows] /\ late \in Crossings /\ Workers \subseteq Procs
      /\ \A p \in Procs : /\ HandOK(pc[p], mem[p])
                          /\ pc[p] \in AtChain => mem[p].c \in Chains
                          /\ pc[p] \in AtMember => mem[p].l \in mem[p].c
                          /\ pc[p] \in Accepting => Agreeable(mem[p].c)
      /\ \A c \in Chains : IsLocked(c) => AllAccepted(c)
  BY DEF TypeOK, ControlOK, Procs, ConsentInv, Hands, LockedByAll, AcceptInv
<1>1. CASE chain' = chain /\ late'.lock = late.lock
  BY <1>1
<1>2. ASSUME NEW p \in Procs, BreakChain(p)
      PROVE  Consents!Next \/ Same
  <2>1. PICK c \in Chains : c = mem[p].c
    BY <1>0, <1>2 DEF BreakChain, AtChain
  <2>2. status' = [status EXCEPT ![c] = "BROKEN"] /\ accepted' = accepted
    BY <1>0, <1>2, <2>1 DEF BreakChain, SetChain, Broken
  <2>3. late'.lock = late.lock \cup {d \in {c} : InHand(d, Accepting)}
    BY <1>0, <1>2, <2>1 DEF BreakChain, Crossings
  <2>4. CASE IsPending(c) \/ IsLocked(c)
    <3>1. chain[c].status \in {"PENDING", "LOCKED"}
      BY <2>4 DEF IsPending, IsLocked
    <3>2. late'.lock \in {late.lock, late.lock \cup {c}}
      BY <2>3
    <3> QED
      BY <2>2, <3>1, <3>2 DEF Consents!Next, Consents!Break, Consents!Set
  <2>5. CASE IsBroken(c)
    <3>1. InHand(c, Accepting) => c \in late.lock
      BY <1>0, <2>5 DEF InHand, Agreeable, IsBroken, IsPending, IsLocked
    <3>2. late'.lock = late.lock
      BY <2>3, <3>1
    <3>3. status' = status
      BY <2>2, <2>5 DEF IsBroken
    <3> QED
      BY <2>2, <3>2, <3>3
  <2>6. Exists(c)
    BY <1>2, <2>1 DEF ExpiryInv, ExpiryOK, BreakChain
  <2> QED
    BY <1>0, <2>4, <2>5, <2>6 DEF IsPending, IsLocked, IsBroken, Exists, ChainRows, ChainStatus
<1>3. ASSUME NEW p \in Procs, CreateChain(p)
      PROVE  Consents!Next \/ Same
  <2>1. PICK c \in Chains : c = mem[p].c
    BY <1>0, <1>3 DEF CreateChain, AtChain
  <2>2. late'.lock = late.lock
    BY <1>3 DEF CreateChain
  <2>3. CASE chain' = chain
    BY <2>2, <2>3
  <2>4. CASE ~Exists(c) /\ SetChain(c, Proposed)
    <3>1. chain[c].status = "NONE" /\ chain[c].accepted = {}
      BY <2>4 DEF Exists, Untouched
    <3>2. status' = [status EXCEPT ![c] = "PENDING"] /\ accepted' = accepted
      BY <1>0, <2>4, <3>1 DEF SetChain, Proposed
    <3> QED
      BY <2>2, <3>1, <3>2 DEF Consents!Next, Consents!Propose, Consents!Set
  <2> QED
    BY <1>3, <2>1, <2>3, <2>4 DEF CreateChain, HashTaken
<1>4. ASSUME NEW w \in Workers, AcceptChain(w)
      PROVE  Consents!Next \/ Same
  <2>0. PICK c \in Chains : \E l \in c :
          /\ Agreeable(c) /\ Exists(c) /\ SetChain(c, Accepted(chain[c], l))
    BY <1>0, <1>4 DEF AcceptChain, AtChain, AtMember, Accepting, HandOK
  <2>1. PICK l \in c :
          /\ Agreeable(c) /\ Exists(c) /\ SetChain(c, Accepted(chain[c], l))
    BY <2>0
  <2>2. status' = status /\ accepted' = [accepted EXCEPT ![c] = @ \cup {l}]
    BY <1>0, <2>1 DEF SetChain, Accepted
  <2>3. late'.lock = late.lock
    BY <1>4 DEF AcceptChain
  <2>4. CASE IsLocked(c)
    <3>1. chain[c].accepted \cup {l} = chain[c].accepted
      BY <1>0, <2>4 DEF AllAccepted
    <3>2. \A d \in Chains : chain'[d].accepted = chain[d].accepted
      BY <1>0, <2>1, <3>1 DEF SetChain, Accepted
    <3>3. accepted' = accepted
      BY <3>2
    <3> QED
      BY <2>2, <2>3, <3>3
  <2>5. CASE IsPending(c) \/ c \in late.lock
    <3>1. status[c] = "PENDING" \/ c \in late.lock
      BY <2>5 DEF IsPending
    <3> QED
      BY <2>1, <2>2, <2>3, <3>1 DEF Consents!Next, Consents!Accept, Consents!Open
  <2> QED
    BY <2>1, <2>4, <2>5 DEF Agreeable
<1>5. ASSUME NEW w \in Workers, LockChain(w)
      PROVE  Consents!Next \/ Same
  <2>1. PICK c \in Chains :
          /\ Agreeable(c) /\ AllAccepted(c) /\ SetChain(c, Locked(chain[c]))
    BY <1>0, <1>5 DEF LockChain, AtChain, Accepting, HandOK, Settled
  <2>2. status' = [status EXCEPT ![c] = "LOCKED"] /\ accepted' = accepted
    BY <1>0, <2>1 DEF SetChain, Locked
  <2>3. late'.lock = late.lock
    BY <1>0, <1>5 DEF LockChain, Crossings
  <2>4. CASE IsLocked(c)
    BY <2>2, <2>3, <2>4 DEF IsLocked
  <2>5. CASE IsPending(c) \/ c \in late.lock
    <3>1. (status[c] = "PENDING" \/ c \in late.lock) /\ accepted[c] = c
      BY <2>1, <2>5 DEF IsPending, AllAccepted
    <3> QED
      BY <2>2, <2>3, <3>1 DEF Consents!Next, Consents!Agree, Consents!Set, Consents!Open
  <2> QED
    BY <2>1, <2>4, <2>5 DEF Agreeable
<1>6. CASE \/ UNCHANGED <<chain, late>>
           \/ chain' = chain /\ \E S : late' = [late EXCEPT !.left = @ \cup S]
  <2>1. late'.lock = late.lock
    BY <1>0, <1>6 DEF Crossings
  <2> QED
    BY <1>1, <1>6, <2>1
<1> QED
  BY <1>2, <1>3, <1>4, <1>5, <1>6, ChainWriters

(* The chains implement the consents of ChainConsent.                      *)
THEOREM ChainsConsentedAlways == Spec => ChainsConsented
<1>1. Init => Consents!Init
  BY DEF Init, Consents!Init
<1>2. Init => AcceptInv /\ Untouched
  BY DEF Init, AcceptInv, Accepting, Untouched
<1> QED
  BY <1>1, <1>2, TypeCorrect, ConsentAlways, ExpiryInvAlways, AcceptStep, UntouchedStep,
    ConsentStep, PTL
  DEF Spec, ChainsConsented, Consents!Spec

-----------------------------------------------------------------------------
(* Where the memory of a process holds something: a return label while it  *)
(* reruns, chains to break while it breaks or reruns between two breaks,   *)
(* the listings just matched until the chains in conflict are looked for.  *)

Rerunning == {"rerun", "existing", "locked", "create"}

Orderly(label, m) ==
    /\ m.back # "idle" => label \in Rerunning
    /\ m.todo # {} => label \in {"break", "breakWrite"} \/ m.back = "break"
    /\ m.matched # {} => label = "conflicts" \/ m.back = "conflicts"
OrderInv == \A p \in Procs : Orderly(pc[p], mem[p])

LEMMA OrderStep ==
    ASSUME TypeOK, OrderInv, [Next]_vars
    PROVE  OrderInv'
<1>0. Workers \subseteq Procs
  BY DEF Procs
<1>1. \A p \in Procs : /\ Orderly(pc[p], mem[p])
                       /\ mem[p].after \in {"idle", "interests"}
                       /\ mem[p].back \in {"idle", "chains", "break", "ready", "conflicts"}
  BY DEF TypeOK, ControlOK, OrderInv, Mems
<1>2. ASSUME NEW p \in Procs, Sweep(p) \/ Fail(p)
      PROVE  Orderly(pc'[p], mem'[p])
  <2>1. CASE \/ ExpireListings(p) \/ ExpirePendingChains(p) \/ ExpireListingInterests(p)
             \/ BreaksDone(p) \/ Fail(p)
    BY <1>1, <2>1, SweepTurns DEF Turns, Starts, Orderly, Rerunning
  <2>2. /\ ReadForBreak(p) => pc[p] = "break"
        /\ BreakChain(p) => pc[p] = "breakWrite"
        /\ RunForListing(p) \/ RerunDone(p) => pc[p] = "rerun"
        /\ FindExisting(p) \/ FindLocked(p) \/ CreateChain(p) => pc[p] \in Rerunning
    BY DEF ReadForBreak, BreakChain, RunForListing, RerunDone, FindExisting, FindLocked,
      CreateChain, Rerunning
  <2>3. CASE ReadForBreak(p)
    BY <1>1, <2>2, <2>3, SweepTurns DEF Turns, Goes, Orderly, Rerunning
  <2>4. CASE BreakChain(p)
    <3>1. Goes(p, "rerun", mem[p].todo, "break", Null)
      BY <2>4, SweepTurns
    <3>2. mem[p].matched = {}
      BY <1>1, <2>2, <2>4 DEF Orderly, Rerunning
    <3> QED
      BY <3>1, <3>2 DEF Turns, Goes, Orderly, Rerunning
  <2>5. CASE RerunDone(p)
    <3>1. Goes(p, mem[p].back, mem[p].todo, "idle", mem[p].c) /\ pc[p] = "rerun"
      BY <2>2, <2>5, SweepTurns
    <3>2. Orderly(pc[p], mem[p])
      BY <1>1
    <3> QED
      BY <3>1, <3>2 DEF Turns, Goes, Orderly, Rerunning
  <2>6. CASE RunForListing(p) \/ FindExisting(p) \/ FindLocked(p) \/ CreateChain(p)
    <3>1. pc[p] \in Rerunning
      BY <2>2, <2>6 DEF Rerunning
    <3>2. PICK label \in Rerunning, c \in Chains \cup {Null, mem[p].c} :
             Goes(p, label, mem[p].todo, mem[p].back, c)
      <4>1. {"rerun", "existing", "locked", "create"} \subseteq Rerunning
        BY DEF Rerunning
      <4>2. CASE RunForListing(p)
        BY <4>1, <4>2, SweepTurns
      <4>3. CASE FindExisting(p)
        BY <4>1, <4>3, SweepTurns
      <4>4. CASE FindLocked(p)
        BY <4>1, <4>4, SweepTurns
      <4>5. CASE CreateChain(p)
        BY <4>1, <4>5, SweepTurns
      <4> QED
        BY <2>6, <4>2, <4>3, <4>4, <4>5
    <3>3. Orderly(pc[p], mem[p])
      BY <1>1
    <3> QED
      BY <3>1, <3>2, <3>3 DEF Turns, Goes, Orderly, Rerunning
  <2> QED
    BY <1>2, <2>1, <2>3, <2>4, <2>5, <2>6 DEF Sweep
<1>3. ASSUME NEW w \in Workers, Handle(w)
      PROVE  UNCHANGED <<pc, mem>> \/ Orderly(pc'[w], mem'[w])
  <2>1. CASE \/ RunForUser(w) \/ RerunChainMembersByAdmin(w) \/ DeclineChain(w)
             \/ ConfirmInterest(w) \/ BreakChainsForListings(w) \/ RequestContactUnlock(w)
             \/ LockChain(w) \/ ApproveOwnUnlock(w) \/ Return(w) \/ ReadForAccept(w)
    BY <2>1, HandleTurns DEF Turns, Starts, Orderly, Rerunning
  <2>2. AcceptChain(w) \/ CountAccepted(w) \/ CreateUnlock(w) =>
           pc[w] \in {"accept", "count", "unlock"}
    BY DEF AcceptChain, CountAccepted, CreateUnlock
  <2>3. CASE AcceptChain(w) \/ CountAccepted(w) \/ CreateUnlock(w)
    BY <1>0, <1>1, <2>2, <2>3, HandleTurns DEF Turns, Goes, Starts, Orderly, Rerunning
  <2>4. CASE ApproveContactUnlock(w)
    BY <2>4 DEF ApproveContactUnlock
  <2> QED
    BY <1>3, <2>1, <2>3, <2>4 DEF Handle
<1>4. ASSUME NEW q \in Procs
      PROVE  Orderly(pc'[q], mem'[q])
  <2>1. ASSUME Still(q) PROVE Orderly(pc'[q], mem'[q])
    BY <1>1, <2>1 DEF Still
  <2>2. ASSUME NEW p \in Procs, Sweep(p) \/ Fail(p) PROVE Orderly(pc'[q], mem'[q])
    BY <1>2, <2>1, <2>2, StepMoves DEF Only
  <2>3. ASSUME NEW w \in Workers, Handle(w) PROVE Orderly(pc'[q], mem'[q])
    BY <1>3, <2>1, <2>3, StepMoves DEF Only, Still
  <2>4. ASSUME UNCHANGED <<pc, mem>> PROVE Orderly(pc'[q], mem'[q])
    BY <2>1, <2>4 DEF Still
  <2> QED
    BY <2>2, <2>3, <2>4 DEF Next, Tick, ListingOpensOrCloses, vars
<1> QED
  BY <1>4 DEF OrderInv

-----------------------------------------------------------------------------
(* A confirmation leaves no chain behind.  A chain that is proposed, or is *)
(* about to be, has its listings open, or is owed a break by the handler   *)
(* that matched one of them, or is one of the crossings.                   *)

Claimed(c) == IsPending(c) \/ IsLocked(c) \/ (~Exists(c) /\ InHand(c, Proposing))
Standing(c) ==
    \/ c \ Restless \subseteq active
    \/ \E w \in Workers : c \in Owed(w)
    \/ c \in late.left \cup late.lock
StandingInv == \A c \in Chains : Claimed(c) => Standing(c)

(* The steps that only move a process.                                     *)
LEMMA QuietSweep ==
    ASSUME NEW p, \/ ExpireListings(p) \/ ExpirePendingChains(p) \/ ExpireListingInterests(p)
                  \/ ReadForBreak(p) \/ BreaksDone(p) \/ RunForListing(p) \/ RerunDone(p)
                  \/ FindExisting(p) \/ FindLocked(p)
    PROVE  UNCHANGED <<chain, active>>
BY DEF ExpireListings, ExpirePendingChains, ExpireListingInterests, ReadForBreak, BreaksDone,
  RunForListing, RerunDone, FindExisting, FindLocked

LEMMA QuietHandle ==
    ASSUME NEW w, \/ RunForUser(w) \/ RerunChainMembersByAdmin(w) \/ ReadForAccept(w)
                  \/ CountAccepted(w) \/ DeclineChain(w) \/ BreakChainsForListings(w)
                  \/ RequestContactUnlock(w) \/ CreateUnlock(w) \/ ApproveOwnUnlock(w)
                  \/ ApproveContactUnlock(w) \/ Return(w)
    PROVE  UNCHANGED <<chain, active>>
BY DEF RunForUser, RerunChainMembersByAdmin, ReadForAccept, CountAccepted, DeclineChain,
  BreakChainsForListings, RequestContactUnlock, CreateUnlock, ApproveOwnUnlock,
  ApproveContactUnlock, Return

(* What a handler owes it keeps, hands to the breaks, or leaves.           *)
LEMMA OwedSweep ==
    ASSUME TypeOK, OrderInv, NEW w \in Workers, Sweep(w) \/ Fail(w),
           NEW c \in Chains, c \in Owed(w), Claimed(c), ~IsBroken(c)'
    PROVE  c \in Owed(w)' \/ c \in late'.left
<1>0. /\ w \in Procs /\ Orderly(pc[w], mem[w]) /\ late \in Crossings
      /\ pc[w] \in AtChain => mem[w].c \in Chains
      /\ chain \in [Chains -> ChainRows]
  BY DEF TypeOK, ControlOK, OrderInv, Procs
<1>1. /\ ~mem[w].expiring
      /\ \/ pc[w] = "breakWrite" /\ mem[w].c = c
         \/ c \in mem[w].todo
         \/ c \cap mem[w].matched # {}
  BY DEF Owed
<1>2. ASSUME ~mem'[w].expiring,
             \/ pc'[w] = "breakWrite" /\ mem'[w].c = c
             \/ c \in mem'[w].todo
             \/ c \cap mem'[w].matched # {}
      PROVE  c \in Owed(w)'
  BY <1>2 DEF Owed
<1>3. ~IsBroken(c)
  BY DEF Claimed, IsBroken, IsPending, IsLocked, Exists
<1>4. CASE \/ ExpireListings(w) \/ ExpirePendingChains(w) \/ ExpireListingInterests(w)
  BY <1>0, <1>1, <1>4 DEF ExpireListings, ExpirePendingChains, ExpireListingInterests,
    Orderly, Rerunning
<1>5. CASE ReadForBreak(w)
  BY <1>0, <1>1, <1>2, <1>3, <1>5, SweepTurns DEF ReadForBreak, Turns, Goes
<1>6. CASE BreakChain(w)
  <2>1. pc[w] = "breakWrite" /\ SetChain(mem[w].c, Broken(chain[mem[w].c]))
    BY <1>6 DEF BreakChain
  <2>2. mem[w].c # c
    BY <1>0, <2>1 DEF SetChain, Broken, IsBroken
  <2> QED
    BY <1>0, <1>1, <1>2, <1>6, <2>2, SweepTurns DEF Turns, Goes
<1>7. CASE BreaksDone(w)
  BY <1>0, <1>1, <1>7 DEF BreaksDone, Orderly, Rerunning
<1>8. CASE RunForListing(w) \/ RerunDone(w) \/ FindExisting(w) \/ FindLocked(w) \/ CreateChain(w)
  <2>1. pc[w] # "breakWrite"
    BY <1>8 DEF RunForListing, RerunDone, FindExisting, FindLocked, CreateChain
  <2> QED
    BY <1>0, <1>1, <1>2, <1>8, <2>1, SweepTurns DEF Turns, Goes
<1>9. CASE Fail(w)
  BY <1>0, <1>9 DEF Fail, Crossings
<1> QED
  BY <1>4, <1>5, <1>6, <1>7, <1>8, <1>9 DEF Sweep

LEMMA OwedHandle ==
    ASSUME TypeOK, OrderInv, NEW w \in Workers, Handle(w),
           NEW c \in Chains, c \in Owed(w), Claimed(c)
    PROVE  c \in Owed(w)' \/ c \in late'.left
<1>0. /\ w \in Procs /\ Orderly(pc[w], mem[w]) /\ late \in Crossings
  BY DEF TypeOK, ControlOK, OrderInv, Procs
<1>1. /\ ~mem[w].expiring
      /\ \/ pc[w] = "breakWrite" /\ mem[w].c = c
         \/ c \in mem[w].todo
         \/ c \cap mem[w].matched # {}
  BY DEF Owed
<1>2. pc[w] \notin {"idle", "ready", "accept", "count", "lock", "unlock", "approve"}
  BY <1>0, <1>1 DEF Orderly, Rerunning
<1>3. CASE BreakChainsForListings(w)
  <2>1. pc[w] = "conflicts" /\ c \cap mem[w].matched # {}
    BY <1>0, <1>1, <1>3 DEF BreakChainsForListings, Orderly, Rerunning
  <2>2. CASE IsPending(c) \/ IsLocked(c)
    <3>1. c \in ConflictsWith(mem[w].matched)
      BY <2>1, <2>2 DEF ConflictsWith
    <3> QED
      BY <1>3, <3>1, HandleTurns DEF Turns, Owed
  <2>3. CASE InHand(c, Proposing)
    BY <1>0, <1>3, <2>3 DEF BreakChainsForListings, Crossings
  <2> QED
    BY <2>2, <2>3 DEF Claimed
<1>4. CASE ApproveContactUnlock(w)
  BY <1>4 DEF ApproveContactUnlock, Owed
<1> QED
  BY <1>2, <1>3, <1>4 DEF Handle, RunForUser, RerunChainMembersByAdmin, ReadForAccept,
    AcceptChain, CountAccepted, LockChain, DeclineChain, ConfirmInterest,
    RequestContactUnlock, CreateUnlock, ApproveOwnUnlock, Return

LEMMA OwedStep ==
    ASSUME TypeOK, OrderInv, [Next]_vars, NEW w \in Workers,
           NEW c \in Chains, c \in Owed(w), Claimed(c), ~IsBroken(c)'
    PROVE  c \in Owed(w)' \/ c \in late'.left
<1>1. ASSUME Still(w) PROVE c \in Owed(w)'
  BY <1>1 DEF Still, Owed
<1>2. w \in Procs
  BY DEF Procs
<1>3. ASSUME NEW p \in Procs, Sweep(p) \/ Fail(p) PROVE c \in Owed(w)' \/ c \in late'.left
  <2>1. CASE p = w
    BY <1>3, <2>1, OwedSweep
  <2>2. CASE p # w
    BY <1>1, <1>2, <1>3, <2>2, StepMoves DEF Only
  <2> QED
    BY <2>1, <2>2
<1>4. ASSUME NEW v \in Workers, Handle(v) PROVE c \in Owed(w)' \/ c \in late'.left
  <2>1. CASE v = w
    BY <1>4, <2>1, OwedHandle
  <2>2. CASE v # w
    BY <1>1, <1>2, <1>4, <2>2, StepMoves DEF Only, Still
  <2> QED
    BY <2>1, <2>2
<1>5. ASSUME Tick \/ ListingOpensOrCloses \/ UNCHANGED vars PROVE c \in Owed(w)'
  BY <1>1, <1>5 DEF Tick, ListingOpensOrCloses, vars, Still
<1> QED
  BY <1>3, <1>4, <1>5 DEF Next

(* Who is about to propose a chain was so before, or found its listings    *)
(* open.                                                                   *)
LEMMA ProposingStep ==
    ASSUME TypeOK, [Next]_vars, NEW q \in Procs, pc'[q] \in Proposing
    PROVE  \/ pc[q] \in Proposing /\ mem'[q].c = mem[q].c
           \/ mem'[q].c \subseteq active /\ active' = active
<1>0. mem[q].after \notin Proposing /\ mem[q].back \notin Proposing
  BY DEF TypeOK, ControlOK, Mems, Proposing
<1>1. CASE Still(q)
  BY <1>1 DEF Still
<1>2. CASE ~Still(q)
  <2>1. ASSUME NEW p \in Procs, Sweep(p) \/ Fail(p) PROVE p = q
    BY <1>2, <2>1, StepMoves DEF Only
  <2>2. ASSUME NEW w \in Workers, Handle(w) PROVE FALSE
    <3>1. w = q /\ ~UNCHANGED <<pc, mem>>
      BY <1>2, <2>2, StepMoves DEF Only, Still
    <3> QED
      BY <2>2, <3>1, HandleTurns DEF Handle, ApproveContactUnlock, Turns, Goes, Starts, Proposing
  <2>3. Sweep(q) \/ Fail(q)
    BY <1>2, <2>1, <2>2 DEF Next, Tick, ListingOpensOrCloses, vars, Still
  <2>4. CASE RunForListing(q)
    BY <2>4, QuietSweep, SweepTurns DEF Turns, Goes, Proposing
  <2>5. CASE FindExisting(q) \/ FindLocked(q)
    <3>1. pc[q] \in Proposing
      BY <2>5 DEF FindExisting, FindLocked, Proposing
    <3> QED
      BY <2>5, <3>1, SweepTurns DEF Turns, Goes, Proposing
  <2>6. CASE ~(RunForListing(q) \/ FindExisting(q) \/ FindLocked(q))
    BY <1>0, <2>3, <2>6, SweepTurns DEF Sweep, Turns, Goes, Starts, Proposing
  <2> QED
    BY <2>4, <2>5, <2>6
<1> QED
  BY <1>1, <1>2

(* A chain is claimed by a run that found its listings open, or, once      *)
(* broken, by an acceptance that crossed the break.                        *)
LEMMA ClaimedStep ==
    ASSUME TypeOK, AcceptInv, [Next]_vars, NEW c \in Chains, Claimed(c)'
    PROVE  Claimed(c) \/ c \subseteq active' \/ c \in late.lock
<1>0. /\ chain \in [Chains -> ChainRows] /\ Workers \subseteq Procs
      /\ \A p \in Procs : pc[p] \in AtChain => mem[p].c \in Chains
  BY DEF TypeOK, ControlOK, Procs
<1>1. ASSUME chain'[c].status = chain[c].status, IsPending(c)' \/ IsLocked(c)'
      PROVE  Claimed(c)
  BY <1>1 DEF Claimed, IsPending, IsLocked
<1>2. CASE IsPending(c)' \/ IsLocked(c)'
  <2>1. ASSUME NEW p \in Procs, BreakChain(p) PROVE chain'[c].status = chain[c].status
    BY <1>0, <1>2, <2>1 DEF BreakChain, SetChain, Broken, AtChain, IsPending, IsLocked
  <2>2. ASSUME NEW p \in Procs, CreateChain(p)
        PROVE  chain'[c].status = chain[c].status \/ Claimed(c)
    <3>1. CASE mem[p].c = c /\ ~Exists(c)
      BY <2>2, <3>1 DEF CreateChain, Claimed, InHand, Proposing
    <3>2. CASE ~(mem[p].c = c /\ ~Exists(c))
      BY <1>0, <2>2, <3>2 DEF CreateChain, HashTaken, SetChain
    <3> QED
      BY <3>1, <3>2
  <2>3. ASSUME NEW w \in Workers, AcceptChain(w) PROVE chain'[c].status = chain[c].status
    BY <1>0, <2>3 DEF AcceptChain, SetChain, Accepted
  <2>4. ASSUME NEW w \in Workers, LockChain(w)
        PROVE  chain'[c].status = chain[c].status \/ Claimed(c) \/ c \in late.lock
    <3>1. CASE mem[w].c = c
      BY <1>0, <2>4, <3>1 DEF LockChain, AcceptInv, Accepting, Agreeable, Claimed
    <3>2. CASE mem[w].c # c
      BY <1>0, <2>4, <3>2 DEF LockChain, SetChain
    <3> QED
      BY <3>1, <3>2
  <2> QED
    BY <1>1, <1>2, <2>1, <2>2, <2>3, <2>4, ChainWriters
<1>3. CASE ~Exists(c)' /\ InHand(c, Proposing)'
  <2>1. PICK q \in Procs : pc'[q] \in Proposing /\ mem'[q].c = c
    BY <1>3 DEF InHand, Proposing
  <2>2. ~Exists(c)
    BY <1>3, ChainStable
  <2> QED
    BY <2>1, <2>2, ProposingStep DEF Claimed, InHand
<1> QED
  BY <1>2, <1>3 DEF Claimed

(* Listings leave by a confirmation, which then owes their chains a break. *)
LEMMA ActiveStep ==
    ASSUME TypeOK, [Next]_vars, NEW c \in Chains, c \ Restless \subseteq active
    PROVE  c \ Restless \subseteq active' \/ \E w \in Workers : c \in Owed(w)'
<1>1. ASSUME NEW w \in Workers, ConfirmInterest(w)
      PROVE  c \ Restless \subseteq active' \/ c \in Owed(w)'
  <2>1. PICK L \in SUBSET Listings :
          /\ active' = active \ L
          /\ Turns(w, "rerun", {}, "conflicts", Null, L, FALSE)
    BY <1>1, HandleTurns
  <2>2. c \cap L # {} => c \in Owed(w)'
    BY <2>1 DEF Turns, Owed
  <2> QED
    BY <2>1, <2>2
<1>2. ASSUME NEW w \in Workers, Handle(w), ~ConfirmInterest(w)
      PROVE  active' = active
  BY <1>2, QuietHandle DEF Handle, AcceptChain, LockChain
<1>3. ASSUME NEW p \in Procs, Sweep(p) \/ Fail(p)
      PROVE  active' = active
  BY <1>3, QuietSweep DEF Sweep, BreakChain, CreateChain, Fail
<1>4. ASSUME Tick \/ ListingOpensOrCloses \/ UNCHANGED vars
      PROVE  c \ Restless \subseteq active'
  BY <1>4 DEF Tick, ListingOpensOrCloses, vars
<1> QED
  BY <1>1, <1>2, <1>3, <1>4 DEF Next

LEMMA StandingStep ==
    ASSUME TypeOK, OrderInv, AcceptInv, StandingInv, [Next]_vars
    PROVE  StandingInv'
<1> SUFFICES ASSUME NEW c \in Chains, Claimed(c)'
             PROVE  Standing(c)'
  BY DEF StandingInv
<1>1. CASE c \subseteq active' \/ c \in late.lock
  BY <1>1, LateGrows DEF Standing
<1>2. CASE Claimed(c)
  <2>1. ~IsBroken(c)'
    BY DEF Claimed, IsBroken, IsPending, IsLocked, Exists
  <2>2. CASE c \ Restless \subseteq active
    BY <2>2, ActiveStep DEF Standing
  <2>3. CASE \E w \in Workers : c \in Owed(w)
    BY <1>2, <2>1, <2>3, OwedStep DEF Standing
  <2>4. CASE c \in late.left \cup late.lock
    BY <2>4, LateGrows DEF Standing
  <2> QED
    BY <1>2, <2>2, <2>3, <2>4 DEF StandingInv, Standing
<1> QED
  BY <1>1, <1>2, ClaimedStep

(* A chain that waits for, or is locked on, a listing that was matched is  *)
(* about to be broken by the handler that matched it; what stays was about *)
(* to be proposed when that handler looked, or was left by its death, or   *)
(* was locked late.                                                        *)
THEOREM MatchedLeavesChainsAlways == Spec => []MatchedLeavesChains
<1>1. Init => OrderInv /\ AcceptInv /\ StandingInv
  BY DEF Init, OrderInv, Orderly, Blank, AcceptInv, Accepting, StandingInv, Claimed, InHand,
    Proposing, IsPending, IsLocked
<1>2. StandingInv => MatchedLeavesChains
  BY DEF StandingInv, Claimed, Standing, MatchedLeavesChains
<1> QED
  BY <1>1, <1>2, TypeCorrect, OrderStep, AcceptStep, StandingStep, PTL DEF Spec
=============================================================================
