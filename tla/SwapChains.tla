----------------------------- MODULE SwapChains -----------------------------
(* Swap chains: found by a matching run as cycles of compatible listings,  *)
(* accepted by every member, locked, and broken by whoever is entitled to; *)
(* then the contact unlocks of a locked chain.  Tables SwapChain,          *)
(* SwapChainMember, ContactUnlock and ContactUnlockApproval, as changed by *)
(* MatchingService.                                                        *)
(*                                                                         *)
(* A Worker is a request handler, a Timer the 60 s lifecycle tick; one     *)
(* awaited database call is one step, as in ListingInterests.  Of the      *)
(* listings only which are open to matching is kept.                       *)
(***************************************************************************)
EXTENDS Sweeps

CONSTANTS
    Listings,           \* rows of SwapListing
    Owner,              \* Owner[l]: the user a listing belongs to
    Compatible,         \* <<l, m>>: l's wishes fit m (isEdgeCompatible)
    Unlocks,            \* rows of ContactUnlock that may be created
    Workers, Timers,    \* request handlers in flight, lifecycle ticks
    Swept,              \* the sets of listings a sweep or a confirmation reruns
    AcceptTtl,          \* chainAcceptTtlHours, in clock units
    ExpireLimit,        \* chainExpireSweepLimit
    MaxClock,           \* bound: the clock stops there
    MaxFails,           \* bound: handlers that die half-way
    Restless            \* bound: the listings that open and close

ASSUME ProcessesDisjoint == Workers \cap Timers = {}
ASSUME ListingsAssumption ==
    /\ Compatible \subseteq Listings \X Listings
    /\ Swept \subseteq SUBSET Listings
    /\ Restless \subseteq Listings
    /\ DOMAIN Owner = Listings
ASSUME NumbersAssumption ==
    AcceptTtl \in Nat \ {0} /\ MaxClock \in Nat /\ MaxFails \in Nat

Procs == Workers \cup Timers

(* The members of S, each taking the apartment of the next: no proper      *)
(* subset of them may close the ring.                                      *)
IsCycle(S) ==
    \E next \in [S -> S] :
        /\ \A l \in S : <<l, next[l]>> \in Compatible
        /\ \A T \in SUBSET S \ {{}} : {next[l] : l \in T} \subseteq T => T = S

(* A chain is its unique cycleHash, the sorted ids of its members.         *)
ChainSizes == 2 .. 4
Chains == {S \in SUBSET Listings : Cardinality(S) \in ChainSizes /\ IsCycle(S)}

ASSUME NullAssumption ==
    Null \notin Listings /\ Null \notin Unlocks /\ \A c \in Chains : c # Null

Users == {Owner[l] : l \in Listings}
Members(c) == {Owner[l] : l \in c}

ChainStatus == {"NONE", "PENDING", "LOCKED", "BROKEN"}

VARIABLES
    clock,      \* Date.now()
    active,     \* the listings a run may match: ACTIVE and not overdue
    chain,      \* [status, acceptBy, accepted: the members with hasAccepted]
    unlock,     \* [chain (Null: no such row), approvers]
    pc,         \* what each process does next
    mem,        \* what each process has read
    late,       \* history: the chains that handlers crossed on, see Crossings
    fails       \* handlers that died so far

vars == <<clock, active, chain, unlock, pc, mem, late, fails>>

Labels == {"idle", "chains", "break", "breakWrite", "rerun", "existing",
           "locked", "create", "interests", "ready", "accept", "count", "lock",
           "conflicts", "unlock", "approve"}

(* mem[p]: the chains to break and where to go on after them, the listings *)
(* to rerun and where to go on after those, the chain, member and unlock   *)
(* at hand, the listings just matched, and whether the break is the        *)
(* system's for the deadline.                                              *)
Blank == [todo |-> {}, after |-> "idle", rerun |-> {}, back |-> "idle",
          c |-> Null, l |-> Null, u |-> Null, matched |-> {}, expiring |-> FALSE]

Mems == [todo : SUBSET Chains, after : {"idle", "interests"},
         rerun : SUBSET Listings,
         back : {"idle", "chains", "break", "ready", "conflicts"},
         c : Chains \cup {Null}, l : Listings \cup {Null},
         u : Unlocks \cup {Null},
         matched : SUBSET Listings, expiring : BOOLEAN]

ChainRows == [status : ChainStatus, acceptBy : Int \cup {Null},
              accepted : SUBSET Listings]

(* History.  lock: broken while an acceptance that had read them PENDING   *)
(* was under way.  expiry: locked while an expiry that had read them was.  *)
(* left: missed by the breaks of a confirmation, because they were about   *)
(* to be proposed when it looked, or because its handler died.             *)
Crossings == [lock : SUBSET Chains, expiry : SUBSET Chains, left : SUBSET Chains]

UnlockRows == [chain : Chains \cup {Null}, approvers : SUBSET Users]

(* Where a process has a chain, a member of it, or an unlock at hand.      *)
AtChain == {"breakWrite", "existing", "locked", "create", "accept", "count",
            "lock", "unlock", "approve"}
AtMember == {"accept", "unlock", "approve"}

ControlOK ==
    /\ pc \in [Procs -> Labels]
    /\ mem \in [Procs -> Mems]
    /\ \A p \in Procs :
          /\ pc[p] \in AtChain => mem[p].c \in Chains
          /\ pc[p] \in AtMember => mem[p].l \in mem[p].c
          /\ pc[p] = "approve" => mem[p].u \in Unlocks

TypeOK ==
    /\ clock \in Int
    /\ active \subseteq Listings
    /\ chain \in [Chains -> ChainRows]
    /\ \A c \in Chains : chain[c].accepted \subseteq c
    /\ unlock \in [Unlocks -> UnlockRows]
    /\ ControlOK
    /\ late \in Crossings
    /\ fails \in Nat

-----------------------------------------------------------------------------
(* What the queries select.                                                *)

Exists(c) == chain[c].status # "NONE"
IsPending(c) == chain[c].status = "PENDING"
IsLocked(c) == chain[c].status = "LOCKED"
IsBroken(c) == chain[c].status = "BROKEN"

(* The chains as rows of the sweep, their deadline being acceptBy.         *)
ByAcceptBy == [c \in Chains |-> [expiresAt |-> chain[c].acceptBy]]
OutOfTime(c, t) == Overdue(ByAcceptBy[c], t)
OverdueUnaccepted(t) ==    \* slip: half-accepted chains forgotten
    {c \in Chains : IsPending(c) /\ OutOfTime(c, t) /\ chain[c].accepted = {}}
OverdueChains(t) == {c \in Chains : IsPending(c) /\ OutOfTime(c, t)}

(* pickBestDirectPair, else findCyclesFrom and pickBestCycle: a direct     *)
(* pair before a ring, a shorter ring before a longer; among these the     *)
(* scores, which are not kept, decide.                                     *)
CyclesFrom(l, A) == {c \in Chains : l \in c /\ c \subseteq A}
BestCycles(l, A) ==
    {c \in CyclesFrom(l, A) :
        \A d \in CyclesFrom(l, A) : Cardinality(c) <= Cardinality(d)}

AllAccepted(c) == chain[c].accepted = c

(* What the updates write.                                                 *)
Proposed == [status |-> "PENDING", acceptBy |-> clock + AcceptTtl, accepted |-> {}]
Accepted(row, l) == [status |-> row.status, acceptBy |-> row.acceptBy,
                     accepted |-> row.accepted \cup {l}]
LockedOnDeadline(row) ==    \* slip: the deadline is not cleared
    [status |-> "LOCKED", acceptBy |-> row.acceptBy, accepted |-> row.accepted]
Locked(row) == [status |-> "LOCKED", acceptBy |-> Null, accepted |-> row.accepted]
BrokenAsExpired(row) ==    \* slip: the reason as the status
    [status |-> "EXPIRED", acceptBy |-> row.acceptBy, accepted |-> row.accepted]
Broken(row) == [status |-> "BROKEN", acceptBy |-> row.acceptBy,
                accepted |-> row.accepted]

SetChain(c, row) == chain' = [chain EXCEPT ![c] = row]
SetUnlock(u, c, approvers) ==
    unlock' = [unlock EXCEPT ![u] = [chain |-> c, approvers |-> approvers]]

(* Whether a process that has c at hand is at one of these steps.          *)
InHand(c, labels) == \E p \in Procs : pc[p] \in labels /\ mem[p].c = c
Accepting == {"accept", "count", "lock"}
Proposing == {"existing", "locked", "create"}
ExpiringNow(c) ==
    \E p \in Procs : pc[p] = "breakWrite" /\ mem[p].expiring /\ mem[p].c = c

(* The chains a process has yet to break because of a member, of the       *)
(* administration or of a confirmation.                                    *)
Owed(p) ==
    {c \in Chains :
        /\ ~mem[p].expiring
        /\ \/ pc[p] = "breakWrite" /\ mem[p].c = c
           \/ c \in mem[p].todo
           \/ c \cap mem[p].matched # {}}

Move(p, label, m) ==
    /\ pc' = [pc EXCEPT ![p] = label]
    /\ mem' = [mem EXCEPT ![p] = m]
Done(p) == Move(p, "idle", Blank)

-----------------------------------------------------------------------------
(* sweepLifecycle.  Closing listings and expiring requests both rerun some *)
(* listings, before and after the overdue chains are broken.               *)

ExpireListings(p) ==
    /\ pc[p] = "idle"
    /\ \E S \in Swept : Move(p, "rerun", [Blank EXCEPT !.rerun = S, !.back = "chains"])
    /\ UNCHANGED <<clock, active, chain, unlock, late, fails>>

ExpirePendingChains(p) ==
    /\ pc[p] = "chains"
    /\ \E B \in Oldest(OverdueChains(clock), ByAcceptBy, ExpireLimit) :
          Move(p, "break", [Blank EXCEPT !.todo = B, !.after = "interests",
                                         !.expiring = TRUE])
    /\ UNCHANGED <<clock, active, chain, unlock, late, fails>>

ExpireListingInterests(p) ==
    /\ pc[p] = "interests"
    /\ \E S \in Swept :
          Move(p, "rerun", [Blank EXCEPT !.rerun = S,
                                         !.back = IF p \in Workers THEN "ready" ELSE "idle"])
    /\ UNCHANGED <<clock, active, chain, unlock, late, fails>>

-----------------------------------------------------------------------------
(* breakChainAndRecover: a read, an update by id whatever became of the    *)
(* chain since, and the reruns of its members.                             *)

NeverSpared(c) == FALSE    \* slip: the status not asked again
SparedByExpiry(c) == IsLocked(c)

ReadForBreak(p) ==
    /\ pc[p] = "break"
    /\ \E c \in mem[p].todo :
          LET left == [mem[p] EXCEPT !.todo = @ \ {c}]
              spared == IsBroken(c) \/ (mem[p].expiring /\ SparedByExpiry(c))
          IN  \/ spared /\ Move(p, "break", left)
              \/ ~spared /\ Move(p, "breakWrite", [left EXCEPT !.c = c])
    /\ UNCHANGED <<clock, active, chain, unlock, late, fails>>

BreakChain(p) ==
    /\ pc[p] = "breakWrite"
    /\ SetChain(mem[p].c, Broken(chain[mem[p].c]))
    /\ Move(p, "rerun", [mem[p] EXCEPT !.rerun = mem[p].c, !.c = Null, !.back = "break"])
    /\ late' = [late EXCEPT !.lock = @ \cup {c \in {mem[p].c} : InHand(c, Accepting)}]
    /\ UNCHANGED <<clock, active, unlock, fails>>

BreaksDone(p) ==
    /\ pc[p] = "break" /\ mem[p].todo = {}
    /\ Move(p, mem[p].after, Blank)
    /\ UNCHANGED <<clock, active, chain, unlock, late, fails>>

-----------------------------------------------------------------------------
(* runForListing for each listing to rerun, then createChainFromCycle for  *)
(* the best cycle; the three queries of the latter are separate steps.  An *)
(* error, "not ACTIVE" or a cycleHash taken meanwhile, skips the listing.  *)

RunForListing(p) ==
    /\ pc[p] = "rerun"
    /\ \E l \in mem[p].rerun :
          LET left == [mem[p] EXCEPT !.rerun = @ \ {l}] IN
          \/ /\ l \in active
             /\ \E c \in BestCycles(l, active) :
                   Move(p, "existing", [left EXCEPT !.c = c])
          \/ /\ l \in active => BestCycles(l, active) = {}
             /\ Move(p, "rerun", left)
    /\ UNCHANGED <<clock, active, chain, unlock, late, fails>>

RerunDone(p) ==
    /\ pc[p] = "rerun" /\ mem[p].rerun = {}
    /\ Move(p, mem[p].back, [mem[p] EXCEPT !.back = "idle"])
    /\ UNCHANGED <<clock, active, chain, unlock, late, fails>>

(* Any chain of these members, a broken one too, ends the run: no other    *)
(* cycle is tried.                                                         *)
FindExisting(p) ==
    /\ pc[p] = "existing"
    /\ \/ Exists(mem[p].c) /\ Move(p, "rerun", [mem[p] EXCEPT !.c = Null])
       \/ ~Exists(mem[p].c) /\ Move(p, "locked", mem[p])
    /\ UNCHANGED <<clock, active, chain, unlock, late, fails>>

InLockedChain(c) == \E d \in Chains : IsLocked(d) /\ c \cap d # {}

FindLocked(p) ==
    /\ pc[p] = "locked"
    /\ \/ InLockedChain(mem[p].c) /\ Move(p, "rerun", [mem[p] EXCEPT !.c = Null])
       \/ ~InLockedChain(mem[p].c) /\ Move(p, "create", mem[p])
    /\ UNCHANGED <<clock, active, chain, unlock, late, fails>>

Overwritten(c) == FALSE    \* slip: an upsert, no unique index
HashTaken(c) == Exists(c)

CreateChain(p) ==
    /\ pc[p] = "create"
    /\ \/ ~HashTaken(mem[p].c) /\ SetChain(mem[p].c, Proposed)
       \/ HashTaken(mem[p].c) /\ UNCHANGED chain
    /\ Move(p, "rerun", [mem[p] EXCEPT !.c = Null])
    /\ UNCHANGED <<clock, active, unlock, late, fails>>

(* A user's own run, after the sweep, and the administration's rerun of    *)
(* the members of a chain, without one.                                    *)
RunForUser(w) ==
    /\ pc[w] = "ready"
    /\ \E l \in Listings : Move(w, "rerun", [Blank EXCEPT !.rerun = {l}])
    /\ UNCHANGED <<clock, active, chain, unlock, late, fails>>

RerunChainMembersByAdmin(w) ==
    /\ pc[w] = "idle"
    /\ \E c \in Chains : Exists(c) /\ Move(w, "rerun", [Blank EXCEPT !.rerun = c])
    /\ UNCHANGED <<clock, active, chain, unlock, late, fails>>

-----------------------------------------------------------------------------
(* acceptChain: a read, the member's update, a read of all members, and    *)
(* the update that locks the chain by id.                                  *)

CanAcceptAny(c) == Exists(c)    \* slip: broken chains too
CanAccept(c) == IsPending(c)

(* Which row of a user with two listings in the chain is found is open.    *)
ReadForAccept(w) ==
    /\ pc[w] = "ready"
    /\ \E c \in Chains :
          /\ CanAccept(c)
          /\ \/ /\ OutOfTime(c, clock)
                /\ Move(w, "break", [Blank EXCEPT !.todo = {c}, !.expiring = TRUE])
             \/ /\ ~OutOfTime(c, clock)
                /\ \E l \in c : Move(w, "accept", [Blank EXCEPT !.c = c, !.l = l])
    /\ UNCHANGED <<clock, active, chain, unlock, late, fails>>

AcceptChain(w) ==
    /\ pc[w] = "accept"
    /\ SetChain(mem[w].c, Accepted(chain[mem[w].c], mem[w].l))
    /\ Move(w, "count", [mem[w] EXCEPT !.l = Null])
    /\ UNCHANGED <<clock, active, unlock, late, fails>>

CountAnyAccepted(w) ==    \* slip: some instead of every
    /\ pc[w] = "count"
    /\ Move(w, "lock", mem[w])
    /\ UNCHANGED <<clock, active, chain, unlock, late, fails>>

CountAccepted(w) ==
    /\ pc[w] = "count"
    /\ \/ AllAccepted(mem[w].c) /\ Move(w, "lock", mem[w])
       \/ ~AllAccepted(mem[w].c) /\ Done(w)
    /\ UNCHANGED <<clock, active, chain, unlock, late, fails>>

LockChain(w) ==
    /\ pc[w] = "lock"
    /\ SetChain(mem[w].c, Locked(chain[mem[w].c]))
    /\ Done(w)
    /\ late' = [late EXCEPT !.expiry = @ \cup {c \in {mem[w].c} : ExpiringNow(c)}]
    /\ UNCHANGED <<clock, active, unlock, fails>>

-----------------------------------------------------------------------------
(* declineChain by a member, after the sweep, and breakChainByAdmin,       *)
(* without one: of any chain, whatever its status.                         *)

DeclineChain(w) ==
    /\ pc[w] \in {"ready", "idle"}
    /\ \E c \in Chains : Exists(c) /\ Move(w, "break", [Blank EXCEPT !.todo = {c}])
    /\ UNCHANGED <<clock, active, chain, unlock, late, fails>>

(* finalizeInterestConfirmation: the two listings are MATCHED, the         *)
(* released requests rerun, then breakChainsForListings.                   *)
ConfirmInterest(w) ==
    /\ pc[w] = "ready"
    /\ \E i \in Compatible, S \in Swept :
          /\ Owner[i[1]] # Owner[i[2]]
          /\ active' = active \ {i[1], i[2]}
          /\ Move(w, "rerun", [Blank EXCEPT !.rerun = S, !.matched = {i[1], i[2]},
                                            !.back = "conflicts"])
    /\ UNCHANGED <<clock, chain, unlock, late, fails>>

PendingConflicts(L) == {c \in Chains : IsPending(c) /\ c \cap L # {}}    \* slip
ConflictsWith(L) == {c \in Chains : (IsPending(c) \/ IsLocked(c)) /\ c \cap L # {}}

BreakChainsForListings(w) ==
    /\ pc[w] = "conflicts"
    /\ Move(w, "break", [Blank EXCEPT !.todo = ConflictsWith(mem[w].matched)])
    /\ late' = [late EXCEPT !.left = @ \cup
                  {c \in Owed(w) : InHand(c, Proposing)}]
    /\ UNCHANGED <<clock, active, chain, unlock, fails>>

-----------------------------------------------------------------------------
(* requestContactUnlock: two rows, one call each.  approveContactUnlock    *)
(* does not sweep and asks for nothing but the membership; the rows it     *)
(* reads first never change.                                               *)

CanUnlockOpen(c) == IsPending(c) \/ IsLocked(c)    \* slip: before the lock
CanUnlock(c) == IsLocked(c)

RequestContactUnlock(w) ==
    /\ pc[w] = "ready"
    /\ \E c \in Chains : \E l \in c :
          CanUnlock(c) /\ Move(w, "unlock", [Blank EXCEPT !.c = c, !.l = l])
    /\ UNCHANGED <<clock, active, chain, unlock, late, fails>>

FreeRow(u) == unlock[u].chain = Null

(* Bound: with all of Unlocks taken the call fails.                        *)
CreateUnlock(w) ==
    /\ pc[w] = "unlock"
    /\ \/ \E u \in Unlocks :
             /\ FreeRow(u)
             /\ SetUnlock(u, mem[w].c, {})
             /\ Move(w, "approve", [mem[w] EXCEPT !.u = u])
       \/ (\A u \in Unlocks : ~FreeRow(u)) /\ Done(w) /\ UNCHANGED unlock
    /\ UNCHANGED <<clock, active, chain, late, fails>>

ApproveOwnUnlock(w) ==
    /\ pc[w] = "approve"
    /\ SetUnlock(mem[w].u, mem[w].c,
                 unlock[mem[w].u].approvers \cup {Owner[mem[w].l]})
    /\ Done(w)
    /\ UNCHANGED <<clock, active, chain, late, fails>>

ApproveContactUnlock(w) ==
    /\ pc[w] = "idle"
    /\ \E u \in Unlocks :
          /\ unlock[u].chain # Null
          /\ \E user \in Members(unlock[u].chain) :
                SetUnlock(u, unlock[u].chain, unlock[u].approvers \cup {user})
    /\ UNCHANGED <<clock, active, chain, pc, mem, late, fails>>

(* getChainDetail takes any one unlock of the chain, and shows the phones  *)
(* of all members once each of them approved that one.                     *)
ApprovedByAll(u) == Members(unlock[u].chain) \subseteq unlock[u].approvers
ContactsShown(c) == \E u \in Unlocks : unlock[u].chain = c /\ ApprovedByAll(u)

-----------------------------------------------------------------------------
(* Handlers that end after the sweep: reads, and every refusal (4xx).      *)
Return(w) ==
    /\ pc[w] = "ready"
    /\ Done(w)
    /\ UNCHANGED <<clock, active, chain, unlock, late, fails>>

(* A failed query or a killed process: what was written stays.             *)
Fail(p) ==
    /\ pc[p] # "idle" /\ fails < MaxFails
    /\ fails' = fails + 1
    /\ Done(p)
    /\ late' = [late EXCEPT !.left = @ \cup Owed(p)]
    /\ UNCHANGED <<clock, active, chain, unlock>>

(* Module ListingInterests: a listing is created, renewed, closed, matched.*)
ListingOpensOrCloses ==
    /\ \E l \in Restless :
          active' = IF l \in active THEN active \ {l} ELSE active \cup {l}
    /\ UNCHANGED <<clock, chain, unlock, pc, mem, late, fails>>

Tick ==
    /\ clock < MaxClock
    /\ clock' = clock + 1
    /\ UNCHANGED <<active, chain, unlock, pc, mem, late, fails>>

Init ==
    /\ clock = 0
    /\ active = Listings
    /\ chain = [c \in Chains |-> [status |-> "NONE", acceptBy |-> Null, accepted |-> {}]]
    /\ unlock = [u \in Unlocks |-> [chain |-> Null, approvers |-> {}]]
    /\ pc = [p \in Procs |-> "idle"]
    /\ mem = [p \in Procs |-> Blank]
    /\ late = [lock |-> {}, expiry |-> {}, left |-> {}]
    /\ fails = 0

Sweep(p) ==
    \/ ExpireListings(p) \/ ExpirePendingChains(p) \/ ExpireListingInterests(p)
    \/ ReadForBreak(p) \/ BreakChain(p) \/ BreaksDone(p)
    \/ RunForListing(p) \/ RerunDone(p)
    \/ FindExisting(p) \/ FindLocked(p) \/ CreateChain(p)

Handle(w) ==
    \/ RunForUser(w) \/ RerunChainMembersByAdmin(w)
    \/ ReadForAccept(w) \/ AcceptChain(w) \/ CountAccepted(w) \/ LockChain(w)
    \/ DeclineChain(w) \/ ConfirmInterest(w) \/ BreakChainsForListings(w)
    \/ RequestContactUnlock(w) \/ CreateUnlock(w) \/ ApproveOwnUnlock(w)
    \/ ApproveContactUnlock(w)
    \/ Return(w)

Next ==
    \/ \E p \in Procs : Sweep(p) \/ Fail(p)
    \/ \E w \in Workers : Handle(w)
    \/ ListingOpensOrCloses
    \/ Tick

Spec == Init /\ [][Next]_vars

(* A lifecycle tick that can take a step takes it; nothing is assumed of   *)
(* the handlers.                                                           *)
FairSpec == Spec /\ \A t \in Timers : WF_vars(Sweep(t))

-----------------------------------------------------------------------------
(* Properties of every interleaving.                                       *)

(* acceptChain counts the acceptances before it locks by id: a chain is    *)
(* LOCKED only if every member accepted it, whatever ran in between.       *)
LockedByAll == \A c \in Chains : IsLocked(c) => AllAccepted(c)

(* getChainDetail shows phone numbers only in a chain whose members all    *)
(* accepted the swap and that was locked, though it may be broken since,   *)
(* and an unlock row, once there, is of such a chain and approved by       *)
(* members of it only.                                                     *)
ContactsNeedAll ==
    /\ \A u \in Unlocks : unlock[u].chain # Null =>
          /\ AllAccepted(unlock[u].chain)
          /\ IsLocked(unlock[u].chain) \/ IsBroken(unlock[u].chain)
          /\ unlock[u].approvers \subseteq Members(unlock[u].chain)
    /\ \A c \in Chains : ContactsShown(c) => AllAccepted(c) /\ ~IsPending(c)

(* A chain waiting for its members can run out, a LOCKED one cannot.       *)
PendingHasDeadline ==
    \A c \in Chains :
        /\ IsPending(c) => chain[c].acceptBy # Null
        /\ IsLocked(c) => chain[c].acceptBy = Null

(* One chain per set of members, ever: two runs that find the same cycle   *)
(* at once, or a run that finds a broken one again, propose nothing.       *)
ProposedOnce ==
    [][\A c \in Chains : Exists(c) => chain'[c].status # "NONE" /\
          (chain'[c].status = "PENDING" => IsPending(c))]_vars

(* The system's expiry breaks no chain that still has time, nor a LOCKED   *)
(* one: only a member, the administration or a confirmation does.  The     *)
(* exception is the write by id at matching.service.ts:588, which breaks   *)
(* a chain locked after the expiry read it.                                *)
ExpiryBreaksOnlyOverdue ==
    [][\A c \in Chains :
          ~IsBroken(c) /\ chain'[c].status = "BROKEN" =>
              \/ IsPending(c) /\ OutOfTime(c, clock)
              \/ IsLocked(c) /\ c \in late.expiry
              \/ \E w \in Workers : pc[w] = "breakWrite" /\ mem[w].c = c
                                     /\ ~mem[w].expiring]_vars

(* Under the tick's fairness no chain stays PENDING past its deadline.     *)
OverdueChainsEnd ==
    \A c \in Chains :
        (IsPending(c) /\ OutOfTime(c, clock)) ~> ~IsPending(c)

(* The chains are consents, whatever interleaves and dies: proposed once,  *)
(* accepted and locked while pending, locked by everybody's acceptance,    *)
(* and final once broken, except that an acceptance which had read the     *)
(* chain before it was broken may still finish (matching.service.ts:2421). *)
Consents == INSTANCE ChainConsent WITH
    status <- [c \in Chains |-> chain[c].status],
    accepted <- [c \in Chains |-> chain[c].accepted],
    late <- late.lock
ChainsConsented == Consents!Spec

(* A chain that is waiting for, or locked on, a listing that has been      *)
(* matched is about to be broken by the handler that matched it.  It stays *)
(* only if a run was about to propose it when that handler looked, if that *)
(* handler died, or if it was locked late.  (Restless listings close for   *)
(* other reasons.)                                                         *)
MatchedLeavesChains ==
    \A c \in Chains : IsPending(c) \/ IsLocked(c) =>
        \/ c \ Restless \subseteq active
        \/ \E w \in Workers : c \in Owed(w)
        \/ c \in late.left \cup late.lock

-----------------------------------------------------------------------------
(* What a message of the code says and the code does not keep.             *)

(* matching.service.ts:1362: a listing is locked in one chain.             *)
OneLockPerListing ==
    \A c, d \in Chains : IsLocked(c) /\ IsLocked(d) /\ c # d => c \cap d = {}
=============================================================================
