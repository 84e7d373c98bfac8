-------------------------- MODULE ListingInterests --------------------------
(***************************************************************************)
(* Listings and the requests ("interests") between them, as kept in the    *)
(* tables SwapListing and ListingInterest and changed by MatchingService   *)
(* and ListingsService.                                                    *)
(*                                                                         *)
(* A request handler is a Worker; the 60 s lifecycle tick is a Timer.      *)
(* Each awaited database call is one step, so any two of these processes   *)
(* interleave between two calls of one handler.  A handler first sweeps,   *)
(* then ("ready") does the one operation it was called for; which one is   *)
(* chosen there, because the sweep does not depend on it.                  *)
(***************************************************************************)
EXTENDS Sweeps

CONSTANTS
    Listings,           \* rows of SwapListing that may come to exist
    Owner,              \* Owner[l]: the user a listing belongs to
    Compatible,         \* <<t, r>>: r's wishes fit t (isEdgeCompatible)
    Seeded,             \* the listings that are ACTIVE at the start
    Chains,             \* member sets of the swap chains that may break
    Workers, Timers,    \* request handlers in flight, lifecycle ticks
    ListingTtl, InterestTtl,                    \* in clock units
    DayLength,                                  \* of a UTC day
    ListingSweepLimit, InterestSweepLimit,      \* "take" of the sweeps
    MaxOpen, MaxDaily,                          \* caps per requester
    MaxClock,           \* bound: the clock stops there
    MaxFails            \* bound: handlers that die half-way

ASSUME ProcessesDisjoint == Workers \cap Timers = {}
ASSUME ListingsAssumption ==
    /\ IsFiniteSet(Listings)
    /\ Seeded \subseteq Listings
    /\ Compatible \subseteq Listings \X Listings
    /\ Chains \subseteq SUBSET Listings
    /\ DOMAIN Owner = Listings
ASSUME NumbersAssumption ==
    /\ ListingTtl \in Nat \ {0} /\ InterestTtl \in Nat \ {0}
    /\ DayLength \in Nat \ {0}
    /\ MaxOpen \in Nat \ {0} /\ MaxDaily \in Nat \ {0}
    /\ MaxClock \in Nat /\ MaxFails \in Nat
ASSUME NullAssumption ==
    Null \notin Listings /\ Null \notin Listings \X Listings

Procs == Workers \cup Timers

(* A request is its unique key (listingId, requesterListingId).            *)
Interests == {i \in Compatible : Owner[i[1]] # Owner[i[2]]}
Target(i) == i[1]
Requester(i) == i[2]

OPEN_INTEREST_STATUSES == {"REQUESTED", "CONTACT_APPROVED"}
ListingStatus == {"NONE", "ACTIVE", "MATCHED", "CLOSED"}
InterestStatus == OPEN_INTEREST_STATUSES \cup
    {"NONE", "DECLINED", "RELEASED", "EXPIRED", "CONFIRMED_RENTER"}

VARIABLES
    clock,      \* Date.now()
    listing,    \* [status, expiresAt, matched]
    interest,   \* [status, expiresAt, createdAt: the start of that day]
    pc,         \* what each process does next
    mem,        \* what each process has read
    agreed,     \* history: requests whose owner approved or confirmed them
    late,       \* history: listings matched while a renewal had read them
    fails       \* handlers that died so far

vars == <<clock, listing, interest, pc, mem, agreed, late, fails>>

Labels == {"idle", "close", "stale", "release", "findInterests",
           "expire", "ready", "rerun", "rerunClose", "openCap", "dailyCap",
           "requesterListing", "upsert", "approve", "decline", "txTarget",
           "txRequester", "txCommit", "renew"}

(* mem[p]: the time a query was made at, the overdue listings still to     *)
(* close, the listing and the request at hand, request rows read, listings *)
(* to rerun, and where to go on after the reruns.                          *)
Blank == [now |-> 0, due |-> {}, l |-> Null, i |-> Null, rows |-> {},
          rerun |-> {}, back |-> "idle"]

Mems == [now : Int, due : SUBSET Listings, l : Listings \cup {Null},
         i : Interests \cup {Null}, rows : SUBSET Interests,
         rerun : SUBSET Listings,
         back : {"idle", "close", "findInterests", "expire"}]

Deadlines == Int \cup {Null}
ListingRows == [status : ListingStatus, expiresAt : Deadlines,
                matched : Interests \cup {Null}]
InterestRows == [status : InterestStatus, expiresAt : Deadlines, createdAt : Int]

(* Where a process has a request, or a listing, at hand.                   *)
AtInterest == {"openCap", "dailyCap", "requesterListing", "upsert", "approve",
               "decline", "txTarget", "txRequester", "txCommit"}
AtListing == {"stale", "release", "rerunClose", "renew"}

ControlOK ==
    /\ pc \in [Procs -> Labels]
    /\ mem \in [Procs -> Mems]
    /\ \A p \in Procs :
          /\ pc[p] \in AtInterest => mem[p].i \in Interests
          /\ pc[p] \in AtListing => mem[p].l \in Listings

TypeOK ==
    /\ clock \in Int
    /\ listing \in [Listings -> ListingRows]
    /\ interest \in [Interests -> InterestRows]
    /\ ControlOK
    /\ agreed \subseteq Interests
    /\ late \subseteq Listings
    /\ fails \in Nat

-----------------------------------------------------------------------------
(* What the queries select.                                                *)

IsActive(l) == listing[l].status = "ACTIVE"
IsOpen(i) == interest[i].status \in OPEN_INTEREST_STATUSES

(* status ACTIVE and expiresAt null or not before t.                       *)
Live(l, t) == IsActive(l) /\ ~Overdue(listing[l], t)

OverdueListings(t) == {l \in Listings : IsActive(l) /\ Overdue(listing[l], t)}
OverdueUnanswered(t) ==    \* slip: approved requests forgotten
    {i \in Interests : interest[i].status = "REQUESTED" /\ Overdue(interest[i], t)}
OverdueInterests(t) == {i \in Interests : IsOpen(i) /\ Overdue(interest[i], t)}

StartOfDay(t) == t - (t % DayLength)
OpenCount(user) ==
    Cardinality({i \in Interests : Owner[Requester(i)] = user /\ IsOpen(i)})
DailyCount(user) ==
    Cardinality({i \in Interests : /\ Owner[Requester(i)] = user
                                   /\ interest[i].status # "NONE"
                                   /\ interest[i].createdAt >= StartOfDay(clock)})

-----------------------------------------------------------------------------
(* What the updates write.                                                 *)

ListingDeadline == clock + ListingTtl
InterestDeadline == clock + InterestTtl

(* Slip: a close that writes its reason as the status.                     *)
ClosedAsExpired(row) ==
    [status |-> "EXPIRED", expiresAt |-> Null, matched |-> row.matched]

Activated(row) == [status |-> "ACTIVE", expiresAt |-> ListingDeadline,
                   matched |-> row.matched]
Closed(row) == [status |-> "CLOSED", expiresAt |-> Null, matched |-> row.matched]
Matched(i) == [status |-> "MATCHED", expiresAt |-> Null, matched |-> i]

(* An update of the status alone, and one that also clears the deadline.   *)
Answered(row, status) == [row EXCEPT !.status = status]
Ended(row, status) == [status |-> status, expiresAt |-> Null,
                       createdAt |-> row.createdAt]

SetListing(l, row) == listing' = [listing EXCEPT ![l] = row]
SetInterest(i, row) == interest' = [interest EXCEPT ![i] = row]

Keep(p, m) == mem' = [mem EXCEPT ![p] = m] /\ UNCHANGED pc
Move(p, label, m) ==
    /\ pc' = [pc EXCEPT ![p] = label]
    /\ mem' = [mem EXCEPT ![p] = m]
Done(p) == Move(p, "idle", Blank)

-----------------------------------------------------------------------------
(* sweepLifecycle, the beginning of every handler but those of             *)
(* ListingsService, and the whole of a lifecycle tick.                     *)

ExpireListings(p) ==
    /\ pc[p] = "idle"
    /\ \E B \in Oldest(OverdueListings(clock), listing, ListingSweepLimit) :
          Move(p, "close", [Blank EXCEPT !.now = clock, !.due = B])
    /\ UNCHANGED <<clock, listing, interest, agreed, late, fails>>

StillActive(l, t) == IsActive(l)    \* slip: not whether still overdue
StillOverdue(l, t) == IsActive(l) /\ Overdue(listing[l], t)

CloseExpired(p) ==
    /\ pc[p] = "close"
    /\ \E l \in mem[p].due :
          \/ /\ StillOverdue(l, mem[p].now)
             /\ SetListing(l, Closed(listing[l]))
             /\ Move(p, "stale", [mem[p] EXCEPT !.due = @ \ {l}, !.l = l])
          \/ /\ ~StillOverdue(l, mem[p].now)
             /\ Keep(p, [mem[p] EXCEPT !.due = @ \ {l}])
             /\ UNCHANGED listing
    /\ UNCHANGED <<clock, interest, agreed, late, fails>>

OpenTouching(l) == {i \in Interests : IsOpen(i) /\ l \in {Target(i), Requester(i)}}

FindStaleInterests(p) ==
    /\ pc[p] = "stale"
    /\ \/ /\ OpenTouching(mem[p].l) = {}
          /\ Move(p, "close", [mem[p] EXCEPT !.l = Null])
       \/ /\ OpenTouching(mem[p].l) # {}
          /\ Move(p, "release", [mem[p] EXCEPT !.rows = OpenTouching(mem[p].l)])
    /\ UNCHANGED <<clock, listing, interest, agreed, late, fails>>

AsRead(S) == S    \* slip: no longer whether open
StillOpen(S) == {i \in S : IsOpen(i)}

ReleaseStale(p) ==
    /\ pc[p] = "release"
    /\ interest' = [i \in Interests |->
          IF i \in StillOpen(mem[p].rows) THEN Ended(interest[i], "EXPIRED")
                                         ELSE interest[i]]
    /\ Move(p, "rerun",
            [mem[p] EXCEPT !.rerun = {Requester(i) : i \in mem[p].rows} \ {mem[p].l},
                           !.rows = {}, !.l = Null, !.back = "close"])
    /\ UNCHANGED <<clock, listing, agreed, late, fails>>

(* expirePendingChains breaks overdue chains (module SwapChains), some of  *)
(* Chains here, and reruns the listings of their members.                  *)
ExpirePendingChains(p) ==
    /\ pc[p] = "close" /\ mem[p].due = {}
    /\ \E broken \in SUBSET Chains :
          \/ broken = {} /\ Move(p, "findInterests", Blank)
          \/ /\ broken # {}
             /\ Move(p, "rerun", [Blank EXCEPT !.rerun = UNION broken,
                                               !.back = "findInterests"])
    /\ UNCHANGED <<clock, listing, interest, agreed, late, fails>>

ExpireListingInterests(p) ==
    /\ pc[p] = "findInterests"
    /\ \E B \in Oldest(OverdueInterests(clock), interest, InterestSweepLimit) :
          Move(p, "expire", [Blank EXCEPT !.rows = B])
    /\ UNCHANGED <<clock, listing, interest, agreed, late, fails>>

Unasked(i) == TRUE    \* slip: the update asks nothing

(* The update asks again whether the request is open, not whether it is    *)
(* still overdue, and leaves expiresAt in place.                           *)
StillExpirable(i) == IsOpen(i)

ExpireInterest(p) ==
    /\ pc[p] = "expire"
    /\ \E i \in mem[p].rows :
          \/ /\ StillExpirable(i)
             /\ SetInterest(i, Answered(interest[i], "EXPIRED"))
             /\ Move(p, "rerun", [mem[p] EXCEPT !.rows = @ \ {i},
                                   !.rerun = {Requester(i)}, !.back = "expire"])
          \/ /\ ~StillExpirable(i)
             /\ Keep(p, [mem[p] EXCEPT !.rows = @ \ {i}])
             /\ UNCHANGED interest
    /\ UNCHANGED <<clock, listing, agreed, late, fails>>

InterestsSwept(p) ==
    /\ pc[p] = "expire" /\ mem[p].rows = {}
    /\ Move(p, IF p \in Workers THEN "ready" ELSE "idle", Blank)
    /\ UNCHANGED <<clock, listing, interest, agreed, late, fails>>

-----------------------------------------------------------------------------
(* runForListing.  Of the matching itself only the part that writes        *)
(* SwapListing is here: a listing found overdue is closed at once.         *)

RunForListing(w) ==
    /\ pc[w] = "ready"
    /\ \E l \in Listings : Move(w, "rerun", [Blank EXCEPT !.rerun = {l}])
    /\ UNCHANGED <<clock, listing, interest, agreed, late, fails>>

(* rerunListingsForMembers after a chain is broken by a member, by the     *)
(* administration or by a confirmation: not all of these sweep first.      *)
RerunListingsForMembers(w) ==
    /\ pc[w] \in {"idle", "ready"}
    /\ \E broken \in Chains : Move(w, "rerun", [Blank EXCEPT !.rerun = broken])
    /\ UNCHANGED <<clock, listing, interest, agreed, late, fails>>

(* An error of one rerun, among them "not ACTIVE", skips that listing.     *)
RerunRead(p) ==
    /\ pc[p] = "rerun"
    /\ \E l \in mem[p].rerun :
          \/ /\ l \in OverdueListings(clock)
             /\ Move(p, "rerunClose", [mem[p] EXCEPT !.rerun = @ \ {l}, !.l = l])
          \/ Keep(p, [mem[p] EXCEPT !.rerun = @ \ {l}])
    /\ UNCHANGED <<clock, listing, interest, agreed, late, fails>>

(* The update asks again for ACTIVE, not for an overdue listing.           *)
RerunClosesAny(l) == listing[l].status # "NONE"    \* slip: an update by id
RerunCloses(l) == IsActive(l)

RerunClose(p) ==
    /\ pc[p] = "rerunClose"
    /\ \/ /\ RerunCloses(mem[p].l)
          /\ SetListing(mem[p].l, Closed(listing[mem[p].l]))
       \/ ~RerunCloses(mem[p].l) /\ UNCHANGED listing
    /\ Move(p, "rerun", [mem[p] EXCEPT !.l = Null])
    /\ UNCHANGED <<clock, interest, agreed, late, fails>>

RerunDone(p) ==
    /\ pc[p] = "rerun" /\ mem[p].rerun = {}
    /\ Move(p, mem[p].back, [mem[p] EXCEPT !.back = "idle"])
    /\ UNCHANGED <<clock, listing, interest, agreed, late, fails>>

-----------------------------------------------------------------------------
(* requestInterest                                                         *)

RequestInterest(w) ==
    /\ pc[w] = "ready"
    /\ \E i \in Interests :
          /\ Live(Target(i), clock)
          /\ Move(w, "openCap", [Blank EXCEPT !.i = i, !.now = clock])
    /\ UNCHANGED <<clock, listing, interest, agreed, late, fails>>

Asking(w) == Owner[Requester(mem[w].i)]

UpToDailyCap(user) == DailyCount(user) <= MaxDaily    \* slips: one too many
WithinOpenCap(user) == OpenCount(user) < MaxOpen
WithinDailyCap(user) == DailyCount(user) < MaxDaily

CheckOpenCap(w) ==
    /\ pc[w] = "openCap"
    /\ \/ WithinOpenCap(Asking(w)) /\ Move(w, "dailyCap", mem[w])
       \/ ~WithinOpenCap(Asking(w)) /\ Done(w)
    /\ UNCHANGED <<clock, listing, interest, agreed, late, fails>>

CheckDailyCap(w) ==
    /\ pc[w] = "dailyCap"
    /\ \/ WithinDailyCap(Asking(w)) /\ Move(w, "requesterListing", mem[w])
       \/ ~WithinDailyCap(Asking(w)) /\ Done(w)
    /\ UNCHANGED <<clock, listing, interest, agreed, late, fails>>

FindRequesterListing(w) ==
    /\ pc[w] = "requesterListing"
    /\ \/ /\ Live(Requester(mem[w].i), mem[w].now)
          /\ Move(w, "upsert", [Blank EXCEPT !.i = mem[w].i])
       \/ ~Live(Requester(mem[w].i), mem[w].now) /\ Done(w)
    /\ UNCHANGED <<clock, listing, interest, agreed, late, fails>>

(* An existing row goes back to REQUESTED whatever became of it since, and *)
(* keeps its createdAt.                                                    *)
Requested(row) ==
    [status |-> "REQUESTED", expiresAt |-> InterestDeadline,
     createdAt |-> IF row.status = "NONE" THEN StartOfDay(clock) ELSE row.createdAt]

UpsertInterest(w) ==
    /\ pc[w] = "upsert"
    /\ SetInterest(mem[w].i, Requested(interest[mem[w].i]))
    /\ Done(w)
    /\ UNCHANGED <<clock, listing, agreed, late, fails>>

-----------------------------------------------------------------------------
(* approveInterest and declineInterest: a read, then an update by id.      *)

CanApprove(i) == interest[i].status = "REQUESTED"
CanDecline(i) == IsOpen(i)

ReadForApproval(w) ==
    /\ pc[w] = "ready"
    /\ \E i \in Interests :
          /\ CanApprove(i)
          /\ Move(w, "approve", [Blank EXCEPT !.i = i])
          /\ agreed' = agreed \cup {i}
    /\ UNCHANGED <<clock, listing, interest, late, fails>>

ApproveInterest(w) ==
    /\ pc[w] = "approve"
    /\ SetInterest(mem[w].i, Answered(interest[mem[w].i], "CONTACT_APPROVED"))
    /\ Done(w)
    /\ UNCHANGED <<clock, listing, agreed, late, fails>>

ReadForDecline(w) ==
    /\ pc[w] = "ready"
    /\ \E i \in Interests :
          CanDecline(i) /\ Move(w, "decline", [Blank EXCEPT !.i = i])
    /\ UNCHANGED <<clock, listing, interest, agreed, late, fails>>

DeclineInterest(w) ==
    /\ pc[w] = "decline"
    /\ SetInterest(mem[w].i, Answered(interest[mem[w].i], "DECLINED"))
    /\ Done(w)
    /\ UNCHANGED <<clock, listing, agreed, late, fails>>

-----------------------------------------------------------------------------
(* confirmRenter (by the owner) and confirmTakenByRequester, then          *)
(* finalizeInterestConfirmation: a READ COMMITTED transaction whose two    *)
(* queries and final commit are separate steps.                            *)

CanConfirmAny(i) == interest[i].status # "NONE"    \* slip: ended requests too
CanTakeOpen(i) == IsOpen(i)                        \* slip: before the approval
CanConfirm(i) == IsOpen(i)
CanTake(i) == interest[i].status = "CONTACT_APPROVED"

ConfirmRenter(w) ==
    /\ pc[w] = "ready"
    /\ \E i \in Interests :
          /\ CanConfirm(i)
          /\ Move(w, "txTarget", [Blank EXCEPT !.i = i])
          /\ agreed' = agreed \cup {i}
    /\ UNCHANGED <<clock, listing, interest, late, fails>>

ConfirmTakenByRequester(w) ==
    /\ pc[w] = "ready"
    /\ \E i \in Interests :
          CanTake(i) /\ Move(w, "txTarget", [Blank EXCEPT !.i = i])
    /\ UNCHANGED <<clock, listing, interest, agreed, late, fails>>

NoRivals(i) == {}    \* slip: a side forgotten
RivalsOnTarget(i) ==
    {j \in Interests : Target(j) = Target(i) /\ j # i /\ IsOpen(j)}
RivalsOnRequester(i) ==
    {j \in Interests : Requester(j) = Requester(i) /\ j # i /\ IsOpen(j)}

TxTarget(w) ==
    /\ pc[w] = "txTarget"
    /\ Move(w, "txRequester", [mem[w] EXCEPT !.rows = RivalsOnTarget(mem[w].i)])
    /\ UNCHANGED <<clock, listing, interest, agreed, late, fails>>

TxRequester(w) ==
    /\ pc[w] = "txRequester"
    /\ Move(w, "txCommit", [mem[w] EXCEPT !.rows = @ \cup RivalsOnRequester(mem[w].i)])
    /\ UNCHANGED <<clock, listing, interest, agreed, late, fails>>

MatchedBy(i) == {Target(i), Requester(i)}

BeingRenewed(l) == \E v \in Workers : pc[v] = "renew" /\ mem[v].l = l

(* The rows read as rivals never hold the confirmed one.                   *)
TxCommit(w) ==
    /\ pc[w] = "txCommit"
    /\ LET i == mem[w].i IN
          /\ interest' = [j \in Interests |->
                CASE j = i -> Ended(interest[j], "CONFIRMED_RENTER")
                  [] j # i /\ j \in mem[w].rows -> Ended(interest[j], "RELEASED")
                  [] OTHER -> interest[j]]
          /\ listing' = [l \in Listings |->
                IF l \in MatchedBy(i) THEN Matched(i) ELSE listing[l]]
          /\ late' = late \cup {l \in MatchedBy(i) : BeingRenewed(l)}
    /\ Move(w, "rerun", [Blank EXCEPT !.rerun = {Requester(j) : j \in mem[w].rows}])
    /\ UNCHANGED <<clock, agreed, fails>>

-----------------------------------------------------------------------------
(* ListingsService, which does not sweep.                                  *)

CreateListing(w) ==
    /\ pc[w] = "idle"
    /\ \E l \in Listings :
          /\ listing[l].status = "NONE"
          /\ SetListing(l, Activated(listing[l]))
    /\ UNCHANGED <<clock, interest, pc, mem, agreed, late, fails>>

RenewableAny(l) == listing[l].status # "NONE"    \* slip: MATCHED too
Renewable(l) == listing[l].status \notin {"NONE", "MATCHED"}

ReadForRenewal(w) ==
    /\ pc[w] = "idle"
    /\ \E l \in Listings :
          Renewable(l) /\ Move(w, "renew", [Blank EXCEPT !.l = l])
    /\ UNCHANGED <<clock, listing, interest, agreed, late, fails>>

RenewListing(w) ==
    /\ pc[w] = "renew"
    /\ SetListing(mem[w].l, Activated(listing[mem[w].l]))
    /\ Done(w)
    /\ UNCHANGED <<clock, interest, agreed, late, fails>>

-----------------------------------------------------------------------------
(* Handlers that end after the sweep: reads, and every refusal (4xx).      *)
Return(w) ==
    /\ pc[w] = "ready"
    /\ Done(w)
    /\ UNCHANGED <<clock, listing, interest, agreed, late, fails>>

(* A failed query, an aborted transaction or a killed process: what was    *)
(* written stays, the rest of the handler does not happen.                 *)
Fail(p) ==
    /\ pc[p] # "idle" /\ fails < MaxFails
    /\ fails' = fails + 1
    /\ Done(p)
    /\ UNCHANGED <<clock, listing, interest, agreed, late>>

Tick ==
    /\ clock < MaxClock
    /\ clock' = clock + 1
    /\ UNCHANGED <<listing, interest, pc, mem, agreed, late, fails>>

Init ==
    /\ clock = 0
    /\ listing = [l \in Listings |->
          IF l \in Seeded
          THEN [status |-> "ACTIVE", expiresAt |-> ListingTtl, matched |-> Null]
          ELSE [status |-> "NONE", expiresAt |-> Null, matched |-> Null]]
    /\ interest = [i \in Interests |->
          [status |-> "NONE", expiresAt |-> Null, createdAt |-> 0]]
    /\ pc = [p \in Procs |-> "idle"]
    /\ mem = [p \in Procs |-> Blank]
    /\ agreed = {}
    /\ late = {}
    /\ fails = 0

Sweep(p) ==
    \/ ExpireListings(p) \/ CloseExpired(p) \/ FindStaleInterests(p)
    \/ ReleaseStale(p) \/ ExpirePendingChains(p)
    \/ ExpireListingInterests(p) \/ ExpireInterest(p) \/ InterestsSwept(p)
    \/ RerunRead(p) \/ RerunClose(p) \/ RerunDone(p)

Handle(w) ==
    \/ RunForListing(w) \/ RerunListingsForMembers(w)
    \/ RequestInterest(w) \/ CheckOpenCap(w) \/ CheckDailyCap(w)
    \/ FindRequesterListing(w) \/ UpsertInterest(w)
    \/ ReadForApproval(w) \/ ApproveInterest(w)
    \/ ReadForDecline(w) \/ DeclineInterest(w)
    \/ ConfirmRenter(w) \/ ConfirmTakenByRequester(w)
    \/ TxTarget(w) \/ TxRequester(w) \/ TxCommit(w)
    \/ CreateListing(w) \/ ReadForRenewal(w) \/ RenewListing(w)
    \/ Return(w)

Next ==
    \/ \E p \in Procs : Sweep(p) \/ Fail(p)
    \/ \E w \in Workers : Handle(w)
    \/ Tick

Spec == Init /\ [][Next]_vars

(* Node runs an interval callback to its end and calls it again: a tick    *)
(* that can take a step takes it.  Nothing is assumed of the handlers.     *)
FairSpec == Spec /\ \A t \in Timers : WF_vars(Sweep(t))

-----------------------------------------------------------------------------
(* Properties of every interleaving.                                       *)

(* Whatever is active or waiting for an answer can run out: an ACTIVE      *)
(* listing always has a deadline, no other listing has one, and neither    *)
(* has a REQUESTED request without one.  The seven updates that write      *)
(* status and expiresAt agree on this although any two of them race.       *)
Deadlined ==
    /\ \A l \in Listings : IsActive(l) <=> listing[l].expiresAt # Null
    /\ \A i \in Interests :
          interest[i].status = "REQUESTED" => interest[i].expiresAt # Null

(* Once a request has matched its two listings, both stay MATCHED, by it   *)
(* or by a later confirmation: no sweep, rerun, second confirmation or     *)
(* renewal undoes a side.  The only way a match loses one is a renewal     *)
(* (listings.service.ts:68, by id) that had read the listing before the    *)
(* confirmation committed.                                                 *)
Parties(i) == {Target(i), Requester(i)}
BothSidesMatched ==
    \A l \in Listings : listing[l].matched # Null =>
        \A m \in Parties(listing[l].matched) :
            \/ m \in late
            \/ listing[m].status = "MATCHED" /\ m \in Parties(listing[m].matched)

(* getOutgoingInterests shows the owner's phone for CONTACT_APPROVED and   *)
(* CONFIRMED_RENTER: no such request is without a consent of the owner,    *)
(* however late the update that wrote it.                                  *)
ContactNeedsOwner ==
    \A i \in Interests :
        interest[i].status \in {"CONTACT_APPROVED", "CONFIRMED_RENTER"}
            => i \in agreed

(* Expiry, of a request or of a listing it touches, ends open requests     *)
(* only: it never undoes an answer or a confirmation that came first.      *)
ExpiryEndsOnlyOpen ==
    [][\A i \in Interests :
          interest'[i].status = "EXPIRED" =>
              interest[i].status \in OPEN_INTEREST_STATUSES \cup {"EXPIRED"}]_vars

(* A sweep closes a listing only while it is ACTIVE and overdue, though    *)
(* it was selected earlier: one renewed or matched in between is left      *)
(* alone.  Only the rerun's own update may close a listing not overdue.    *)
SweepClosesOnlyOverdue ==
    [][\A l \in Listings :
          listing'[l].status = "CLOSED" /\ listing[l].status # "CLOSED" =>
              /\ IsActive(l)
              /\ \/ Overdue(listing[l], clock)
                 \/ \E p \in Procs : pc[p] = "rerunClose" /\ mem[p].l = l]_vars

(* Under the tick's fairness no request stays open past its deadline, with *)
(* sweeps that take a limited batch, other sweeps racing them, and         *)
(* handlers that reopen what was expired.                                  *)
OverdueRequestsEnd ==
    \A i \in Interests :
        (IsOpen(i) /\ Overdue(interest[i], clock))
            ~> ~(IsOpen(i) /\ Overdue(interest[i], clock))

-----------------------------------------------------------------------------
(* Properties of one handler at a time, ticks running beside it.           *)

(* A MATCHED listing's match is a confirmed one.                           *)
MatchSettled ==
    \A l \in Listings : listing[l].status = "MATCHED" =>
        interest[listing[l].matched].status = "CONFIRMED_RENTER"

(* Once a request is confirmed, nobody waits any more for that apartment,  *)
(* nor does the tenant who takes it wait for another.                      *)
RivalsReleased ==
    \A i, j \in Interests :
        interest[i].status = "CONFIRMED_RENTER" /\ IsOpen(j) /\ j # i =>
            Target(i) # Target(j) /\ Requester(i) # Requester(j)

(* No tenant makes more new requests in a day than the cap.                *)
DailyWithinCap == \A l \in Listings : DailyCount(Owner[l]) <= MaxDaily

(* docs/api/frontend-integration.md:67: renewing, or anything else, does   *)
(* not reactivate a MATCHED listing.                                       *)
MatchedStays ==
    [][\A l \in Listings :
          listing[l].status = "MATCHED" => listing'[l].status = "MATCHED"]_vars

(* The confirmed requests are a registry of exclusive rentings.            *)
Renting == INSTANCE ExclusiveRenting WITH
    renters <- {i \in Interests : interest[i].status = "CONFIRMED_RENTER"}
ExclusiveRentings == Renting!Spec

-----------------------------------------------------------------------------
(* What the documentation says and two handlers at once do not keep.       *)

(* docs/api/frontend-integration.md:36: the owner confirms one renter.     *)
OneRenter ==
    \A i, j \in Interests :
        /\ interest[i].status = "CONFIRMED_RENTER"
        /\ interest[j].status = "CONFIRMED_RENTER"
        /\ Target(i) = Target(j)
        => i = j
=============================================================================
