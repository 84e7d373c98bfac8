---------------------------- MODULE Reliability ----------------------------
(***************************************************************************)
(* The reliability columns of User, as changed by ReliabilityService and   *)
(* read by ReliabilityGuard, and the rows of ReliabilityEvent.             *)
(*                                                                         *)
(* A Worker is a request in flight.  Every penalty reads the row, computes *)
(* and writes the columns back by id, then appends its event: three calls, *)
(* between which any other handler may run.                                *)
(***************************************************************************)
EXTENDS Integers, FiniteSets

CONSTANTS
    Users,              \* users of role USER; the guard lets an ADMIN pass
    Workers,            \* request handlers in flight
    CancelPenalty, NoShowPenalty,       \* points
    ManualPenalties,                    \* points an admin may take
    CooldownAfter, CooldownHours,       \* cancellations, clock units
    BlockAfter, BlockHours,             \* no-shows, clock units
    ManualHours,                        \* hours an admin may give
    Null,               \* SQL NULL, or an optional field left out
    MaxClock,           \* bound: the clock stops there
    MaxCalls,           \* bound: penalties and unblocks
    MaxFails            \* bound: handlers that die half-way

ASSUME NullNotATime == Null \notin Int
ASSUME PenaltiesAssumption ==
    /\ CancelPenalty \in Nat \ {0} /\ NoShowPenalty \in Nat \ {0}
    /\ ManualPenalties \subseteq Nat \ {0}
ASSUME HoursAssumption ==
    /\ CooldownHours \in Nat \ {0} /\ BlockHours \in Nat \ {0}
    /\ ManualHours \subseteq Nat \ {0}
    /\ CooldownAfter \in Nat \ {0} /\ BlockAfter \in Nat \ {0}
ASSUME BoundsAssumption ==
    MaxClock \in Nat /\ MaxCalls \in Nat /\ MaxFails \in Nat

VARIABLES
    clock,      \* Date.now()
    user,       \* [score, cancellations, noShows, cooldownUntil, blockedUntil]
    events,     \* ReliabilityEvent rows of a user, added up
    pc,         \* what each handler does next
    mem,        \* [u, call, row: the columns read, points, cooldown, block]
    charged,    \* history: the penalties written, added up
    crossed,    \* history: users two of whose calls were in flight at once
    calls,      \* penalties and unblocks so far
    fails       \* handlers that died so far

vars == <<clock, user, events, pc, mem, charged, crossed, calls, fails>>

Times == Int \cup {Null}
UserRows == [score : Int, cancellations : Nat, noShows : Nat,
             cooldownUntil : Times, blockedUntil : Times]
Totals == [points : Nat, cancellations : Nat, noShows : Nat]
Calls == {"CANCELLATION", "NO_SHOW", "MANUAL_PENALTY", "MANUAL_UNBLOCK"}

Registered == [score |-> 100, cancellations |-> 0, noShows |-> 0,
               cooldownUntil |-> Null, blockedUntil |-> Null]
Nothing == [points |-> 0, cancellations |-> 0, noShows |-> 0]
Blank == [u |-> Null, call |-> "CANCELLATION", row |-> Registered,
          points |-> 0, cooldown |-> Null, block |-> Null]

TypeOK ==
    /\ clock \in Nat
    /\ user \in [Users -> UserRows]
    /\ \A u \in Users : user[u].score \in 0 .. 100
    /\ events \in [Users -> Totals]
    /\ charged \in [Users -> Totals]
    /\ pc \in [Workers -> {"idle", "admitted", "update", "append"}]
    /\ mem \in [Workers -> [u : Users \cup {Null}, call : Calls, row : UserRows,
                            points : Nat, cooldown : ManualHours \cup {Null},
                            block : ManualHours \cup {Null}]]
    /\ \A w \in Workers : pc[w] # "idle" => mem[w].u \in Users
    /\ crossed \subseteq Users
    /\ calls \in Nat /\ fails \in Nat

-----------------------------------------------------------------------------
(* What the service computes.                                              *)

Unclamped(next) == next    \* slip
NormalizeScore(next) == IF next < 0 THEN 0 ELSE IF next > 100 THEN 100 ELSE next

InForce(until) == until # Null /\ until > clock

CooldownOnly(u) == InForce(user[u].cooldownUntil)    \* slip: blocks forgotten
Restricted(u) == InForce(user[u].blockedUntil) \/ InForce(user[u].cooldownUntil)

(* A restriction is extended by an automatic penalty, never cut short.     *)
Restarted(until, hours) == clock + hours    \* slip: the longer one forgotten
Stacked(until, hours) ==                    \* slip: added to the one in force
    IF until = Null THEN clock + hours ELSE until + hours
Extended(until, hours) ==
    IF until = Null \/ until < clock + hours THEN clock + hours ELSE until

(* The columns that each update sets, from the row read; the others stay.  *)
WithCancellation(row, read) ==
    [row EXCEPT
        !.score = NormalizeScore(read.score - CancelPenalty),
        !.cancellations = read.cancellations + 1,
        !.cooldownUntil = IF read.cancellations + 1 >= CooldownAfter
                          THEN Extended(read.cooldownUntil, CooldownHours)
                          ELSE read.cooldownUntil]

WithNoShow(row, read) ==
    [row EXCEPT
        !.score = NormalizeScore(read.score - NoShowPenalty),
        !.noShows = read.noShows + 1,
        !.blockedUntil = IF read.noShows + 1 >= BlockAfter
                         THEN Extended(read.blockedUntil, BlockHours)
                         ELSE read.blockedUntil]

WithManualTwice(row, m) ==    \* slip: the points taken twice
    [row EXCEPT !.score = NormalizeScore(m.row.score - 2 * m.points)]
WithManualPenalty(row, m) ==
    [row EXCEPT
        !.score = NormalizeScore(m.row.score - m.points),
        !.cooldownUntil = IF m.cooldown # Null THEN clock + m.cooldown
                                               ELSE m.row.cooldownUntil,
        !.blockedUntil = IF m.block # Null THEN clock + m.block
                                           ELSE m.row.blockedUntil]

WithoutRestrictions(row) == [row EXCEPT !.cooldownUntil = Null, !.blockedUntil = Null]

(* What a call adds to the totals.                                         *)
Added(totals, m) ==
    [points |-> totals.points + m.points,
     cancellations |-> totals.cancellations + IF m.call = "CANCELLATION" THEN 1 ELSE 0,
     noShows |-> totals.noShows + IF m.call = "NO_SHOW" THEN 1 ELSE 0]

-----------------------------------------------------------------------------
Move(w, label, m) ==
    /\ pc' = [pc EXCEPT ![w] = label]
    /\ mem' = [mem EXCEPT ![w] = m]
Done(w) == Move(w, "idle", Blank)

InFlight(u) == {w \in Workers : pc[w] # "idle" /\ mem[w].u = u}

(* A call for u begins: the history notes whether it is the only one.      *)
Begins(u) ==
    crossed' = IF InFlight(u) = {} THEN crossed ELSE crossed \cup {u}

Counted == calls < MaxCalls /\ calls' = calls + 1

(* canActivate of the guard, in front of the listing and matching routes.  *)
CanActivate(w) ==
    /\ pc[w] = "idle"
    /\ \E u \in Users :
          /\ ~Restricted(u)
          /\ Begins(u)
          /\ Move(w, "admitted", [Blank EXCEPT !.u = u])
    /\ UNCHANGED <<clock, user, events, charged, calls, fails>>

(* The guard throws: 403 for a blocked user, 429 for one in cooldown.      *)
Refuse(w) ==
    /\ pc[w] = "idle"
    /\ \E u \in Users : Restricted(u)
    /\ UNCHANGED vars

(* An admitted request that declines no chain.                             *)
Return(w) ==
    /\ pc[w] = "admitted"
    /\ Done(w)
    /\ UNCHANGED <<clock, user, events, charged, crossed, calls, fails>>

(* declineChain records a cancellation.                                    *)
ReadForCancellation(w) ==
    /\ pc[w] = "admitted" /\ Counted
    /\ Move(w, "update", [mem[w] EXCEPT !.call = "CANCELLATION", !.points = CancelPenalty,
                                        !.row = user[mem[w].u]])
    /\ UNCHANGED <<clock, user, events, charged, crossed, fails>>

(* breakChainByAdmin with an offender, and an admin's own penalty.         *)
ReadForNoShow(w) ==
    /\ pc[w] = "idle" /\ Counted
    /\ \E u \in Users :
          /\ Begins(u)
          /\ Move(w, "update", [Blank EXCEPT !.u = u, !.call = "NO_SHOW",
                                    !.points = NoShowPenalty, !.row = user[u]])
    /\ UNCHANGED <<clock, user, events, charged, fails>>

ReadForPenalty(w) ==
    /\ pc[w] = "idle" /\ Counted
    /\ \E u \in Users, n \in ManualPenalties, c, b \in ManualHours \cup {Null} :
          /\ Begins(u)
          /\ Move(w, "update", [u |-> u, call |-> "MANUAL_PENALTY", row |-> user[u],
                                points |-> n, cooldown |-> c, block |-> b])
    /\ UNCHANGED <<clock, user, events, charged, fails>>

Write(w, row) ==
    /\ user' = [user EXCEPT ![mem[w].u] = row]
    /\ charged' = [charged EXCEPT ![mem[w].u] = Added(@, mem[w])]
    /\ Move(w, "append", mem[w])
    /\ UNCHANGED <<clock, events, crossed, calls, fails>>

RecordCancellation(w) ==
    /\ pc[w] = "update" /\ mem[w].call = "CANCELLATION"
    /\ Write(w, WithCancellation(user[mem[w].u], mem[w].row))

RecordNoShow(w) ==
    /\ pc[w] = "update" /\ mem[w].call = "NO_SHOW"
    /\ Write(w, WithNoShow(user[mem[w].u], mem[w].row))

ApplyManualPenalty(w) ==
    /\ pc[w] = "update" /\ mem[w].call = "MANUAL_PENALTY"
    /\ Write(w, WithManualPenalty(user[mem[w].u], mem[w]))

(* Its read asks only whether the user exists.                             *)
ClearRestrictions(w) ==
    /\ pc[w] = "idle" /\ Counted
    /\ \E u \in Users :
          /\ user' = [user EXCEPT ![u] = WithoutRestrictions(user[u])]
          /\ Begins(u)
          /\ Move(w, "append", [Blank EXCEPT !.u = u, !.call = "MANUAL_UNBLOCK"])
    /\ UNCHANGED <<clock, events, charged, fails>>

AppendEvent(w) ==
    /\ pc[w] = "append"
    /\ events' = [events EXCEPT ![mem[w].u] = Added(@, mem[w])]
    /\ Done(w)
    /\ UNCHANGED <<clock, user, charged, crossed, calls, fails>>

(* A rejected call or the end of the process: what was written stays.      *)
Fail(w) ==
    /\ pc[w] # "idle" /\ fails < MaxFails
    /\ fails' = fails + 1
    /\ Done(w)
    /\ UNCHANGED <<clock, user, events, charged, crossed, calls>>

Tick ==
    /\ clock < MaxClock
    /\ clock' = clock + 1
    /\ UNCHANGED <<user, events, pc, mem, charged, crossed, calls, fails>>

Init ==
    /\ clock = 0
    /\ user = [u \in Users |-> Registered]
    /\ events = [u \in Users |-> Nothing]
    /\ pc = [w \in Workers |-> "idle"]
    /\ mem = [w \in Workers |-> Blank]
    /\ charged = [u \in Users |-> Nothing]
    /\ crossed = {}
    /\ calls = 0
    /\ fails = 0

Handle(w) ==
    \/ CanActivate(w) \/ Refuse(w) \/ Return(w)
    \/ ReadForCancellation(w) \/ ReadForNoShow(w) \/ ReadForPenalty(w)
    \/ RecordCancellation(w) \/ RecordNoShow(w) \/ ApplyManualPenalty(w)
    \/ ClearRestrictions(w) \/ AppendEvent(w) \/ Fail(w)

Next == (\E w \in Workers : Handle(w)) \/ Tick

Spec == Init /\ [][Next]_vars

-----------------------------------------------------------------------------
(* Properties of every interleaving.                                       *)

(* Penalties that race each other may be lost, never counted twice: the    *)
(* score is not below, nor a count above, what the written penalties add   *)
(* up to, whichever stale rows they were computed from.                    *)
NeverOverPenalised ==
    \A u \in Users :
        /\ user[u].score >= 0
        /\ user[u].score >= 100 - charged[u].points
        /\ user[u].cancellations <= charged[u].cancellations
        /\ user[u].noShows <= charged[u].noShows

(* Nobody is barred for longer than the longest restriction there is,      *)
(* counted from now, although old restrictions are written back.           *)
Longest(until, own) ==
    until # Null => \E h \in ManualHours \cup {own} : until <= clock + h
RestrictionsEnd ==
    \A u \in Users :
        /\ Longest(user[u].cooldownUntil, CooldownHours)
        /\ Longest(user[u].blockedUntil, BlockHours)

-----------------------------------------------------------------------------
(* Properties of the users whose calls never cross.                        *)

(* Their row is what their penalties add up to; and once no call is in     *)
(* flight the events table, if no handler died, tells the same.            *)
SoleCallsAddUp ==
    \A u \in Users \ crossed :
        /\ user[u].score = NormalizeScore(100 - charged[u].points)
        /\ user[u].cancellations = charged[u].cancellations
        /\ user[u].noShows = charged[u].noShows
        /\ fails = 0 /\ InFlight(u) = {} => events[u] = charged[u]

(* A restriction in force ends early only by the administration's hand.    *)
CutShort(until, new) == InForce(until) /\ (new = Null \/ new < until)
StaffActs(u) ==
    \E w \in Workers :
        /\ mem'[w].u = u /\ pc'[w] = "append" /\ pc[w] # "append"
        /\ mem'[w].call \in {"MANUAL_PENALTY", "MANUAL_UNBLOCK"}
OnlyStaffShortens ==
    [][\A u \in Users \ crossed' :
          \/ CutShort(user[u].cooldownUntil, user'[u].cooldownUntil)
          \/ CutShort(user[u].blockedUntil, user'[u].blockedUntil)
          => StaffActs(u)]_vars

(* docs/api/endpoints.md:57: the guard keeps a user in cooldown, or        *)
(* blocked, from protected actions, so from cancelling once more, though   *)
(* it looked several calls before the cancellation is written.             *)
NoCancellationWhileRestricted ==
    [][\A u \in Users \ crossed' :
          user'[u].cancellations > user[u].cancellations =>
              /\ ~InForce(user[u].blockedUntil)
              /\ ~InForce(user[u].cooldownUntil)]_vars
=============================================================================
