------------------------------ MODULE Billing ------------------------------
(***************************************************************************)
(* The subscription columns of User, the payment transactions and the      *)
(* payment webhook events, as changed by BillingService and read by        *)
(* SubscriptionGuard.                                                      *)
(*                                                                         *)
(* The provider may deliver an event any number of times, also while an    *)
(* earlier delivery is under way, and events in any order.  A Worker is a  *)
(* delivery in flight; every database call of it is a step.                *)
(***************************************************************************)
EXTENDS Integers, FiniteSets

CONSTANTS
    Users,
    References,         \* providerReference of a payment or subscription
    Checkouts,          \* those that createCheckout gave out
    Payer,              \* the user of a reference
    Events,             \* (provider, eventId)
    Type,               \* of an event
    Reference,          \* of an event
    Anonymous,          \* events whose data name no user
    EndsAt,             \* the end date in the data of an event, or Null
    Testers,            \* users on the allowlist
    Workers,            \* deliveries in flight
    Duration,           \* of a subscription, in clock units
    Null,
    MaxClock,           \* bound: the clock stops there
    MaxDeliveries,      \* bound: deliveries taken up
    MaxFails            \* bound: deliveries that die half-way

Activations == {"payment.succeeded", "subscription.activated", "subscription.renewed"}
Deactivations == {"subscription.canceled", "subscription.expired"}
Types == Activations \cup Deactivations \cup {"payment.failed", "other"}

ASSUME NullAssumption ==
    Null \notin Int /\ Null \notin Users /\ Null \notin Events
(* The provider, not the code, sees to this: the events of a reference     *)
(* name the user who pays under it, or nobody.                             *)
ASSUME ProviderAssumption ==
    /\ Checkouts \subseteq References /\ Payer \in [References -> Users]
    /\ Type \in [Events -> Types] /\ Reference \in [Events -> References]
    /\ Anonymous \subseteq Events /\ EndsAt \in [Events -> Nat \cup {Null}]
ASSUME BoundsAssumption ==
    /\ Testers \subseteq Users /\ Duration \in Nat \ {0}
    /\ MaxClock \in Nat /\ MaxDeliveries \in Nat /\ MaxFails \in Nat

VARIABLES
    clock,      \* Date.now()
    user,       \* [status, reference, expiresAt] of a user
    tx,         \* [user, status, end] of a reference, or Null
    recorded,   \* PaymentWebhookEvent rows
    pc,         \* what each delivery does next
    mem,        \* [event, user, end] of each delivery
    paid,       \* history: [user, reference, end] of SUCCESS transactions
    written,    \* history: how often an event wrote either table
    last,       \* history: the last event that wrote a user's row
    crossed,    \* history: users two of whose deliveries overlapped
    died,       \* history: users one of whose deliveries died
    deliveries, \* deliveries taken up so far
    fails       \* deliveries that died so far

vars == <<clock, user, tx, recorded, pc, mem, paid, written, last, crossed, died,
          deliveries, fails>>

UserRows == [status : {"INACTIVE", "ACTIVE", "PAST_DUE", "CANCELED", "EXPIRED"},
             reference : References \cup {Null}, expiresAt : Int \cup {Null}]
Transactions == [user : Users, status : {"PENDING", "SUCCESS", "FAILED", "CANCELED"},
                 end : Int \cup {Null}]
ASSUME RowsAssumption == Null \notin Transactions
Tables == {"transaction", "subscriber"}
Blank == [event |-> Null, user |-> Null, end |-> Null]

TypeOK ==
    /\ clock \in Nat
    /\ user \in [Users -> UserRows]
    /\ tx \in [References -> Transactions \cup {Null}]
    /\ recorded \subseteq Events
    /\ pc \in [Workers -> {"idle", "resolve", "record"} \cup Tables]
    /\ mem \in [Workers -> [event : Events \cup {Null}, user : Users \cup {Null},
                            end : Int \cup {Null}]]
    /\ \A w \in Workers : pc[w] # "idle" => mem[w].event \in Events
    /\ \A w \in Workers : pc[w] \in Tables => mem[w].user \in Users
    /\ paid \subseteq [user : Users, reference : References, end : Int]
    /\ written \in [Events -> [Tables -> Nat]]
    /\ last \in [Users -> Events \cup {Null}]
    /\ crossed \subseteq Users /\ died \subseteq Users
    /\ deliveries \in Nat /\ fails \in Nat

-----------------------------------------------------------------------------
(* What an event does.                                                     *)

PaymentStatus(e) ==
    CASE Type[e] \in Activations -> "SUCCESS"
      [] Type[e] = "payment.failed" -> "FAILED"
      [] OTHER -> "CANCELED"

SubscriptionStatus(e) ==
    CASE Type[e] \in Activations -> "ACTIVE"
      [] Type[e] = "payment.failed" -> "PAST_DUE"
      [] Type[e] = "subscription.expired" -> "EXPIRED"
      [] OTHER -> "CANCELED"

(* The end that an activation sets, the date in the data or Duration after *)
(* it was paid (here: after it is handled), and the one that a             *)
(* deactivation sets, the date in the data or now.                         *)
PaidUntil(e) == IF EndsAt[e] # Null THEN EndsAt[e] ELSE clock + Duration
EndedAt(e) == IF EndsAt[e] # Null THEN EndsAt[e] ELSE clock
End(e) == IF Type[e] \in Activations THEN PaidUntil(e) ELSE EndedAt(e)

(* The user named in the data; a deactivation without one takes the owner  *)
(* of the transaction.                                                     *)
UserFor(e) ==
    IF e \notin Anonymous THEN Payer[Reference[e]]
    ELSE IF Type[e] \in Deactivations /\ tx[Reference[e]] # Null
    THEN tx[Reference[e]].user ELSE Null

(* An activation or a failure writes its transaction and then the user, a  *)
(* deactivation the user and then the transaction.                         *)
TransactionFirst(e) == "transaction"    \* slip: the same order for all
FirstWrite(e) == IF Type[e] \in Deactivations THEN "subscriber" ELSE "transaction"
AfterWrite(e, table) ==
    IF table = FirstWrite(e) THEN CHOOSE t \in Tables : t # table ELSE "record"

-----------------------------------------------------------------------------
Move(w, label, m) ==
    /\ pc' = [pc EXCEPT ![w] = label]
    /\ mem' = [mem EXCEPT ![w] = m]
Return(w) == Move(w, "idle", Blank)

PayerOf(e) == Payer[Reference[e]]
InFlight(u) == {w \in Workers : pc[w] # "idle" /\ PayerOf(mem[w].event) = u}

(* A reference is handed out before its payment is made.                   *)
CreateCheckout(r) ==
    /\ r \in Checkouts /\ tx[r] = Null
    /\ tx' = [tx EXCEPT ![r] = [user |-> Payer[r], status |-> "PENDING", end |-> Null]]
    /\ UNCHANGED <<clock, user, recorded, pc, mem, paid, written, last, crossed, died,
                   deliveries, fails>>

(* A wrong signature throws; an event on record is answered as duplicate.  *)
TurnAway(w) == pc[w] = "idle" /\ UNCHANGED vars

TakeUp(w, e) ==
    /\ pc[w] = "idle" /\ deliveries < MaxDeliveries
    /\ Reference[e] \in Checkouts => tx[Reference[e]] # Null
    /\ deliveries' = deliveries + 1
    /\ crossed' = IF InFlight(PayerOf(e)) = {} THEN crossed ELSE crossed \cup {PayerOf(e)}
    /\ Move(w, "resolve", [Blank EXCEPT !.event = e])
    /\ UNCHANGED <<clock, user, tx, paid, written, last, died, fails>>

HandleUnseen(w, e) == TakeUp(w, e) /\ UNCHANGED recorded    \* slip: no look-up
HandleRecordedFirst(w, e) ==    \* slip: recorded before it is processed
    e \notin recorded /\ TakeUp(w, e) /\ recorded' = recorded \cup {e}
HandleWebhook(w, e) == e \notin recorded /\ TakeUp(w, e) /\ UNCHANGED recorded

(* processWebhookEvent up to its first write: without a user a failure     *)
(* writes nothing, as does an unknown type, and the other types throw.     *)
ResolveUser(w) ==
    LET e == mem[w].event  u == UserFor(e) IN
    /\ pc[w] = "resolve"
    /\ CASE Type[e] = "other" -> Move(w, "record", mem[w])
         [] Type[e] # "other" /\ u # Null ->
                Move(w, FirstWrite(e), [event |-> e, user |-> u, end |-> End(e)])
         [] Type[e] = "payment.failed" /\ u = Null -> Move(w, "record", mem[w])
         [] OTHER -> Return(w)
    /\ UNCHANGED <<clock, user, tx, recorded, paid, written, last, crossed, died,
                   deliveries, fails>>

Wrote(w) ==
    LET e == mem[w].event IN
    /\ written' = [written EXCEPT ![e][pc[w]] = @ + 1]
    /\ Move(w, AfterWrite(e, pc[w]), mem[w])
    /\ UNCHANGED <<clock, recorded, crossed, died, deliveries, fails>>

(* The row keeps the user it was created with.                             *)
NeverUpdated(row, m) ==    \* slip: an upsert whose update is left empty
    IF row # Null THEN row
    ELSE [user |-> m.user, status |-> PaymentStatus(m.event), end |-> Null]
Upserted(row, m) ==
    [user |-> IF row = Null THEN m.user ELSE row.user,
     status |-> PaymentStatus(m.event),
     end |-> IF Type[m.event] \in Activations THEN m.end ELSE Null]

UpsertPaymentTransaction(w) ==
    LET e == mem[w].event  r == Reference[e] IN
    /\ pc[w] = "transaction"
    /\ tx' = [tx EXCEPT ![r] = Upserted(@, mem[w])]
    /\ paid' = IF Type[e] \in Activations
               THEN paid \cup {[user |-> mem[w].user, reference |-> r, end |-> mem[w].end]}
               ELSE paid
    /\ Wrote(w)
    /\ UNCHANGED <<user, last>>

UpdateSubscriber(w) ==
    LET e == mem[w].event  u == mem[w].user IN
    /\ pc[w] = "subscriber"
    /\ user' = [user EXCEPT
          ![u].status = SubscriptionStatus(e),
          ![u].reference = IF Type[e] \in Activations THEN Reference[e] ELSE @,
          ![u].expiresAt = IF Type[e] = "payment.failed" THEN @ ELSE mem[w].end]
    /\ last' = [last EXCEPT ![u] = e]
    /\ Wrote(w)
    /\ UNCHANGED <<tx, paid>>

(* A second row for an event breaks its unique key: the call throws.       *)
RecordEvent(w) ==
    /\ pc[w] = "record"
    /\ recorded' = recorded \cup {mem[w].event}
    /\ Return(w)
    /\ UNCHANGED <<clock, user, tx, paid, written, last, crossed, died, deliveries, fails>>

(* A rejected call or the end of the process; the provider may try again.  *)
Fail(w) ==
    /\ pc[w] # "idle" /\ fails < MaxFails
    /\ fails' = fails + 1
    /\ died' = died \cup {PayerOf(mem[w].event)}
    /\ Return(w)
    /\ UNCHANGED <<clock, user, tx, recorded, paid, written, last, crossed, deliveries>>

Tick ==
    /\ clock < MaxClock
    /\ clock' = clock + 1
    /\ UNCHANGED <<user, tx, recorded, pc, mem, paid, written, last, crossed, died,
                   deliveries, fails>>

Init ==
    /\ clock = 0
    /\ user = [u \in Users |-> [status |-> "INACTIVE", reference |-> Null, expiresAt |-> Null]]
    /\ tx = [r \in References |-> Null]
    /\ recorded = {}
    /\ pc = [w \in Workers |-> "idle"]
    /\ mem = [w \in Workers |-> Blank]
    /\ paid = {}
    /\ written = [e \in Events |-> [t \in Tables |-> 0]]
    /\ last = [u \in Users |-> Null]
    /\ crossed = {} /\ died = {}
    /\ deliveries = 0 /\ fails = 0

Deliver(w) ==
    \/ TurnAway(w)
    \/ \E e \in Events : HandleWebhook(w, e)
    \/ ResolveUser(w)
    \/ UpsertPaymentTransaction(w)
    \/ UpdateSubscriber(w)
    \/ RecordEvent(w)
    \/ Fail(w)

Next ==
    \/ \E w \in Workers : Deliver(w)
    \/ \E r \in References : CreateCheckout(r)
    \/ Tick

Spec == Init /\ [][Next]_vars

-----------------------------------------------------------------------------
(* What the guard answers for a user who is no ADMIN, under enforcement;   *)
(* getMySubscription answers the same.                                     *)
StatusOnly(u) == u \in Testers \/ user[u].status = "ACTIVE"    \* slip
HasAccess(u) ==
    \/ u \in Testers
    \/ /\ user[u].status = "ACTIVE"
       /\ user[u].expiresAt # Null => user[u].expiresAt > clock

-----------------------------------------------------------------------------
(* Properties of every order of deliveries and deaths.                     *)

(* An event on record has done all it has to do: a delivery that dies      *)
(* half-way is not taken for a duplicate when the event comes again.       *)
RecordedWasApplied ==
    \A e \in recorded :
        Type[e] # "other" /\ ~(Type[e] = "payment.failed" /\ e \in Anonymous) =>
            \A t \in Tables : written[e][t] > 0

(* Whoever is let in, other than a tester, was charged under a reference   *)
(* on file, for a period that has not ended.                               *)
AccessIsPaid ==
    \A u \in Users \ Testers :
        HasAccess(u) =>
            \E p \in paid :
                /\ p.user = u /\ p.reference = user[u].reference
                /\ p.end > clock
                /\ tx[p.reference] # Null /\ tx[p.reference].user = u

-----------------------------------------------------------------------------
(* Properties of the users whose deliveries never overlap.                 *)

(* A transaction is not CANCELED before its subscription has ended, even   *)
(* when deliveries die between the two.                                    *)
CanceledEndsAccess ==
    \A u \in Users \ crossed, r \in References :
        /\ tx[r] # Null /\ tx[r].status = "CANCELED"
        /\ user[u].reference = r
        => user[u].status # "ACTIVE"

(* Delivered as often as may be, an event writes each table once if none   *)
(* of the user's deliveries dies.                                          *)
SoleDeliveryAppliesOnce ==
    \A e \in Events :
        PayerOf(e) \notin crossed \cup died => \A t \in Tables : written[e][t] <= 1

(* If none dies either, then between deliveries the user and the           *)
(* transaction tell the same story, that of the event delivered last.      *)
TablesAgree ==
    \A u \in Users \ (crossed \cup died) :
        InFlight(u) = {} /\ last[u] # Null =>
            /\ user[u].status = SubscriptionStatus(last[u])
            /\ tx[Reference[last[u]]].status = PaymentStatus(last[u])
            /\ user[u].status = "ACTIVE" =>
                  user[u].expiresAt = tx[Reference[last[u]]].end
=============================================================================
