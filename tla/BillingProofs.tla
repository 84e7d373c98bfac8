--------------------------- MODULE BillingProofs ---------------------------
(* Machine-checked proofs about Billing, for any users, references and     *)
(* events of a provider, any deliveries in flight and any number of them.  *)
EXTENDS Billing, TLAPS

Labels == {"idle", "resolve", "record"} \cup Tables
MemRows == [event : Events \cup {Null}, user : Users \cup {Null}, end : Int \cup {Null}]

(* What a delivery that is about to write holds, its end included: of a    *)
(* transaction paid for the end is not Null.                               *)
ControlOK ==
    /\ pc \in [Workers -> Labels]
    /\ mem \in [Workers -> MemRows]
    /\ \A w \in Workers : pc[w] # "idle" => mem[w].event \in Events
    /\ \A w \in Workers : pc[w] \in Tables =>
          mem[w].user \in Users /\ mem[w].end \in Int

Typed ==
    /\ clock \in Nat
    /\ user \in [Users -> UserRows]
    /\ tx \in [References -> Transactions \cup {Null}]
    /\ recorded \subseteq Events
    /\ ControlOK
    /\ paid \subseteq [user : Users, reference : References, end : Int]
    /\ written \in [Events -> [Tables -> Nat]]
    /\ last \in [Users -> Events \cup {Null}]
    /\ crossed \subseteq Users /\ died \subseteq Users
    /\ deliveries \in Nat /\ fails \in Nat

LEMMA TypedIsTypeOK == Typed => TypeOK
BY DEF Typed, ControlOK, TypeOK, Labels, MemRows

-----------------------------------------------------------------------------
(* Events, ends and the order of the two writes.                           *)

LEMMA EventTyped ==
    ASSUME NEW e \in Events
    PROVE  /\ Type[e] \in Types /\ Reference[e] \in References
           /\ PayerOf(e) \in Users
           /\ PaymentStatus(e) \in {"SUCCESS", "FAILED", "CANCELED"}
           /\ SubscriptionStatus(e) \in {"ACTIVE", "PAST_DUE", "CANCELED", "EXPIRED"}
BY ProviderAssumption DEF PayerOf, PaymentStatus, SubscriptionStatus

(* Activations are the events that tell of a success, on either side.      *)
LEMMA Statuses ==
    ASSUME NEW e \in Events
    PROVE  /\ PaymentStatus(e) = "SUCCESS" <=> Type[e] \in Activations
           /\ SubscriptionStatus(e) = "ACTIVE" <=> Type[e] \in Activations
           /\ Type[e] \notin Deactivations \cup {"other"} => PaymentStatus(e) # "CANCELED"
BY EventTyped DEF PaymentStatus, SubscriptionStatus, Activations, Deactivations, Types

LEMMA EndType ==
    ASSUME clock \in Nat, NEW e \in Events
    PROVE  End(e) \in Int
BY ProviderAssumption, BoundsAssumption DEF End, PaidUntil, EndedAt

LEMMA UserForType ==
    ASSUME Typed, NEW e \in Events
    PROVE  UserFor(e) \in Users \cup {Null}
BY EventTyped DEF UserFor, Typed, Transactions, PayerOf

LEMMA WriteOrder ==
    ASSUME NEW e \in Events
    PROVE  /\ FirstWrite(e) \in Tables
           /\ AfterWrite(e, FirstWrite(e)) \in Tables
           /\ AfterWrite(e, FirstWrite(e)) # FirstWrite(e)
           /\ \A t \in Tables : t # FirstWrite(e) => AfterWrite(e, t) = "record"
<1>1. FirstWrite(e) \in Tables
  BY DEF FirstWrite, Tables
<1>2. \E t \in Tables : t # FirstWrite(e)
  BY DEF Tables
<1>3. /\ (CHOOSE t \in Tables : t # FirstWrite(e)) \in Tables
      /\ (CHOOSE t \in Tables : t # FirstWrite(e)) # FirstWrite(e)
  BY <1>2
<1> QED
  BY <1>1, <1>3 DEF AfterWrite

-----------------------------------------------------------------------------
(* What the steps do, row by row.                                          *)

LEMMA MoveType ==
    ASSUME ControlOK, NEW w \in Workers, NEW label \in Labels, NEW m \in MemRows,
           label # "idle" => m.event \in Events,
           label \in Tables => m.user \in Users /\ m.end \in Int,
           Move(w, label, m)
    PROVE  ControlOK'
BY DEF ControlOK, Move

LEMMA MoveOnly ==
    ASSUME Typed, NEW w \in Workers, NEW label, NEW m, Move(w, label, m)
    PROVE  /\ pc'[w] = label /\ mem'[w] = m
           /\ \A v \in Workers : v # w => pc'[v] = pc[v] /\ mem'[v] = mem[v]
BY DEF Typed, ControlOK, Move

LEMMA BlankType == Blank \in MemRows
BY DEF Blank, MemRows

LEMMA ReturnType ==
    ASSUME ControlOK, NEW w \in Workers, Return(w)
    PROVE  ControlOK'
BY MoveType, BlankType DEF Return, Labels, Tables

LEMMA WroteType ==
    ASSUME Typed, NEW w \in Workers, pc[w] \in Tables, Wrote(w)
    PROVE  /\ ControlOK'
           /\ written' \in [Events -> [Tables -> Nat]]
           /\ \A e \in Events, t \in Tables :
                 written'[e][t] = IF e = mem[w].event /\ t = pc[w]
                                  THEN written[e][t] + 1 ELSE written[e][t]
<1>1. mem[w] \in MemRows /\ mem[w].event \in Events
      /\ mem[w].user \in Users /\ mem[w].end \in Int
  BY DEF Typed, ControlOK, Tables
<1>2. AfterWrite(mem[w].event, pc[w]) \in Tables \cup {"record"}
  BY <1>1, WriteOrder
<1>3. ControlOK'
  BY <1>1, <1>2, MoveType DEF Wrote, Typed, Labels, Tables
<1>4. written' = [written EXCEPT ![mem[w].event] =
                     [written[mem[w].event] EXCEPT ![pc[w]] = @ + 1]]
  BY DEF Wrote
<1> QED
  BY <1>1, <1>3, <1>4 DEF Typed

(* The transaction and the user after a write.                             *)
LEMMA TransactionWritten ==
    ASSUME Typed, NEW w \in Workers, UpsertPaymentTransaction(w)
    PROVE  LET e == mem[w].event  r == Reference[e]
           IN  /\ e \in Events /\ r \in References /\ mem[w].user \in Users
               /\ tx' = [tx EXCEPT ![r] = Upserted(tx[r], mem[w])]
               /\ Upserted(tx[r], mem[w]) \in Transactions
               /\ tx'[r] = Upserted(tx[r], mem[w])
<1>1. pc[w] = "transaction" /\ mem[w] \in MemRows /\ mem[w].event \in Events
      /\ mem[w].user \in Users /\ mem[w].end \in Int
  BY DEF Typed, ControlOK, UpsertPaymentTransaction, Tables
<1>2. Reference[mem[w].event] \in References
  BY <1>1, EventTyped
<1>3. Upserted(tx[Reference[mem[w].event]], mem[w]) \in Transactions
  BY <1>1, <1>2, EventTyped DEF Upserted, Transactions, Typed
<1> QED
  BY <1>1, <1>2, <1>3 DEF UpsertPaymentTransaction, Typed

LEMMA SubscriberWritten ==
    ASSUME Typed, NEW w \in Workers, UpdateSubscriber(w)
    PROVE  LET e == mem[w].event  u == mem[w].user
           IN  /\ e \in Events /\ u \in Users
               /\ user' \in [Users -> UserRows]
               /\ \A v \in Users : v # u => user'[v] = user[v]
               /\ user'[u].status = SubscriptionStatus(e)
               /\ user'[u].reference =
                     IF Type[e] \in Activations THEN Reference[e] ELSE user[u].reference
               /\ user'[u].expiresAt =
                     IF Type[e] = "payment.failed" THEN user[u].expiresAt ELSE mem[w].end
<1> DEFINE e == mem[w].event
           u == mem[w].user
           s == SubscriptionStatus(e)
           r == IF Type[e] \in Activations THEN Reference[e] ELSE user[u].reference
           d == IF Type[e] = "payment.failed" THEN user[u].expiresAt ELSE mem[w].end
           row == [user[u] EXCEPT !.status = s, !.reference = r, !.expiresAt = d]
<1>1. e \in Events /\ u \in Users /\ mem[w].end \in Int
  BY DEF Typed, ControlOK, UpdateSubscriber, Tables
<1>2. user[u] \in UserRows
  BY <1>1 DEF Typed
<1>3. /\ s \in {"INACTIVE", "ACTIVE", "PAST_DUE", "CANCELED", "EXPIRED"}
      /\ r \in References \cup {Null} /\ d \in Int \cup {Null}
  BY <1>1, <1>2, EventTyped DEF UserRows
<1>4. user' = [user EXCEPT ![u] = row]
  BY DEF UpdateSubscriber
<1>5. row \in UserRows /\ row.status = s /\ row.reference = r /\ row.expiresAt = d
  <2> HIDE DEF s, r, d
  <2> QED
    BY <1>2, <1>3 DEF UserRows
<1> HIDE DEF row, e, u
<1>6. user' \in [Users -> UserRows] /\ user'[u] = row
      /\ \A v \in Users : v # u => user'[v] = user[v]
  BY <1>1, <1>4, <1>5 DEF Typed
<1> QED
  BY <1>1, <1>5, <1>6 DEF e, u

LEMMA Resolved ==
    ASSUME Typed, NEW w \in Workers, ResolveUser(w)
    PROVE  LET e == mem[w].event  u == UserFor(e)
           IN  /\ e \in Events
               /\ \/ /\ Type[e] # "other" /\ u \in Users
                     /\ Move(w, FirstWrite(e), [event |-> e, user |-> u, end |-> End(e)])
                  \/ /\ Type[e] = "other" \/ (Type[e] = "payment.failed" /\ u = Null)
                     /\ Move(w, "record", mem[w])
                  \/ Return(w)
<1>1. mem[w].event \in Events
  BY DEF Typed, ControlOK, ResolveUser
<1> QED
  BY <1>1, UserForType DEF ResolveUser

(* All three are moves that keep the event.                                *)
KeepsEvent(w, label) ==
    \E m \in MemRows : Move(w, label, m) /\ (label # "idle" => m.event = mem[w].event)

LEMMA ResolvedMove ==
    ASSUME Typed, NEW w \in Workers, ResolveUser(w)
    PROVE  \E label \in {"idle", FirstWrite(mem[w].event), "record"} : KeepsEvent(w, label)
<1> DEFINE e == mem[w].event  u == UserFor(e)  m == [event |-> e, user |-> u, end |-> End(e)]
<1>1. e \in Events /\ mem[w] \in MemRows
  BY Resolved DEF Typed, ControlOK
<1>2. ASSUME u \in Users, Move(w, FirstWrite(e), m) PROVE KeepsEvent(w, FirstWrite(e))
  <2>1. m \in MemRows /\ m.event = e
    BY <1>1, <1>2, EndType DEF MemRows, Typed
  <2> HIDE DEF m
  <2> QED
    BY <1>2, <2>1 DEF KeepsEvent
<1>3. ASSUME Move(w, "record", mem[w]) PROVE KeepsEvent(w, "record")
  BY <1>1, <1>3 DEF KeepsEvent
<1>4. ASSUME Return(w) PROVE KeepsEvent(w, "idle")
  BY <1>4, BlankType DEF KeepsEvent, Return
<1> QED
  BY <1>2, <1>3, <1>4, Resolved

LEMMA TypedStep == Typed /\ [Next]_vars => Typed'
<1> SUFFICES ASSUME Typed, [Next]_vars PROVE Typed'
  OBVIOUS
<1>1. ASSUME NEW w \in Workers, NEW e \in Events, HandleWebhook(w, e) PROVE Typed'
  <2>1. [Blank EXCEPT !.event = e] \in MemRows /\ [Blank EXCEPT !.event = e].event = e
    BY DEF Blank, MemRows
  <2>2. ControlOK'
    BY <1>1, <2>1, MoveType DEF HandleWebhook, TakeUp, Labels, Tables, Typed
  <2> QED
    BY <1>1, <2>2, EventTyped DEF HandleWebhook, TakeUp, Typed
<1>2. ASSUME NEW w \in Workers, ResolveUser(w) PROVE Typed'
  <2> DEFINE e == mem[w].event  u == UserFor(e)
  <2>1. e \in Events /\ mem[w] \in MemRows
    BY <1>2, Resolved DEF Typed, ControlOK
  <2>2. ASSUME u \in Users, Move(w, FirstWrite(e), [event |-> e, user |-> u, end |-> End(e)])
        PROVE  ControlOK'
    <3>1. [event |-> e, user |-> u, end |-> End(e)] \in MemRows /\ End(e) \in Int
      BY <2>1, <2>2, EndType DEF MemRows, Typed
    <3> QED
      BY <2>1, <2>2, <3>1, WriteOrder, MoveType DEF Labels, Typed
  <2>3. ASSUME Move(w, "record", mem[w]) \/ Return(w)
        PROVE  ControlOK'
    BY <2>1, <2>3, MoveType, ReturnType DEF Labels, Tables, Typed
  <2>4. ControlOK'
    BY <1>2, <2>2, <2>3, Resolved DEF Typed
  <2> QED
    BY <1>2, <2>4 DEF ResolveUser, Typed
<1>3. ASSUME NEW w \in Workers, UpsertPaymentTransaction(w) PROVE Typed'
  <2>1. pc[w] \in Tables /\ Wrote(w) /\ mem[w].end \in Int
    BY <1>3 DEF UpsertPaymentTransaction, Tables, Typed, ControlOK
  <2>2. tx' \in [References -> Transactions \cup {Null}]
    BY <1>3, TransactionWritten DEF Typed
  <2>3. paid' \subseteq [user : Users, reference : References, end : Int]
    <3> DEFINE p == [user |-> mem[w].user, reference |-> Reference[mem[w].event],
                     end |-> mem[w].end]
    <3>1. p \in [user : Users, reference : References, end : Int]
      BY <1>3, <2>1, TransactionWritten
    <3>2. paid' \subseteq paid \cup {p}
      BY <1>3 DEF UpsertPaymentTransaction
    <3> QED
      BY <3>1, <3>2 DEF Typed
  <2> QED
    BY <1>3, <2>1, <2>2, <2>3, WroteType DEF UpsertPaymentTransaction, Wrote, Typed
<1>4. ASSUME NEW w \in Workers, UpdateSubscriber(w) PROVE Typed'
  <2>1. pc[w] \in Tables /\ Wrote(w)
    BY <1>4 DEF UpdateSubscriber, Tables
  <2>2. user' \in [Users -> UserRows] /\ last' \in [Users -> Events \cup {Null}]
    BY <1>4, SubscriberWritten DEF UpdateSubscriber, Typed
  <2> QED
    BY <1>4, <2>1, <2>2, WroteType DEF UpdateSubscriber, Wrote, Typed
<1>5. ASSUME NEW w \in Workers, RecordEvent(w) PROVE Typed'
  BY <1>5, ReturnType DEF RecordEvent, Typed, ControlOK
<1>6. ASSUME NEW w \in Workers, Fail(w) PROVE Typed'
  BY <1>6, ReturnType, EventTyped DEF Fail, Typed, ControlOK
<1>7. ASSUME NEW r \in References, CreateCheckout(r) PROVE Typed'
  BY <1>7, ProviderAssumption DEF CreateCheckout, Typed, ControlOK, Transactions
<1>8. CASE Tick
  BY <1>8 DEF Tick, Typed, ControlOK
<1>9. CASE UNCHANGED vars
  BY <1>9 DEF vars, Typed, ControlOK
<1> QED
  BY <1>1, <1>2, <1>3, <1>4, <1>5, <1>6, <1>7, <1>8, <1>9 DEF Next, Deliver, TurnAway

LEMMA TypedInit == Init => Typed
BY BlankType DEF Init, Typed, ControlOK, Labels, Tables, UserRows

(* Every row and every delivery in flight keeps its type.                  *)
THEOREM TypeCorrect == Spec => []TypeOK
BY TypedInit, TypedStep, TypedIsTypeOK, PTL DEF Spec

LEMMA AlwaysTyped == Spec => []Typed
BY TypedInit, TypedStep, PTL DEF Spec

-----------------------------------------------------------------------------
(* An event on record was applied.  Inductive only with what each delivery *)
(* has done by then: one at its second write has done the first, one about *)
(* to record has done both or has nothing to do.                           *)

Due(e) == Type[e] # "other" /\ ~(Type[e] = "payment.failed" /\ e \in Anonymous)
Applied(e) == \A t \in Tables : written[e][t] > 0
AtSecond(w) == pc[w] \in Tables /\ pc[w] # FirstWrite(mem[w].event)

AppliedInv ==
    /\ \A e \in recorded : Due(e) => Applied(e)
    /\ \A w \in Workers : pc[w] = "record" /\ Due(mem[w].event) => Applied(mem[w].event)
    /\ \A w \in Workers : AtSecond(w) => written[mem[w].event][FirstWrite(mem[w].event)] > 0

(* A write, first or second, of any delivery.                              *)
LEMMA WriteMoves ==
    ASSUME Typed, NEW w \in Workers, pc[w] \in Tables, Wrote(w)
    PROVE  /\ mem[w].event \in Events /\ mem'[w] = mem[w]
           /\ IF AtSecond(w) THEN pc'[w] = "record"
              ELSE /\ pc[w] = FirstWrite(mem[w].event) /\ AtSecond(w)'
                   /\ pc'[w] \in Tables /\ pc'[w] # pc[w]
           /\ \A v \in Workers : v # w => pc'[v] = pc[v] /\ mem'[v] = mem[v]
<1>1. mem[w].event \in Events
  BY DEF Typed, ControlOK, Tables
<1>2. /\ pc'[w] = AfterWrite(mem[w].event, pc[w]) /\ mem'[w] = mem[w]
      /\ \A v \in Workers : v # w => pc'[v] = pc[v] /\ mem'[v] = mem[v]
  BY MoveOnly DEF Wrote
<1> QED
  BY <1>1, <1>2, WriteOrder DEF AtSecond, FirstWrite

LEMMA WriteApplies ==
    ASSUME Typed, AppliedInv, NEW w \in Workers, pc[w] \in Tables, Wrote(w)
    PROVE  AppliedInv'
<1>1. \A e \in Events, t \in Tables :
        /\ written[e][t] \in Nat
        /\ written'[e][t] \in Nat
        /\ written'[e][t] = IF e = mem[w].event /\ t = pc[w]
                            THEN written[e][t] + 1 ELSE written[e][t]
  BY WroteType DEF Typed
<1>2. \A e \in Events, t \in Tables : written[e][t] > 0 => written'[e][t] > 0
  BY <1>1
<1>3. written'[mem[w].event][pc[w]] > 0
  BY <1>1, WriteMoves
<1>4. \A e \in recorded' : Due(e) => Applied(e)'
  BY <1>2 DEF Wrote, AppliedInv, Applied, Typed, Due
<1>5. \A v \in Workers : pc'[v] = "record" /\ Due(mem'[v].event) => Applied(mem[v].event)'
  <2> SUFFICES ASSUME NEW v \in Workers, pc'[v] = "record", Due(mem'[v].event)
               PROVE  Applied(mem[v].event)'
    OBVIOUS
  <2>1. CASE v # w
    <3>1. mem'[v] = mem[v] /\ Applied(mem[v].event) /\ mem[v].event \in Events
      BY <2>1, WriteMoves DEF AppliedInv, Typed, ControlOK
    <3> QED
      BY <1>2, <3>1 DEF Applied
  <2>2. CASE v = w
    <3>1. AtSecond(w) /\ mem'[w] = mem[w] /\ mem[w].event \in Events
      BY <2>2, WriteMoves DEF Tables
    <3>2. written'[mem[w].event][FirstWrite(mem[w].event)] > 0
      BY <1>2, <3>1, WriteOrder DEF AppliedInv
    <3>3. \A t \in Tables : t = pc[w] \/ t = FirstWrite(mem[w].event)
      BY <3>1 DEF AtSecond, Tables, FirstWrite
    <3> QED
      BY <1>3, <2>2, <3>1, <3>2, <3>3 DEF Applied
  <2> QED
    BY <2>1, <2>2
<1>6. \A v \in Workers :
        AtSecond(v)' => written'[mem'[v].event][FirstWrite(mem'[v].event)] > 0
  <2> SUFFICES ASSUME NEW v \in Workers, AtSecond(v)'
               PROVE  written'[mem'[v].event][FirstWrite(mem'[v].event)] > 0
    OBVIOUS
  <2>1. CASE v # w
    <3>1. mem'[v] = mem[v] /\ mem[v].event \in Events /\ AtSecond(v)
      BY <2>1, WriteMoves DEF AtSecond, Tables, Typed, ControlOK
    <3> QED
      BY <1>2, <3>1, WriteOrder DEF AppliedInv
  <2>2. CASE v = w
    BY <1>3, <2>2, WriteMoves DEF AtSecond, Tables
  <2> QED
    BY <2>1, <2>2
<1> QED
  BY <1>4, <1>5, <1>6 DEF AppliedInv, AtSecond, FirstWrite, Due

(* A step that leaves a delivery idle, or at its look-up, promises nothing.*)
LEMMA IdleApplies ==
    ASSUME Typed, AppliedInv, UNCHANGED <<written, recorded>>, NEW w \in Workers,
           NEW label \in {"idle", "resolve"}, NEW m, Move(w, label, m)
    PROVE  AppliedInv'
BY MoveOnly DEF AppliedInv, AtSecond, FirstWrite, Due, Applied, Tables

LEMMA AppliedStep == Typed /\ AppliedInv /\ [Next]_vars => AppliedInv'
<1> SUFFICES ASSUME Typed, AppliedInv, [Next]_vars PROVE AppliedInv'
  OBVIOUS
<1>1. ASSUME NEW w \in Workers, NEW e \in Events, HandleWebhook(w, e) PROVE AppliedInv'
  BY <1>1, IdleApplies DEF HandleWebhook, TakeUp
<1>2. ASSUME NEW w \in Workers, ResolveUser(w) PROVE AppliedInv'
  <2> DEFINE e == mem[w].event  u == UserFor(e)
  <2>1. e \in Events /\ UNCHANGED <<written, recorded>>
    BY <1>2, Resolved DEF ResolveUser
  <2>2. ASSUME Move(w, FirstWrite(e), [event |-> e, user |-> u, end |-> End(e)])
        PROVE  AppliedInv'
    <3>1. ~AtSecond(w)' /\ pc'[w] # "record"
      BY <2>1, <2>2, MoveOnly, WriteOrder DEF AtSecond, FirstWrite, Tables
    <3> QED
      BY <2>1, <2>2, <3>1, MoveOnly DEF AppliedInv, AtSecond, FirstWrite, Due, Applied
  <2>3. ASSUME Type[e] = "other" \/ (Type[e] = "payment.failed" /\ u = Null),
               Move(w, "record", mem[w])
        PROVE  AppliedInv'
    <3>1. ~Due(e)
      BY <2>1, <2>3, EventTyped, NullAssumption DEF Due, UserFor, PayerOf, Deactivations
    <3> QED
      BY <2>1, <2>3, <3>1, MoveOnly DEF AppliedInv, AtSecond, FirstWrite, Due, Applied, Tables
  <2> QED
    BY <1>2, <2>1, <2>2, <2>3, Resolved, IdleApplies DEF Return
<1>3. ASSUME NEW w \in Workers, UpsertPaymentTransaction(w) \/ UpdateSubscriber(w)
      PROVE  AppliedInv'
  BY <1>3, WriteApplies DEF UpsertPaymentTransaction, UpdateSubscriber, Tables
<1>4. ASSUME NEW w \in Workers, RecordEvent(w) PROVE AppliedInv'
  <2>1. Due(mem[w].event) => Applied(mem[w].event)
    BY <1>4 DEF RecordEvent, AppliedInv
  <2>2. /\ pc'[w] = "idle" /\ written' = written /\ recorded' = recorded \cup {mem[w].event}
        /\ \A v \in Workers : v # w => pc'[v] = pc[v] /\ mem'[v] = mem[v]
    BY <1>4, MoveOnly DEF RecordEvent, Return
  <2> QED
    BY <2>1, <2>2 DEF AppliedInv, AtSecond, FirstWrite, Due, Applied, Tables
<1>5. ASSUME NEW w \in Workers, Fail(w) PROVE AppliedInv'
  BY <1>5, IdleApplies DEF Fail, Return
<1>6. CASE UNCHANGED <<pc, mem, written, recorded>>
  BY <1>6 DEF AppliedInv, AtSecond, FirstWrite, Due, Applied
<1> QED
  BY <1>1, <1>2, <1>3, <1>4, <1>5, <1>6 DEF Next, Deliver, TurnAway, CreateCheckout, Tick, vars

(* An event on record has done all it has to do, whatever deliveries of it *)
(* overlapped, and whichever of them died half-way.                        *)
THEOREM RecordedIsApplied == Spec => []RecordedWasApplied
<1>1. Init => AppliedInv
  BY DEF Init, AppliedInv, AtSecond, Tables
<1>2. Typed /\ AppliedInv => RecordedWasApplied
  BY DEF AppliedInv, RecordedWasApplied, Due, Applied
<1> QED
  BY <1>1, <1>2, AppliedStep, AlwaysTyped, PTL DEF Spec

-----------------------------------------------------------------------------
(* Whoever is ACTIVE paid for it.                                          *)

(* A transaction, and a delivery, is of the one who pays.                  *)
PayerInv ==
    /\ \A r \in References : tx[r] # Null => tx[r].user = Payer[r]
    /\ \A w \in Workers : pc[w] \in Tables =>
          mem[w].user = PayerOf(mem[w].event) /\ Type[mem[w].event] # "other"

Charge(u, r, end) == [user |-> u, reference |-> r, end |-> end]

PaidInv ==
    /\ \A p \in paid : tx[p.reference] # Null /\ Payer[p.reference] = p.user
    /\ \A w \in Workers : AtSecond(w) /\ Type[mem[w].event] \in Activations =>
          Charge(mem[w].user, Reference[mem[w].event], mem[w].end) \in paid
    /\ \A u \in Users : user[u].status = "ACTIVE" =>
          Charge(u, user[u].reference, user[u].expiresAt) \in paid

LEMMA PayerOfUser ==
    ASSUME PayerInv, NEW e \in Events, UserFor(e) \in Users
    PROVE  UserFor(e) = PayerOf(e)
BY EventTyped, NullAssumption DEF PayerInv, UserFor, PayerOf

LEMMA PayerStep == Typed /\ PayerInv /\ [Next]_vars => PayerInv'
<1> SUFFICES ASSUME Typed, PayerInv, [Next]_vars PROVE PayerInv'
  OBVIOUS
<1>1. ASSUME NEW w \in Workers, NEW e \in Events, HandleWebhook(w, e) PROVE PayerInv'
  BY <1>1, MoveOnly DEF HandleWebhook, TakeUp, PayerInv, PayerOf, Tables
<1>2. ASSUME NEW w \in Workers, ResolveUser(w) PROVE PayerInv'
  <2> DEFINE e == mem[w].event  u == UserFor(e)
  <2>1. e \in Events /\ tx' = tx
    BY <1>2, Resolved DEF ResolveUser
  <2>2. ASSUME Type[e] # "other", u \in Users,
               Move(w, FirstWrite(e), [event |-> e, user |-> u, end |-> End(e)])
        PROVE  PayerInv'
    <3>1. mem'[w].event = e /\ mem'[w].user = PayerOf(e)
          /\ \A v \in Workers : v # w => pc'[v] = pc[v] /\ mem'[v] = mem[v]
      BY <2>1, <2>2, MoveOnly, PayerOfUser
    <3> QED
      BY <2>1, <2>2, <3>1 DEF PayerInv, PayerOf, Tables
  <2>3. ASSUME Move(w, "record", mem[w]) \/ Return(w) PROVE PayerInv'
    <3>1. pc'[w] \notin Tables
          /\ \A v \in Workers : v # w => pc'[v] = pc[v] /\ mem'[v] = mem[v]
      BY <2>3, MoveOnly DEF Return, Tables
    <3> QED
      BY <2>1, <3>1 DEF PayerInv, PayerOf, Tables
  <2> QED
    BY <1>2, <2>2, <2>3, Resolved
<1>3. ASSUME NEW w \in Workers, UpsertPaymentTransaction(w) PROVE PayerInv'
  <2>1. mem[w].user = PayerOf(mem[w].event) /\ pc[w] \in Tables /\ Wrote(w)
    BY <1>3 DEF UpsertPaymentTransaction, PayerInv, Tables
  <2>2. \A r \in References : tx'[r] # Null => tx'[r].user = Payer[r]
    <3> DEFINE r == Reference[mem[w].event]
    <3>1. r \in References /\ tx'[r] = Upserted(tx[r], mem[w])
          /\ \A q \in References : q # r => tx'[q] = tx[q]
      BY <1>3, TransactionWritten DEF Typed
    <3>2. Upserted(tx[r], mem[w]).user = Payer[r]
      BY <2>1, <3>1 DEF Upserted, PayerInv, PayerOf
    <3> QED
      BY <3>1, <3>2 DEF PayerInv
  <2>3. \A v \in Workers : mem'[v] = mem[v] /\ (pc'[v] \in Tables => pc[v] \in Tables)
    BY <2>1, WriteMoves
  <2> QED
    BY <2>2, <2>3 DEF PayerInv, PayerOf
<1>4. ASSUME NEW w \in Workers, UpdateSubscriber(w) PROVE PayerInv'
  <2>1. pc[w] \in Tables /\ Wrote(w) /\ tx' = tx
    BY <1>4 DEF UpdateSubscriber, Tables
  <2>2. \A v \in Workers : mem'[v] = mem[v] /\ (pc'[v] \in Tables => pc[v] \in Tables)
    BY <2>1, WriteMoves
  <2> QED
    BY <2>1, <2>2 DEF PayerInv, PayerOf
<1>5. ASSUME NEW w \in Workers, RecordEvent(w) \/ Fail(w) PROVE PayerInv'
  BY <1>5, MoveOnly DEF RecordEvent, Fail, Return, PayerInv, PayerOf, Tables
<1>6. ASSUME NEW r \in References, CreateCheckout(r) PROVE PayerInv'
  BY <1>6 DEF CreateCheckout, PayerInv, PayerOf, Typed
<1>7. CASE UNCHANGED <<pc, mem, tx>>
  BY <1>7 DEF PayerInv, PayerOf
<1> QED
  BY <1>1, <1>2, <1>3, <1>4, <1>5, <1>6, <1>7 DEF Next, Deliver, TurnAway, Tick, vars

(* What else than a write may do: no second write begins.                  *)
LEMMA PaidKept ==
    ASSUME Typed, PaidInv, paid' = paid, user' = user,
           \A r \in References : tx[r] # Null => tx'[r] # Null,
           \A w \in Workers : AtSecond(w)' => AtSecond(w) /\ mem'[w] = mem[w]
    PROVE  PaidInv'
BY DEF PaidInv, Charge, Typed

LEMMA PaidStep == Typed /\ PayerInv /\ PaidInv /\ [Next]_vars => PaidInv'
<1> SUFFICES ASSUME Typed, PayerInv, PaidInv, [Next]_vars PROVE PaidInv'
  OBVIOUS
<1>1. ASSUME NEW w \in Workers, NEW label \in {"idle", "resolve", "record"}, NEW m,
             Move(w, label, m), UNCHANGED <<user, tx, paid>>
      PROVE  PaidInv'
  <2>1. \A v \in Workers : AtSecond(v)' => AtSecond(v) /\ mem'[v] = mem[v]
    BY <1>1, MoveOnly DEF AtSecond, FirstWrite, Tables
  <2> QED
    BY <1>1, <2>1, PaidKept
<1>2. ASSUME NEW w \in Workers, ResolveUser(w) PROVE PaidInv'
  <2> DEFINE e == mem[w].event  u == UserFor(e)
  <2>1. UNCHANGED <<user, tx, paid>> /\ e \in Events
    BY <1>2, Resolved DEF ResolveUser
  <2>2. ASSUME Move(w, FirstWrite(e), [event |-> e, user |-> u, end |-> End(e)])
        PROVE  PaidInv'
    <3>1. \A v \in Workers : AtSecond(v)' => AtSecond(v) /\ mem'[v] = mem[v]
      BY <2>2, MoveOnly DEF AtSecond, FirstWrite
    <3> QED
      BY <2>1, <3>1, PaidKept
  <2> QED
    BY <1>1, <1>2, <2>1, <2>2, Resolved DEF Return
<1>3. ASSUME NEW w \in Workers, UpsertPaymentTransaction(w) PROVE PaidInv'
  <2> DEFINE e == mem[w].event  r == Reference[e]
             c == Charge(mem[w].user, r, mem[w].end)
  <2>1. /\ pc[w] = "transaction" /\ Wrote(w) /\ user' = user
        /\ paid' = IF Type[e] \in Activations THEN paid \cup {c} ELSE paid
    BY <1>3 DEF UpsertPaymentTransaction, Charge
  <2>2. e \in Events /\ r \in References /\ mem[w].user = Payer[r]
    BY <2>1, EventTyped DEF Typed, ControlOK, PayerInv, PayerOf, Tables
  <2>3. \A q \in References : (tx[q] # Null => tx'[q] # Null) /\ tx'[r] # Null
    BY <1>3, <2>2, TransactionWritten, RowsAssumption DEF Typed
  <2>4. \A p \in paid' : tx'[p.reference] # Null /\ Payer[p.reference] = p.user
    BY <2>1, <2>2, <2>3 DEF PaidInv, Charge, Typed
  <2>5. /\ mem'[w] = mem[w]
        /\ \A v \in Workers : v # w => pc'[v] = pc[v] /\ mem'[v] = mem[v]
    BY <2>1, WriteMoves DEF Tables
  <2>6. \A v \in Workers : AtSecond(v)' /\ Type[mem'[v].event] \in Activations =>
            Charge(mem'[v].user, Reference[mem'[v].event], mem'[v].end) \in paid'
    BY <2>1, <2>5 DEF PaidInv, AtSecond, FirstWrite
  <2> QED
    BY <2>1, <2>4, <2>6 DEF PaidInv, Charge
<1>4. ASSUME NEW w \in Workers, UpdateSubscriber(w) PROVE PaidInv'
  <2> DEFINE e == mem[w].event  u == mem[w].user
  <2>1. pc[w] = "subscriber" /\ Wrote(w) /\ tx' = tx /\ paid' = paid
    BY <1>4 DEF UpdateSubscriber
  <2>2. /\ mem'[w] = mem[w]
        /\ \A v \in Workers : v # w => pc'[v] = pc[v] /\ mem'[v] = mem[v]
        /\ AtSecond(w) => pc'[w] = "record"
    BY <2>1, WriteMoves DEF Tables
  <2>3. e \in Events /\ u \in Users /\ \A v \in Users : v # u => user'[v] = user[v]
    BY <1>4, SubscriberWritten
  <2>4. user'[u].status = "ACTIVE" =>
            Charge(u, user'[u].reference, user'[u].expiresAt) \in paid
    <3>1. SUFFICES ASSUME user'[u].status = "ACTIVE"
                   PROVE  Charge(u, user'[u].reference, user'[u].expiresAt) \in paid
      OBVIOUS
    <3>2. Type[e] \in Activations
      BY <1>4, <2>3, <3>1, SubscriberWritten, Statuses
    <3>3. user'[u].reference = Reference[e] /\ user'[u].expiresAt = mem[w].end
      BY <1>4, <3>2, SubscriberWritten DEF Activations
    <3>4. AtSecond(w)
      BY <2>1, <3>2 DEF AtSecond, FirstWrite, Tables, Activations, Deactivations
    <3> QED
      BY <3>2, <3>3, <3>4 DEF PaidInv
  <2>5. \A v \in Users : user'[v].status = "ACTIVE" =>
            Charge(v, user'[v].reference, user'[v].expiresAt) \in paid
    BY <2>3, <2>4 DEF PaidInv
  <2>6. \A v \in Workers : AtSecond(v)' /\ Type[mem'[v].event] \in Activations
                             => AtSecond(v) /\ mem'[v] = mem[v]
    BY <2>1, <2>2 DEF AtSecond, FirstWrite, Tables, Activations, Deactivations
  <2> QED
    BY <2>1, <2>5, <2>6 DEF PaidInv, Charge
<1>5. ASSUME NEW r \in References, CreateCheckout(r) PROVE PaidInv'
  <2>1. \A q \in References : tx[q] # Null => tx'[q] # Null
    BY <1>5 DEF CreateCheckout, Typed
  <2> QED
    BY <1>5, <2>1, PaidKept DEF CreateCheckout, AtSecond, FirstWrite
<1>6. CASE UNCHANGED <<user, tx, pc, mem, paid>>
  BY <1>6, PaidKept DEF AtSecond, FirstWrite
<1> QED
  BY <1>1, <1>2, <1>3, <1>4, <1>5, <1>6
  DEF Next, Deliver, TurnAway, HandleWebhook, TakeUp, RecordEvent, Fail, Return, Tick, vars

LEMMA AlwaysPaid == Spec => [](PayerInv /\ PaidInv)
<1>1. Init => PayerInv /\ PaidInv
  BY DEF Init, PayerInv, PaidInv, AtSecond, Tables
<1> QED
  BY <1>1, PayerStep, PaidStep, AlwaysTyped, PTL DEF Spec

(* Whoever is let in was charged, under their own reference, for a period  *)
(* that has not ended: no order of the events and no overlap of deliveries *)
(* lets anybody in for nothing.                                            *)
THEOREM AccessAlwaysPaid == Spec => []AccessIsPaid
<1>1. Typed /\ PayerInv /\ PaidInv => AccessIsPaid
  <2> SUFFICES ASSUME Typed, PayerInv, PaidInv, NEW u \in Users \ Testers, HasAccess(u)
               PROVE  \E p \in paid :
                          /\ p.user = u /\ p.reference = user[u].reference
                          /\ p.end > clock
                          /\ tx[p.reference] # Null /\ tx[p.reference].user = u
    BY DEF AccessIsPaid
  <2> DEFINE p == Charge(u, user[u].reference, user[u].expiresAt)
  <2>1. p \in paid
    BY DEF PaidInv, HasAccess
  <2>2. /\ p.user = u /\ p.reference = user[u].reference /\ p.end = user[u].expiresAt
    BY DEF Charge
  <2>3. p.end \in Int /\ p.reference \in References
    BY <2>1 DEF Typed
  <2>4. p.end > clock
    BY <2>2, <2>3, NullAssumption DEF HasAccess
  <2>5. tx[p.reference] # Null /\ tx[p.reference].user = u
    BY <2>1, <2>2, <2>3 DEF PaidInv, PayerInv
  <2> HIDE DEF p
  <2> QED
    BY <2>1, <2>2, <2>4, <2>5
<1> QED
  BY <1>1, AlwaysTyped, AlwaysPaid, PTL

-----------------------------------------------------------------------------
(* The users whose deliveries do not overlap.                              *)

Alone(u) == \A v, w \in InFlight(u) : v = w

CancelInv(u) ==
    /\ \A r \in References :
          /\ tx[r] # Null /\ tx[r].status = "CANCELED"
          /\ user[u].reference = r
          => user[u].status # "ACTIVE"
    /\ \A w \in InFlight(u) : AtSecond(w) =>
          IF Type[mem[w].event] \in Deactivations THEN user[u].status # "ACTIVE"
          ELSE tx[Reference[mem[w].event]] # Null
               /\ tx[Reference[mem[w].event]].status = PaymentStatus(mem[w].event)

OnceInv(u) ==
    \A e \in Events : PayerOf(e) = u =>
        /\ \A t \in Tables : written[e][t] \in {0, 1}
        /\ e \notin recorded /\ (\A w \in InFlight(u) : mem[w].event # e)
              => \A t \in Tables : written[e][t] = 0
        /\ \A w \in InFlight(u) : mem[w].event = e =>
              /\ e \notin recorded
              /\ pc[w] \in {"resolve", FirstWrite(e)} => \A t \in Tables : written[e][t] = 0
              /\ pc[w] \in Tables => written[e][pc[w]] = 0

Agrees(u) ==
    last[u] # Null =>
        /\ user[u].status = SubscriptionStatus(last[u])
        /\ tx[Reference[last[u]]] # Null
        /\ tx[Reference[last[u]]].status = PaymentStatus(last[u])
        /\ user[u].status = "ACTIVE" => user[u].expiresAt = tx[Reference[last[u]]].end

AgreeInv(u) ==
    /\ last[u] # Null => PayerOf(last[u]) = u
    /\ (\A w \in InFlight(u) : ~AtSecond(w)) => Agrees(u)
    /\ \A w \in InFlight(u) : AtSecond(w) =>
          IF Type[mem[w].event] \in Deactivations
          THEN last[u] = mem[w].event /\ user[u].status = SubscriptionStatus(mem[w].event)
          ELSE Type[mem[w].event] \in Activations =>
                  tx[Reference[mem[w].event]].end = mem[w].end

Sole(u) ==
    u \notin crossed =>
        /\ Alone(u) /\ CancelInv(u)
        /\ u \notin died => OnceInv(u) /\ AgreeInv(u)
SoleInv == \A u \in Users : Sole(u)

(* A step that changes nothing of a user, at most hands out a checkout.    *)
Quiet(u) ==
    /\ user'[u] = user[u] /\ last'[u] = last[u]
    /\ \A e \in Events : PayerOf(e) = u =>
          written'[e] = written[e] /\ (e \in recorded' <=> e \in recorded)
    /\ \A r \in References : Payer[r] = u =>
          \/ tx'[r] = tx[r]
          \/ tx[r] = Null /\ tx'[r] # Null /\ tx'[r].status = "PENDING"
    /\ \A w \in Workers : w \in InFlight(u)' <=> w \in InFlight(u)
    /\ \A w \in InFlight(u) : pc'[w] = pc[w] /\ mem'[w] = mem[w]
    /\ (u \in crossed => u \in crossed') /\ (u \in died => u \in died')

LEMMA InFlightEvents ==
    ASSUME Typed, NEW u \in Users, NEW w \in InFlight(u)
    PROVE  /\ w \in Workers /\ pc[w] # "idle" /\ pc[w] \in Labels
           /\ mem[w].event \in Events /\ PayerOf(mem[w].event) = u
           /\ Reference[mem[w].event] \in References /\ Payer[Reference[mem[w].event]] = u
BY EventTyped DEF InFlight, Typed, ControlOK, PayerOf

LEMMA QuietCancel ==
    ASSUME Typed, PaidInv, NEW u \in Users, Quiet(u), CancelInv(u)
    PROVE  CancelInv(u)'
<1>1. ASSUME NEW r \in References, tx'[r] # Null, tx'[r].status = "CANCELED",
             user'[u].reference = r
      PROVE  user'[u].status # "ACTIVE"
  <2>1. user[u].status = "ACTIVE" => Payer[r] = u
    BY <1>1 DEF PaidInv, Charge, Quiet
  <2> QED
    BY <1>1, <2>1 DEF Quiet, CancelInv
<1>2. ASSUME NEW w \in InFlight(u)', AtSecond(w)'
      PROVE  IF Type[mem'[w].event] \in Deactivations THEN user'[u].status # "ACTIVE"
             ELSE tx'[Reference[mem'[w].event]] # Null
                  /\ tx'[Reference[mem'[w].event]].status = PaymentStatus(mem'[w].event)
  <2>1. w \in InFlight(u) /\ pc'[w] = pc[w] /\ mem'[w] = mem[w]
    BY <1>2 DEF Quiet, InFlight
  <2>2. AtSecond(w)
    BY <1>2, <2>1 DEF AtSecond, FirstWrite
  <2> QED
    BY <2>1, <2>2, InFlightEvents DEF CancelInv, Quiet
<1> QED
  BY <1>1, <1>2 DEF CancelInv, PaymentStatus

LEMMA QuietOnce ==
    ASSUME Typed, NEW u \in Users, Quiet(u), OnceInv(u)
    PROVE  OnceInv(u)'
<1> SUFFICES ASSUME NEW e \in Events, PayerOf(e) = u
             PROVE  /\ \A t \in Tables : written'[e][t] \in {0, 1}
                    /\ e \notin recorded' /\ (\A w \in InFlight(u)' : mem'[w].event # e)
                          => \A t \in Tables : written'[e][t] = 0
                    /\ \A w \in InFlight(u)' : mem'[w].event = e =>
                          /\ e \notin recorded'
                          /\ pc'[w] \in {"resolve", FirstWrite(e)} =>
                                \A t \in Tables : written'[e][t] = 0
                          /\ pc'[w] \in Tables => written'[e][pc'[w]] = 0
  BY DEF OnceInv, FirstWrite, PayerOf
<1>1. written'[e] = written[e] /\ (e \in recorded' <=> e \in recorded)
  BY DEF Quiet
<1>2. InFlight(u)' = InFlight(u)
      /\ \A w \in InFlight(u) : pc'[w] = pc[w] /\ mem'[w] = mem[w]
  BY DEF Quiet, InFlight
<1> QED
  BY <1>1, <1>2 DEF OnceInv

LEMMA QuietAgree ==
    ASSUME Typed, NEW u \in Users, Quiet(u), AgreeInv(u), CancelInv(u)
    PROVE  AgreeInv(u)'
<1>1. InFlight(u)' = InFlight(u) /\ user'[u] = user[u] /\ last'[u] = last[u]
      /\ \A w \in InFlight(u) : pc'[w] = pc[w] /\ mem'[w] = mem[w]
  BY DEF Quiet, InFlight
<1>2. \A w \in InFlight(u) : AtSecond(w)' <=> AtSecond(w)
  BY <1>1 DEF AtSecond, FirstWrite
<1>3. ASSUME Agrees(u) PROVE Agrees(u)'
  <2> SUFFICES ASSUME last[u] # Null PROVE Agrees(u)'
    BY <1>1 DEF Agrees
  <2>1. last[u] \in Events /\ PayerOf(last[u]) = u
    BY DEF Typed, AgreeInv
  <2>2. tx'[Reference[last[u]]] = tx[Reference[last[u]]]
    BY <1>3, <2>1, EventTyped DEF Quiet, Agrees, PayerOf
  <2> QED
    BY <1>1, <1>3, <2>2 DEF Agrees, SubscriptionStatus, PaymentStatus
<1>4. ASSUME NEW w \in InFlight(u), AtSecond(w)
      PROVE  IF Type[mem[w].event] \in Deactivations
             THEN last'[u] = mem[w].event /\ user'[u].status = SubscriptionStatus(mem[w].event)
             ELSE Type[mem[w].event] \in Activations =>
                     tx'[Reference[mem[w].event]].end = mem[w].end
  <2>1. Type[mem[w].event] \notin Deactivations =>
            tx'[Reference[mem[w].event]] = tx[Reference[mem[w].event]]
    BY <1>4, InFlightEvents DEF Quiet, CancelInv
  <2> QED
    BY <1>1, <1>4, <2>1 DEF AgreeInv
<1> QED
  BY <1>1, <1>2, <1>3, <1>4 DEF AgreeInv, SubscriptionStatus, PayerOf

LEMMA QuietSole ==
    ASSUME Typed, PaidInv, NEW u \in Users, Quiet(u), Sole(u)
    PROVE  Sole(u)'
<1>1. u \notin crossed' => u \notin crossed /\ Alone(u)'
  BY DEF Sole, Alone, Quiet, InFlight
<1>2. u \notin died' => u \notin died
  BY DEF Quiet
<1> QED
  BY <1>1, <1>2, QuietCancel, QuietOnce, QuietAgree DEF Sole

(* A user's own delivery, the only one.                                    *)
LEMMA SoleMove ==
    ASSUME Typed, NEW u \in Users, NEW w \in Workers, InFlight(u) = {w},
           NEW label, NEW m, Move(w, label, m), label # "idle" => m.event = mem[w].event
    PROVE  /\ InFlight(u)' = IF label = "idle" THEN {} ELSE {w}
           /\ pc'[w] = label /\ mem'[w] = m
<1>1. PayerOf(mem[w].event) = u
  BY DEF InFlight
<1> QED
  BY <1>1, MoveOnly DEF InFlight, PayerOf

LEMMA BeginSole ==
    ASSUME Typed, NEW u \in Users, Sole(u), NEW w \in Workers, NEW e \in Events,
           HandleWebhook(w, e), PayerOf(e) = u
    PROVE  Sole(u)'
<1> SUFFICES ASSUME u \notin crossed' PROVE Sole(u)'
  BY DEF Sole
<1>1. InFlight(u) = {} /\ u \notin crossed
  BY DEF HandleWebhook, TakeUp
<1>2. /\ pc'[w] = "resolve" /\ mem'[w].event = e
      /\ \A v \in Workers : v # w => pc'[v] = pc[v] /\ mem'[v] = mem[v]
  BY MoveOnly DEF HandleWebhook, TakeUp, Blank
<1>3. InFlight(u)' = {w}
  BY <1>1, <1>2 DEF InFlight, PayerOf
<1>4. ~AtSecond(w)'
  BY <1>2 DEF AtSecond, Tables
<1>5. UNCHANGED <<user, tx, last, written, recorded, died>> /\ e \notin recorded
  BY DEF HandleWebhook, TakeUp
<1>6. CancelInv(u)'
  BY <1>1, <1>3, <1>4, <1>5 DEF CancelInv, Sole
<1>7. ASSUME u \notin died PROVE OnceInv(u)' /\ AgreeInv(u)'
  <2>1. OnceInv(u) /\ AgreeInv(u)
    BY <1>1, <1>7 DEF Sole
  <2>2. OnceInv(u)'
    BY <1>1, <1>2, <1>3, <1>5, <2>1 DEF OnceInv, PayerOf, FirstWrite, Tables
  <2>3. AgreeInv(u)'
    BY <1>1, <1>3, <1>4, <1>5, <2>1 DEF AgreeInv, Agrees, PayerOf, SubscriptionStatus, PaymentStatus
  <2> QED
    BY <2>2, <2>3
<1> QED
  BY <1>3, <1>5, <1>6, <1>7 DEF Sole, Alone

(* A move without a write: the delivery goes on to its first write, or to  *)
(* record what asks for none, or ends there.                               *)
LEMMA MoveSole ==
    ASSUME Typed, NEW u \in Users, CancelInv(u), NEW w \in Workers, InFlight(u) = {w},
           NEW label \in Labels, NEW m, Move(w, label, m),
           label # "idle" => m.event = mem[w].event,
           label \in Tables => label = FirstWrite(mem[w].event),
           UNCHANGED <<user, tx, last, written>>
    PROVE  /\ CancelInv(u)' /\ Alone(u)'
           /\ AgreeInv(u) /\ ~AtSecond(w) => AgreeInv(u)'
<1>1. InFlight(u)' = (IF label = "idle" THEN {} ELSE {w}) /\ pc'[w] = label /\ mem'[w] = m
  BY SoleMove
<1>2. \A v \in InFlight(u)' : ~AtSecond(v)'
  BY <1>1 DEF AtSecond, FirstWrite, Tables
<1> QED
  BY <1>1, <1>2
  DEF CancelInv, Alone, AgreeInv, Agrees, PayerOf, SubscriptionStatus, PaymentStatus

LEMMA ResolveSole ==
    ASSUME Typed, NEW u \in Users, Sole(u), NEW w \in InFlight(u), ResolveUser(w)
    PROVE  Sole(u)'
<1> SUFFICES ASSUME u \notin crossed' PROVE Sole(u)'
  BY DEF Sole
<1> DEFINE e == mem[w].event
<1>1. /\ u \notin crossed /\ InFlight(u) = {w} /\ CancelInv(u) /\ w \in Workers
      /\ e \in Events /\ PayerOf(e) = u
  BY InFlightEvents DEF ResolveUser, Sole, Alone
<1>2. UNCHANGED <<user, tx, last, written, recorded, died>> /\ pc[w] = "resolve"
  BY DEF ResolveUser
<1>3. PICK label \in {"idle", FirstWrite(e), "record"}, m \in MemRows :
          Move(w, label, m) /\ (label # "idle" => m.event = e)
  BY ResolvedMove, <1>1 DEF KeepsEvent
<1>4. label \in Labels /\ (label \in Tables => label = FirstWrite(e))
  BY <1>1, <1>3, WriteOrder DEF Labels, Tables
<1>5. InFlight(u)' = (IF label = "idle" THEN {} ELSE {w}) /\ pc'[w] = label /\ mem'[w] = m
  BY <1>1, <1>3, SoleMove
<1>6. CancelInv(u)' /\ Alone(u)' /\ (AgreeInv(u) /\ ~AtSecond(w) => AgreeInv(u)')
  BY <1>1, <1>2, <1>3, <1>4, MoveSole
<1>7. ASSUME u \notin died PROVE OnceInv(u)' /\ AgreeInv(u)'
  <2>1. OnceInv(u) /\ AgreeInv(u) /\ ~AtSecond(w)
    BY <1>1, <1>2, <1>7 DEF Sole, AtSecond, Tables
  <2>2. e \notin recorded /\ \A t \in Tables : written[e][t] = 0
    BY <1>1, <1>2, <2>1 DEF OnceInv
  <2>3. OnceInv(u)'
    BY <1>1, <1>2, <1>3, <1>5, <2>1, <2>2 DEF OnceInv, PayerOf, FirstWrite
  <2> QED
    BY <1>6, <2>1, <2>3
<1> QED
  BY <1>2, <1>6, <1>7 DEF Sole

LEMMA RecordSole ==
    ASSUME Typed, NEW u \in Users, Sole(u), NEW w \in InFlight(u), RecordEvent(w)
    PROVE  Sole(u)'
<1> SUFFICES ASSUME u \notin crossed' PROVE Sole(u)'
  BY DEF Sole
<1> DEFINE e == mem[w].event
<1>1. /\ u \notin crossed /\ InFlight(u) = {w} /\ CancelInv(u) /\ w \in Workers
      /\ e \in Events
  BY InFlightEvents DEF RecordEvent, Sole, Alone
<1>2. /\ UNCHANGED <<user, tx, last, written, died>> /\ pc[w] = "record"
      /\ recorded' = recorded \cup {e} /\ Move(w, "idle", Blank)
  BY DEF RecordEvent, Return
<1>3. InFlight(u)' = {}
  BY <1>1, <1>2, SoleMove
<1>4. CancelInv(u)' /\ Alone(u)' /\ (AgreeInv(u) /\ ~AtSecond(w) => AgreeInv(u)')
  BY <1>1, <1>2, MoveSole DEF Labels, Tables
<1>5. ASSUME u \notin died PROVE OnceInv(u)' /\ AgreeInv(u)'
  <2>1. OnceInv(u) /\ AgreeInv(u) /\ ~AtSecond(w)
    BY <1>1, <1>2, <1>5 DEF Sole, AtSecond, Tables
  <2>2. OnceInv(u)'
    BY <1>1, <1>2, <1>3, <2>1 DEF OnceInv, PayerOf, FirstWrite
  <2> QED
    BY <1>4, <2>1, <2>2
<1> QED
  BY <1>2, <1>4, <1>5 DEF Sole

LEMMA FailSole ==
    ASSUME Typed, NEW u \in Users, Sole(u), NEW w \in InFlight(u), Fail(w)
    PROVE  Sole(u)'
<1> SUFFICES ASSUME u \notin crossed' PROVE Sole(u)'
  BY DEF Sole
<1>1. u \notin crossed /\ InFlight(u) = {w} /\ CancelInv(u) /\ w \in Workers
  BY InFlightEvents DEF Fail, Sole, Alone
<1>2. UNCHANGED <<user, tx, last, written>> /\ u \in died' /\ Move(w, "idle", Blank)
  BY InFlightEvents DEF Fail, Return
<1>3. CancelInv(u)' /\ Alone(u)'
  BY <1>1, <1>2, MoveSole DEF Labels, Tables
<1> QED
  BY <1>2, <1>3 DEF Sole

LEMMA WriteOnce ==
    ASSUME Typed, NEW u \in Users, OnceInv(u), NEW w \in Workers, InFlight(u) = {w},
           pc[w] \in Tables, Wrote(w)
    PROVE  OnceInv(u)'
<1> DEFINE e == mem[w].event
<1>1. /\ e \in Events /\ PayerOf(e) = u /\ e \notin recorded /\ recorded' = recorded
      /\ written[e][pc[w]] = 0
  BY InFlightEvents DEF OnceInv, Wrote
<1>2. /\ mem'[w] = mem[w]
      /\ IF AtSecond(w) THEN pc'[w] = "record"
         ELSE pc[w] = FirstWrite(e) /\ pc'[w] \in Tables /\ pc'[w] # pc[w]
  BY WriteMoves
<1>3. InFlight(u)' = {w}
  BY <1>1, <1>2, WriteMoves DEF InFlight, PayerOf, Tables
<1>4. \A f \in Events, t \in Tables :
          written'[f][t] = IF f = e /\ t = pc[w] THEN written[f][t] + 1 ELSE written[f][t]
  BY WroteType
<1>5. \A t \in Tables : written'[e][t] \in {0, 1}
  BY <1>1, <1>4 DEF OnceInv
<1>6. pc'[w] \in Tables => written'[e][pc'[w]] = 0
  BY <1>1, <1>2, <1>4 DEF OnceInv, Tables
<1>7. pc'[w] \notin {"resolve", FirstWrite(e)}
  BY <1>2 DEF Tables, FirstWrite
<1>8. \A f \in Events : PayerOf(f) = u /\ f # e =>
        /\ \A t \in Tables : written'[f][t] \in {0, 1}
        /\ f \notin recorded' => \A t \in Tables : written'[f][t] = 0
  BY <1>1, <1>4 DEF OnceInv
<1> QED
  BY <1>1, <1>2, <1>3, <1>5, <1>6, <1>7, <1>8 DEF OnceInv, PayerOf, FirstWrite

LEMMA TransactionSole ==
    ASSUME Typed, PayerInv, NEW u \in Users, Sole(u), NEW w \in InFlight(u),
           UpsertPaymentTransaction(w)
    PROVE  Sole(u)'
<1> SUFFICES ASSUME u \notin crossed' PROVE Sole(u)'
  BY DEF Sole
<1> DEFINE e == mem[w].event  r == Reference[e]
<1>1. /\ w \in Workers /\ pc[w] = "transaction" /\ Wrote(w)
      /\ UNCHANGED <<user, last, crossed, died>>
  BY InFlightEvents DEF UpsertPaymentTransaction, Wrote
<1>2. /\ InFlight(u) = {w} /\ CancelInv(u)
      /\ e \in Events /\ PayerOf(e) = u /\ Type[e] # "other" /\ r \in References
  BY <1>1, InFlightEvents DEF Sole, Alone, PayerInv, Tables
<1>3. /\ tx'[r] \in Transactions /\ tx'[r] # Null /\ tx'[r].status = PaymentStatus(e)
      /\ Type[e] \in Activations => tx'[r].end = mem[w].end
      /\ \A q \in References : q # r => tx'[q] = tx[q]
  <2>1. /\ tx' = [tx EXCEPT ![r] = Upserted(tx[r], mem[w])]
        /\ Upserted(tx[r], mem[w]) \in Transactions
    BY <1>1, TransactionWritten
  <2>2. /\ Upserted(tx[r], mem[w]).status = PaymentStatus(e)
        /\ Type[e] \in Activations => Upserted(tx[r], mem[w]).end = mem[w].end
    BY DEF Upserted
  <2> QED
    BY <1>2, <2>1, <2>2, RowsAssumption DEF Typed
<1>4. /\ mem'[w] = mem[w] /\ (AtSecond(w) => pc'[w] = "record")
      /\ AtSecond(w)' <=> ~AtSecond(w)
      /\ AtSecond(w) <=> Type[e] \in Deactivations
  BY <1>1, WriteMoves DEF Tables, AtSecond, FirstWrite
<1>5. InFlight(u)' = {w}
  BY <1>1, <1>2, <1>4, WriteMoves DEF InFlight, PayerOf, Tables
<1>6. CancelInv(u)'
  <2>1. tx'[r].status = "CANCELED" => Type[e] \in Deactivations
    BY <1>2, <1>3, Statuses, EventTyped DEF Types, Activations, Deactivations
  <2>2. \A q \in References :
            /\ tx'[q] # Null /\ tx'[q].status = "CANCELED" /\ user'[u].reference = q
            => user'[u].status # "ACTIVE"
    BY <1>1, <1>2, <1>3, <1>4, <2>1 DEF CancelInv
  <2> QED
    BY <1>3, <1>4, <1>5, <2>2 DEF CancelInv, PaymentStatus
<1>7. ASSUME u \notin died PROVE OnceInv(u)' /\ AgreeInv(u)'
  <2>1. OnceInv(u) /\ AgreeInv(u)
    BY <1>1, <1>7 DEF Sole
  <2>2. OnceInv(u)'
    BY <1>1, <1>2, <2>1, WriteOnce DEF Tables
  <2>3. AtSecond(w) => Agrees(u)'
    BY <1>1, <1>2, <1>3, <1>4, <2>1, Statuses
    DEF AgreeInv, Agrees, SubscriptionStatus, PaymentStatus, Activations, Deactivations
  <2>4. AgreeInv(u)'
    BY <1>1, <1>2, <1>3, <1>4, <1>5, <2>1, <2>3 DEF AgreeInv, PayerOf, SubscriptionStatus
  <2> QED
    BY <2>2, <2>4
<1> QED
  BY <1>1, <1>5, <1>6, <1>7 DEF Sole, Alone

LEMMA SubscriberSole ==
    ASSUME Typed, PayerInv, NEW u \in Users, Sole(u), NEW w \in InFlight(u),
           UpdateSubscriber(w)
    PROVE  Sole(u)'
<1> SUFFICES ASSUME u \notin crossed' PROVE Sole(u)'
  BY DEF Sole
<1> DEFINE e == mem[w].event  r == Reference[e]
<1>1. /\ w \in Workers /\ pc[w] = "subscriber" /\ Wrote(w)
      /\ UNCHANGED <<tx, crossed, died>>
  BY InFlightEvents DEF UpdateSubscriber, Wrote
<1>2. /\ InFlight(u) = {w} /\ CancelInv(u) /\ mem[w].user = u
      /\ e \in Events /\ PayerOf(e) = u /\ Type[e] # "other" /\ r \in References
  BY <1>1, InFlightEvents DEF Sole, Alone, PayerInv, Tables
<1>3. /\ user'[u].status = SubscriptionStatus(e)
      /\ Type[e] \in Activations => user'[u].reference = r /\ user'[u].expiresAt = mem[w].end
      /\ last'[u] = e
  <2>1. last'[u] = e
    BY <1>2 DEF UpdateSubscriber, Typed
  <2>2. Type[e] \in Activations => Type[e] # "payment.failed"
    BY DEF Activations
  <2> QED
    BY <1>1, <1>2, <2>1, <2>2, SubscriberWritten
<1>4. /\ mem'[w] = mem[w]
      /\ AtSecond(w)' <=> ~AtSecond(w)
      /\ AtSecond(w) <=> Type[e] \notin Deactivations
  BY <1>1, WriteMoves DEF Tables, AtSecond, FirstWrite
<1>5. InFlight(u)' = {w}
  BY <1>1, <1>2, <1>4, WriteMoves DEF InFlight, PayerOf, Tables
<1>6. /\ user'[u].status = "ACTIVE" <=> Type[e] \in Activations
      /\ Type[e] \in Activations => PaymentStatus(e) = "SUCCESS" /\ Type[e] \notin Deactivations
  BY <1>2, <1>3, Statuses DEF Activations, Deactivations
<1>7. AtSecond(w) => tx[r] # Null /\ tx[r].status = PaymentStatus(e)
  BY <1>2, <1>4 DEF CancelInv
<1>8. CancelInv(u)'
  <2>1. \A q \in References :
            /\ tx'[q] # Null /\ tx'[q].status = "CANCELED" /\ user'[u].reference = q
            => user'[u].status # "ACTIVE"
    BY <1>1, <1>3, <1>4, <1>6, <1>7
  <2>2. AtSecond(w)' => Type[e] \in Deactivations /\ user'[u].status # "ACTIVE"
    BY <1>4, <1>6
  <2> QED
    BY <1>4, <1>5, <2>1, <2>2 DEF CancelInv
<1>9. ASSUME u \notin died PROVE OnceInv(u)' /\ AgreeInv(u)'
  <2>1. OnceInv(u) /\ AgreeInv(u)
    BY <1>1, <1>9 DEF Sole
  <2>2. OnceInv(u)'
    BY <1>1, <1>2, <2>1, WriteOnce DEF Tables
  <2>3. AtSecond(w) /\ Type[e] \in Activations => tx[r].end = mem[w].end
    BY <1>2, <1>4, <2>1 DEF AgreeInv
  <2>4. AtSecond(w) => Agrees(u)'
    BY <1>1, <1>3, <1>6, <1>7, <2>3 DEF Agrees, SubscriptionStatus, PaymentStatus
  <2>5. AgreeInv(u)'
    BY <1>2, <1>3, <1>4, <1>5, <2>4 DEF AgreeInv, PayerOf, SubscriptionStatus
  <2> QED
    BY <2>2, <2>5
<1> QED
  BY <1>1, <1>5, <1>8, <1>9 DEF Sole, Alone

(* What any step is to one user: nothing, or a step of a delivery of theirs. *)
LEMMA OtherWrite ==
    ASSUME Typed, PayerInv, NEW u \in Users, NEW w \in Workers, w \notin InFlight(u),
           UpsertPaymentTransaction(w) \/ UpdateSubscriber(w)
    PROVE  Quiet(u)
<1> DEFINE e == mem[w].event
<1>1. /\ pc[w] \in Tables /\ Wrote(w) /\ e \in Events /\ mem[w].user = PayerOf(e)
      /\ PayerOf(e) # u
  BY DEF UpsertPaymentTransaction, UpdateSubscriber, Tables, Typed, ControlOK, PayerInv, InFlight
<1>2. /\ mem'[w] = mem[w] /\ pc'[w] # "idle"
      /\ \A v \in Workers : v # w => pc'[v] = pc[v] /\ mem'[v] = mem[v]
  BY <1>1, WriteMoves DEF Tables
<1>3. InFlight(u)' = InFlight(u)
      /\ \A v \in InFlight(u) : pc'[v] = pc[v] /\ mem'[v] = mem[v]
  BY <1>1, <1>2 DEF InFlight, PayerOf
<1>4. user'[u] = user[u] /\ last'[u] = last[u]
  BY <1>1, SubscriberWritten DEF UpsertPaymentTransaction, UpdateSubscriber, Typed
<1>5. \A r \in References : Payer[r] = u => tx'[r] = tx[r]
  BY <1>1, TransactionWritten DEF UpdateSubscriber, PayerOf, Typed
<1>6. \A f \in Events : f # e => written'[f] = written[f]
  BY <1>1 DEF Wrote, Typed
<1> QED
  BY <1>1, <1>3, <1>4, <1>5, <1>6 DEF Quiet, Wrote

LEMMA OtherMove ==
    ASSUME Typed, NEW u \in Users, NEW w \in Workers, w \notin InFlight(u), pc[w] # "idle",
           ResolveUser(w) \/ RecordEvent(w) \/ Fail(w)
    PROVE  Quiet(u)
<1> DEFINE e == mem[w].event
<1>1. e \in Events /\ PayerOf(e) # u
  BY DEF Typed, ControlOK, InFlight
<1>2. \E label \in {"idle", FirstWrite(e), "record"}, m \in MemRows :
          Move(w, label, m) /\ (label # "idle" => m.event = e)
  BY ResolvedMove, BlankType DEF KeepsEvent, RecordEvent, Fail, Return
<1>3. InFlight(u)' = InFlight(u)
      /\ \A v \in InFlight(u) : pc'[v] = pc[v] /\ mem'[v] = mem[v]
  BY <1>1, <1>2, MoveOnly DEF InFlight, PayerOf
<1> QED
  BY <1>1, <1>3 DEF Quiet, ResolveUser, RecordEvent, Fail

LEMMA SoleStep == Typed /\ PayerInv /\ PaidInv /\ SoleInv /\ [Next]_vars => SoleInv'
<1> SUFFICES ASSUME Typed, PayerInv, PaidInv, SoleInv, [Next]_vars, NEW u \in Users
             PROVE  Sole(u)'
  BY DEF SoleInv
<1>0. Sole(u)
  BY DEF SoleInv
<1>1. ASSUME NEW w \in Workers, NEW e \in Events, HandleWebhook(w, e) PROVE Sole(u)'
  <2>1. CASE PayerOf(e) = u
    BY <1>0, <1>1, <2>1, BeginSole
  <2>2. CASE PayerOf(e) # u
    <3>1. w \notin InFlight(u) /\ mem'[w].event = e
          /\ \A v \in Workers : v # w => pc'[v] = pc[v] /\ mem'[v] = mem[v]
      BY <1>1, MoveOnly DEF HandleWebhook, TakeUp, InFlight, Blank
    <3>2. InFlight(u)' = InFlight(u)
          /\ \A v \in InFlight(u) : pc'[v] = pc[v] /\ mem'[v] = mem[v]
      BY <2>2, <3>1 DEF InFlight, PayerOf
    <3>3. Quiet(u)
      BY <1>1, <3>2 DEF Quiet, HandleWebhook, TakeUp
    <3> QED
      BY <1>0, <3>3, QuietSole
  <2> QED
    BY <2>1, <2>2
<1>2. ASSUME NEW w \in InFlight(u),
             \/ ResolveUser(w) \/ UpsertPaymentTransaction(w) \/ UpdateSubscriber(w)
             \/ RecordEvent(w) \/ Fail(w)
      PROVE  Sole(u)'
  BY <1>0, <1>2, ResolveSole, TransactionSole, SubscriberSole, RecordSole, FailSole
<1>3. ASSUME NEW w \in Workers, w \notin InFlight(u),
             \/ ResolveUser(w) \/ UpsertPaymentTransaction(w) \/ UpdateSubscriber(w)
             \/ RecordEvent(w) \/ Fail(w)
      PROVE  Sole(u)'
  <2>1. pc[w] # "idle"
    BY <1>3 DEF ResolveUser, UpsertPaymentTransaction, UpdateSubscriber, RecordEvent, Fail
  <2> QED
    BY <1>0, <1>3, <2>1, OtherMove, OtherWrite, QuietSole
<1>4. ASSUME NEW r \in References, CreateCheckout(r) PROVE Sole(u)'
  <2>1. \A q \in References :
            tx'[q] = tx[q] \/ (tx[q] = Null /\ tx'[q] # Null /\ tx'[q].status = "PENDING")
    <3> DEFINE row == [user |-> Payer[r], status |-> "PENDING", end |-> Null]
    <3>1. row \in Transactions /\ row.status = "PENDING"
      BY ProviderAssumption DEF Transactions
    <3>2. tx[r] = Null /\ tx' = [tx EXCEPT ![r] = row]
      BY <1>4 DEF CreateCheckout
    <3> HIDE DEF row
    <3> QED
      BY <3>1, <3>2, RowsAssumption DEF Typed
  <2>2. Quiet(u)
    BY <1>4, <2>1 DEF CreateCheckout, Quiet, InFlight, PayerOf
  <2> QED
    BY <1>0, <2>2, QuietSole
<1>5. CASE UNCHANGED <<user, tx, recorded, pc, mem, written, last, crossed, died>>
  BY <1>0, <1>5, QuietSole DEF Quiet, InFlight, PayerOf
<1> QED
  BY <1>1, <1>2, <1>3, <1>4, <1>5 DEF Next, Deliver, TurnAway, Tick, vars

LEMMA AlwaysSole == Spec => []SoleInv
<1>1. Init => SoleInv
  BY DEF Init, SoleInv, Sole, Alone, CancelInv, OnceInv, AgreeInv, Agrees, InFlight
<1> QED
  BY <1>1, SoleStep, AlwaysTyped, AlwaysPaid, PTL DEF Spec

(* While a user's deliveries do not overlap, a transaction is CANCELED     *)
(* only once the subscription it paid for is, deaths between the two       *)
(* writes included.                                                        *)
THEOREM CanceledAlwaysEnds == Spec => []CanceledEndsAccess
<1>1. SoleInv => CanceledEndsAccess
  BY DEF SoleInv, Sole, CancelInv, CanceledEndsAccess
<1> QED
  BY <1>1, AlwaysSole, PTL

(* An event of a user whose deliveries neither overlap nor die writes each *)
(* table at most once, however often it is delivered.                      *)
THEOREM SoleDeliveryOnce == Spec => []SoleDeliveryAppliesOnce
<1>1. SoleInv => SoleDeliveryAppliesOnce
  BY EventTyped DEF SoleInv, Sole, OnceInv, SoleDeliveryAppliesOnce
<1> QED
  BY <1>1, AlwaysSole, PTL

(* And between such deliveries both tables tell what the last event told.  *)
THEOREM TablesAlwaysAgree == Spec => []TablesAgree
<1>1. SoleInv => TablesAgree
  BY DEF SoleInv, Sole, AgreeInv, Agrees, TablesAgree
<1> QED
  BY <1>1, AlwaysSole, PTL
=============================================================================
