------------------------- MODULE ReliabilityProofs -------------------------
(* Machine-checked proofs about Reliability, for any users and handlers,   *)
(* any penalties, thresholds and hours.                                    *)
EXTENDS Reliability, TLAPS

-----------------------------------------------------------------------------
(* What the service computes.                                              *)

LEMMA Normalized ==
    ASSUME NEW n \in Int
    PROVE  NormalizeScore(n) \in 0 .. 100 /\ NormalizeScore(n) \in Int
BY DEF NormalizeScore

LEMMA NormalizedBound ==
    ASSUME NEW n \in Int, NEW k \in Int, k <= 100, n >= k
    PROVE  NormalizeScore(n) >= k
BY DEF NormalizeScore

LEMMA NormalizedTwice ==
    ASSUME NEW n \in Int, n <= 100, NEW p \in Nat
    PROVE  NormalizeScore(NormalizeScore(n) - p) = NormalizeScore(n - p)
BY DEF NormalizeScore

LEMMA ExtendedType ==
    ASSUME clock \in Nat, NEW until \in Times, NEW h \in Nat \ {0}
    PROVE  /\ Extended(until, h) \in Times
           /\ Extended(until, h) # Null
           /\ until # Null => Extended(until, h) >= until
           /\ Extended(until, h) = until \/ Extended(until, h) = clock + h
BY NullNotATime DEF Extended, Times

MemRows == [u : Users \cup {Null}, call : Calls, row : UserRows, points : Nat,
            cooldown : ManualHours \cup {Null}, block : ManualHours \cup {Null}]
Labels == {"idle", "admitted", "update", "append"}

ControlOK ==
    /\ pc \in [Workers -> Labels]
    /\ mem \in [Workers -> MemRows]
    /\ \A w \in Workers : pc[w] # "idle" => mem[w].u \in Users

LEMMA BlankType == Blank \in MemRows
BY DEF Blank, MemRows, Calls, Registered, UserRows, Times

LEMMA MoveType ==
    ASSUME ControlOK, NEW w \in Workers, NEW label \in Labels, NEW m \in MemRows,
           label # "idle" => m.u \in Users, Move(w, label, m)
    PROVE  ControlOK'
BY DEF ControlOK, Move

LEMMA DoneType ==
    ASSUME ControlOK, NEW w \in Workers, Done(w)
    PROVE  ControlOK'
BY MoveType, BlankType DEF Done, Labels

(* The three updates, field by field.                                      *)
LEMMA CancellationWritten ==
    ASSUME clock \in Nat, NEW row \in UserRows, NEW read \in UserRows
    PROVE  LET new == WithCancellation(row, read)
           IN  /\ new \in UserRows
               /\ new.score = NormalizeScore(read.score - CancelPenalty)
               /\ new.cancellations = read.cancellations + 1
               /\ new.noShows = row.noShows
               /\ new.cooldownUntil = read.cooldownUntil
                     \/ new.cooldownUntil = Extended(read.cooldownUntil, CooldownHours)
               /\ new.blockedUntil = row.blockedUntil
<1> DEFINE s == NormalizeScore(read.score - CancelPenalty)
           n == read.cancellations + 1
           c == IF read.cancellations + 1 >= CooldownAfter
                THEN Extended(read.cooldownUntil, CooldownHours) ELSE read.cooldownUntil
<1>1. /\ read.score \in Int /\ read.cancellations \in Nat
      /\ read.cooldownUntil \in Times
  BY DEF UserRows
<1>2. s \in Int /\ n \in Nat
  BY <1>1, Normalized, PenaltiesAssumption
<1>3. c \in Times /\ (c = read.cooldownUntil
                      \/ c = Extended(read.cooldownUntil, CooldownHours))
  BY <1>1, ExtendedType, HoursAssumption
<1> DEFINE new == [row EXCEPT !.score = s, !.cancellations = n, !.cooldownUntil = c]
<1>4. WithCancellation(row, read) = new
  BY DEF WithCancellation
<1> HIDE DEF s, n, c
<1>5. /\ new \in UserRows /\ new.score = s /\ new.cancellations = n
      /\ new.noShows = row.noShows
      /\ new.cooldownUntil = c /\ new.blockedUntil = row.blockedUntil
  BY <1>2, <1>3 DEF UserRows
<1> HIDE DEF new
<1> QED
  BY <1>3, <1>4, <1>5 DEF s, n

LEMMA NoShowWritten ==
    ASSUME clock \in Nat, NEW row \in UserRows, NEW read \in UserRows
    PROVE  LET new == WithNoShow(row, read)
           IN  /\ new \in UserRows
               /\ new.score = NormalizeScore(read.score - NoShowPenalty)
               /\ new.noShows = read.noShows + 1
               /\ new.cancellations = row.cancellations
               /\ new.cooldownUntil = row.cooldownUntil
               /\ new.blockedUntil = read.blockedUntil
                     \/ new.blockedUntil = Extended(read.blockedUntil, BlockHours)
<1> DEFINE s == NormalizeScore(read.score - NoShowPenalty)
           n == read.noShows + 1
           b == IF read.noShows + 1 >= BlockAfter
                THEN Extended(read.blockedUntil, BlockHours) ELSE read.blockedUntil
<1>1. read.score \in Int /\ read.noShows \in Nat /\ read.blockedUntil \in Times
  BY DEF UserRows
<1>2. s \in Int /\ n \in Nat
  BY <1>1, Normalized, PenaltiesAssumption
<1>3. b \in Times /\ (b = read.blockedUntil \/ b = Extended(read.blockedUntil, BlockHours))
  BY <1>1, ExtendedType, HoursAssumption
<1> DEFINE new == [row EXCEPT !.score = s, !.noShows = n, !.blockedUntil = b]
<1>4. WithNoShow(row, read) = new
  BY DEF WithNoShow
<1> HIDE DEF s, n, b
<1>5. /\ new \in UserRows /\ new.score = s /\ new.noShows = n
      /\ new.cancellations = row.cancellations
      /\ new.cooldownUntil = row.cooldownUntil /\ new.blockedUntil = b
  BY <1>2, <1>3 DEF UserRows
<1> HIDE DEF new
<1> QED
  BY <1>3, <1>4, <1>5 DEF s, n

LEMMA ManualWritten ==
    ASSUME clock \in Nat, NEW row \in UserRows, NEW m \in MemRows
    PROVE  LET new == WithManualPenalty(row, m)
           IN  /\ new \in UserRows
               /\ new.score = NormalizeScore(m.row.score - m.points)
               /\ new.cancellations = row.cancellations /\ new.noShows = row.noShows
               /\ new.cooldownUntil = m.row.cooldownUntil
                     \/ \E h \in ManualHours : new.cooldownUntil = clock + h
               /\ new.blockedUntil = m.row.blockedUntil
                     \/ \E h \in ManualHours : new.blockedUntil = clock + h
<1> DEFINE s == NormalizeScore(m.row.score - m.points)
           c == IF m.cooldown # Null THEN clock + m.cooldown ELSE m.row.cooldownUntil
           b == IF m.block # Null THEN clock + m.block ELSE m.row.blockedUntil
<1>0. /\ m.row \in UserRows /\ m.points \in Nat
      /\ m.cooldown \in ManualHours \cup {Null} /\ m.block \in ManualHours \cup {Null}
  BY DEF MemRows
<1>1. /\ m.row.score \in Int /\ m.row.cooldownUntil \in Times
      /\ m.row.blockedUntil \in Times
  BY <1>0 DEF UserRows
<1>2. s \in Int
  BY <1>0, <1>1, Normalized
<1>3. \A h \in ManualHours : h \in Nat /\ clock + h \in Times
  BY HoursAssumption DEF Times
<1>4. c \in Times /\ (c = m.row.cooldownUntil \/ \E h \in ManualHours : c = clock + h)
  <2>1. CASE m.cooldown = Null
    BY <2>1, <1>1
  <2>2. CASE m.cooldown \in ManualHours /\ m.cooldown # Null
    BY <2>2, <1>3
  <2> QED
    BY <1>0, <2>1, <2>2
<1>5. b \in Times /\ (b = m.row.blockedUntil \/ \E h \in ManualHours : b = clock + h)
  <2>1. CASE m.block = Null
    BY <2>1, <1>1
  <2>2. CASE m.block \in ManualHours /\ m.block # Null
    BY <2>2, <1>3
  <2> QED
    BY <1>0, <2>1, <2>2
<1> DEFINE new == [row EXCEPT !.score = s, !.cooldownUntil = c, !.blockedUntil = b]
<1>6. WithManualPenalty(row, m) = new
  BY DEF WithManualPenalty
<1> HIDE DEF s, c, b
<1>7. /\ new \in UserRows /\ new.score = s
      /\ new.cancellations = row.cancellations /\ new.noShows = row.noShows
      /\ new.cooldownUntil = c /\ new.blockedUntil = b
  BY <1>2, <1>4, <1>5 DEF UserRows
<1> HIDE DEF new
<1> QED
  BY <1>4, <1>5, <1>6, <1>7 DEF s

LEMMA WriteTypes ==
    ASSUME clock \in Nat, NEW row \in UserRows, NEW m \in MemRows
    PROVE  /\ WithCancellation(row, m.row) \in UserRows
           /\ WithCancellation(row, m.row).score \in 0 .. 100
           /\ WithNoShow(row, m.row) \in UserRows
           /\ WithNoShow(row, m.row).score \in 0 .. 100
           /\ WithManualPenalty(row, m) \in UserRows
           /\ WithManualPenalty(row, m).score \in 0 .. 100
<1>1. m.row \in UserRows /\ m.row.score \in Int /\ m.points \in Nat
  BY DEF MemRows, UserRows
<1>2. /\ NormalizeScore(m.row.score - CancelPenalty) \in 0 .. 100
      /\ NormalizeScore(m.row.score - NoShowPenalty) \in 0 .. 100
      /\ NormalizeScore(m.row.score - m.points) \in 0 .. 100
  BY <1>1, Normalized, PenaltiesAssumption
<1> QED
  BY <1>1, <1>2, CancellationWritten, NoShowWritten, ManualWritten

LEMMA AddedType ==
    ASSUME NEW t \in Totals, NEW m \in MemRows
    PROVE  Added(t, m) \in Totals
BY DEF Added, Totals, MemRows

(* TypeOK with its control part named, before and after a step.            *)
Typed ==
    /\ clock \in Nat
    /\ user \in [Users -> UserRows]
    /\ \A u \in Users : user[u].score \in 0 .. 100
    /\ events \in [Users -> Totals]
    /\ charged \in [Users -> Totals]
    /\ ControlOK
    /\ crossed \subseteq Users
    /\ calls \in Nat /\ fails \in Nat

LEMMA TypeParts == TypeOK <=> Typed
BY DEF TypeOK, Typed, ControlOK, MemRows, Labels

-----------------------------------------------------------------------------
(* Type correctness: scores stay within 0 .. 100 in particular.            *)

LEMMA BeginsType ==
    ASSUME crossed \subseteq Users, NEW u \in Users, Begins(u)
    PROVE  crossed' \subseteq Users
BY DEF Begins

LEMMA CountedType ==
    ASSUME calls \in Nat, Counted
    PROVE  calls' \in Nat
BY DEF Counted

LEMMA TypeStep == Typed /\ [Next]_vars => Typed'
<1> SUFFICES ASSUME Typed, [Next]_vars PROVE Typed'
  OBVIOUS
<1> USE BlankType DEF Typed
<1>1. ASSUME NEW w \in Workers, CanActivate(w) PROVE Typed'
  <2>1. PICK u \in Users : Begins(u) /\ Move(w, "admitted", [Blank EXCEPT !.u = u])
    BY <1>1 DEF CanActivate
  <2>2. [Blank EXCEPT !.u = u] \in MemRows /\ [Blank EXCEPT !.u = u].u = u
    BY DEF Blank, MemRows
  <2>3. ControlOK' /\ crossed' \subseteq Users
    BY <2>1, <2>2, MoveType, BeginsType DEF Labels
  <2> QED
    BY <1>1, <2>3 DEF CanActivate
<1>2. ASSUME NEW w \in Workers, Return(w) PROVE Typed'
  BY <1>2, DoneType DEF Return
<1>3. ASSUME NEW w \in Workers, ReadForCancellation(w) PROVE Typed'
  <2> DEFINE m == [mem[w] EXCEPT !.call = "CANCELLATION", !.points = CancelPenalty,
                                 !.row = user[mem[w].u]]
  <2>1. mem[w] \in MemRows /\ mem[w].u \in Users
    BY <1>3 DEF ReadForCancellation, ControlOK
  <2>2. m \in MemRows /\ m.u = mem[w].u
    BY <2>1, PenaltiesAssumption DEF MemRows, Calls
  <2>3. ControlOK' /\ calls' \in Nat
    BY <1>3, <2>1, <2>2, MoveType, CountedType DEF ReadForCancellation, Labels
  <2> QED
    BY <1>3, <2>3 DEF ReadForCancellation
<1>4. ASSUME NEW w \in Workers, ReadForNoShow(w) PROVE Typed'
  <2> DEFINE m(u) == [Blank EXCEPT !.u = u, !.call = "NO_SHOW", !.points = NoShowPenalty,
                                   !.row = user[u]]
  <2>1. PICK u \in Users : Begins(u) /\ Move(w, "update", m(u))
    BY <1>4 DEF ReadForNoShow
  <2>2. m(u) \in MemRows /\ m(u).u = u
    BY PenaltiesAssumption DEF Blank, MemRows, Calls
  <2>3. ControlOK' /\ crossed' \subseteq Users /\ calls' \in Nat
    BY <1>4, <2>1, <2>2, MoveType, BeginsType, CountedType DEF ReadForNoShow, Labels
  <2> QED
    BY <1>4, <2>3 DEF ReadForNoShow
<1>5. ASSUME NEW w \in Workers, ReadForPenalty(w) PROVE Typed'
  <2> DEFINE m(u, n, c, b) == [u |-> u, call |-> "MANUAL_PENALTY", row |-> user[u],
                               points |-> n, cooldown |-> c, block |-> b]
  <2>1. PICK u \in Users, n \in ManualPenalties, c \in ManualHours \cup {Null},
             b \in ManualHours \cup {Null} :
           Begins(u) /\ Move(w, "update", m(u, n, c, b))
    BY <1>5 DEF ReadForPenalty
  <2>2. m(u, n, c, b) \in MemRows /\ m(u, n, c, b).u = u
    BY PenaltiesAssumption DEF MemRows, Calls
  <2>3. ControlOK' /\ crossed' \subseteq Users /\ calls' \in Nat
    BY <1>5, <2>1, <2>2, MoveType, BeginsType, CountedType DEF ReadForPenalty, Labels
  <2> QED
    BY <1>5, <2>3 DEF ReadForPenalty
<1>6. ASSUME NEW w \in Workers, NEW row \in UserRows, pc[w] = "update",
             row.score \in 0 .. 100, Write(w, row)
      PROVE Typed'
  <2>1. mem[w] \in MemRows /\ mem[w].u \in Users
    BY <1>6 DEF ControlOK
  <2>2. ControlOK'
    BY <1>6, <2>1, MoveType DEF Write, Labels
  <2>3. charged' \in [Users -> Totals]
    BY <1>6, <2>1, AddedType DEF Write
  <2>4. user' \in [Users -> UserRows] /\ \A u \in Users : user'[u].score \in 0 .. 100
    BY <1>6, <2>1 DEF Write
  <2> QED
    BY <1>6, <2>2, <2>3, <2>4 DEF Write
<1>7. ASSUME NEW w \in Workers,
             RecordCancellation(w) \/ RecordNoShow(w) \/ ApplyManualPenalty(w)
      PROVE Typed'
  <2>1. mem[w] \in MemRows /\ mem[w].u \in Users
    BY <1>7 DEF RecordCancellation, RecordNoShow, ApplyManualPenalty, ControlOK
  <2>2. user[mem[w].u] \in UserRows
    BY <2>1
  <2> QED
    BY <1>6, <1>7, <2>1, <2>2, WriteTypes
    DEF RecordCancellation, RecordNoShow, ApplyManualPenalty
<1>8. ASSUME NEW w \in Workers, ClearRestrictions(w) PROVE Typed'
  <2> DEFINE m(u) == [Blank EXCEPT !.u = u, !.call = "MANUAL_UNBLOCK"]
  <2>1. PICK u \in Users :
           /\ user' = [user EXCEPT ![u] = WithoutRestrictions(user[u])]
           /\ Begins(u) /\ Move(w, "append", m(u))
    BY <1>8 DEF ClearRestrictions
  <2>2. m(u) \in MemRows /\ m(u).u = u
    BY DEF Blank, MemRows, Calls
  <2>3. ControlOK' /\ crossed' \subseteq Users /\ calls' \in Nat
    BY <1>8, <2>1, <2>2, MoveType, BeginsType, CountedType DEF ClearRestrictions, Labels
  <2>4. user' \in [Users -> UserRows] /\ \A v \in Users : user'[v].score \in 0 .. 100
    BY <2>1 DEF WithoutRestrictions, UserRows, Times
  <2> QED
    BY <1>8, <2>3, <2>4 DEF ClearRestrictions
<1>9. ASSUME NEW w \in Workers, AppendEvent(w) PROVE Typed'
  <2>1. mem[w] \in MemRows /\ mem[w].u \in Users
    BY <1>9 DEF AppendEvent, ControlOK
  <2> QED
    BY <1>9, <2>1, DoneType, AddedType DEF AppendEvent
<1>10. ASSUME NEW w \in Workers, Fail(w) PROVE Typed'
  BY <1>10, DoneType DEF Fail
<1>11. ASSUME Tick PROVE Typed'
  BY <1>11 DEF Tick, ControlOK
<1>12. ASSUME UNCHANGED vars PROVE Typed'
  BY <1>12 DEF vars, ControlOK
<1> QED
  BY <1>1, <1>2, <1>3, <1>4, <1>5, <1>7, <1>8, <1>9, <1>10, <1>11, <1>12
  DEF Next, Handle, Refuse

THEOREM TypeCorrect == Spec => []TypeOK
<1>1. Init => Typed
  BY BlankType, BoundsAssumption
  DEF Typed, Init, ControlOK, Labels, Registered, UserRows, Times, Nothing, Totals
<1> QED
  BY <1>1, TypeStep, TypeParts, PTL DEF Spec

-----------------------------------------------------------------------------
(* Nobody is charged more than the penalties written, nor barred for       *)
(* longer than the longest restriction, and neither is the row a handler   *)
(* has read and is about to compute from.                                  *)

Barred(until, own, t) ==
    until # Null => \E h \in ManualHours \cup {own} : until <= t + h
Sound(row, totals, t) ==
    /\ row.score >= 100 - totals.points
    /\ row.cancellations <= totals.cancellations
    /\ row.noShows <= totals.noShows
    /\ Barred(row.cooldownUntil, CooldownHours, t)
    /\ Barred(row.blockedUntil, BlockHours, t)
Priced(m) ==
    /\ m.call = "CANCELLATION" => m.points = CancelPenalty
    /\ m.call = "NO_SHOW" => m.points = NoShowPenalty
SoundInv ==
    /\ Typed
    /\ \A u \in Users : Sound(user[u], charged[u], clock)
    /\ \A w \in Workers : pc[w] = "update" =>
          Sound(mem[w].row, charged[mem[w].u], clock) /\ Priced(mem[w])

AtLeast(t, totals) ==
    /\ t.points >= totals.points /\ t.cancellations >= totals.cancellations
    /\ t.noShows >= totals.noShows

LEMMA AddedAtLeast ==
    ASSUME NEW t \in Totals, NEW m \in MemRows
    PROVE  AtLeast(Added(t, m), t) /\ AtLeast(t, t)
BY DEF Added, AtLeast, Totals, MemRows

(* Sound stays true while penalties and time are only added.               *)
LEMMA BarredLater ==
    ASSUME NEW until \in Times, NEW own \in Nat, NEW t \in Nat, NEW t2 \in Nat, t2 >= t,
           Barred(until, own, t)
    PROVE  Barred(until, own, t2)
<1> SUFFICES ASSUME until # Null
             PROVE  \E h \in ManualHours \cup {own} : until <= t2 + h
  BY DEF Barred
<1>1. PICK h \in ManualHours \cup {own} : until <= t + h
  BY DEF Barred
<1>2. h \in Nat /\ until \in Int
  BY HoursAssumption DEF Times
<1>3. until <= t2 + h
  BY <1>1, <1>2
<1> QED
  BY <1>3

LEMMA SoundLater ==
    ASSUME NEW row \in UserRows, NEW a \in Totals, NEW b \in Totals, AtLeast(b, a),
           NEW t \in Nat, NEW t2 \in Nat, t2 >= t, Sound(row, a, t)
    PROVE  Sound(row, b, t2)
<1>1. row.cooldownUntil \in Times /\ row.blockedUntil \in Times
  BY DEF UserRows
<1>2. /\ Barred(row.cooldownUntil, CooldownHours, t2)
      /\ Barred(row.blockedUntil, BlockHours, t2)
  BY <1>1, BarredLater, HoursAssumption DEF Sound
<1>3. /\ row.score \in Int /\ row.cancellations \in Nat /\ row.noShows \in Nat
      /\ a.points \in Nat /\ a.cancellations \in Nat /\ a.noShows \in Nat
      /\ b.points \in Nat /\ b.cancellations \in Nat /\ b.noShows \in Nat
  BY DEF UserRows, Totals
<1> QED
  BY <1>2, <1>3 DEF Sound, AtLeast

LEMMA BarredNow ==
    ASSUME NEW own \in Nat, NEW h \in ManualHours \cup {own}, NEW t \in Nat
    PROVE  Barred(t + h, own, t)
<1>1. h \in Nat
  BY HoursAssumption
<1>2. t + h <= t + h
  BY <1>1
<1> QED
  BY <1>2 DEF Barred

(* The row each update writes is sound for the totals with the penalty.    *)
LEMMA SoundWritten ==
    ASSUME clock \in Nat, NEW row \in UserRows, NEW t \in Totals, NEW m \in MemRows,
           row.score \in 0 .. 100, m.row.score \in Int,
           Sound(row, t, clock), Sound(m.row, t, clock), Priced(m)
    PROVE  /\ m.call = "CANCELLATION" => Sound(WithCancellation(row, m.row), Added(t, m), clock)
           /\ m.call = "NO_SHOW" => Sound(WithNoShow(row, m.row), Added(t, m), clock)
           /\ m.call = "MANUAL_PENALTY" => Sound(WithManualPenalty(row, m), Added(t, m), clock)
<1> DEFINE a == Added(t, m)
<1>1. m.row \in UserRows /\ m.points \in Nat
  BY DEF MemRows
<1>2. /\ t.points \in Nat /\ t.cancellations \in Nat /\ t.noShows \in Nat
      /\ row.cancellations \in Nat /\ row.noShows \in Nat
      /\ m.row.cancellations \in Nat /\ m.row.noShows \in Nat
      /\ m.row.cooldownUntil \in Times /\ m.row.blockedUntil \in Times
      /\ row.cooldownUntil \in Times /\ row.blockedUntil \in Times
  BY <1>1 DEF Totals, UserRows
<1>3. /\ a.points = t.points + m.points
      /\ m.call = "CANCELLATION" => a.cancellations = t.cancellations + 1
      /\ m.call # "CANCELLATION" => a.cancellations = t.cancellations
      /\ m.call = "NO_SHOW" => a.noShows = t.noShows + 1
      /\ m.call # "NO_SHOW" => a.noShows = t.noShows
  BY <1>2 DEF Added
<1>4. NormalizeScore(m.row.score - m.points) >= 100 - a.points
  <2>1. m.row.score >= 100 - t.points
    BY DEF Sound
  <2>2. /\ m.row.score - m.points \in Int /\ 100 - a.points \in Int /\ 100 - a.points <= 100
        /\ m.row.score - m.points >= 100 - a.points
    BY <2>1, <1>1, <1>2, <1>3
  <2> QED
    BY <2>2, NormalizedBound
<1>5. /\ Barred(m.row.cooldownUntil, CooldownHours, clock)
      /\ Barred(m.row.blockedUntil, BlockHours, clock)
      /\ Barred(row.cooldownUntil, CooldownHours, clock)
      /\ Barred(row.blockedUntil, BlockHours, clock)
  BY DEF Sound
<1>6. /\ Barred(Extended(m.row.cooldownUntil, CooldownHours), CooldownHours, clock)
      /\ Barred(Extended(m.row.blockedUntil, BlockHours), BlockHours, clock)
  <2>1. \A until \in Times, own \in Nat \ {0} :
           Extended(until, own) = until \/ Extended(until, own) = clock + own
    BY ExtendedType
  <2>2. \A own \in Nat : Barred(clock + own, own, clock)
    BY BarredNow
  <2>3. CooldownHours \in Nat \ {0} /\ BlockHours \in Nat \ {0}
    BY HoursAssumption
  <2> QED
    BY <1>2, <1>5, <2>1, <2>2, <2>3
<1>7. \A h \in ManualHours : /\ Barred(clock + h, CooldownHours, clock)
                            /\ Barred(clock + h, BlockHours, clock)
  BY BarredNow, HoursAssumption
<1> HIDE DEF a
<1>8. ASSUME m.call = "CANCELLATION" PROVE Sound(WithCancellation(row, m.row), a, clock)
  <2> DEFINE new == WithCancellation(row, m.row)
  <2>1. /\ new.score = NormalizeScore(m.row.score - m.points)
        /\ new.cancellations = m.row.cancellations + 1
        /\ new.noShows = row.noShows
        /\ new.cooldownUntil = m.row.cooldownUntil
              \/ new.cooldownUntil = Extended(m.row.cooldownUntil, CooldownHours)
        /\ new.blockedUntil = row.blockedUntil
    BY <1>1, <1>8, CancellationWritten DEF Priced
  <2> HIDE DEF new
  <2>2. new.cancellations <= a.cancellations /\ new.noShows <= a.noShows
    BY <2>1, <1>2, <1>3, <1>8 DEF Sound
  <2> QED
    BY <2>1, <2>2, <1>4, <1>5, <1>6 DEF Sound, new
<1>9. ASSUME m.call = "NO_SHOW" PROVE Sound(WithNoShow(row, m.row), a, clock)
  <2> DEFINE new == WithNoShow(row, m.row)
  <2>1. /\ new.score = NormalizeScore(m.row.score - m.points)
        /\ new.noShows = m.row.noShows + 1
        /\ new.cancellations = row.cancellations
        /\ new.cooldownUntil = row.cooldownUntil
        /\ new.blockedUntil = m.row.blockedUntil
              \/ new.blockedUntil = Extended(m.row.blockedUntil, BlockHours)
    BY <1>1, <1>9, NoShowWritten DEF Priced
  <2> HIDE DEF new
  <2>2. new.cancellations <= a.cancellations /\ new.noShows <= a.noShows
    BY <2>1, <1>2, <1>3, <1>9 DEF Sound
  <2> QED
    BY <2>1, <2>2, <1>4, <1>5, <1>6 DEF Sound, new
<1>10. ASSUME m.call = "MANUAL_PENALTY" PROVE Sound(WithManualPenalty(row, m), a, clock)
  <2> DEFINE new == WithManualPenalty(row, m)
  <2>1. /\ new.score = NormalizeScore(m.row.score - m.points)
        /\ new.cancellations = row.cancellations /\ new.noShows = row.noShows
        /\ new.cooldownUntil = m.row.cooldownUntil
              \/ \E h \in ManualHours : new.cooldownUntil = clock + h
        /\ new.blockedUntil = m.row.blockedUntil
              \/ \E h \in ManualHours : new.blockedUntil = clock + h
    BY ManualWritten
  <2> HIDE DEF new
  <2>2. new.cancellations <= a.cancellations /\ new.noShows <= a.noShows
    BY <2>1, <1>2, <1>3, <1>10 DEF Sound
  <2>3. Barred(new.cooldownUntil, CooldownHours, clock) /\ Barred(new.blockedUntil, BlockHours, clock)
    BY <2>1, <1>5, <1>7
  <2> QED
    BY <2>1, <2>2, <2>3, <1>4 DEF Sound, new
<1> QED
  BY <1>8, <1>9, <1>10 DEF a

(* One handler moves while totals and time only grow.                      *)
LEMMA SoundMove ==
    ASSUME SoundInv, Typed', NEW w \in Workers, NEW label \in Labels, NEW m \in MemRows,
           Move(w, label, m), clock' = clock,
           \A u \in Users : AtLeast(charged'[u], charged[u]),
           \A u \in Users : Sound(user'[u], charged'[u], clock),
           label = "update" => m.u \in Users /\ Sound(m.row, charged'[m.u], clock) /\ Priced(m)
    PROVE  SoundInv'
<1> USE DEF SoundInv
<1>1. \A v \in Workers \ {w} : pc'[v] = pc[v] /\ mem'[v] = mem[v]
  BY DEF Move, Typed, ControlOK
<1>2. pc'[w] = label /\ mem'[w] = m
  BY DEF Move, Typed, ControlOK
<1>3. ASSUME NEW v \in Workers, pc'[v] = "update"
      PROVE  Sound(mem'[v].row, charged'[mem'[v].u], clock) /\ Priced(mem'[v])
  <2>1. CASE v = w
    BY <1>2, <1>3, <2>1
  <2>2. CASE v # w
    <3>1. pc[v] = "update" /\ mem'[v] = mem[v]
      BY <1>1, <1>3, <2>2
    <3>2. mem[v].u \in Users /\ mem[v].row \in UserRows
      BY <3>1 DEF Typed, ControlOK, MemRows
    <3>3. /\ charged[mem[v].u] \in Totals /\ charged'[mem[v].u] \in Totals
          /\ AtLeast(charged'[mem[v].u], charged[mem[v].u])
          /\ Sound(mem[v].row, charged[mem[v].u], clock) /\ Priced(mem[v])
      BY <3>1, <3>2 DEF Typed
    <3> QED
      BY <3>1, <3>2, <3>3, SoundLater DEF Typed
  <2> QED
    BY <2>1, <2>2
<1> QED
  BY <1>3

LEMMA SoundStep == SoundInv /\ [Next]_vars => SoundInv'
<1> SUFFICES ASSUME SoundInv, [Next]_vars PROVE SoundInv'
  OBVIOUS
<1>0. Typed /\ Typed'
  BY TypeStep DEF SoundInv
<1>a. \A u \in Users : AtLeast(charged[u], charged[u])
  BY <1>0, AddedAtLeast, BlankType DEF Typed
<1>b. \A u \in Users : Sound(user[u], charged[u], clock)
  BY DEF SoundInv
<1>c. \A w \in Workers : mem[w] \in MemRows /\ (pc[w] # "idle" => mem[w].u \in Users)
  BY <1>0 DEF Typed, ControlOK
<1>1. ASSUME NEW w \in Workers, CanActivate(w) PROVE SoundInv'
  <2>1. PICK u \in Users : Move(w, "admitted", [Blank EXCEPT !.u = u])
    BY <1>1 DEF CanActivate
  <2>2. [Blank EXCEPT !.u = u] \in MemRows
    BY BlankType DEF Blank, MemRows
  <2> QED
    BY <1>1, <1>0, <1>a, <1>b, <2>1, <2>2, SoundMove DEF CanActivate, Labels
<1>2. ASSUME NEW w \in Workers, Done(w), UNCHANGED <<clock, user, charged>> PROVE SoundInv'
  BY <1>2, <1>0, <1>a, <1>b, BlankType, SoundMove DEF Done, Labels
<1>3. ASSUME NEW w \in Workers, ReadForCancellation(w) PROVE SoundInv'
  <2> DEFINE m == [mem[w] EXCEPT !.call = "CANCELLATION", !.points = CancelPenalty,
                                 !.row = user[mem[w].u]]
  <2>1. mem[w] \in MemRows /\ mem[w].u \in Users
    BY <1>3, <1>c DEF ReadForCancellation
  <2>2. /\ m \in MemRows /\ m.u = mem[w].u /\ m.row = user[m.u]
        /\ m.call = "CANCELLATION" /\ m.points = CancelPenalty
    BY <2>1, <1>0, PenaltiesAssumption DEF Typed, MemRows, Calls
  <2>3. Move(w, "update", m) /\ UNCHANGED <<clock, user, charged>>
    BY <1>3 DEF ReadForCancellation
  <2> HIDE DEF m
  <2> QED
    BY <1>0, <1>a, <1>b, <2>1, <2>2, <2>3, SoundMove DEF Labels, Priced
<1>4. ASSUME NEW w \in Workers, ReadForNoShow(w) PROVE SoundInv'
  <2> DEFINE r(u) == [Blank EXCEPT !.u = u, !.call = "NO_SHOW", !.points = NoShowPenalty,
                                   !.row = user[u]]
  <2>1. PICK u \in Users : Move(w, "update", r(u))
    BY <1>4 DEF ReadForNoShow
  <2> DEFINE m == r(u)
  <2>2. /\ m \in MemRows /\ m.u = u /\ m.row = user[u]
        /\ m.call = "NO_SHOW" /\ m.points = NoShowPenalty
    BY <1>0, BlankType, PenaltiesAssumption DEF Typed, Blank, MemRows, Calls
  <2>3. Move(w, "update", m) /\ UNCHANGED <<clock, user, charged>>
    BY <1>4, <2>1 DEF ReadForNoShow
  <2> HIDE DEF m
  <2> QED
    BY <1>0, <1>a, <1>b, <2>2, <2>3, SoundMove DEF Labels, Priced
<1>5. ASSUME NEW w \in Workers, ReadForPenalty(w) PROVE SoundInv'
  <2> DEFINE r(u, n, c, b) == [u |-> u, call |-> "MANUAL_PENALTY", row |-> user[u],
                               points |-> n, cooldown |-> c, block |-> b]
  <2>1. PICK u \in Users, n \in ManualPenalties, c \in ManualHours \cup {Null},
             b \in ManualHours \cup {Null} : Move(w, "update", r(u, n, c, b))
    BY <1>5 DEF ReadForPenalty
  <2> DEFINE m == r(u, n, c, b)
  <2>2. m \in MemRows /\ m.u = u /\ m.row = user[u] /\ m.call = "MANUAL_PENALTY"
    BY <1>0, PenaltiesAssumption DEF Typed, MemRows, Calls
  <2>3. Move(w, "update", m) /\ UNCHANGED <<clock, user, charged>>
    BY <1>5, <2>1 DEF ReadForPenalty
  <2> HIDE DEF m
  <2> QED
    BY <1>0, <1>a, <1>b, <2>2, <2>3, SoundMove DEF Labels, Priced
<1>6. ASSUME NEW w \in Workers, NEW row \in UserRows, pc[w] = "update", Write(w, row),
             Sound(row, Added(charged[mem[w].u], mem[w]), clock)
      PROVE  SoundInv'
  <2> DEFINE x == mem[w].u
  <2>1. mem[w] \in MemRows /\ x \in Users
    BY <1>6, <1>c
  <2>2. /\ user' = [user EXCEPT ![x] = row]
        /\ charged' = [charged EXCEPT ![x] = Added(charged[x], mem[w])]
        /\ Move(w, "append", mem[w]) /\ clock' = clock
    BY <1>6 DEF Write
  <2>3. /\ AtLeast(Added(charged[x], mem[w]), charged[x])
        /\ user \in [Users -> UserRows] /\ charged \in [Users -> Totals]
    BY <1>0, <2>1, AddedAtLeast DEF Typed
  <2>4. /\ \A u \in Users : AtLeast(charged'[u], charged[u])
        /\ \A u \in Users : Sound(user'[u], charged'[u], clock)
    BY <1>6, <1>a, <1>b, <2>1, <2>2, <2>3
  <2> QED
    BY <1>0, <2>1, <2>2, <2>4, SoundMove DEF Labels
<1>7. ASSUME NEW w \in Workers,
             RecordCancellation(w) \/ RecordNoShow(w) \/ ApplyManualPenalty(w)
      PROVE  SoundInv'
  <2> DEFINE u == mem[w].u
  <2>1. pc[w] = "update" /\ mem[w] \in MemRows /\ u \in Users
    BY <1>7, <1>c DEF RecordCancellation, RecordNoShow, ApplyManualPenalty
  <2>2. /\ user[u] \in UserRows /\ user[u].score \in 0 .. 100 /\ charged[u] \in Totals
        /\ mem[w].row.score \in Int /\ clock \in Nat
    BY <1>0, <2>1 DEF Typed, MemRows, UserRows
  <2>3. /\ Sound(user[u], charged[u], clock) /\ Sound(mem[w].row, charged[u], clock)
        /\ Priced(mem[w])
    BY <2>1 DEF SoundInv
  <2>4. /\ WithCancellation(user[u], mem[w].row) \in UserRows
        /\ WithNoShow(user[u], mem[w].row) \in UserRows
        /\ WithManualPenalty(user[u], mem[w]) \in UserRows
    BY <2>1, <2>2, WriteTypes
  <2> QED
    BY <1>6, <1>7, <2>1, <2>2, <2>3, <2>4, SoundWritten
    DEF RecordCancellation, RecordNoShow, ApplyManualPenalty
<1>8. ASSUME NEW w \in Workers, ClearRestrictions(w) PROVE SoundInv'
  <2> DEFINE r(u) == [Blank EXCEPT !.u = u, !.call = "MANUAL_UNBLOCK"]
  <2>1. PICK u \in Users :
           user' = [user EXCEPT ![u] = WithoutRestrictions(user[u])] /\ Move(w, "append", r(u))
    BY <1>8 DEF ClearRestrictions
  <2>2. r(u) \in MemRows
    BY BlankType DEF Blank, MemRows, Calls
  <2>3. Sound(WithoutRestrictions(user[u]), charged[u], clock)
    BY <1>0, <1>b DEF WithoutRestrictions, Sound, Barred, Typed, UserRows
  <2>4. \A v \in Users : Sound(user'[v], charged[v], clock)
    BY <1>0, <1>b, <2>1, <2>3 DEF Typed
  <2> QED
    BY <1>0, <1>8, <1>a, <2>1, <2>2, <2>4, SoundMove DEF ClearRestrictions, Labels
<1>9. ASSUME Tick PROVE SoundInv'
  <2>1. UNCHANGED <<user, pc, mem, charged>> /\ clock' \in Nat /\ clock' >= clock /\ clock \in Nat
    BY <1>0, <1>9 DEF Tick, Typed
  <2>2. \A u \in Users : Sound(user[u], charged[u], clock')
    BY <1>0, <1>a, <1>b, <2>1, SoundLater DEF Typed
  <2>3. ASSUME NEW w \in Workers, pc[w] = "update"
        PROVE  Sound(mem[w].row, charged[mem[w].u], clock') /\ Priced(mem[w])
    <3>1. mem[w].row \in UserRows /\ mem[w].u \in Users
      BY <1>c, <2>3 DEF MemRows
    <3>2. charged[mem[w].u] \in Totals
      BY <1>0, <3>1 DEF Typed
    <3> QED
      BY <1>a, <2>1, <2>3, <3>1, <3>2, SoundLater DEF SoundInv
  <2> QED
    BY <1>0, <2>1, <2>2, <2>3 DEF SoundInv
<1>10. ASSUME UNCHANGED vars PROVE SoundInv'
  BY <1>0, <1>10 DEF vars, SoundInv
<1> QED
  <2>1. ASSUME NEW w \in Workers, Return(w) \/ AppendEvent(w) \/ Fail(w) PROVE SoundInv'
    BY <2>1, <1>2 DEF Return, AppendEvent, Fail
  <2> QED
    BY <1>1, <2>1, <1>3, <1>4, <1>5, <1>7, <1>8, <1>9, <1>10 DEF Next, Handle, Refuse

LEMMA SoundAtFirst == Init => SoundInv
<1>1. Init => Typed
  BY BlankType, BoundsAssumption
  DEF Typed, Init, ControlOK, Labels, Registered, UserRows, Times, Nothing, Totals
<1> QED
  BY <1>1 DEF SoundInv, Init, Sound, Barred, Registered, Nothing

LEMMA SoundAlways == Spec => []SoundInv
  BY SoundAtFirst, SoundStep, PTL DEF Spec

(* Penalties racing each other are never counted twice.                    *)
THEOREM NotOverPenalised == Spec => []NeverOverPenalised
<1>1. SoundInv => NeverOverPenalised
  BY DEF SoundInv, Typed, Sound, NeverOverPenalised
<1> QED
  BY <1>1, SoundAlways, PTL

(* Nobody is barred for longer than the longest restriction there is.      *)
THEOREM BarringEnds == Spec => []RestrictionsEnd
<1>1. SoundInv => RestrictionsEnd
  BY DEF SoundInv, Sound, Barred, Longest, RestrictionsEnd
<1> QED
  BY <1>1, SoundAlways, PTL

-----------------------------------------------------------------------------
(* A user whose calls never crossed: at most one handler works for them,   *)
(* the row it read is still the row, the row is what the penalties add up  *)
(* to, and the events are, but for the one the handler has yet to append.  *)
(* A request that may still record a cancellation found no restriction,    *)
(* and none has come since.                                                *)

Of(w, u) == pc[w] # "idle" /\ mem[w].u = u
AddsUp(row, totals) ==
    /\ row.score = NormalizeScore(100 - totals.points)
    /\ row.cancellations = totals.cancellations
    /\ row.noShows = totals.noShows
SumsUp(u) == AddsUp(user[u], charged[u])
Cancelling(label, m) ==
    label = "admitted" \/ (label = "update" /\ m.call = "CANCELLATION")
Settled(u, label, m) ==
    IF label = "append" THEN charged[u] = Added(events[u], m) ELSE events[u] = charged[u]
SoleOf(u) ==
    /\ \A v, w \in Workers : Of(v, u) /\ Of(w, u) => v = w
    /\ SumsUp(u)
    /\ \A w \in Workers : Of(w, u) =>
          /\ pc[w] = "update" => mem[w].row = user[u]
          /\ Cancelling(pc[w], mem[w]) => ~Restricted(u)
          /\ fails = 0 => Settled(u, pc[w], mem[w])
    /\ fails = 0 /\ (\A w \in Workers : ~Of(w, u)) => events[u] = charged[u]
SoleInv == SoundInv /\ \A u \in Users \ crossed : SoleOf(u)

(* What the move of another user's handler leaves alone.                   *)
LEMMA SoleOther ==
    ASSUME ControlOK, NEW u \in Users, SoleOf(u),
           NEW w \in Workers, NEW label, NEW m, Move(w, label, m),
           ~Of(w, u), label # "idle" => m.u # u,
           clock' = clock, user'[u] = user[u], charged'[u] = charged[u],
           events'[u] = events[u], fails' = 0 => fails = 0
    PROVE  SoleOf(u)'
<1>1. \A v \in Workers \ {w} : pc'[v] = pc[v] /\ mem'[v] = mem[v]
  BY DEF Move, ControlOK
<1>2. pc'[w] = label /\ mem'[w] = m
  BY DEF Move, ControlOK
<1>3. \A v \in Workers : Of(v, u)' => v # w /\ Of(v, u) /\ pc'[v] = pc[v] /\ mem'[v] = mem[v]
  BY <1>1, <1>2 DEF Of
<1>4. (\A v \in Workers : ~Of(v, u)') => \A v \in Workers : ~Of(v, u)
  BY <1>1 DEF Of
<1>5. Restricted(u)' = Restricted(u)
  BY DEF Restricted, InForce
<1>6. SumsUp(u)'
  BY DEF SoleOf, SumsUp
<1>7. ASSUME NEW v \in Workers, Of(v, u)'
      PROVE  /\ pc'[v] = "update" => mem'[v].row = user'[u]
             /\ Cancelling(pc'[v], mem'[v]) => ~Restricted(u)'
             /\ fails' = 0 => Settled(u, pc[v], mem[v])'
  BY <1>3, <1>5, <1>7 DEF SoleOf, Settled
<1>8. \A v, x \in Workers : Of(v, u)' /\ Of(x, u)' => v = x
  BY <1>3 DEF SoleOf
<1>9. fails' = 0 /\ (\A v \in Workers : ~Of(v, u)') => events'[u] = charged'[u]
  BY <1>4 DEF SoleOf
<1> QED
  BY <1>6, <1>7, <1>8, <1>9 DEF SoleOf

(* What the only handler of a user must see to when it moves.              *)
LEMMA SoleOwn ==
    ASSUME ControlOK, NEW u \in Users, NEW w \in Workers,
           NEW label, NEW m, Move(w, label, m),
           \A v \in Workers \ {w} : ~Of(v, u),
           label # "idle" => m.u = u,
           SumsUp(u)',
           label = "update" => m.row = user'[u],
           Cancelling(label, m) => ~Restricted(u)',
           fails' = 0 => IF label = "append" THEN charged'[u] = Added(events'[u], m)
                                             ELSE events'[u] = charged'[u]
    PROVE  SoleOf(u)'
<1>1. \A v \in Workers \ {w} : ~Of(v, u)'
  BY DEF Move, ControlOK, Of
<1>2. pc'[w] = label /\ mem'[w] = m
  BY DEF Move, ControlOK
<1>3. (Of(w, u)') <=> label # "idle"
  BY <1>2 DEF Of
<1>4. ASSUME NEW v \in Workers, Of(v, u)'
      PROVE  /\ pc'[v] = "update" => mem'[v].row = user'[u]
             /\ Cancelling(pc'[v], mem'[v]) => ~Restricted(u)'
             /\ fails' = 0 => Settled(u, pc[v], mem[v])'
  BY <1>1, <1>2, <1>4 DEF Settled
<1>5. \A v, x \in Workers : Of(v, u)' /\ Of(x, u)' => v = x
  BY <1>1
<1>6. fails' = 0 /\ (\A v \in Workers : ~Of(v, u)') => events'[u] = charged'[u]
  BY <1>3
<1> QED
  BY <1>4, <1>5, <1>6 DEF SoleOf

(* Who begins a call for a user still uncrossed finds no handler at work.  *)
LEMMA BeginsAlone ==
    ASSUME NEW u \in Users, NEW x \in Users, Begins(x), u \notin crossed'
    PROVE  u \notin crossed /\ (u = x => \A v \in Workers : ~Of(v, u))
BY DEF Begins, InFlight, Of

LEMMA ZeroAdded ==
    ASSUME NEW t \in Totals, NEW m, m.points = 0, m.call \notin {"CANCELLATION", "NO_SHOW"}
    PROVE  Added(t, m) = t
<1>1. Added(t, m) = [points |-> t.points, cancellations |-> t.cancellations,
                     noShows |-> t.noShows]
  BY DEF Added, Totals
<1>2. t = [points |-> t.points, cancellations |-> t.cancellations, noShows |-> t.noShows]
  BY DEF Totals
<1> QED
  BY <1>1, <1>2

(* A row that adds up still does with the next penalty.                    *)
LEMMA AddsUpWritten ==
    ASSUME clock \in Nat, NEW m \in MemRows, NEW t \in Totals, AddsUp(m.row, t), Priced(m)
    PROVE  /\ m.call = "CANCELLATION" => AddsUp(WithCancellation(m.row, m.row), Added(t, m))
           /\ m.call = "NO_SHOW" => AddsUp(WithNoShow(m.row, m.row), Added(t, m))
           /\ m.call = "MANUAL_PENALTY" => AddsUp(WithManualPenalty(m.row, m), Added(t, m))
<1>1. /\ m.row \in UserRows /\ m.points \in Nat /\ t.points \in Nat
      /\ t.cancellations \in Nat /\ t.noShows \in Nat
  BY DEF MemRows, Totals
<1>2. /\ Added(t, m).points = t.points + m.points
      /\ m.call = "CANCELLATION" => Added(t, m).cancellations = t.cancellations + 1
      /\ m.call # "CANCELLATION" => Added(t, m).cancellations = t.cancellations
      /\ m.call = "NO_SHOW" => Added(t, m).noShows = t.noShows + 1
      /\ m.call # "NO_SHOW" => Added(t, m).noShows = t.noShows
  BY <1>1 DEF Added
<1>3. NormalizeScore(m.row.score - m.points) = NormalizeScore(100 - Added(t, m).points)
  <2>1. m.row.score = NormalizeScore(100 - t.points)
    BY DEF AddsUp
  <2>2. 100 - t.points \in Int /\ 100 - t.points <= 100
    BY <1>1
  <2>3. NormalizeScore(m.row.score - m.points) = NormalizeScore((100 - t.points) - m.points)
    BY <1>1, <2>1, <2>2, NormalizedTwice
  <2>4. (100 - t.points) - m.points = 100 - Added(t, m).points
    BY <1>1, <1>2
  <2> QED
    BY <2>3, <2>4
<1>4. m.row.cancellations = t.cancellations /\ m.row.noShows = t.noShows
  BY DEF AddsUp
<1>5. ASSUME m.call = "CANCELLATION" PROVE AddsUp(WithCancellation(m.row, m.row), Added(t, m))
  <2>1. /\ WithCancellation(m.row, m.row).score = NormalizeScore(m.row.score - m.points)
        /\ WithCancellation(m.row, m.row).cancellations = m.row.cancellations + 1
        /\ WithCancellation(m.row, m.row).noShows = m.row.noShows
    BY <1>1, <1>5, CancellationWritten DEF Priced
  <2> QED
    BY <2>1, <1>2, <1>3, <1>4, <1>5 DEF AddsUp
<1>6. ASSUME m.call = "NO_SHOW" PROVE AddsUp(WithNoShow(m.row, m.row), Added(t, m))
  <2>1. /\ WithNoShow(m.row, m.row).score = NormalizeScore(m.row.score - m.points)
        /\ WithNoShow(m.row, m.row).cancellations = m.row.cancellations
        /\ WithNoShow(m.row, m.row).noShows = m.row.noShows + 1
    BY <1>1, <1>6, NoShowWritten DEF Priced
  <2> QED
    BY <2>1, <1>2, <1>3, <1>4, <1>6 DEF AddsUp
<1>7. ASSUME m.call = "MANUAL_PENALTY" PROVE AddsUp(WithManualPenalty(m.row, m), Added(t, m))
  <2>1. /\ WithManualPenalty(m.row, m).score = NormalizeScore(m.row.score - m.points)
        /\ WithManualPenalty(m.row, m).cancellations = m.row.cancellations
        /\ WithManualPenalty(m.row, m).noShows = m.row.noShows
    BY <1>1, <1>7, ManualWritten DEF Priced
  <2> QED
    BY <2>1, <1>2, <1>3, <1>4, <1>7 DEF AddsUp
<1> QED
  BY <1>5, <1>6, <1>7

LEMMA SoleStep == SoleInv /\ [Next]_vars => SoleInv'
<1> SUFFICES ASSUME SoleInv, [Next]_vars PROVE SoleInv'
  OBVIOUS
<1>0. SoundInv /\ Typed /\ ControlOK /\ SoundInv' /\ Typed'
  BY SoundStep DEF SoleInv, SoundInv, Typed
<1>a. \A w \in Workers : mem[w] \in MemRows /\ (pc[w] # "idle" => mem[w].u \in Users)
  BY <1>0 DEF ControlOK
<1>b. \A u \in Users \ crossed : SoleOf(u)
  BY DEF SoleInv
<1>c. ASSUME NEW u \in Users, u \notin crossed, NEW w \in Workers, Of(w, u)
      PROVE  \A v \in Workers \ {w} : ~Of(v, u)
  BY <1>b, <1>c DEF SoleOf
<1>1. ASSUME NEW w \in Workers, CanActivate(w), NEW u \in Users, u \notin crossed' PROVE SoleOf(u)'
  <2> DEFINE r(x) == [Blank EXCEPT !.u = x]
  <2>1. PICK x \in Users : ~Restricted(x) /\ Begins(x) /\ Move(w, "admitted", r(x))
    BY <1>1 DEF CanActivate
  <2>2. r(x).u = x
    BY DEF Blank
  <2>3. UNCHANGED <<clock, user, events, charged, fails>> /\ pc[w] = "idle"
    BY <1>1 DEF CanActivate
  <2>4. u \notin crossed /\ SoleOf(u) /\ (u = x => \A v \in Workers : ~Of(v, u))
    BY <1>1, <1>b, <2>1, BeginsAlone
  <2> HIDE DEF r
  <2>5. CASE u = x
    <3>1. SumsUp(u)' /\ (fails' = 0 => events'[u] = charged'[u])
      BY <2>3, <2>4, <2>5 DEF SoleOf, SumsUp
    <3>2. ~Restricted(u)'
      BY <2>1, <2>3, <2>5 DEF Restricted, InForce
    <3> QED
      BY <1>0, <2>1, <2>2, <2>4, <2>5, <3>1, <3>2, SoleOwn
  <2>6. CASE u # x
    BY <1>0, <2>1, <2>2, <2>3, <2>4, <2>6, SoleOther DEF Of
  <2> QED
    BY <2>5, <2>6
<1>2. ASSUME NEW w \in Workers, Return(w) \/ Fail(w), NEW u \in Users, u \notin crossed'
      PROVE  SoleOf(u)'
  <2>1. /\ pc[w] # "idle" /\ Move(w, "idle", Blank)
        /\ UNCHANGED <<clock, user, events, charged, crossed>>
    BY <1>2 DEF Return, Fail, Done
  <2>2. SoleOf(u)
    BY <1>2, <1>b, <2>1
  <2>3. (fails' = 0 => fails = 0) /\ (fails' = 0 => pc[w] = "admitted")
    BY <1>0, <1>2 DEF Return, Fail, Typed
  <2>4. CASE Of(w, u)
    <3>1. SumsUp(u)' /\ (fails' = 0 => events'[u] = charged'[u])
      BY <2>1, <2>2, <2>3, <2>4 DEF SoleOf, SumsUp, Settled
    <3> QED
      BY <1>0, <1>2, <1>c, <2>1, <2>4, <3>1, SoleOwn DEF Cancelling
  <2>5. CASE ~Of(w, u)
    BY <1>0, <2>1, <2>2, <2>3, <2>5, SoleOther
  <2> QED
    BY <2>4, <2>5
<1>3. ASSUME NEW w \in Workers, ReadForCancellation(w), NEW u \in Users, u \notin crossed'
      PROVE  SoleOf(u)'
  <2> DEFINE m == [mem[w] EXCEPT !.call = "CANCELLATION", !.points = CancelPenalty,
                                 !.row = user[mem[w].u]]
  <2>1. mem[w] \in MemRows
    BY <1>a
  <2>2. m.u = mem[w].u /\ m.row = user[mem[w].u]
    BY <2>1 DEF MemRows
  <2>3. /\ Move(w, "update", m) /\ pc[w] = "admitted"
        /\ UNCHANGED <<clock, user, events, charged, crossed, fails>>
    BY <1>3 DEF ReadForCancellation
  <2>4. SoleOf(u)
    BY <1>3, <1>b, <2>3
  <2> HIDE DEF m
  <2>5. CASE Of(w, u)
    <3>1. SumsUp(u)' /\ (fails' = 0 => events'[u] = charged'[u])
      BY <2>3, <2>4, <2>5 DEF SoleOf, SumsUp, Settled
    <3>2. ~Restricted(u)'
      BY <2>3, <2>4, <2>5 DEF SoleOf, Cancelling, Restricted, InForce
    <3>3. m.row = user'[u] /\ m.u = u
      BY <2>2, <2>3, <2>5 DEF Of
    <3> QED
      BY <1>0, <1>3, <1>c, <2>3, <2>5, <3>1, <3>2, <3>3, SoleOwn
  <2>6. CASE ~Of(w, u)
    BY <1>0, <2>2, <2>3, <2>4, <2>6, SoleOther DEF Of
  <2> QED
    BY <2>5, <2>6
<1>4. ASSUME NEW w \in Workers, NEW x \in Users, NEW m, NEW u \in Users, u \notin crossed',
             m.u = x, m.row = user[x], m.call # "CANCELLATION",
             Begins(x), Move(w, "update", m), pc[w] = "idle",
             UNCHANGED <<clock, user, events, charged, fails>>
      PROVE  SoleOf(u)'
  <2>1. u \notin crossed /\ SoleOf(u) /\ (u = x => \A v \in Workers : ~Of(v, u))
    BY <1>4, <1>b, BeginsAlone
  <2>2. CASE u = x
    <3>1. SumsUp(u)' /\ (fails' = 0 => events'[u] = charged'[u])
      BY <1>4, <2>1, <2>2 DEF SoleOf, SumsUp
    <3> QED
      BY <1>0, <1>4, <2>1, <2>2, <3>1, SoleOwn DEF Cancelling
  <2>3. CASE u # x
    BY <1>0, <1>4, <2>1, <2>3, SoleOther DEF Of
  <2> QED
    BY <2>2, <2>3
<1>5. ASSUME NEW w \in Workers, ReadForNoShow(w), NEW u \in Users, u \notin crossed' PROVE SoleOf(u)'
  <2> DEFINE r(x) == [Blank EXCEPT !.u = x, !.call = "NO_SHOW", !.points = NoShowPenalty,
                                   !.row = user[x]]
  <2>1. PICK x \in Users : Begins(x) /\ Move(w, "update", r(x))
    BY <1>5 DEF ReadForNoShow
  <2>2. r(x).u = x /\ r(x).row = user[x] /\ r(x).call # "CANCELLATION"
    BY DEF Blank
  <2> HIDE DEF r
  <2> QED
    BY <1>4, <1>5, <2>1, <2>2 DEF ReadForNoShow
<1>6. ASSUME NEW w \in Workers, ReadForPenalty(w), NEW u \in Users, u \notin crossed' PROVE SoleOf(u)'
  <2> DEFINE r(x, n, c, b) == [u |-> x, call |-> "MANUAL_PENALTY", row |-> user[x],
                               points |-> n, cooldown |-> c, block |-> b]
  <2>1. PICK x \in Users, n \in ManualPenalties, c \in ManualHours \cup {Null},
             b \in ManualHours \cup {Null} : Begins(x) /\ Move(w, "update", r(x, n, c, b))
    BY <1>6 DEF ReadForPenalty
  <2> DEFINE m == r(x, n, c, b)
  <2>2. m.u = x /\ m.row = user[x] /\ m.call # "CANCELLATION"
    OBVIOUS
  <2> HIDE DEF r
  <2> QED
    BY <1>4, <1>6, <2>1, <2>2 DEF ReadForPenalty
<1>7. ASSUME NEW w \in Workers, NEW row, pc[w] = "update", Write(w, row),
             AddsUp(mem[w].row, charged[mem[w].u]) /\ user[mem[w].u] = mem[w].row
                => AddsUp(row, Added(charged[mem[w].u], mem[w])),
             NEW u \in Users, u \notin crossed'
      PROVE  SoleOf(u)'
  <2> DEFINE x == mem[w].u
  <2>1. x \in Users
    BY <1>7, <1>a
  <2>2. /\ user' = [user EXCEPT ![x] = row]
        /\ charged' = [charged EXCEPT ![x] = Added(charged[x], mem[w])]
        /\ Move(w, "append", mem[w]) /\ UNCHANGED <<clock, events, crossed, fails>>
    BY <1>7 DEF Write
  <2>3. SoleOf(u)
    BY <1>7, <1>b, <2>2
  <2>4. CASE Of(w, u)
    <3>1. u = x /\ mem[w].row = user[u] /\ SumsUp(u)
      BY <1>7, <2>3, <2>4 DEF SoleOf, Of
    <3>2. user'[u] = row /\ charged'[u] = Added(charged[u], mem[w])
      BY <1>0, <2>1, <2>2, <3>1 DEF Typed
    <3>3. SumsUp(u)'
      BY <1>7, <3>1, <3>2 DEF SumsUp
    <3>4. fails' = 0 => charged'[u] = Added(events'[u], mem[w])
      BY <1>7, <2>2, <2>3, <2>4, <3>2 DEF SoleOf, Settled
    <3> QED
      BY <1>0, <1>7, <1>c, <2>2, <2>4, <3>1, <3>3, <3>4, SoleOwn DEF Cancelling
  <2>5. CASE ~Of(w, u)
    <3>1. u # x
      BY <1>7, <2>5 DEF Of
    <3>2. user'[u] = user[u] /\ charged'[u] = charged[u]
      BY <1>0, <2>2, <3>1 DEF Typed
    <3> QED
      BY <1>0, <2>2, <2>3, <2>5, <3>1, <3>2, SoleOther
  <2> QED
    BY <2>4, <2>5
<1>8. ASSUME NEW w \in Workers,
             RecordCancellation(w) \/ RecordNoShow(w) \/ ApplyManualPenalty(w),
             NEW u \in Users, u \notin crossed'
      PROVE  SoleOf(u)'
  <2> DEFINE x == mem[w].u
  <2>1. pc[w] = "update" /\ mem[w] \in MemRows /\ x \in Users
    BY <1>8, <1>a DEF RecordCancellation, RecordNoShow, ApplyManualPenalty
  <2>2. charged[x] \in Totals /\ clock \in Nat /\ Priced(mem[w])
    BY <1>0, <2>1 DEF SoundInv, Typed
  <2> QED
    BY <1>7, <1>8, <2>1, <2>2, AddsUpWritten
    DEF RecordCancellation, RecordNoShow, ApplyManualPenalty
<1>9. ASSUME NEW w \in Workers, ClearRestrictions(w), NEW u \in Users, u \notin crossed'
      PROVE  SoleOf(u)'
  <2> DEFINE r(x) == [Blank EXCEPT !.u = x, !.call = "MANUAL_UNBLOCK"]
  <2>1. PICK x \in Users :
           /\ user' = [user EXCEPT ![x] = WithoutRestrictions(user[x])]
           /\ Begins(x) /\ Move(w, "append", r(x))
    BY <1>9 DEF ClearRestrictions
  <2>2. r(x).u = x /\ r(x).points = 0 /\ r(x).call \notin {"CANCELLATION", "NO_SHOW"}
    BY DEF Blank
  <2>3. UNCHANGED <<clock, events, charged, fails>> /\ pc[w] = "idle"
    BY <1>9 DEF ClearRestrictions
  <2>4. u \notin crossed /\ SoleOf(u) /\ (u = x => \A v \in Workers : ~Of(v, u))
    BY <1>9, <1>b, <2>1, BeginsAlone
  <2>5. user[x] \in UserRows /\ charged[x] \in Totals /\ user'[x] = WithoutRestrictions(user[x])
    BY <1>0, <2>1 DEF Typed
  <2> HIDE DEF r
  <2>6. CASE u = x
    <3>1. SumsUp(u)'
      <4>1. /\ WithoutRestrictions(user[x]).score = user[x].score
            /\ WithoutRestrictions(user[x]).cancellations = user[x].cancellations
            /\ WithoutRestrictions(user[x]).noShows = user[x].noShows
        BY <2>5 DEF WithoutRestrictions, UserRows
      <4> QED
        BY <2>3, <2>4, <2>5, <2>6, <4>1 DEF SoleOf, SumsUp, AddsUp
    <3>2. fails' = 0 => events'[u] = charged'[u]
      BY <2>3, <2>4, <2>6 DEF SoleOf
    <3>3. fails' = 0 => charged'[u] = Added(events'[u], r(x))
      BY <2>2, <2>3, <2>5, <2>6, <3>2, ZeroAdded
    <3> QED
      BY <1>0, <2>1, <2>2, <2>4, <2>6, <3>1, <3>3, SoleOwn DEF Cancelling
  <2>7. CASE u # x
    <3>1. user'[u] = user[u]
      BY <1>0, <2>1, <2>7 DEF Typed
    <3> QED
      BY <1>0, <2>1, <2>2, <2>3, <2>4, <2>7, <3>1, SoleOther DEF Of
  <2> QED
    BY <2>6, <2>7
<1>10. ASSUME NEW w \in Workers, AppendEvent(w), NEW u \in Users, u \notin crossed' PROVE SoleOf(u)'
  <2>1. /\ pc[w] = "append" /\ Move(w, "idle", Blank)
        /\ events' = [events EXCEPT ![mem[w].u] = Added(events[mem[w].u], mem[w])]
        /\ UNCHANGED <<clock, user, charged, crossed, fails>>
    BY <1>10 DEF AppendEvent, Done
  <2>2. SoleOf(u)
    BY <1>10, <1>b, <2>1
  <2>3. CASE Of(w, u)
    <3>1. SumsUp(u)'
      BY <2>1, <2>2 DEF SoleOf, SumsUp
    <3>2. events'[u] = Added(events[u], mem[w])
      BY <1>0, <2>1, <2>3 DEF Typed, Of
    <3>3. fails' = 0 => events'[u] = charged'[u]
      BY <2>1, <2>2, <2>3, <3>2 DEF SoleOf, Settled
    <3> QED
      BY <1>0, <1>10, <1>c, <2>1, <2>3, <3>1, <3>3, SoleOwn DEF Cancelling
  <2>4. CASE ~Of(w, u)
    <3>1. events'[u] = events[u]
      BY <1>0, <2>1, <2>4 DEF Typed, Of
    <3> QED
      BY <1>0, <2>1, <2>2, <2>4, <3>1, SoleOther
  <2> QED
    BY <2>3, <2>4
<1>11. ASSUME Tick, NEW u \in Users, u \notin crossed' PROVE SoleOf(u)'
  <2>1. UNCHANGED <<user, events, pc, mem, charged, crossed, fails>> /\ clock' >= clock
    BY <1>0, <1>11 DEF Tick, Typed
  <2>2. clock \in Nat /\ clock' \in Nat /\ user[u].cooldownUntil \in Times
        /\ user[u].blockedUntil \in Times
    BY <1>0, <1>11 DEF Typed, UserRows
  <2>3. ~Restricted(u) => ~Restricted(u)'
    BY <2>1, <2>2 DEF Restricted, InForce, Times
  <2>4. SoleOf(u)
    BY <1>11, <1>b, <2>1
  <2> QED
    BY <2>1, <2>3, <2>4 DEF SoleOf, Of, SumsUp, Settled
<1>12. ASSUME UNCHANGED vars, NEW u \in Users, u \notin crossed' PROVE SoleOf(u)'
  <2>1. SoleOf(u)
    BY <1>12, <1>b DEF vars
  <2> QED
    BY <1>12, <2>1 DEF vars, SoleOf, Of, SumsUp, Settled, Restricted, InForce
<1> QED
  <2>1. ASSUME NEW u \in Users, u \notin crossed' PROVE SoleOf(u)'
    BY <2>1, <1>1, <1>2, <1>3, <1>5, <1>6, <1>8, <1>9, <1>10, <1>11, <1>12 DEF Next, Handle, Refuse
  <2> QED
    BY <1>0, <2>1 DEF SoleInv

LEMMA SoleAlways == Spec => []SoleInv
<1>1. Init => SoleInv
  <2> SUFFICES ASSUME Init PROVE SoleInv
    OBVIOUS
  <2>1. \A w \in Workers, u \in Users : ~Of(w, u)
    BY DEF Init, Of
  <2>2. \A u \in Users : SumsUp(u) /\ events[u] = charged[u]
    BY DEF Init, SumsUp, AddsUp, Registered, Nothing, NormalizeScore
  <2> QED
    BY <2>1, <2>2, SoundAtFirst DEF SoleInv, SoleOf
<1> QED
  BY <1>1, SoleStep, PTL DEF Spec

(* The row of a user whose calls never crossed is what the written         *)
(* penalties add up to, and so are the events once nothing is in flight.   *)
THEOREM SoleCallsTold == Spec => []SoleCallsAddUp
<1>1. SoleInv => SoleCallsAddUp
  <2> SUFFICES ASSUME SoleInv, NEW u \in Users, u \notin crossed
               PROVE  SumsUp(u) /\ (fails = 0 /\ InFlight(u) = {} => events[u] = charged[u])
    BY DEF SoleCallsAddUp, SumsUp, AddsUp
  <2>1. SoleOf(u)
    BY DEF SoleInv
  <2>2. InFlight(u) = {} => \A w \in Workers : ~Of(w, u)
    BY DEF InFlight, Of
  <2> QED
    BY <2>1, <2>2 DEF SoleOf
<1> QED
  BY <1>1, SoleAlways, PTL

(* How the row of a user whose calls never crossed may change.             *)
LEMMA RowChanges ==
    ASSUME SoleInv, Next, NEW u \in Users, u \notin crossed', user'[u] # user[u]
    PROVE  \/ StaffActs(u) /\ user'[u].cancellations = user[u].cancellations
           \/ ~Restricted(u) /\ user'[u] = WithCancellation(user[u], user[u])
           \/ user'[u] = WithNoShow(user[u], user[u])
<1>0. Typed /\ ControlOK /\ clock \in Nat /\ user[u] \in UserRows
  BY DEF SoleInv, SoundInv, Typed
<1>1. PICK w \in Workers :
         \/ RecordCancellation(w) \/ RecordNoShow(w) \/ ApplyManualPenalty(w)
         \/ ClearRestrictions(w)
  <2>1. user' # user
    OBVIOUS
  <2> QED
    BY <2>1 DEF Next, Handle, Tick, Refuse, vars, CanActivate, Return, ReadForCancellation,
       ReadForNoShow, ReadForPenalty, AppendEvent, Fail
<1>2. mem[w] \in MemRows /\ (pc[w] # "idle" => mem[w].u \in Users)
  BY <1>0 DEF ControlOK
<1>3. CASE ClearRestrictions(w)
  <2> DEFINE r(x) == [Blank EXCEPT !.u = x, !.call = "MANUAL_UNBLOCK"]
  <2>1. PICK x \in Users : /\ user' = [user EXCEPT ![x] = WithoutRestrictions(user[x])]
                           /\ Move(w, "append", r(x)) /\ pc[w] = "idle"
    BY <1>3 DEF ClearRestrictions
  <2>2. u = x /\ user'[u] = WithoutRestrictions(user[u])
    BY <1>0, <2>1 DEF Typed
  <2>3. pc'[w] = "append" /\ mem'[w] = r(x)
    BY <1>0, <2>1 DEF Move, ControlOK
  <2>4. r(x).u = x /\ r(x).call = "MANUAL_UNBLOCK"
    BY DEF Blank
  <2>5. StaffActs(u)
    BY <2>1, <2>2, <2>3, <2>4 DEF StaffActs
  <2>6. user'[u].cancellations = user[u].cancellations
    BY <1>0, <2>2 DEF WithoutRestrictions, UserRows
  <2> QED
    BY <2>5, <2>6
<1>4. CASE RecordCancellation(w) \/ RecordNoShow(w) \/ ApplyManualPenalty(w)
  <2>1. pc[w] = "update" /\ mem[w].u \in Users
    BY <1>2, <1>4 DEF RecordCancellation, RecordNoShow, ApplyManualPenalty
  <2>2. PICK row : Write(w, row)
    BY <1>4 DEF RecordCancellation, RecordNoShow, ApplyManualPenalty
  <2>3. u = mem[w].u /\ u \notin crossed
    BY <1>0, <2>1, <2>2 DEF Write, Typed
  <2>4. /\ mem[w].row = user[u]
        /\ mem[w].call = "CANCELLATION" => ~Restricted(u)
    BY <2>1, <2>3 DEF SoleInv, SoleOf, Of, Cancelling
  <2>5. CASE RecordCancellation(w)
    BY <1>0, <2>3, <2>4, <2>5 DEF RecordCancellation, Write, Typed
  <2>6. CASE RecordNoShow(w)
    BY <1>0, <2>3, <2>4, <2>6 DEF RecordNoShow, Write, Typed
  <2>7. CASE ApplyManualPenalty(w)
    <3>1. /\ user'[u] = WithManualPenalty(user[u], mem[w]) /\ mem[w].call = "MANUAL_PENALTY"
          /\ Move(w, "append", mem[w])
      BY <1>0, <2>3, <2>7 DEF ApplyManualPenalty, Write, Typed
    <3>2. pc'[w] = "append" /\ mem'[w] = mem[w]
      BY <1>0, <3>1 DEF Move, ControlOK
    <3>3. StaffActs(u)
      BY <2>1, <2>3, <3>1, <3>2 DEF StaffActs
    <3>4. user'[u].cancellations = user[u].cancellations
      BY <1>0, <1>2, <3>1, ManualWritten
    <3> QED
      BY <3>3, <3>4
  <2> QED
    BY <1>4, <2>5, <2>6, <2>7
<1> QED
  BY <1>1, <1>3, <1>4

LEMMA NotCut ==
    ASSUME clock \in Nat, NEW until \in Times, NEW own \in Nat \ {0}, NEW new,
           new = until \/ new = Extended(until, own)
    PROVE  ~CutShort(until, new)
<1>1. until # Null => until \in Int
  BY DEF Times
<1>2. new = until => ~CutShort(until, new)
  BY <1>1 DEF CutShort, InForce
<1>3. new = Extended(until, own) => ~CutShort(until, new)
  <2>1. Extended(until, own) \in Times /\ Extended(until, own) # Null
        /\ (until # Null => Extended(until, own) >= until)
    BY ExtendedType
  <2> QED
    BY <1>1, <2>1 DEF CutShort, InForce, Times
<1> QED
  BY <1>2, <1>3

(* A restriction in force ends early only by an admin's call.              *)
THEOREM StaffAlone == Spec => OnlyStaffShortens
<1>1. ASSUME SoleInv, Next, NEW u \in Users, u \notin crossed',
             \/ CutShort(user[u].cooldownUntil, user'[u].cooldownUntil)
             \/ CutShort(user[u].blockedUntil, user'[u].blockedUntil)
      PROVE  StaffActs(u)
  <2>1. /\ clock \in Nat /\ user[u] \in UserRows
        /\ user[u].cooldownUntil \in Times /\ user[u].blockedUntil \in Times
    BY <1>1 DEF SoleInv, SoundInv, Typed, UserRows
  <2>2. CooldownHours \in Nat \ {0} /\ BlockHours \in Nat \ {0}
    BY HoursAssumption
  <2>3. ASSUME \/ user'[u].cooldownUntil = user[u].cooldownUntil
                \/ user'[u].cooldownUntil = Extended(user[u].cooldownUntil, CooldownHours),
               \/ user'[u].blockedUntil = user[u].blockedUntil
                \/ user'[u].blockedUntil = Extended(user[u].blockedUntil, BlockHours)
        PROVE  FALSE
    BY <1>1, <2>1, <2>2, <2>3, NotCut
  <2>4. user'[u] # user[u]
    BY <2>3
  <2>5. user'[u] # WithCancellation(user[u], user[u])
    BY <2>1, <2>3, CancellationWritten
  <2>6. user'[u] # WithNoShow(user[u], user[u])
    BY <2>1, <2>3, NoShowWritten
  <2> QED
    BY <1>1, <2>4, <2>5, <2>6, RowChanges
<1>2. SoleInv /\ Next => \A u \in Users \ crossed' :
          \/ CutShort(user[u].cooldownUntil, user'[u].cooldownUntil)
          \/ CutShort(user[u].blockedUntil, user'[u].blockedUntil)
          => StaffActs(u)
  BY <1>1
<1> QED
  BY <1>2, SoleAlways, PTL DEF Spec, OnlyStaffShortens

(* No cancellation is written for a user while a restriction is in force.  *)
THEOREM RestrictedCancelNothing == Spec => NoCancellationWhileRestricted
<1>1. ASSUME SoleInv, Next, NEW u \in Users, u \notin crossed',
             user'[u].cancellations > user[u].cancellations
      PROVE  ~InForce(user[u].blockedUntil) /\ ~InForce(user[u].cooldownUntil)
  <2>1. clock \in Nat /\ user[u] \in UserRows /\ user[u].cancellations \in Nat
    BY <1>1 DEF SoleInv, SoundInv, Typed, UserRows
  <2>2. user'[u] # user[u] /\ user'[u].cancellations # user[u].cancellations
    BY <1>1, <2>1
  <2>3. user'[u] # WithNoShow(user[u], user[u])
    BY <2>1, <2>2, NoShowWritten
  <2> QED
    BY <1>1, <2>2, <2>3, RowChanges DEF Restricted
<1>2. SoleInv /\ Next => \A u \in Users \ crossed' :
          user'[u].cancellations > user[u].cancellations =>
              /\ ~InForce(user[u].blockedUntil)
              /\ ~InForce(user[u].cooldownUntil)
  BY <1>1
<1> QED
  BY <1>2, SoleAlways, PTL DEF Spec, NoCancellationWhileRestricted
=============================================================================
