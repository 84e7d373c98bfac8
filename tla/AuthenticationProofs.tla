------------------------ MODULE AuthenticationProofs ------------------------
(* Machine-checked proofs about Authentication, for any accounts and       *)
(* addresses, any limits that env.validation admits and any number of      *)
(* requests in flight.                                                     *)
EXTENDS Authentication, FiniteSetTheorems, TLAPS

Labels == {"idle", "lookup", "compare", "create"} \cup TokenCalls
AtLogin == {"lookup", "compare"}
MemRows == [phone : Phones \cup {Null}, address : Addresses \cup {Null},
            email : Emails \cup {Null}, verified : BOOLEAN]

(* What a request holds is what its label asks for.                        *)
HoldsOK(label, m) ==
    /\ label # "idle" => m.phone \in Phones
    /\ label \in TokenCalls => account[m.phone] # Null
    /\ label = "create" => m.email \in Emails
    /\ label \in AtLogin => m.address \in Addresses

ControlOK ==
    /\ pc \in [Workers -> Labels]
    /\ mem \in [Workers -> MemRows]
    /\ \A w \in Workers : HoldsOK(pc[w], mem[w])

Typed ==
    /\ clock \in Nat
    /\ attempt \in [Keys -> Attempts \cup {Null}]
    /\ account \in [Phones -> Accounts \cup {Null}]
    /\ tokens \in Nat
    /\ ControlOK
    /\ sessions \subseteq Phones
    /\ links \in [Phones -> Nat]
    /\ crossed \subseteq Phones

LEMMA TypedIsTypeOK == Typed => TypeOK
BY DEF Typed, ControlOK, HoldsOK, TypeOK, Labels, AtLogin

-----------------------------------------------------------------------------
(* Moves and rows.                                                         *)

LEMMA MoveOnly ==
    ASSUME Typed, NEW w \in Workers, NEW label, NEW m, Move(w, label, m)
    PROVE  /\ pc'[w] = label /\ mem'[w] = m
           /\ \A v \in Workers : v # w => pc'[v] = pc[v] /\ mem'[v] = mem[v]
BY DEF Typed, ControlOK, Move

LEMMA MoveType ==
    ASSUME Typed, NEW w \in Workers, NEW label \in Labels, NEW m \in MemRows, Move(w, label, m),
           \A p \in Phones : account[p] # Null => account'[p] # Null,
           label # "idle" => m.phone \in Phones,
           label \in TokenCalls => account[m.phone] # Null,
           label = "create" => m.email \in Emails,
           label \in AtLogin => m.address \in Addresses
    PROVE  ControlOK'
<1>1. pc' \in [Workers -> Labels] /\ mem' \in [Workers -> MemRows]
  BY DEF Typed, ControlOK, Move
<1>2. ASSUME NEW v \in Workers PROVE HoldsOK(pc[v], mem[v])'
  <2>1. CASE v # w
    BY <2>1, MoveOnly DEF Typed, ControlOK, HoldsOK, TokenCalls
  <2>2. CASE v = w
    <3>1. pc'[v] = label /\ mem'[v] = m
      BY <2>2, MoveOnly
    <3> QED
      BY <3>1 DEF HoldsOK, TokenCalls
  <2> QED
    BY <2>1, <2>2
<1> QED
  BY <1>1, <1>2 DEF ControlOK

LEMMA BlankType == Blank \in MemRows /\ Blank.verified = FALSE
BY DEF Blank, MemRows

LEMMA ReturnType ==
    ASSUME Typed, NEW w \in Workers, Return(w),
           \A p \in Phones : account[p] # Null => account'[p] # Null
    PROVE  ControlOK'
BY MoveType, BlankType DEF Return, Labels, TokenCalls, AtLogin

LEMMA PhoneRow ==
    ASSUME NEW p \in Phones
    PROVE  LET m == [Blank EXCEPT !.phone = p] IN m \in MemRows /\ m.phone = p
BY DEF Blank, MemRows

LEMMA TokenCallType ==
    ASSUME Typed, NEW w \in Workers, NEW label \in TokenCalls, NEW p \in Phones,
           TokenCall(w, label, p), account[p] # Null, account' = account
    PROVE  /\ ControlOK' /\ crossed' \subseteq Phones
           /\ pc'[w] = label /\ mem'[w].phone = p
           /\ \A v \in Workers : v # w => pc'[v] = pc[v] /\ mem'[v] = mem[v]
<1> DEFINE m == [Blank EXCEPT !.phone = p]
<1>1. m \in MemRows /\ m.phone = p
  BY PhoneRow
<1>2. Move(w, label, m)
  BY DEF TokenCall
<1>3. label \in Labels /\ label \notin {"create"} \cup AtLogin
  BY DEF Labels, TokenCalls, AtLogin
<1>4. ControlOK'
  <2> HIDE DEF m
  <2> QED
    BY <1>1, <1>2, <1>3, MoveType
<1>5. crossed' \subseteq Phones
  BY DEF TokenCall, Typed
<1> HIDE DEF m
<1> QED
  BY <1>1, <1>2, <1>4, <1>5, MoveOnly

(* The three updates of an account.                                        *)
LEMMA AccountCreated ==
    ASSUME Typed, NEW w \in Workers, CreateUser(w)
    PROVE  LET p == mem[w].phone
           IN  /\ p \in Phones /\ account' \in [Phones -> Accounts \cup {Null}]
               /\ \A q \in Phones : account[q] # Null => account'[q] = account[q]
               /\ \A q \in Phones : account[q] = Null /\ account'[q] # Null
                                        => account'[q].verified = FALSE
<1> DEFINE p == mem[w].phone  m == mem[w].email
           row == [email |-> m, verified |-> FALSE, token |-> tokens + 1,
                   expires |-> clock + TokenTtl]
<1>1. p \in Phones /\ m \in Emails
  BY DEF CreateUser, Typed, ControlOK, HoldsOK
<1>2. row \in Accounts /\ row.verified = FALSE
  BY <1>1, LockAssumption DEF Accounts, Typed
<1>3. account' = account \/ (account[p] = Null /\ account' = [account EXCEPT ![p] = row])
  <2>1. tokens' = tokens + 1
    BY DEF CreateUser, NewToken
  <2>2. CASE Registered(p, m) # {}
    BY <2>2 DEF CreateUser
  <2>3. CASE Registered(p, m) = {}
    <3>1. account[p] = Null
      BY <1>1, <2>3 DEF Registered
    <3>2. account' = [account EXCEPT ![p] = row]
      BY <2>1, <2>3 DEF CreateUser
    <3> QED
      BY <3>1, <3>2
  <2> QED
    BY <2>2, <2>3
<1> HIDE DEF row
<1> QED
  BY <1>1, <1>2, <1>3 DEF Typed

LEMMA TokenIssued ==
    ASSUME Typed, NEW w \in Workers, IssueToken(w)
    PROVE  LET p == mem[w].phone
           IN  /\ p \in Phones /\ account[p] # Null
               /\ account' \in [Phones -> Accounts \cup {Null}]
               /\ \A q \in Phones : q # p => account'[q] = account[q]
               /\ account'[p] # Null /\ account'[p].verified = account[p].verified
<1> DEFINE p == mem[w].phone  t == tokens + 1  e == clock + TokenTtl
           row == [account[p] EXCEPT !.token = t, !.expires = e]
<1>1. p \in Phones /\ account[p] # Null
  BY DEF IssueToken, Typed, ControlOK, HoldsOK, TokenCalls
<1>2. account[p] \in Accounts
  BY <1>1 DEF Typed
<1>3. row \in Accounts /\ row.verified = account[p].verified
  <2>1. t \in Nat /\ e \in Nat
    BY LockAssumption DEF Typed
  <2> HIDE DEF t, e, p
  <2> QED
    BY <1>2, <2>1 DEF Accounts
<1>4. account' = [account EXCEPT ![p] = row]
  BY <1>1 DEF IssueToken, NewToken, Typed
<1> HIDE DEF row, p
<1>5. account' \in [Phones -> Accounts \cup {Null}] /\ account'[p] = row
      /\ \A q \in Phones : q # p => account'[q] = account[q]
  BY <1>1, <1>3, <1>4 DEF Typed
<1> QED
  BY <1>1, <1>3, <1>5, RowsAssumption DEF p

LEMMA EmailVerified ==
    ASSUME Typed, NEW w \in Workers, verifyEmail(w)
    PROVE  LET p == mem[w].phone
           IN  /\ p \in Phones /\ account[p] # Null
               /\ account' \in [Phones -> Accounts \cup {Null}]
               /\ \A q \in Phones : q # p => account'[q] = account[q]
               /\ account'[p] # Null /\ account'[p].verified = TRUE /\ account'[p].token = Null
<1> DEFINE p == mem[w].phone
           row == [account[p] EXCEPT !.verified = TRUE, !.token = Null, !.expires = Null]
<1>1. p \in Phones /\ account[p] # Null
  BY DEF verifyEmail, Typed, ControlOK, HoldsOK, TokenCalls
<1>2. account[p] \in Accounts
  BY <1>1 DEF Typed
<1>3. row \in Accounts /\ row.verified = TRUE /\ row.token = Null
  BY <1>2 DEF Accounts
<1>4. account' = [account EXCEPT ![p] = row]
  BY DEF verifyEmail
<1> HIDE DEF row, p
<1>5. account' \in [Phones -> Accounts \cup {Null}] /\ account'[p] = row
      /\ \A q \in Phones : q # p => account'[q] = account[q]
  BY <1>1, <1>3, <1>4 DEF Typed
<1> QED
  BY <1>1, <1>3, <1>5, RowsAssumption DEF p

(* The locking arithmetic.                                                 *)
LEMMA LockTimes ==
    ASSUME NEW k \in Nat, k >= 1
    PROVE  /\ Lock * k \in Nat /\ Lock * k >= Lock
           /\ k >= 2 => Lock * k >= Lock + Lock
<1>1. Lock \in Nat /\ k - 1 \in Nat
  BY LockAssumption
<1>2. Lock * k = Lock + Lock * (k - 1)
  BY <1>1
<1>3. Lock * (k - 1) \in Nat
  BY <1>1
<1>4. k >= 2 => Lock * (k - 1) >= Lock
  <2>1. ASSUME k >= 2 PROVE Lock * (k - 1) = Lock + Lock * (k - 2) /\ Lock * (k - 2) \in Nat
    BY <1>1, <2>1
  <2> QED
    BY <1>1, <2>1
<1> QED
  BY <1>1, <1>2, <1>3, <1>4

LEMMA FailureRecorded ==
    ASSUME clock \in Nat, NEW s \in Attempts \cup {Null}
    PROVE  LET r == recordFailure(s)
           IN  /\ r \in Attempts /\ r # Null
               /\ \/ Kept(s) = Null /\ r.count = 1 /\ r.lockedUntil = Null /\ r.since = clock
                  \/ /\ s \in Attempts /\ ~WindowOver(s)
                     /\ r.count = s.count + 1
                     /\ r.since = s.since
                     /\ r.lockedUntil = IF s.count + 1 >= MaxAttempts
                                        THEN clock + Lock * (s.count + 2 - MaxAttempts)
                                        ELSE s.lockedUntil
<1>1. CASE Kept(s) = Null
  <2>1. recordFailure(s) = [count |-> 1, since |-> clock, lockedUntil |-> Null]
    BY <1>1 DEF recordFailure
  <2>2. [count |-> 1, since |-> clock, lockedUntil |-> Null] \in Attempts
    BY DEF Attempts
  <2> QED
    BY <1>1, <2>1, <2>2, RowsAssumption
<1>2. CASE Kept(s) # Null
  <2> DEFINE u == IF s.count + 1 >= MaxAttempts
                  THEN clock + Lock * (s.count + 2 - MaxAttempts) ELSE s.lockedUntil
             n == s.count + 1
             r == [s EXCEPT !.count = n, !.lockedUntil = u]
  <2>1. s \in Attempts /\ ~WindowOver(s)
    BY <1>2 DEF Kept
  <2>2. n \in Nat \ {0} /\ u \in Nat \cup {Null}
    <3>1. s.count \in Nat \ {0} /\ s.lockedUntil \in Nat \cup {Null}
      BY <2>1 DEF Attempts
    <3>2. ASSUME s.count + 1 >= MaxAttempts
          PROVE  Lock * (s.count + 2 - MaxAttempts) \in Nat
      <4>1. s.count + 2 - MaxAttempts \in Nat /\ s.count + 2 - MaxAttempts >= 1
        BY <3>1, <3>2, LockAssumption
      <4> QED
        BY <4>1, LockTimes
    <3> QED
      BY <3>1, <3>2
  <2>3. recordFailure(s) = r
    BY <1>2 DEF recordFailure
  <2>4. r \in Attempts /\ r.count = n /\ r.since = s.since /\ r.lockedUntil = u
    <3> HIDE DEF n, u
    <3> QED
      BY <2>1, <2>2 DEF Attempts
  <2> HIDE DEF r
  <2> QED
    BY <2>1, <2>3, <2>4, RowsAssumption
<1> QED
  BY <1>1, <1>2

(* The locks of two keys, forgotten or counted up.                         *)
LEMMA KeptType ==
    ASSUME NEW s \in Attempts \cup {Null}
    PROVE  Kept(s) \in Attempts \cup {Null}
BY DEF Kept

LEMMA TypedStep == Typed /\ [Next]_vars => Typed'
<1> SUFFICES ASSUME Typed, [Next]_vars PROVE Typed'
  OBVIOUS
<1>1. ASSUME NEW w \in Workers, NEW p \in Phones, NEW m \in Emails, Register(w, p, m)
      PROVE  Typed'
  <2>1. UNCHANGED <<clock, attempt, account, tokens, sessions, links>>
    BY <1>1 DEF Register
  <2>2. ASSUME Move(w, "create", [Blank EXCEPT !.phone = p, !.email = m]), crossed' = crossed
        PROVE  ControlOK' /\ crossed' \subseteq Phones
    <3> DEFINE b == [Blank EXCEPT !.phone = p, !.email = m]
    <3>1. b \in MemRows /\ b.phone = p /\ b.email = m
      BY DEF Blank, MemRows
    <3> HIDE DEF b
    <3>2. Move(w, "create", b)
      BY <2>2 DEF b
    <3> QED
      BY <2>1, <2>2, <3>1, <3>2, MoveType DEF Labels, TokenCalls, AtLogin, Typed
  <2>3. ASSUME NEW q \in Registered(p, m), TokenCall(w, "issue", q)
        PROVE  ControlOK' /\ crossed' \subseteq Phones
    BY <2>1, <2>3, TokenCallType DEF Registered, TokenCalls
  <2>4. ASSUME Return(w), crossed' = crossed
        PROVE  ControlOK' /\ crossed' \subseteq Phones
    BY <2>1, <2>4, ReturnType DEF Typed
  <2>5. ControlOK' /\ crossed' \subseteq Phones
    BY <1>1, <2>2, <2>3, <2>4 DEF Register
  <2> QED
    BY <2>1, <2>5 DEF Typed
<1>2. ASSUME NEW w \in Workers, CreateUser(w) PROVE Typed'
  <2>1. account' \in [Phones -> Accounts \cup {Null}]
        /\ \A q \in Phones : account[q] # Null => account'[q] # Null
    BY <1>2, AccountCreated
  <2>2. ControlOK'
    BY <1>2, <2>1, ReturnType DEF CreateUser
  <2> QED
    BY <1>2, <2>1, <2>2 DEF CreateUser, NewToken, Typed
<1>3. ASSUME NEW w \in Workers, IssueToken(w) PROVE Typed'
  <2>1. account' \in [Phones -> Accounts \cup {Null}]
        /\ \A q \in Phones : account[q] # Null => account'[q] # Null
    BY <1>3, TokenIssued
  <2>2. ControlOK'
    BY <1>3, <2>1, ReturnType DEF IssueToken
  <2> QED
    BY <1>3, <2>1, <2>2 DEF IssueToken, NewToken, Typed
<1>4. ASSUME NEW w \in Workers, NEW m \in Emails, resendEmailVerification(w, m) PROVE Typed'
  BY <1>4, TokenCallType DEF resendEmailVerification, TokenCalls, Typed
<1>5. ASSUME NEW w \in Workers, NEW t \in 1 .. tokens, FindToken(w, t) PROVE Typed'
  BY <1>5, TokenCallType DEF FindToken, TokenCalls, Typed
<1>6. ASSUME NEW w \in Workers, verifyEmail(w) PROVE Typed'
  <2>1. account' \in [Phones -> Accounts \cup {Null}] /\ mem[w].phone \in Phones
        /\ \A q \in Phones : account[q] # Null => account'[q] # Null
    BY <1>6, EmailVerified
  <2>2. ControlOK'
    BY <1>6, <2>1, ReturnType DEF verifyEmail
  <2> QED
    BY <1>6, <2>1, <2>2 DEF verifyEmail, Typed
<1>7. ASSUME NEW w \in Workers, NEW a \in Addresses, NEW p \in Phones, Login(w, a, p)
      PROVE  Typed'
  <2> DEFINE b == [Blank EXCEPT !.phone = p, !.address = a]
  <2>1. b \in MemRows /\ b.phone = p /\ b.address = a
    BY DEF Blank, MemRows
  <2>2. Move(w, "lookup", b) /\ account' = account
    BY <1>7 DEF Login
  <2>3. ControlOK'
    <3> HIDE DEF b
    <3> QED
      BY <2>1, <2>2, MoveType DEF Labels, TokenCalls, AtLogin
  <2>4. attempt' \in [Keys -> Attempts \cup {Null}]
    BY <1>7, KeptType DEF Login, Typed, Keys
  <2> QED
    BY <1>7, <2>3, <2>4 DEF Login, Typed
<1>8. ASSUME NEW w \in Workers, NEW a \in Addresses, NEW p \in Phones, LoginLocked(w, a, p)
      PROVE  Typed'
  <2>1. attempt' \in [Keys -> Attempts \cup {Null}]
    BY <1>8, KeptType DEF LoginLocked, Typed, Keys
  <2> QED
    BY <1>8, <2>1 DEF LoginLocked, Typed, ControlOK, HoldsOK
<1>9. ASSUME NEW w \in Workers, FindUser(w) PROVE Typed'
  <2> DEFINE b == [mem[w] EXCEPT !.verified = account[mem[w].phone].verified]
  <2>1. mem[w] \in MemRows /\ mem[w].phone \in Phones /\ mem[w].address \in Addresses
    BY <1>9 DEF FindUser, Typed, ControlOK, HoldsOK, AtLogin
  <2>2. account[mem[w].phone].verified \in BOOLEAN
    BY <1>9, <2>1 DEF FindUser, Typed, Accounts
  <2>3. b \in MemRows /\ b.phone = mem[w].phone /\ b.address = mem[w].address
    BY <2>1, <2>2 DEF MemRows
  <2>4. Move(w, "compare", b) /\ account' = account
    BY <1>9 DEF FindUser
  <2>5. ControlOK'
    <3> HIDE DEF b
    <3> QED
      BY <2>1, <2>3, <2>4, MoveType DEF Labels, TokenCalls, AtLogin
  <2> QED
    BY <1>9, <2>5 DEF FindUser, Typed
<1>10. ASSUME NEW w \in Workers, FailLogin(w) PROVE Typed'
  <2>1. mem[w].phone \in Phones /\ mem[w].address \in Addresses
    BY <1>10 DEF FailLogin, Typed, ControlOK, HoldsOK, AtLogin
  <2>2. \A k \in Keys : recordFailure(attempt[k]) \in Attempts
    BY FailureRecorded DEF Typed
  <2>3. attempt' \in [Keys -> Attempts \cup {Null}]
    BY <1>10, <2>1, <2>2, KeysAssumption DEF FailLogin, Typed, Keys
  <2> QED
    BY <1>10, <2>3, ReturnType DEF FailLogin, Typed
<1>11. ASSUME NEW w \in Workers, PassLogin(w) PROVE Typed'
  <2>1. mem[w].phone \in Phones
    BY <1>11 DEF PassLogin, Typed, ControlOK, HoldsOK
  <2> QED
    BY <1>11, <2>1, ReturnType DEF PassLogin, Typed, Keys, Welcome
<1>12. ASSUME NEW w \in Workers, Fail(w) PROVE Typed'
  BY <1>12, ReturnType DEF Fail, Typed
<1>13. CASE Restart
  BY <1>13, BlankType DEF Restart, Typed, ControlOK, HoldsOK, Labels, TokenCalls, AtLogin
<1>14. CASE Tick
  BY <1>14 DEF Tick, Typed, ControlOK, HoldsOK
<1>15. CASE UNCHANGED vars
  BY <1>15 DEF vars, Typed, ControlOK, HoldsOK
<1> QED
  BY <1>1, <1>2, <1>3, <1>4, <1>5, <1>6, <1>7, <1>8, <1>9, <1>10, <1>11, <1>12, <1>13,
     <1>14, <1>15 DEF Next, Handle

LEMMA TypedInit == Init => Typed
BY BlankType DEF Init, Typed, ControlOK, HoldsOK, Labels, TokenCalls, AtLogin

(* Every row, every counted attempt and every request keeps its type.      *)
THEOREM TypeCorrect == Spec => []TypeOK
BY TypedInit, TypedStep, TypedIsTypeOK, PTL DEF Spec

LEMMA AlwaysTyped == Spec => []Typed
BY TypedInit, TypedStep, PTL DEF Spec

-----------------------------------------------------------------------------
(* SessionNeedsVerified.                                                   *)

IsVerified(p) == account[p] # Null /\ account[p].verified

(* A login that read a verified account is about one, still.               *)
VerifiedInv ==
    /\ \A p \in sessions : IsVerified(p)
    /\ \A w \in Workers : pc[w] = "compare" /\ mem[w].verified => IsVerified(mem[w].phone)

(* No step takes an account or its verification away.                      *)
LEMMA VerifiedStays ==
    ASSUME Typed, [Next]_vars, NEW p \in Phones, IsVerified(p)
    PROVE  IsVerified(p)'
<1>1. ASSUME NEW w \in Workers, CreateUser(w) PROVE account'[p] = account[p]
  BY <1>1, AccountCreated DEF IsVerified
<1>2. ASSUME NEW w \in Workers, IssueToken(w) PROVE IsVerified(p)'
  BY <1>2, TokenIssued DEF IsVerified
<1>3. ASSUME NEW w \in Workers, verifyEmail(w) PROVE IsVerified(p)'
  BY <1>3, EmailVerified DEF IsVerified
<1>4. CASE account' = account
  BY <1>4 DEF IsVerified
<1> QED
  BY <1>1, <1>2, <1>3, <1>4 DEF IsVerified, Next, Handle, Register, resendEmailVerification, FindToken,
     Login, LoginLocked, FindUser, FailLogin, PassLogin, Fail, Restart, Tick, vars

LEMMA VerifiedKept ==
    ASSUME Typed, VerifiedInv, [Next]_vars,
           \A p \in sessions' : p \in sessions \/ IsVerified(p)',
           \A v \in Workers : pc'[v] = "compare" =>
               \/ pc[v] = "compare" /\ mem'[v] = mem[v]
               \/ mem'[v].verified = TRUE => IsVerified(mem[v].phone) /\ mem'[v].phone = mem[v].phone
                                             /\ mem[v].phone \in Phones
    PROVE  VerifiedInv'
<1>1. \A p \in Phones : IsVerified(p) => IsVerified(p)'
  BY VerifiedStays
<1>2. ASSUME NEW p \in sessions' PROVE IsVerified(p)'
  BY <1>1, <1>2 DEF VerifiedInv, Typed
<1>3. ASSUME NEW v \in Workers, pc'[v] = "compare", mem'[v].verified
      PROVE  account'[mem'[v].phone] # Null /\ account'[mem'[v].phone].verified
  <2>1. CASE pc[v] = "compare" /\ mem'[v] = mem[v]
    <3>1. mem[v].phone \in Phones
      BY <2>1 DEF Typed, ControlOK, HoldsOK
    <3>2. IsVerified(mem[v].phone)
      BY <1>3, <2>1 DEF VerifiedInv
    <3> QED
      BY <1>1, <2>1, <3>1, <3>2 DEF IsVerified
  <2>2. CASE mem'[v].verified = TRUE => IsVerified(mem[v].phone) /\ mem'[v].phone = mem[v].phone
                                        /\ mem[v].phone \in Phones
    <3>1. mem'[v] \in MemRows
      <4>1. Typed'
        BY TypedStep
      <4> QED
        BY <4>1 DEF Typed, ControlOK
    <3>2. mem'[v].verified = TRUE
      BY <1>3, <3>1 DEF MemRows
    <3> QED
      BY <1>1, <2>2, <3>2 DEF IsVerified
  <2> QED
    BY <1>3, <2>1, <2>2
<1> QED
  BY <1>2, <1>3 DEF VerifiedInv, IsVerified

(* A request that moves anywhere but to the password compares nothing.     *)
LEMMA VerifiedMoved ==
    ASSUME Typed, VerifiedInv, [Next]_vars, NEW w \in Workers,
           NEW label, label # "compare", NEW m, Move(w, label, m),
           \A p \in sessions' : p \in sessions \/ IsVerified(p)'
    PROVE  VerifiedInv'
BY VerifiedKept, MoveOnly

LEMMA VerifiedStep == Typed /\ VerifiedInv /\ [Next]_vars => VerifiedInv'
<1> SUFFICES ASSUME Typed, VerifiedInv, [Next]_vars PROVE VerifiedInv'
  OBVIOUS
<1>1. ASSUME NEW w \in Workers, NEW p \in Phones, NEW m \in Emails, Register(w, p, m)
      PROVE  VerifiedInv'
  BY <1>1, VerifiedMoved DEF Register, TokenCall, Return
<1>2. ASSUME NEW w \in Workers, CreateUser(w) PROVE VerifiedInv'
  BY <1>2, VerifiedMoved DEF CreateUser, Return
<1>3. ASSUME NEW w \in Workers, IssueToken(w) PROVE VerifiedInv'
  BY <1>3, VerifiedMoved DEF IssueToken, Return
<1>4. ASSUME NEW w \in Workers, NEW m \in Emails, resendEmailVerification(w, m) PROVE VerifiedInv'
  BY <1>4, VerifiedMoved DEF resendEmailVerification, TokenCall
<1>5. ASSUME NEW w \in Workers, NEW t \in 1 .. tokens, FindToken(w, t) PROVE VerifiedInv'
  BY <1>5, VerifiedMoved DEF FindToken, TokenCall
<1>6. ASSUME NEW w \in Workers, verifyEmail(w) PROVE VerifiedInv'
  <2>1. \A p \in sessions' : p \in sessions \/ IsVerified(p)'
    BY <1>6, EmailVerified DEF verifyEmail, IsVerified
  <2> QED
    BY <1>6, <2>1, VerifiedMoved DEF verifyEmail, Return
<1>7. ASSUME NEW w \in Workers, NEW a \in Addresses, NEW p \in Phones, Login(w, a, p)
      PROVE  VerifiedInv'
  BY <1>7, VerifiedMoved DEF Login
<1>8. ASSUME NEW w \in Workers, NEW a \in Addresses, NEW p \in Phones, LoginLocked(w, a, p)
      PROVE  VerifiedInv'
  BY <1>8 DEF LoginLocked, VerifiedInv, IsVerified
<1>9. ASSUME NEW w \in Workers, FindUser(w) PROVE VerifiedInv'
  <2> DEFINE p == mem[w].phone
             b == [mem[w] EXCEPT !.verified = account[p].verified]
  <2>1. mem[w] \in MemRows /\ p \in Phones /\ account[p] # Null
    BY <1>9 DEF FindUser, Typed, ControlOK, HoldsOK
  <2>2. b.phone = p /\ b.verified = account[p].verified
    BY <2>1 DEF MemRows
  <2>3. b.verified = TRUE => IsVerified(p)
    BY <2>1, <2>2 DEF IsVerified
  <2>4. Move(w, "compare", b) /\ sessions' = sessions
    BY <1>9 DEF FindUser
  <2> HIDE DEF b
  <2>5. \A v \in Workers : pc'[v] = "compare" =>
               \/ pc[v] = "compare" /\ mem'[v] = mem[v]
               \/ mem'[v].verified = TRUE => IsVerified(mem[v].phone) /\ mem'[v].phone = mem[v].phone
                                             /\ mem[v].phone \in Phones
    BY <2>1, <2>2, <2>3, <2>4, MoveOnly
  <2> QED
    BY <2>4, <2>5, VerifiedKept
<1>10. ASSUME NEW w \in Workers, FailLogin(w) PROVE VerifiedInv'
  BY <1>10, VerifiedMoved DEF FailLogin, Return
<1>11. ASSUME NEW w \in Workers, PassLogin(w) PROVE VerifiedInv'
  <2>1. ASSUME NEW p \in sessions', p \notin sessions PROVE IsVerified(p)'
    <3>1. mem[w].verified /\ p = mem[w].phone
      BY <1>11, <2>1 DEF PassLogin, Welcome
    <3>2. IsVerified(p)
      BY <1>11, <3>1 DEF PassLogin, VerifiedInv
    <3> QED
      BY <1>11, <3>2 DEF PassLogin, IsVerified
  <2> QED
    BY <1>11, <2>1, VerifiedMoved DEF PassLogin, Return
<1>12. ASSUME NEW w \in Workers, Fail(w) PROVE VerifiedInv'
  BY <1>12, VerifiedMoved DEF Fail, Return
<1>13. CASE Restart
  BY <1>13 DEF Restart, VerifiedInv, IsVerified
<1>14. CASE Tick
  BY <1>14 DEF Tick, VerifiedInv, IsVerified
<1>15. CASE UNCHANGED vars
  BY <1>15 DEF vars, VerifiedInv, IsVerified
<1> QED
  BY <1>1, <1>2, <1>3, <1>4, <1>5, <1>6, <1>7, <1>8, <1>9, <1>10, <1>11, <1>12, <1>13,
     <1>14, <1>15 DEF Next, Handle

(* A phone that was ever given an access token has a verified account,     *)
(* whatever happens between login's read of the account and its answer.    *)
THEOREM SessionsAreVerified == Spec => []SessionNeedsVerified
<1>1. Init => VerifiedInv
  BY DEF Init, VerifiedInv, Blank
<1>2. VerifiedInv => SessionNeedsVerified
  BY DEF VerifiedInv, IsVerified, SessionNeedsVerified
<1> QED
  BY <1>1, <1>2, VerifiedStep, AlwaysTyped, PTL DEF Spec

-----------------------------------------------------------------------------
(* LinkWorksOnce.                                                          *)

(* The calls about to write the token columns of an account.               *)
Calling(p) == {w \in Workers : pc[w] \in TokenCalls /\ mem[w].phone = p}

LinkOK(p) ==
    /\ \A v, w \in Calling(p) : v = w
    /\ Calling(p) # {} => ~IsVerified(p)
    /\ ~IsVerified(p) => links[p] = 0
    /\ links[p] \in {0, 1}
    /\ IsVerified(p) => account[p].token = Null
LinkInv == \A p \in Phones \ crossed : LinkOK(p)

LEMMA LinkKept ==
    ASSUME NEW p, LinkOK(p), Calling(p)' \subseteq Calling(p), links'[p] = links[p],
           IsVerified(p)' <=> IsVerified(p),
           IsVerified(p) => account'[p].token = account[p].token
    PROVE  LinkOK(p)'
BY DEF LinkOK

(* A request that ends its call, or makes one about something else.        *)
LEMMA CallingShrinks ==
    ASSUME Typed, NEW w \in Workers, NEW label, NEW m, Move(w, label, m), NEW p,
           label \notin TokenCalls \/ m.phone # p
    PROVE  Calling(p)' = Calling(p) \ {w}
BY MoveOnly DEF Calling, TokenCalls

LEMMA LinkCalled ==
    ASSUME Typed, LinkInv, NEW w \in Workers, pc[w] = "idle", NEW label \in TokenCalls,
           NEW q \in Phones, TokenCall(w, label, q), UNCHANGED <<account, links>>,
           account[q] # Null,
           q \notin crossed => ~IsVerified(q)
    PROVE  LinkInv'
<1> SUFFICES ASSUME NEW p \in Phones, p \notin crossed' PROVE LinkOK(p)'
  BY DEF LinkInv
<1>1. p \notin crossed /\ LinkOK(p)
  BY DEF TokenCall, LinkInv
<1>2. /\ pc'[w] = label /\ mem'[w].phone = q
      /\ \A v \in Workers : v # w => pc'[v] = pc[v] /\ mem'[v] = mem[v]
  BY TokenCallType
<1>3. CASE p # q
  <2>1. Calling(p)' \subseteq Calling(p)
    BY <1>2, <1>3 DEF Calling
  <2> QED
    BY <1>1, <2>1, LinkKept DEF IsVerified
<1>4. CASE p = q
  <2>1. Calling(p) = {}
    BY <1>4 DEF TokenCall, Calling
  <2>2. Calling(p)' \subseteq {w}
    BY <1>2, <2>1 DEF Calling
  <2>3. ~IsVerified(p) /\ ~IsVerified(p)'
    BY <1>1, <1>4 DEF IsVerified
  <2> QED
    BY <1>1, <2>2, <2>3 DEF LinkOK
<1> QED
  BY <1>3, <1>4

(* A step that moves no request to a token call and writes no account.     *)
LEMMA LinkMoved ==
    ASSUME Typed, LinkInv, NEW w \in Workers, NEW label, label \notin TokenCalls, NEW m,
           Move(w, label, m), UNCHANGED <<account, links, crossed>>
    PROVE  LinkInv'
<1> SUFFICES ASSUME NEW p \in Phones \ crossed PROVE LinkOK(p)'
  BY DEF LinkInv
<1>1. Calling(p)' \subseteq Calling(p)
  BY CallingShrinks
<1> QED
  BY <1>1, LinkKept DEF LinkInv, IsVerified

LEMMA LinkStep == Typed /\ LinkInv /\ [Next]_vars => LinkInv'
<1> SUFFICES ASSUME Typed, LinkInv, [Next]_vars PROVE LinkInv'
  OBVIOUS
<1>1. ASSUME NEW w \in Workers, NEW p \in Phones, NEW m \in Emails, Register(w, p, m)
      PROVE  LinkInv'
  <2>1. pc[w] = "idle" /\ UNCHANGED <<account, links>>
    BY <1>1 DEF Register
  <2>2. ASSUME NEW b, Move(w, "create", b), crossed' = crossed PROVE LinkInv'
    BY <2>1, <2>2, LinkMoved DEF TokenCalls
  <2>3. ASSUME NEW q \in Registered(p, m), ~account[q].verified, TokenCall(w, "issue", q)
        PROVE  LinkInv'
    BY <2>1, <2>3, LinkCalled DEF Registered, TokenCalls, IsVerified
  <2>4. ASSUME Return(w), crossed' = crossed PROVE LinkInv'
    BY <2>1, <2>4, LinkMoved DEF TokenCalls, Return
  <2> QED
    BY <1>1, <2>2, <2>3, <2>4 DEF Register
<1>2. ASSUME NEW w \in Workers, CreateUser(w) PROVE LinkInv'
  <2> SUFFICES ASSUME NEW p \in Phones \ crossed PROVE LinkOK(p)'
    BY <1>2 DEF LinkInv, CreateUser
  <2>1. Calling(p)' \subseteq Calling(p)
    BY <1>2, CallingShrinks DEF CreateUser, Return, TokenCalls
  <2>2. IsVerified(p)' <=> IsVerified(p)
    BY <1>2, AccountCreated DEF IsVerified
  <2>3. IsVerified(p) => account'[p] = account[p]
    BY <1>2, AccountCreated DEF IsVerified
  <2> QED
    BY <1>2, <2>1, <2>2, <2>3, LinkKept DEF LinkInv, CreateUser
<1>3. ASSUME NEW w \in Workers, IssueToken(w) PROVE LinkInv'
  <2> SUFFICES ASSUME NEW p \in Phones \ crossed PROVE LinkOK(p)'
    BY <1>3 DEF LinkInv, IssueToken
  <2>1. Calling(p)' \subseteq Calling(p)
    BY <1>3, CallingShrinks DEF IssueToken, Return, TokenCalls
  <2>2. IsVerified(p)' <=> IsVerified(p)
    BY <1>3, TokenIssued DEF IsVerified
  <2>3. IsVerified(p) => account'[p].token = account[p].token
    <3>1. CASE p = mem[w].phone
      BY <1>3, <3>1 DEF LinkInv, LinkOK, Calling, IssueToken, TokenCalls
    <3>2. CASE p # mem[w].phone
      BY <1>3, <3>2, TokenIssued
    <3> QED
      BY <3>1, <3>2
  <2> QED
    BY <1>3, <2>1, <2>2, <2>3, LinkKept DEF LinkInv, IssueToken
<1>4. ASSUME NEW w \in Workers, NEW m \in Emails, resendEmailVerification(w, m) PROVE LinkInv'
  BY <1>4, LinkCalled DEF resendEmailVerification, TokenCalls, IsVerified
<1>5. ASSUME NEW w \in Workers, NEW t \in 1 .. tokens, FindToken(w, t) PROVE LinkInv'
  <2>1. PICK q \in Phones : /\ account[q] # Null /\ account[q].token = t
                            /\ TokenCall(w, "verify", q)
    BY <1>5 DEF FindToken
  <2>2. t # Null
    BY NullAssumption
  <2>3. q \notin crossed => ~IsVerified(q)
    BY <2>1, <2>2 DEF LinkInv, LinkOK
  <2> QED
    BY <1>5, <2>1, <2>3, LinkCalled DEF FindToken, TokenCalls
<1>6. ASSUME NEW w \in Workers, verifyEmail(w) PROVE LinkInv'
  <2> SUFFICES ASSUME NEW p \in Phones \ crossed PROVE LinkOK(p)'
    BY <1>6 DEF LinkInv, verifyEmail
  <2>1. Calling(p)' = Calling(p) \ {w}
    BY <1>6, CallingShrinks DEF verifyEmail, Return, TokenCalls
  <2>2. LinkOK(p)
    BY DEF LinkInv
  <2>3. CASE p # mem[w].phone
    <3>1. account'[p] = account[p] /\ links'[p] = links[p]
      BY <1>6, <2>3, EmailVerified DEF verifyEmail, Typed
    <3> QED
      BY <2>1, <2>2, <3>1, LinkKept DEF IsVerified
  <2>4. CASE p = mem[w].phone
    <3>1. w \in Calling(p)
      BY <1>6, <2>4 DEF verifyEmail, Calling, TokenCalls
    <3>2. links[p] = 0 /\ Calling(p)' = {}
      BY <2>1, <2>2, <3>1 DEF LinkOK
    <3>3. links'[p] = 1
      BY <1>6, <2>4, <3>2 DEF verifyEmail, Typed
    <3>4. IsVerified(p)' /\ account'[p].token = Null
      BY <1>6, <2>4, EmailVerified DEF IsVerified
    <3> QED
      BY <3>2, <3>3, <3>4 DEF LinkOK
  <2> QED
    BY <2>3, <2>4
<1>7. ASSUME NEW w \in Workers, NEW a \in Addresses, NEW p \in Phones, Login(w, a, p)
      PROVE  LinkInv'
  BY <1>7, LinkMoved DEF Login, TokenCalls
<1>8. ASSUME NEW w \in Workers, NEW a \in Addresses, NEW p \in Phones, LoginLocked(w, a, p)
      PROVE  LinkInv'
  BY <1>8 DEF LoginLocked, LinkInv, LinkOK, Calling, IsVerified
<1>9. ASSUME NEW w \in Workers, FindUser(w) PROVE LinkInv'
  BY <1>9, LinkMoved DEF FindUser, TokenCalls
<1>10. ASSUME NEW w \in Workers, FailLogin(w) PROVE LinkInv'
  BY <1>10, LinkMoved DEF FailLogin, Return, TokenCalls
<1>11. ASSUME NEW w \in Workers, PassLogin(w) PROVE LinkInv'
  BY <1>11, LinkMoved DEF PassLogin, Return, TokenCalls
<1>12. ASSUME NEW w \in Workers, Fail(w) PROVE LinkInv'
  BY <1>12, LinkMoved DEF Fail, Return, TokenCalls
<1>13. CASE Restart
  <2>1. \A p : Calling(p)' = {}
    BY <1>13 DEF Restart, Calling, TokenCalls
  <2> QED
    BY <1>13, <2>1 DEF Restart, LinkInv, LinkOK, IsVerified
<1>14. CASE Tick
  BY <1>14 DEF Tick, LinkInv, LinkOK, Calling, IsVerified
<1>15. CASE UNCHANGED vars
  BY <1>15 DEF vars, LinkInv, LinkOK, Calling, IsVerified
<1> QED
  BY <1>1, <1>2, <1>3, <1>4, <1>5, <1>6, <1>7, <1>8, <1>9, <1>10, <1>11, <1>12, <1>13,
     <1>14, <1>15 DEF Next, Handle

(* An account whose token calls never overlap gives out one session for a  *)
(* link in its life, and holds no token once its email is verified.        *)
THEOREM LinksWorkOnce == Spec => []LinkWorksOnce
<1>1. Init => LinkInv
  BY DEF Init, LinkInv, LinkOK, Calling, IsVerified, TokenCalls
<1>2. LinkInv => LinkWorksOnce
  BY DEF LinkInv, LinkOK, IsVerified, LinkWorksOnce
<1> QED
  BY <1>1, <1>2, LinkStep, AlwaysTyped, PTL DEF Spec

-----------------------------------------------------------------------------
(* AttemptsBounded and AnswerTellsLock.                                    *)

(* The logins that a key has admitted and not yet counted.                 *)
InLogin(k) ==
    {w \in Workers : pc[w] \in AtLogin /\ k \in {mem[w].phone, mem[w].address}}
Slack == IF Lock > Window THEN 1 ELSE 0

(* A key below the limit is not locked; one at the limit is locked for     *)
(* longer than its window with every failure, so that what it counts and   *)
(* what it may yet count are bounded together.                             *)
AttemptOK(k) ==
    attempt[k] # Null =>
        /\ attempt[k].since <= clock
        /\ attempt[k].count < MaxAttempts => attempt[k].lockedUntil = Null
        /\ attempt[k].count >= MaxAttempts =>
              /\ attempt[k].lockedUntil # Null
              /\ attempt[k].lockedUntil >=
                    attempt[k].since + Lock * (attempt[k].count + 1 - MaxAttempts)
        /\ attempt[k].count + Cardinality(InLogin(k))
              <= MaxAttempts + Cardinality(Workers) - Slack
AttemptInv == \A k \in Keys : AttemptOK(k)

LEMMA WorkersFinite ==
    ASSUME NEW S, S \subseteq Workers
    PROVE  /\ IsFiniteSet(S) /\ Cardinality(S) \in Nat /\ Cardinality(Workers) \in Nat
           /\ Cardinality(S) <= Cardinality(Workers)
           /\ \A w \in S : Cardinality(S \ {w}) = Cardinality(S) - 1
           /\ \A w \in Workers \ S :
                 /\ Cardinality(S \cup {w}) = Cardinality(S) + 1
                 /\ Cardinality(S) + 1 <= Cardinality(Workers)
<1>1. IsFiniteSet(Workers)
  BY BoundsAssumption
<1>2. IsFiniteSet(S) /\ Cardinality(S) <= Cardinality(Workers)
  BY <1>1, FS_Subset
<1>3. Cardinality(S) \in Nat /\ Cardinality(Workers) \in Nat
  BY <1>1, <1>2, FS_CardinalityType
<1>4. ASSUME NEW w \in S PROVE Cardinality(S \ {w}) = Cardinality(S) - 1
  BY <1>2, FS_RemoveElement
<1>5. ASSUME NEW w \in Workers \ S
      PROVE  /\ Cardinality(S \cup {w}) = Cardinality(S) + 1
             /\ Cardinality(S) + 1 <= Cardinality(Workers)
  <2>1. Cardinality(S \cup {w}) = Cardinality(S) + 1
    BY <1>2, FS_AddElement
  <2>2. S \cup {w} \subseteq Workers
    OBVIOUS
  <2>3. Cardinality(S \cup {w}) <= Cardinality(Workers)
    BY <1>1, <2>2, FS_Subset
  <2> QED
    BY <2>1, <2>3
<1> QED
  BY <1>2, <1>3, <1>4, <1>5

(* A step after which fewer logins are under way, and that forgets the     *)
(* attempts of a key or leaves them, keeps the bound.                      *)
LEMMA AttemptKept ==
    ASSUME Typed, NEW k \in Keys, AttemptOK(k), clock' \in Nat, clock' >= clock,
           attempt'[k] \in {Null, attempt[k]}, InLogin(k)' \subseteq InLogin(k)
    PROVE  AttemptOK(k)'
<1> SUFFICES ASSUME attempt'[k] # Null PROVE AttemptOK(k)'
  BY DEF AttemptOK
<1>1. attempt'[k] = attempt[k] /\ attempt[k] # Null /\ attempt[k] \in Attempts
  BY DEF Typed
<1>2. attempt[k].count \in Nat /\ attempt[k].since \in Nat
  BY <1>1 DEF Attempts
<1>3. InLogin(k) \subseteq Workers
  BY DEF InLogin
<1>4. Cardinality(InLogin(k)') <= Cardinality(InLogin(k))
  BY <1>3, WorkersFinite, FS_Subset
<1>5. Cardinality(InLogin(k)') \in Nat /\ Cardinality(InLogin(k)) \in Nat
      /\ Cardinality(Workers) \in Nat
  BY <1>3, WorkersFinite
<1>6. Slack \in Nat /\ MaxAttempts \in Nat
  BY LockAssumption DEF Slack
<1>7. attempt[k].count + Cardinality(InLogin(k)') <= MaxAttempts + Cardinality(Workers) - Slack
  <2>1. attempt[k].count + Cardinality(InLogin(k)) <= MaxAttempts + Cardinality(Workers) - Slack
    BY <1>1 DEF AttemptOK
  <2> QED
    BY <1>2, <1>4, <1>5, <1>6, <2>1
<1>8. attempt[k].since <= clock'
  BY <1>1, <1>2 DEF AttemptOK, Typed
<1> QED
  BY <1>1, <1>7, <1>8 DEF AttemptOK, Slack

LEMMA InLoginMoved ==
    ASSUME Typed, NEW w \in Workers, NEW label, NEW m, Move(w, label, m), NEW k
    PROVE  /\ label \notin AtLogin => InLogin(k)' = InLogin(k) \ {w}
           /\ label \in AtLogin /\ k \notin {m.phone, m.address} => InLogin(k)' = InLogin(k) \ {w}
           /\ label \in AtLogin /\ k \in {m.phone, m.address} => InLogin(k)' = InLogin(k) \cup {w}
BY MoveOnly DEF InLogin

(* A request that leaves login, or goes on elsewhere, and counts nothing.  *)
LEMMA AttemptMoved ==
    ASSUME Typed, AttemptInv, NEW w \in Workers, NEW label, label \notin AtLogin, NEW m,
           Move(w, label, m), clock' = clock,
           \A k \in Keys : attempt'[k] \in {Null, attempt[k]}
    PROVE  AttemptInv'
<1> SUFFICES ASSUME NEW k \in Keys PROVE AttemptOK(k)'
  BY DEF AttemptInv
<1>1. InLogin(k)' \subseteq InLogin(k)
  BY InLoginMoved
<1>2. clock' \in Nat /\ clock' >= clock
  BY DEF Typed
<1> QED
  BY <1>1, <1>2, AttemptKept DEF AttemptInv

(* A key that lets a login in is below the limit, or at it with a lock of  *)
(* exactly the window's length that ended in this very instant.            *)
LEMMA AdmittedBelow ==
    ASSUME Typed, NEW k \in Keys, AttemptOK(k), ~Locked(k), Kept(attempt[k]) # Null
    PROVE  attempt[k].count <= MaxAttempts - Slack
<1> DEFINE s == attempt[k]
<1>1. s \in Attempts /\ s # Null /\ ~WindowOver(s)
  BY DEF Kept, Typed
<1>2. ~InForce(s)
  BY <1>1 DEF Locked
<1>3. s.count \in Nat \ {0} /\ s.since \in Nat /\ s.lockedUntil \in Nat \cup {Null}
  BY <1>1 DEF Attempts
<1>4. clock <= s.since + Window
  BY <1>1, <1>3, LockAssumption DEF WindowOver, Typed
<1>5. Slack \in {0, 1} /\ MaxAttempts \in Nat /\ Lock \in Nat /\ Window \in Nat
      /\ Lock >= Window /\ Window >= 1
  BY LockAssumption DEF Slack
<1> SUFFICES ASSUME s.count >= MaxAttempts PROVE s.count <= MaxAttempts - Slack
  BY <1>3, <1>5
<1>6. s.lockedUntil \in Nat /\ s.lockedUntil >= s.since + Lock * (s.count + 1 - MaxAttempts)
  BY <1>1, <1>3 DEF AttemptOK
<1>7. s.lockedUntil <= clock
  BY <1>2, <1>6, NullAssumption DEF InForce, Typed
<1> DEFINE n == s.count + 1 - MaxAttempts
<1>8. n \in Nat /\ n >= 1
  BY <1>3, <1>5
<1>9. Lock * n \in Nat /\ Lock * n >= Lock /\ (n >= 2 => Lock * n >= Lock + Lock)
  BY <1>8, LockTimes
<1>10. Lock * n <= Window
  <2>1. s.lockedUntil >= s.since + Lock * n
    BY <1>6
  <2> HIDE DEF n
  <2>2. clock \in Nat
    BY DEF Typed
  <2> QED
    BY <1>3, <1>4, <1>5, <1>6, <1>7, <1>9, <2>1, <2>2
<1>11. ~(n >= 2) /\ Slack = 0
  <2> HIDE DEF n
  <2> QED
    BY <1>5, <1>9, <1>10 DEF Slack
<1> QED
  BY <1>3, <1>5, <1>8, <1>11

LEMMA AttemptAdmitted ==
    ASSUME Typed, AttemptInv, NEW w \in Workers, NEW a \in Addresses, NEW p \in Phones,
           Login(w, a, p)
    PROVE  AttemptInv'
<1> SUFFICES ASSUME NEW k \in Keys PROVE AttemptOK(k)'
  BY DEF AttemptInv
<1> DEFINE b == [Blank EXCEPT !.phone = p, !.address = a]
<1>1. b.phone = p /\ b.address = a /\ Move(w, "lookup", b)
  BY DEF Blank, Login
<1>2. AttemptOK(k) /\ clock' = clock /\ clock \in Nat
  BY DEF AttemptInv, Login, Typed
<1>3. pc[w] = "idle" /\ w \notin InLogin(k)
  BY DEF Login, InLogin, AtLogin
<1> HIDE DEF b
<1>4. CASE k \notin {a, p}
  <2>1. InLogin(k)' \subseteq InLogin(k)
    BY <1>1, <1>4, InLoginMoved DEF AtLogin
  <2>2. attempt'[k] = attempt[k]
    BY <1>4 DEF Login, Typed
  <2> QED
    BY <1>2, <2>1, <2>2, AttemptKept
<1>5. CASE k \in {a, p}
  <2>1. InLogin(k)' = InLogin(k) \cup {w}
    BY <1>1, <1>5, InLoginMoved DEF AtLogin
  <2>2. attempt'[k] = Kept(attempt[k])
    BY <1>5, KeysAssumption DEF Login, Typed, Keys
  <2>3. ~Locked(k)
    BY <1>5 DEF Login, TurnedAway
  <2> SUFFICES ASSUME attempt'[k] # Null PROVE AttemptOK(k)'
    BY DEF AttemptOK
  <2>4. attempt'[k] = attempt[k] /\ attempt[k] # Null /\ attempt[k] \in Attempts
    BY <2>2 DEF Kept, Typed
  <2>5. attempt[k].count <= MaxAttempts - Slack
    BY <1>2, <2>2, <2>3, AdmittedBelow
  <2>6. attempt[k].count \in Nat /\ MaxAttempts \in Nat /\ Slack \in Nat
    BY <2>4, LockAssumption DEF Attempts, Slack
  <2>7. InLogin(k)' \subseteq Workers
    BY DEF InLogin
  <2>8. Cardinality(InLogin(k)') \in Nat /\ Cardinality(Workers) \in Nat
        /\ Cardinality(InLogin(k)') <= Cardinality(Workers)
    BY <2>7, WorkersFinite
  <2>9. attempt[k].count + Cardinality(InLogin(k)') <= MaxAttempts + Cardinality(Workers) - Slack
    BY <2>5, <2>6, <2>8
  <2> QED
    BY <1>2, <2>4, <2>9 DEF AttemptOK, Slack
<1> QED
  BY <1>4, <1>5

(* A failure of a key: what it counts, and until when it locks.            *)
LEMMA FailureLocks ==
    ASSUME Typed, NEW k \in Keys, AttemptOK(k)
    PROVE  LET r == recordFailure(attempt[k])
           IN  /\ r \in Attempts /\ r # Null /\ r.since <= clock /\ ~WindowOver(r)
               /\ r.count < MaxAttempts => r.lockedUntil = Null
               /\ r.count >= MaxAttempts =>
                     /\ r.lockedUntil # Null /\ r.lockedUntil > clock
                     /\ r.lockedUntil >= r.since + Lock * (r.count + 1 - MaxAttempts)
               /\ \/ r.count = 1
                  \/ attempt[k] # Null /\ r.count = attempt[k].count + 1
<1> DEFINE s == attempt[k]
           r == recordFailure(s)
<1>1. s \in Attempts \cup {Null} /\ clock \in Nat
  BY DEF Typed
<1>2. r \in Attempts /\ r # Null
  BY <1>1, FailureRecorded
<1>3. MaxAttempts \in Nat /\ MaxAttempts >= 2 /\ Window \in Nat /\ Lock \in Nat /\ Lock >= 1
  BY LockAssumption
<1>4. CASE Kept(s) = Null /\ r.count = 1 /\ r.lockedUntil = Null /\ r.since = clock
  BY <1>1, <1>2, <1>3, <1>4 DEF WindowOver
<1>5. CASE /\ s \in Attempts /\ ~WindowOver(s)
           /\ r.count = s.count + 1
           /\ r.since = s.since
           /\ r.lockedUntil = IF s.count + 1 >= MaxAttempts
                              THEN clock + Lock * (s.count + 2 - MaxAttempts)
                              ELSE s.lockedUntil
  <2>1. s # Null /\ s.count \in Nat /\ s.since \in Nat
    BY <1>5, RowsAssumption DEF Attempts
  <2>2. s.since <= clock /\ (s.count < MaxAttempts => s.lockedUntil = Null)
    BY <2>1 DEF AttemptOK
  <2>3. ~WindowOver(r)
    BY <1>5 DEF WindowOver
  <2>4. ASSUME r.count < MaxAttempts PROVE r.lockedUntil = Null
    BY <1>3, <1>5, <2>1, <2>2, <2>4
  <2>5. ASSUME r.count >= MaxAttempts
        PROVE  /\ r.lockedUntil # Null /\ r.lockedUntil > clock
               /\ r.lockedUntil >= r.since + Lock * (r.count + 1 - MaxAttempts)
    <3> DEFINE n == s.count + 2 - MaxAttempts
    <3>1. n \in Nat /\ n >= 1 /\ n = r.count + 1 - MaxAttempts
      BY <1>3, <1>5, <2>1, <2>5
    <3>2. r.lockedUntil = clock + Lock * n
      BY <1>5, <2>5
    <3>3. Lock * n \in Nat /\ Lock * n >= Lock
      BY <3>1, LockTimes
    <3>4. r.lockedUntil \in Nat /\ r.lockedUntil > clock /\ r.lockedUntil >= r.since + Lock * n
      <4> HIDE DEF n, r, s
      <4> QED
        BY <1>1, <1>3, <1>5, <2>1, <2>2, <3>2, <3>3
    <3> QED
      BY <3>1, <3>4, NullAssumption
  <2>6. r.since <= clock /\ r.count = s.count + 1
    BY <1>5, <2>2
  <2> HIDE DEF r, s
  <2> QED
    BY <1>2, <2>1, <2>3, <2>4, <2>5, <2>6 DEF r, s
<1> HIDE DEF r, s
<1>6. \/ Kept(s) = Null /\ r.count = 1 /\ r.lockedUntil = Null /\ r.since = clock
      \/ /\ s \in Attempts /\ ~WindowOver(s)
         /\ r.count = s.count + 1
         /\ r.since = s.since
         /\ r.lockedUntil = IF s.count + 1 >= MaxAttempts
                            THEN clock + Lock * (s.count + 2 - MaxAttempts)
                            ELSE s.lockedUntil
  BY <1>1, FailureRecorded DEF r
<1> QED
  BY <1>4, <1>5, <1>6 DEF r, s

(* What a failed login leaves of the two keys.                             *)
LEMMA FailureOfBoth ==
    ASSUME Typed, NEW w \in Workers, FailLogin(w)
    PROVE  /\ mem[w].phone \in Keys /\ mem[w].address \in Keys
           /\ mem[w].phone # mem[w].address
           /\ \A k \in Keys : IF k \in {mem[w].phone, mem[w].address}
                              THEN w \in InLogin(k) /\ attempt'[k] = recordFailure(attempt[k])
                              ELSE attempt'[k] = attempt[k]
<1>1. pc[w] \in AtLogin
  BY DEF FailLogin, AtLogin
<1>2. mem[w].phone \in Phones /\ mem[w].address \in Addresses
  BY <1>1 DEF Typed, ControlOK, HoldsOK, AtLogin
<1>3. mem[w].phone \in Keys /\ mem[w].address \in Keys /\ mem[w].phone # mem[w].address
  BY <1>2, KeysAssumption DEF Keys
<1>4. \A k \in {mem[w].phone, mem[w].address} : w \in InLogin(k)
  BY <1>1 DEF InLogin
<1> QED
  BY <1>3, <1>4 DEF FailLogin, Typed

LEMMA AttemptFailed ==
    ASSUME Typed, AttemptInv, NEW w \in Workers, FailLogin(w)
    PROVE  AttemptInv'
<1> SUFFICES ASSUME NEW k \in Keys PROVE AttemptOK(k)'
  BY DEF AttemptInv
<1>1. InLogin(k)' = InLogin(k) \ {w}
  BY InLoginMoved DEF FailLogin, Return, AtLogin
<1>2. AttemptOK(k) /\ clock' = clock /\ clock \in Nat
  BY DEF AttemptInv, FailLogin, Typed
<1>3. CASE k \notin {mem[w].phone, mem[w].address}
  <2>1. attempt'[k] = attempt[k]
    BY <1>3, FailureOfBoth
  <2> QED
    BY <1>1, <1>2, <2>1, AttemptKept
<1>4. CASE k \in {mem[w].phone, mem[w].address}
  <2> DEFINE r == recordFailure(attempt[k])
  <2>1. w \in InLogin(k) /\ attempt'[k] = r
    BY <1>4, FailureOfBoth
  <2>2. /\ r \in Attempts /\ r # Null /\ r.since <= clock
        /\ r.count < MaxAttempts => r.lockedUntil = Null
        /\ r.count >= MaxAttempts =>
              /\ r.lockedUntil # Null
              /\ r.lockedUntil >= r.since + Lock * (r.count + 1 - MaxAttempts)
        /\ r.count = 1 \/ (attempt[k] # Null /\ r.count = attempt[k].count + 1)
    BY <1>2, FailureLocks
  <2> HIDE DEF r
  <2>3. InLogin(k) \subseteq Workers
    BY DEF InLogin
  <2>4. /\ Cardinality(InLogin(k)) \in Nat /\ Cardinality(Workers) \in Nat
        /\ Cardinality(InLogin(k)) <= Cardinality(Workers)
        /\ Cardinality(InLogin(k)') = Cardinality(InLogin(k)) - 1
    BY <1>1, <2>1, <2>3, WorkersFinite
  <2>5. MaxAttempts \in Nat /\ MaxAttempts >= 2 /\ Slack \in {0, 1}
    BY LockAssumption DEF Slack
  <2>6. r.count + Cardinality(InLogin(k)') <= MaxAttempts + Cardinality(Workers) - Slack
    <3>1. CASE r.count = 1
      BY <2>4, <2>5, <3>1
    <3>2. CASE attempt[k] # Null /\ r.count = attempt[k].count + 1
      <4>1. attempt[k].count + Cardinality(InLogin(k))
                <= MaxAttempts + Cardinality(Workers) - Slack
        BY <1>2, <3>2 DEF AttemptOK
      <4>2. attempt[k].count \in Nat
        BY <3>2 DEF Typed, Attempts
      <4> QED
        BY <2>4, <2>5, <3>2, <4>1, <4>2
    <3> QED
      BY <2>2, <3>1, <3>2
  <2> QED
    BY <1>2, <2>1, <2>2, <2>6 DEF AttemptOK, Slack
<1> QED
  BY <1>3, <1>4

LEMMA AttemptStep == Typed /\ AttemptInv /\ [Next]_vars => AttemptInv'
<1> SUFFICES ASSUME Typed, AttemptInv, [Next]_vars PROVE AttemptInv'
  OBVIOUS
<1>1. ASSUME NEW w \in Workers, NEW p \in Phones, NEW m \in Emails, Register(w, p, m)
      PROVE  AttemptInv'
  BY <1>1, AttemptMoved DEF Register, TokenCall, Return, AtLogin
<1>2. ASSUME NEW w \in Workers, CreateUser(w) PROVE AttemptInv'
  BY <1>2, AttemptMoved DEF CreateUser, Return, AtLogin
<1>3. ASSUME NEW w \in Workers, IssueToken(w) PROVE AttemptInv'
  BY <1>3, AttemptMoved DEF IssueToken, Return, AtLogin
<1>4. ASSUME NEW w \in Workers, NEW m \in Emails, resendEmailVerification(w, m) PROVE AttemptInv'
  BY <1>4, AttemptMoved DEF resendEmailVerification, TokenCall, AtLogin
<1>5. ASSUME NEW w \in Workers, NEW t \in 1 .. tokens, FindToken(w, t) PROVE AttemptInv'
  BY <1>5, AttemptMoved DEF FindToken, TokenCall, AtLogin
<1>6. ASSUME NEW w \in Workers, verifyEmail(w) PROVE AttemptInv'
  BY <1>6, AttemptMoved DEF verifyEmail, Return, AtLogin
<1>7. ASSUME NEW w \in Workers, NEW a \in Addresses, NEW p \in Phones, Login(w, a, p)
      PROVE  AttemptInv'
  BY <1>7, AttemptAdmitted
<1>8. ASSUME NEW w \in Workers, NEW a \in Addresses, NEW p \in Phones, LoginLocked(w, a, p)
      PROVE  AttemptInv'
  <2> SUFFICES ASSUME NEW k \in Keys PROVE AttemptOK(k)'
    BY DEF AttemptInv
  <2>1. attempt'[k] \in {Null, attempt[k]}
    BY <1>8 DEF LoginLocked, Kept, Typed
  <2>2. InLogin(k)' = InLogin(k) /\ clock' = clock /\ clock \in Nat
    BY <1>8 DEF LoginLocked, InLogin, Typed
  <2> QED
    BY <2>1, <2>2, AttemptKept DEF AttemptInv
<1>9. ASSUME NEW w \in Workers, FindUser(w) PROVE AttemptInv'
  <2> SUFFICES ASSUME NEW k \in Keys PROVE AttemptOK(k)'
    BY DEF AttemptInv
  <2> DEFINE b == [mem[w] EXCEPT !.verified = account[mem[w].phone].verified]
  <2>1. b.phone = mem[w].phone /\ b.address = mem[w].address /\ pc[w] \in AtLogin
    BY <1>9 DEF FindUser, Typed, ControlOK, MemRows, AtLogin
  <2>2. Move(w, "compare", b) /\ attempt' = attempt /\ clock' = clock /\ clock \in Nat
    BY <1>9 DEF FindUser, Typed
  <2> HIDE DEF b
  <2>3. InLogin(k)' \subseteq InLogin(k)
    <3>1. k \in {b.phone, b.address} => w \in InLogin(k)
      BY <2>1 DEF InLogin
    <3>2. "compare" \in AtLogin
      BY DEF AtLogin
    <3> QED
      BY <2>2, <3>1, <3>2, InLoginMoved
  <2> QED
    BY <2>2, <2>3, AttemptKept DEF AttemptInv
<1>10. ASSUME NEW w \in Workers, FailLogin(w) PROVE AttemptInv'
  BY <1>10, AttemptFailed
<1>11. ASSUME NEW w \in Workers, PassLogin(w) PROVE AttemptInv'
  <2>1. \A k \in Keys : attempt'[k] \in {Null, attempt[k]}
    BY <1>11 DEF PassLogin, Typed
  <2> QED
    BY <1>11, <2>1, AttemptMoved DEF PassLogin, Return, AtLogin
<1>12. ASSUME NEW w \in Workers, Fail(w) PROVE AttemptInv'
  BY <1>12, AttemptMoved DEF Fail, Return, AtLogin
<1>13. CASE Restart
  BY <1>13 DEF Restart, AttemptInv, AttemptOK
<1>14. CASE Tick
  <2> SUFFICES ASSUME NEW k \in Keys PROVE AttemptOK(k)'
    BY DEF AttemptInv
  <2>1. clock' \in Nat /\ clock' >= clock /\ attempt'[k] = attempt[k]
    BY <1>14 DEF Tick, Typed
  <2>2. InLogin(k)' = InLogin(k)
    BY <1>14 DEF Tick, InLogin
  <2> QED
    BY <2>1, <2>2, AttemptKept DEF AttemptInv
<1>15. CASE UNCHANGED vars
  BY <1>15 DEF vars, AttemptInv, AttemptOK, InLogin
<1> QED
  BY <1>1, <1>2, <1>3, <1>4, <1>5, <1>6, <1>7, <1>8, <1>9, <1>10, <1>11, <1>12, <1>13,
     <1>14, <1>15 DEF Next, Handle

LEMMA AlwaysAttempts == Spec => []AttemptInv
<1>1. Init => AttemptInv
  BY DEF Init, AttemptInv, AttemptOK
<1> QED
  BY <1>1, AttemptStep, AlwaysTyped, PTL DEF Spec

(* A key counts at most one failure for every request in flight beyond the *)
(* attempts it is allowed, or one less if a lock outlasts the window: what *)
(* login awaits between the check and the count never adds up to more.     *)
THEOREM AttemptsAreBounded == Spec => []AttemptsBounded
<1>1. Typed /\ AttemptInv => AttemptsBounded
  <2> SUFFICES ASSUME Typed, AttemptInv, NEW k \in Keys, attempt[k] # Null
               PROVE  attempt[k].count <= MaxAttempts + Cardinality(Workers)
                                            - IF Lock > Window THEN 1 ELSE 0
    BY DEF AttemptsBounded
  <2>1. attempt[k].count + Cardinality(InLogin(k)) <= MaxAttempts + Cardinality(Workers) - Slack
    BY DEF AttemptInv, AttemptOK
  <2>2. InLogin(k) \subseteq Workers
    BY DEF InLogin
  <2>3. Cardinality(InLogin(k)) \in Nat /\ Cardinality(Workers) \in Nat
    BY <2>2, WorkersFinite
  <2>4. attempt[k].count \in Nat /\ MaxAttempts \in Nat /\ Slack \in {0, 1}
    BY LockAssumption DEF Typed, Attempts, Slack
  <2>5. attempt[k].count <= MaxAttempts + Cardinality(Workers) - Slack
    BY <2>1, <2>3, <2>4
  <2> QED
    BY <2>5 DEF Slack
<1> QED
  BY <1>1, AlwaysAttempts, AlwaysTyped, PTL

(* What the answer to a failure says of one key.                           *)
LEMMA FeedbackTrue ==
    ASSUME Typed, AttemptInv, NEW w \in Workers, FailLogin(w), NEW k \in Keys,
           k \in {mem[w].phone, mem[w].address}
    PROVE  LET f == feedbackFromState(attempt[k])'
           IN  /\ f.remaining \in Nat /\ f.locked \in BOOLEAN
               /\ f.locked <=> Locked(k)'
               /\ f.locked <=> f.remaining = 0
<1> DEFINE r == recordFailure(attempt[k])
<1>1. attempt'[k] = r
  BY FailureOfBoth
<1>2. /\ r \in Attempts /\ r # Null /\ ~WindowOver(r)
      /\ r.count < MaxAttempts => r.lockedUntil = Null
      /\ r.count >= MaxAttempts => r.lockedUntil # Null /\ r.lockedUntil > clock
  BY FailureLocks DEF AttemptInv
<1>3. clock' = clock
  BY DEF FailLogin
<1> HIDE DEF r
<1>4. r.count \in Nat /\ MaxAttempts \in Nat
  BY <1>2, LockAssumption DEF Attempts
<1>5. Locked(k)' <=> r.count >= MaxAttempts
  BY <1>1, <1>2, <1>3, <1>4 DEF Locked, WindowOver, InForce
<1> DEFINE f == feedbackFromState(attempt[k])'
<1>6. f.locked \in BOOLEAN /\ (f.locked <=> r.count >= MaxAttempts)
  <2>1. f = [remaining |-> IF r.count < MaxAttempts THEN MaxAttempts - r.count ELSE 0,
             locked |-> r.lockedUntil # Null /\ r.lockedUntil > clock]
    BY <1>1, <1>3 DEF feedbackFromState, InForce
  <2>2. f.locked = (r.lockedUntil # Null /\ r.lockedUntil > clock)
    <3> HIDE DEF f
    <3> QED
      BY <2>1
  <2>3. (r.lockedUntil # Null /\ r.lockedUntil > clock) <=> r.count >= MaxAttempts
    BY <1>2, <1>4
  <2> HIDE DEF f
  <2> QED
    BY <2>2, <2>3
<1>7. f.remaining = IF r.count < MaxAttempts THEN MaxAttempts - r.count ELSE 0
  BY <1>1 DEF feedbackFromState
<1>8. f.remaining \in Nat /\ (f.remaining = 0 <=> r.count >= MaxAttempts)
  <2> HIDE DEF f
  <2> QED
    BY <1>4, <1>7
<1> QED
  BY <1>5, <1>6, <1>8, Zenon

(* The answer to a failed login is true of the next try, and says locked   *)
(* exactly when it says that no try is left, whatever else is in flight.   *)
THEOREM AnswersTellLocks == Spec => AnswerTellsLock
<1> DEFINE Told == \A w \in Workers, a \in Addresses, p \in Phones :
          FailLogin(w) /\ mem[w].address = a /\ mem[w].phone = p =>
              /\ Answer(a, p)'.locked <=> TurnedAway(a, p)'
              /\ Answer(a, p)'.locked <=> Answer(a, p)'.remaining = 0
<1>1. Typed /\ AttemptInv /\ [Next]_vars => [Told]_vars
  <2> SUFFICES ASSUME Typed, AttemptInv,
                      NEW w \in Workers, NEW a \in Addresses, NEW p \in Phones,
                      FailLogin(w), mem[w].address = a, mem[w].phone = p
               PROVE  /\ Answer(a, p)'.locked <=> TurnedAway(a, p)'
                      /\ Answer(a, p)'.locked <=> Answer(a, p)'.remaining = 0
    OBVIOUS
  <2> DEFINE f == feedbackFromState(attempt[a])'
             g == feedbackFromState(attempt[p])'
  <2>1. a \in Keys /\ p \in Keys
    BY DEF Keys
  <2>2. /\ f.remaining \in Nat /\ f.locked \in BOOLEAN
        /\ f.locked <=> Locked(a)'
        /\ f.locked <=> f.remaining = 0
    BY <2>1, FeedbackTrue
  <2>3. /\ g.remaining \in Nat /\ g.locked \in BOOLEAN
        /\ g.locked <=> Locked(p)'
        /\ g.locked <=> g.remaining = 0
    BY <2>1, FeedbackTrue
  <2>4. /\ Answer(a, p)'.locked = (f.locked \/ g.locked)
        /\ Answer(a, p)'.remaining = IF f.remaining < g.remaining THEN f.remaining
                                                                  ELSE g.remaining
    BY DEF Answer, combineAttemptFeedback
  <2>5. TurnedAway(a, p)' <=> Locked(a)' \/ Locked(p)'
    BY DEF TurnedAway
  <2> HIDE DEF f, g
  <2> QED
    BY <2>2, <2>3, <2>4, <2>5
<1> QED
  BY <1>1, AlwaysTyped, AlwaysAttempts, PTL DEF Spec, AnswerTellsLock
=============================================================================
