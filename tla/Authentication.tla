--------------------------- MODULE Authentication ---------------------------
(***************************************************************************)
(* AuthService: registration, verification of the email, login, and the    *)
(* attempts counted in the memory of the process.                          *)
(*                                                                         *)
(* A Worker is a request in flight; what it does between two awaits is one *)
(* step.  The columns of User are in the database; the attempts are in two *)
(* maps that a restart empties.                                            *)
(***************************************************************************)
EXTENDS Integers, FiniteSets

CONSTANTS
    Phones, Emails,     \* both unique in User
    Addresses,          \* where requests come from
    Workers,            \* requests in flight
    MaxAttempts, Window, Lock, TokenTtl,    \* AUTH_LOGIN_..., clock units
    Null,
    MaxClock,           \* bound: the clock stops there
    MaxTokens           \* bound: verification tokens generated

ASSUME NullAssumption == Null \notin Int /\ Null \notin Phones \cup Emails
ASSUME KeysAssumption == Phones \cap Addresses = {}
(* What env.validation admits, but for two choices: with one attempt the   *)
(* answer to it says that none is left and yet does not lock, and a lock   *)
(* shorter than the window admits another attempt after each lock.         *)
ASSUME LockAssumption ==
    /\ MaxAttempts \in Nat /\ MaxAttempts >= 2
    /\ Window \in Nat \ {0} /\ Lock \in Nat /\ Lock >= Window
    /\ TokenTtl \in Nat \ {0}
ASSUME BoundsAssumption ==
    IsFiniteSet(Workers) /\ MaxClock \in Nat /\ MaxTokens \in Nat

VARIABLES
    clock,      \* Date.now()
    attempt,    \* ipAttempts and identifierAttempts: [count, since, lockedUntil]
    account,    \* [email, verified, token, expires] of a phone, or Null
    tokens,     \* tokens generated so far; a token is its number
    pc,         \* what each request does next
    mem,        \* what each request holds
    sessions,   \* history: phones that were given an access token
    links,      \* history: how often a phone was given one for a link
    crossed     \* history: accounts two of whose token calls overlapped

vars == <<clock, attempt, account, tokens, pc, mem, sessions, links, crossed>>

Keys == Addresses \cup Phones
Attempts == [count : Nat \ {0}, since : Nat, lockedUntil : Nat \cup {Null}]
Accounts == [email : Emails, verified : BOOLEAN, token : Nat \cup {Null},
             expires : Nat \cup {Null}]
ASSUME RowsAssumption == Null \notin Attempts /\ Null \notin Accounts
Blank == [phone |-> Null, address |-> Null, email |-> Null, verified |-> FALSE]
TokenCalls == {"issue", "verify"}

TypeOK ==
    /\ clock \in Nat
    /\ attempt \in [Keys -> Attempts \cup {Null}]
    /\ account \in [Phones -> Accounts \cup {Null}]
    /\ tokens \in Nat
    /\ pc \in [Workers -> {"idle", "lookup", "compare", "create"} \cup TokenCalls]
    /\ \A w \in Workers : pc[w] # "idle" => mem[w].phone \in Phones
    /\ \A w \in Workers : pc[w] \in TokenCalls => account[mem[w].phone] # Null
    /\ \A w \in Workers : pc[w] = "create" => mem[w].email \in Emails
    /\ \A w \in Workers : pc[w] \in {"lookup", "compare"} => mem[w].address \in Addresses
    /\ sessions \subseteq Phones
    /\ links \in [Phones -> Nat]
    /\ crossed \subseteq Phones

-----------------------------------------------------------------------------
(* The attempts of one key.                                                *)

WindowOver(s) == s.since + Window < clock
InForce(s) == s.lockedUntil # Null /\ s.lockedUntil > clock

(* assertNotLocked: what it forgets, and whether it throws.                *)
Kept(s) == IF s # Null /\ WindowOver(s) THEN Null ELSE s
Locked(k) == attempt[k] # Null /\ ~WindowOver(attempt[k]) /\ InForce(attempt[k])
TurnedAway(a, p) == Locked(a) \/ Locked(p)

LockedLate(s) ==    \* slip: the lock of the last attempt is empty
    IF Kept(s) = Null
    THEN [count |-> 1, since |-> clock, lockedUntil |-> Null]
    ELSE [s EXCEPT !.count = s.count + 1,
                   !.lockedUntil = IF s.count + 1 >= MaxAttempts
                                   THEN clock + Lock * (s.count + 1 - MaxAttempts) ELSE @]
recordFailure(s) ==
    IF Kept(s) = Null
    THEN [count |-> 1, since |-> clock, lockedUntil |-> Null]
    ELSE [s EXCEPT !.count = s.count + 1,
                   !.lockedUntil = IF s.count + 1 >= MaxAttempts
                                   THEN clock + Lock * (s.count + 2 - MaxAttempts) ELSE @]

(* What a failed login answers: 429 if it says locked, 401 otherwise.      *)
feedbackFromState(s) ==
    [remaining |-> IF s.count < MaxAttempts THEN MaxAttempts - s.count ELSE 0,
     locked |-> InForce(s)]
CombinedByLast(f, g) == [remaining |-> g.remaining, locked |-> g.locked]    \* slip
combineAttemptFeedback(f, g) ==
    [remaining |-> IF f.remaining < g.remaining THEN f.remaining ELSE g.remaining,
     locked |-> f.locked \/ g.locked]
Answer(a, p) ==
    combineAttemptFeedback(feedbackFromState(attempt[a]), feedbackFromState(attempt[p]))

-----------------------------------------------------------------------------
Move(w, label, m) ==
    /\ pc' = [pc EXCEPT ![w] = label]
    /\ mem' = [mem EXCEPT ![w] = m]
Return(w) == Move(w, "idle", Blank)

(* A call that will write the token columns of an account goes on.         *)
TokenCall(w, label, p) ==
    /\ Move(w, label, [Blank EXCEPT !.phone = p])
    /\ crossed' = IF \E v \in Workers : pc[v] \in TokenCalls /\ mem[v].phone = p
                  THEN crossed \cup {p} ELSE crossed

Registered(p, m) ==
    {q \in Phones : account[q] # Null /\ (q = p \/ account[q].email = m)}

(* register: a new account, a new token for one whose email is still       *)
(* unverified, or nothing.  Two accounts may match: findFirst takes one.   *)
Register(w, p, m) ==
    /\ pc[w] = "idle"
    /\ \/ /\ Registered(p, m) = {}
          /\ Move(w, "create", [Blank EXCEPT !.phone = p, !.email = m])
          /\ UNCHANGED crossed
       \/ \E q \in Registered(p, m) :
             IF ~account[q].verified /\ account[q].email = m
             THEN TokenCall(w, "issue", q)
             ELSE Return(w) /\ UNCHANGED crossed
    /\ UNCHANGED <<clock, attempt, account, tokens, sessions, links>>

NewToken == tokens < MaxTokens /\ tokens' = tokens + 1

(* After the hash: the unique keys refuse what another call created.       *)
CreateUser(w) ==
    LET p == mem[w].phone  m == mem[w].email IN
    /\ pc[w] = "create" /\ NewToken
    /\ account' = IF Registered(p, m) # {} THEN account
                  ELSE [account EXCEPT ![p] = [email |-> m, verified |-> FALSE,
                            token |-> tokens', expires |-> clock + TokenTtl]]
    /\ Return(w)
    /\ UNCHANGED <<clock, attempt, sessions, links, crossed>>

ResendToAny(w, m) ==    \* slip: a verified email is sent a token as well
    /\ pc[w] = "idle"
    /\ \E q \in Phones : account[q] # Null /\ account[q].email = m /\ TokenCall(w, "issue", q)
    /\ UNCHANGED <<clock, attempt, account, tokens, sessions, links>>
resendEmailVerification(w, m) ==
    /\ pc[w] = "idle"
    /\ \E q \in Phones :
          /\ account[q] # Null /\ account[q].email = m /\ ~account[q].verified
          /\ TokenCall(w, "issue", q)
    /\ UNCHANGED <<clock, attempt, account, tokens, sessions, links>>

IssueToken(w) ==
    /\ pc[w] = "issue" /\ NewToken
    /\ account' = [account EXCEPT ![mem[w].phone].token = tokens',
                                  ![mem[w].phone].expires = clock + TokenTtl]
    /\ Return(w)
    /\ UNCHANGED <<clock, attempt, sessions, links, crossed>>

FindToken(w, t) ==
    /\ pc[w] = "idle"
    /\ \E q \in Phones :
          /\ account[q] # Null /\ account[q].token = t /\ account[q].expires > clock
          /\ TokenCall(w, "verify", q)
    /\ UNCHANGED <<clock, attempt, account, tokens, sessions, links>>

(* By id: whatever token the account has by now is cleared.                *)
verifyEmail(w) ==
    LET p == mem[w].phone IN
    /\ pc[w] = "verify"
    /\ account' = [account EXCEPT ![p].verified = TRUE, ![p].token = Null, ![p].expires = Null]
    /\ sessions' = sessions \cup {p}
    /\ links' = [links EXCEPT ![p] = @ + 1]
    /\ Return(w)
    /\ UNCHANGED <<clock, attempt, tokens, crossed>>

(* login up to its first await.                                            *)
Login(w, a, p) ==
    /\ pc[w] = "idle" /\ ~TurnedAway(a, p)
    /\ attempt' = [attempt EXCEPT ![a] = Kept(@), ![p] = Kept(@)]
    /\ Move(w, "lookup", [Blank EXCEPT !.phone = p, !.address = a])
    /\ UNCHANGED <<clock, account, tokens, sessions, links, crossed>>

LoginLocked(w, a, p) ==
    /\ pc[w] = "idle" /\ TurnedAway(a, p)
    /\ attempt' = [attempt EXCEPT ![a] = Kept(@)]
    /\ UNCHANGED <<clock, account, tokens, pc, mem, sessions, links, crossed>>

FindUser(w) ==
    /\ pc[w] = "lookup" /\ account[mem[w].phone] # Null
    /\ Move(w, "compare", [mem[w] EXCEPT !.verified = account[mem[w].phone].verified])
    /\ UNCHANGED <<clock, attempt, account, tokens, sessions, links, crossed>>

(* No such user, or the wrong password: the same answer and count.         *)
FailLogin(w) ==
    /\ \/ pc[w] = "lookup" /\ account[mem[w].phone] = Null
       \/ pc[w] = "compare"
    /\ attempt' = [attempt EXCEPT ![mem[w].address] = recordFailure(@),
                                  ![mem[w].phone] = recordFailure(@)]
    /\ Return(w)
    /\ UNCHANGED <<clock, account, tokens, sessions, links, crossed>>

(* The right password clears both keys before the email is asked after.    *)
Admitted(m) == {m.phone}    \* slip: the email not asked after
Welcome(m) == IF m.verified THEN {m.phone} ELSE {}
PassLogin(w) ==
    /\ pc[w] = "compare"
    /\ attempt' = [attempt EXCEPT ![mem[w].address] = Null, ![mem[w].phone] = Null]
    /\ sessions' = sessions \cup Welcome(mem[w])
    /\ Return(w)
    /\ UNCHANGED <<clock, account, tokens, links, crossed>>

(* A rejected database call.                                               *)
Fail(w) ==
    /\ pc[w] # "idle"
    /\ Return(w)
    /\ UNCHANGED <<clock, attempt, account, tokens, sessions, links, crossed>>

Restart ==
    /\ attempt' = [k \in Keys |-> Null]
    /\ pc' = [w \in Workers |-> "idle"]
    /\ mem' = [w \in Workers |-> Blank]
    /\ UNCHANGED <<clock, account, tokens, sessions, links, crossed>>

Tick ==
    /\ clock < MaxClock
    /\ clock' = clock + 1
    /\ UNCHANGED <<attempt, account, tokens, pc, mem, sessions, links, crossed>>

Init ==
    /\ clock = 0
    /\ attempt = [k \in Keys |-> Null]
    /\ account = [p \in Phones |-> Null]
    /\ tokens = 0
    /\ pc = [w \in Workers |-> "idle"]
    /\ mem = [w \in Workers |-> Blank]
    /\ sessions = {}
    /\ links = [p \in Phones |-> 0]
    /\ crossed = {}

Handle(w) ==
    \/ \E p \in Phones, m \in Emails : Register(w, p, m)
    \/ CreateUser(w) \/ IssueToken(w)
    \/ \E m \in Emails : resendEmailVerification(w, m)
    \/ \E t \in 1 .. tokens : FindToken(w, t)
    \/ verifyEmail(w)
    \/ \E a \in Addresses, p \in Phones : Login(w, a, p) \/ LoginLocked(w, a, p)
    \/ FindUser(w) \/ FailLogin(w) \/ PassLogin(w) \/ Fail(w)

Next == (\E w \in Workers : Handle(w)) \/ Restart \/ Tick

Spec == Init /\ [][Next]_vars

-----------------------------------------------------------------------------
(* However many logins are in flight when a key is locked, it counts no    *)
(* more failures than one for each on top of the attempts it is allowed;   *)
(* a lock of exactly the window's length ends an instant before the window *)
(* is forgotten, and admits them once more.                                *)
AttemptsBounded ==
    \A k \in Keys : attempt[k] # Null =>
        attempt[k].count <= MaxAttempts + Cardinality(Workers)
                              - IF Lock > Window THEN 1 ELSE 0

(* The answer to a failed login is true: locked says that the next try     *)
(* would be turned away, and otherwise tries are left.                     *)
AnswerTellsLock ==
    [][\A w \in Workers, a \in Addresses, p \in Phones :
          FailLogin(w) /\ mem[w].address = a /\ mem[w].phone = p =>
              /\ Answer(a, p)'.locked <=> TurnedAway(a, p)'
              /\ Answer(a, p)'.locked <=> Answer(a, p)'.remaining = 0]_vars

(* Nobody is given an access token before the email is verified, although  *)
(* login reads the account before it compares the password.                *)
SessionNeedsVerified ==
    \A p \in sessions : account[p] # Null /\ account[p].verified

(* A link logs in without a password, and does so once in the life of an   *)
(* account whose calls never overlap: no token outlives the verification.  *)
LinkWorksOnce ==
    \A p \in Phones \ crossed :
        /\ links[p] <= 1
        /\ account[p] # Null /\ account[p].verified => account[p].token = Null
=============================================================================
