----------------------------- MODULE ChainConsent -----------------------------
(* What a swap chain promises its members: it is proposed once, becomes an *)
(* agreement only while it is open and when each of them accepted, and is  *)
(* over once it is broken.  A break does not stop an acceptance that was   *)
(* already under way: such a chain may still be accepted, and agreed if    *)
(* that makes everybody.                                                   *)
CONSTANT Chains         \* sets of members

VARIABLES status, accepted,
          late          \* broken with an acceptance under way

Set(c, s) == status' = [status EXCEPT ![c] = s] /\ UNCHANGED accepted

Open(c) == status[c] = "PENDING" \/ c \in late

Propose(c) == status[c] = "NONE" /\ Set(c, "PENDING") /\ UNCHANGED late
Accept(c, l) ==
    /\ Open(c)
    /\ accepted' = [accepted EXCEPT ![c] = @ \cup {l}]
    /\ UNCHANGED <<status, late>>
Agree(c) ==
    /\ Open(c) /\ accepted[c] = c
    /\ Set(c, "LOCKED") /\ UNCHANGED late
Break(c) ==
    /\ status[c] \in {"PENDING", "LOCKED"}
    /\ Set(c, "BROKEN") /\ late' \in {late, late \cup {c}}

Init ==
    /\ status = [c \in Chains |-> "NONE"]
    /\ accepted = [c \in Chains |-> {}]
    /\ late = {}

Next ==
    \E c \in Chains :
        \/ Propose(c) \/ Agree(c) \/ Break(c)
        \/ \E l \in c : Accept(c, l)

Spec == Init /\ [][Next]_<<status, accepted, late>>
=============================================================================
