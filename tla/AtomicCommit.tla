---------------------------- MODULE AtomicCommit ----------------------------
(***************************************************************************)
(* What committing a transaction means to everyone but its coordinator:    *)
(* one decision, made once; writes become visible only after a commit; the *)
(* answer the client gets never contradicts the decision.                  *)
(***************************************************************************)
CONSTANT Keys              \* the keys the transaction wrote

VARIABLES decision,        \* "open", "committed" or "aborted"
          applied,         \* keys whose write is a committed version
          answer           \* what the client was told: "none", "committed", "error"

avars == <<decision, applied, answer>>

AInit == decision = "open" /\ applied = {} /\ answer = "none"

\* A transaction whose failure was reported can only abort.
Decide(d) == /\ decision = "open"
             /\ d = "aborted" \/ answer # "error"
             /\ decision' = d

Told(a) == /\ answer = "none"
           /\ (a = "committed") = (decision' = "committed")
           /\ answer' = a

AApply == /\ decision = "committed"
          /\ \E K \in SUBSET Keys : applied' = applied \cup K
          /\ UNCHANGED <<decision, answer>>

ADecide == /\ \E d \in {"committed", "aborted"} : Decide(d)
           /\ UNCHANGED <<applied, answer>>

AAnswer == /\ \E a \in {"committed", "error"} : Told(a)
           /\ UNCHANGED <<decision, applied>>

\* An EndTxn that flips the record and is answered.
ADecideAndAnswer == /\ \E d \in {"committed", "aborted"} : Decide(d)
                    /\ \E a \in {"committed", "error"} : Told(a)
                    /\ UNCHANGED applied

ANext == AApply \/ ADecide \/ AAnswer \/ ADecideAndAnswer

ASpec == AInit /\ [][ANext]_avars
=============================================================================
