----------------------------- MODULE MCAuditChain -----------------------------
(* AuditChain for TLC: up to two processes and three concurrent slots. *)
EXTENDS AuditChain, TLC

CONSTANTS p1, p2, c1, c2, c3

\* One slot in one process: calls strictly one after another.
OneSlot == [c \in {c1} |-> p1]

\* Two requests in flight in one process.
TwoInOneProcess == [c \in {c1, c2} |-> p1]

\* server.js with two requests in flight and wrapper-server.js with one.
TwoProcesses == [c \in {c1, c2, c3} |-> IF c = c3 THEN p2 ELSE p1]

\* The two slots of p1 are interchangeable.
SlotSymmetry == Permutations({c1, c2})
=============================================================================
