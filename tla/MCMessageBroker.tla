---------------------------- MODULE MCMessageBroker ----------------------------
(* MessageBroker for TLC: agents a and b of one tenant, each polling on one    *)
(* connection.  A broadcast is a row that both want at once.                   *)
EXTENDS MessageBroker

CONSTANTS a, b, t, a1, b1, m1, m2

MCAgentOf == [c \in {a1, b1} |-> IF c = b1 THEN b ELSE a]
MCTenantOf == [c \in {a1, b1} |-> t]
=============================================================================
