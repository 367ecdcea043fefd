---------------------------- MODULE MCAgentSandbox ----------------------------
(* AgentSandbox for TLC.  The three configurations give the sets; everything  *)
(* is finite once MaxMonitors bounds the intervals.                           *)
EXTENDS AgentSandbox, TLC

\* Every call is in the one process; or in a process of its own.
OneProcess == [s \in Slot |-> CHOOSE p \in Proc : TRUE]
OwnProcess == [s \in Slot |-> s]

\* Clients ask for everything; or no more of built-in agents than to install
\* and to start them.
Everything == [a \in Agent |-> RegistryOp \cup {"start", "stop"}]
BuiltinStarted ==
  [a \in Agent |-> IF a \in Builtin THEN {"install", "start"}
                                    ELSE RegistryOp \cup {"start", "stop"}]

\* The two processes run the same code.
Alike == Permutations(Proc)
=============================================================================
