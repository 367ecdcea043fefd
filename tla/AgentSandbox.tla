----------------------------- MODULE AgentSandbox -----------------------------
(***************************************************************************)
(* src/agent-sandbox.js on top of the registry, as server.js and           *)
(* wrapper-server.js drive both: each process has its own map of running   *)
(* agents, an interval that monitors each of them, and a shutdown that     *)
(* stops them all.  startAgent and stopAgent suspend in the registry       *)
(* between looking at the map and changing it.                             *)
(***************************************************************************)
EXTENDS AgentRegistry

CONSTANTS
  MaxMonitors,  \* bound: intervals of one agent
  Asked         \* bound: the requests that clients make about each agent

ASSUME MaxMonitorsAssumption == MaxMonitors \in Nat \ {0}

VARIABLES
  running,   \* runningProcesses: the agents with an entry, per process
  monitors,  \* the intervals alive for each agent, per process
  phase,     \* of each process: up, stopping (stopAllAgents), closing
             \* (server.close)
  found,     \* history, until racy: the agents that each process found on
             \* record as running, and has not changed since
  unclean    \* history: a process ended other than by a complete shutdown with
             \* none of its requests in flight, or saved after another one a
             \* copy that it had read before

sandboxVars == <<running, monitors, phase, found, unclean>>
vars == <<registryVars, sandboxVars>>

TypeOK ==
  /\ RegistryTypeOK
  /\ running \in [Proc -> [Agent -> BOOLEAN]]
  /\ monitors \in [Proc -> [Agent -> 0 .. MaxMonitors]]
  /\ phase \in [Proc -> {"up", "stopping", "closing"}]
  /\ found \in [Proc -> SUBSET Agent]
  /\ unclean \in BOOLEAN

Init ==
  /\ RegistryInit
  /\ running = [p \in Proc |-> [a \in Agent |-> FALSE]]
  /\ monitors = [p \in Proc |-> [a \in Agent |-> 0]]
  /\ phase = [p \in Proc |-> "up"]
  /\ found = [p \in Proc |-> {}]
  /\ unclean = FALSE

-----------------------------------------------------------------------------
(* Requests that only concern the registry. *)

RegistryCall(s, op, a) == Begin(s, op, a, req) /\ UNCHANGED sandboxVars

Registry(s) ==
  LET p == ProcOf[s]
  IN  /\ RegistryStep(s)
      /\ found' = CASE racy -> found
                   [] req[s].step = "load" ->
                        [found EXCEPT ![p] = {a \in Agent : objs'[s][a].status = "running"}]
                   [] req[s].step = "dir" -> [found EXCEPT ![p] = @ \ {req[s].agent}]
                   [] OTHER -> found
      /\ unclean' = (unclean \/ (req[s].step = "dir" /\ view[p] # acked))
      /\ UNCHANGED <<running, monitors, phase>>

-----------------------------------------------------------------------------
(* startAgent. *)

StartCall(s, a) == Begin(s, "start", a, req) /\ UNCHANGED sandboxVars

\* Slip: an agent that is known is started, installed or not.
StartCheck_Known(s) ==
  LET a == req[s].agent
  IN  /\ req[s].step = "body"
      /\ req[s].op = "start"
      /\ req' = IF objs[req[s].reg][a].status # "absent" /\ ~running[ProcOf[s]][a]
                  THEN [req EXCEPT ![s].step = "sandbox", ![s].reg = NoSlot]
                  ELSE [req EXCEPT ![s] = NoRequest]
      /\ objs' = Collected(objs, cur, req')
      /\ UNCHANGED <<disk, cur, view, acked, racy, sandboxVars>>

\* The agent must exist and be installed, and have no entry in the map.
StartCheck(s) ==
  LET a == req[s].agent
  IN  /\ req[s].step = "body"
      /\ req[s].op = "start"
      /\ req' = IF objs[req[s].reg][a].installed /\ ~running[ProcOf[s]][a]
                  THEN [req EXCEPT ![s].step = "sandbox", ![s].reg = NoSlot]
                  ELSE [req EXCEPT ![s] = NoRequest]
      /\ objs' = Collected(objs, cur, req')
      /\ UNCHANGED <<disk, cur, view, acked, racy, sandboxVars>>

\* createSandbox is done: setAgentStatus(RUNNING) in the registry of now.
StartMark(s) ==
  /\ req[s].step = "sandbox"
  /\ MutateIn(s, Current(s))
  /\ UNCHANGED sandboxVars

\* The status is saved: enter the map, replacing any entry, and start a monitor.
Started(s) ==
  LET a == req[s].agent
      p == ProcOf[s]
  IN  /\ req[s].step = "return"
      /\ req[s].op = "start"
      /\ monitors[p][a] < MaxMonitors
      /\ running' = [running EXCEPT ![p][a] = TRUE]
      /\ monitors' = [monitors EXCEPT ![p][a] = @ + 1]
      /\ req' = [req EXCEPT ![s] = NoRequest]
      /\ UNCHANGED <<disk, cur, objs, view, acked, racy, phase, found, unclean>>

-----------------------------------------------------------------------------
(* stopAgent. *)

\* The starts of agent a in flight in process p when p is asked to stop it have
\* been overtaken.
Overtaken(p, a) ==
  [s \in Slot |-> IF ProcOf[s] = p /\ req[s].op = "start" /\ req[s].agent = a
                    THEN [req[s] EXCEPT !.overtaken = TRUE]
                    ELSE req[s]]

\* Slip: the interval is cleared whether or not the agent has an entry.
StopCall_Unchecked(s, op, a) ==
  LET p == ProcOf[s]
  IN  /\ Begin(s, op, a, Overtaken(p, a))
      /\ running' = [running EXCEPT ![p][a] = FALSE]
      /\ monitors' = [monitors EXCEPT ![p][a] = @ - 1]
      /\ UNCHANGED <<phase, found, unclean>>

\* Slip: the entry goes and its interval stays.
StopCall_KeepsTimer(s, op, a) ==
  LET p == ProcOf[s]
  IN  /\ Begin(s, op, a, Overtaken(p, a))
      /\ running' = [running EXCEPT ![p][a] = FALSE]
      /\ UNCHANGED <<monitors, phase, found, unclean>>

\* The entry and its monitor go in the first turn; the status follows later.
StopCall(s, op, a) ==
  LET p == ProcOf[s]
  IN  /\ Begin(s, op, a, Overtaken(p, a))
      /\ running' = [running EXCEPT ![p][a] = FALSE]
      /\ monitors' = [monitors EXCEPT ![p][a] = IF running[p][a] THEN @ - 1 ELSE @]
      /\ UNCHANGED <<phase, found, unclean>>

\* setAgentStatus(STOPPED).  When it throws, the shutdown gives up on the rest.
StopMark(s) ==
  LET p == ProcOf[s]
  IN  /\ req[s].step = "body"
      /\ req[s].op \in {"stop", "stopAll"}
      /\ MutateIn(s, req[s].reg)
      /\ phase' = IF req[s].op = "stopAll" /\ req'[s] = NoRequest
                    THEN [phase EXCEPT ![p] = "closing"] ELSE phase
      /\ unclean' = (unclean \/ phase' # phase)
      /\ UNCHANGED <<running, monitors, found>>

Stopped(s) ==
  /\ req[s].step = "return"
  /\ req[s].op \in {"stop", "stopAll"}
  /\ req' = [req EXCEPT ![s] = NoRequest]
  /\ UNCHANGED <<disk, cur, objs, view, acked, racy, sandboxVars>>

\* Slip: the interval skips its turn instead of clearing itself.
MonitorFires_Skips(p, a) ==
  /\ ~running[p][a]
  /\ monitors[p][a] > 0
  /\ UNCHANGED <<registryVars, running, monitors, phase, found, unclean>>

\* The interval of an agent that has no entry clears itself when it fires.
MonitorFires(p, a) ==
  /\ ~running[p][a]
  /\ monitors[p][a] > 0
  /\ monitors' = [monitors EXCEPT ![p][a] = @ - 1]
  /\ UNCHANGED <<registryVars, running, phase, found, unclean>>

-----------------------------------------------------------------------------
(* Shutdown and restart. *)

Signal(p) ==
  /\ phase[p] = "up"
  /\ phase' = [phase EXCEPT ![p] = "stopping"]
  /\ UNCHANGED <<registryVars, running, monitors, found, unclean>>

\* Process p has no request of kind op in flight.
NoneIn(p, op) == \A s \in Slot : ProcOf[s] = p => req[s].op # op

\* stopAllAgents: one stopAgent after another, entries added meanwhile included.
ShutdownStops(s, a) ==
  /\ phase[ProcOf[s]] = "stopping"
  /\ NoneIn(ProcOf[s], "stopAll")
  /\ running[ProcOf[s]][a]
  /\ StopCall(s, "stopAll", a)

\* A complete shutdown cuts off what is still in flight in its process.
Close(p) ==
  /\ phase' = [phase EXCEPT ![p] = "closing"]
  /\ unclean' = (unclean \/ \E s \in Slot : ProcOf[s] = p /\ req[s] # NoRequest)
  /\ UNCHANGED <<registryVars, running, monitors, found>>

\* Slip: the shutdown does not wait for the agents it has yet to stop.
ShutdownStopped_Early(p) ==
  /\ phase[p] = "stopping"
  /\ NoneIn(p, "stopAll")
  /\ Close(p)

ShutdownStopped(p) ==
  /\ phase[p] = "stopping"
  /\ NoneIn(p, "stopAll")
  /\ \A a \in Agent : ~running[p][a]
  /\ Close(p)

\* The process ends: after the shutdown (server.close, or the forced exit after
\* five seconds, which cuts off the requests still in flight), or by a crash.
Restart(p) ==
  /\ RegistryRestart(p)
  /\ running' = [running EXCEPT ![p] = [a \in Agent |-> FALSE]]
  /\ monitors' = [monitors EXCEPT ![p] = [a \in Agent |-> 0]]
  /\ phase' = [phase EXCEPT ![p] = "up"]
  /\ found' = [found EXCEPT ![p] = {}]
  /\ unclean' = (unclean \/ phase[p] # "closing")

Next ==
  \/ \E s \in Slot, a \in Agent :
       \/ /\ phase[ProcOf[s]] # "closing"  \* server.close: no new requests
          /\ \/ \E op \in RegistryOp \cap Asked[a] : RegistryCall(s, op, a)
             \/ "start" \in Asked[a] /\ StartCall(s, a)
             \/ "stop" \in Asked[a] /\ StopCall(s, "stop", a)
       \/ ShutdownStops(s, a)
  \/ \E s \in Slot :
       \/ Registry(s)
       \/ StartCheck(s)
       \/ StartMark(s)
       \/ Started(s)
       \/ StopMark(s)
       \/ Stopped(s)
  \/ \E p \in Proc, a \in Agent : MonitorFires(p, a)
  \/ \E p \in Proc : Signal(p) \/ ShutdownStopped(p) \/ Restart(p)

Spec == Init /\ [][Next]_vars

\* Timers fire.
FairSpec == Spec /\ \A p \in Proc, a \in Agent : WF_vars(MonitorFires(p, a))

\* Requests come one after the other, whichever process they are for.
SerialSpec == Init /\ [][Next /\ ~racy']_vars

-----------------------------------------------------------------------------
(* As long as requests do not overlap, a process has no agent on record as     *)
(* running that it does not run, but for those it found so when it read the    *)
(* file.  Found there is only what some process runs, or the leftover of a     *)
(* crash, of a shutdown that gave up, or of the save of a process that had     *)
(* read the file before another one changed it: quiet shutdowns leave nothing. *)
GhostNeedsCrash ==
  (~racy /\ Quiet) =>
    /\ \A p \in Proc, a \in Agent :
         cur[p] # NoSlot /\ objs[cur[p]][a].status = "running" =>
           running[p][a] \/ a \in found[p]
    /\ ~unclean =>
         \A a \in Agent : Persisted[a].status = "running" => \E p \in Proc : running[p][a]

(* Every running agent is monitored, however starts and stops interleave, and *)
(* without overlapping requests by exactly one interval.                      *)
MonitorsCover ==
  \A p \in Proc, a \in Agent :
    /\ running[p][a] => monitors[p][a] > 0
    /\ ~racy => monitors[p][a] = IF running[p][a] THEN 1 ELSE 0

(* The intervals that two overlapping starts leave behind do not outlive the  *)
(* agent: once it is stopped they go, unless it is started again.             *)
MonitorsDrain ==
  \A p \in Proc, a \in Agent : ~running[p][a] ~> (monitors[p][a] = 0 \/ running[p][a])

\* The file is between its truncation and the end of its write.
BeingSaved == \E s \in Slot : req[s].step \in {"initWrite", "write"}

\* What the next process to read it will find in the file, once a save that is
\* under way is done.
OnRecord ==
  IF \E s \in Slot : req[s].step = "write"
    THEN req[CHOOSE s \in Slot : req[s].step = "write"].text
    ELSE Persisted

(* Requests that come one after the other keep a ledger of the agents: a       *)
(* process reads the file once, each save puts one lawful change of one agent  *)
(* on record, beside what the process has read and changed before, and no      *)
(* start, stop or shutdown anything else; a crash in the middle of a save      *)
(* leaves the records of a first start to the next process that reads them.    *)
Ledger == INSTANCE AgentLedger WITH
            ledger <- OnRecord,
            saving <- BeingSaved
ImplementsLedger == Ledger!Spec

(* The kill switch: a start that a stop was called after does not take effect. *)
StopIsFinal == [][\A s \in Slot : Started(s) => ~req[s].overtaken]_vars
=============================================================================
