----------------------------- MODULE AgentRegistry -----------------------------
(***************************************************************************)
(* src/agent-registry.js: the catalogue of agents, held in one object of a *)
(* process (_registry), loaded from registry.json on the first call and    *)
(* written back whole after every mutation.                                *)
(*                                                                         *)
(* server.js and wrapper-server.js are two processes with an object each   *)
(* and one file between them: a process never reads the file again, and    *)
(* what it saves is what it had read, with its own changes.                *)
(*                                                                         *)
(* Every function of the module is asynchronous, so the calls of several   *)
(* requests interleave at their awaits.  A slot is one call in flight, in  *)
(* a process of its own.  Two things follow that the single "let           *)
(* _registry" hides: two first calls of a process both load, and the later *)
(* one replaces the object the earlier one may already have changed; and   *)
(* two writes of the file overlap.                                         *)
(*                                                                         *)
(* _dirty is left out: every caller sets it and calls saveRegistry in one  *)
(* turn of the event loop, so the early return on a clean registry is      *)
(* never taken.                                                            *)
(*                                                                         *)
(* Definitions commented "Slip" are not part of the model: each is a way   *)
(* the definition after it could have been coded wrongly.                  *)
(***************************************************************************)
EXTENDS Naturals, FiniteSets

CONSTANTS
  Builtin,  \* BUILTIN_AGENTS of agent-manifest.js
  Custom,   \* ids that POST /api/agents/custom may add
  Proc,     \* the processes: server.js and wrapper-server.js
  Slot,     \* calls that can be in flight at once
  ProcOf,   \* the process of each
  NoSlot,   \* stands for _registry = null
  NoAgent   \* no request in the slot

ASSUME AgentsAssumption == Builtin \cap Custom = {} /\ NoAgent \notin Builtin \cup Custom
ASSUME NoSlotAssumption == NoSlot \notin Slot
ASSUME ProcAssumption == ProcOf \in [Slot -> Proc]

Agent == Builtin \cup Custom

VARIABLES
  disk,   \* registry.json: missing, empty, mixed (two texts) or whole
  cur,    \* _registry of each process: the slot that loaded the object in use,
          \* or NoSlot
  objs,   \* the registry object each slot loaded in this run of its process
  req,    \* the request of each slot and where it is suspended
  view,   \* history: what each process has read from the file, with the changes
          \* that it has saved since
  acked,  \* history: ... and that of the process which wrote the file last
  racy    \* history: two requests overlapped, and the two before are given up

registryVars == <<disk, cur, objs, req, view, acked, racy>>

Status == {"absent", "not_installed", "installed", "running", "stopped"}
Entry == [installed: BOOLEAN, status: Status]
Content == [Agent -> Entry]

Absent == [installed |-> FALSE, status |-> "absent"]
Created == [installed |-> FALSE, status |-> "not_installed"]

\* BUILTIN_AGENTS.map(createAgentRecord), no custom agents.
Fresh == [a \in Agent |-> IF a \in Builtin THEN Created ELSE Absent]

RegistryOp == {"install", "uninstall", "add", "remove"}
Step == {"idle", "load", "initDir", "initWrite", "body", "sandbox", "dir", "write",
         "return"}

(* A request: its step, operation and agent, the object its loadRegistry()  *)
(* returned, the text it is writing, and whether a stop of the agent was    *)
(* called after it (history).                                               *)
Request == [step: Step, op: RegistryOp \cup {"none", "start", "stop", "stopAll"},
            agent: Agent \cup {NoAgent}, reg: Slot \cup {NoSlot}, text: Content,
            overtaken: BOOLEAN]

NoRequest == [step |-> "idle", op |-> "none", agent |-> NoAgent, reg |-> NoSlot,
              text |-> Fresh, overtaken |-> FALSE]

RegistryTypeOK ==
  /\ disk \in [state: {"missing", "empty", "mixed", "whole"}, data: Content]
  /\ cur \in [Proc -> Slot \cup {NoSlot}]
  /\ objs \in [Slot -> Content]
  /\ req \in [Slot -> Request]
  /\ view \in [Proc -> Content]
  /\ acked \in Content
  /\ racy \in BOOLEAN

RegistryInit ==
  /\ disk = [state |-> "missing", data |-> Fresh]
  /\ cur = [p \in Proc |-> NoSlot]
  /\ objs = [s \in Slot |-> Fresh]
  /\ req = [s \in Slot |-> NoRequest]
  /\ view = [p \in Proc |-> Fresh]
  /\ acked = Fresh
  /\ racy = FALSE

Quiet == \A s \in Slot : req[s] = NoRequest

\* _registry, in the process of s.
Current(s) == cur[ProcOf[s]]

\* Registry objects nothing refers to any more are gone.
Collected(os, c, reqs) ==
  [s \in Slot |-> IF (\E p \in Proc : c[p] = s) \/ (\E t \in Slot : reqs[t].reg = s)
                    THEN os[s] ELSE Fresh]

-----------------------------------------------------------------------------
(* loadRegistry. *)

\* A request arrives.  With a registry in memory, loadRegistry returns at once.
\* others are the requests in flight as this one leaves them.
Begin(s, op, a, others) ==
  /\ req[s] = NoRequest
  /\ req' = [others EXCEPT ![s] =
               [NoRequest EXCEPT !.op = op, !.agent = a, !.reg = Current(s),
                                 !.step = IF Current(s) = NoSlot THEN "load" ELSE "body"]]
  /\ racy' = (racy \/ ~Quiet)
  /\ view' = IF racy' THEN [p \in Proc |-> Fresh] ELSE view
  /\ acked' = IF racy' THEN Fresh ELSE acked
  /\ UNCHANGED <<disk, cur, objs>>

\* The first read of the file: its content becomes _registry, even when another
\* request has set _registry in the meantime.  Without a file, or with one that
\* does not parse, start over with the built-in agents and save those first.
Load(s) ==
  /\ req[s].step = "load"
  /\ cur' = [cur EXCEPT ![ProcOf[s]] = s]
  /\ \/ /\ disk.state = "whole"
        /\ req' = [req EXCEPT ![s].step = "body", ![s].reg = s]
        /\ objs' = Collected([objs EXCEPT ![s] = disk.data], cur', req')
     \/ /\ disk.state # "whole"
        /\ req' = [req EXCEPT ![s].step = "initDir"]
        /\ objs' = Collected([objs EXCEPT ![s] = Fresh], cur', req')
  /\ view' = [view EXCEPT ![ProcOf[s]] = acked]
  /\ UNCHANGED <<disk, acked, racy>>

-----------------------------------------------------------------------------
(* saveRegistry. *)

\* After ensureDataDir, whatever _registry is by now is serialised, and
\* writeFile opens the file with truncation.
OpenFile(s) ==
  LET p == ProcOf[s]
      a == req[s].agent
      text == objs[Current(s)]
  IN  /\ \/ /\ req[s].step = "initDir"
            /\ req' = [req EXCEPT ![s].step = "initWrite", ![s].text = text]
            /\ UNCHANGED view
         \/ /\ req[s].step = "dir"
            /\ req' = [req EXCEPT ![s].step = "write", ![s].text = text]
            /\ view' = IF racy THEN view ELSE [view EXCEPT ![p][a] = text[a]]
      /\ disk' = [state |-> "empty", data |-> Fresh]
      /\ UNCHANGED <<cur, objs, acked, racy>>

\* writeFile puts the text at the start of the file.  When another request
\* wrote since this one truncated, the end of a longer text stays behind it.
WriteText(text) ==
  \/ disk' = [state |-> "whole", data |-> text]
  \/ /\ disk.state \in {"whole", "mixed"}
     /\ disk.state = "whole" => disk.data # text
     /\ disk' = [state |-> "mixed", data |-> Fresh]

\* The load of a fresh registry ends: it returns _registry as it is now.
InitWritten(s) ==
  /\ req[s].step = "initWrite"
  /\ WriteText(req[s].text)
  /\ req' = [req EXCEPT ![s].step = "body", ![s].reg = Current(s), ![s].text = Fresh]
  /\ UNCHANGED <<cur, objs, view, acked, racy>>

Written(s) ==
  /\ req[s].step = "write"
  /\ WriteText(req[s].text)
  /\ req' = [req EXCEPT ![s].step = "return", ![s].text = Fresh]
  /\ acked' = view[ProcOf[s]]
  /\ UNCHANGED <<cur, objs, view, racy>>

-----------------------------------------------------------------------------
(* The mutations. *)

\* When op throws, for an agent a with entry e.
Rejects(op, a, e) ==
  \/ op \notin {"add", "remove"} /\ e.status = "absent"
  \/ op = "add" /\ (a \notin Custom \/ e.status # "absent")
  \/ op = "remove" /\ (a \notin Custom \/ e.status = "absent")

\* What op makes of an entry.
Effect(op, e) ==
  CASE op = "install"   -> [installed |-> TRUE, status |-> "installed"]
    [] op = "uninstall" -> Created
    [] op = "add"       -> Created
    [] op = "remove"    -> Absent
    [] op = "start"     -> [e EXCEPT !.status = "running"]
    [] OTHER            -> [e EXCEPT !.status = "stopped"]

\* Slip: a mutation that is not written back.
MutateIn_Unsaved(s, obj) ==
  LET a == req[s].agent
      op == req[s].op
  IN  /\ IF Rejects(op, a, objs[obj][a])
           THEN req' = [req EXCEPT ![s] = NoRequest] /\ UNCHANGED objs
           ELSE /\ req' = [req EXCEPT ![s].step = "return", ![s].reg = NoSlot]
                /\ objs' = [objs EXCEPT ![obj][a] = Effect(op, @)]
      /\ UNCHANGED <<disk, cur, view, acked, racy>>

\* Mutate the agent's entry in a registry object and go on to save, or throw
\* with nothing changed.
MutateIn(s, obj) ==
  LET a == req[s].agent
      op == req[s].op
  IN  /\ IF Rejects(op, a, objs[obj][a])
           THEN /\ req' = [req EXCEPT ![s] = NoRequest]
                /\ objs' = Collected(objs, cur, req')
           ELSE /\ req' = [req EXCEPT ![s].step = "dir", ![s].reg = NoSlot]
                /\ objs' = Collected([objs EXCEPT ![obj][a] = Effect(op, @)], cur, req')
      /\ UNCHANGED <<disk, cur, view, acked, racy>>

\* installAgent, uninstallAgent, addCustomAgent and removeCustomAgent, in the
\* object their loadRegistry() returned.
Mutate(s) ==
  /\ req[s].step = "body"
  /\ req[s].op \in RegistryOp
  /\ MutateIn(s, req[s].reg)

\* The handler of a registry request has its answer.
Return(s) ==
  /\ req[s].step = "return"
  /\ req[s].op \in RegistryOp
  /\ req' = [req EXCEPT ![s] = NoRequest]
  /\ UNCHANGED <<disk, cur, objs, view, acked, racy>>

\* Process p ends, at any point.  The file stays as it is: empty, when p was
\* writing it.
RegistryRestart(p) ==
  LET cut == \E s \in Slot : ProcOf[s] = p /\ req[s].step \in {"initWrite", "write"}
  IN  /\ cur' = [cur EXCEPT ![p] = NoSlot]
      /\ req' = [s \in Slot |-> IF ProcOf[s] = p THEN NoRequest ELSE req[s]]
      /\ objs' = Collected(objs, cur', req')
      /\ view' = [view EXCEPT ![p] = Fresh]
      /\ acked' = IF cut THEN Fresh ELSE acked
      /\ UNCHANGED <<disk, racy>>

\* The steps of the registry that every request takes on its way.
RegistryStep(s) ==
  \/ Load(s)
  \/ OpenFile(s)
  \/ InitWritten(s)
  \/ Mutate(s)
  \/ Written(s)
  \/ Return(s)

-----------------------------------------------------------------------------
(* What a process that starts now would load. *)
Persisted == IF disk.state = "whole" THEN disk.data ELSE Fresh

(* As long as requests do not overlap, in one process or in two, every process *)
(* has between requests what it read and what it acknowledged since, and the   *)
(* file has what the process that wrote last has, through all crashes: one in  *)
(* the middle of a write leaves the file empty.  An acknowledged change is     *)
(* lost in no other way than that, or by the save of a process that had read   *)
(* the file before the change.                                                 *)
SerialDurable ==
  (~racy /\ Quiet) =>
    /\ Persisted = acked
    /\ \A p \in Proc : cur[p] # NoSlot => objs[cur[p]] = view[p]
=============================================================================
