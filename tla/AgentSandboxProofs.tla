--------------------------- MODULE AgentSandboxProofs ---------------------------
(***************************************************************************)
(* Theorems about AgentSandbox and the AgentRegistry under it, for every   *)
(* set of agents, any number of processes and of calls in flight,          *)
(* shutdowns and crashes.                                                  *)
(*                                                                         *)
(* The invariant follows the one request that is in flight as long as none *)
(* overlap through the steps of load and save: what the file, the object   *)
(* its process has in use and the two histories have to do with each other *)
(* at each of them (FileInv).  On top of it, what a process has on record  *)
(* as running it runs, is starting or stopping, or has found so; and while *)
(* no process saves a stale copy, so it is with what the file has          *)
(* (GhostInv).  The last part shows that the file and the views of the     *)
(* processes are a ledger, step by step (LedgerInv).                       *)
(***************************************************************************)
EXTENDS AgentSandbox, TLAPS

\* The process of a slot has its object from a slot of its own; where a request
\* may be suspended, and what it then knows of.
FlightInv ==
  /\ \A p \in Proc : cur[p] # NoSlot => ProcOf[cur[p]] = p
  /\ \A s \in Slot :
       /\ req[s].step = "idle" => req[s] = NoRequest
       /\ req[s].step # "idle" => req[s].agent \in Agent
       /\ req[s].step \notin {"idle", "load"} => Current(s) # NoSlot
       /\ req[s].step = "body" => req[s].reg # NoSlot

\* Until requests overlap there is one at a time.
SingleInv ==
  ~racy => \A s, t \in Slot : req[s].step # "idle" /\ req[t].step # "idle" => s = t

\* The starts that have passed their check.
Past(s) == req[s].op = "start" /\ req[s].step \in {"sandbox", "dir", "write", "return"}

\* A running agent is monitored; a start that has passed its check finds the
\* agent without an entry still, unless another request came in between.
MonitorInv ==
  /\ \A p \in Proc, a \in Agent : running[p][a] => monitors[p][a] > 0
  /\ ~racy =>
       /\ \A p \in Proc, a \in Agent : monitors[p][a] = IF running[p][a] THEN 1 ELSE 0
       /\ \A s \in Slot : Past(s) => ~running[ProcOf[s]][req[s].agent]

\* The object that process p has in use is what it has read and saved since.
Agrees(p) == cur[p] # NoSlot => objs[cur[p]] = view[p]

\* Registry, file and history, at each step of the one request in flight.
FileInv(s) ==
  LET p == ProcOf[s]
      step == req[s].step
  IN  /\ step = "body" => req[s].reg = cur[p]
      /\ step = "initDir" => objs[cur[p]] = Fresh /\ disk.state # "whole"
      /\ step = "initWrite" => req[s].text = Fresh /\ disk.state = "empty"
      /\ step = "dir" => \A b \in Agent \ {req[s].agent} : objs[cur[p]][b] = view[p][b]
      /\ step = "write" => req[s].text = view[p] /\ disk.state = "empty"

DurableInv ==
  ~racy =>
    /\ \A s \in Slot : FileInv(s)
    /\ (\A s \in Slot : req[s].step # "write") => Persisted = acked
    /\ \A p \in Proc : (\A s \in Slot : ProcOf[s] = p => req[s].step # "dir") => Agrees(p)

\* Slot s accounts for agent a not running yet, or no longer.
Accounts(s, a) ==
  /\ req[s].agent = a
  /\ \/ req[s].op = "start" /\ req[s].step \in {"write", "return"}
     \/ req[s].op \in {"stop", "stopAll"} /\ req[s].step \notin {"idle", "write", "return"}

\* Process p runs agent a, or has a request that accounts for it.
Runs(p, a) == running[p][a] \/ \E s \in Slot : ProcOf[s] = p /\ Accounts(s, a)

\* Only a start makes a status that says running.
SavesRunning(s) ==
  req[s].step \in {"dir", "write"} /\ objs[Current(s)][req[s].agent].status = "running" =>
    req[s].op = "start"

\* What a process has on record as running it runs, or found so.
KnownInv ==
  \A p \in Proc, a \in Agent :
    view[p][a].status = "running" => Runs(p, a) \/ a \in found[p]

\* A save that is under way changes the record of its agent only.
SavesOne(s) ==
  req[s].step = "write" =>
    \A b \in Agent \ {req[s].agent} : view[ProcOf[s]][b] = acked[b]

\* A process that has shut down has no request in flight and runs no agent.
Idles(p) ==
  /\ \A s \in Slot : ProcOf[s] = p => req[s].step = "idle"
  /\ \A a \in Agent : ~running[p][a]

\* What is on file as running, and not being saved, runs in some process.
CleanInv ==
  /\ \A a \in Agent :
       acked[a].status = "running" =>
         \/ \E s \in Slot : req[s].step = "write" /\ req[s].agent = a
         \/ \E q \in Proc : view[q][a].status = "running" /\ Runs(q, a)
  /\ \A s \in Slot : SavesOne(s)
  /\ \A p \in Proc : phase[p] = "closing" => Idles(p)

GhostInv ==
  ~racy =>
    /\ \A s \in Slot : SavesRunning(s)
    /\ KnownInv
    /\ ~unclean => CleanInv

SandboxInv ==
  TypeOK /\ FlightInv /\ SingleInv /\ MonitorInv /\ DurableInv /\ GhostInv

-----------------------------------------------------------------------------
(* The constants of the registry have the types of its variables.              *)
LEMMA Values ==
  /\ Fresh \in Content
  /\ Absent \in Entry /\ Created \in Entry
  /\ \A a \in Agent : Fresh[a].status # "running"
  /\ NoRequest \in Request
  /\ NoRequest.step = "idle" /\ NoRequest.op = "none" /\ NoRequest.reg = NoSlot
  /\ NoSlot \notin Slot
  <1>1. Absent \in Entry /\ Created \in Entry BY DEF Absent, Created, Entry, Status
  <1>2. Fresh \in Content BY <1>1 DEF Fresh, Content
  <1>3. \A a \in Agent : Fresh[a].status # "running" BY DEF Fresh, Absent, Created
  <1>4. NoRequest \in Request BY <1>2 DEF NoRequest, Request, Step
  <1> QED BY <1>1, <1>2, <1>3, <1>4, NoSlotAssumption DEF NoRequest

(* What the types say of a slot, its process and its request.                  *)
LEMMA Types ==
  ASSUME TypeOK, FlightInv, NEW s \in Slot
  PROVE  /\ req \in [Slot -> Request] /\ req[s] \in Request /\ req[s].text \in Content
         /\ objs \in [Slot -> Content] /\ disk.data \in Content
         /\ disk \in [state : {"missing", "empty", "mixed", "whole"}, data : Content]
         /\ cur \in [Proc -> Slot \cup {NoSlot}] /\ ProcOf[s] \in Proc
         /\ Current(s) = cur[ProcOf[s]] /\ Current(s) \in Slot \cup {NoSlot}
         /\ view \in [Proc -> Content] /\ view[ProcOf[s]] \in Content /\ acked \in Content
         /\ req[s].step # "idle" => req[s].agent \in Agent
         /\ req[s].step \notin {"idle", "load"} =>
              Current(s) \in Slot /\ objs[Current(s)] \in Content
         /\ req[s].step = "body" => req[s].reg \in Slot
  <1>1. req \in [Slot -> Request] /\ req[s] \in Request /\ ProcOf[s] \in Proc
    BY ProcAssumption DEF TypeOK, RegistryTypeOK
  <1>2. req[s].text \in Content /\ req[s].reg \in Slot \cup {NoSlot} BY <1>1 DEF Request
  <1>3. /\ cur \in [Proc -> Slot \cup {NoSlot}] /\ objs \in [Slot -> Content]
        /\ view \in [Proc -> Content] /\ acked \in Content
        /\ disk \in [state : {"missing", "empty", "mixed", "whole"}, data : Content]
    BY DEF TypeOK, RegistryTypeOK
  <1>4. Current(s) = cur[ProcOf[s]] /\ Current(s) \in Slot \cup {NoSlot}
    BY <1>1, <1>3 DEF Current
  <1>5. disk.data \in Content /\ view[ProcOf[s]] \in Content BY <1>1, <1>3
  <1>6. /\ req[s].step # "idle" => req[s].agent \in Agent
        /\ req[s].step \notin {"idle", "load"} => Current(s) # NoSlot
        /\ req[s].step = "body" => req[s].reg # NoSlot
    BY DEF FlightInv
  <1> QED BY <1>1, <1>2, <1>3, <1>4, <1>5, <1>6

(* Every operation makes an entry of an entry, and only a start a running one. *)
LEMMA Effects ==
  ASSUME NEW op, NEW e \in Entry
  PROVE  /\ Effect(op, e) \in Entry
         /\ Effect(op, e).status = "running" => op = "start"
  <1>1. [e EXCEPT !.status = "running"] \in Entry BY DEF Entry, Status
  <1>2. /\ [e EXCEPT !.status = "stopped"] \in Entry
        /\ [e EXCEPT !.status = "stopped"].status = "stopped"
    BY DEF Entry, Status
  <1>3. /\ [installed |-> TRUE, status |-> "installed"] \in Entry
        /\ Absent \in Entry /\ Created \in Entry
        /\ Absent.status = "absent" /\ Created.status = "not_installed"
    BY DEF Entry, Status, Absent, Created
  <1>4. CASE op = "install" BY <1>3, <1>4 DEF Effect
  <1>5. CASE op \in {"uninstall", "add"} BY <1>3, <1>5 DEF Effect
  <1>6. CASE op = "remove" BY <1>3, <1>6 DEF Effect
  <1>7. CASE op = "start" BY <1>1, <1>7 DEF Effect
  <1>8. CASE op \notin {"install", "uninstall", "add", "remove", "start"}
    BY <1>2, <1>8 DEF Effect
  <1> QED BY <1>4, <1>5, <1>6, <1>7, <1>8

(* Collecting what nothing refers to keeps the objects in use as they are.     *)
LEMMA Collection ==
  ASSUME NEW os \in [Slot -> Content], NEW c, NEW reqs
  PROVE  /\ Collected(os, c, reqs) \in [Slot -> Content]
         /\ \A p \in Proc : c[p] \in Slot => Collected(os, c, reqs)[c[p]] = os[c[p]]
  BY Values DEF Collected

\* A step takes nothing from process q.
Keeps(q) ==
  /\ cur'[q] = cur[q]
  /\ view'[q] = view[q]
  /\ cur[q] # NoSlot => objs'[cur[q]] = objs[cur[q]]

\* ... nor from any process but the one of slot s, and moves on no other request.
Alone(s) ==
  /\ \A q \in Proc \ {ProcOf[s]} : Keeps(q)
  /\ \A t \in Slot \ {s} : req'[t] = req[t]

(* What a request does that arrives.                                           *)
LEMMA Arrival ==
  ASSUME TypeOK, FlightInv,
         NEW s \in Slot, NEW a \in Agent,
         NEW op \in RegistryOp \cup {"start", "stop", "stopAll"},
         NEW others \in {req, Overtaken(ProcOf[s], a)},
         Begin(s, op, a, others)
  PROVE  /\ req' \in [Slot -> Request] /\ racy' \in BOOLEAN
         /\ view' \in [Proc -> Content] /\ acked' \in Content
         /\ req[s].step = "idle"
         /\ req'[s].step = IF Current(s) = NoSlot THEN "load" ELSE "body"
         /\ req'[s].op = op /\ req'[s].agent = a /\ req'[s].reg = Current(s)
         /\ \A t \in Slot \ {s} :
              /\ req'[t].step = req[t].step /\ req'[t].op = req[t].op
              /\ req'[t].agent = req[t].agent /\ req'[t].reg = req[t].reg
              /\ req'[t].text = req[t].text
              /\ req[t] = NoRequest => req'[t] = NoRequest
         /\ ~racy' => /\ ~racy /\ acked' = acked /\ view' = view
                      /\ \A t \in Slot : req[t] = NoRequest /\ req[t].step = "idle"
         /\ UNCHANGED <<disk, cur, objs>>
  <1> DEFINE step == IF Current(s) = NoSlot THEN "load" ELSE "body"
             new == [NoRequest EXCEPT !.op = op, !.agent = a, !.reg = Current(s),
                                      !.step = step]
  <1>1. /\ new \in Request
        /\ new.step = step /\ new.op = op /\ new.agent = a /\ new.reg = Current(s)
    <2>1. NoRequest \in Request /\ Current(s) \in Slot \cup {NoSlot} BY Values, Types
    <2>2. op \in RegistryOp \cup {"none", "start", "stop", "stopAll"} OBVIOUS
    <2>3. step \in Step BY DEF Step
    <2>4. DOMAIN NoRequest = {"step", "op", "agent", "reg", "text", "overtaken"}
      BY DEF NoRequest
    <2> HIDE DEF step
    <2> QED BY <2>1, <2>2, <2>3, <2>4 DEF Request
  <1>2. req \in [Slot -> Request] BY Types
  <1>3. /\ others \in [Slot -> Request]
        /\ \A t \in Slot :
              /\ others[t].step = req[t].step /\ others[t].op = req[t].op
              /\ others[t].agent = req[t].agent /\ others[t].reg = req[t].reg
              /\ others[t].text = req[t].text
              /\ req[t] = NoRequest => others[t] = NoRequest
    <2>1. CASE others = req BY <1>2, <2>1
    <2>2. CASE others = Overtaken(ProcOf[s], a)
      <3>1. \A t \in Slot : [req[t] EXCEPT !.overtaken = TRUE] \in Request
        BY <1>2 DEF Request
      <3>2. \A t \in Slot :
              LET r == [req[t] EXCEPT !.overtaken = TRUE]
              IN  /\ r.step = req[t].step /\ r.op = req[t].op /\ r.agent = req[t].agent
                  /\ r.reg = req[t].reg /\ r.text = req[t].text
        BY <1>2 DEF Request
      <3>3. \A t \in Slot : req[t] = NoRequest => ~(req[t].op = "start")
        BY Values
      <3> QED BY <1>2, <2>2, <3>1, <3>2, <3>3 DEF Overtaken
    <2> QED BY <2>1, <2>2
  <1>4. req' = [others EXCEPT ![s] = new] /\ req[s] = NoRequest
    BY DEF Begin
  <1>5. /\ racy' = (racy \/ ~Quiet)
        /\ view' = IF racy' THEN [p \in Proc |-> Fresh] ELSE view
        /\ acked' = IF racy' THEN Fresh ELSE acked
        /\ UNCHANGED <<disk, cur, objs>>
    BY DEF Begin
  <1> HIDE DEF new
  <1>6. req' \in [Slot -> Request] /\ req'[s] = new /\ \A t \in Slot \ {s} : req'[t] = others[t]
    BY <1>1, <1>3, <1>4
  <1>7. acked' \in Content /\ racy' \in BOOLEAN /\ view' \in [Proc -> Content]
    <2>1. acked \in Content /\ view \in [Proc -> Content] /\ racy \in BOOLEAN
      BY DEF TypeOK, RegistryTypeOK
    <2> QED BY <1>5, <2>1, Values
  <1>8. ~racy' => /\ ~racy /\ acked' = acked /\ view' = view
                  /\ \A t \in Slot : req[t] = NoRequest /\ req[t].step = "idle"
    BY <1>5, Values DEF Quiet
  <1> QED BY <1>1, <1>3, <1>4, <1>5, <1>6, <1>7, <1>8, Values

(* What a mutation does, in the registry object obj.                           *)
LEMMA Mutation ==
  ASSUME TypeOK, FlightInv,
         NEW s \in Slot, NEW obj \in Slot, req[s].step \notin {"idle", "load"},
         MutateIn(s, obj)
  PROVE  LET a == req[s].agent
             c == Current(s)
         IN  /\ req' \in [Slot -> Request] /\ objs' \in [Slot -> Content]
             /\ \A t \in Slot \ {s} : req'[t] = req[t]
             /\ UNCHANGED <<disk, cur, view, acked, racy>>
             /\ obj = c => Alone(s)
             /\ \/ /\ req'[s] = NoRequest
                   /\ objs'[c] = objs[c]
                   /\ req[s].op \notin {"add", "remove"} => objs[obj][a].status = "absent"
                \/ /\ req'[s].step = "dir" /\ req'[s].op = req[s].op /\ req'[s].agent = a
                   /\ ~Rejects(req[s].op, a, objs[obj][a])
                   /\ obj = c =>
                        objs'[c] = [objs[c] EXCEPT ![a] = Effect(req[s].op, objs[c][a])]
  <1> DEFINE a == req[s].agent
             op == req[s].op
             c == Current(s)
             os == [objs EXCEPT ![obj][a] = Effect(op, @)]
             go == [req EXCEPT ![s].step = "dir", ![s].reg = NoSlot]
  <1>1. /\ req \in [Slot -> Request] /\ objs \in [Slot -> Content] /\ a \in Agent
        /\ c = cur[ProcOf[s]] /\ c \in Slot /\ ProcOf[s] \in Proc
        /\ cur \in [Proc -> Slot \cup {NoSlot}]
    BY Types
  <1>2. Effect(op, objs[obj][a]) \in Entry
    <2>1. objs[obj][a] \in Entry BY <1>1 DEF Content
    <2> QED BY <2>1, Effects
  <1>3. /\ os \in [Slot -> Content]
        /\ os[obj] = [objs[obj] EXCEPT ![a] = Effect(op, objs[obj][a])]
        /\ \A t \in Slot \ {obj} : os[t] = objs[t]
    BY <1>1, <1>2 DEF Content
  <1>4. /\ go \in [Slot -> Request]
        /\ \A t \in Slot \ {s} : go[t] = req[t]
        /\ go[s].step = "dir" /\ go[s].op = req[s].op /\ go[s].agent = a
    BY <1>1 DEF Request, Step
  <1>5. UNCHANGED <<disk, cur, view, acked, racy>> BY DEF MutateIn
  <1>6. \A q \in Proc \ {ProcOf[s]} : cur[q] # NoSlot => cur[q] \in Slot /\ cur[q] # c
    BY <1>1, Values DEF FlightInv
  <1>7. CASE Rejects(op, a, objs[obj][a])
    <2>1. req' = [req EXCEPT ![s] = NoRequest] /\ objs' = Collected(objs, cur, req')
      BY <1>7 DEF MutateIn
    <2>2. /\ objs' \in [Slot -> Content]
          /\ \A p \in Proc : cur[p] \in Slot => objs'[cur[p]] = objs[cur[p]]
      BY <1>1, <2>1, Collection
    <2>3. op \notin {"add", "remove"} => objs[obj][a].status = "absent"
      BY <1>7 DEF Rejects
    <2>4. req' \in [Slot -> Request] /\ req'[s] = NoRequest
          /\ \A t \in Slot \ {s} : req'[t] = req[t]
      BY <1>1, <2>1, Values
    <2> HIDE DEF os, go
    <2>5. Alone(s) BY <1>5, <1>6, <2>2, <2>4 DEF Alone, Keeps
    <2> QED BY <1>1, <1>5, <2>2, <2>3, <2>4, <2>5
  <1>8. CASE ~Rejects(op, a, objs[obj][a])
    <2>1. req' = go /\ objs' = Collected(os, cur, req') BY <1>8 DEF MutateIn
    <2> HIDE DEF go, os
    <2>2. /\ objs' \in [Slot -> Content]
          /\ \A p \in Proc : cur[p] \in Slot => objs'[cur[p]] = os[cur[p]]
      BY <1>3, <2>1, Collection
    <2>3. obj = c => Alone(s) BY <1>3, <1>4, <1>5, <1>6, <2>1, <2>2 DEF Alone, Keeps
    <2>4. objs'[c] = os[c] BY <1>1, <2>2
    <2> QED BY <1>3, <1>4, <1>5, <1>8, <2>1, <2>2, <2>3, <2>4
  <1> QED BY <1>7, <1>8

-----------------------------------------------------------------------------
(* A save: what it writes, and what it makes of the file.                      *)
LEMMA Opening ==
  ASSUME TypeOK, FlightInv, NEW s \in Slot, OpenFile(s)
  PROVE  LET p == ProcOf[s]
             a == req[s].agent
             c == Current(s)
         IN  /\ req[s].step \in {"initDir", "dir"}
             /\ req' \in [Slot -> Request] /\ view' \in [Proc -> Content] /\ Alone(s)
             /\ req'[s].step = IF req[s].step = "dir" THEN "write" ELSE "initWrite"
             /\ req'[s].op = req[s].op /\ req'[s].agent = a /\ req'[s].text = objs[c]
             /\ req[s].step = "initDir" => view' = view
             /\ req[s].step = "dir" /\ ~racy =>
                  view'[p] = [view[p] EXCEPT ![a] = objs[c][a]]
             /\ disk' = [state |-> "empty", data |-> Fresh]
             /\ UNCHANGED <<cur, objs, acked, racy>>
  <1> DEFINE p == ProcOf[s]
             a == req[s].agent
             c == Current(s)
  <1>1. /\ req \in [Slot -> Request] /\ req[s] \in Request /\ p \in Proc
        /\ view \in [Proc -> Content] /\ view[p] \in Content
        /\ req[s].step \in {"initDir", "dir"} => a \in Agent /\ objs[c] \in Content
    BY Types
  <1>2. /\ req[s].step \in {"initDir", "dir"}
        /\ disk' = [state |-> "empty", data |-> Fresh]
        /\ UNCHANGED <<cur, objs, acked, racy>>
    BY DEF OpenFile
  <1>3. CASE req[s].step = "dir"
    <2>1. req' = [req EXCEPT ![s] = [req[s] EXCEPT !.step = "write", !.text = objs[c]]]
      BY <1>1, <1>3 DEF OpenFile
    <2>2. LET r == [req[s] EXCEPT !.step = "write", !.text = objs[c]]
          IN  /\ r \in Request /\ r.step = "write" /\ r.text = objs[c]
              /\ r.op = req[s].op /\ r.agent = a
      BY <1>1, <1>3 DEF Request, Step
    <2>3. view' = IF racy THEN view ELSE [view EXCEPT ![p][a] = objs[c][a]]
      BY <1>3 DEF OpenFile
    <2> HIDE DEF p, a, c
    <2>4. [view[p] EXCEPT ![a] = objs[c][a]] \in Content BY <1>1, <1>3 DEF Content
    <2>5. /\ view' \in [Proc -> Content]
          /\ \A q \in Proc \ {p} : view'[q] = view[q]
          /\ ~racy => view'[p] = [view[p] EXCEPT ![a] = objs[c][a]]
      BY <1>1, <2>3, <2>4
    <2>6. req' \in [Slot -> Request] /\ \A t \in Slot \ {s} : req'[t] = req[t]
      BY <1>1, <2>1, <2>2
    <2>7. Alone(s) BY <1>2, <2>5, <2>6 DEF Alone, Keeps, p
    <2> QED BY <1>1, <1>2, <1>3, <2>1, <2>2, <2>5, <2>6, <2>7 DEF p, a, c
  <1>4. CASE req[s].step = "initDir"
    <2>1. req' = [req EXCEPT ![s] = [req[s] EXCEPT !.step = "initWrite", !.text = objs[c]]]
      BY <1>1, <1>4 DEF OpenFile
    <2>2. LET r == [req[s] EXCEPT !.step = "initWrite", !.text = objs[c]]
          IN  /\ r \in Request /\ r.step = "initWrite" /\ r.text = objs[c]
              /\ r.op = req[s].op /\ r.agent = a
      BY <1>1, <1>4 DEF Request, Step
    <2>3. view' = view BY <1>4 DEF OpenFile
    <2> HIDE DEF p, a, c
    <2>4. req' \in [Slot -> Request] /\ \A t \in Slot \ {s} : req'[t] = req[t]
      BY <1>1, <2>1, <2>2
    <2>5. Alone(s) BY <1>2, <2>3, <2>4 DEF Alone, Keeps
    <2> QED BY <1>1, <1>2, <1>4, <2>1, <2>2, <2>3, <2>4, <2>5 DEF p, a, c
  <1> QED BY <1>2, <1>3, <1>4

LEMMA Saving ==
  ASSUME TypeOK, FlightInv, NEW s \in Slot, InitWritten(s) \/ Written(s)
  PROVE  /\ req' \in [Slot -> Request] /\ acked' \in Content /\ Alone(s)
         /\ req'[s].op = req[s].op /\ req'[s].agent = req[s].agent
         /\ \/ /\ req[s].step = "initWrite" /\ req'[s].step = "body"
               /\ req'[s].reg = Current(s) /\ acked' = acked
            \/ /\ req[s].step = "write" /\ req'[s].step = "return"
               /\ acked' = view[ProcOf[s]]
         /\ disk' \in [state : {"missing", "empty", "mixed", "whole"}, data : Content]
         /\ disk.state = "empty" => disk' = [state |-> "whole", data |-> req[s].text]
         /\ UNCHANGED <<cur, objs, view, racy>>
  <1>1. /\ req \in [Slot -> Request] /\ req[s] \in Request
        /\ Current(s) \in Slot \cup {NoSlot} /\ view[ProcOf[s]] \in Content
        /\ acked \in Content /\ req[s].text \in Content /\ disk.data \in Content
    BY Types
  <1>2. UNCHANGED <<cur, objs, view, racy>> /\ WriteText(req[s].text)
    BY DEF InitWritten, Written
  <1>3. /\ disk' \in [state : {"missing", "empty", "mixed", "whole"}, data : Content]
        /\ disk.state = "empty" => disk' = [state |-> "whole", data |-> req[s].text]
    BY <1>1, <1>2, Values DEF WriteText
  <1>4. ASSUME \A t \in Slot \ {s} : req'[t] = req[t] PROVE Alone(s)
    BY <1>2, <1>4 DEF Alone, Keeps
  <1>5. CASE InitWritten(s)
    <2>1. /\ req' = [req EXCEPT ![s] =
                       [req[s] EXCEPT !.step = "body", !.reg = Current(s), !.text = Fresh]]
          /\ req[s].step = "initWrite" /\ acked' = acked
      BY <1>1, <1>5 DEF InitWritten
    <2>2. LET r == [req[s] EXCEPT !.step = "body", !.reg = Current(s), !.text = Fresh]
          IN  /\ r \in Request /\ r.step = "body" /\ r.reg = Current(s)
              /\ r.op = req[s].op /\ r.agent = req[s].agent
      BY <1>1, Values DEF Request, Step
    <2>3. \A t \in Slot \ {s} : req'[t] = req[t] BY <1>1, <2>1
    <2>4. Alone(s) BY <1>4, <2>3
    <2> QED BY <1>1, <1>2, <1>3, <2>1, <2>2, <2>4
  <1>6. CASE Written(s)
    <2>1. /\ req' = [req EXCEPT ![s] = [req[s] EXCEPT !.step = "return", !.text = Fresh]]
          /\ req[s].step = "write" /\ acked' = view[ProcOf[s]]
      BY <1>1, <1>6 DEF Written
    <2>2. LET r == [req[s] EXCEPT !.step = "return", !.text = Fresh]
          IN  /\ r \in Request /\ r.step = "return"
              /\ r.op = req[s].op /\ r.agent = req[s].agent
      BY <1>1, Values DEF Request, Step
    <2>3. \A t \in Slot \ {s} : req'[t] = req[t] BY <1>1, <2>1
    <2>4. Alone(s) BY <1>4, <2>3
    <2> QED BY <1>1, <1>2, <1>3, <2>1, <2>2, <2>4
  <1> QED BY <1>5, <1>6

(* A load: the object it makes, and that it becomes the one in use.            *)
LEMMA Loading ==
  ASSUME TypeOK, FlightInv, NEW s \in Slot, Load(s)
  PROVE  LET p == ProcOf[s]
         IN  /\ req[s].step = "load"
             /\ cur' \in [Proc -> Slot \cup {NoSlot}] /\ cur'[p] = s
             /\ req' \in [Slot -> Request] /\ objs' \in [Slot -> Content]
             /\ view' \in [Proc -> Content] /\ view'[p] = acked /\ Alone(s)
             /\ req'[s].op = req[s].op /\ req'[s].agent = req[s].agent
             /\ \/ /\ disk.state = "whole" /\ req'[s].step = "body" /\ req'[s].reg = s
                   /\ objs'[s] = disk.data
                \/ /\ disk.state # "whole" /\ req'[s].step = "initDir"
                   /\ objs'[s] = Fresh
             /\ UNCHANGED <<disk, acked, racy>>
  <1> DEFINE p == ProcOf[s]
  <1>1. /\ req \in [Slot -> Request] /\ objs \in [Slot -> Content] /\ disk.data \in Content
        /\ req[s] \in Request /\ p \in Proc /\ cur \in [Proc -> Slot \cup {NoSlot}]
        /\ view \in [Proc -> Content] /\ acked \in Content
    BY Types
  <1>2. /\ req[s].step = "load" /\ UNCHANGED <<disk, acked, racy>>
        /\ cur' = [cur EXCEPT ![p] = s] /\ view' = [view EXCEPT ![p] = acked]
    BY DEF Load
  <1>3. /\ cur' \in [Proc -> Slot \cup {NoSlot}] /\ cur'[p] = s
        /\ view' \in [Proc -> Content] /\ view'[p] = acked
        /\ \A q \in Proc \ {p} :
             /\ cur'[q] = cur[q] /\ view'[q] = view[q]
             /\ cur[q] # NoSlot => cur[q] \in Slot /\ cur[q] # s
    BY <1>1, <1>2 DEF FlightInv
  <1>4. ASSUME NEW new \in Content, objs' = Collected([objs EXCEPT ![s] = new], cur', req')
        PROVE  /\ objs' \in [Slot -> Content] /\ objs'[s] = new
               /\ \A q \in Proc \ {p} : cur[q] # NoSlot => objs'[cur[q]] = objs[cur[q]]
    <2> DEFINE os == [objs EXCEPT ![s] = new]
    <2>1. os \in [Slot -> Content] /\ os[s] = new /\ \A t \in Slot \ {s} : os[t] = objs[t]
      BY <1>1
    <2>2. objs' = Collected(os, cur', req') BY <1>4
    <2> HIDE DEF os
    <2>3. /\ objs' \in [Slot -> Content]
          /\ \A q \in Proc : cur'[q] \in Slot => objs'[cur'[q]] = os[cur'[q]]
      BY <2>1, <2>2, Collection
    <2> QED BY <1>1, <1>3, <2>1, <2>3
  <1>5. ASSUME NEW new \in Content, objs' = Collected([objs EXCEPT ![s] = new], cur', req'),
               \A t \in Slot \ {s} : req'[t] = req[t]
        PROVE  objs' \in [Slot -> Content] /\ objs'[s] = new /\ Alone(s)
    BY <1>3, <1>4, <1>5 DEF Alone, Keeps
  <1>6. CASE disk.state = "whole"
    <2>1. /\ req' = [req EXCEPT ![s] = [req[s] EXCEPT !.step = "body", !.reg = s]]
          /\ objs' = Collected([objs EXCEPT ![s] = disk.data], cur', req')
      BY <1>1, <1>6 DEF Load
    <2>2. LET r == [req[s] EXCEPT !.step = "body", !.reg = s]
          IN  /\ r \in Request /\ r.step = "body" /\ r.reg = s
              /\ r.op = req[s].op /\ r.agent = req[s].agent
      BY <1>1 DEF Request, Step
    <2>3. \A t \in Slot \ {s} : req'[t] = req[t] BY <1>1, <2>1
    <2>4. objs' \in [Slot -> Content] /\ objs'[s] = disk.data /\ Alone(s)
      BY <1>1, <1>5, <2>1, <2>3
    <2> QED BY <1>1, <1>2, <1>3, <1>6, <2>1, <2>2, <2>4
  <1>7. CASE disk.state # "whole"
    <2>1. /\ req' = [req EXCEPT ![s] = [req[s] EXCEPT !.step = "initDir"]]
          /\ objs' = Collected([objs EXCEPT ![s] = Fresh], cur', req')
      BY <1>1, <1>7 DEF Load
    <2>2. LET r == [req[s] EXCEPT !.step = "initDir"]
          IN  /\ r \in Request /\ r.step = "initDir"
              /\ r.op = req[s].op /\ r.agent = req[s].agent
      BY <1>1 DEF Request, Step
    <2>3. \A t \in Slot \ {s} : req'[t] = req[t] BY <1>1, <2>1
    <2>4. objs' \in [Slot -> Content] /\ objs'[s] = Fresh /\ Alone(s)
      BY <1>5, <2>1, <2>3, Values
    <2> QED BY <1>1, <1>2, <1>3, <1>7, <2>1, <2>2, <2>4
  <1> QED BY <1>6, <1>7

(* The check of a start: it goes on, or ends.                                  *)
LEMMA Checking ==
  ASSUME TypeOK, FlightInv, NEW s \in Slot, StartCheck(s)
  PROVE  LET a == req[s].agent
             c == Current(s)
         IN  /\ req[s].step = "body" /\ req[s].op = "start"
             /\ req' \in [Slot -> Request] /\ objs' \in [Slot -> Content] /\ Alone(s)
             /\ objs'[c] = objs[c]
             /\ \/ req'[s] = NoRequest
                \/ /\ req'[s].step = "sandbox" /\ req'[s].op = "start"
                   /\ req'[s].agent = a /\ ~running[ProcOf[s]][a]
                   /\ objs[req[s].reg][a].installed
             /\ UNCHANGED <<disk, cur, view, acked, racy, sandboxVars>>
  <1> DEFINE a == req[s].agent
  <1>1. /\ req \in [Slot -> Request] /\ objs \in [Slot -> Content]
        /\ req[s] \in Request /\ cur \in [Proc -> Slot \cup {NoSlot}]
        /\ ProcOf[s] \in Proc /\ Current(s) = cur[ProcOf[s]]
    BY Types
  <1>2. /\ req[s].step = "body" /\ req[s].op = "start"
        /\ objs' = Collected(objs, cur, req')
        /\ UNCHANGED <<disk, cur, view, acked, racy, sandboxVars>>
    BY DEF StartCheck
  <1>3. Current(s) \in Slot BY <1>2, Types
  <1>4. /\ objs' \in [Slot -> Content] /\ objs'[Current(s)] = objs[Current(s)]
        /\ \A q \in Proc : cur[q] # NoSlot => objs'[cur[q]] = objs[cur[q]]
    BY <1>1, <1>2, <1>3, Collection
  <1>5. ASSUME \A t \in Slot \ {s} : req'[t] = req[t] PROVE Alone(s)
    BY <1>2, <1>4, <1>5 DEF Alone, Keeps
  <1>6. CASE req' = [req EXCEPT ![s] = NoRequest]
    <2>1. \A t \in Slot \ {s} : req'[t] = req[t] BY <1>1, <1>6
    <2> QED BY <1>1, <1>2, <1>4, <1>5, <1>6, <2>1, Values
  <1>7. CASE /\ req' = [req EXCEPT ![s].step = "sandbox", ![s].reg = NoSlot]
             /\ objs[req[s].reg][a].installed /\ ~running[ProcOf[s]][a]
    <2>1. req' = [req EXCEPT ![s] = [req[s] EXCEPT !.step = "sandbox", !.reg = NoSlot]]
      BY <1>1, <1>7
    <2>2. LET r == [req[s] EXCEPT !.step = "sandbox", !.reg = NoSlot]
          IN  /\ r \in Request /\ r.step = "sandbox"
              /\ r.op = req[s].op /\ r.agent = a
      BY <1>1 DEF Request, Step
    <2>3. \A t \in Slot \ {s} : req'[t] = req[t] BY <1>1, <2>1
    <2>4. Alone(s) BY <1>5, <2>3
    <2> QED BY <1>1, <1>2, <1>4, <1>7, <2>1, <2>2, <2>4
  <1> QED BY <1>6, <1>7 DEF StartCheck

(* The end of a process: what it had in memory goes.                           *)
LEMMA Ending ==
  ASSUME TypeOK, FlightInv, NEW p \in Proc, RegistryRestart(p)
  PROVE  /\ req' \in [Slot -> Request] /\ objs' \in [Slot -> Content]
         /\ cur' \in [Proc -> Slot \cup {NoSlot}] /\ cur'[p] = NoSlot
         /\ view' \in [Proc -> Content] /\ view'[p] = Fresh
         /\ \A q \in Proc \ {p} : Keeps(q)
         /\ \A s \in Slot : req'[s] = IF ProcOf[s] = p THEN NoRequest ELSE req[s]
         /\ acked' \in Content
         /\ acked' = IF \E s \in Slot : ProcOf[s] = p /\ req[s].step \in {"initWrite", "write"}
                       THEN Fresh ELSE acked
         /\ UNCHANGED <<disk, racy>>
  <1>1. /\ req \in [Slot -> Request] /\ objs \in [Slot -> Content]
        /\ cur \in [Proc -> Slot \cup {NoSlot}] /\ view \in [Proc -> Content]
        /\ acked \in Content
    BY DEF TypeOK, RegistryTypeOK
  <1>2. /\ cur' = [cur EXCEPT ![p] = NoSlot]
        /\ req' = [s \in Slot |-> IF ProcOf[s] = p THEN NoRequest ELSE req[s]]
        /\ objs' = Collected(objs, cur', req')
        /\ view' = [view EXCEPT ![p] = Fresh]
        /\ acked' = IF \E s \in Slot : ProcOf[s] = p /\ req[s].step \in {"initWrite", "write"}
                      THEN Fresh ELSE acked
        /\ UNCHANGED <<disk, racy>>
    BY DEF RegistryRestart
  <1>3. /\ cur' \in [Proc -> Slot \cup {NoSlot}] /\ cur'[p] = NoSlot
        /\ view' \in [Proc -> Content] /\ view'[p] = Fresh
        /\ \A q \in Proc \ {p} : cur'[q] = cur[q] /\ view'[q] = view[q]
    BY <1>1, <1>2, Values
  <1>4. /\ objs' \in [Slot -> Content]
        /\ \A q \in Proc : cur'[q] \in Slot => objs'[cur'[q]] = objs[cur'[q]]
    <2>1. objs' = Collected(objs, cur', req') BY <1>2
    <2> QED BY <1>1, <2>1, Collection
  <1>5. \A q \in Proc \ {p} : Keeps(q) BY <1>1, <1>3, <1>4 DEF Keeps
  <1>6. req' \in [Slot -> Request] /\ acked' \in Content BY <1>1, <1>2, Values
  <1> QED BY <1>2, <1>3, <1>4, <1>5, <1>6

-----------------------------------------------------------------------------
(* Types.                                                                      *)

(* The requests that begin.                                                    *)
LEMMA TypeArrival ==
  ASSUME TypeOK, FlightInv, NEW s \in Slot, NEW a \in Agent,
         NEW op \in RegistryOp \cup {"start", "stop", "stopAll"},
         NEW others \in {req, Overtaken(ProcOf[s], a)},
         Begin(s, op, a, others)
  PROVE  RegistryTypeOK' /\ FlightInv'
  <1>1. RegistryTypeOK'
    <2>1. /\ req' \in [Slot -> Request] /\ racy' \in BOOLEAN
          /\ view' \in [Proc -> Content] /\ acked' \in Content
          /\ UNCHANGED <<disk, cur, objs>>
      BY Arrival
    <2> QED BY <2>1 DEF TypeOK, RegistryTypeOK
  <1>2. ASSUME NEW t \in Slot
        PROVE  /\ req'[t].step = "idle" => req'[t] = NoRequest
               /\ req'[t].step # "idle" => req'[t].agent \in Agent
               /\ req'[t].step \notin {"idle", "load"} => Current(t)' # NoSlot
               /\ req'[t].step = "body" => req'[t].reg # NoSlot
    <2>1. Current(t)' = Current(t) BY Arrival DEF Current
    <2>2. CASE t = s BY <2>1, <2>2, Arrival
    <2>3. CASE t # s BY <2>1, <2>3, Arrival DEF FlightInv
    <2> QED BY <2>2, <2>3
  <1>3. cur' = cur BY Arrival
  <1> QED BY <1>1, <1>2, <1>3 DEF FlightInv

(* The requests that end.                                                      *)
LEMMA TypeEnd ==
  ASSUME TypeOK, FlightInv, NEW s \in Slot,
         req' = [req EXCEPT ![s] = NoRequest],
         UNCHANGED <<disk, cur, objs, view, acked, racy>>
  PROVE  /\ RegistryTypeOK' /\ FlightInv'
         /\ req'[s] = NoRequest /\ Alone(s)
         /\ \A t \in Slot \ {s} : req'[t] = req[t]
  <1>1. req' \in [Slot -> Request] /\ req'[s] = NoRequest /\ \A t \in Slot \ {s} : req'[t] = req[t]
    BY Values DEF TypeOK, RegistryTypeOK
  <1>2. Alone(s) BY <1>1 DEF Alone, Keeps
  <1>3. RegistryTypeOK' BY <1>1 DEF TypeOK, RegistryTypeOK
  <1>4. FlightInv' BY <1>1, Values DEF FlightInv, Current
  <1> QED BY <1>1, <1>2, <1>3, <1>4

(* A request that goes on, with everything else as the lemmas above say.       *)
LEMMA TypeGoesOn ==
  ASSUME TypeOK, FlightInv, NEW s \in Slot, Alone(s), req[s].step # "idle",
         \/ req'[s] = NoRequest
         \/ /\ req'[s].agent = req[s].agent
            /\ req'[s].step \notin {"idle", "load"}
            /\ req'[s].step = "body" => req'[s].reg \in Slot,
         cur'[ProcOf[s]] \in Slot,
         cur'[ProcOf[s]] \in {s, cur[ProcOf[s]]}
  PROVE  FlightInv'
  <1>1. \A t \in Slot : Current(t)' = cur'[ProcOf[t]] /\ ProcOf[t] \in Proc
    BY ProcAssumption DEF Current
  <1>2. ASSUME NEW q \in Proc, cur'[q] # NoSlot PROVE ProcOf[cur'[q]] = q
    <2>1. CASE q = ProcOf[s] BY <1>2, <2>1, Values DEF FlightInv
    <2>2. CASE q # ProcOf[s] BY <1>2, <2>2 DEF FlightInv, Alone, Keeps
    <2> QED BY <2>1, <2>2
  <1>3. ASSUME NEW t \in Slot
        PROVE  /\ req'[t].step = "idle" => req'[t] = NoRequest
               /\ req'[t].step # "idle" => req'[t].agent \in Agent
               /\ req'[t].step \notin {"idle", "load"} => Current(t)' # NoSlot
               /\ req'[t].step = "body" => req'[t].reg # NoSlot
    <2>1. CASE t = s BY <1>1, <2>1, Values DEF FlightInv
    <2>2. CASE t # s
      <3>1. req'[t] = req[t] BY <2>2 DEF Alone
      <3>2. ProcOf[t] # ProcOf[s] => cur'[ProcOf[t]] = cur[ProcOf[t]]
        BY <1>1 DEF Alone, Keeps
      <3>3. Current(t) # NoSlot => Current(t)' # NoSlot
        BY <1>1, <3>2, Values DEF Current
      <3> QED BY <3>1, <3>3 DEF FlightInv
    <2> QED BY <2>1, <2>2
  <1> QED BY <1>2, <1>3 DEF FlightInv

(* Every action keeps the types and what requests know where they wait.        *)
LEMMA TypeStep ==
  ASSUME SandboxInv, [Next]_vars
  PROVE  TypeOK' /\ FlightInv'
  <1>i. TypeOK /\ FlightInv /\ MonitorInv BY DEF SandboxInv
  <1>t. /\ running \in [Proc -> [Agent -> BOOLEAN]]
        /\ monitors \in [Proc -> [Agent -> 0 .. MaxMonitors]] /\ MaxMonitors \in Nat
        /\ phase \in [Proc -> {"up", "stopping", "closing"}]
        /\ found \in [Proc -> SUBSET Agent] /\ unclean \in BOOLEAN
        /\ \A s \in Slot : ProcOf[s] \in Proc
    BY <1>i, MaxMonitorsAssumption, ProcAssumption DEF TypeOK
  <1>n. MaxMonitors > 0 /\ 0 \in 0 .. MaxMonitors BY MaxMonitorsAssumption
  <1>s. ASSUME RegistryTypeOK', UNCHANGED sandboxVars PROVE TypeOK'
    BY <1>t, <1>s DEF TypeOK, sandboxVars
  <1>1. ASSUME NEW s \in Slot, NEW a \in Agent, NEW op \in RegistryOp, RegistryCall(s, op, a)
        PROVE  TypeOK' /\ FlightInv'
    BY <1>1, <1>i, <1>s, TypeArrival DEF RegistryCall
  <1>2. ASSUME NEW s \in Slot, NEW a \in Agent, StartCall(s, a)
        PROVE  TypeOK' /\ FlightInv'
    BY <1>2, <1>i, <1>s, TypeArrival DEF StartCall
  <1>3. ASSUME NEW s \in Slot, NEW a \in Agent, NEW op \in {"stop", "stopAll"},
               StopCall(s, op, a)
        PROVE  TypeOK' /\ FlightInv'
    <2> DEFINE p == ProcOf[s]
    <2>1. RegistryTypeOK' /\ FlightInv' BY <1>3, <1>i, TypeArrival DEF StopCall
    <2>2. running[p][a] => monitors[p][a] > 0 BY <1>i, <1>t DEF MonitorInv
    <2>3. /\ running' = [running EXCEPT ![p][a] = FALSE]
          /\ monitors' = [monitors EXCEPT ![p][a] = IF running[p][a] THEN @ - 1 ELSE @]
          /\ UNCHANGED <<phase, found, unclean>>
      BY <1>3 DEF StopCall
    <2>4. p \in Proc BY <1>t
    <2> HIDE DEF p
    <2>5. /\ running' \in [Proc -> [Agent -> BOOLEAN]]
          /\ monitors' \in [Proc -> [Agent -> 0 .. MaxMonitors]]
      BY <1>t, <2>2, <2>3, <2>4
    <2> QED BY <1>t, <2>1, <2>3, <2>5 DEF TypeOK
  <1>r. ASSUME NEW s \in Slot, RegistryStep(s), RegistryTypeOK', Registry(s) PROVE TypeOK'
    <2>1. /\ found' \in [Proc -> SUBSET Agent] /\ unclean' \in BOOLEAN
          /\ UNCHANGED <<running, monitors, phase>>
      <3>1. ProcOf[s] \in Proc BY <1>t
      <3>2. {a \in Agent : objs'[s][a].status = "running"} \in SUBSET Agent OBVIOUS
      <3>3. found[ProcOf[s]] \ {req[s].agent} \in SUBSET Agent BY <1>t, <3>1
      <3>4. /\ found' = CASE racy -> found
                          [] req[s].step = "load" ->
                               [found EXCEPT ![ProcOf[s]] =
                                  {a \in Agent : objs'[s][a].status = "running"}]
                          [] req[s].step = "dir" ->
                               [found EXCEPT ![ProcOf[s]] = @ \ {req[s].agent}]
                          [] OTHER -> found
            /\ unclean' = (unclean \/ (req[s].step = "dir" /\ view[ProcOf[s]] # acked))
            /\ UNCHANGED <<running, monitors, phase>>
        BY <1>r DEF Registry
      <3>5. CASE racy BY <1>t, <3>4, <3>5
      <3>6. CASE ~racy /\ req[s].step = "load" BY <1>t, <3>1, <3>2, <3>4, <3>6
      <3>7. CASE ~racy /\ req[s].step = "dir" BY <1>t, <3>1, <3>3, <3>4, <3>7
      <3>8. CASE ~racy /\ req[s].step \notin {"load", "dir"} BY <1>t, <3>4, <3>8
      <3> QED BY <3>5, <3>6, <3>7, <3>8
    <2> QED BY <1>t, <1>r, <2>1 DEF TypeOK
  <1>m. ASSUME NEW s \in Slot, NEW obj \in Slot, req[s].step \in {"body", "sandbox"},
               MutateIn(s, obj)
        PROVE  RegistryTypeOK' /\ FlightInv'
    <2>1. req[s].step \notin {"idle", "load"} BY <1>m
    <2>2. /\ req' \in [Slot -> Request] /\ objs' \in [Slot -> Content]
          /\ \A t \in Slot \ {s} : req'[t] = req[t]
          /\ UNCHANGED <<disk, cur, view, acked, racy>>
          /\ \/ req'[s] = NoRequest
             \/ req'[s].step = "dir" /\ req'[s].agent = req[s].agent
      BY <1>m, <1>i, <2>1, Mutation
    <2>3. RegistryTypeOK' BY <1>i, <2>2 DEF TypeOK, RegistryTypeOK
    <2>4. FlightInv' BY <1>i, <2>1, <2>2, Values DEF FlightInv, Current
    <2> QED BY <2>3, <2>4
  <1>4. ASSUME NEW s \in Slot, RegistryStep(s) PROVE RegistryTypeOK' /\ FlightInv'
    <2>1. CASE Load(s)
      <3>1. RegistryTypeOK' BY <1>i, <2>1, Loading DEF TypeOK, RegistryTypeOK
      <3>2. FlightInv' BY <1>i, <2>1, Loading, TypeGoesOn, Values
      <3> QED BY <3>1, <3>2
    <2>2. CASE OpenFile(s)
      <3>1. RegistryTypeOK'
        <4>1. /\ req' \in [Slot -> Request] /\ view' \in [Proc -> Content]
              /\ disk' = [state |-> "empty", data |-> Fresh]
              /\ UNCHANGED <<cur, objs, acked, racy>>
          BY <1>i, <2>2, Opening
        <4>2. disk' \in [state : {"missing", "empty", "mixed", "whole"}, data : Content]
          BY <4>1, Values
        <4> QED BY <1>i, <4>1, <4>2 DEF TypeOK, RegistryTypeOK
      <3>2. /\ req[s].step \in {"initDir", "dir"} /\ cur' = cur /\ Alone(s)
            /\ req'[s].step \in {"initWrite", "write"} /\ req'[s].agent = req[s].agent
        BY <1>i, <2>2, Opening
      <3>3. cur'[ProcOf[s]] = cur[ProcOf[s]] /\ cur[ProcOf[s]] \in Slot
        BY <1>i, <3>2, Types
      <3>4. FlightInv' BY <1>i, <3>2, <3>3, TypeGoesOn
      <3> QED BY <3>1, <3>4
    <2>3. CASE InitWritten(s) \/ Written(s)
      <3>1. RegistryTypeOK' BY <1>i, <2>3, Saving DEF TypeOK, RegistryTypeOK
      <3>2. /\ req[s].step \in {"initWrite", "write"} /\ cur' = cur /\ Alone(s)
            /\ req'[s].step \in {"body", "return"} /\ req'[s].agent = req[s].agent
            /\ req'[s].step = "body" => req'[s].reg = Current(s)
        BY <1>i, <2>3, Saving
      <3>3. /\ cur'[ProcOf[s]] = cur[ProcOf[s]] /\ cur[ProcOf[s]] \in Slot
            /\ Current(s) \in Slot
        BY <1>i, <3>2, Types
      <3>4. FlightInv' BY <1>i, <3>2, <3>3, TypeGoesOn
      <3> QED BY <3>1, <3>4
    <2>4. CASE Mutate(s)
      <3>1. req[s].step = "body" /\ req[s].reg \in Slot /\ MutateIn(s, req[s].reg)
        BY <1>i, <2>4, Types DEF Mutate
      <3> QED BY <1>m, <3>1
    <2>5. CASE Return(s) BY <1>i, <2>5, TypeEnd DEF Return
    <2> QED BY <1>4, <2>1, <2>2, <2>3, <2>4, <2>5 DEF RegistryStep
  <1>5. ASSUME NEW s \in Slot, Registry(s) PROVE TypeOK' /\ FlightInv'
    BY <1>4, <1>5, <1>r DEF Registry
  <1>6. ASSUME NEW s \in Slot, StartCheck(s) PROVE TypeOK' /\ FlightInv'
    <2>1. RegistryTypeOK' BY <1>i, <1>6, Checking DEF TypeOK, RegistryTypeOK
    <2>2. /\ req[s].step = "body" /\ cur' = cur /\ Alone(s) /\ UNCHANGED sandboxVars
          /\ \/ req'[s] = NoRequest
             \/ req'[s].step = "sandbox" /\ req'[s].agent = req[s].agent
      BY <1>i, <1>6, Checking
    <2>3. cur'[ProcOf[s]] = cur[ProcOf[s]] /\ cur[ProcOf[s]] \in Slot BY <1>i, <2>2, Types
    <2>4. FlightInv' BY <1>i, <2>2, <2>3, TypeGoesOn
    <2> QED BY <1>s, <2>1, <2>2, <2>4
  <1>7. ASSUME NEW s \in Slot, StartMark(s) PROVE TypeOK' /\ FlightInv'
    <2>1. req[s].step = "sandbox" /\ MutateIn(s, Current(s)) /\ UNCHANGED sandboxVars
      BY <1>7 DEF StartMark
    <2>2. Current(s) \in Slot BY <1>i, <2>1, Types
    <2> QED BY <1>m, <1>s, <2>1, <2>2
  <1>8. ASSUME NEW s \in Slot, Started(s) PROVE TypeOK' /\ FlightInv'
    <2> DEFINE a == req[s].agent
               p == ProcOf[s]
    <2>1. /\ monitors[p][a] < MaxMonitors
          /\ running' = [running EXCEPT ![p][a] = TRUE]
          /\ monitors' = [monitors EXCEPT ![p][a] = @ + 1]
          /\ req' = [req EXCEPT ![s] = NoRequest] /\ req[s].step = "return"
          /\ UNCHANGED <<disk, cur, objs, view, acked, racy>>
          /\ UNCHANGED <<phase, found, unclean>>
      BY <1>8 DEF Started
    <2>2. RegistryTypeOK' /\ FlightInv' BY <1>i, <2>1, TypeEnd
    <2>3. a \in Agent /\ p \in Proc BY <1>i, <2>1, Types
    <2> HIDE DEF a, p
    <2>4. /\ running' \in [Proc -> [Agent -> BOOLEAN]]
          /\ monitors' \in [Proc -> [Agent -> 0 .. MaxMonitors]]
      BY <1>t, <2>1, <2>3
    <2> QED BY <1>t, <2>1, <2>2, <2>4 DEF TypeOK
  <1>9. ASSUME NEW s \in Slot, StopMark(s) PROVE TypeOK' /\ FlightInv'
    <2>1. /\ req[s].step = "body" /\ MutateIn(s, req[s].reg)
          /\ phase' \in {phase, [phase EXCEPT ![ProcOf[s]] = "closing"]}
          /\ unclean' = (unclean \/ phase' # phase)
          /\ UNCHANGED <<running, monitors, found>>
      BY <1>9 DEF StopMark
    <2>2. req[s].reg \in Slot BY <1>i, <2>1, Types
    <2>3. RegistryTypeOK' /\ FlightInv' BY <1>m, <2>1, <2>2
    <2>4. phase' \in [Proc -> {"up", "stopping", "closing"}] BY <1>t, <2>1
    <2> QED BY <1>t, <2>1, <2>3, <2>4 DEF TypeOK
  <1>10. ASSUME NEW s \in Slot, Stopped(s) PROVE TypeOK' /\ FlightInv'
    BY <1>i, <1>s, <1>10, TypeEnd DEF Stopped
  <1>u. ASSUME UNCHANGED registryVars PROVE RegistryTypeOK' /\ FlightInv'
    BY <1>i, <1>u DEF registryVars, TypeOK, RegistryTypeOK, FlightInv, Current
  <1>11. ASSUME NEW p \in Proc, NEW a \in Agent, MonitorFires(p, a) PROVE TypeOK' /\ FlightInv'
    <2>1. /\ monitors[p][a] > 0 /\ monitors' = [monitors EXCEPT ![p][a] = @ - 1]
          /\ UNCHANGED registryVars /\ UNCHANGED <<running, phase, found, unclean>>
      BY <1>11 DEF MonitorFires
    <2>2. monitors' \in [Proc -> [Agent -> 0 .. MaxMonitors]] BY <1>t, <2>1
    <2> QED BY <1>t, <1>u, <2>1, <2>2 DEF TypeOK
  <1>12. ASSUME NEW p \in Proc, Signal(p) \/ ShutdownStopped(p) PROVE TypeOK' /\ FlightInv'
    <2>1. /\ \E new \in {"stopping", "closing"} : phase' = [phase EXCEPT ![p] = new]
          /\ unclean' \in BOOLEAN
          /\ UNCHANGED registryVars /\ UNCHANGED <<running, monitors, found>>
      BY <1>t, <1>12 DEF Signal, ShutdownStopped, Close
    <2>2. phase' \in [Proc -> {"up", "stopping", "closing"}] BY <1>t, <2>1
    <2> QED BY <1>t, <1>u, <2>1, <2>2 DEF TypeOK
  <1>13. ASSUME NEW p \in Proc, Restart(p) PROVE TypeOK' /\ FlightInv'
    <2>1. RegistryRestart(p) BY <1>13 DEF Restart
    <2>2. RegistryTypeOK' BY <1>i, <2>1, Ending DEF TypeOK, RegistryTypeOK
    <2>3. FlightInv'
      <3>1. /\ cur'[p] = NoSlot /\ \A q \in Proc \ {p} : cur'[q] = cur[q]
            /\ \A s \in Slot : req'[s] = IF ProcOf[s] = p THEN NoRequest ELSE req[s]
        BY <1>i, <2>1, Ending DEF Keeps
      <3>2. \A q \in Proc : cur'[q] # NoSlot => ProcOf[cur'[q]] = q
        BY <1>i, <3>1 DEF FlightInv
      <3>3. ASSUME NEW s \in Slot, ProcOf[s] # p
            PROVE  req'[s] = req[s] /\ Current(s)' = Current(s)
        BY <1>t, <3>1, <3>3 DEF Current
      <3>4. ASSUME NEW s \in Slot, ProcOf[s] = p PROVE req'[s] = NoRequest
        BY <3>1, <3>4
      <3> QED BY <1>i, <3>2, <3>3, <3>4, Values DEF FlightInv
    <2>4. /\ running' \in [Proc -> [Agent -> BOOLEAN]]
          /\ monitors' \in [Proc -> [Agent -> 0 .. MaxMonitors]]
          /\ phase' \in [Proc -> {"up", "stopping", "closing"}]
          /\ found' \in [Proc -> SUBSET Agent] /\ unclean' \in BOOLEAN
      BY <1>t, <1>n, <1>13 DEF Restart
    <2> QED BY <2>2, <2>3, <2>4 DEF TypeOK
  <1>14. CASE UNCHANGED vars
    BY <1>s, <1>u, <1>14 DEF vars
  <1> QED
    BY <1>1, <1>2, <1>3, <1>5, <1>6, <1>7, <1>8, <1>9, <1>10, <1>11, <1>12, <1>13, <1>14
       DEF Next, ShutdownStops

-----------------------------------------------------------------------------
(* One request at a time, and its monitors.                                    *)

\* A step that request s takes once it has begun.
Goes(s) ==
  RegistryStep(s) \/ StartCheck(s) \/ StartMark(s) \/ Started(s) \/ StopMark(s) \/ Stopped(s)

(* Such a step is no race, and a start passes its check at StartCheck only.    *)
LEMMA Going ==
  ASSUME TypeOK, FlightInv, NEW s \in Slot, Goes(s)
  PROVE  /\ racy' = racy /\ req[s].step # "idle" /\ req[s].agent \in Agent
         /\ \A t \in Slot \ {s} : req'[t] = req[t]
         /\ Past(s)' => /\ req'[s].agent = req[s].agent
                        /\ Past(s) \/ ~running[ProcOf[s]][req[s].agent]
  <1>1. CASE Load(s) BY <1>1, Loading, Types DEF Past, Alone
  <1>2. CASE OpenFile(s) BY <1>2, Opening, Types DEF Past, Alone
  <1>3. CASE InitWritten(s) \/ Written(s) BY <1>3, Saving, Types DEF Past, Alone
  <1>4. CASE Mutate(s) \/ StartMark(s) \/ StopMark(s)
    <2>1. PICK obj \in Slot :
            /\ MutateIn(s, obj) /\ req[s].step \in {"body", "sandbox"}
            /\ req[s].op = "start" => req[s].step = "sandbox"
      BY <1>4, Types DEF Mutate, StartMark, StopMark, RegistryOp
    <2>2. req[s].step \notin {"idle", "load"} /\ req[s].agent \in Agent BY <2>1, Types
    <2>3. /\ racy' = racy /\ \A t \in Slot \ {s} : req'[t] = req[t]
          /\ \/ req'[s] = NoRequest
             \/ req'[s].op = req[s].op /\ req'[s].agent = req[s].agent
      BY <2>1, <2>2, Mutation
    <2> QED BY <2>1, <2>2, <2>3, Values DEF Past
  <1>5. CASE Return(s) \/ Started(s) \/ Stopped(s)
    <2>1. /\ req[s].step = "return" /\ req' = [req EXCEPT ![s] = NoRequest]
          /\ UNCHANGED <<disk, cur, objs, view, acked, racy>>
      BY <1>5 DEF Return, Started, Stopped
    <2>2. req'[s] = NoRequest /\ \A t \in Slot \ {s} : req'[t] = req[t] BY <2>1, TypeEnd
    <2> QED BY <2>1, <2>2, Types, Values DEF Past
  <1>6. CASE StartCheck(s) BY <1>6, Checking, Types, Values DEF Past, Alone
  <1> QED BY <1>1, <1>2, <1>3, <1>4, <1>5, <1>6 DEF Goes, RegistryStep

(* A request that begins beside another ends the absence of races.             *)
LEMMA SingleStep ==
  ASSUME SandboxInv, [Next]_vars
  PROVE  SingleInv'
  <1>i. TypeOK /\ FlightInv /\ SingleInv BY DEF SandboxInv
  <1>1. ASSUME NEW s \in Slot, NEW a \in Agent,
               NEW op \in RegistryOp \cup {"start", "stop", "stopAll"},
               NEW others \in {req, Overtaken(ProcOf[s], a)}, Begin(s, op, a, others)
        PROVE  SingleInv'
    BY <1>1, <1>i, Arrival DEF SingleInv
  <1>2. ASSUME racy' = racy,
               \A t \in Slot : req'[t].step # "idle" => req[t].step # "idle"
        PROVE  SingleInv'
    BY <1>2, <1>i DEF SingleInv
  <1>3. ASSUME NEW s \in Slot, Goes(s) PROVE SingleInv'
    BY <1>2, <1>3, <1>i, Going
  <1>4. ASSUME UNCHANGED registryVars PROVE SingleInv'
    BY <1>2, <1>4 DEF registryVars
  <1>5. ASSUME NEW p \in Proc, Restart(p) PROVE SingleInv'
    BY <1>2, <1>5, <1>i, Ending, Values DEF Restart
  <1> QED
    BY <1>1, <1>3, <1>4, <1>5
       DEF Next, RegistryCall, StartCall, StopCall, ShutdownStops, Registry, Goes,
           MonitorFires, Signal, ShutdownStopped, Close, vars

(* Every action keeps the monitors in step with the map.                       *)
LEMMA MonitorStep ==
  ASSUME SandboxInv, [Next]_vars
  PROVE  MonitorInv'
  <1>i. TypeOK /\ FlightInv /\ SingleInv /\ MonitorInv BY DEF SandboxInv
  <1>t. /\ running \in [Proc -> [Agent -> BOOLEAN]]
        /\ monitors \in [Proc -> [Agent -> 0 .. MaxMonitors]] /\ MaxMonitors \in Nat
        /\ \A s \in Slot : ProcOf[s] \in Proc
    BY <1>i, MaxMonitorsAssumption, ProcAssumption DEF TypeOK
  \* The map and the intervals stay.
  <1>1. ASSUME NEW s \in Slot, Goes(s), UNCHANGED <<running, monitors>>
        PROVE  MonitorInv'
    <2>1. /\ racy' = racy /\ \A t \in Slot \ {s} : req'[t] = req[t]
          /\ Past(s)' => /\ req'[s].agent = req[s].agent
                         /\ Past(s) \/ ~running[ProcOf[s]][req[s].agent]
      BY <1>1, <1>i, Going
    <2>2. ASSUME ~racy, NEW t \in Slot, Past(t)' PROVE ~running'[ProcOf[t]][req'[t].agent]
      <3>1. CASE t = s BY <1>1, <1>i, <2>1, <2>2, <3>1 DEF MonitorInv
      <3>2. CASE t # s BY <1>1, <1>i, <2>1, <2>2, <3>2 DEF MonitorInv, Past
      <3> QED BY <3>1, <3>2
    <2> QED BY <1>1, <1>i, <2>1, <2>2 DEF MonitorInv
  <1>2. ASSUME NEW s \in Slot, NEW a \in Agent,
               NEW op \in RegistryOp \cup {"start", "stop", "stopAll"},
               NEW others \in {req, Overtaken(ProcOf[s], a)}, Begin(s, op, a, others),
               \/ UNCHANGED <<running, monitors>>
               \/ /\ running' = [running EXCEPT ![ProcOf[s]][a] = FALSE]
                  /\ monitors' = [monitors EXCEPT ![ProcOf[s]][a] =
                                    IF running[ProcOf[s]][a] THEN @ - 1 ELSE @]
        PROVE  MonitorInv'
    <2> DEFINE p == ProcOf[s]
    <2>1. ~racy' => ~racy /\ \A t \in Slot : ~Past(t)'
      <3>1. ASSUME ~racy' PROVE ~racy /\ \A t \in Slot : req'[t].step \in {"load", "body", "idle"}
        BY <1>2, <1>i, <3>1, Arrival
      <3> QED BY <3>1 DEF Past
    <2>2. CASE UNCHANGED <<running, monitors>> BY <1>i, <2>1, <2>2 DEF MonitorInv
    <2>3. CASE /\ running' = [running EXCEPT ![p][a] = FALSE]
               /\ monitors' = [monitors EXCEPT ![p][a] = IF running[p][a] THEN @ - 1 ELSE @]
      <3>1. p \in Proc BY <1>t
      <3> HIDE DEF p
      <3>2. /\ ~running'[p][a]
            /\ monitors'[p][a] = IF running[p][a] THEN monitors[p][a] - 1 ELSE monitors[p][a]
            /\ \A q \in Proc, b \in Agent : <<q, b>> # <<p, a>> =>
                 running'[q][b] = running[q][b] /\ monitors'[q][b] = monitors[q][b]
        BY <1>t, <2>3, <3>1
      <3>3. ~racy => monitors[p][a] = IF running[p][a] THEN 1 ELSE 0
        BY <1>i, <3>1 DEF MonitorInv
      <3>4. \A q \in Proc, b \in Agent : running'[q][b] => monitors'[q][b] > 0
        BY <1>i, <3>2 DEF MonitorInv
      <3>5. ~racy => \A q \in Proc, b \in Agent :
                       monitors'[q][b] = IF running'[q][b] THEN 1 ELSE 0
        BY <1>i, <1>t, <3>2, <3>3 DEF MonitorInv
      <3> QED BY <2>1, <3>4, <3>5 DEF MonitorInv
    <2> QED BY <1>2, <2>2, <2>3
  <1>3. ASSUME NEW s \in Slot, Started(s) PROVE MonitorInv'
    <2> DEFINE a == req[s].agent
               p == ProcOf[s]
    <2>1. /\ a \in Agent /\ p \in Proc /\ req[s].step = "return" /\ req[s].op = "start"
          /\ racy' = racy
          /\ running' = [running EXCEPT ![p][a] = TRUE]
          /\ monitors' = [monitors EXCEPT ![p][a] = @ + 1]
          /\ req' = [req EXCEPT ![s] = NoRequest]
      BY <1>3, <1>i, Types DEF Started
    <2>2. /\ ~racy => ~running[p][a] /\ \A t \in Slot \ {s} : req[t].step = "idle"
          /\ req'[s] = NoRequest /\ \A t \in Slot \ {s} : req'[t] = req[t]
      BY <1>i, <2>1, Types DEF MonitorInv, Past, SingleInv
    <2>3. ~racy => \A t \in Slot : ~Past(t)' BY <2>1, <2>2, Values DEF Past
    <2> HIDE DEF a, p
    <2>4. /\ running'[p][a] /\ monitors'[p][a] = monitors[p][a] + 1
          /\ \A q \in Proc, b \in Agent : <<q, b>> # <<p, a>> =>
               running'[q][b] = running[q][b] /\ monitors'[q][b] = monitors[q][b]
      BY <1>t, <2>1
    <2>5. monitors[p][a] \in Nat /\ (~racy => monitors[p][a] = 0)
      BY <1>t, <1>i, <2>1, <2>2 DEF MonitorInv
    <2>6. \A q \in Proc, b \in Agent : running'[q][b] => monitors'[q][b] > 0
      BY <1>i, <2>4, <2>5 DEF MonitorInv
    <2>7. ~racy => \A q \in Proc, b \in Agent :
                     monitors'[q][b] = IF running'[q][b] THEN 1 ELSE 0
      BY <1>i, <2>4, <2>5 DEF MonitorInv
    <2> QED BY <2>1, <2>3, <2>6, <2>7 DEF MonitorInv
  <1>4. ASSUME UNCHANGED registryVars, UNCHANGED <<running, monitors>> PROVE MonitorInv'
    BY <1>4, <1>i DEF registryVars, MonitorInv, Past
  <1>5. ASSUME NEW p \in Proc, NEW a \in Agent, MonitorFires(p, a) PROVE MonitorInv'
    <2>1. /\ ~running[p][a] /\ monitors[p][a] > 0
          /\ monitors' = [monitors EXCEPT ![p][a] = @ - 1]
          /\ UNCHANGED <<req, racy, running>>
      BY <1>5 DEF MonitorFires, registryVars
    <2>2. racy /\ \A q \in Proc, b \in Agent : running'[q][b] => monitors'[q][b] > 0
      BY <1>i, <1>t, <2>1 DEF MonitorInv
    <2> QED BY <2>1, <2>2 DEF MonitorInv
  <1>6. ASSUME NEW p \in Proc, Restart(p) PROVE MonitorInv'
    <2>1. /\ running' = [running EXCEPT ![p] = [a \in Agent |-> FALSE]]
          /\ monitors' = [monitors EXCEPT ![p] = [a \in Agent |-> 0]]
          /\ RegistryRestart(p)
      BY <1>6 DEF Restart
    <2>2. /\ \A s \in Slot : req'[s] = IF ProcOf[s] = p THEN NoRequest ELSE req[s]
          /\ racy' = racy
      BY <1>i, <2>1, Ending
    <2>3. \A q \in Proc : /\ q # p => running'[q] = running[q] /\ monitors'[q] = monitors[q]
                          /\ q = p => \A a \in Agent : ~running'[q][a] /\ monitors'[q][a] = 0
      BY <1>t, <2>1
    <2>4. \A s \in Slot : Past(s)' => Past(s) /\ ProcOf[s] # p /\ req'[s] = req[s]
      BY <2>2, Values DEF Past
    <2>5. \A q \in Proc, a \in Agent : running'[q][a] => monitors'[q][a] > 0
      BY <1>i, <2>3 DEF MonitorInv
    <2>6. ~racy => \A q \in Proc, a \in Agent :
                     monitors'[q][a] = IF running'[q][a] THEN 1 ELSE 0
      BY <1>i, <2>3 DEF MonitorInv
    <2>7. ~racy => \A s \in Slot : Past(s)' => ~running'[ProcOf[s]][req'[s].agent]
      BY <1>i, <1>t, <2>3, <2>4 DEF MonitorInv
    <2> QED BY <2>2, <2>5, <2>6, <2>7 DEF MonitorInv
  <1> QED
    <2>1. \A s \in Slot, a \in Agent, op \in RegistryOp : RegistryCall(s, op, a) => MonitorInv'
      BY <1>2 DEF RegistryCall, sandboxVars
    <2>2. \A s \in Slot, a \in Agent, op \in {"stop", "stopAll"} :
             StopCall(s, op, a) => MonitorInv'
      BY <1>2 DEF StopCall
    <2>3. \A s \in Slot, a \in Agent : StartCall(s, a) => MonitorInv'
      BY <1>2 DEF StartCall, sandboxVars
    <2>4. ASSUME NEW s \in Slot,
                 Registry(s) \/ StartCheck(s) \/ StartMark(s) \/ StopMark(s) \/ Stopped(s)
          PROVE  MonitorInv'
      <3>1. UNCHANGED <<running, monitors>> /\ Goes(s)
        BY <2>4 DEF Registry, StartCheck, StartMark, StopMark, Stopped, sandboxVars, Goes
      <3> QED BY <1>1, <3>1
    <2>5. ASSUME \/ UNCHANGED vars
                 \/ \E p \in Proc : Signal(p) \/ ShutdownStopped(p)
          PROVE  MonitorInv'
      BY <1>4, <2>5 DEF vars, sandboxVars, Signal, ShutdownStopped, Close
    <2> QED
      BY <1>3, <1>5, <1>6, <2>1, <2>2, <2>3, <2>4, <2>5 DEF Next, ShutdownStops

-----------------------------------------------------------------------------
(* The file, the objects in use and the history.                               *)

(* What is known of a slot that is suspended while no requests overlap.        *)
LEMMA InFlight ==
  ASSUME SandboxInv, ~racy, NEW s \in Slot, req[s].step # "idle"
  PROVE  /\ FileInv(s)
         /\ req[s].step # "write" => Persisted = acked
         /\ req[s].step # "dir" => Agrees(ProcOf[s])
         /\ \A q \in Proc \ {ProcOf[s]} : Agrees(q)
         /\ \A t \in Slot \ {s} : req[t].step = "idle"
  <1>1. \A t \in Slot \ {s} : req[t].step = "idle" BY DEF SandboxInv, SingleInv
  <1>2. ProcOf[s] \in Proc BY ProcAssumption
  <1>3. DurableInv BY DEF SandboxInv
  <1> QED BY <1>1, <1>2, <1>3 DEF DurableInv

(* With one request in flight, what holds of its slot and of its process holds *)
(* of all of them.                                                             *)
LEMMA DurableGoesOn ==
  ASSUME SandboxInv, ~racy, NEW s \in Slot, req[s].step # "idle",
         racy' = racy, Alone(s),
         FileInv(s)',
         req'[s].step # "write" => Persisted' = acked',
         req'[s].step # "dir" => Agrees(ProcOf[s])'
  PROVE  DurableInv'
  <1>1. \A t \in Slot \ {s} : req'[t].step = "idle" BY InFlight DEF Alone
  <1>2. \A t \in Slot \ {s} : FileInv(t)' BY <1>1 DEF FileInv
  <1>3. \A q \in Proc \ {ProcOf[s]} : Agrees(q)'
    <2>1. \A q \in Proc \ {ProcOf[s]} : Agrees(q) /\ Keeps(q) BY InFlight DEF Alone
    <2> QED BY <2>1 DEF Agrees, Keeps
  <1> QED BY <1>1, <1>2, <1>3 DEF DurableInv

(* A mutation of the one request in flight is made in the object in use, which *)
(* is what its process has read and saved.                                     *)
LEMMA SerialMutation ==
  ASSUME SandboxInv, ~racy, NEW s \in Slot, Mutate(s) \/ StartMark(s) \/ StopMark(s)
  PROVE  LET p == ProcOf[s]
             a == req[s].agent
             op == req[s].op
             c == Current(s)
         IN  /\ req[s].step \in {"body", "sandbox"} /\ (op = "start" => req[s].step = "sandbox")
             /\ a \in Agent /\ p \in Proc /\ c \in Slot /\ Current(s)' = c /\ c = cur[p]
             /\ objs[c] = view[p] /\ view[p] \in Content /\ Alone(s)
             /\ UNCHANGED <<disk, cur, view, acked, racy>>
             /\ \/ /\ req'[s] = NoRequest /\ objs'[c] = objs[c]
                   /\ op \notin {"add", "remove"} => view[p][a].status = "absent"
                \/ /\ req'[s].step = "dir" /\ req'[s].op = op /\ req'[s].agent = a
                   /\ ~Rejects(op, a, view[p][a])
                   /\ objs'[c] = [view[p] EXCEPT ![a] = Effect(op, view[p][a])]
  <1> DEFINE p == ProcOf[s]
             c == Current(s)
  <1>i. TypeOK /\ FlightInv BY DEF SandboxInv
  <1>1. /\ req[s].step \in {"body", "sandbox"}
        /\ req[s].op = "start" => req[s].step = "sandbox"
        /\ req[s].step = "body" => MutateIn(s, req[s].reg)
        /\ req[s].step = "sandbox" => MutateIn(s, c)
    BY DEF Mutate, StartMark, StopMark, RegistryOp
  <1>2. /\ req[s].agent \in Agent /\ p \in Proc /\ c \in Slot /\ c = cur[p]
        /\ view[p] \in Content
        /\ req[s].step \notin {"idle", "load"} /\ req[s].step # "dir"
    BY <1>1, <1>i, Types
  <1>3. FileInv(s) /\ Agrees(p) BY <1>2, InFlight
  <1>4. objs[c] = view[p] BY <1>2, <1>3, Values DEF Agrees
  <1>5. MutateIn(s, c) BY <1>1, <1>2, <1>3 DEF FileInv
  <1>6. Current(s)' = c BY <1>5 DEF MutateIn, Current
  <1>7. /\ Alone(s) /\ UNCHANGED <<disk, cur, view, acked, racy>>
        /\ \/ /\ req'[s] = NoRequest /\ objs'[c] = objs[c]
              /\ req[s].op \notin {"add", "remove"} => objs[c][req[s].agent].status = "absent"
           \/ /\ req'[s].step = "dir" /\ req'[s].op = req[s].op
              /\ req'[s].agent = req[s].agent
              /\ ~Rejects(req[s].op, req[s].agent, objs[c][req[s].agent])
              /\ objs'[c] = [objs[c] EXCEPT ![req[s].agent] =
                               Effect(req[s].op, objs[c][req[s].agent])]
    BY <1>2, <1>5, <1>i, Mutation
  <1> HIDE DEF p, c
  <1>8. \/ /\ req'[s] = NoRequest /\ objs'[c] = objs[c]
           /\ req[s].op \notin {"add", "remove"} => view[p][req[s].agent].status = "absent"
        \/ /\ req'[s].step = "dir" /\ req'[s].op = req[s].op
           /\ req'[s].agent = req[s].agent
           /\ ~Rejects(req[s].op, req[s].agent, view[p][req[s].agent])
           /\ objs'[c] = [view[p] EXCEPT ![req[s].agent] =
                            Effect(req[s].op, view[p][req[s].agent])]
    BY <1>4, <1>7
  <1> QED BY <1>1, <1>2, <1>4, <1>6, <1>7, <1>8 DEF p, c

(* Every action of a request alone keeps file, objects and history agreed.     *)
LEMMA DurableStep ==
  ASSUME SandboxInv, [Next]_vars
  PROVE  DurableInv'
  <1>i. TypeOK /\ FlightInv /\ DurableInv BY DEF SandboxInv
  <1>p. \A s \in Slot : ProcOf[s] \in Proc BY ProcAssumption
  <1>1. ASSUME NEW s \in Slot, NEW a \in Agent,
               NEW op \in RegistryOp \cup {"start", "stop", "stopAll"},
               NEW others \in {req, Overtaken(ProcOf[s], a)}, Begin(s, op, a, others)
        PROVE  DurableInv'
    <2> SUFFICES ASSUME ~racy' PROVE DurableInv' BY DEF DurableInv
    <2>1. /\ ~racy /\ acked' = acked /\ view' = view /\ UNCHANGED <<disk, cur, objs>>
          /\ \A t \in Slot : req[t].step = "idle"
      BY <1>1, <1>i, Arrival
    <2>2. Persisted = acked /\ \A p \in Proc : Agrees(p) BY <1>i, <2>1 DEF DurableInv
    <2>3. /\ \A t \in Slot \ {s} : req'[t].step = "idle"
          /\ req'[s].step \in {"load", "body"} /\ req'[s].reg = cur[ProcOf[s]]
      <3>1. Current(s) = cur[ProcOf[s]] BY <1>i, Types
      <3>2. /\ req'[s].step \in {"load", "body"} /\ req'[s].reg = Current(s)
            /\ \A t \in Slot \ {s} : req'[t].step = req[t].step
        BY <1>1, <1>i, Arrival
      <3> QED BY <2>1, <3>1, <3>2
    <2>4. \A t \in Slot : FileInv(t)' BY <2>1, <2>3 DEF FileInv
    <2>5. \A p \in Proc : Agrees(p)' BY <2>1, <2>2 DEF Agrees
    <2> QED BY <2>1, <2>2, <2>4, <2>5 DEF DurableInv, Persisted
  <1>2. ASSUME NEW s \in Slot, Load(s) PROVE DurableInv'
    <2> DEFINE p == ProcOf[s]
    <2>1. /\ req[s].step = "load" /\ cur'[p] = s /\ view'[p] = acked /\ Alone(s)
          /\ \/ /\ disk.state = "whole" /\ req'[s].step = "body" /\ req'[s].reg = s
                /\ objs'[s] = disk.data
             \/ /\ disk.state # "whole" /\ req'[s].step = "initDir" /\ objs'[s] = Fresh
          /\ UNCHANGED <<disk, acked, racy>>
      BY <1>2, <1>i, Loading
    <2> SUFFICES ASSUME ~racy PROVE DurableInv' BY <2>1 DEF DurableInv
    <2>2. Persisted = acked BY <2>1, InFlight
    <2>3. Persisted' = acked' BY <2>1, <2>2 DEF Persisted
    <2>4. objs'[s] = acked BY <2>1, <2>2 DEF Persisted
    <2>5. FileInv(s)' BY <2>1 DEF FileInv
    <2>6. Agrees(p)' BY <2>1, <2>4 DEF Agrees
    <2> QED BY <2>1, <2>3, <2>5, <2>6, DurableGoesOn
  <1>3. ASSUME NEW s \in Slot, OpenFile(s) PROVE DurableInv'
    <2> DEFINE p == ProcOf[s]
               a == req[s].agent
    <2>1. /\ req[s].step \in {"initDir", "dir"} /\ Alone(s)
          /\ req'[s].step = IF req[s].step = "dir" THEN "write" ELSE "initWrite"
          /\ req'[s].text = objs[Current(s)]
          /\ req[s].step = "initDir" => view' = view
          /\ req[s].step = "dir" /\ ~racy =>
               view'[p] = [view[p] EXCEPT ![a] = objs[Current(s)][a]]
          /\ disk' = [state |-> "empty", data |-> Fresh]
          /\ UNCHANGED <<cur, objs, acked, racy>>
      BY <1>3, <1>i, Opening
    <2> SUFFICES ASSUME ~racy PROVE DurableInv' BY <2>1 DEF DurableInv
    <2>2. /\ Current(s) = cur[p] /\ cur[p] \in Slot /\ objs[cur[p]] \in Content
          /\ view[p] \in Content /\ a \in Agent
      BY <2>1, <1>i, Types
    <2>3. /\ FileInv(s) /\ Persisted = acked /\ req[s].step # "idle"
          /\ req[s].step # "dir" => Agrees(p)
      BY <2>1, InFlight
    <2>4. disk'.state = "empty" BY <2>1
    <2>5. CASE req[s].step = "initDir"
      <3>1. objs[cur[p]] = Fresh /\ acked = Fresh BY <2>3, <2>5 DEF FileInv, Persisted
      <3>2. Persisted' = acked' BY <2>1, <2>4, <3>1 DEF Persisted
      <3>3. FileInv(s)' BY <2>1, <2>2, <2>4, <2>5, <3>1 DEF FileInv
      <3>4. Agrees(p)' BY <2>1, <2>3, <2>5 DEF Agrees
      <3> QED BY <2>1, <2>3, <3>2, <3>3, <3>4, DurableGoesOn
    <2>6. CASE req[s].step = "dir"
      <3>1. \A b \in Agent \ {a} : objs[cur[p]][b] = view[p][b]
        BY <2>3, <2>6 DEF FileInv
      <3>2. view'[p] = [view[p] EXCEPT ![a] = objs[cur[p]][a]] BY <2>1, <2>2, <2>6
      <3> HIDE DEF p, a
      <3>3. view'[p] = objs[cur[p]] BY <2>2, <3>1, <3>2 DEF Content
      <3>4. FileInv(s)' BY <2>1, <2>2, <2>4, <2>6, <3>3 DEF FileInv, p
      <3>5. Agrees(p)' BY <2>1, <3>3 DEF Agrees
      <3>6. req'[s].step = "write" BY <2>1, <2>6
      <3> QED BY <2>1, <2>3, <3>4, <3>5, <3>6, DurableGoesOn DEF p
    <2> QED BY <2>1, <2>5, <2>6
  <1>4. ASSUME NEW s \in Slot, InitWritten(s) \/ Written(s) PROVE DurableInv'
    <2> DEFINE p == ProcOf[s]
    <2>1. /\ Alone(s)
          /\ \/ /\ req[s].step = "initWrite" /\ req'[s].step = "body"
                /\ req'[s].reg = Current(s) /\ acked' = acked
             \/ /\ req[s].step = "write" /\ req'[s].step = "return"
                /\ acked' = view[p]
          /\ disk.state = "empty" => disk' = [state |-> "whole", data |-> req[s].text]
          /\ UNCHANGED <<cur, objs, view, racy>>
      BY <1>4, <1>i, Saving
    <2> SUFFICES ASSUME ~racy PROVE DurableInv' BY <2>1 DEF DurableInv
    <2>2. /\ FileInv(s) /\ Agrees(p) /\ (req[s].step # "write" => Persisted = acked)
          /\ req[s].step # "idle"
      BY <2>1, InFlight
    <2>3. disk.state = "empty" BY <2>1, <2>2 DEF FileInv
    <2>4. disk'.state = "whole" /\ disk'.data = req[s].text BY <2>1, <2>3
    <2>5. Persisted' = acked'
      <3>1. CASE req[s].step = "initWrite"
        <4>1. req[s].text = Fresh /\ acked = Fresh
          BY <2>2, <2>3, <3>1 DEF FileInv, Persisted
        <4> QED BY <2>1, <2>4, <3>1, <4>1 DEF Persisted
      <3>2. CASE req[s].step = "write"
        <4>1. req[s].text = view[p] BY <2>2, <3>2 DEF FileInv
        <4> QED BY <2>1, <2>4, <3>2, <4>1 DEF Persisted
      <3> QED BY <2>1, <3>1, <3>2
    <2>6. Current(s) = cur[p] BY <1>i, Types
    <2>7. FileInv(s)' BY <2>1, <2>6 DEF FileInv
    <2>8. Agrees(p)' BY <2>1, <2>2 DEF Agrees
    <2> QED BY <2>1, <2>2, <2>5, <2>7, <2>8, DurableGoesOn
  <1>5. ASSUME NEW s \in Slot, Mutate(s) \/ StartMark(s) \/ StopMark(s) PROVE DurableInv'
    <2> SUFFICES ASSUME ~racy PROVE DurableInv'
      BY <1>5 DEF DurableInv, Mutate, StartMark, StopMark, MutateIn
    <2> DEFINE p == ProcOf[s]
               a == req[s].agent
               c == Current(s)
    <2>1. /\ req[s].step \in {"body", "sandbox"}
          /\ a \in Agent /\ p \in Proc /\ c \in Slot /\ Current(s)' = c /\ c = cur[p]
          /\ objs[c] = view[p] /\ view[p] \in Content /\ Alone(s)
          /\ UNCHANGED <<disk, cur, view, acked, racy>>
          /\ \/ req'[s] = NoRequest /\ objs'[c] = objs[c]
             \/ /\ req'[s].step = "dir" /\ req'[s].agent = a
                /\ \E e : objs'[c] = [view[p] EXCEPT ![a] = e]
      BY <1>5, SerialMutation
    <2>2. Persisted = acked /\ req[s].step # "idle" BY <2>1, InFlight
    <2>3. Persisted' = acked' BY <2>1, <2>2 DEF Persisted
    <2>4. CASE req'[s] = NoRequest /\ objs'[c] = objs[c]
      <3>1. FileInv(s)' BY <2>4, Values DEF FileInv
      <3>2. Agrees(p)' BY <2>1, <2>4 DEF Agrees
      <3> QED BY <2>1, <2>2, <2>3, <3>1, <3>2, DurableGoesOn
    <2>5. CASE /\ req'[s].step = "dir" /\ req'[s].agent = a
               /\ \E e : objs'[c] = [view[p] EXCEPT ![a] = e]
      <3>1. \A b \in Agent \ {a} : objs'[c][b] = view[p][b]
        BY <2>1, <2>5 DEF Content
      <3>2. FileInv(s)' BY <2>1, <2>5, <3>1 DEF FileInv
      <3> QED BY <2>1, <2>2, <2>3, <2>5, <3>2, DurableGoesOn
    <2> QED BY <2>1, <2>4, <2>5
  <1>6. ASSUME NEW s \in Slot, Return(s) \/ Started(s) \/ Stopped(s) PROVE DurableInv'
    <2>1. /\ req' = [req EXCEPT ![s] = NoRequest] /\ req[s].step = "return"
          /\ UNCHANGED <<disk, cur, objs, view, acked, racy>>
      BY <1>6 DEF Return, Started, Stopped
    <2> SUFFICES ASSUME ~racy PROVE DurableInv' BY <2>1 DEF DurableInv
    <2>2. req'[s] = NoRequest /\ Alone(s) BY <1>i, <2>1, TypeEnd
    <2>3. Persisted = acked /\ Agrees(ProcOf[s]) /\ req[s].step # "idle"
      BY <2>1, InFlight
    <2>4. FileInv(s)' BY <2>2, Values DEF FileInv
    <2>5. Persisted' = acked' /\ Agrees(ProcOf[s])' BY <2>1, <2>3 DEF Persisted, Agrees
    <2> QED BY <2>1, <2>2, <2>3, <2>4, <2>5, DurableGoesOn
  <1>7. ASSUME NEW s \in Slot, StartCheck(s) PROVE DurableInv'
    <2> DEFINE p == ProcOf[s]
    <2>1. /\ req[s].step = "body" /\ Alone(s) /\ objs'[Current(s)] = objs[Current(s)]
          /\ req'[s] = NoRequest \/ req'[s].step = "sandbox"
          /\ UNCHANGED <<disk, cur, view, acked, racy>>
      BY <1>7, <1>i, Checking
    <2> SUFFICES ASSUME ~racy PROVE DurableInv' BY <2>1 DEF DurableInv
    <2>2. Persisted = acked /\ Agrees(p) /\ req[s].step # "idle" /\ Current(s) = cur[p]
      BY <1>i, <2>1, InFlight, Types
    <2>3. FileInv(s)' BY <2>1, Values DEF FileInv
    <2>4. Persisted' = acked' /\ Agrees(p)' BY <2>1, <2>2 DEF Persisted, Agrees
    <2> QED BY <2>1, <2>2, <2>3, <2>4, DurableGoesOn
  <1>8. ASSUME UNCHANGED registryVars PROVE DurableInv'
    BY <1>8, <1>i DEF registryVars, DurableInv, FileInv, Persisted, Agrees
  <1>9. ASSUME NEW p \in Proc, Restart(p) PROVE DurableInv'
    <2>1. RegistryRestart(p) BY <1>9 DEF Restart
    <2>2. /\ cur'[p] = NoSlot /\ view'[p] = Fresh /\ \A q \in Proc \ {p} : Keeps(q)
          /\ \A s \in Slot : req'[s] = IF ProcOf[s] = p THEN NoRequest ELSE req[s]
          /\ acked' = IF \E s \in Slot : ProcOf[s] = p /\ req[s].step \in {"initWrite", "write"}
                        THEN Fresh ELSE acked
          /\ UNCHANGED <<disk, racy>>
      BY <1>i, <2>1, Ending
    <2> SUFFICES ASSUME ~racy PROVE DurableInv' BY <2>2 DEF DurableInv
    <2>3. ASSUME NEW s \in Slot PROVE FileInv(s)'
      <3>1. CASE ProcOf[s] = p BY <2>2, <3>1, Values DEF FileInv
      <3>2. CASE ProcOf[s] # p
        <4>1. /\ req'[s] = req[s] /\ disk' = disk /\ FileInv(s) /\ Keeps(ProcOf[s])
              /\ req[s].step \notin {"idle", "load"} => cur[ProcOf[s]] # NoSlot
          BY <1>i, <1>p, <2>2, <3>2, Types, Values DEF DurableInv
        <4> QED BY <4>1 DEF FileInv, Keeps
      <3> QED BY <3>1, <3>2
    <2>4. ASSUME \A s \in Slot : req'[s].step # "write" PROVE Persisted' = acked'
      <3>1. CASE \E s \in Slot : ProcOf[s] = p /\ req[s].step \in {"initWrite", "write"}
        <4>1. disk.state = "empty" BY <1>i, <3>1 DEF DurableInv, FileInv
        <4> QED BY <2>2, <3>1, <4>1 DEF Persisted
      <3>2. CASE ~\E s \in Slot : ProcOf[s] = p /\ req[s].step \in {"initWrite", "write"}
        <4>1. \A s \in Slot : req[s].step # "write" BY <2>2, <2>4, <3>2
        <4>2. Persisted = acked BY <1>i, <4>1 DEF DurableInv
        <4> QED BY <2>2, <3>2, <4>2 DEF Persisted
      <3> QED BY <3>1, <3>2
    <2>5. ASSUME NEW q \in Proc, \A s \in Slot : ProcOf[s] = q => req'[s].step # "dir"
          PROVE  Agrees(q)'
      <3>1. CASE q = p BY <2>2, <3>1 DEF Agrees
      <3>2. CASE q # p
        <4>1. \A s \in Slot : ProcOf[s] = q => req[s].step # "dir" BY <2>2, <2>5, <3>2
        <4>2. Agrees(q) /\ Keeps(q) BY <1>i, <2>2, <3>2, <4>1 DEF DurableInv
        <4> QED BY <4>2 DEF Agrees, Keeps
      <3> QED BY <3>1, <3>2
    <2> QED BY <2>3, <2>4, <2>5 DEF DurableInv
  <1> QED
    BY <1>1, <1>2, <1>3, <1>4, <1>5, <1>6, <1>7, <1>8, <1>9
       DEF Next, RegistryCall, StartCall, StopCall, ShutdownStops, Registry, RegistryStep,
           MonitorFires, Signal, ShutdownStopped, Close, vars

-----------------------------------------------------------------------------
(* Agents on record as running.                                                *)

(* What a step of the registry makes of the histories.                         *)
LEMMA Histories ==
  ASSUME TypeOK, ~racy, NEW s \in Slot, Registry(s)
  PROVE  LET p == ProcOf[s]
         IN  /\ UNCHANGED <<running, phase>> /\ RegistryStep(s)
             /\ \A q \in Proc \ {p} : found'[q] = found[q]
             /\ req[s].step = "load" =>
                  found'[p] = {a \in Agent : objs'[s][a].status = "running"}
             /\ req[s].step = "dir" =>
                  /\ found'[p] = found[p] \ {req[s].agent}
                  /\ unclean' <=> unclean \/ view[p] # acked
             /\ req[s].step \notin {"load", "dir"} => found' = found
             /\ req[s].step # "dir" => unclean' = unclean
  <1> DEFINE p == ProcOf[s]
  <1>1. p \in Proc /\ found \in [Proc -> SUBSET Agent] /\ unclean \in BOOLEAN
    BY ProcAssumption DEF TypeOK
  <1>2. /\ found' = CASE racy -> found
                      [] req[s].step = "load" ->
                           [found EXCEPT ![p] = {a \in Agent : objs'[s][a].status = "running"}]
                      [] req[s].step = "dir" -> [found EXCEPT ![p] = @ \ {req[s].agent}]
                      [] OTHER -> found
        /\ unclean' = (unclean \/ (req[s].step = "dir" /\ view[p] # acked))
        /\ UNCHANGED <<running, phase>> /\ RegistryStep(s)
    BY DEF Registry
  <1>3. CASE req[s].step = "load"
    <2>1. found' = [found EXCEPT ![p] = {a \in Agent : objs'[s][a].status = "running"}]
      BY <1>2, <1>3
    <2> QED BY <1>1, <1>2, <1>3, <2>1
  <1>4. CASE req[s].step = "dir"
    <2>1. found' = [found EXCEPT ![p] = @ \ {req[s].agent}] BY <1>2, <1>4
    <2> QED BY <1>1, <1>2, <1>4, <2>1
  <1>5. CASE req[s].step \notin {"load", "dir"}
    <2>1. found' = found BY <1>2, <1>5
    <2> QED BY <1>1, <1>2, <1>5, <2>1
  <1> QED BY <1>3, <1>4, <1>5

(* The process of a request that is in flight has not shut down; those that    *)
(* have stay idle.                                                             *)
LEMMA IdlesOn ==
  ASSUME SandboxInv, ~racy, ~unclean, NEW s \in Slot, req[s].step # "idle",
         phase' = phase, Alone(s),
         \A q \in Proc \ {ProcOf[s]} : running'[q] = running[q]
  PROVE  \A q \in Proc : phase'[q] = "closing" => Idles(q)'
  <1>1. \A q \in Proc : phase[q] = "closing" => Idles(q) BY DEF SandboxInv, GhostInv, CleanInv
  <1>2. ASSUME NEW q \in Proc, phase[q] = "closing" PROVE Idles(q)'
    <2>1. Idles(q) /\ q # ProcOf[s] BY <1>1, <1>2 DEF Idles
    <2>2. \A t \in Slot : ProcOf[t] = q => req'[t] = req[t] BY <2>1 DEF Alone
    <2> QED BY <2>1, <2>2 DEF Idles
  <1> QED BY <1>2

(* With one request in flight, its process alone accounts for an agent that it *)
(* does not run, and for no other than that of the request.                    *)
LEMMA OneRuns ==
  ASSUME SandboxInv, ~racy, NEW s \in Slot, req[s].step # "idle",
         NEW p \in Proc, NEW a \in Agent
  PROVE  Runs(p, a) <=> running[p][a] \/ (p = ProcOf[s] /\ Accounts(s, a))
  <1>1. \A t \in Slot \ {s} : ~Accounts(t, a) BY InFlight DEF Accounts
  <1> QED BY <1>1 DEF Runs

(* With one request in flight, a step of it that is not about the file.        *)
LEMMA GhostGoesOn ==
  ASSUME SandboxInv, ~racy, NEW s \in Slot, req[s].step # "idle", Alone(s),
         UNCHANGED <<racy, view, acked, running, found>>,
         unclean' \/ (~unclean /\ phase' = phase),
         req[s].step # "write", req'[s].step # "write",
         SavesRunning(s)',
         \A a \in Agent :
           Accounts(s, a) /\ view[ProcOf[s]][a].status = "running" => Accounts(s, a)'
  PROVE  GhostInv'
  <1>1. \A t \in Slot \ {s} : req[t].step = "idle" /\ req'[t].step = "idle"
    BY InFlight DEF Alone
  <1>2. ASSUME NEW p \in Proc, NEW a \in Agent, view[p][a].status = "running", Runs(p, a)
        PROVE  Runs(p, a)'
    BY <1>2, OneRuns DEF Runs
  <1>3. \A t \in Slot : SavesRunning(t)' BY <1>1 DEF SavesRunning
  <1>4. KnownInv' BY <1>2 DEF SandboxInv, GhostInv, KnownInv
  <1>5. ASSUME ~unclean' PROVE CleanInv'
    <2>1. CleanInv BY <1>5 DEF SandboxInv, GhostInv
    <2>2. \A t \in Slot : req[t].step # "write" /\ req'[t].step # "write" BY <1>1
    <2>3. \A t \in Slot : SavesOne(t)' BY <2>2 DEF SavesOne
    <2>4. \A q \in Proc : phase'[q] = "closing" => Idles(q)' BY <1>5, IdlesOn
    <2> QED BY <1>2, <2>1, <2>2, <2>3, <2>4 DEF CleanInv
  <1> QED BY <1>3, <1>4, <1>5 DEF GhostInv

(* A request arrives while no other is in flight: when it is a stop, it        *)
(* accounts for the agent that the map has lost.                               *)
LEMMA GhostArrival ==
  ASSUME SandboxInv, NEW s \in Slot, NEW a \in Agent,
         NEW op \in RegistryOp \cup {"start", "stop", "stopAll"},
         NEW others \in {req, Overtaken(ProcOf[s], a)}, Begin(s, op, a, others),
         phase[ProcOf[s]] # "closing", UNCHANGED <<phase, found, unclean>>,
         \/ running' = running
         \/ /\ op \in {"stop", "stopAll"}
            /\ running' = [running EXCEPT ![ProcOf[s]][a] = FALSE]
  PROVE  GhostInv'
  <1> SUFFICES ASSUME ~racy' PROVE GhostInv' BY DEF GhostInv
  <1> DEFINE p == ProcOf[s]
  <1>i. TypeOK /\ FlightInv BY DEF SandboxInv
  <1>1. /\ ~racy /\ acked' = acked /\ view' = view
        /\ \A t \in Slot : req[t].step = "idle"
        /\ req'[s].step \in {"load", "body"} /\ req'[s].op = op /\ req'[s].agent = a
        /\ \A t \in Slot \ {s} : req'[t].step = "idle"
    BY <1>i, Arrival
  <1>2. ASSUME NEW q \in Proc, NEW b \in Agent, Runs(q, b) PROVE Runs(q, b)'
    <2>1. running[q][b] BY <1>1, <1>2 DEF Runs, Accounts
    <2>2. CASE running'[q][b] BY <2>2 DEF Runs
    <2>3. CASE ~running'[q][b]
      <3>1. q = p /\ b = a /\ op \in {"stop", "stopAll"}
        BY <1>i, <2>1, <2>3, ProcAssumption DEF TypeOK
      <3>2. Accounts(s, b)' BY <1>1, <3>1 DEF Accounts
      <3> QED BY <3>1, <3>2 DEF Runs
    <2> QED BY <2>2, <2>3
  <1>3. \A t \in Slot : SavesRunning(t)' BY <1>1 DEF SavesRunning
  <1>4. KnownInv' BY <1>1, <1>2 DEF SandboxInv, GhostInv, KnownInv
  <1>5. ASSUME ~unclean' PROVE CleanInv'
    <2>1. CleanInv BY <1>1, <1>5 DEF SandboxInv, GhostInv
    <2>2. \A t \in Slot : req[t].step # "write" /\ req'[t].step # "write" BY <1>1
    <2>3. \A t \in Slot : SavesOne(t)' BY <2>2 DEF SavesOne
    <2>4. ASSUME NEW q \in Proc, phase[q] = "closing" PROVE Idles(q)'
      <3>1. Idles(q) /\ q # p BY <2>1, <2>4 DEF CleanInv
      <3>2. \A b \in Agent : running'[q][b] = running[q][b] \/ ~running'[q][b]
        BY <1>i, <2>4 DEF TypeOK
      <3>3. \A t \in Slot : ProcOf[t] = q => req'[t].step = "idle" BY <1>1, <3>1
      <3> QED BY <3>1, <3>2, <3>3 DEF Idles
    <2> QED BY <1>1, <1>2, <2>1, <2>2, <2>3, <2>4 DEF CleanInv
  <1> QED BY <1>3, <1>4, <1>5 DEF GhostInv

(* The steps of a request that read the file, truncate it and write it.        *)
LEMMA GhostLoad ==
  ASSUME SandboxInv, DurableInv', NEW s \in Slot, Registry(s), Load(s)
  PROVE  GhostInv'
  <1> DEFINE p == ProcOf[s]
  <1>i. TypeOK /\ FlightInv BY DEF SandboxInv
  <1>1. /\ req[s].step = "load" /\ cur'[p] = s /\ view'[p] = acked /\ Alone(s)
        /\ req'[s].step \in {"body", "initDir"}
        /\ req'[s].op = req[s].op /\ req'[s].agent = req[s].agent
        /\ UNCHANGED <<disk, acked, racy>>
    BY <1>i, Loading
  <1> SUFFICES ASSUME ~racy PROVE GhostInv' BY <1>1 DEF GhostInv
  <1>2. /\ UNCHANGED <<running, phase, unclean>>
        /\ \A q \in Proc \ {p} : found'[q] = found[q]
        /\ found'[p] = {a \in Agent : objs'[s][a].status = "running"}
    BY <1>i, <1>1, Histories
  <1>3. \A t \in Slot \ {s} : req[t].step = "idle" /\ req'[t].step = "idle"
    BY <1>1, InFlight DEF Alone
  <1>4. objs'[s] = acked
    <2>1. p \in Proc /\ (\A t \in Slot : req'[t].step # "dir") BY <1>1, <1>3, ProcAssumption
    <2>2. Agrees(p)' BY <1>1, <2>1 DEF DurableInv
    <2> QED BY <1>1, <2>2, Values DEF Agrees
  <1>5. ASSUME NEW q \in Proc, NEW a \in Agent, Runs(q, a) PROVE Runs(q, a)'
    <2>1. running[q][a] \/ (q = p /\ Accounts(s, a)) BY <1>1, <1>5, OneRuns
    <2>2. Accounts(s, a) => Accounts(s, a)' BY <1>1 DEF Accounts
    <2> QED BY <1>2, <2>1, <2>2 DEF Runs
  <1>6. \A t \in Slot : SavesRunning(t)' BY <1>1, <1>3 DEF SavesRunning
  <1>7. KnownInv'
    <2>1. ASSUME NEW q \in Proc, NEW a \in Agent, view'[q][a].status = "running"
          PROVE  Runs(q, a)' \/ a \in found'[q]
      <3>1. CASE q = p BY <1>1, <1>2, <1>4, <2>1, <3>1
      <3>2. CASE q # p
        <4>1. view'[q] = view[q] /\ found'[q] = found[q]
          BY <1>1, <1>2, <3>2 DEF Alone, Keeps
        <4> QED BY <1>5, <2>1, <4>1 DEF SandboxInv, GhostInv, KnownInv
      <3> QED BY <3>1, <3>2
    <2> QED BY <2>1 DEF KnownInv
  <1>8. ASSUME ~unclean' PROVE CleanInv'
    <2>1. CleanInv BY <1>2, <1>8 DEF SandboxInv, GhostInv
    <2>2. \A t \in Slot : req[t].step # "write" /\ req'[t].step # "write" BY <1>1, <1>3
    <2>3. \A t \in Slot : SavesOne(t)' BY <2>2 DEF SavesOne
    <2>4. \A q \in Proc : phase'[q] = "closing" => Idles(q)' BY <1>1, <1>2, <1>8, IdlesOn
    <2>5. ASSUME NEW a \in Agent, acked[a].status = "running"
          PROVE  \E q \in Proc : view'[q][a].status = "running" /\ Runs(q, a)'
      <3>1. PICK q \in Proc : view[q][a].status = "running" /\ Runs(q, a)
        BY <2>1, <2>2, <2>5 DEF CleanInv
      <3>2. view'[q][a].status = "running" BY <1>1, <2>5, <3>1 DEF Alone, Keeps
      <3> QED BY <1>5, <3>1, <3>2
    <2> QED BY <1>1, <2>3, <2>4, <2>5 DEF CleanInv
  <1> QED BY <1>6, <1>7, <1>8 DEF GhostInv

LEMMA GhostOpen ==
  ASSUME SandboxInv, NEW s \in Slot, Registry(s), OpenFile(s), req[s].step = "dir"
  PROVE  GhostInv'
  <1> DEFINE p == ProcOf[s]
             a == req[s].agent
             c == Current(s)
  <1>i. TypeOK /\ FlightInv BY DEF SandboxInv
  <1>1. /\ req'[s].step = "write" /\ req'[s].op = req[s].op /\ req'[s].agent = a
        /\ UNCHANGED <<cur, objs, acked, racy>> /\ Alone(s)
        /\ ~racy => view'[p] = [view[p] EXCEPT ![a] = objs[c][a]]
        /\ a \in Agent /\ p \in Proc /\ view[p] \in Content /\ Current(s)' = c
    BY <1>i, Opening, Types DEF Current
  <1> SUFFICES ASSUME ~racy PROVE GhostInv' BY <1>1 DEF GhostInv
  <1>2. /\ UNCHANGED <<running, phase>>
        /\ \A q \in Proc \ {p} : found'[q] = found[q]
        /\ found'[p] = found[p] \ {a}
        /\ unclean' <=> unclean \/ view[p] # acked
    BY <1>i, Histories
  <1>3. \A t \in Slot \ {s} : req[t].step = "idle" /\ req'[t].step = "idle"
    BY <1>1, InFlight DEF Alone
  <1>4. /\ \A b \in Agent \ {a} : view'[p][b] = view[p][b]
        /\ view'[p][a] = objs[c][a]
        /\ \A q \in Proc \ {p} : view'[q] = view[q]
    BY <1>1 DEF Content, Alone, Keeps
  <1>5. SavesRunning(s) /\ KnownInv BY DEF SandboxInv, GhostInv
  <1>6. ASSUME NEW q \in Proc, NEW b \in Agent, Runs(q, b), q # p \/ b # a
        PROVE  Runs(q, b)'
    <2>1. running[q][b] BY <1>6, OneRuns DEF Accounts
    <2> QED BY <1>2, <2>1 DEF Runs
  <1>7. \A t \in Slot : SavesRunning(t)'
    BY <1>1, <1>3, <1>5 DEF SavesRunning
  <1>8. KnownInv'
    <2>1. ASSUME NEW q \in Proc, NEW b \in Agent, view'[q][b].status = "running"
          PROVE  Runs(q, b)' \/ b \in found'[q]
      <3>1. CASE q = p /\ b = a
        <4>1. req[s].op = "start" BY <1>4, <1>5, <2>1, <3>1 DEF SavesRunning
        <4>2. Accounts(s, b)' BY <1>1, <3>1, <4>1 DEF Accounts
        <4> QED BY <3>1, <4>2 DEF Runs
      <3>2. CASE q # p \/ b # a
        <4>1. view[q][b].status = "running" BY <1>4, <2>1, <3>2
        <4>2. Runs(q, b) \/ b \in found[q] BY <1>5, <4>1 DEF KnownInv
        <4>3. b \in found[q] => b \in found'[q] BY <1>2, <3>2
        <4> QED BY <1>6, <3>2, <4>2, <4>3
      <3> QED BY <3>1, <3>2
    <2> QED BY <2>1 DEF KnownInv
  <1>9. ASSUME ~unclean' PROVE CleanInv'
    <2>1. CleanInv /\ ~unclean /\ view[p] = acked BY <1>2, <1>9 DEF SandboxInv, GhostInv
    <2>2. \A t \in Slot : SavesOne(t)'
      <3>1. \A b \in Agent \ {a} : view'[p][b] = acked[b] BY <1>4, <2>1
      <3>2. SavesOne(s)' BY <1>1, <3>1 DEF SavesOne
      <3> QED BY <1>3, <3>2 DEF SavesOne
    <2>3. \A q \in Proc : phase'[q] = "closing" => Idles(q)' BY <1>1, <1>2, <2>1, IdlesOn
    <2>4. ASSUME NEW b \in Agent, b # a, acked[b].status = "running"
          PROVE  \E q \in Proc : view'[q][b].status = "running" /\ Runs(q, b)'
      <3>1. PICK q \in Proc : view[q][b].status = "running" /\ Runs(q, b)
        BY <1>3, <2>1, <2>4 DEF CleanInv
      <3>2. view'[q][b].status = "running" BY <1>4, <2>4, <3>1
      <3> QED BY <1>6, <2>4, <3>1, <3>2
    <2> QED BY <1>1, <2>2, <2>3, <2>4 DEF CleanInv
  <1> QED BY <1>7, <1>8, <1>9 DEF GhostInv

LEMMA GhostWritten ==
  ASSUME SandboxInv, NEW s \in Slot, Registry(s), Written(s)
  PROVE  GhostInv'
  <1> DEFINE p == ProcOf[s]
             a == req[s].agent
  <1>i. TypeOK /\ FlightInv BY DEF SandboxInv
  <1>1. /\ req[s].step = "write" /\ req'[s].step = "return" /\ acked' = view[p]
        /\ req'[s].op = req[s].op /\ req'[s].agent = a
        /\ UNCHANGED <<cur, objs, view, racy>> /\ Alone(s)
    <2>1. req[s].step = "write" BY DEF Written
    <2> QED BY <1>i, <2>1, Saving
  <1>t. a \in Agent /\ p \in Proc /\ Current(s) = cur[p] /\ cur[p] \in Slot
    BY <1>i, <1>1, Types
  <1> SUFFICES ASSUME ~racy PROVE GhostInv' BY <1>1 DEF GhostInv
  <1>2. UNCHANGED <<running, phase, found, unclean>> BY <1>i, <1>1, Histories
  <1>3. \A t \in Slot \ {s} : req[t].step = "idle" /\ req'[t].step = "idle"
    BY <1>1, InFlight DEF Alone
  <1>4. view[p][a].status = "running" => req[s].op = "start"
    <2>1. objs[Current(s)] = view[p] BY <1>1, <1>t, InFlight, Values DEF Agrees
    <2> QED BY <1>1, <2>1 DEF SandboxInv, GhostInv, SavesRunning
  <1>5. ASSUME NEW q \in Proc, NEW b \in Agent, Runs(q, b) PROVE Runs(q, b)'
    <2>1. running[q][b] \/ (q = p /\ Accounts(s, b)) BY <1>1, <1>5, OneRuns
    <2>2. Accounts(s, b) => Accounts(s, b)' BY <1>1 DEF Accounts
    <2> QED BY <1>2, <2>1, <2>2 DEF Runs
  <1>6. \A t \in Slot : SavesRunning(t)' BY <1>1, <1>3 DEF SavesRunning
  <1>7. KnownInv' BY <1>1, <1>2, <1>5 DEF SandboxInv, GhostInv, KnownInv
  <1>8. ASSUME ~unclean' PROVE CleanInv'
    <2>1. CleanInv BY <1>2, <1>8 DEF SandboxInv, GhostInv
    <2>2. \A t \in Slot : SavesOne(t)' BY <1>1, <1>3 DEF SavesOne
    <2>3. \A q \in Proc : phase'[q] = "closing" => Idles(q)' BY <1>1, <1>2, <1>8, IdlesOn
    <2>4. ASSUME NEW b \in Agent, view[p][b].status = "running"
          PROVE  \E q \in Proc : view[q][b].status = "running" /\ Runs(q, b)'
      <3>1. CASE b = a
        <4>1. Accounts(s, b)' BY <1>1, <1>4, <2>4, <3>1 DEF Accounts
        <4> QED BY <1>t, <2>4, <3>1, <4>1 DEF Runs
      <3>2. CASE b # a
        <4>1. acked[b].status = "running" BY <1>1, <2>1, <2>4, <3>2 DEF CleanInv, SavesOne
        <4>2. PICK q \in Proc : view[q][b].status = "running" /\ Runs(q, b)
          BY <1>3, <2>1, <3>2, <4>1 DEF CleanInv
        <4> QED BY <1>5, <4>2
      <3> QED BY <3>1, <3>2
    <2> QED BY <1>1, <2>2, <2>3, <2>4 DEF CleanInv
  <1> QED BY <1>6, <1>7, <1>8 DEF GhostInv

(* The agent of a start runs, in the end.                                      *)
LEMMA GhostStarted ==
  ASSUME SandboxInv, NEW s \in Slot, Started(s)
  PROVE  GhostInv'
  <1> DEFINE p == ProcOf[s]
             a == req[s].agent
  <1>i. TypeOK /\ FlightInv BY DEF SandboxInv
  <1>1. /\ req' = [req EXCEPT ![s] = NoRequest] /\ req[s].step = "return"
        /\ running' = [running EXCEPT ![p][a] = TRUE]
        /\ UNCHANGED <<disk, cur, objs, view, acked, racy>>
        /\ UNCHANGED <<phase, found, unclean>>
    BY DEF Started
  <1> SUFFICES ASSUME ~racy PROVE GhostInv' BY <1>1 DEF GhostInv
  <1>2. req'[s] = NoRequest /\ Alone(s) BY <1>i, <1>1, TypeEnd
  <1>3. \A t \in Slot : req'[t].step = "idle" /\ (t # s => req[t].step = "idle")
    BY <1>1, <1>2, InFlight, Values DEF Alone
  <1>4. /\ a \in Agent /\ p \in Proc /\ running'[p][a]
        /\ \A q \in Proc, b \in Agent : running[q][b] => running'[q][b]
        /\ \A q \in Proc \ {p} : running'[q] = running[q]
    <2>1. a \in Agent /\ p \in Proc /\ running \in [Proc -> [Agent -> BOOLEAN]]
      BY <1>i, <1>1, Types DEF TypeOK
    <2> HIDE DEF p, a
    <2> QED BY <1>1, <2>1
  <1>5. ASSUME NEW q \in Proc, NEW b \in Agent, Runs(q, b) PROVE Runs(q, b)'
    <2>1. running[q][b] \/ (q = p /\ Accounts(s, b)) BY <1>1, <1>5, OneRuns
    <2>2. Accounts(s, b) => b = a BY DEF Accounts
    <2> QED BY <1>4, <2>1, <2>2 DEF Runs
  <1>6. \A t \in Slot : SavesRunning(t)' BY <1>3 DEF SavesRunning
  <1>7. KnownInv' BY <1>1, <1>5 DEF SandboxInv, GhostInv, KnownInv
  <1>8. ASSUME ~unclean' PROVE CleanInv'
    <2>1. CleanInv BY <1>1, <1>8 DEF SandboxInv, GhostInv
    <2>2. \A t \in Slot : SavesOne(t)' BY <1>3 DEF SavesOne
    <2>3. \A q \in Proc : phase'[q] = "closing" => Idles(q)'
      BY <1>1, <1>2, <1>4, <1>8, IdlesOn
    <2>4. \A t \in Slot : req[t].step # "write" BY <1>1, <1>3
    <2> QED BY <1>1, <1>5, <2>1, <2>2, <2>3, <2>4 DEF CleanInv
  <1> QED BY <1>6, <1>7, <1>8 DEF GhostInv

(* A process ends: it leaves nothing behind when it has shut down.             *)
LEMMA GhostRestart ==
  ASSUME SandboxInv, NEW p \in Proc, Restart(p)
  PROVE  GhostInv'
  <1>i. TypeOK /\ FlightInv BY DEF SandboxInv
  <1>p. \A s \in Slot : ProcOf[s] \in Proc BY ProcAssumption
  <1>1. /\ cur'[p] = NoSlot /\ view'[p] = Fresh /\ \A q \in Proc \ {p} : Keeps(q)
        /\ \A s \in Slot : req'[s] = IF ProcOf[s] = p THEN NoRequest ELSE req[s]
        /\ acked' = IF \E s \in Slot : ProcOf[s] = p /\ req[s].step \in {"initWrite", "write"}
                      THEN Fresh ELSE acked
        /\ UNCHANGED <<disk, racy>>
    BY <1>i, Ending DEF Restart
  <1> SUFFICES ASSUME ~racy PROVE GhostInv' BY <1>1 DEF GhostInv
  <1>2. /\ \A q \in Proc \ {p} : /\ running'[q] = running[q] /\ found'[q] = found[q]
                                 /\ phase'[q] = phase[q] /\ view'[q] = view[q]
        /\ phase'[p] = "up"
        /\ unclean' <=> unclean \/ phase[p] # "closing"
    BY <1>i, <1>1 DEF Restart, TypeOK, Keeps
  <1>3. ASSUME NEW q \in Proc, q # p, NEW a \in Agent, Runs(q, a) PROVE Runs(q, a)'
    BY <1>1, <1>2, <1>3 DEF Runs, Accounts
  <1>4. ASSUME NEW s \in Slot PROVE SavesRunning(s)'
    <2>1. CASE ProcOf[s] = p BY <1>1, <2>1, Values DEF SavesRunning
    <2>2. CASE ProcOf[s] # p
      <3>1. SavesRunning(s) /\ req'[s] = req[s] /\ Keeps(ProcOf[s])
        BY <1>1, <1>p, <2>2 DEF SandboxInv, GhostInv
      <3>2. Current(s)' = Current(s) BY <3>1 DEF Keeps, Current
      <3>3. req[s].step \in {"dir", "write"} => objs'[Current(s)] = objs[Current(s)]
        BY <1>i, <3>1, Types, Values DEF Keeps
      <3> QED BY <3>1, <3>2, <3>3 DEF SavesRunning
    <2> QED BY <2>1, <2>2
  <1>5. KnownInv'
    <2>1. ASSUME NEW q \in Proc, NEW a \in Agent, view'[q][a].status = "running"
          PROVE  Runs(q, a)' \/ a \in found'[q]
      <3>1. q # p BY <1>1, <2>1, Values
      <3> QED BY <1>2, <1>3, <2>1, <3>1 DEF SandboxInv, GhostInv, KnownInv
    <2> QED BY <2>1 DEF KnownInv
  <1>6. ASSUME ~unclean' PROVE CleanInv'
    <2>1. CleanInv /\ phase[p] = "closing" /\ Idles(p)
      BY <1>2, <1>6 DEF SandboxInv, GhostInv, CleanInv
    <2>2. acked' = acked BY <1>1, <2>1 DEF Idles
    <2>3. ASSUME NEW s \in Slot PROVE SavesOne(s)'
      <3>1. CASE ProcOf[s] = p BY <1>1, <3>1, Values DEF SavesOne
      <3>2. CASE ProcOf[s] # p
        BY <1>1, <1>2, <1>p, <2>1, <2>2, <3>2 DEF CleanInv, SavesOne
      <3> QED BY <3>1, <3>2
    <2>4. ASSUME NEW q \in Proc, phase'[q] = "closing" PROVE Idles(q)'
      <3>1. q # p /\ Idles(q) BY <1>2, <2>1, <2>4 DEF CleanInv
      <3> QED BY <1>1, <1>2, <3>1 DEF Idles
    <2>5. ASSUME NEW a \in Agent, acked[a].status = "running"
          PROVE  \/ \E s \in Slot : req'[s].step = "write" /\ req'[s].agent = a
                 \/ \E q \in Proc : view'[q][a].status = "running" /\ Runs(q, a)'
      <3>1. CASE \E s \in Slot : req[s].step = "write" /\ req[s].agent = a
        <4>1. PICK s \in Slot : req[s].step = "write" /\ req[s].agent = a BY <3>1
        <4>2. req'[s] = req[s] BY <1>1, <2>1, <4>1 DEF Idles
        <4> QED BY <4>1, <4>2
      <3>2. CASE \E q \in Proc : view[q][a].status = "running" /\ Runs(q, a)
        <4>1. PICK q \in Proc : view[q][a].status = "running" /\ Runs(q, a) BY <3>2
        <4>2. q # p BY <2>1, <4>1 DEF Idles, Runs, Accounts
        <4> QED BY <1>2, <1>3, <4>1, <4>2
      <3> QED BY <2>1, <2>5, <3>1, <3>2 DEF CleanInv
    <2> QED BY <2>2, <2>3, <2>4, <2>5 DEF CleanInv
  <1> QED BY <1>4, <1>5, <1>6 DEF GhostInv

(* Every action keeps account of what is on record as running.                 *)
LEMMA GhostStep ==
  ASSUME SandboxInv, [Next]_vars
  PROVE  GhostInv'
  <1>i. TypeOK /\ FlightInv BY DEF SandboxInv
  <1>1. ASSUME NEW s \in Slot, Registry(s), OpenFile(s) \/ InitWritten(s), req[s].step # "dir"
        PROVE  GhostInv'
    <2>1. /\ req[s].step \in {"initDir", "initWrite"} /\ req'[s].step \in {"initWrite", "body"}
          /\ req'[s].op = req[s].op /\ req'[s].agent = req[s].agent /\ Alone(s)
          /\ UNCHANGED <<racy, view, acked>>
      <3>1. CASE OpenFile(s) BY <1>1, <1>i, <3>1, Opening
      <3>2. CASE InitWritten(s)
        <4>1. req[s].step = "initWrite" BY <3>2 DEF InitWritten
        <4> QED BY <1>i, <3>2, <4>1, Saving
      <3> QED BY <1>1, <3>1, <3>2
    <2> SUFFICES ASSUME ~racy PROVE GhostInv' BY <2>1 DEF GhostInv
    <2>2. UNCHANGED <<running, phase, found, unclean>> BY <1>1, <1>i, <2>1, Histories
    <2>3. /\ SavesRunning(s)' /\ \A a \in Agent : Accounts(s, a) => Accounts(s, a)'
          /\ unclean \in BOOLEAN
      BY <1>i, <2>1 DEF SavesRunning, Accounts, TypeOK
    <2> QED BY <2>1, <2>2, <2>3, GhostGoesOn
  <1>2. ASSUME NEW s \in Slot,
               \/ Mutate(s) /\ Registry(s)
               \/ StartMark(s)
               \/ StopMark(s)
        PROVE  GhostInv'
    <2> SUFFICES ASSUME ~racy PROVE GhostInv'
      BY <1>2 DEF GhostInv, Mutate, StartMark, StopMark, MutateIn
    <2> DEFINE p == ProcOf[s]
               a == req[s].agent
               op == req[s].op
               c == Current(s)
    <2>1. /\ req[s].step \in {"body", "sandbox"} /\ (op = "start" => req[s].step = "sandbox")
          /\ a \in Agent /\ p \in Proc /\ c \in Slot /\ Current(s)' = c /\ c = cur[p]
          /\ objs[c] = view[p] /\ view[p] \in Content /\ Alone(s)
          /\ UNCHANGED <<disk, cur, view, acked, racy>>
          /\ \/ /\ req'[s] = NoRequest /\ objs'[c] = objs[c]
                /\ op \notin {"add", "remove"} => view[p][a].status = "absent"
             \/ /\ req'[s].step = "dir" /\ req'[s].op = op /\ req'[s].agent = a
                /\ ~Rejects(op, a, view[p][a])
                /\ objs'[c] = [view[p] EXCEPT ![a] = Effect(op, view[p][a])]
      BY <1>2, SerialMutation
    <2>2. /\ UNCHANGED <<running, found>> /\ req[s].step # "idle" /\ req[s].step # "write"
          /\ unclean' \/ (~unclean /\ phase' = phase)
      <3>1. CASE Mutate(s) /\ Registry(s)
        BY <1>i, <2>1, <3>1, Histories DEF TypeOK
      <3>2. CASE StartMark(s) BY <1>i, <2>1, <3>2 DEF StartMark, sandboxVars, TypeOK
      <3>3. CASE StopMark(s) BY <1>i, <2>1, <3>3 DEF StopMark, TypeOK
      <3> QED BY <1>2, <3>1, <3>2, <3>3
    <2>3. CASE req'[s] = NoRequest /\ (op \notin {"add", "remove"} => view[p][a].status = "absent")
      <3>1. SavesRunning(s)' BY <2>3, Values DEF SavesRunning
      <3>2. \A b \in Agent : Accounts(s, b) => b = a /\ op \in {"stop", "stopAll"}
        BY <2>1 DEF Accounts
      <3>3. req'[s].step # "write" BY <2>3, Values
      <3> HIDE DEF p, a, op, c
      <3>4. \A b \in Agent :
              Accounts(s, b) /\ view[p][b].status = "running" => Accounts(s, b)'
        BY <2>3, <3>2
      <3> QED BY <2>1, <2>2, <3>1, <3>3, <3>4, GhostGoesOn DEF p
    <2>4. CASE /\ req'[s].step = "dir" /\ req'[s].op = op /\ req'[s].agent = a
               /\ objs'[c] = [view[p] EXCEPT ![a] = Effect(op, view[p][a])]
      <3>1. view[p][a] \in Entry BY <2>1 DEF Content
      <3>2. objs'[c][a] = Effect(op, view[p][a]) BY <2>1, <2>4 DEF Content
      <3>3. SavesRunning(s)' BY <2>1, <2>4, <3>1, <3>2, Effects DEF SavesRunning
      <3>4. \A b \in Agent : Accounts(s, b) => Accounts(s, b)'
        BY <2>1, <2>4 DEF Accounts
      <3> QED BY <2>1, <2>2, <2>4, <3>3, <3>4, GhostGoesOn
    <2> QED BY <2>1, <2>3, <2>4
  <1>3. ASSUME NEW s \in Slot,
               \/ Return(s) /\ Registry(s)
               \/ Stopped(s)
        PROVE  GhostInv'
    <2>1. /\ req' = [req EXCEPT ![s] = NoRequest] /\ req[s].step = "return"
          /\ req[s].op # "start" /\ UNCHANGED <<disk, cur, objs, view, acked, racy>>
      BY <1>3 DEF Return, Stopped, RegistryOp
    <2> SUFFICES ASSUME ~racy PROVE GhostInv' BY <2>1 DEF GhostInv
    <2>2. UNCHANGED <<running, found, phase, unclean>>
      <3>1. CASE Return(s) /\ Registry(s) BY <1>i, <2>1, <3>1, Histories
      <3>2. CASE Stopped(s) BY <3>2 DEF Stopped, sandboxVars
      <3> QED BY <1>3, <3>1, <3>2
    <2>3. req'[s] = NoRequest /\ Alone(s) BY <1>i, <2>1, TypeEnd
    <2>4. /\ SavesRunning(s)' /\ \A a \in Agent : ~Accounts(s, a)
          /\ req[s].step # "idle" /\ req[s].step # "write" /\ req'[s].step # "write"
          /\ unclean \in BOOLEAN
      BY <1>i, <2>1, <2>3, Values DEF SavesRunning, Accounts, TypeOK
    <2> QED BY <2>1, <2>2, <2>3, <2>4, GhostGoesOn
  <1>4. ASSUME NEW s \in Slot, StartCheck(s) PROVE GhostInv'
    <2>1. /\ req[s].step = "body" /\ req[s].op = "start" /\ Alone(s)
          /\ req'[s] = NoRequest \/ req'[s].step = "sandbox"
          /\ UNCHANGED <<view, acked, racy, sandboxVars>>
      BY <1>4, <1>i, Checking
    <2> SUFFICES ASSUME ~racy PROVE GhostInv' BY <2>1 DEF GhostInv
    <2>2. /\ SavesRunning(s)' /\ \A a \in Agent : ~Accounts(s, a)
          /\ req[s].step # "idle" /\ req[s].step # "write" /\ req'[s].step # "write"
          /\ UNCHANGED <<running, found, phase, unclean>> /\ unclean \in BOOLEAN
      BY <1>i, <2>1, Values DEF SavesRunning, Accounts, TypeOK, sandboxVars
    <2> QED BY <2>1, <2>2, GhostGoesOn
  <1>5. ASSUME UNCHANGED <<registryVars, running, found>>,
               unclean' => unclean \/ phase' # phase,
               ~unclean' => /\ ~unclean
                            /\ \A p \in Proc : phase'[p] = "closing" =>
                                 phase[p] = "closing" \/ Idles(p)
        PROVE  GhostInv'
    <2>1. UNCHANGED <<cur, objs, req, view, acked, racy>> BY <1>5 DEF registryVars
    <2>2. ASSUME ~racy PROVE (\A s \in Slot : SavesRunning(s)') /\ KnownInv'
      BY <1>5, <2>1, <2>2
         DEF SandboxInv, GhostInv, SavesRunning, Current, KnownInv, Runs, Accounts
    <2>3. ASSUME ~racy, ~unclean' PROVE CleanInv'
      <3>1. CleanInv BY <1>5, <2>3 DEF SandboxInv, GhostInv
      <3>2. \A p \in Proc : phase'[p] = "closing" => Idles(p)'
        BY <1>5, <2>1, <2>3, <3>1 DEF CleanInv, Idles
      <3> QED BY <1>5, <2>1, <3>1, <3>2 DEF CleanInv, SavesOne, Runs, Accounts
    <2> QED BY <2>1, <2>2, <2>3 DEF GhostInv
  <1>6. ASSUME NEW p \in Proc, Signal(p) PROVE GhostInv'
    <2>1. /\ phase' = [phase EXCEPT ![p] = "stopping"]
          /\ UNCHANGED <<registryVars, running, found, unclean>>
      BY <1>6 DEF Signal
    <2>2. \A q \in Proc : phase'[q] = "closing" => phase[q] = "closing"
      BY <1>i, <2>1 DEF TypeOK
    <2> QED BY <1>5, <2>1, <2>2
  <1>7. ASSUME NEW p \in Proc, ShutdownStopped(p) PROVE GhostInv'
    <2>1. /\ phase' = [phase EXCEPT ![p] = "closing"] /\ \A a \in Agent : ~running[p][a]
          /\ unclean' = (unclean \/ \E s \in Slot : ProcOf[s] = p /\ req[s] # NoRequest)
          /\ UNCHANGED <<registryVars, running, found>>
      BY <1>7 DEF ShutdownStopped, Close
    <2>2. ~unclean' => ~unclean /\ Idles(p) BY <1>i, <2>1, Values DEF Idles, TypeOK
    <2>3. \A q \in Proc : phase'[q] = "closing" => phase[q] = "closing" \/ q = p
      BY <1>i, <2>1 DEF TypeOK
    <2>4. ASSUME unclean' PROVE GhostInv'
      <3>1. UNCHANGED <<cur, objs, req, view, acked, racy>> BY <2>1 DEF registryVars
      <3> QED BY <2>1, <2>4, <3>1
              DEF SandboxInv, GhostInv, SavesRunning, Current, KnownInv, Runs, Accounts
    <2> QED BY <1>5, <2>1, <2>2, <2>3, <2>4
  <1>8. ASSUME NEW p \in Proc, NEW a \in Agent, MonitorFires(p, a) PROVE GhostInv'
    BY <1>5, <1>8 DEF MonitorFires
  <1>9. CASE UNCHANGED vars BY <1>5, <1>9 DEF vars, sandboxVars
  <1>10. ASSUME NEW s \in Slot, Registry(s) PROVE GhostInv'
    <2>1. DurableInv' BY DurableStep
    <2>2. CASE Load(s) BY <1>10, <2>1, <2>2, GhostLoad
    <2>3. CASE OpenFile(s)
      <3>1. CASE req[s].step = "dir" BY <1>10, <2>3, <3>1, GhostOpen
      <3> QED BY <1>1, <1>10, <2>3, <3>1
    <2>4. CASE InitWritten(s) BY <1>1, <1>10, <2>4 DEF InitWritten
    <2>5. CASE Mutate(s) BY <1>2, <1>10, <2>5
    <2>6. CASE Written(s) BY <1>10, <2>6, GhostWritten
    <2>7. CASE Return(s) BY <1>3, <1>10, <2>7
    <2> QED BY <1>10, <2>2, <2>3, <2>4, <2>5, <2>6, <2>7 DEF Registry, RegistryStep
  <1>11. ASSUME NEW s \in Slot, NEW a \in Agent, phase[ProcOf[s]] # "closing",
                \/ \E op \in RegistryOp : RegistryCall(s, op, a)
                \/ StartCall(s, a)
                \/ \E op \in {"stop", "stopAll"} : StopCall(s, op, a)
         PROVE  GhostInv'
    <2>1. ASSUME NEW op \in RegistryOp, RegistryCall(s, op, a) PROVE GhostInv'
      BY <1>11, <2>1, GhostArrival DEF RegistryCall, sandboxVars
    <2>2. ASSUME StartCall(s, a) PROVE GhostInv'
      BY <1>11, <2>2, GhostArrival DEF StartCall, sandboxVars
    <2>3. ASSUME NEW op \in {"stop", "stopAll"}, StopCall(s, op, a) PROVE GhostInv'
      BY <1>11, <2>3, GhostArrival DEF StopCall
    <2> QED BY <1>11, <2>1, <2>2, <2>3
  <1> QED
    BY <1>2, <1>3, <1>4, <1>6, <1>7, <1>8, <1>9, <1>10, <1>11, GhostStarted, GhostRestart
       DEF Next, ShutdownStops

-----------------------------------------------------------------------------
(* No process has read anything yet, and none runs an agent.                   *)
LEMMA InitSandbox == Init => SandboxInv
  <1> SUFFICES ASSUME Init PROVE SandboxInv OBVIOUS
  <1>1. /\ \A s \in Slot : req[s] = NoRequest /\ req[s].step = "idle" /\ ProcOf[s] \in Proc
        /\ disk = [state |-> "missing", data |-> Fresh] /\ acked = Fresh /\ ~racy
        /\ \A p \in Proc : /\ cur[p] = NoSlot /\ view[p] = Fresh /\ phase[p] = "up"
                           /\ \A a \in Agent : ~running[p][a] /\ monitors[p][a] = 0
    BY Values, ProcAssumption DEF Init, RegistryInit
  <1>2. TypeOK
    <2>1. RegistryTypeOK BY Values DEF Init, RegistryInit, RegistryTypeOK
    <2>2. monitors \in [Proc -> [Agent -> 0 .. MaxMonitors]] BY MaxMonitorsAssumption DEF Init
    <2> QED BY <2>1, <2>2 DEF Init, TypeOK
  <1>3. FlightInv /\ SingleInv /\ MonitorInv
    BY <1>1, Values DEF FlightInv, SingleInv, MonitorInv, Past
  <1>4. DurableInv BY <1>1 DEF DurableInv, FileInv, Persisted, Agrees
  <1>5. GhostInv
    BY <1>1, Values DEF GhostInv, SavesRunning, KnownInv, CleanInv, SavesOne
  <1> QED BY <1>2, <1>3, <1>4, <1>5 DEF SandboxInv

(* The invariant holds in every reachable state.                               *)
LEMMA SandboxInvariant == Spec => []SandboxInv
  <1>1. SandboxInv /\ [Next]_vars => SandboxInv'
    BY TypeStep, SingleStep, MonitorStep, DurableStep, GhostStep DEF SandboxInv
  <1> QED BY InitSandbox, <1>1, PTL DEF Spec

(* The registry, its file, the requests and the monitors keep their types; an  *)
(* interval is never cleared that is not there, however starts and stops of an *)
(* agent overlap.                                                              *)
THEOREM SandboxTypes == Spec => []TypeOK
  BY SandboxInvariant, PTL DEF SandboxInv

(* MonitorsCover: whatever requests, shutdowns and crashes there are,          *)
(* startAgent and stopAgent leave every running agent with an interval, and    *)
(* with exactly one as long as no two requests overlap.                        *)
THEOREM RunningIsMonitored == Spec => []MonitorsCover
  <1>1. SandboxInv => MonitorsCover BY DEF SandboxInv, MonitorInv, MonitorsCover
  <1> QED BY SandboxInvariant, <1>1, PTL

(* SerialDurable: requests that do not overlap, to any number of processes     *)
(* with a registry each and one file between them, leave each process with     *)
(* what it read and saved since, and the file with what the process has that   *)
(* wrote last, or with nothing after a crash in the middle of a write.         *)
THEOREM SerialChangesDurable == Spec => []SerialDurable
  <1>1. SandboxInv => SerialDurable
    BY Values DEF SandboxInv, DurableInv, SerialDurable, Quiet, Agrees
  <1> QED BY SandboxInvariant, <1>1, PTL

(* GhostNeedsCrash: what a process counts as running it runs or found so; and  *)
(* after quiet shutdowns only, and no save of a stale copy, what the file      *)
(* counts as running runs in some process.                                     *)
THEOREM GhostsNeedCrash == Spec => []GhostNeedsCrash
  <1>1. ASSUME SandboxInv, ~racy, Quiet
        PROVE  /\ \A p \in Proc, a \in Agent :
                    cur[p] # NoSlot /\ objs[cur[p]][a].status = "running" =>
                      running[p][a] \/ a \in found[p]
               /\ ~unclean =>
                    \A a \in Agent :
                      Persisted[a].status = "running" => \E p \in Proc : running[p][a]
    <2>1. \A s \in Slot : req[s].step = "idle" BY <1>1, Values DEF Quiet
    <2>2. Persisted = acked /\ \A p \in Proc : Agrees(p)
      BY <1>1, <2>1 DEF SandboxInv, DurableInv
    <2>3. \A p \in Proc, a \in Agent : Runs(p, a) => running[p][a]
      BY <2>1 DEF Runs, Accounts
    <2>4. KnownInv /\ (~unclean => CleanInv) BY <1>1 DEF SandboxInv, GhostInv
    <2>5. \A p \in Proc, a \in Agent :
             cur[p] # NoSlot /\ objs[cur[p]][a].status = "running" =>
               running[p][a] \/ a \in found[p]
      BY <2>2, <2>3, <2>4 DEF Agrees, KnownInv
    <2>6. ~unclean =>
            \A a \in Agent :
              Persisted[a].status = "running" => \E p \in Proc : running[p][a]
      BY <2>1, <2>2, <2>3, <2>4 DEF CleanInv
    <2> QED BY <2>5, <2>6
  <1>2. SandboxInv => GhostNeedsCrash BY <1>1 DEF GhostNeedsCrash
  <1> QED BY SandboxInvariant, <1>2, PTL
-----------------------------------------------------------------------------
(* The ledger of the agents, with requests one after the other.                *)

\* A change on its way to the file is one that the agent on record allows.
Allowed(s) ==
  LET p == ProcOf[s]
      a == req[s].agent
      op == req[s].op
  IN  /\ ~Rejects(op, a, view[p][a])
      /\ op = "start" => view[p][a].installed
      /\ objs[cur[p]] = [view[p] EXCEPT ![a] = Effect(op, view[p][a])]

\* Only agents that are not built in are ever off the record.
Entered(c) == \A a \in Agent : c[a].status = "absent" => a \in Custom /\ c[a] = Absent

LedgerInv ==
  /\ \A s \in Slot :
       /\ req[s].step = "sandbox" =>
            req[s].op = "start" /\ view[ProcOf[s]][req[s].agent].installed
       /\ req[s].step = "dir" => Allowed(s)
  /\ Entered(acked)
  /\ \A p \in Proc : Entered(view[p])

\* What the ledger has on record, in terms of the history.
RecordInv ==
  /\ \A s \in Slot : req[s].step = "write" => OnRecord = view[ProcOf[s]]
  /\ (\A s \in Slot : req[s].step # "write") => OnRecord = acked

(* What the ledger calls the records of a first start are those of Fresh.      *)
LEMMA FirstRecords == Ledger!FirstStart = Fresh /\ Entered(Fresh)
  <1>1. Ledger!Unknown = Absent /\ Ledger!Known = Created
    BY DEF Ledger!Unknown, Ledger!Known, Ledger!Is, Absent, Created
  <1>2. Ledger!FirstStart = Fresh BY <1>1 DEF Ledger!FirstStart, Fresh
  <1>3. Created.status # "absent" BY DEF Created
  <1> QED BY <1>2, <1>3 DEF Fresh, Agent, Entered

(* An operation that the registry does not reject is a lawful change.          *)
LEMMA LawfulEffect ==
  ASSUME NEW a \in Agent, NEW op, NEW e \in Entry,
         ~Rejects(op, a, e), op = "start" => e.installed,
         e.status = "absent" => a \in Custom /\ e = Absent
  PROVE  /\ Effect(op, e) \in Ledger!Lawful(a, e)
         /\ Effect(op, e).status = "absent" => a \in Custom /\ Effect(op, e) = Absent
  <1>1. /\ Ledger!Unknown = Absent /\ Ledger!Known = Created
        /\ Ledger!Is(TRUE, "installed") = [installed |-> TRUE, status |-> "installed"]
    BY DEF Ledger!Unknown, Ledger!Known, Ledger!Is, Absent, Created
  <1>2. /\ Absent.status = "absent" /\ Created.status = "not_installed"
        /\ [e EXCEPT !.status = "running"].status = "running"
        /\ [e EXCEPT !.status = "stopped"].status = "stopped"
    BY DEF Absent, Created, Entry
  <1>3. a \in Custom => a \notin Builtin BY AgentsAssumption
  <1>4. CASE op = "add"
    <2>1. Effect(op, e) = Created /\ e = Absent /\ a \in Custom BY <1>4 DEF Effect, Rejects
    <2> QED BY <1>1, <1>2, <1>3, <2>1 DEF Ledger!Lawful
  <1>5. CASE op # "add"
    <2>1. e # Absent BY <1>2, <1>5 DEF Rejects
    <2>2. Effect(op, e) \in Ledger!AfterKnown(e) \/ op = "remove"
      BY <1>1, <1>5 DEF Effect, Ledger!AfterKnown
    <2>3. CASE op = "remove"
      <3>1. Effect(op, e) = Absent /\ a \in Custom BY <2>3 DEF Effect, Rejects
      <3> QED BY <1>1, <1>3, <2>1, <3>1 DEF Ledger!Lawful
    <2>4. CASE op # "remove"
      <3>1. Effect(op, e).status # "absent" BY <1>2, <1>5, <2>4 DEF Effect
      <3> QED BY <1>1, <2>1, <2>2, <2>4, <3>1 DEF Ledger!Lawful
    <2> QED BY <2>3, <2>4
  <1> QED BY <1>4, <1>5

(* The ledger's records are the view of the process that writes the file, or   *)
(* what the file was last given.                                               *)
LEMMA RecordIs == SandboxInv /\ ~racy => RecordInv
  <1> SUFFICES ASSUME SandboxInv, ~racy PROVE RecordInv OBVIOUS
  <1>1. ASSUME NEW s \in Slot, req[s].step = "write" PROVE OnRecord = view[ProcOf[s]]
    <2>1. FileInv(s) /\ \A t \in Slot \ {s} : req[t].step = "idle" BY <1>1, InFlight
    <2>2. (CHOOSE t \in Slot : req[t].step = "write") = s BY <1>1, <2>1
    <2> QED BY <1>1, <2>1, <2>2 DEF OnRecord, FileInv
  <1>2. ASSUME \A s \in Slot : req[s].step # "write" PROVE OnRecord = acked
    BY <1>2 DEF SandboxInv, DurableInv, OnRecord
  <1> QED BY <1>1, <1>2 DEF RecordInv

(* With one request in flight: whether a save is under way, before a step of   *)
(* the request and after it.                                                   *)
LEMMA Recorded ==
  ASSUME SandboxInv, ~racy, RecordInv, RecordInv',
         NEW s \in Slot, req[s].step # "idle",
         \A t \in Slot \ {s} : req'[t] = req[t]
  PROVE  /\ BeingSaved <=> req[s].step \in {"initWrite", "write"}
         /\ BeingSaved' <=> req'[s].step \in {"initWrite", "write"}
         /\ OnRecord = IF req[s].step = "write" THEN view[ProcOf[s]] ELSE acked
         /\ OnRecord' = IF req'[s].step = "write" THEN view'[ProcOf[s]] ELSE acked'
  <1>1. \A t \in Slot \ {s} : req[t].step = "idle" /\ req'[t].step = "idle" BY InFlight
  <1>2. BeingSaved <=> req[s].step \in {"initWrite", "write"} BY <1>1, Values DEF BeingSaved
  <1>3. BeingSaved' <=> req'[s].step \in {"initWrite", "write"} BY <1>1, Values DEF BeingSaved
  <1>4. OnRecord = IF req[s].step = "write" THEN view[ProcOf[s]] ELSE acked
    BY <1>1 DEF RecordInv
  <1>5. OnRecord' = IF req'[s].step = "write" THEN view'[ProcOf[s]] ELSE acked'
    BY <1>1 DEF RecordInv
  <1> QED BY <1>2, <1>3, <1>4, <1>5

(* Every step of requests that come one after the other keeps the invariant,   *)
(* and is one of the ledger, or none.                                          *)
LEMMA LedgerGoesOn ==
  ASSUME SandboxInv, RecordInv, RecordInv', LedgerInv, ~racy, ~racy', [Next]_vars
  PROVE  LedgerInv' /\ [Ledger!Next]_<<OnRecord, view, BeingSaved>>
  <1>i. TypeOK /\ FlightInv BY DEF SandboxInv
  <1>k. Entered(acked) /\ \A p \in Proc : Entered(view[p]) BY DEF LedgerInv
  \* The slots, when one request was in flight.
  <1>s. ASSUME NEW s \in Slot, req[s].step # "idle", \A t \in Slot \ {s} : req'[t] = req[t],
               req'[s].step = "sandbox" =>
                 req'[s].op = "start" /\ view'[ProcOf[s]][req'[s].agent].installed,
               req'[s].step = "dir" => Allowed(s)',
               Entered(acked)', \A p \in Proc : Entered(view'[p])
        PROVE  LedgerInv'
    <2>1. \A t \in Slot \ {s} : req'[t].step = "idle" BY <1>s, InFlight
    <2> QED BY <1>s, <2>1 DEF LedgerInv, Entered
  \* A step that has nothing to do with the file.
  <1>n. ASSUME NEW s \in Slot, req[s].step \notin {"idle", "initWrite", "write"},
               \A t \in Slot \ {s} : req'[t] = req[t],
               req'[s].step \notin {"initWrite", "write"}, UNCHANGED <<view, acked>>
        PROVE  UNCHANGED <<OnRecord, view, BeingSaved>>
    <2>1. /\ BeingSaved <=> req[s].step \in {"initWrite", "write"}
          /\ BeingSaved' <=> req'[s].step \in {"initWrite", "write"}
          /\ OnRecord = IF req[s].step = "write" THEN view[ProcOf[s]] ELSE acked
          /\ OnRecord' = IF req'[s].step = "write" THEN view'[ProcOf[s]] ELSE acked'
      BY <1>n, Recorded
    <2>2. ~BeingSaved /\ ~BeingSaved' BY <1>n, <2>1
    <2>3. OnRecord' = OnRecord BY <1>n, <2>1
    <2>4. BeingSaved' = BeingSaved BY <2>2 DEF BeingSaved
    <2> QED BY <1>n, <2>3, <2>4
  <1>e. ASSUME UNCHANGED <<view, acked>>
        PROVE  Entered(acked)' /\ \A p \in Proc : Entered(view'[p])
    BY <1>e, <1>k DEF Entered
  <1>1. ASSUME NEW s \in Slot, NEW a \in Agent,
               NEW op \in RegistryOp \cup {"start", "stop", "stopAll"},
               NEW others \in {req, Overtaken(ProcOf[s], a)}, Begin(s, op, a, others)
        PROVE  LedgerInv' /\ UNCHANGED <<OnRecord, view, BeingSaved>>
    <2>1. /\ acked' = acked /\ view' = view
          /\ \A t \in Slot : req[t].step = "idle"
          /\ req'[s].step \in {"load", "body"}
          /\ \A t \in Slot \ {s} : req'[t].step = "idle"
      BY <1>1, <1>i, Arrival
    <2>2. \A t \in Slot : req'[t].step \in {"idle", "load", "body"} BY <2>1
    <2>3. OnRecord = acked /\ OnRecord' = acked' BY <2>1, <2>2 DEF RecordInv
    <2>4. BeingSaved = FALSE /\ BeingSaved' = FALSE BY <2>1, <2>2 DEF BeingSaved
    <2>5. LedgerInv' BY <1>e, <2>1, <2>2 DEF LedgerInv, Entered
    <2> QED BY <2>1, <2>3, <2>4, <2>5
  <1>2. ASSUME NEW s \in Slot, Load(s)
        PROVE  LedgerInv' /\ [Ledger!Next]_<<OnRecord, view, BeingSaved>>
    <2> DEFINE p == ProcOf[s]
    <2>1. /\ req[s].step = "load" /\ acked' = acked /\ Alone(s)
          /\ req'[s].step \in {"body", "initDir"} /\ view'[p] = acked
      BY <1>2, <1>i, Loading
    <2>2. view' = [view EXCEPT ![p] = acked] /\ p \in Proc
      BY <1>2, ProcAssumption DEF Load
    <2>3. \A t \in Slot \ {s} : req'[t] = req[t] BY <2>1 DEF Alone
    <2>4. /\ BeingSaved <=> req[s].step \in {"initWrite", "write"}
          /\ BeingSaved' <=> req'[s].step \in {"initWrite", "write"}
          /\ OnRecord = IF req[s].step = "write" THEN view[ProcOf[s]] ELSE acked
          /\ OnRecord' = IF req'[s].step = "write" THEN view'[ProcOf[s]] ELSE acked'
      BY <2>1, <2>3, Recorded
    <2>5. ~BeingSaved /\ ~BeingSaved' /\ OnRecord = acked /\ OnRecord' = acked'
      BY <2>1, <2>4
    <2>6. BeingSaved' = BeingSaved BY <2>5 DEF BeingSaved
    <2>7. Ledger!Read(p) BY <2>1, <2>2, <2>5, <2>6 DEF Ledger!Read
    <2>8. Entered(acked)' /\ \A q \in Proc : Entered(view'[q])
      BY <1>k, <2>1 DEF Entered, Alone, Keeps
    <2>9. LedgerInv' BY <1>s, <2>1, <2>3, <2>8
    <2> QED BY <2>2, <2>7, <2>9 DEF Ledger!Next
  <1>3. ASSUME NEW s \in Slot, OpenFile(s)
        PROVE  LedgerInv' /\ [Ledger!Next]_<<OnRecord, view, BeingSaved>>
    <2> DEFINE p == ProcOf[s]
               a == req[s].agent
               op == req[s].op
               e == view[p][a]
    <2>1. /\ req[s].step \in {"initDir", "dir"} /\ Alone(s) /\ acked' = acked
          /\ req'[s].step = IF req[s].step = "dir" THEN "write" ELSE "initWrite"
          /\ req[s].step = "initDir" => view' = view
          /\ a \in Agent /\ p \in Proc /\ view \in [Proc -> Content] /\ Current(s) = cur[p]
      BY <1>3, <1>i, Opening, Types
    <2>2. \A t \in Slot \ {s} : req'[t] = req[t] BY <2>1 DEF Alone
    <2>3. /\ BeingSaved <=> req[s].step \in {"initWrite", "write"}
          /\ BeingSaved' <=> req'[s].step \in {"initWrite", "write"}
          /\ OnRecord = IF req[s].step = "write" THEN view[ProcOf[s]] ELSE acked
          /\ OnRecord' = IF req'[s].step = "write" THEN view'[ProcOf[s]] ELSE acked'
      BY <2>1, <2>2, Recorded
    <2>4. /\ ~BeingSaved /\ BeingSaved' /\ OnRecord = acked
          /\ OnRecord' = IF req[s].step = "dir" THEN view'[p] ELSE acked'
      BY <2>1, <2>3
    <2>5. CASE req[s].step = "initDir"
      <3>1. acked = Fresh BY <2>5, InFlight DEF FileInv, Persisted
      <3>2. Ledger!FirstSave BY <2>1, <2>4, <2>5, <3>1, FirstRecords DEF Ledger!FirstSave
      <3>3. LedgerInv' BY <1>e, <1>s, <2>1, <2>2, <2>5
      <3> QED BY <3>2, <3>3 DEF Ledger!Next
    <2>6. CASE req[s].step = "dir"
      <3>1. /\ ~Rejects(op, a, e) /\ (op = "start" => e.installed)
            /\ objs[cur[p]] = [view[p] EXCEPT ![a] = Effect(op, e)]
        BY <2>6 DEF LedgerInv, Allowed
      <3>2. view[p] \in Content /\ e \in Entry BY <2>1 DEF Content
      <3>3. e.status = "absent" => a \in Custom /\ e = Absent
        BY <1>k, <2>1 DEF Entered
      <3>4. view' = [view EXCEPT ![p][a] = objs[cur[p]][a]]
        BY <1>3, <2>1, <2>6 DEF OpenFile
      <3> HIDE DEF e, a, op, p
      <3>5. /\ Effect(op, e) \in Ledger!Lawful(a, e)
            /\ Effect(op, e).status = "absent" => a \in Custom /\ Effect(op, e) = Absent
        BY <2>1, <3>1, <3>2, <3>3, LawfulEffect
      <3>6. objs[cur[p]][a] = Effect(op, e) BY <2>1, <3>1, <3>2 DEF Content
      <3>7. view' = [view EXCEPT ![p][a] = Effect(op, e)] BY <3>4, <3>6
      <3>8. \E r \in Ledger!Lawful(a, view[p][a]) : view' = [view EXCEPT ![p][a] = r]
        BY <3>5, <3>7 DEF e
      <3>9. OnRecord' = view'[p] BY <2>4, <2>6
      <3>10. Ledger!Save(p, a) BY <2>4, <3>8, <3>9 DEF Ledger!Save
      <3>11. \A q \in Proc : Entered(view'[q])
        <4>1. ASSUME NEW q \in Proc, NEW b \in Agent, view'[q][b].status = "absent"
              PROVE  b \in Custom /\ view'[q][b] = Absent
          <5>1. CASE q = p /\ b = a
            <6>1. view'[q][b] = Effect(op, e) BY <2>1, <3>2, <3>7, <5>1 DEF Content
            <6> QED BY <3>5, <4>1, <5>1, <6>1
          <5>2. CASE q # p \/ b # a
            <6>1. view'[q][b] = view[q][b] BY <2>1, <3>2, <3>7, <5>2 DEF Content
            <6> QED BY <1>k, <4>1, <6>1 DEF Entered
          <5> QED BY <5>1, <5>2
        <4> QED BY <4>1 DEF Entered
      <3>12. Entered(acked)' BY <1>k, <2>1 DEF Entered
      <3>13. LedgerInv' BY <1>s, <2>1, <2>2, <2>6, <3>11, <3>12
      <3> QED BY <2>1, <3>10, <3>13 DEF Ledger!Next
    <2> QED BY <2>1, <2>5, <2>6
  <1>4. ASSUME NEW s \in Slot, InitWritten(s) \/ Written(s)
        PROVE  LedgerInv' /\ [Ledger!Next]_<<OnRecord, view, BeingSaved>>
    <2>1. /\ Alone(s) /\ view' = view /\ ProcOf[s] \in Proc
          /\ \/ req[s].step = "initWrite" /\ req'[s].step = "body" /\ acked' = acked
             \/ /\ req[s].step = "write" /\ req'[s].step = "return"
                /\ acked' = view[ProcOf[s]]
      BY <1>4, <1>i, Saving, ProcAssumption
    <2>2. \A t \in Slot \ {s} : req'[t] = req[t] BY <2>1 DEF Alone
    <2>3. /\ BeingSaved <=> req[s].step \in {"initWrite", "write"}
          /\ BeingSaved' <=> req'[s].step \in {"initWrite", "write"}
          /\ OnRecord = IF req[s].step = "write" THEN view[ProcOf[s]] ELSE acked
          /\ OnRecord' = IF req'[s].step = "write" THEN view'[ProcOf[s]] ELSE acked'
      BY <2>1, <2>2, Recorded
    <2>4. /\ BeingSaved /\ ~BeingSaved' /\ OnRecord' = acked'
          /\ OnRecord = IF req[s].step = "write" THEN view[ProcOf[s]] ELSE acked
      BY <2>1, <2>3
    <2>5. Ledger!Saved BY <2>1, <2>4 DEF Ledger!Saved
    <2>6. Entered(acked)' /\ \A p \in Proc : Entered(view'[p]) BY <1>k, <2>1 DEF Entered
    <2>7. LedgerInv' BY <1>s, <2>1, <2>2, <2>6
    <2> QED BY <2>5, <2>7 DEF Ledger!Next
  <1>5. ASSUME NEW s \in Slot, Mutate(s) \/ StartMark(s) \/ StopMark(s)
        PROVE  LedgerInv' /\ UNCHANGED <<OnRecord, view, BeingSaved>>
    <2> DEFINE p == ProcOf[s]
               a == req[s].agent
               op == req[s].op
               c == Current(s)
    <2>1. /\ req[s].step \in {"body", "sandbox"} /\ (op = "start" => req[s].step = "sandbox")
          /\ c = cur[p] /\ Alone(s) /\ UNCHANGED <<disk, cur, view, acked, racy>>
          /\ \/ req'[s] = NoRequest
             \/ /\ req'[s].step = "dir" /\ req'[s].op = op /\ req'[s].agent = a
                /\ ~Rejects(op, a, view[p][a])
                /\ objs'[c] = [view[p] EXCEPT ![a] = Effect(op, view[p][a])]
      BY <1>5, SerialMutation
    <2>2. \A t \in Slot \ {s} : req'[t] = req[t] BY <2>1 DEF Alone
    <2>3. op = "start" => view[p][a].installed BY <2>1 DEF LedgerInv
    <2>4. req'[s].step \in {"idle", "dir"} BY <2>1, Values
    <2>5. req'[s].step = "dir" => Allowed(s)' BY <2>1, <2>3, Values DEF Allowed
    <2>6. LedgerInv' BY <1>e, <1>s, <2>1, <2>2, <2>4, <2>5
    <2> QED BY <1>n, <2>1, <2>2, <2>4, <2>6
  <1>6. ASSUME NEW s \in Slot, Return(s) \/ Started(s) \/ Stopped(s)
        PROVE  LedgerInv' /\ UNCHANGED <<OnRecord, view, BeingSaved>>
    <2>1. /\ req' = [req EXCEPT ![s] = NoRequest] /\ req[s].step = "return"
          /\ UNCHANGED <<disk, cur, objs, view, acked, racy>>
      BY <1>6 DEF Return, Started, Stopped
    <2>2. req'[s] = NoRequest /\ \A t \in Slot \ {s} : req'[t] = req[t]
      BY <1>i, <2>1, TypeEnd
    <2>3. req'[s].step = "idle" BY <2>2, Values
    <2>4. LedgerInv' BY <1>e, <1>s, <2>1, <2>2, <2>3
    <2> QED BY <1>n, <2>1, <2>2, <2>3, <2>4
  <1>7. ASSUME NEW s \in Slot, StartCheck(s)
        PROVE  LedgerInv' /\ UNCHANGED <<OnRecord, view, BeingSaved>>
    <2> DEFINE p == ProcOf[s]
    <2>1. /\ req[s].step = "body" /\ Alone(s) /\ UNCHANGED <<view, acked>>
          /\ \/ req'[s] = NoRequest
             \/ /\ req'[s].step = "sandbox" /\ req'[s].op = "start"
                /\ req'[s].agent = req[s].agent
                /\ objs[req[s].reg][req[s].agent].installed
      BY <1>7, <1>i, Checking
    <2>2. \A t \in Slot \ {s} : req'[t] = req[t] BY <2>1 DEF Alone
    <2>3. /\ req[s].reg = cur[p] /\ Agrees(p) /\ cur[p] # NoSlot
      BY <1>i, <2>1, InFlight, Types, Values DEF FileInv
    <2>4. objs[req[s].reg] = view[p] BY <2>3 DEF Agrees
    <2>5. req'[s].step \in {"idle", "sandbox"} BY <2>1, Values
    <2>6. req'[s].step = "sandbox" =>
            req'[s].op = "start" /\ view'[p][req'[s].agent].installed
      BY <2>1, <2>4, Values
    <2>7. LedgerInv' BY <1>e, <1>s, <2>1, <2>2, <2>5, <2>6
    <2> QED BY <1>n, <2>1, <2>2, <2>5, <2>7
  <1>8. ASSUME UNCHANGED registryVars
        PROVE  LedgerInv' /\ UNCHANGED <<OnRecord, view, BeingSaved>>
    <2>1. UNCHANGED <<disk, cur, objs, req, view, acked>> BY <1>8 DEF registryVars
    <2>2. LedgerInv' BY <2>1 DEF LedgerInv, Allowed, Entered
    <2>3. UNCHANGED <<OnRecord, BeingSaved>> BY <2>1 DEF OnRecord, BeingSaved, Persisted
    <2> QED BY <2>1, <2>2, <2>3
  <1>9. ASSUME NEW p \in Proc, Restart(p)
        PROVE  LedgerInv' /\ [Ledger!Next]_<<OnRecord, view, BeingSaved>>
    <2>1. /\ \A q \in Proc \ {p} : Keeps(q)
          /\ \A s \in Slot : req'[s] = IF ProcOf[s] = p THEN NoRequest ELSE req[s]
          /\ acked' = IF \E s \in Slot : ProcOf[s] = p /\ req[s].step \in {"initWrite", "write"}
                        THEN Fresh ELSE acked
          /\ view' = [view EXCEPT ![p] = Fresh] /\ view'[p] = Fresh
      BY <1>9, <1>i, Ending DEF Restart, RegistryRestart
    <2>2. Entered(acked)' /\ \A q \in Proc : Entered(view'[q])
      <3>1. acked' \in {acked, Fresh} BY <2>1
      <3>2. \A q \in Proc : view'[q] \in {view[q], Fresh} BY <2>1 DEF Keeps
      <3> QED BY <1>k, <3>1, <3>2, FirstRecords DEF Entered
    <2>3. ASSUME NEW s \in Slot
          PROVE  /\ req'[s].step = "sandbox" =>
                      req'[s].op = "start" /\ view'[ProcOf[s]][req'[s].agent].installed
                 /\ req'[s].step = "dir" => Allowed(s)'
      <3>1. CASE ProcOf[s] = p BY <2>1, <3>1, Values
      <3>2. CASE ProcOf[s] # p
        <4>1. req'[s] = req[s] /\ Keeps(ProcOf[s]) BY <2>1, <3>2, ProcAssumption
        <4>2. req[s].step = "dir" => cur[ProcOf[s]] # NoSlot BY <1>i, Types, Values
        <4> QED BY <4>1, <4>2 DEF LedgerInv, Allowed, Keeps
      <3> QED BY <3>1, <3>2
    <2>4. LedgerInv' BY <2>2, <2>3 DEF LedgerInv, Entered
    <2>5. CASE \E s \in Slot : ProcOf[s] = p /\ req[s].step \in {"initWrite", "write"}
      <3>1. PICK s \in Slot : ProcOf[s] = p /\ req[s].step \in {"initWrite", "write"} BY <2>5
      <3>2. \A t \in Slot \ {s} : req[t].step = "idle" BY <3>1, InFlight
      <3>3. \A t \in Slot : req'[t].step = "idle" BY <2>1, <3>1, <3>2, Values
      <3>4. BeingSaved = TRUE /\ BeingSaved' = FALSE BY <3>1, <3>3 DEF BeingSaved
      <3>5. OnRecord' = Fresh BY <2>1, <2>5, <3>3 DEF RecordInv
      <3>6. Ledger!CutShort(p) BY <2>1, <3>4, <3>5, FirstRecords DEF Ledger!CutShort
      <3> QED BY <2>4, <3>6 DEF Ledger!Next
    <2>6. CASE ~\E s \in Slot : ProcOf[s] = p /\ req[s].step \in {"initWrite", "write"}
      <3>1. \A s \in Slot :
               /\ req'[s].step = "initWrite" <=> req[s].step = "initWrite"
               /\ req'[s].step = "write" <=> req[s].step = "write"
               /\ req[s].step = "write" => ProcOf[s] # p
        BY <2>1, <2>6, Values
      <3>2. BeingSaved' = BeingSaved BY <3>1 DEF BeingSaved
      <3>3. OnRecord' = OnRecord
        <4>1. CASE \E s \in Slot : req[s].step = "write"
          <5>1. PICK s \in Slot : req[s].step = "write" BY <4>1
          <5>2. view'[ProcOf[s]] = view[ProcOf[s]]
            BY <2>1, <3>1, <5>1, ProcAssumption DEF Keeps
          <5> QED BY <3>1, <5>1, <5>2 DEF RecordInv
        <4>2. CASE ~\E s \in Slot : req[s].step = "write"
          BY <2>1, <2>6, <3>1, <4>2 DEF RecordInv
        <4> QED BY <4>1, <4>2
      <3>4. Ledger!End(p) BY <2>1, <3>2, <3>3, FirstRecords DEF Ledger!End
      <3> QED BY <2>4, <3>4 DEF Ledger!Next
    <2> QED BY <2>5, <2>6
  <1> QED
    BY <1>1, <1>2, <1>3, <1>4, <1>5, <1>6, <1>7, <1>8, <1>9
       DEF Next, RegistryCall, StartCall, StopCall, ShutdownStops, Registry, RegistryStep,
           MonitorFires, Signal, ShutdownStopped, Close, vars

(* ImplementsLedger: requests that come one after the other, to any number of  *)
(* processes with a registry each, keep the ledger of the agents, through      *)
(* every shutdown and every crash.                                             *)
THEOREM LedgerKept == SerialSpec => ImplementsLedger
  <1>1. Init => LedgerInv /\ Ledger!Init /\ ~racy
    <2> SUFFICES ASSUME Init PROVE LedgerInv /\ Ledger!Init /\ ~racy OBVIOUS
    <2>1. /\ \A s \in Slot : req[s].step = "idle"
          /\ acked = Fresh /\ view = [p \in Proc |-> Fresh] /\ ~racy
      BY Values DEF Init, RegistryInit
    <2>2. OnRecord = Fresh BY <2>1, InitSandbox, RecordIs DEF RecordInv
    <2>3. BeingSaved = FALSE BY <2>1 DEF BeingSaved
    <2>4. LedgerInv BY <2>1, FirstRecords DEF LedgerInv, Entered
    <2> QED BY <2>1, <2>2, <2>3, <2>4, FirstRecords DEF Ledger!Init
  <1>2. [Next /\ ~racy']_vars => [Next]_vars OBVIOUS
  <1>3. ~racy /\ [Next /\ ~racy']_vars => ~racy' BY DEF vars, registryVars
  <1>4. SerialSpec => []SandboxInv /\ []~racy
    BY <1>1, <1>2, <1>3, SandboxInvariant, PTL DEF SerialSpec, Spec
  <1>5. SerialSpec => []RecordInv BY <1>4, RecordIs, PTL
  <1>6. SandboxInv /\ ~racy /\ ~racy' /\ RecordInv /\ RecordInv' /\ LedgerInv /\ [Next]_vars =>
          LedgerInv' /\ [Ledger!Next]_<<OnRecord, view, BeingSaved>>
    BY LedgerGoesOn
  <1> QED BY <1>1, <1>2, <1>4, <1>5, <1>6, PTL
          DEF SerialSpec, ImplementsLedger, Ledger!Spec
=============================================================================
