------------------------------ MODULE EventStream ------------------------------
(***************************************************************************)
(* The streams that dashboards listen to: streamAudit, streamBreaches and  *)
(* /api/live of both servers.  A client of the audit stream is sent a      *)
(* snapshot of the file, and afterwards what audit() announces.  Reading   *)
(* the snapshot suspends; only then does the client join, and only then is *)
(* its closing listened for.                                               *)
(*                                                                         *)
(* Records are numbered by their place in the file.  Left out: what they   *)
(* say, and the events of the bus (event-bus.js), which have no history.   *)
(***************************************************************************)
EXTENDS Integers

CONSTANTS
  Client,
  AuditSlot,    \* audit() calls of this process that can be in flight
  SnapshotSize, \* records of a snapshot: 50 in the code
  MaxLogged     \* bound: records in the file

ASSUME SnapshotAssumption == SnapshotSize \in Nat /\ MaxLogged \in Nat

Logged == 1 .. MaxLogged
NoRecord == 0

VARIABLES
  logged,    \* records in the file
  unsaid,    \* per slot: the record it has appended and not yet announced
  said,      \* history: the records announced so far
  client,    \* the state of each client
  streaming  \* shutdown() has not told the clients yet

streamVars == <<logged, unsaid, said, client, streaming>>

\* joined: in auditClients, or a subscriber of the bus.  beating: its heartbeat
\* interval is alive.  closed: its socket is.  emitted: so the request has said.
\* seen: the snapshot.  History: once and twice, the records received; top, the
\* length of the file, and pending, the records not yet announced, when the
\* snapshot was read; blind, that failed; missed, the records announced between
\* then and the joining; early, its closing came unheard.
ClientState ==
  [step: {"none", "reading", "read", "importing", "open"}, kind: {"audit", "breach", "live"},
   joined: BOOLEAN, beating: BOOLEAN, closed: BOOLEAN, emitted: BOOLEAN,
   seen: SUBSET Logged, once: SUBSET Logged, twice: SUBSET Logged, missed: SUBSET Logged,
   pending: SUBSET Logged, top: 0 .. MaxLogged, blind: BOOLEAN, early: BOOLEAN]

Absent == [step |-> "none", kind |-> "audit", joined |-> FALSE, beating |-> FALSE,
           closed |-> FALSE, emitted |-> FALSE, seen |-> {}, once |-> {}, twice |-> {},
           missed |-> {}, pending |-> {}, top |-> 0, blind |-> FALSE, early |-> FALSE]

StreamTypeOK ==
  /\ logged \in 0 .. MaxLogged
  /\ unsaid \in [AuditSlot -> Logged \cup {NoRecord}]
  /\ said \subseteq Logged
  /\ client \in [Client -> ClientState]
  /\ streaming \in BOOLEAN

StreamInit ==
  /\ logged = 0
  /\ unsaid = [s \in AuditSlot |-> NoRecord]
  /\ said = {}
  /\ client = [c \in Client |-> Absent]
  /\ streaming = TRUE

-----------------------------------------------------------------------------
(* audit(): append, then announce.                                             *)

AppendRecord(s) ==
  /\ unsaid[s] = NoRecord
  /\ logged < MaxLogged
  /\ logged' = logged + 1
  /\ unsaid' = [unsaid EXCEPT ![s] = logged + 1]
  /\ UNCHANGED <<said, client, streaming>>

\* Another process, or broadcast.js, appends: nobody here is told.
AppendElsewhere ==
  /\ logged < MaxLogged
  /\ logged' = logged + 1
  /\ UNCHANGED <<unsaid, said, client, streaming>>

Receive(state, n) ==
  IF state.joined /\ state.kind # "live"
    THEN [state EXCEPT !.once = @ \cup {n}, !.twice = @ \cup (state.once \cap {n})]
  ELSE IF state.step = "read" THEN [state EXCEPT !.missed = @ \cup {n}]
  ELSE state

\* broadcastAuditRecord: to every response that has joined, also of the breach
\* stream.  Writing to one that is closed does nothing.
Announce(s) ==
  /\ unsaid[s] # NoRecord
  /\ unsaid' = [unsaid EXCEPT ![s] = NoRecord]
  /\ said' = said \cup {unsaid[s]}
  /\ client' = [c \in Client |-> Receive(client[c], unsaid[s])]
  /\ UNCHANGED <<logged, streaming>>

-----------------------------------------------------------------------------
(* Clients.                                                                    *)

\* The turn in which a client joins: it is added, its interval set, and its
\* closing listened for.
Joined(state) == [state EXCEPT !.step = "open", !.joined = TRUE, !.beating = TRUE,
                               !.once = state.seen]

Change(c, state) == client' = [client EXCEPT ![c] = state]

\* streamBreaches joins at once; the other two suspend first.
Connect(c, kind) ==
  /\ streaming
  /\ client[c].step = "none"
  /\ Change(c, CASE kind = "audit" -> [Absent EXCEPT !.step = "reading"]
                 [] kind = "live" -> [Absent EXCEPT !.step = "importing", !.kind = "live"]
                 [] kind = "breach" -> Joined([Absent EXCEPT !.kind = "breach"]))
  /\ UNCHANGED <<logged, unsaid, said, streaming>>

Unannounced == {unsaid[s] : s \in AuditSlot} \ {NoRecord}

\* Slip: the first records are taken for the last.
ReadSnapshot_First(c) ==
  /\ client[c].step = "reading"
  /\ Change(c, [client[c] EXCEPT !.step = "read", !.top = logged, !.pending = Unannounced,
                  !.seen = {n \in 1 .. logged : n <= SnapshotSize}])
  /\ UNCHANGED <<logged, unsaid, said, streaming>>

\* readAuditLog, as sendAuditSnapshot will send it.
ReadSnapshot(c) ==
  /\ client[c].step = "reading"
  /\ Change(c, [client[c] EXCEPT !.step = "read", !.top = logged, !.pending = Unannounced,
                  !.seen = {n \in 1 .. logged : n > logged - SnapshotSize}])
  /\ UNCHANGED <<logged, unsaid, said, streaming>>

\* readAuditLog throws, of a torn line or of the disk: the client is sent an
\* empty snapshot, which says ok: true, and joins all the same.
SnapshotFails(c) ==
  /\ client[c].step = "reading"
  /\ Change(c, [client[c] EXCEPT !.step = "read", !.top = logged, !.pending = Unannounced,
                  !.blind = TRUE])
  /\ UNCHANGED <<logged, unsaid, said, streaming>>

Join(c) ==
  /\ client[c].step \in {"read", "importing"}
  /\ Change(c, Joined(client[c]))
  /\ UNCHANGED <<logged, unsaid, said, streaming>>

\* The client leaves, or the connection breaks.
SocketCloses(c) ==
  /\ client[c].step # "none"
  /\ ~client[c].closed
  /\ Change(c, [client[c] EXCEPT !.closed = TRUE])
  /\ UNCHANGED <<logged, unsaid, said, streaming>>

\* Slip: the client leaves the set, its interval stays.
CloseEvent_Beating(c) ==
  /\ client[c].closed /\ ~client[c].emitted
  /\ Change(c, [client[c] EXCEPT !.emitted = TRUE, !.joined = FALSE,
                                 !.early = client[c].step # "open"])
  /\ UNCHANGED <<logged, unsaid, said, streaming>>

\* "close" of the request, once: nobody may be listening yet.
CloseEvent(c) ==
  /\ client[c].closed /\ ~client[c].emitted
  /\ Change(c, [client[c] EXCEPT !.emitted = TRUE, !.joined = FALSE, !.beating = FALSE,
                                 !.early = client[c].step # "open"])
  /\ UNCHANGED <<logged, unsaid, said, streaming>>

-----------------------------------------------------------------------------
\* shutdown(): the clients that have joined are told and their responses ended.
\* Subscribers of the bus are not.
StreamShutdown ==
  /\ streaming
  /\ streaming' = FALSE
  /\ client' = [c \in Client |->
       IF client[c].joined /\ client[c].kind # "live"
         THEN [client[c] EXCEPT !.joined = FALSE, !.closed = TRUE] ELSE client[c]]
  /\ UNCHANGED <<logged, unsaid, said>>

StreamNext ==
  \/ \E s \in AuditSlot : AppendRecord(s) \/ Announce(s)
  \/ AppendElsewhere
  \/ \E c \in Client :
       \/ \E kind \in {"audit", "breach", "live"} : Connect(c, kind)
       \/ ReadSnapshot(c) \/ SnapshotFails(c)
       \/ Join(c)
       \/ SocketCloses(c)
       \/ CloseEvent(c)
  \/ StreamShutdown

StreamSpec == StreamInit /\ [][StreamNext]_streamVars

-----------------------------------------------------------------------------
Listening(c) == client[c].kind = "audit" /\ client[c].joined

\* A record that the client is to have: announced since its snapshot was read,
\* or one of the last then, unless there was no reading them.
Due(state, n) ==
  \/ n > state.top \/ n \in state.pending
  \/ ~state.blind /\ n > state.top - SnapshotSize

(* A client of the audit stream has what was announced, as far back as its     *)
(* snapshot goes: also one whose snapshot could not be read, which lacks the   *)
(* records of the file but none announced after it joined.  A record is lost   *)
(* to it only if announced between the reading and the joining, and comes      *)
(* twice only if appended before the reading and announced after the joining.  *)
DeliveredOnce ==
  \A c \in Client : Listening(c) =>
    LET state == client[c]
    IN  /\ \A n \in said : Due(state, n) =>
             n \in state.once \/ (n \in state.missed /\ n \notin state.seen)
        /\ state.twice \subseteq state.pending \cap state.seen

(* When a client's connection has closed, neither its entry nor its interval   *)
(* stays, unless the close came before the client joined.                      *)
LeftoversNeedEarlyClose ==
  \A c \in Client :
    client[c].emitted /\ (client[c].joined \/ client[c].beating) => client[c].early

=============================================================================
