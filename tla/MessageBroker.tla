----------------------------- MODULE MessageBroker -----------------------------
(***************************************************************************)
(* src/message-broker.js behind /api/messages of wrapper-server.js: a      *)
(* MySQL table of messages that agents poll.  A poll is a SELECT of        *)
(* pending rows, an UPDATE that marks the rows it found, and the reply;    *)
(* the three do not form a transaction, and the UPDATE names rows by id,   *)
(* whatever has become of them since.                                      *)
(*                                                                         *)
(* Left out: the payload; the event that sendMessage shows to dashboards;  *)
(* CREATE TABLE IF NOT EXISTS; and the order of equal priorities           *)
(* (created_at has a resolution of one second, so any order can occur).    *)
(*                                                                         *)
(* Definitions commented "Slip" are not part of the model: each is a way   *)
(* the definition after it could have been coded wrongly.                  *)
(***************************************************************************)
EXTENDS Naturals, FiniteSets

CONSTANTS
  Message,      \* rows the table can hold
  Conn,         \* clients that poll; one agent may poll on several
  AgentOf,      \* the agentId a client polls for
  TenantOf,     \* and its tenantId
  Kind,         \* types of message that are sent
  Priority,     \* priorities that are used
  Limit,        \* LIMIT of a poll
  NoAgent,      \* NULL as target_agent
  NoTenant,     \* the tenant of a row that is not there
  MaxFailures,  \* bound: failing databases, lost replies, crashes
  MaxReturned   \* bound: acknowledgements with status "pending"

Agent == {AgentOf[c] : c \in Conn}
Tenant == {TenantOf[c] : c \in Conn}

ASSUME KindAssumption == Kind \subseteq {"direct", "broadcast", "tenant", "system"}
ASSUME PriorityAssumption == Priority \subseteq Nat
ASSUME LimitAssumption == Limit \in Nat \ {0}
ASSUME NoAgentAssumption == NoAgent \notin Agent /\ NoTenant \notin Tenant
ASSUME MaxAssumption == MaxFailures \in Nat /\ MaxReturned \in Nat

VARIABLES
  queue,      \* message_queue
  poll,       \* the poll each client has in flight: its step and its rows
  handed,     \* history: the clients whose replies carried a message, since it
              \* was last sent or returned
  twice,      \* history: messages that more than one such reply carried
  contended,  \* history: messages that two polls held at once, or that were
              \* returned to the queue while a poll held them
  missed,     \* history: messages in a reply that was lost, since they were
              \* last sent or returned
  failures,   \* failures so far
  returned    \* messages returned to the queue so far

vars == <<queue, poll, handed, twice, contended, missed, failures, returned>>

Row == [status: {"unsent", "pending", "delivered", "acknowledged", "deleted"},
        type: Kind \cup {"none"}, tenant: Tenant \cup {NoTenant},
        target: Agent \cup {NoAgent}, priority: Nat, expired: BOOLEAN]

NoRow(status) == [status |-> status, type |-> "none", tenant |-> NoTenant,
                  target |-> NoAgent, priority |-> 0, expired |-> FALSE]

Idle == [step |-> "idle", rows |-> {}]

TypeOK ==
  /\ queue \in [Message -> Row]
  /\ poll \in [Conn -> [step: {"idle", "mark", "reply"}, rows: SUBSET Message]]
  /\ \A c \in Conn : poll[c].step = "idle" <=> poll[c].rows = {}
  /\ handed \in [Message -> SUBSET Conn]
  /\ twice \subseteq Message
  /\ contended \subseteq Message
  /\ missed \subseteq Message
  /\ failures \in 0 .. MaxFailures
  /\ returned \in 0 .. MaxReturned

Init ==
  /\ queue = [m \in Message |-> NoRow("unsent")]
  /\ poll = [c \in Conn |-> Idle]
  /\ handed = [m \in Message |-> {}]
  /\ twice = {}
  /\ contended = {}
  /\ missed = {}
  /\ failures = 0
  /\ returned = 0

-----------------------------------------------------------------------------
\* The messages that polls under way have found.
Held == UNION {poll[c].rows : c \in Conn}

(* Sending. *)

\* sendMessage and broadcastToTenant: one INSERT.  Broadcasts name no target;
\* a tenant or system message may or may not.
Send(m, type, tenant, target, priority) ==
  /\ queue[m].status = "unsent"
  /\ type = "broadcast" => target = NoAgent
  /\ type = "direct" => target # NoAgent
  /\ queue' = [queue EXCEPT ![m] =
                 [status |-> "pending", type |-> type, tenant |-> tenant,
                  target |-> target, priority |-> priority, expired |-> FALSE]]
  /\ UNCHANGED <<poll, handed, twice, contended, missed, failures, returned>>

\* expires_at passes.
Expire(m) ==
  /\ queue[m].status \notin {"unsent", "deleted"}
  /\ ~queue[m].expired
  /\ queue' = [queue EXCEPT ![m].expired = TRUE]
  /\ UNCHANGED <<poll, handed, twice, contended, missed, failures, returned>>

\* cleanExpiredMessages, wherever it is called from: expired rows go, and of
\* those no longer pending the ones sent more than a day ago.
Clean(old) ==
  LET gone == {m \in Message : /\ queue[m].status \notin {"unsent", "deleted"}
                               /\ queue[m].expired \/ m \in old}
  IN  /\ \A m \in old : queue[m].status \in {"delivered", "acknowledged"}
      /\ gone # {}
      /\ queue' = [m \in Message |->
                     IF m \in gone THEN NoRow("deleted") ELSE queue[m]]
      /\ UNCHANGED <<poll, handed, twice, contended, missed, failures, returned>>

-----------------------------------------------------------------------------
(* pollMessages. *)

\* The WHERE clause without its status.
ForClient(c) ==
  {m \in Message :
     /\ queue[m].status \notin {"unsent", "deleted"}
     /\ ~queue[m].expired
     /\ \/ queue[m].target = AgentOf[c]
        \/ queue[m].type = "broadcast" /\ queue[m].tenant = TenantOf[c]}

Wanted(c) == {m \in ForClient(c) : queue[m].status = "pending"}

\* ORDER BY priority DESC LIMIT: the results it can have.
First(wanted) ==
  {rows \in SUBSET wanted :
     /\ Cardinality(rows) <= Limit
     /\ rows # wanted => Cardinality(rows) = Limit
     /\ \A m \in rows, n \in wanted \ rows : queue[m].priority >= queue[n].priority}

\* Slip: rows already delivered are found again.
Select_AnyStatus(c) == First(ForClient(c)) \ {{}}

\* Slip: an empty result is not told apart, and goes on to the UPDATE.
Select_Empty(c) == First(Wanted(c))

Select(c) == First(Wanted(c)) \ {{}}

\* The SELECT; one that finds nothing is answered at once and changes nothing.
Poll(c) ==
  /\ poll[c] = Idle
  /\ \E rows \in Select(c) :
       /\ poll' = [poll EXCEPT ![c] = [step |-> "mark", rows |-> rows]]
       /\ contended' = contended \cup (rows \cap Held)
  /\ UNCHANGED <<queue, handed, twice, missed, failures, returned>>

\* Slip: the reply does not wait for the UPDATE, which then finds nothing.
Mark_Forgotten(c) ==
  /\ poll[c].step = "mark"
  /\ poll' = [poll EXCEPT ![c].step = "reply"]
  /\ UNCHANGED <<queue, handed, twice, contended, missed, failures, returned>>

\* The UPDATE.  Rows deleted meanwhile are not there to be marked.
Mark(c) ==
  /\ poll[c].step = "mark"
  /\ poll' = [poll EXCEPT ![c].step = "reply"]
  /\ queue' = [m \in Message |->
                 IF m \in poll[c].rows /\ queue[m].status # "deleted"
                   THEN [queue[m] EXCEPT !.status = "delivered"] ELSE queue[m]]
  /\ UNCHANGED <<handed, twice, contended, missed, failures, returned>>

Reply(c) ==
  /\ poll[c].step = "reply"
  /\ poll' = [poll EXCEPT ![c] = Idle]
  /\ handed' = [m \in Message |->
                  IF m \in poll[c].rows THEN handed[m] \cup {c} ELSE handed[m]]
  /\ twice' = twice \cup {m \in poll[c].rows : handed[m] # {}}
  /\ UNCHANGED <<queue, contended, missed, failures, returned>>

\* Slip: an UPDATE that fails is logged, and what is left is an empty reply
\* although the rows are marked.
MarkFails_Half(c) ==
  /\ poll[c].step = "mark"
  /\ failures < MaxFailures
  /\ failures' = failures + 1
  /\ poll' = [poll EXCEPT ![c] = Idle]
  /\ queue' = [m \in Message |->
                 IF m \in poll[c].rows /\ queue[m].status # "deleted"
                   THEN [queue[m] EXCEPT !.status = "delivered"] ELSE queue[m]]
  /\ UNCHANGED <<handed, twice, contended, missed, returned>>

\* The UPDATE fails: status 503, and the rows stay as they are.
MarkFails(c) ==
  /\ poll[c].step = "mark"
  /\ failures < MaxFailures
  /\ failures' = failures + 1
  /\ poll' = [poll EXCEPT ![c] = Idle]
  /\ UNCHANGED <<queue, handed, twice, contended, missed, returned>>

\* The client is gone, or gave up waiting, before the reply reached it.
ReplyLost(c) ==
  /\ poll[c].step = "reply"
  /\ failures < MaxFailures
  /\ failures' = failures + 1
  /\ poll' = [poll EXCEPT ![c] = Idle]
  /\ missed' = missed \cup poll[c].rows
  /\ UNCHANGED <<queue, handed, twice, contended, returned>>

\* The wrapper ends: polls in flight end with it, the table stays.
Crash ==
  /\ failures < MaxFailures
  /\ failures' = failures + 1
  /\ poll' = [c \in Conn |-> Idle]
  /\ missed' = missed \cup UNION {poll[c].rows : c \in {d \in Conn : poll[d].step = "reply"}}
  /\ UNCHANGED <<queue, handed, twice, contended, returned>>

-----------------------------------------------------------------------------
(* acknowledgeMessage: whoever names a messageId sets the status of its row,   *)
(* whatever that was, with any string.  "pending" asks for another delivery;   *)
(* "acknowledged" stands for every other string, "delivered" by default: the   *)
(* model keeps it apart from the "delivered" of a poll.                        *)

Acknowledge(m, status) ==
  /\ queue[m].status \notin {"unsent", "deleted", status}
  /\ queue' = [queue EXCEPT ![m].status = status]
  /\ IF status = "pending"
       THEN /\ returned < MaxReturned
            /\ returned' = returned + 1
            /\ handed' = [handed EXCEPT ![m] = {}]
            /\ twice' = twice \ {m}
            /\ contended' = contended \cup ({m} \cap Held)
            /\ missed' = missed \ {m}
       ELSE UNCHANGED <<returned, handed, twice, contended, missed>>
  /\ UNCHANGED <<poll, failures>>

-----------------------------------------------------------------------------
Next ==
  \/ \E m \in Message, type \in Kind, tenant \in Tenant,
        target \in Agent \cup {NoAgent}, priority \in Priority :
       Send(m, type, tenant, target, priority)
  \/ \E m \in Message : Expire(m)
  \/ \E old \in SUBSET Message : Clean(old)
  \/ \E c \in Conn :
       \/ Poll(c)
       \/ Mark(c)
       \/ Reply(c)
       \/ MarkFails(c)
       \/ ReplyLost(c)
  \/ \E m \in Message, status \in {"acknowledged", "pending"} :
       Acknowledge(m, status)
  \/ Crash

Spec == Init /\ [][Next]_vars

(* Clients keep polling, and the wrapper carries a poll through.               *)
FairSpec == Spec /\ \A c \in Conn : WF_vars(Poll(c) \/ Mark(c) \/ Reply(c))

-----------------------------------------------------------------------------
(* No message is handed out twice, unless two polls held it at once or the     *)
(* agent returned it (and once only after a return, unless a poll was carrying *)
(* it then): a failed UPDATE, a lost reply, a crash or a late acknowledgement  *)
(* of another client never cause a second copy.                                *)
CopiesNeedContention == twice \subseteq contended

(* A message that a poll put on record as delivered, and that no poll still    *)
(* holds, was in a reply since it was last sent or returned: in one that       *)
(* reached its client or in one that was lost.  Neither a failed UPDATE, nor   *)
(* one that follows an acknowledgement of anybody, nor a return swallows it.   *)
(* (A row that was acknowledged may have reached no one.)                      *)
DeliveredReached ==
  \A m \in Message :
    queue[m].status = "delivered" /\ m \notin Held =>
      m \in missed \/ handed[m] # {}

(* With clients that keep polling and finitely many failures and returns, a    *)
(* message that some client wants does not wait forever: it is taken or it     *)
(* expires, whatever its priority.                                             *)
PendingTaken ==
  \A m \in Message :
    (\E c \in Conn : m \in Wanted(c)) ~> (\A c \in Conn : m \notin Wanted(c))

(* "broadcast: one agent -> all agents in same tenant": polls put a broadcast  *)
(* on record as delivered only when every client of the tenant has it.         *)
BroadcastReachesAll ==
  \A m \in Message :
    queue[m].type = "broadcast" /\ queue[m].status = "delivered" =>
      \A c \in Conn : TenantOf[c] = queue[m].tenant => c \in handed[m] \/ m \in poll[c].rows
=============================================================================
