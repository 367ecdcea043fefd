-------------------------- MODULE MessageBrokerProofs --------------------------
(***************************************************************************)
(* Theorems about MessageBroker, for every set of messages, clients and    *)
(* agents, every LIMIT, and any number of failures and returned messages.  *)
(*                                                                         *)
(* A message may be handed out once per send or return.  What makes it     *)
(* so is that, of the polls that hold a message no other poll wants, there *)
(* is one; that once its UPDATE is done the row is no longer pending; and  *)
(* that a row pending again has no reply under way (OncePerSend).          *)
(***************************************************************************)
EXTENDS MessageBroker, TLAPS

\* Of a message that was never contended: one poll holds it at most, and from
\* its UPDATE on, and after its reply, the row is not to be had again.
OncePer(m) ==
  /\ \A c, d \in Conn : m \in poll[c].rows /\ m \in poll[d].rows => c = d
  /\ m \notin twice
  /\ handed[m] # {} => /\ queue[m].status \notin {"unsent", "pending"}
                       /\ \A c \in Conn : m \notin poll[c].rows
  /\ \A c \in Conn :
       m \in poll[c].rows /\ poll[c].step = "reply" =>
         queue[m].status \notin {"unsent", "pending"}

OncePerSend == \A m \in Message \ contended : OncePer(m)

\* A poll that marked a message is answering with it, or has answered, or the
\* answer was lost.
MarkedInv ==
  \A m \in Message :
    queue[m].status = "delivered" =>
      \/ m \in missed
      \/ handed[m] # {}
      \/ \E c \in Conn : m \in poll[c].rows /\ poll[c].step = "reply"

BrokerInv == TypeOK /\ OncePerSend /\ MarkedInv

-----------------------------------------------------------------------------
(* The rows a poll may find: some messages, all pending.                       *)
LEMMA Selected ==
  ASSUME NEW c \in Conn, NEW rows \in Select(c)
  PROVE  /\ rows \in SUBSET Message
         /\ rows # {}
         /\ \A m \in rows : queue[m].status = "pending"
  BY DEF Select, First, Wanted, ForClient

(* The rows the constants allow.                                               *)
LEMMA Rows ==
  /\ \A status \in {"unsent", "deleted"} : NoRow(status) \in Row
  /\ \A status \in {"unsent", "deleted"} : NoRow(status).status = status
  /\ Idle \in [step: {"idle", "mark", "reply"}, rows: SUBSET Message]
  /\ Idle.step = "idle" /\ Idle.rows = {}
  BY DEF NoRow, Row, Idle

(* The initial state has the type and satisfies the invariant.                 *)
LEMMA InitBroker == Init => BrokerInv
  BY Rows, MaxAssumption
     DEF Init, BrokerInv, TypeOK, OncePerSend, OncePer, MarkedInv

(* Every action keeps the types.                                               *)
LEMMA TypeStep ==
  ASSUME TypeOK, [Next]_vars
  PROVE  TypeOK'
  <1> USE DEF TypeOK
  <1>1. ASSUME NEW m \in Message, NEW type \in Kind, NEW tenant \in Tenant,
               NEW target \in Agent \cup {NoAgent}, NEW priority \in Priority,
               Send(m, type, tenant, target, priority)
        PROVE  TypeOK'
    <2>1. [status |-> "pending", type |-> type, tenant |-> tenant, target |-> target,
           priority |-> priority, expired |-> FALSE] \in Row
      BY PriorityAssumption DEF Row
    <2> QED BY <1>1, <2>1 DEF Send
  <1>2. ASSUME NEW m \in Message, Expire(m) PROVE TypeOK'
    BY <1>2 DEF Expire, Row
  <1>3. ASSUME NEW old \in SUBSET Message, Clean(old) PROVE TypeOK'
    BY <1>3, Rows DEF Clean
  <1>4. ASSUME NEW c \in Conn, Poll(c) PROVE TypeOK'
    <2>1. PICK rows \in Select(c) :
            /\ poll' = [poll EXCEPT ![c] = [step |-> "mark", rows |-> rows]]
            /\ contended' = contended \cup (rows \cap Held)
      BY <1>4 DEF Poll
    <2> QED BY <1>4, <2>1, Selected DEF Poll
  <1>5. ASSUME NEW c \in Conn, Mark(c) PROVE TypeOK'
    <2>1. ASSUME NEW m \in Message
          PROVE  [queue[m] EXCEPT !.status = "delivered"] \in Row
      <3>1. queue[m] \in Row OBVIOUS
      <3> QED BY <3>1 DEF Row
    <2>2. queue' \in [Message -> Row] BY <1>5, <2>1 DEF Mark
    <2> QED BY <1>5, <2>2 DEF Mark
  <1>6. ASSUME NEW c \in Conn, Reply(c) PROVE TypeOK'
    <2>1. handed' \in [Message -> SUBSET Conn] /\ twice' \subseteq Message
      BY <1>6 DEF Reply
    <2> QED BY <1>6, <2>1, Rows DEF Reply
  <1>7. ASSUME NEW c \in Conn, MarkFails(c) PROVE TypeOK'
    BY <1>7, Rows, MaxAssumption DEF MarkFails
  <1>8. ASSUME NEW c \in Conn, ReplyLost(c) PROVE TypeOK'
    BY <1>8, Rows, MaxAssumption DEF ReplyLost
  <1>9. ASSUME NEW m \in Message, NEW status \in {"acknowledged", "pending"},
               Acknowledge(m, status)
        PROVE  TypeOK'
    <2>1. queue' \in [Message -> Row]
      BY <1>9 DEF Acknowledge, Row
    <2>2. /\ handed' \in [Message -> SUBSET Conn] /\ twice' \subseteq Message
          /\ contended' \subseteq Message /\ missed' \subseteq Message
          /\ returned' \in 0 .. MaxReturned
      BY <1>9, MaxAssumption DEF Acknowledge
    <2> QED BY <1>9, <2>1, <2>2 DEF Acknowledge
  <1>10. ASSUME Crash PROVE TypeOK'
    BY <1>10, Rows, MaxAssumption DEF Crash
  <1>11. CASE UNCHANGED vars BY <1>11 DEF vars
  <1> QED
    BY <1>1, <1>2, <1>3, <1>4, <1>5, <1>6, <1>7, <1>8, <1>9, <1>10, <1>11 DEF Next

(* No step hands out a message that is not contended a second time.            *)
LEMMA OnceStep ==
  ASSUME BrokerInv, [Next]_vars
  PROVE  OncePerSend'
  <1> SUFFICES ASSUME NEW n \in Message, n \notin contended'
               PROVE  OncePer(n)'
    BY DEF OncePerSend
  <1> USE DEF BrokerInv, TypeOK, OncePerSend, OncePer
  <1>1. ASSUME NEW m \in Message, NEW type \in Kind, NEW tenant \in Tenant,
               NEW target \in Agent \cup {NoAgent}, NEW priority \in Priority,
               Send(m, type, tenant, target, priority)
        PROVE  OncePer(n)'
    BY <1>1 DEF Send, Row
  <1>2. ASSUME NEW m \in Message, Expire(m) PROVE OncePer(n)'
    <2>1. queue'[n].status = queue[n].status BY <1>2 DEF Expire, Row
    <2> QED BY <1>2, <2>1 DEF Expire
  <1>3. ASSUME NEW old \in SUBSET Message, Clean(old) PROVE OncePer(n)'
    <2>1. queue'[n].status \in {queue[n].status, "deleted"} BY <1>3, Rows DEF Clean
    <2> QED BY <1>3, <2>1 DEF Clean
  <1>4. ASSUME NEW c \in Conn, Poll(c) PROVE OncePer(n)'
    <2>1. PICK rows \in Select(c) :
            /\ poll' = [poll EXCEPT ![c] = [step |-> "mark", rows |-> rows]]
            /\ contended' = contended \cup (rows \cap Held)
      BY <1>4 DEF Poll
    <2>2. UNCHANGED <<queue, handed, twice>> BY <1>4 DEF Poll
    <2>3. \A d \in Conn : poll'[d].rows = IF d = c THEN rows ELSE poll[d].rows
      BY <2>1
    <2>4. \A d \in Conn : poll'[d].step = "reply" => d # c /\ poll[d].step = "reply"
      BY <2>1
    <2>5. n \in rows => \A d \in Conn : n \notin poll[d].rows BY <2>1 DEF Held
    <2>6. n \in rows => handed[n] = {} BY <2>1, Selected
    <2> QED BY <2>1, <2>2, <2>3, <2>4, <2>5, <2>6
  <1>5. ASSUME NEW c \in Conn, Mark(c) PROVE OncePer(n)'
    <2>1. /\ n \in poll[c].rows => queue'[n].status \in {"delivered", "deleted"}
          /\ n \notin poll[c].rows => queue'[n].status = queue[n].status
      BY <1>5 DEF Mark, Row
    <2>2. /\ \A d \in Conn : poll'[d].rows = poll[d].rows
          /\ \A d \in Conn \ {c} : poll'[d].step = poll[d].step
      BY <1>5 DEF Mark
    <2> QED BY <1>5, <2>1, <2>2 DEF Mark
  <1>6. ASSUME NEW c \in Conn, Reply(c) PROVE OncePer(n)'
    <2>1. /\ \A d \in Conn \ {c} : poll'[d] = poll[d]
          /\ poll'[c].rows = {} /\ poll'[c].step = "idle"
      BY <1>6, Rows DEF Reply
    <2>2. CASE n \in poll[c].rows
      <3>1. handed[n] = {} /\ n \notin twice' BY <1>6, <2>2 DEF Reply
      <3>2. \A d \in Conn : n \notin poll'[d].rows BY <1>6, <2>1, <2>2 DEF Reply
      <3> QED BY <1>6, <2>2, <3>1, <3>2 DEF Reply
    <2>3. CASE n \notin poll[c].rows
      BY <1>6, <2>1, <2>3 DEF Reply
    <2> QED BY <2>2, <2>3
  <1>7. ASSUME NEW c \in Conn, MarkFails(c) \/ ReplyLost(c) PROVE OncePer(n)'
    <2>1. /\ \A d \in Conn \ {c} : poll'[d] = poll[d]
          /\ poll'[c].rows = {} /\ poll'[c].step = "idle"
      BY <1>7, Rows DEF MarkFails, ReplyLost
    <2> QED BY <1>7, <2>1 DEF MarkFails, ReplyLost
  <1>8. ASSUME NEW m \in Message, NEW status \in {"acknowledged", "pending"},
               Acknowledge(m, status)
        PROVE  OncePer(n)'
    <2>1. queue'[n].status = IF n = m THEN status ELSE queue[n].status
      BY <1>8 DEF Acknowledge, Row
    <2>2. CASE status = "pending" /\ n = m
      BY <1>8, <2>2 DEF Acknowledge, Held
    <2>3. CASE status # "pending" \/ n # m
      BY <1>8, <2>1, <2>3 DEF Acknowledge
    <2> QED BY <2>2, <2>3
  <1>9. ASSUME Crash PROVE OncePer(n)'
    BY <1>9, Rows DEF Crash
  <1>10. CASE UNCHANGED vars BY <1>10 DEF vars
  <1> HIDE DEF BrokerInv, TypeOK, OncePerSend, OncePer
  <1> QED BY <1>1, <1>2, <1>3, <1>4, <1>5, <1>6, <1>7, <1>8, <1>9, <1>10 DEF Next

(* No step leaves a marked message without somebody who has it, brings it or   *)
(* lost it.                                                                    *)
LEMMA MarkedStep ==
  ASSUME BrokerInv, [Next]_vars
  PROVE  MarkedInv'
  <1> DEFINE Has(n, c) == n \in poll[c].rows /\ poll[c].step = "reply"
  <1> SUFFICES ASSUME NEW n \in Message, queue'[n].status = "delivered"
               PROVE  n \in missed' \/ handed'[n] # {} \/ \E c \in Conn : Has(n, c)'
    BY DEF MarkedInv
  <1> USE DEF BrokerInv, TypeOK, MarkedInv
  <1>1. ASSUME NEW m \in Message, NEW type \in Kind, NEW tenant \in Tenant,
               NEW target \in Agent \cup {NoAgent}, NEW priority \in Priority,
               Send(m, type, tenant, target, priority)
        PROVE  n \in missed' \/ handed'[n] # {} \/ \E c \in Conn : Has(n, c)'
    BY <1>1 DEF Send
  <1>2. ASSUME NEW m \in Message, Expire(m)
        PROVE  n \in missed' \/ handed'[n] # {} \/ \E c \in Conn : Has(n, c)'
    <2>1. queue'[n].status = queue[n].status BY <1>2 DEF Expire, Row
    <2> QED BY <1>2, <2>1 DEF Expire
  <1>3. ASSUME NEW old \in SUBSET Message, Clean(old)
        PROVE  n \in missed' \/ handed'[n] # {} \/ \E c \in Conn : Has(n, c)'
    <2>1. queue'[n].status \in {queue[n].status, "deleted"} BY <1>3, Rows DEF Clean
    <2> QED BY <1>3, <2>1 DEF Clean
  <1>4. ASSUME NEW c \in Conn, Poll(c)
        PROVE  n \in missed' \/ handed'[n] # {} \/ \E d \in Conn : Has(n, d)'
    <2>1. \A d \in Conn \ {c} : poll'[d] = poll[d] BY <1>4 DEF Poll
    <2>2. poll[c].step # "reply" BY <1>4 DEF Poll, Idle
    <2> QED BY <1>4, <2>1, <2>2 DEF Poll
  <1>5. ASSUME NEW c \in Conn, Mark(c)
        PROVE  n \in missed' \/ handed'[n] # {} \/ \E d \in Conn : Has(n, d)'
    <2>1. n \notin poll[c].rows => queue'[n] = queue[n] BY <1>5 DEF Mark
    <2>2. /\ \A d \in Conn : poll'[d].rows = poll[d].rows
          /\ \A d \in Conn \ {c} : poll'[d].step = poll[d].step
          /\ poll'[c].step = "reply"
      BY <1>5 DEF Mark
    <2>3. UNCHANGED <<handed, missed>> /\ poll[c].step # "reply" BY <1>5 DEF Mark
    <2>4. CASE n \in poll[c].rows BY <2>2, <2>4
    <2>5. CASE n \notin poll[c].rows BY <2>1, <2>2, <2>3, <2>5
    <2> QED BY <2>4, <2>5
  <1>6. ASSUME NEW c \in Conn, Reply(c)
        PROVE  n \in missed' \/ handed'[n] # {} \/ \E d \in Conn : Has(n, d)'
    <2>1. /\ \A d \in Conn \ {c} : poll'[d] = poll[d]
          /\ handed'[n] = IF n \in poll[c].rows THEN handed[n] \cup {c} ELSE handed[n]
      BY <1>6 DEF Reply
    <2>2. UNCHANGED <<queue, missed>> BY <1>6 DEF Reply
    <2> QED BY <2>1, <2>2
  <1>7. ASSUME NEW c \in Conn, MarkFails(c)
        PROVE  n \in missed' \/ handed'[n] # {} \/ \E d \in Conn : Has(n, d)'
    <2>1. /\ \A d \in Conn \ {c} : poll'[d] = poll[d]
          /\ poll[c].step # "reply"
      BY <1>7 DEF MarkFails
    <2> QED BY <1>7, <2>1 DEF MarkFails
  <1>8. ASSUME NEW c \in Conn, ReplyLost(c)
        PROVE  n \in missed' \/ handed'[n] # {} \/ \E d \in Conn : Has(n, d)'
    <2>1. \A d \in Conn \ {c} : poll'[d] = poll[d] BY <1>8 DEF ReplyLost
    <2> QED BY <1>8, <2>1 DEF ReplyLost
  <1>9. ASSUME NEW m \in Message, NEW status \in {"acknowledged", "pending"},
               Acknowledge(m, status)
        PROVE  n \in missed' \/ handed'[n] # {} \/ \E d \in Conn : Has(n, d)'
    <2>1. queue'[n].status = IF n = m THEN status ELSE queue[n].status
      BY <1>9 DEF Acknowledge, Row
    <2> QED BY <1>9, <2>1 DEF Acknowledge
  <1>10. ASSUME Crash PROVE n \in missed' \/ handed'[n] # {} \/ \E d \in Conn : Has(n, d)'
    BY <1>10 DEF Crash
  <1>11. CASE UNCHANGED vars BY <1>11 DEF vars
  <1> HIDE DEF BrokerInv, TypeOK, MarkedInv, Has
  <1> QED
    BY <1>1, <1>2, <1>3, <1>4, <1>5, <1>6, <1>7, <1>8, <1>9, <1>10, <1>11 DEF Next

\* What every reachable state of the broker satisfies.
LEMMA BrokerInvariant == Spec => []BrokerInv
  <1>1. BrokerInv /\ [Next]_vars => BrokerInv'
    BY TypeStep, OnceStep, MarkedStep DEF BrokerInv
  <1> QED BY InitBroker, <1>1, PTL DEF Spec

-----------------------------------------------------------------------------
(* The table, the polls and the histories keep their types: a row that is not  *)
(* there stays so, and a poll is idle exactly when it holds no rows, so that   *)
(* no UPDATE is sent for an empty SELECT.                                      *)
THEOREM BrokerTypes == Spec => []TypeOK
  BY BrokerInvariant, PTL DEF BrokerInv

(* CopiesNeedContention: a message is handed out once per send or return,      *)
(* unless two polls held it at once or one held it while it was returned,      *)
(* whatever fails, is lost, ends early or is acknowledged late.                *)
THEOREM NoUncontendedCopies == Spec => []CopiesNeedContention
  <1>1. BrokerInv => CopiesNeedContention
    BY DEF BrokerInv, TypeOK, OncePerSend, OncePer, CopiesNeedContention
  <1> QED BY BrokerInvariant, <1>1, PTL

(* DeliveredReached: a row that a poll put on record as delivered, and that no *)
(* poll holds any more, was in a reply since it was last sent or returned,     *)
(* whoever acknowledged it in between and with what status.                    *)
THEOREM DeliveredMeansReached == Spec => []DeliveredReached
  <1>1. BrokerInv => DeliveredReached
    BY DEF BrokerInv, MarkedInv, DeliveredReached, Held
  <1> QED BY BrokerInvariant, <1>1, PTL
=============================================================================
