----------------------------- MODULE ConsentStore -----------------------------
(***************************************************************************)
(* src/consent-manager.js: the consents of a user for a scope, and the     *)
(* processing agreements, in two lists in memory that the calls change at  *)
(* once, and two tables that they change by statements nobody waits for.   *)
(*                                                                         *)
(* The statements go to a pool of connections: any of them may be executed *)
(* first.  A date has a resolution of one instant in memory and of one     *)
(* second, two instants here, in the tables.  (A database that rounds the  *)
(* fraction of a second only lets a second begin earlier.)  The tables are *)
(* loaded when the module is imported, and the import waits for that.      *)
(*                                                                         *)
(* Left out: further users, tenants and scopes, whose records a decision   *)
(* filters out; the demo records; reports, which only count.               *)
(***************************************************************************)
EXTENDS Naturals, Sequences

CONSTANTS
  MaxConsents,  \* bound: records of either kind
  MaxInstant    \* bound: the last instant

ASSUME MaxConsentsAssumption == MaxConsents \in Nat \ {0} /\ MaxInstant \in Nat

ConsentId == 1 .. MaxConsents
RecordKind == {"consent", "agreement"}
ConsentRecord == [id: ConsentId, kind: RecordKind, given: BOOLEAN, revoked: BOOLEAN,
                  at: 0 .. MaxInstant]
RecordLists == [RecordKind -> Seq(ConsentRecord)]
NoRecords == [kind \in RecordKind |-> <<>>]

VARIABLES
  consents,       \* per kind: the list in memory
  consentTable,   \* per kind: the table
  mysqlAvailable, \* as in the code
  sent,           \* statements on their way
  load,           \* initializeConsentManager: its step
  instant,        \* the time
  recorded,       \* how many records there have been
  revoked,        \* history: records whose revocation was answered
  excused         \* history: records with a statement that failed, was cut off
                  \* or came too early, or for which none was sent

consentVars == <<consents, consentTable, mysqlAvailable, sent, load,
                 instant, recorded, revoked, excused>>

Statement == [op: {"insert", "revoke"}, record: ConsentRecord]
NoLoad == [step |-> "none", kind |-> "consent"]

ConsentTypeOK ==
  /\ consents \in RecordLists
  /\ consentTable \in RecordLists
  /\ mysqlAvailable \in BOOLEAN
  /\ sent \subseteq Statement
  /\ load \in [step: {"none", "create", "select"}, kind: RecordKind]
  /\ instant \in 0 .. MaxInstant
  /\ recorded \in 0 .. MaxConsents
  /\ revoked \subseteq ConsentId
  /\ excused \subseteq ConsentId

ConsentInit ==
  /\ consents = NoRecords
  /\ consentTable = NoRecords
  /\ mysqlAvailable = FALSE
  /\ sent = {}
  /\ load = [NoLoad EXCEPT !.step = "create"]
  /\ instant = 0
  /\ recorded = 0
  /\ revoked = {}
  /\ excused = {}

-----------------------------------------------------------------------------
Ids(list) == {list[i].id : i \in DOMAIN list}
SentIds == {s.record.id : s \in sent}

\* Rows as they come back from a table: recorded_at is a TIMESTAMP.
\* Slip: revoked_at is not copied.
Loaded_NotRevoked(rows) ==
  [i \in DOMAIN rows |-> [rows[i] EXCEPT !.at = 2 * (@ \div 2), !.revoked = FALSE]]

Loaded(rows) == [i \in DOMAIN rows |-> [rows[i] EXCEPT !.at = 2 * (@ \div 2)]]

Send(op, record) == IF mysqlAvailable THEN sent \cup {[op |-> op, record |-> record]} ELSE sent

Revoked(record) == [record EXCEPT !.given = FALSE, !.revoked = TRUE]

\* The UPDATE: the date of a row stays.
RowRevoked(rows, id) ==
  [i \in DOMAIN rows |-> IF rows[i].id = id THEN Revoked(rows[i]) ELSE rows[i]]

-----------------------------------------------------------------------------
(* The calls.                                                                  *)

\* recordConsent, createAgreement.
Record(kind, given) ==
  LET record == [id |-> recorded + 1, kind |-> kind, given |-> given,
                 revoked |-> FALSE, at |-> instant]
  IN  /\ load = NoLoad
      /\ recorded < MaxConsents
      /\ recorded' = recorded + 1
      /\ consents' = [consents EXCEPT ![kind] = Append(@, record)]
      /\ sent' = Send("insert", record)
      /\ excused' = IF mysqlAvailable THEN excused ELSE excused \cup {record.id}
      /\ UNCHANGED <<consentTable, mysqlAvailable, load, instant, revoked>>

\* Slip: the UPDATE is forgotten.
RevokeConsent_MemoryOnly(i) ==
  LET record == consents["consent"][i]
  IN  /\ load = NoLoad
      /\ consents' = [consents EXCEPT !["consent"] = [@ EXCEPT ![i] = Revoked(record)]]
      /\ revoked' = revoked \cup {record.id}
      /\ UNCHANGED <<consentTable, mysqlAvailable, sent, load, instant, recorded, excused>>

\* An opt-out can be revoked like an opt-in, and a record again.
RevokeConsent(i) ==
  LET record == consents["consent"][i]
  IN  /\ load = NoLoad
      /\ consents' = [consents EXCEPT !["consent"] = [@ EXCEPT ![i] = Revoked(record)]]
      /\ sent' = Send("revoke", Revoked(record))
      /\ revoked' = revoked \cup {record.id}
      /\ excused' = IF mysqlAvailable THEN excused ELSE excused \cup {record.id}
      /\ UNCHANGED <<consentTable, mysqlAvailable, load, instant, recorded>>

\* checkConsent: of the records that are not revoked the most recent decides;
\* the sort is stable, so that of equally recent ones the first in the list does.
Active(list) == {i \in DOMAIN list : ~list[i].revoked}
Newer(list, i, j) == list[i].at > list[j].at \/ (list[i].at = list[j].at /\ i < j)
Allowed(list) ==
  \E i \in Active(list) :
    list[i].given /\ \A j \in Active(list) \ {i} : Newer(list, i, j)

-----------------------------------------------------------------------------
(* The statements.                                                             *)

\* An UPDATE that finds no row changes nothing.
Execute(s) ==
  LET kind == s.record.kind
      rows == consentTable[kind]
  IN  /\ s \in sent
      /\ sent' = sent \ {s}
      /\ IF s.op = "insert"
           THEN /\ consentTable' = [consentTable EXCEPT ![kind] = Append(rows, s.record)]
                /\ UNCHANGED excused
           ELSE /\ consentTable' = [consentTable EXCEPT ![kind] = RowRevoked(rows, s.record.id)]
                /\ excused' = IF s.record.id \in Ids(rows) THEN excused
                              ELSE excused \cup {s.record.id}
      /\ UNCHANGED <<consents, mysqlAvailable, load, instant, recorded, revoked>>

\* The error is logged, or not even that.
ExecuteFails(s) ==
  /\ s \in sent
  /\ sent' = sent \ {s}
  /\ excused' = excused \cup {s.record.id}
  /\ UNCHANGED <<consents, consentTable, mysqlAvailable, load, instant,
                 recorded, revoked>>

-----------------------------------------------------------------------------
(* initializeConsentManager, as the module is imported.                        *)

\* The tables exist; from here on calls send statements.
TablesExist ==
  /\ load.step = "create"
  /\ mysqlAvailable' = TRUE
  /\ load' = [load EXCEPT !.step = "select"]
  /\ UNCHANGED <<consents, consentTable, sent, instant, recorded, revoked, excused>>

\* A SELECT, and the list becomes what it found: first one, then the other.
LoadRows ==
  /\ load.step = "select"
  /\ consents' = [consents EXCEPT ![load.kind] = Loaded(consentTable[load.kind])]
  /\ load' = IF load.kind = "consent" THEN [step |-> "select", kind |-> "agreement"] ELSE NoLoad
  /\ UNCHANGED <<consentTable, mysqlAvailable, sent, instant, recorded, revoked, excused>>

\* A statement of the load fails: memory only, with what is there.
LoadFails ==
  /\ load.step \in {"create", "select"}
  /\ mysqlAvailable' = FALSE
  /\ load' = NoLoad
  /\ UNCHANGED <<consents, consentTable, sent, instant, recorded, revoked, excused>>

-----------------------------------------------------------------------------
(* The environment.                                                            *)

TimePasses ==
  /\ instant < MaxInstant
  /\ instant' = instant + 1
  /\ UNCHANGED <<consents, consentTable, mysqlAvailable, sent, load, recorded,
                 revoked, excused>>

\* The process ends, and is started with or without a connected database.
ConsentRestart(connected) ==
  /\ consents' = NoRecords
  /\ mysqlAvailable' = FALSE
  /\ sent' = {}
  /\ load' = IF connected THEN [NoLoad EXCEPT !.step = "create"] ELSE NoLoad
  /\ excused' = excused \cup SentIds
  /\ UNCHANGED <<consentTable, instant, recorded, revoked>>

ConsentNext ==
  \/ \E kind \in RecordKind, given \in BOOLEAN :
       (kind = "agreement" => given) /\ Record(kind, given)
  \/ \E i \in DOMAIN consents["consent"] : RevokeConsent(i)
  \/ \E s \in sent : Execute(s) \/ ExecuteFails(s)
  \/ TablesExist
  \/ LoadRows
  \/ LoadFails
  \/ TimePasses
  \/ \E connected \in BOOLEAN : ConsentRestart(connected)

ConsentSpec == ConsentInit /\ [][ConsentNext]_consentVars

-----------------------------------------------------------------------------
\* Nothing about record id is under way, or went wrong.
Settled(id) == mysqlAvailable /\ load = NoLoad /\ id \notin SentIds \cup excused

(* A record whose revocation was answered is never taken for a given consent   *)
(* again, by a load in a later process either, unless its UPDATE failed, was   *)
(* cut off or came before its INSERT, or was never sent.                       *)
RevocationKept ==
  LET list == consents["consent"]
  IN  \A i \in DOMAIN list : list[i].id \in revoked \ excused => list[i].revoked /\ ~list[i].given

(* A restart does not change a decision, if no two consents are of the same    *)
(* second: the order in which rows came into the table does not matter.        *)
RestartKeepsDecision ==
  LET rows == consentTable["consent"]
  IN  (/\ \A id \in 1 .. recorded : Settled(id)
       /\ \A i, j \in DOMAIN rows : i # j => rows[i].at \div 2 # rows[j].at \div 2) =>
      (Allowed(Loaded(rows)) <=> Allowed(consents["consent"]))
=============================================================================
