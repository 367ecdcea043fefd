----------------------------- MODULE StoreProofs ------------------------------
(***************************************************************************)
(* What holds of two stores with lists in memory and tables that           *)
(* statements in flight change, for every number of records, tenants and   *)
(* plans: revocations and decisions outlive a restart (ConsentStore), and  *)
(* the use of tokens stays within its limits (TenantStore).                *)
(***************************************************************************)
EXTENDS ConsentStore, TenantStore, SequenceTheorems, TLAPS

-----------------------------------------------------------------------------
(* ConsentStore: the consents in memory and their rows.                        *)

Memory == consents["consent"]
Rows == consentTable["consent"]
InsertOf(s, id) == s.op = "insert" /\ s.record.kind = "consent" /\ s.record.id = id
UpdateOf(s, id) == s.op = "revoke" /\ s.record.id = id
Withdrawn(r) == r.revoked /\ ~r.given
Copy(r, row) == r.at \div 2 = row.at \div 2 /\ r.given = row.given /\ r.revoked = row.revoked

\* No two records in a list, rows or INSERTs have one id, and new ids are new.
UniqueIn(list) == \A i, j \in DOMAIN list : list[i].id = list[j].id => i = j
IdsInv ==
  /\ UniqueIn(Memory) /\ UniqueIn(Rows)
  /\ \A i \in DOMAIN Memory : Memory[i].id <= recorded
  /\ \A i \in DOMAIN Rows : Rows[i].id <= recorded
  /\ \A s \in sent : s.record.id <= recorded
  /\ \A s, t \in sent : \A id \in ConsentId : InsertOf(s, id) /\ InsertOf(t, id) => s = t
  /\ \A s \in sent : \A id \in ConsentId : InsertOf(s, id) => id \notin Ids(Rows)
  /\ \A id \in revoked : id <= recorded

\* Nothing is sent before the end of the load; memory then has all rows, and all
\* that is sent.
LoadedInv ==
  /\ load.step # "none" => sent = {}
  /\ mysqlAvailable /\ (load = NoLoad \/ load.kind = "agreement") =>
       Ids(Rows) \subseteq Ids(Memory)
  /\ load.step # "none" => (mysqlAvailable <=> load.step = "select")
  /\ load.step = "create" => load.kind = "consent"
  /\ load.step = "none" => load = NoLoad
  /\ sent # {} => mysqlAvailable
  /\ \A i \in DOMAIN Memory : Memory[i].kind = "consent"
  /\ \A j \in DOMAIN Rows : Rows[j].kind = "consent"
  /\ \A s \in sent : \A id \in ConsentId : InsertOf(s, id) => id \in Ids(Memory)
  /\ \A s \in sent : s.op = "revoke" => s.record.kind = "consent"

\* Record r in memory is in the table or about to be, as it is in memory, but for an
\* UPDATE that is under way.
Kept(r, rows, statements) ==
  /\ r.id \in Ids(rows) \/ \E s \in statements : InsertOf(s, r.id)
  /\ \A j \in DOMAIN rows :
       rows[j].id = r.id =>
         /\ r.at \div 2 = rows[j].at \div 2
         /\ Copy(r, rows[j]) \/ \E s \in statements : UpdateOf(s, r.id)
  /\ \A s \in statements :
       InsertOf(s, r.id) =>
         /\ r.at \div 2 = s.record.at \div 2
         /\ Copy(r, s.record) \/ \E t \in statements : UpdateOf(t, r.id)

\* So are those of which nothing went wrong.
CopiesInv ==
  /\ \A s \in sent, i \in DOMAIN Memory : UpdateOf(s, Memory[i].id) => Withdrawn(Memory[i])
  /\ \A i \in DOMAIN Memory : Memory[i].id \notin excused => Kept(Memory[i], Rows, sent)

\* A revocation of which nothing went wrong is in memory, and in the table or about
\* to be.
RevokedInv ==
  \A id \in revoked \ excused :
    /\ \A i \in DOMAIN Memory : Memory[i].id = id => Withdrawn(Memory[i])
    /\ \A j \in DOMAIN Rows :
         Rows[j].id = id => Withdrawn(Rows[j]) \/ \E s \in sent : UpdateOf(s, id)
    /\ \A s \in sent : InsertOf(s, id) => \E t \in sent : UpdateOf(t, id)

ConsentInv == ConsentTypeOK /\ IdsInv /\ LoadedInv /\ CopiesInv /\ RevokedInv

(* Withdrawing a record.                                                       *)
LEMMA RevokedFacts ==
  ASSUME NEW r \in ConsentRecord
  PROVE  /\ Revoked(r) \in ConsentRecord /\ Withdrawn(Revoked(r))
         /\ Revoked(r).id = r.id /\ Revoked(r).kind = r.kind /\ Revoked(r).at = r.at
<1>1. Revoked(r) = [id |-> r.id, kind |-> r.kind, given |-> FALSE, revoked |-> TRUE, at |-> r.at]
  <2>1. ASSUME NEW next, next = [r EXCEPT !.given = FALSE, !.revoked = TRUE]
        PROVE  next = [id |-> r.id, kind |-> r.kind, given |-> FALSE, revoked |-> TRUE, at |-> r.at]
    BY <2>1 DEF ConsentRecord
  <2> QED
    BY <2>1 DEF Revoked
<1>2. r.id \in ConsentId /\ r.kind \in RecordKind /\ r.at \in 0 .. MaxInstant
  BY DEF ConsentRecord
<1> QED
  BY <1>1, <1>2 DEF ConsentRecord, Withdrawn

(* The rows after an UPDATE.                                                   *)
LEMMA RowRevokedFacts ==
  ASSUME NEW rows \in Seq(ConsentRecord), NEW id
  PROVE  LET after == RowRevoked(rows, id)
         IN  /\ after \in Seq(ConsentRecord) /\ DOMAIN after = DOMAIN rows
             /\ \A j \in DOMAIN rows :
                  /\ after[j].id = rows[j].id /\ after[j].at = rows[j].at
                  /\ IF rows[j].id = id THEN Withdrawn(after[j]) ELSE after[j] = rows[j]
<1> DEFINE after == RowRevoked(rows, id)
<1>1. Len(rows) \in Nat /\ DOMAIN rows = 1 .. Len(rows)
  BY LenProperties
<1>2. \A j \in 1 .. Len(rows) : rows[j] \in ConsentRecord
  BY ElementOfSeq
<1>3. after = [j \in 1 .. Len(rows) |-> IF rows[j].id = id THEN Revoked(rows[j]) ELSE rows[j]]
  BY <1>1 DEF RowRevoked
<1> HIDE DEF after
<1>4. \A j \in 1 .. Len(rows) : after[j] = IF rows[j].id = id THEN Revoked(rows[j]) ELSE rows[j]
  BY <1>3
<1>5. \A j \in 1 .. Len(rows) : after[j] \in ConsentRecord
  BY <1>2, <1>4, RevokedFacts
<1>6. after \in Seq(ConsentRecord)
  BY <1>1, <1>3, <1>5
<1> QED
  BY <1>1, <1>2, <1>3, <1>4, <1>6, RevokedFacts DEF after

(* The rows as they are loaded.                                                *)
LEMMA LoadedFacts ==
  ASSUME NEW rows \in Seq(ConsentRecord)
  PROVE  /\ Loaded(rows) \in Seq(ConsentRecord) /\ DOMAIN Loaded(rows) = DOMAIN rows
         /\ \A j \in DOMAIN rows :
              /\ Loaded(rows)[j].id = rows[j].id /\ Copy(Loaded(rows)[j], rows[j])
              /\ Loaded(rows)[j].at = 2 * (rows[j].at \div 2)
<1> DEFINE loaded(j) == [rows[j] EXCEPT !.at = 2 * (@ \div 2)]
<1>1. Len(rows) \in Nat /\ DOMAIN rows = 1 .. Len(rows)
  BY LenProperties
<1>2. ASSUME NEW j \in 1 .. Len(rows)
      PROVE  /\ loaded(j) \in ConsentRecord /\ loaded(j).id = rows[j].id
             /\ Copy(loaded(j), rows[j]) /\ loaded(j).at = 2 * (rows[j].at \div 2)
  <2>1. rows[j] \in ConsentRecord
    BY ElementOfSeq
  <2>2. rows[j].at \in Nat /\ rows[j].at <= MaxInstant
    BY <2>1, MaxConsentsAssumption DEF ConsentRecord
  <2>3. ASSUME NEW n \in Nat, NEW m \in Nat, n <= m
        PROVE  2 * (n \div 2) \in 0 .. m /\ (2 * (n \div 2)) \div 2 = n \div 2
    <3>1. n \div 2 \in Nat /\ 2 * (n \div 2) \in 0 .. m
      BY <2>3
    <3>2. \A q \in Nat : (2 * q) \div 2 = q
      OBVIOUS
    <3> QED
      BY <3>1, <3>2
  <2>4. 2 * (rows[j].at \div 2) \in 0 .. MaxInstant
    BY <2>2, <2>3, MaxConsentsAssumption
  <2>5. (2 * (rows[j].at \div 2)) \div 2 = rows[j].at \div 2
    BY <2>2, <2>3
  <2>6. /\ loaded(j).id = rows[j].id /\ loaded(j).given = rows[j].given
        /\ loaded(j).revoked = rows[j].revoked /\ loaded(j).at = 2 * (rows[j].at \div 2)
        /\ loaded(j) \in ConsentRecord
    BY <2>1, <2>4 DEF ConsentRecord
  <2> HIDE DEF loaded
  <2> QED
    BY <2>5, <2>6 DEF Copy
<1>3. Loaded(rows) = [j \in 1 .. Len(rows) |-> loaded(j)]
  BY <1>1 DEF Loaded
<1> HIDE DEF loaded
<1>4. Loaded(rows) \in Seq(ConsentRecord)
  BY <1>1, <1>2, <1>3
<1> QED
  BY <1>1, <1>2, <1>3, <1>4

(* The lists, in terms of Memory and Rows.                                     *)
LEMMA ListFacts ==
  ASSUME ConsentTypeOK
  PROVE  /\ Memory \in Seq(ConsentRecord) /\ Rows \in Seq(ConsentRecord)
         /\ DOMAIN Memory = 1 .. Len(Memory) /\ Len(Memory) \in Nat
         /\ DOMAIN Rows = 1 .. Len(Rows) /\ Len(Rows) \in Nat
         /\ \A i \in DOMAIN Memory : Memory[i] \in ConsentRecord
         /\ \A i \in DOMAIN Rows : Rows[i] \in ConsentRecord
         /\ \A i \in DOMAIN Memory : Memory[i].id \in ConsentId
         /\ \A i \in DOMAIN Rows : Rows[i].id \in ConsentId
         /\ \A s \in sent : /\ s.record \in ConsentRecord /\ s.record.id \in ConsentId
                            /\ s.op \in {"insert", "revoke"} /\ s.record.kind \in RecordKind
<1>1. Memory \in Seq(ConsentRecord) /\ Rows \in Seq(ConsentRecord)
  BY DEF ConsentTypeOK, RecordLists, RecordKind, Memory, Rows
<1>2. /\ DOMAIN Memory = 1 .. Len(Memory) /\ Len(Memory) \in Nat
      /\ DOMAIN Rows = 1 .. Len(Rows) /\ Len(Rows) \in Nat
  BY <1>1, LenProperties
<1>3. /\ \A i \in DOMAIN Memory : Memory[i] \in ConsentRecord
      /\ \A i \in DOMAIN Rows : Rows[i] \in ConsentRecord
  BY <1>1, <1>2, ElementOfSeq
<1>4. \A s \in sent : s.record \in ConsentRecord /\ s.op \in {"insert", "revoke"}
  BY DEF ConsentTypeOK, Statement
<1>5. \A r \in ConsentRecord : r.id \in ConsentId /\ r.kind \in RecordKind
  BY DEF ConsentRecord
<1> QED
  BY <1>1, <1>2, <1>3, <1>4, <1>5

(* Statements for other records, sent or executed, do not matter to a record.  *)
LEMMA KeptWithOthers ==
  ASSUME NEW r, NEW rows, NEW before, NEW after, Kept(r, rows, before),
         \A s \in before \cup after :
           InsertOf(s, r.id) \/ UpdateOf(s, r.id) => s \in before /\ s \in after
  PROVE  Kept(r, rows, after)
<1>1. /\ \A s \in before : InsertOf(s, r.id) \/ UpdateOf(s, r.id) => s \in after
      /\ \A s \in after : InsertOf(s, r.id) \/ UpdateOf(s, r.id) => s \in before
  OBVIOUS
<1> QED
  BY <1>1 DEF Kept

(* Nothing is recorded, and the load begins.                                   *)
LEMMA ConsentInitially == ConsentInit => ConsentInv
<1> SUFFICES ASSUME ConsentInit PROVE ConsentInv
  OBVIOUS
<1>1. NoRecords \in RecordLists /\ NoRecords["consent"] = <<>>
  BY DEF NoRecords, RecordLists, RecordKind
<1>2. /\ load = [step |-> "create", kind |-> "consent"] /\ load # NoLoad /\ sent = {}
      /\ mysqlAvailable = FALSE /\ revoked = {} /\ excused = {} /\ recorded = 0 /\ instant = 0
      /\ consents = NoRecords /\ consentTable = NoRecords
  BY DEF ConsentInit, NoLoad
<1>3. Memory = <<>> /\ Rows = <<>>
  BY <1>1, <1>2 DEF Memory, Rows
<1>4. ConsentTypeOK
  <2>1. 0 \in 0 .. MaxInstant /\ 0 \in 0 .. MaxConsents
    BY MaxConsentsAssumption
  <2> QED
    BY <1>1, <1>2, <2>1 DEF ConsentTypeOK, RecordKind
<1>5. IdsInv /\ LoadedInv
  BY <1>2, <1>3 DEF IdsInv, LoadedInv, UniqueIn, Ids
<1>6. CopiesInv /\ RevokedInv
  BY <1>2, <1>3 DEF CopiesInv, RevokedInv
<1> QED
  BY <1>4, <1>5, <1>6 DEF ConsentInv

(* A consent or an agreement is recorded.                                      *)
LEMMA RecordKeeps ==
  ASSUME ConsentInv, NEW kind \in RecordKind, NEW given \in BOOLEAN, Record(kind, given)
  PROVE  ConsentInv'
<1> DEFINE record == [id |-> recorded + 1, kind |-> kind, given |-> given,
                      revoked |-> FALSE, at |-> instant]
           s == [op |-> "insert", record |-> record]
<1>1. /\ load = NoLoad /\ recorded < MaxConsents /\ recorded' = recorded + 1
      /\ consents' = [consents EXCEPT ![kind] = Append(@, record)]
      /\ sent' = (IF mysqlAvailable THEN sent \cup {s} ELSE sent)
      /\ excused' = (IF mysqlAvailable THEN excused ELSE excused \cup {recorded + 1})
      /\ UNCHANGED <<consentTable, mysqlAvailable, load, instant, revoked>>
  BY DEF Record, Send
<1>2. ConsentTypeOK /\ IdsInv /\ LoadedInv /\ CopiesInv /\ RevokedInv
  BY DEF ConsentInv
<1>3. recorded \in Nat /\ recorded + 1 \in ConsentId
  BY <1>1, <1>2, MaxConsentsAssumption DEF ConsentTypeOK, ConsentId
<1>4. record \in ConsentRecord
  BY <1>2, <1>3 DEF ConsentRecord, ConsentTypeOK
<1>5. record.id = recorded + 1 /\ record.kind = kind
  OBVIOUS
<1>6. s \in Statement /\ s.op = "insert" /\ s.record = record
  BY <1>4 DEF Statement
<1> HIDE DEF record, s
<1>7. consents' \in RecordLists
  <2>1. consents[kind] \in Seq(ConsentRecord)
    BY <1>2 DEF ConsentTypeOK, RecordLists
  <2>2. Append(consents[kind], record) \in Seq(ConsentRecord)
    BY <1>4, <2>1, AppendProperties
  <2> QED
    BY <1>1, <1>2, <2>2 DEF ConsentTypeOK, RecordLists
<1>8. ConsentTypeOK'
  BY <1>1, <1>2, <1>3, <1>6, <1>7, MaxConsentsAssumption DEF ConsentTypeOK, ConsentId
<1>9. /\ Rows' = Rows
      /\ Memory' = IF kind = "consent" THEN Append(Memory, record) ELSE Memory
  BY <1>1, <1>2 DEF Memory, Rows, ConsentTypeOK, RecordLists, RecordKind
<1>10. /\ \A t \in sent : \A id \in ConsentId : InsertOf(t, id) => id <= recorded
       /\ \A id \in ConsentId : InsertOf(s, id) <=> kind = "consent" /\ id = recorded + 1
       /\ \A id \in ConsentId : ~UpdateOf(s, id)
       /\ \A i \in DOMAIN Rows : Rows[i].id # recorded + 1
       /\ \A id \in ConsentId : id <= recorded => id # recorded + 1
       /\ recorded + 1 \notin Ids(Rows)
  BY <1>2, <1>3, <1>5, <1>6, ListFacts DEF IdsInv, InsertOf, UpdateOf, Ids, ConsentId
<1>11. CASE kind = "agreement"
  <2>1. Memory' = Memory
    BY <1>9, <1>11
  <2>2. \A t \in sent' \ sent : t = s
    BY <1>1
  <2>3. /\ \A t \in sent' : \A id \in ConsentId : InsertOf(t, id) => t \in sent
        /\ \A t \in sent' : \A id \in ConsentId : UpdateOf(t, id) => t \in sent
        /\ sent \subseteq sent' /\ \A t \in sent' : t.record.id <= recorded + 1
        /\ \A t \in sent' : t.op = "revoke" => t \in sent
    BY <1>1, <1>2, <1>3, <1>5, <1>6, <1>10, <1>11, <2>2, ListFacts DEF IdsInv, ConsentId
  <2>4. \A id \in ConsentId : id \notin excused' => id \notin excused
    BY <1>1
  <2>5. IdsInv'
    <3>1. /\ \A i \in DOMAIN Memory : Memory[i].id <= recorded + 1
          /\ \A i \in DOMAIN Rows : Rows[i].id <= recorded + 1
          /\ \A id \in revoked : id <= recorded + 1
      <4>1. /\ Memory \in Seq(ConsentRecord) /\ Rows \in Seq(ConsentRecord)
            /\ DOMAIN Memory = 1 .. Len(Memory) /\ DOMAIN Rows = 1 .. Len(Rows)
            /\ \A i \in DOMAIN Memory : Memory[i] \in ConsentRecord
            /\ \A i \in DOMAIN Rows : Rows[i] \in ConsentRecord
        BY <1>2, ListFacts
      <4>2. \A x \in ConsentId : x <= recorded => x <= recorded + 1
        BY <1>3 DEF ConsentId
      <4>3. revoked \subseteq ConsentId
        BY <1>2 DEF ConsentTypeOK
      <4>4. \A r \in ConsentRecord : r.id \in ConsentId
        BY DEF ConsentRecord
      <4> QED
        BY <1>2, <4>1, <4>2, <4>3, <4>4 DEF IdsInv
    <3> QED
      BY <1>1, <1>2, <1>9, <2>1, <2>3, <3>1 DEF IdsInv
  <2>6. LoadedInv'
    <3>1. load.step = "none"
      BY <1>1 DEF NoLoad
    <3>2. /\ \A t \in sent' : \A id \in ConsentId : InsertOf(t, id) => id \in Ids(Memory)
          /\ \A t \in sent' : t.op = "revoke" => t.record.kind = "consent"
      BY <1>2, <2>3 DEF LoadedInv
    <3>3. sent' # {} => mysqlAvailable
      BY <1>1, <1>2 DEF LoadedInv
    <3>4. mysqlAvailable /\ (load = NoLoad \/ load.kind = "agreement") =>
            Ids(Rows) \subseteq Ids(Memory)
      BY <1>2 DEF LoadedInv
    <3>5. load = NoLoad /\ load' = load /\ mysqlAvailable' = mysqlAvailable
      BY <1>1
    <3>6. /\ \A i \in DOMAIN Memory : Memory[i].kind = "consent"
          /\ \A j \in DOMAIN Rows : Rows[j].kind = "consent"
      BY <1>2 DEF LoadedInv
    <3> HIDE DEF NoLoad
    <3> QED
      BY <1>9, <2>1, <3>1, <3>2, <3>3, <3>4, <3>5, <3>6 DEF LoadedInv
  <2>7. CopiesInv'
    <3>1. ASSUME NEW i \in DOMAIN Memory, Memory[i].id \notin excused'
          PROVE  Kept(Memory[i], Rows, sent')
      <4>1. Memory[i].id \in ConsentId /\ Memory[i].id \notin excused
        BY <1>2, <2>4, <3>1, ListFacts
      <4>2. Kept(Memory[i], Rows, sent)
        BY <1>2, <4>1 DEF CopiesInv
      <4> QED
        BY <2>3, <4>1, <4>2, KeptWithOthers
    <3>2. \A t \in sent', i \in DOMAIN Memory : UpdateOf(t, Memory[i].id) => Withdrawn(Memory[i])
      BY <1>2, <2>3, ListFacts DEF CopiesInv
    <3> QED
      BY <1>9, <2>1, <3>1, <3>2 DEF CopiesInv
  <2>8. RevokedInv'
    <3>1. revoked \subseteq ConsentId
      BY <1>2 DEF ConsentTypeOK
    <3> QED
      BY <1>1, <1>2, <1>9, <2>1, <2>3, <2>4, <3>1 DEF RevokedInv
  <2> QED
    BY <1>8, <2>5, <2>6, <2>7, <2>8 DEF ConsentInv
<1>12. CASE kind = "consent"
  <2> DEFINE n == Len(Memory)
  <2>1. /\ n \in Nat /\ DOMAIN Memory = 1 .. n /\ DOMAIN Memory' = 1 .. n + 1
        /\ \A i \in 1 .. n : Memory'[i] = Memory[i]
        /\ Memory'[n + 1] = record
    BY <1>2, <1>4, <1>9, <1>12, ListFacts, AppendProperties
  <2> HIDE DEF n
  <2>2. \A i \in DOMAIN Memory' : (i \in DOMAIN Memory /\ Memory'[i] = Memory[i])
                                  \/ (i = n + 1 /\ Memory'[i] = record)
    BY <2>1
  <2>3. \A i \in DOMAIN Memory : /\ Memory[i].id \in ConsentId /\ Memory[i].id <= recorded
                                 /\ Memory[i].id # recorded + 1
    BY <1>2, <1>3, ListFacts DEF IdsInv, ConsentId
  <2>4. /\ Ids(Memory) \subseteq Ids(Memory') /\ recorded + 1 \in Ids(Memory')
    BY <1>5, <2>1 DEF Ids
  <2>5. IdsInv'
    <3>1. UniqueIn(Memory')
      <4> SUFFICES ASSUME NEW i \in DOMAIN Memory', NEW j \in DOMAIN Memory',
                          Memory'[i].id = Memory'[j].id
                   PROVE  i = j
        BY DEF UniqueIn
      <4> QED
        BY <1>2, <1>5, <2>2, <2>3 DEF IdsInv, UniqueIn
    <3>2. /\ \A i \in DOMAIN Memory' : Memory'[i].id <= recorded'
          /\ \A i \in DOMAIN Rows : Rows[i].id <= recorded'
          /\ \A id \in revoked : id <= recorded'
          /\ \A t \in sent' : t.record.id <= recorded'
      <4>1. \A id \in ConsentId : id <= recorded => id <= recorded'
        BY <1>1, <1>3 DEF ConsentId
      <4>2. recorded + 1 <= recorded'
        BY <1>1, <1>3
      <4> QED
        BY <1>1, <1>2, <1>5, <1>6, <2>2, <2>3, <4>1, <4>2, ListFacts DEF IdsInv, ConsentTypeOK
    <3>3. /\ \A t, u \in sent' : \A id \in ConsentId : InsertOf(t, id) /\ InsertOf(u, id) => t = u
          /\ \A t \in sent' : \A id \in ConsentId : InsertOf(t, id) => id \notin Ids(Rows)
      BY <1>1, <1>2, <1>10 DEF IdsInv
    <3> QED
      BY <1>1, <1>2, <1>9, <3>1, <3>2, <3>3 DEF IdsInv
  <2>6. LoadedInv'
    <3>1. load.step = "none"
      BY <1>1 DEF NoLoad
    <3>2. /\ \A t \in sent' : \A id \in ConsentId : InsertOf(t, id) => id \in Ids(Memory')
          /\ \A t \in sent' : t.op = "revoke" => t.record.kind = "consent"
      BY <1>1, <1>2, <1>6, <1>10, <2>4 DEF LoadedInv
    <3>3. sent' # {} => mysqlAvailable
      BY <1>1, <1>2 DEF LoadedInv
    <3>4. mysqlAvailable => Ids(Rows) \subseteq Ids(Memory')
      BY <1>1, <1>2, <2>4 DEF LoadedInv
    <3>5. load = NoLoad /\ load' = load /\ mysqlAvailable' = mysqlAvailable
      BY <1>1
    <3>6. /\ \A i \in DOMAIN Memory' : Memory'[i].kind = "consent"
          /\ \A j \in DOMAIN Rows : Rows[j].kind = "consent"
      BY <1>2, <1>5, <1>12, <2>2 DEF LoadedInv
    <3> HIDE DEF NoLoad
    <3> QED
      BY <1>9, <3>1, <3>2, <3>3, <3>4, <3>5, <3>6 DEF LoadedInv
  <2>7. CopiesInv'
    <3>1. \A t \in sent' : \A id \in ConsentId : UpdateOf(t, id) => t \in sent
      BY <1>1, <1>10
    <3>2. sent \subseteq sent' /\ excused \subseteq excused'
      BY <1>1
    <3>3. \A t \in sent : ~UpdateOf(t, recorded + 1)
      BY <1>2, <1>3, <1>10, ListFacts DEF IdsInv, UpdateOf
    <3>4. ASSUME NEW t \in sent', NEW i \in DOMAIN Memory', UpdateOf(t, Memory'[i].id)
          PROVE  Withdrawn(Memory'[i])
      BY <1>2, <1>3, <1>5, <2>2, <2>3, <3>1, <3>3, <3>4 DEF CopiesInv
    <3>5. ASSUME NEW i \in DOMAIN Memory, Memory[i].id \notin excused'
          PROVE  Kept(Memory[i], Rows, sent')
      <4>1. \A t \in sent' : InsertOf(t, Memory[i].id) => t \in sent
        BY <1>1, <1>10, <2>3
      <4>2. \A t \in sent' : UpdateOf(t, Memory[i].id) => t \in sent
        BY <2>3, <3>1
      <4>3. Kept(Memory[i], Rows, sent)
        BY <1>2, <3>2, <3>5 DEF CopiesInv
      <4> QED
        BY <3>2, <4>1, <4>2, <4>3, KeptWithOthers
    <3>6. ASSUME recorded + 1 \notin excused'
          PROVE  /\ s \in sent' /\ InsertOf(s, recorded + 1)
                 /\ \A t \in sent' : InsertOf(t, recorded + 1) => t = s
      <4>1. mysqlAvailable /\ sent' = sent \cup {s}
        BY <1>1, <3>6
      <4>2. \A t \in sent : ~InsertOf(t, recorded + 1)
        BY <1>3, <1>10
      <4> QED
        BY <1>3, <1>10, <1>12, <4>1, <4>2
    <3>7. Copy(record, s.record)
      BY <1>6 DEF Copy
    <3>8. ASSUME NEW i \in DOMAIN Memory', Memory'[i].id \notin excused'
          PROVE  Kept(Memory'[i], Rows, sent')
      <4>1. CASE i \in DOMAIN Memory /\ Memory'[i] = Memory[i]
        BY <3>5, <3>8, <4>1
      <4>2. CASE Memory'[i] = record
        <5>1. record.id = recorded + 1 /\ recorded + 1 \notin excused'
          BY <1>5, <3>8, <4>2
        <5>2. /\ s \in sent' /\ InsertOf(s, recorded + 1)
              /\ \A t \in sent' : InsertOf(t, recorded + 1) => t = s
          BY <3>6, <5>1
        <5>3. \A j \in DOMAIN Rows : Rows[j].id # record.id
          BY <1>10, <5>1
        <5>4. record.at \div 2 = s.record.at \div 2
          BY <1>6
        <5>5. Kept(record, Rows, sent')
          BY <3>7, <5>1, <5>2, <5>3, <5>4 DEF Kept
        <5> QED
          BY <4>2, <5>5
      <4> QED
        BY <2>2, <4>1, <4>2
    <3> QED
      BY <1>9, <3>4, <3>8 DEF CopiesInv
  <2>8. RevokedInv'
    <3>1. SUFFICES ASSUME NEW id \in revoked \ excused'
                   PROVE  /\ \A i \in DOMAIN Memory' : Memory'[i].id = id => Withdrawn(Memory'[i])
                          /\ \A j \in DOMAIN Rows :
                               Rows[j].id = id => Withdrawn(Rows[j]) \/ \E t \in sent' : UpdateOf(t, id)
                          /\ \A t \in sent' : InsertOf(t, id) => \E u \in sent' : UpdateOf(u, id)
      BY <1>1, <1>9 DEF RevokedInv
    <3>2. id \in ConsentId /\ id # recorded + 1 /\ id \in revoked \ excused
      BY <1>1, <1>2, <1>3 DEF IdsInv, ConsentTypeOK, ConsentId
    <3>3. \A t \in sent' : InsertOf(t, id) => t \in sent
      BY <1>1, <1>10, <3>2
    <3> QED
      BY <1>1, <1>2, <1>5, <2>2, <3>2, <3>3 DEF RevokedInv
  <2> QED
    BY <1>8, <2>5, <2>6, <2>7, <2>8 DEF ConsentInv
<1> QED
  BY <1>11, <1>12 DEF RecordKind

(* A consent is revoked.                                                       *)
LEMMA RevokeConsentKeeps ==
  ASSUME ConsentInv, NEW k \in DOMAIN Memory, RevokeConsent(k) PROVE ConsentInv'
<1> DEFINE record == Memory[k]
           s == [op |-> "revoke", record |-> Revoked(record)]
<1>1. /\ load = NoLoad
      /\ consents' = [consents EXCEPT !["consent"] = [@ EXCEPT ![k] = Revoked(record)]]
      /\ sent' = (IF mysqlAvailable THEN sent \cup {s} ELSE sent)
      /\ revoked' = revoked \cup {record.id}
      /\ excused' = (IF mysqlAvailable THEN excused ELSE excused \cup {record.id})
      /\ UNCHANGED <<consentTable, mysqlAvailable, load, instant, recorded>>
  <2>1. Revoked(record).id = record.id
    BY ListFacts, RevokedFacts DEF ConsentInv
  <2> QED
    BY <2>1 DEF RevokeConsent, Send, Memory
<1>2. ConsentTypeOK /\ IdsInv /\ LoadedInv /\ CopiesInv /\ RevokedInv
  BY DEF ConsentInv
<1>3. record \in ConsentRecord /\ record.id \in ConsentId
  BY <1>2, ListFacts
<1>4. /\ Revoked(record) \in ConsentRecord /\ Withdrawn(Revoked(record))
      /\ Revoked(record).id = record.id /\ Revoked(record).at = record.at
      /\ Revoked(record).kind = record.kind
  BY <1>3, RevokedFacts
<1>5. s \in Statement /\ s.op = "revoke" /\ s.record.id = record.id /\ s.record.kind = record.kind
  BY <1>4 DEF Statement
<1>6. /\ Memory' = [Memory EXCEPT ![k] = Revoked(record)] /\ Rows' = Rows
      /\ Memory' \in Seq(ConsentRecord)
  <2>1. Memory' = [Memory EXCEPT ![k] = Revoked(record)] /\ Rows' = Rows
    BY <1>1, <1>2 DEF Memory, Rows, ConsentTypeOK, RecordLists, RecordKind
  <2>2. k \in 1 .. Len(Memory) /\ Memory \in Seq(ConsentRecord)
    BY <1>2, ListFacts
  <2> QED
    BY <1>4, <2>1, <2>2, ExceptSeq
<1>7. record.kind = "consent"
  BY <1>2 DEF LoadedInv
<1> HIDE DEF s
<1>8. /\ DOMAIN Memory' = DOMAIN Memory /\ Memory'[k] = Revoked(record)
      /\ \A i \in DOMAIN Memory \ {k} : Memory'[i] = Memory[i]
      /\ \A i \in DOMAIN Memory : Memory'[i].id = Memory[i].id
      /\ \A i \in DOMAIN Memory : Memory[i].id = record.id => i = k
  BY <1>2, <1>4, <1>6 DEF IdsInv, UniqueIn
<1> HIDE DEF record
<1>9. ConsentTypeOK'
  <2>1. consents' \in RecordLists
    <3>1. consents \in RecordLists /\ consents'["consent"] \in Seq(ConsentRecord)
      BY <1>2, <1>6 DEF ConsentTypeOK, Memory
    <3>2. consents' = [consents EXCEPT !["consent"] = consents'["consent"]]
      BY <1>1, <3>1 DEF RecordLists
    <3> QED
      BY <3>1, <3>2 DEF RecordLists
  <2> QED
    BY <1>1, <1>2, <1>3, <1>5, <2>1 DEF ConsentTypeOK
<1>10. /\ \A id \in ConsentId : ~InsertOf(s, id)
       /\ \A id \in ConsentId : UpdateOf(s, id) <=> id = record.id
       /\ sent \subseteq sent' /\ \A t \in sent' \ sent : t = s
       /\ mysqlAvailable => s \in sent'
  BY <1>1, <1>3, <1>5 DEF InsertOf, UpdateOf
<1>11. Ids(Memory') = Ids(Memory)
  BY <1>8 DEF Ids
<1>12. IdsInv'
  <2>1. \A t, u \in sent' : \A id \in ConsentId : InsertOf(t, id) /\ InsertOf(u, id) => t = u
    BY <1>2, <1>10 DEF IdsInv
  <2>2. \A t \in sent' : \A id \in ConsentId : InsertOf(t, id) => id \notin Ids(Rows)
    BY <1>2, <1>10 DEF IdsInv
  <2>3. UniqueIn(Memory') /\ \A i \in DOMAIN Memory' : Memory'[i].id <= recorded
    BY <1>2, <1>8 DEF IdsInv, UniqueIn
  <2>4. record.id <= recorded
    BY <1>2 DEF IdsInv, record
  <2>5. /\ \A t \in sent' : t.record.id <= recorded
        /\ \A id \in revoked' : id <= recorded
    BY <1>1, <1>2, <1>5, <1>10, <2>4 DEF IdsInv
  <2> QED
    BY <1>1, <1>2, <1>6, <2>1, <2>2, <2>3, <2>5 DEF IdsInv
<1>13. LoadedInv'
  <2>1. load.step = "none" /\ load' = load /\ mysqlAvailable' = mysqlAvailable
    BY <1>1 DEF NoLoad
  <2>2. /\ \A t \in sent' : \A id \in ConsentId : InsertOf(t, id) => id \in Ids(Memory)
        /\ \A t \in sent' : t.op = "revoke" => t.record.kind = "consent"
    BY <1>2, <1>5, <1>7, <1>10 DEF LoadedInv
  <2>3. sent' # {} => mysqlAvailable
    BY <1>1, <1>2 DEF LoadedInv
  <2>4. mysqlAvailable => Ids(Rows) \subseteq Ids(Memory)
    BY <1>1, <1>2 DEF LoadedInv
  <2>5. load = NoLoad
    BY <1>1
  <2>6. /\ \A i \in DOMAIN Memory' : Memory'[i].kind = "consent"
        /\ \A j \in DOMAIN Rows : Rows[j].kind = "consent"
    <3>1. /\ \A i \in DOMAIN Memory : Memory[i].kind = "consent"
          /\ \A j \in DOMAIN Rows : Rows[j].kind = "consent"
      BY <1>2 DEF LoadedInv
    <3> QED
      BY <1>4, <1>7, <1>8, <3>1
  <2> HIDE DEF NoLoad
  <2> QED
    BY <1>6, <1>11, <2>1, <2>2, <2>3, <2>4, <2>5, <2>6 DEF LoadedInv
<1>14. CopiesInv'
  <2>1. ASSUME NEW t \in sent', NEW i \in DOMAIN Memory', UpdateOf(t, Memory'[i].id)
        PROVE  Withdrawn(Memory'[i])
    <3>1. CASE i = k
      BY <1>4, <1>8, <3>1
    <3>2. CASE i # k
      <4>1. Memory[i].id # record.id /\ Memory[i].id \in ConsentId
        BY <1>2, <1>8, <2>1, <3>2, ListFacts
      <4>2. t \in sent
        BY <1>8, <1>10, <2>1, <4>1
      <4> QED
        BY <1>2, <1>8, <2>1, <3>2, <4>2 DEF CopiesInv
    <3> QED
      BY <3>1, <3>2
  <2>2. ASSUME NEW i \in DOMAIN Memory', Memory'[i].id \notin excused'
        PROVE  Kept(Memory'[i], Rows, sent')
    <3>1. /\ i \in DOMAIN Memory /\ Memory[i].id \notin excused /\ Memory[i].id \in ConsentId
          /\ Kept(Memory[i], Rows, sent)
      BY <1>1, <1>2, <1>8, <2>2, ListFacts DEF CopiesInv
    <3>2. CASE i # k
      <4>1. Memory[i].id # record.id
        BY <1>8, <3>1, <3>2
      <4>2. Kept(Memory[i], Rows, sent')
        BY <1>10, <3>1, <4>1, KeptWithOthers
      <4> QED
        BY <1>8, <3>1, <3>2, <4>2
    <3>3. CASE i = k
      <4>1. s \in sent' /\ UpdateOf(s, record.id)
        BY <1>1, <1>3, <1>4, <1>8, <1>10, <2>2, <3>3
      <4>2. Kept(record, Rows, sent)
        BY <3>1, <3>3 DEF record
      <4>3. \A t \in sent' : InsertOf(t, record.id) => t \in sent
        BY <1>3, <1>10
      <4>4. Kept(Revoked(record), Rows, sent')
        BY <1>4, <1>10, <4>1, <4>2, <4>3 DEF Kept
      <4> QED
        BY <1>8, <3>3, <4>4
    <3> QED
      BY <3>2, <3>3
  <2> QED
    BY <1>6, <2>1, <2>2 DEF CopiesInv
<1>15. RevokedInv'
  <2>1. SUFFICES ASSUME NEW id \in revoked' \ excused'
                 PROVE  /\ \A i \in DOMAIN Memory' : Memory'[i].id = id => Withdrawn(Memory'[i])
                        /\ \A j \in DOMAIN Rows :
                             Rows[j].id = id => Withdrawn(Rows[j]) \/ \E t \in sent' : UpdateOf(t, id)
                        /\ \A t \in sent' : InsertOf(t, id) => \E u \in sent' : UpdateOf(u, id)
    BY <1>6 DEF RevokedInv
  <2>2. CASE id = record.id
    <3>1. s \in sent' /\ UpdateOf(s, id)
      BY <1>1, <1>3, <1>10, <2>1, <2>2
    <3> QED
      BY <1>4, <1>8, <2>2, <3>1
  <2>3. CASE id # record.id
    <3>1. id \in revoked \ excused /\ id \in ConsentId
      BY <1>1, <1>2, <2>1, <2>3 DEF ConsentTypeOK
    <3>2. \A t \in sent' : InsertOf(t, id) => t \in sent
      BY <1>10, <3>1
    <3>3. /\ \A i \in DOMAIN Memory : Memory[i].id = id => Withdrawn(Memory[i])
          /\ \A j \in DOMAIN Rows :
               Rows[j].id = id => Withdrawn(Rows[j]) \/ \E t \in sent : UpdateOf(t, id)
          /\ \A t \in sent : InsertOf(t, id) => \E u \in sent : UpdateOf(u, id)
      BY <1>2, <3>1 DEF RevokedInv
    <3>4. \A i \in DOMAIN Memory' : Memory'[i].id = id => Withdrawn(Memory'[i])
      BY <1>4, <1>8, <2>3, <3>3
    <3> QED
      BY <1>10, <3>2, <3>3, <3>4
  <2> QED
    BY <2>2, <2>3
<1> QED
  BY <1>9, <1>12, <1>13, <1>14, <1>15 DEF ConsentInv

(* An INSERT is executed.                                                      *)
LEMMA ExecuteInsertKeeps ==
  ASSUME ConsentInv, NEW s \in sent, Execute(s), s.op = "insert" PROVE ConsentInv'
<1> DEFINE kind == s.record.kind
<1>1. /\ sent' = sent \ {s}
      /\ consentTable' = [consentTable EXCEPT ![kind] = Append(consentTable[kind], s.record)]
      /\ UNCHANGED <<consents, mysqlAvailable, load, instant, recorded, revoked, excused>>
  BY DEF Execute
<1>2. ConsentTypeOK /\ IdsInv /\ LoadedInv /\ CopiesInv /\ RevokedInv
  BY DEF ConsentInv
<1>3. s.record \in ConsentRecord /\ kind \in RecordKind /\ s.record.id \in ConsentId
  BY <1>2, ListFacts
<1>4. ConsentTypeOK'
  <2>1. Append(consentTable[kind], s.record) \in Seq(ConsentRecord)
    BY <1>2, <1>3, AppendProperties DEF ConsentTypeOK, RecordLists
  <2>2. consentTable' \in RecordLists
    BY <1>1, <1>2, <2>1 DEF ConsentTypeOK, RecordLists
  <2> QED
    BY <1>1, <1>2, <2>2 DEF ConsentTypeOK
<1>5. /\ Memory' = Memory
      /\ Rows' = IF kind = "consent" THEN Append(Rows, s.record) ELSE Rows
  BY <1>1, <1>2 DEF Memory, Rows, ConsentTypeOK, RecordLists, RecordKind
<1>6. \A id \in ConsentId : ~UpdateOf(s, id)
  BY DEF UpdateOf
<1> HIDE DEF kind
<1>7. load.step = "none"
  BY <1>2 DEF LoadedInv
<1>8. CASE kind # "consent"
  <2>1. Rows' = Rows /\ \A id \in ConsentId : ~InsertOf(s, id)
    BY <1>5, <1>8 DEF InsertOf, kind
  <2>2. IdsInv' /\ LoadedInv'
    BY <1>1, <1>2, <1>5, <1>7, <2>1 DEF IdsInv, LoadedInv
  <2>3. \A i \in DOMAIN Memory : Memory[i].id \notin excused => Kept(Memory[i], Rows, sent')
    BY <1>1, <1>2, <1>6, <2>1, ListFacts, KeptWithOthers DEF CopiesInv
  <2>4. CopiesInv'
    BY <1>1, <1>2, <1>5, <2>1, <2>3 DEF CopiesInv
  <2>5. RevokedInv'
    <3>1. revoked \subseteq ConsentId
      BY <1>2 DEF ConsentTypeOK
    <3> QED
      BY <1>1, <1>2, <1>5, <1>6, <2>1, <3>1 DEF RevokedInv
  <2> QED
    BY <1>4, <2>2, <2>4, <2>5 DEF ConsentInv
<1>9. CASE kind = "consent"
  <2> DEFINE n == Len(Rows)
             new == s.record.id
  <2>1. /\ n \in Nat /\ DOMAIN Rows = 1 .. n /\ DOMAIN Rows' = 1 .. n + 1
        /\ \A j \in 1 .. n : Rows'[j] = Rows[j]
        /\ Rows'[n + 1] = s.record
    BY <1>2, <1>3, <1>5, <1>9, ListFacts, AppendProperties
  <2> HIDE DEF n
  <2>2. /\ new \in ConsentId /\ InsertOf(s, new) /\ new \notin Ids(Rows) /\ new \in Ids(Memory)
        /\ \A id \in ConsentId : InsertOf(s, id) => id = new
        /\ \A t \in sent : InsertOf(t, new) => t = s
    BY <1>2, <1>3, <1>9 DEF IdsInv, LoadedInv, InsertOf, kind
  <2> HIDE DEF new
  <2>3. \A j \in DOMAIN Rows' : (j \in DOMAIN Rows /\ Rows'[j] = Rows[j])
                                \/ (j = n + 1 /\ Rows'[j] = s.record)
    BY <2>1
  <2>4. s.record.id = new /\ \A j \in DOMAIN Rows : Rows[j].id # new
    BY <2>2 DEF Ids, new
  <2>5. Ids(Rows') = Ids(Rows) \cup {new}
    <3>1. n + 1 \in DOMAIN Rows' /\ Rows'[n + 1].id = new
      BY <2>1, <2>4
    <3>2. \A j \in DOMAIN Rows : j \in DOMAIN Rows' /\ Rows'[j].id = Rows[j].id
      BY <2>1
    <3> QED
      BY <2>3, <2>4, <3>1, <3>2 DEF Ids
  <2>6. IdsInv'
    <3>1. UniqueIn(Rows')
      <4> SUFFICES ASSUME NEW i \in DOMAIN Rows', NEW j \in DOMAIN Rows', Rows'[i].id = Rows'[j].id
                   PROVE  i = j
        BY DEF UniqueIn
      <4> QED
        BY <1>2, <2>3, <2>4 DEF IdsInv, UniqueIn
    <3>2. \A j \in DOMAIN Rows' : Rows'[j].id <= recorded
      BY <1>2, <2>3 DEF IdsInv
    <3>3. \A t \in sent' : \A id \in ConsentId : InsertOf(t, id) => id \notin Ids(Rows')
      BY <1>1, <1>2, <2>2, <2>5 DEF IdsInv
    <3> QED
      BY <1>1, <1>2, <1>5, <3>1, <3>2, <3>3 DEF IdsInv
  <2>7. LoadedInv'
    <3>1. \A j \in DOMAIN Rows' : Rows'[j].kind = "consent"
      BY <1>2, <1>9, <2>3 DEF LoadedInv, kind
    <3>2. /\ \A t \in sent' : \A id \in ConsentId : InsertOf(t, id) => id \in Ids(Memory)
          /\ \A t \in sent' : t.op = "revoke" => t.record.kind = "consent"
          /\ \A i \in DOMAIN Memory : Memory[i].kind = "consent"
      BY <1>1, <1>2 DEF LoadedInv
    <3>3. mysqlAvailable /\ Ids(Rows') \subseteq Ids(Memory) /\ load = NoLoad
      BY <1>2, <1>7, <2>2, <2>5 DEF LoadedInv
    <3> HIDE DEF NoLoad
    <3> QED
      BY <1>1, <1>5, <1>7, <3>1, <3>2, <3>3 DEF LoadedInv
  <2>8. CopiesInv'
    <3>1. \A t \in sent', i \in DOMAIN Memory : UpdateOf(t, Memory[i].id) => Withdrawn(Memory[i])
      BY <1>1, <1>2 DEF CopiesInv
    <3>2. ASSUME NEW i \in DOMAIN Memory, Memory[i].id \notin excused
          PROVE  Kept(Memory[i], Rows', sent')
      <4> DEFINE r == Memory[i]
      <4>1. Kept(r, Rows, sent) /\ r.id \in ConsentId
        BY <1>2, <3>2, ListFacts DEF CopiesInv
      <4> HIDE DEF r
      <4>2. \A t \in sent : UpdateOf(t, r.id) => t \in sent'
        BY <1>1, <1>6, <4>1
      <4>3. r.id \in Ids(Rows') \/ \E t \in sent' : InsertOf(t, r.id)
        BY <1>1, <2>2, <2>5, <4>1 DEF Kept
      <4>4. ASSUME NEW j \in DOMAIN Rows', Rows'[j].id = r.id
            PROVE  /\ r.at \div 2 = Rows'[j].at \div 2
                   /\ Copy(r, Rows'[j]) \/ \E t \in sent' : UpdateOf(t, r.id)
        <5>1. CASE j \in DOMAIN Rows /\ Rows'[j] = Rows[j]
          BY <4>1, <4>2, <4>4, <5>1 DEF Kept
        <5>2. CASE Rows'[j] = s.record
          <6>1. InsertOf(s, r.id)
            BY <2>2, <2>4, <4>4, <5>2
          <6> QED
            BY <4>1, <4>2, <5>2, <6>1 DEF Kept
        <5> QED
          BY <2>3, <5>1, <5>2
      <4>5. ASSUME NEW t \in sent', InsertOf(t, r.id)
            PROVE  /\ r.at \div 2 = t.record.at \div 2
                   /\ Copy(r, t.record) \/ \E u \in sent' : UpdateOf(u, r.id)
        BY <1>1, <4>1, <4>2, <4>5 DEF Kept
      <4>6. Kept(r, Rows', sent')
        BY <4>3, <4>4, <4>5 DEF Kept
      <4> QED
        BY <4>6 DEF r
    <3> QED
      BY <1>1, <1>5, <3>1, <3>2 DEF CopiesInv
  <2>9. RevokedInv'
    <3>1. SUFFICES ASSUME NEW id \in revoked \ excused
                   PROVE  /\ \A i \in DOMAIN Memory : Memory[i].id = id => Withdrawn(Memory[i])
                          /\ \A j \in DOMAIN Rows' :
                               Rows'[j].id = id => Withdrawn(Rows'[j]) \/ \E t \in sent' : UpdateOf(t, id)
                          /\ \A t \in sent' : InsertOf(t, id) => \E u \in sent' : UpdateOf(u, id)
      BY <1>1, <1>5 DEF RevokedInv
    <3>2. id \in ConsentId
      BY <1>2 DEF ConsentTypeOK
    <3>3. /\ \A i \in DOMAIN Memory : Memory[i].id = id => Withdrawn(Memory[i])
          /\ \A j \in DOMAIN Rows :
               Rows[j].id = id => Withdrawn(Rows[j]) \/ \E t \in sent : UpdateOf(t, id)
          /\ \A t \in sent : InsertOf(t, id) => \E u \in sent : UpdateOf(u, id)
      BY <1>2 DEF RevokedInv
    <3>4. \A t \in sent : UpdateOf(t, id) => t \in sent'
      BY <1>1, <1>6, <3>2
    <3>5. ASSUME NEW j \in DOMAIN Rows', Rows'[j].id = id
          PROVE  Withdrawn(Rows'[j]) \/ \E t \in sent' : UpdateOf(t, id)
      <4>1. CASE j \in DOMAIN Rows /\ Rows'[j] = Rows[j]
        BY <3>3, <3>4, <3>5, <4>1
      <4>2. CASE Rows'[j] = s.record
        <5>1. InsertOf(s, id)
          BY <2>2, <2>4, <3>5, <4>2
        <5> QED
          BY <3>3, <3>4, <5>1
      <4> QED
        BY <2>3, <4>1, <4>2
    <3> QED
      BY <1>1, <3>3, <3>4, <3>5
  <2> QED
    BY <1>4, <2>6, <2>7, <2>8, <2>9 DEF ConsentInv
<1> QED
  BY <1>8, <1>9

(* An UPDATE is executed: rows of its record are withdrawn.                    *)
LEMMA ExecuteUpdateKeeps ==
  ASSUME ConsentInv, NEW s \in sent, Execute(s), s.op = "revoke" PROVE ConsentInv'
<1> DEFINE id == s.record.id
<1>1. ConsentTypeOK /\ IdsInv /\ LoadedInv /\ CopiesInv /\ RevokedInv
  BY DEF ConsentInv
<1>2. s.record.kind = "consent" /\ id \in ConsentId /\ mysqlAvailable /\ load.step = "none"
  BY <1>1, ListFacts DEF LoadedInv
<1>3. /\ sent' = sent \ {s}
      /\ consentTable' = [consentTable EXCEPT !["consent"] = RowRevoked(Rows, id)]
      /\ excused' = IF id \in Ids(Rows) THEN excused ELSE excused \cup {id}
      /\ UNCHANGED <<consents, mysqlAvailable, load, instant, recorded, revoked>>
  BY <1>2 DEF Execute, Rows
<1>4. /\ Memory' = Memory /\ Rows' = RowRevoked(Rows, id)
  BY <1>1, <1>3 DEF Memory, Rows, ConsentTypeOK, RecordLists, RecordKind
<1>5. /\ Rows' \in Seq(ConsentRecord) /\ DOMAIN Rows' = DOMAIN Rows
      /\ \A j \in DOMAIN Rows :
           /\ Rows'[j].id = Rows[j].id /\ Rows'[j].at = Rows[j].at
           /\ IF Rows[j].id = id THEN Withdrawn(Rows'[j]) ELSE Rows'[j] = Rows[j]
  BY <1>1, <1>4, ListFacts, RowRevokedFacts
<1>6. /\ UpdateOf(s, id) /\ \A n \in ConsentId : ~InsertOf(s, n)
      /\ \A n \in ConsentId : UpdateOf(s, n) => n = id
  BY DEF InsertOf, UpdateOf
<1>7. Ids(Rows') = Ids(Rows)
  BY <1>5 DEF Ids
<1>8. ConsentTypeOK'
  <2>1. consentTable' \in RecordLists
    <3>1. RowRevoked(Rows, id) \in Seq(ConsentRecord)
      BY <1>4, <1>5
    <3> QED
      BY <1>1, <1>3, <3>1 DEF ConsentTypeOK, RecordLists
  <2> QED
    BY <1>1, <1>2, <1>3, <2>1 DEF ConsentTypeOK
<1> HIDE DEF id
<1>9. \A t \in sent : InsertOf(t, id) => id \notin Ids(Rows)
  BY <1>1, <1>2 DEF IdsInv
<1>10. IdsInv'
  BY <1>1, <1>3, <1>4, <1>5, <1>7 DEF IdsInv, UniqueIn
<1>11. LoadedInv'
  <2>1. \A j \in DOMAIN Rows' : Rows'[j].kind = "consent"
    <3>1. \A j \in DOMAIN Rows : Rows[j] \in ConsentRecord /\ Rows[j].kind = "consent"
      BY <1>1, ListFacts DEF LoadedInv
    <3>2. \A j \in DOMAIN Rows : Rows'[j] = Rows[j] \/ Rows'[j] = Revoked(Rows[j])
      BY <1>4 DEF RowRevoked
    <3> QED
      BY <1>5, <3>1, <3>2, RevokedFacts
  <2> QED
    BY <1>1, <1>2, <1>3, <1>4, <1>7, <2>1 DEF LoadedInv
<1>12. CopiesInv'
  <2>1. \A t \in sent', i \in DOMAIN Memory : UpdateOf(t, Memory[i].id) => Withdrawn(Memory[i])
    BY <1>1, <1>3 DEF CopiesInv
  <2>2. ASSUME NEW i \in DOMAIN Memory, Memory[i].id \notin excused'
        PROVE  Kept(Memory[i], Rows', sent')
    <3> DEFINE r == Memory[i]
    <3>1. Kept(r, Rows, sent) /\ r.id \in ConsentId
      BY <1>1, <1>3, <2>2, ListFacts DEF CopiesInv
    <3>2. UpdateOf(s, r.id) => Withdrawn(r)
      BY <1>1 DEF CopiesInv
    <3>3. r.id = id => id \in Ids(Rows)
      BY <1>3, <2>2
    <3> HIDE DEF r
    <3>4. CASE r.id # id
      <4>1. \A t \in sent : InsertOf(t, r.id) \/ UpdateOf(t, r.id) => t \in sent'
        BY <1>3, <1>6, <3>1, <3>4
      <4>2. \A j \in DOMAIN Rows' : Rows'[j].id = r.id => j \in DOMAIN Rows /\ Rows'[j] = Rows[j]
        BY <1>5, <3>4
      <4>3. Kept(r, Rows, sent')
        BY <1>3, <3>1, <4>1, KeptWithOthers
      <4>4. Kept(r, Rows', sent')
        BY <1>7, <4>2, <4>3 DEF Kept
      <4> QED
        BY <4>4 DEF r
    <3>5. CASE r.id = id
      <4>1. Withdrawn(r) /\ id \in Ids(Rows)
        BY <1>6, <3>2, <3>3, <3>5
      <4>2. \A t \in sent' : ~InsertOf(t, r.id)
        BY <1>3, <1>9, <3>5, <4>1
      <4>3. ASSUME NEW j \in DOMAIN Rows', Rows'[j].id = r.id
            PROVE  r.at \div 2 = Rows'[j].at \div 2 /\ Copy(r, Rows'[j])
        <5>1. j \in DOMAIN Rows /\ Rows[j].id = r.id /\ Withdrawn(Rows'[j])
              /\ Rows'[j].at = Rows[j].at
          BY <1>5, <3>5, <4>3
        <5>2. r.at \div 2 = Rows[j].at \div 2
          BY <3>1, <5>1 DEF Kept
        <5>3. Rows'[j] \in ConsentRecord /\ r \in ConsentRecord
          BY <1>1, <1>5, <5>1, ElementOfSeq, LenProperties, ListFacts DEF r
        <5>4. Rows'[j].given = FALSE /\ r.given = FALSE /\ Rows'[j].revoked = TRUE /\ r.revoked = TRUE
          BY <4>1, <5>1, <5>3 DEF Withdrawn, ConsentRecord
        <5> QED
          BY <5>1, <5>2, <5>4 DEF Copy
      <4>4. Kept(r, Rows', sent')
        BY <1>7, <3>5, <4>1, <4>2, <4>3 DEF Kept
      <4> QED
        BY <4>4 DEF r
    <3> QED
      BY <3>4, <3>5
  <2> QED
    BY <1>3, <1>4, <2>1, <2>2 DEF CopiesInv
<1>13. RevokedInv'
  <2>1. SUFFICES ASSUME NEW n \in revoked \ excused'
                 PROVE  /\ \A i \in DOMAIN Memory : Memory[i].id = n => Withdrawn(Memory[i])
                        /\ \A j \in DOMAIN Rows' :
                             Rows'[j].id = n => Withdrawn(Rows'[j]) \/ \E t \in sent' : UpdateOf(t, n)
                        /\ \A t \in sent' : InsertOf(t, n) => \E u \in sent' : UpdateOf(u, n)
    BY <1>3, <1>4 DEF RevokedInv
  <2>2. n \in revoked \ excused /\ n \in ConsentId
    BY <1>1, <1>3 DEF ConsentTypeOK
  <2>3. /\ \A i \in DOMAIN Memory : Memory[i].id = n => Withdrawn(Memory[i])
        /\ \A j \in DOMAIN Rows :
             Rows[j].id = n => Withdrawn(Rows[j]) \/ \E t \in sent : UpdateOf(t, n)
        /\ \A t \in sent : InsertOf(t, n) => \E u \in sent : UpdateOf(u, n)
    BY <1>1, <2>2 DEF RevokedInv
  <2>4. CASE n = id
    <3>1. \A t \in sent' : ~InsertOf(t, n)
      BY <1>3, <1>9, <2>1, <2>4
    <3> QED
      BY <1>5, <2>3, <2>4, <3>1
  <2>5. CASE n # id
    <3>1. \A t \in sent : UpdateOf(t, n) => t \in sent'
      BY <1>3, <1>6, <2>2, <2>5
    <3>2. \A j \in DOMAIN Rows' : Rows'[j].id = n => j \in DOMAIN Rows /\ Rows'[j] = Rows[j]
      BY <1>5, <2>5
    <3> QED
      BY <1>3, <2>3, <3>1, <3>2
  <2> QED
    BY <2>4, <2>5
<1> QED
  BY <1>8, <1>10, <1>11, <1>12, <1>13 DEF ConsentInv

(* A statement fails.                                                          *)
LEMMA ExecuteFailsKeeps ==
  ASSUME ConsentInv, NEW s \in sent, ExecuteFails(s) PROVE ConsentInv'
<1> DEFINE failed == s.record.id
<1>1. /\ sent' = sent \ {s} /\ excused' = excused \cup {failed}
      /\ UNCHANGED <<consents, consentTable, mysqlAvailable, load, instant, recorded, revoked>>
  BY DEF ExecuteFails
<1>2. ConsentTypeOK /\ IdsInv /\ LoadedInv /\ CopiesInv /\ RevokedInv
  BY DEF ConsentInv
<1>3. /\ failed \in ConsentId
      /\ \A id \in ConsentId : InsertOf(s, id) \/ UpdateOf(s, id) => id = failed
  BY <1>2, ListFacts DEF InsertOf, UpdateOf
<1> HIDE DEF failed
<1>4. Memory' = Memory /\ Rows' = Rows
  BY <1>1 DEF Memory, Rows
<1>5. ConsentTypeOK'
  BY <1>1, <1>2, <1>3 DEF ConsentTypeOK
<1>6. IdsInv'
  BY <1>1, <1>2, <1>4 DEF IdsInv
<1>7. LoadedInv'
  BY <1>1, <1>2, <1>4 DEF LoadedInv
<1>8. CopiesInv'
  <2>1. ASSUME NEW i \in DOMAIN Memory, Memory[i].id \notin excused'
        PROVE  Kept(Memory[i], Rows, sent')
    <3>1. Kept(Memory[i], Rows, sent) /\ Memory[i].id \in ConsentId /\ Memory[i].id # failed
      BY <1>1, <1>2, <2>1, ListFacts DEF CopiesInv
    <3> QED
      BY <1>1, <1>3, <3>1, KeptWithOthers
  <2>2. \A t \in sent', i \in DOMAIN Memory : UpdateOf(t, Memory[i].id) => Withdrawn(Memory[i])
    BY <1>1, <1>2 DEF CopiesInv
  <2> QED
    BY <1>4, <2>1, <2>2 DEF CopiesInv
<1>9. RevokedInv'
  <2>1. \A id \in revoked \ excused' : id \in revoked \ excused /\ id \in ConsentId /\ id # failed
    BY <1>1, <1>2 DEF ConsentTypeOK
  <2>2. \A id \in revoked \ excused' : \A t \in sent : UpdateOf(t, id) => t \in sent'
    BY <1>1, <1>3, <2>1
  <2> QED
    BY <1>1, <1>2, <1>4, <2>1, <2>2 DEF RevokedInv
<1> QED
  BY <1>5, <1>6, <1>7, <1>8, <1>9 DEF ConsentInv

(* While nothing is sent, only rows matter to a record in memory.              *)
LEMMA KeptAlone ==
  ASSUME NEW r, NEW rows
  PROVE  Kept(r, rows, {}) <=> /\ r.id \in Ids(rows)
                               /\ \A j \in DOMAIN rows : rows[j].id = r.id => Copy(r, rows[j])
BY DEF Kept, Copy

(* The load goes on.                                                           *)
LEMMA LoadRowsKeeps ==
  ASSUME ConsentInv, LoadRows PROVE ConsentInv'
<1> DEFINE kind == load.kind
<1>1. /\ load.step = "select"
      /\ consents' = [consents EXCEPT ![kind] = Loaded(consentTable[kind])]
      /\ load' = IF kind = "consent" THEN [step |-> "select", kind |-> "agreement"] ELSE NoLoad
      /\ UNCHANGED <<consentTable, mysqlAvailable, sent, instant, recorded, revoked, excused>>
  BY DEF LoadRows
<1>2. ConsentTypeOK /\ IdsInv /\ LoadedInv /\ CopiesInv /\ RevokedInv
  BY DEF ConsentInv
<1>3. kind \in RecordKind /\ sent = {} /\ mysqlAvailable
  BY <1>1, <1>2 DEF ConsentTypeOK, LoadedInv
<1>4. ConsentTypeOK'
  <2>1. Loaded(consentTable[kind]) \in Seq(ConsentRecord)
    BY <1>2, <1>3, LoadedFacts DEF ConsentTypeOK, RecordLists
  <2>2. consents' \in RecordLists
    BY <1>1, <1>2, <2>1 DEF ConsentTypeOK, RecordLists
  <2>3. load' \in [step: {"none", "create", "select"}, kind: RecordKind]
    BY <1>1 DEF NoLoad, RecordKind
  <2> QED
    BY <1>1, <1>2, <2>2, <2>3 DEF ConsentTypeOK
<1>5. /\ Rows' = Rows
      /\ Memory' = IF kind = "consent" THEN Loaded(Rows) ELSE Memory
  BY <1>1, <1>2 DEF Memory, Rows, ConsentTypeOK, RecordLists, RecordKind
<1> HIDE DEF kind
<1>6. CASE kind = "agreement"
  <2>1. load' = NoLoad /\ NoLoad.step = "none" /\ NoLoad.kind = "consent" /\ Memory' = Memory
    BY <1>1, <1>5, <1>6 DEF NoLoad
  <2>2. Ids(Rows) \subseteq Ids(Memory)
    BY <1>2, <1>3, <1>6 DEF LoadedInv, kind
  <2>3. IdsInv' /\ CopiesInv' /\ RevokedInv'
    BY <1>1, <1>2, <1>5, <2>1 DEF IdsInv, CopiesInv, RevokedInv
  <2>4. LoadedInv'
    BY <1>1, <1>2, <1>3, <1>5, <2>1, <2>2 DEF LoadedInv
  <2> QED
    BY <1>4, <2>3, <2>4 DEF ConsentInv
<1>7. CASE kind = "consent"
  <2>1. /\ DOMAIN Memory' = DOMAIN Rows
        /\ \A j \in DOMAIN Rows : /\ Memory'[j].id = Rows[j].id /\ Copy(Memory'[j], Rows[j])
                                  /\ Memory'[j] \in ConsentRecord
    <3>1. Rows \in Seq(ConsentRecord) /\ Loaded(Rows) \in Seq(ConsentRecord)
      BY <1>2, ListFacts, LoadedFacts
    <3>2. \A j \in DOMAIN Loaded(Rows) : Loaded(Rows)[j] \in ConsentRecord
      BY <3>1, ElementOfSeq, LenProperties
    <3> QED
      BY <1>5, <1>7, <3>1, <3>2, LoadedFacts
  <2>2. Ids(Memory') = Ids(Rows)
    BY <2>1 DEF Ids
  <2>3. IdsInv'
    BY <1>1, <1>2, <1>5, <2>1 DEF IdsInv, UniqueIn
  <2>4. \A j \in DOMAIN Rows : Rows[j].kind = "consent" /\ Memory'[j].kind = "consent"
    <3>1. \A j \in DOMAIN Rows : Rows[j].kind = "consent"
      BY <1>2 DEF LoadedInv
    <3>2. \A j \in DOMAIN Rows : Loaded(Rows)[j] = [Rows[j] EXCEPT !.at = 2 * (@ \div 2)]
      BY DEF Loaded
    <3>3. \A j \in DOMAIN Rows : Loaded(Rows)[j].kind = Rows[j].kind
      <4>1. \A j \in DOMAIN Rows : Rows[j] \in ConsentRecord
        BY <1>2, ListFacts
      <4> QED
        BY <3>2, <4>1 DEF ConsentRecord
    <3> QED
      BY <1>5, <1>7, <3>1, <3>3
  <2>5. LoadedInv'
    <3>1. load' = [step |-> "select", kind |-> "agreement"]
      BY <1>1, <1>7
    <3> QED
      BY <1>1, <1>3, <1>5, <2>1, <2>2, <2>4, <3>1 DEF LoadedInv
  <2>6. CopiesInv'
    <3>1. ASSUME NEW i \in DOMAIN Memory' PROVE Kept(Memory'[i], Rows, {})
      <4>1. Memory'[i].id \in Ids(Rows)
        BY <2>1 DEF Ids
      <4>2. ASSUME NEW j \in DOMAIN Rows, Rows[j].id = Memory'[i].id
            PROVE  Copy(Memory'[i], Rows[j])
        <5>1. i = j
          BY <1>2, <2>1, <4>2 DEF IdsInv, UniqueIn
        <5> QED
          BY <2>1, <5>1
      <4> QED
        BY <4>1, <4>2, KeptAlone
    <3> QED
      BY <1>1, <1>3, <1>5, <3>1 DEF CopiesInv
  <2>7. RevokedInv'
    <3>1. SUFFICES ASSUME NEW id \in revoked \ excused
                   PROVE  /\ \A i \in DOMAIN Memory' : Memory'[i].id = id => Withdrawn(Memory'[i])
                          /\ \A j \in DOMAIN Rows : Rows[j].id = id => Withdrawn(Rows[j])
      BY <1>1, <1>3, <1>5 DEF RevokedInv
    <3>2. \A j \in DOMAIN Rows : Rows[j].id = id => Withdrawn(Rows[j])
      BY <1>2, <1>3, <3>1 DEF RevokedInv
    <3> QED
      BY <2>1, <3>2 DEF Withdrawn, Copy
  <2> QED
    BY <1>4, <2>3, <2>5, <2>6, <2>7 DEF ConsentInv
<1> QED
  BY <1>3, <1>6, <1>7 DEF RecordKind

(* The load begins, or ends early, or time passes: memory, rows and statements *)
(* stay.                                                                       *)
LEMMA OtherStepKeeps ==
  ASSUME ConsentInv, TablesExist \/ LoadFails \/ TimePasses PROVE ConsentInv'
<1>1. UNCHANGED <<consents, consentTable, sent, recorded, revoked, excused>>
  BY DEF TablesExist, LoadFails, TimePasses
<1>2. ConsentTypeOK /\ IdsInv /\ LoadedInv /\ CopiesInv /\ RevokedInv
  BY DEF ConsentInv
<1>3. Memory' = Memory /\ Rows' = Rows
  BY <1>1 DEF Memory, Rows
<1>4. IdsInv' /\ CopiesInv' /\ RevokedInv'
  BY <1>1, <1>2, <1>3 DEF IdsInv, CopiesInv, RevokedInv
<1>5. NoLoad = [step |-> "none", kind |-> "consent"]
  BY DEF NoLoad
<1>6. CASE TablesExist
  <2>1. /\ load.step = "create" /\ mysqlAvailable' = TRUE /\ instant' = instant
        /\ load' = [load EXCEPT !.step = "select"]
    BY <1>6 DEF TablesExist
  <2>2. load'.step = "select" /\ load'.kind = "consent" /\ load' # NoLoad /\ sent = {}
        /\ load' \in [step: {"none", "create", "select"}, kind: RecordKind]
    BY <1>2, <1>5, <2>1 DEF ConsentTypeOK, LoadedInv
  <2>3. LoadedInv'
    BY <1>1, <1>2, <1>3, <2>1, <2>2 DEF LoadedInv
  <2>4. ConsentTypeOK'
    BY <1>1, <1>2, <2>1, <2>2 DEF ConsentTypeOK
  <2> QED
    BY <1>4, <2>3, <2>4 DEF ConsentInv
<1>7. CASE LoadFails
  <2>1. /\ load.step \in {"create", "select"} /\ mysqlAvailable' = FALSE /\ instant' = instant
        /\ load' = NoLoad
    BY <1>7 DEF LoadFails
  <2>2. sent = {} /\ load'.step = "none"
        /\ load' \in [step: {"none", "create", "select"}, kind: RecordKind]
    BY <1>2, <1>5, <2>1 DEF LoadedInv, RecordKind
  <2>3. LoadedInv'
    BY <1>1, <1>2, <1>3, <2>1, <2>2 DEF LoadedInv
  <2>4. ConsentTypeOK'
    BY <1>1, <1>2, <2>1, <2>2 DEF ConsentTypeOK
  <2> QED
    BY <1>4, <2>3, <2>4 DEF ConsentInv
<1>8. CASE TimePasses
  <2>1. instant' \in 0 .. MaxInstant /\ UNCHANGED <<mysqlAvailable, load>>
    BY <1>2, <1>8, MaxConsentsAssumption DEF TimePasses, ConsentTypeOK
  <2>2. LoadedInv'
    BY <1>1, <1>2, <1>3, <2>1 DEF LoadedInv
  <2>3. ConsentTypeOK'
    BY <1>1, <1>2, <2>1 DEF ConsentTypeOK
  <2> QED
    BY <1>4, <2>2, <2>3 DEF ConsentInv
<1> QED
  BY <1>6, <1>7, <1>8

(* The process ends and is started.                                            *)
LEMMA ConsentRestartKeeps ==
  ASSUME ConsentInv, NEW connected \in BOOLEAN, ConsentRestart(connected) PROVE ConsentInv'
<1>1. /\ consents' = NoRecords /\ mysqlAvailable' = FALSE /\ sent' = {}
      /\ load' = IF connected THEN [NoLoad EXCEPT !.step = "create"] ELSE NoLoad
      /\ excused' = excused \cup SentIds
      /\ UNCHANGED <<consentTable, instant, recorded, revoked>>
  BY DEF ConsentRestart
<1>2. ConsentTypeOK /\ IdsInv /\ LoadedInv /\ CopiesInv /\ RevokedInv
  BY DEF ConsentInv
<1>3. /\ NoRecords \in RecordLists /\ NoRecords["consent"] = <<>>
      /\ SentIds \subseteq ConsentId
  BY <1>2, ListFacts DEF NoRecords, RecordLists, RecordKind, SentIds
<1>4. /\ load' \in [step: {"none", "create", "select"}, kind: RecordKind]
      /\ load'.kind = "consent" /\ load'.step \in {"none", "create"}
      /\ load'.step = "none" => load' = NoLoad
  BY <1>1 DEF NoLoad, RecordKind
<1>5. Memory' = <<>> /\ Rows' = Rows
  BY <1>1, <1>3 DEF Memory, Rows
<1>6. ConsentTypeOK'
  BY <1>1, <1>2, <1>3, <1>4 DEF ConsentTypeOK
<1>7. IdsInv' /\ CopiesInv'
  BY <1>1, <1>2, <1>5 DEF IdsInv, UniqueIn, CopiesInv
<1>8. LoadedInv'
  <2>1. \A j \in DOMAIN Rows : Rows[j].kind = "consent"
    BY <1>2 DEF LoadedInv
  <2> QED
    BY <1>1, <1>4, <1>5, <2>1 DEF LoadedInv
<1>9. RevokedInv'
  <2>1. SUFFICES ASSUME NEW id \in revoked \ excused'
                 PROVE  \A j \in DOMAIN Rows : Rows[j].id = id => Withdrawn(Rows[j])
    BY <1>1, <1>5 DEF RevokedInv
  <2>2. id \in revoked \ excused /\ \A s \in sent : ~UpdateOf(s, id)
    BY <1>1, <2>1 DEF SentIds, UpdateOf
  <2> QED
    BY <1>2, <2>2 DEF RevokedInv
<1> QED
  BY <1>6, <1>7, <1>8, <1>9 DEF ConsentInv

(* No step breaks the invariant.                                               *)
LEMMA ConsentInductive == ConsentInv /\ [ConsentNext]_consentVars => ConsentInv'
<1> SUFFICES ASSUME ConsentInv, [ConsentNext]_consentVars PROVE ConsentInv'
  OBVIOUS
<1>1. CASE UNCHANGED consentVars
  <2>1. Memory' = Memory /\ Rows' = Rows
    BY <1>1 DEF consentVars, Memory, Rows
  <2> QED
    BY <1>1, <2>1 DEF consentVars, ConsentInv, ConsentTypeOK, IdsInv, LoadedInv, CopiesInv,
                      RevokedInv
<1>2. ASSUME NEW s \in sent, Execute(s) PROVE ConsentInv'
  <2>1. s.op \in {"insert", "revoke"}
    BY ListFacts DEF ConsentInv
  <2> QED
    BY <1>2, <2>1, ExecuteInsertKeeps, ExecuteUpdateKeeps
<1>3. CASE ConsentNext
  BY <1>2, <1>3, RecordKeeps, RevokeConsentKeeps, ExecuteFailsKeeps, LoadRowsKeeps, OtherStepKeeps,
     ConsentRestartKeeps DEF ConsentNext, Memory
<1> QED
  BY <1>1, <1>3

(* The invariant holds however many records there are, and however long.       *)
LEMMA ConsentInvariant == ConsentSpec => []ConsentInv
BY ConsentInitially, ConsentInductive, PTL DEF ConsentSpec

(* The lists, the tables and the statements have their types.                  *)
THEOREM ConsentTypes == ConsentSpec => []ConsentTypeOK
<1>1. ConsentInv => ConsentTypeOK
  BY DEF ConsentInv
<1> QED
  BY <1>1, ConsentInvariant, PTL

(* A revocation of which nothing went wrong is not undone, by a load either.   *)
THEOREM RevocationsStay == ConsentSpec => []RevocationKept
<1>1. ConsentInv => RevocationKept
  BY DEF ConsentInv, RevokedInv, RevocationKept, Memory, Withdrawn
<1> QED
  BY <1>1, ConsentInvariant, PTL

(* Two lists of the same consents, those of one no two of the same second,     *)
(* decide alike.                                                               *)
LEMMA SameDecision ==
  ASSUME NEW list \in Seq(ConsentRecord), NEW rows \in Seq(ConsentRecord),
         UniqueIn(list), UniqueIn(rows), Ids(list) = Ids(rows),
         \A i \in DOMAIN list, j \in DOMAIN rows :
           list[i].id = rows[j].id => Copy(list[i], rows[j]),
         \A i, j \in DOMAIN rows : i # j => rows[i].at \div 2 # rows[j].at \div 2
  PROVE  Allowed(Loaded(rows)) <=> Allowed(list)
<1> DEFINE second(r) == r.at \div 2
           loaded == Loaded(rows)
<1>1. /\ DOMAIN loaded = DOMAIN rows /\ DOMAIN rows \subseteq Nat /\ DOMAIN list \subseteq Nat
      /\ \A j \in DOMAIN rows : rows[j] \in ConsentRecord
      /\ \A j \in DOMAIN rows : loaded[j].id = rows[j].id /\ Copy(loaded[j], rows[j])
                                /\ loaded[j].at = 2 * second(rows[j])
      /\ \A i \in DOMAIN list : list[i] \in ConsentRecord
  BY LoadedFacts, LenProperties, ElementOfSeq
<1>2. \A n \in Nat : n \div 2 \in Nat /\ \A m \in Nat : n <= m => n \div 2 <= m \div 2
  OBVIOUS
<1>3. /\ \A j \in DOMAIN rows : rows[j].at \in Nat /\ second(rows[j]) \in Nat
      /\ \A i \in DOMAIN list : list[i].at \in Nat /\ second(list[i]) \in Nat
  BY <1>1, <1>2, MaxConsentsAssumption DEF ConsentRecord
<1>4. /\ \A i \in DOMAIN list : \E j \in DOMAIN rows : list[i].id = rows[j].id
      /\ \A j \in DOMAIN rows : \E i \in DOMAIN list : list[i].id = rows[j].id
  BY DEF Ids
<1>5. \A i \in DOMAIN list, j \in DOMAIN rows :
        list[i].id = rows[j].id =>
          /\ second(list[i]) = second(rows[j])
          /\ loaded[j].given = list[i].given /\ loaded[j].revoked = list[i].revoked
  BY <1>1 DEF Copy
<1>6. \A i, j \in DOMAIN rows : i # j => second(rows[i]) # second(rows[j])
  OBVIOUS
<1>7. \A i, j \in DOMAIN rows :
        loaded[i].at > loaded[j].at <=> second(rows[i]) > second(rows[j])
  <2>1. \A n, m \in Nat : 2 * n > 2 * m <=> n > m
    OBVIOUS
  <2> QED
    BY <1>1, <1>3, <2>1
<1>8. \A i, j \in DOMAIN rows :
        i # j => (Newer(loaded, i, j) <=> second(rows[i]) > second(rows[j]))
  <2>1. \A i, j \in DOMAIN rows : i # j => loaded[i].at # loaded[j].at
    BY <1>1, <1>3, <1>6
  <2> QED
    BY <1>7, <2>1 DEF Newer
<1>9. \A i, j \in DOMAIN list :
        /\ Newer(list, i, j) => second(list[i]) >= second(list[j])
        /\ second(list[i]) > second(list[j]) => Newer(list, i, j)
  <2>1. \A n, m \in Nat : /\ n > m \/ n = m => n \div 2 >= m \div 2
                          /\ n \div 2 > m \div 2 => n > m
    OBVIOUS
  <2> QED
    BY <1>3, <2>1 DEF Newer
<1> HIDE DEF second, loaded
<1>10. ASSUME Allowed(loaded) PROVE Allowed(list)
  <2>1. PICK j \in Active(loaded) :
          loaded[j].given /\ \A k \in Active(loaded) \ {j} : Newer(loaded, j, k)
    BY <1>10 DEF Allowed
  <2>2. j \in DOMAIN rows /\ ~loaded[j].revoked
    BY <1>1, <2>1 DEF Active
  <2>3. PICK i \in DOMAIN list : list[i].id = rows[j].id
    BY <1>4, <2>2
  <2>4. i \in Active(list) /\ list[i].given
    BY <1>5, <2>1, <2>2, <2>3 DEF Active
  <2>5. ASSUME NEW h \in Active(list) \ {i} PROVE Newer(list, i, h)
    <3>1. h \in DOMAIN list /\ ~list[h].revoked /\ list[h].id # list[i].id
      BY <2>3, <2>5 DEF Active, UniqueIn
    <3>2. PICK k \in DOMAIN rows : list[h].id = rows[k].id
      BY <1>4, <3>1
    <3>3. k # j /\ k \in Active(loaded)
      BY <1>1, <1>5, <2>3, <3>1, <3>2 DEF Active
    <3>4. second(rows[j]) > second(rows[k])
      BY <1>8, <2>1, <2>2, <3>3
    <3> QED
      BY <1>5, <1>9, <2>2, <2>3, <3>1, <3>2, <3>4
  <2> QED
    BY <2>4, <2>5 DEF Allowed
<1>11. ASSUME Allowed(list) PROVE Allowed(loaded)
  <2>1. PICK i \in Active(list) :
          list[i].given /\ \A h \in Active(list) \ {i} : Newer(list, i, h)
    BY <1>11 DEF Allowed
  <2>2. i \in DOMAIN list /\ ~list[i].revoked
    BY <2>1 DEF Active
  <2>3. PICK j \in DOMAIN rows : list[i].id = rows[j].id
    BY <1>4, <2>2
  <2>4. j \in Active(loaded) /\ loaded[j].given
    BY <1>1, <1>5, <2>1, <2>2, <2>3 DEF Active
  <2>5. ASSUME NEW k \in Active(loaded) \ {j} PROVE Newer(loaded, j, k)
    <3>1. k \in DOMAIN rows /\ ~loaded[k].revoked /\ rows[k].id # rows[j].id
      BY <1>1, <2>5, <2>3 DEF Active, UniqueIn
    <3>2. PICK h \in DOMAIN list : list[h].id = rows[k].id
      BY <1>4, <3>1
    <3>3. h # i /\ h \in Active(list)
      BY <1>5, <2>3, <3>1, <3>2 DEF Active
    <3>4. second(list[i]) >= second(list[h])
      BY <1>9, <2>1, <2>2, <3>2, <3>3
    <3>5. second(rows[j]) >= second(rows[k]) /\ second(rows[j]) # second(rows[k])
      BY <1>5, <1>6, <2>2, <2>3, <2>5, <3>1, <3>2, <3>4
    <3>6. second(rows[j]) > second(rows[k])
      BY <1>3, <2>3, <3>1, <3>5
    <3> QED
      BY <1>8, <2>3, <2>5, <3>1, <3>6
  <2> QED
    BY <2>4, <2>5 DEF Allowed
<1> QED
  BY <1>10, <1>11 DEF loaded

(* A restart decides as the process did, when all has reached the table.       *)
THEOREM RestartsDecideAlike == ConsentSpec => []RestartKeepsDecision
<1>1. ConsentInv => RestartKeepsDecision
  <2> SUFFICES ASSUME ConsentInv, \A id \in 1 .. recorded : Settled(id),
                      \A i, j \in DOMAIN Rows : i # j => Rows[i].at \div 2 # Rows[j].at \div 2
               PROVE  Allowed(Loaded(Rows)) <=> Allowed(Memory)
    BY DEF RestartKeepsDecision, Rows, Memory
  <2>1. ConsentTypeOK /\ IdsInv /\ LoadedInv /\ CopiesInv
    BY DEF ConsentInv
  <2>2. /\ \A i \in DOMAIN Memory : Memory[i].id \in 1 .. recorded
        /\ \A j \in DOMAIN Rows : Rows[j].id \in 1 .. recorded
    BY <2>1, ListFacts DEF IdsInv, ConsentId, ConsentTypeOK
  <2>3. ASSUME NEW i \in DOMAIN Memory
        PROVE  /\ Memory[i].id \in Ids(Rows)
               /\ \A j \in DOMAIN Rows : Rows[j].id = Memory[i].id => Copy(Memory[i], Rows[j])
    <3> DEFINE id == Memory[i].id
    <3>1. id \notin excused /\ \A s \in sent : s.record.id # id
      BY <2>2 DEF Settled, SentIds
    <3>2. \A s \in sent : ~InsertOf(s, id) /\ ~UpdateOf(s, id)
      BY <3>1 DEF InsertOf, UpdateOf
    <3>3. Kept(Memory[i], Rows, sent)
      BY <2>1, <3>1 DEF CopiesInv
    <3> QED
      BY <3>2, <3>3 DEF Kept
  <2>4. Ids(Memory) = Ids(Rows)
    <3>1. Ids(Memory) \subseteq Ids(Rows)
      BY <2>3 DEF Ids
    <3>2. ASSUME NEW j \in DOMAIN Rows PROVE Rows[j].id \in Ids(Memory)
      <4>1. mysqlAvailable /\ load = NoLoad
        BY <2>2 DEF Settled
      <4>2. Rows[j].id \in Ids(Rows)
        BY DEF Ids
      <4> QED
        BY <2>1, <4>1, <4>2 DEF LoadedInv
    <3> QED
      BY <3>1, <3>2 DEF Ids
  <2> QED
    BY <2>1, <2>3, <2>4, ListFacts, SameDecision DEF IdsInv
<1> QED
  BY <1>1, ConsentInvariant, PTL

-----------------------------------------------------------------------------
(* TenantStore: the use of tokens.                                             *)

Within(record) == record.usage # Text => record.usage <= TokensPerDay[record.limits]

\* A tenant the map does not have is not written about; the rows that a load has
\* found are in the table, and as they were for such a tenant.
RowsInv(t) ==
  /\ ~tenants[t].known =>
       tenants[t].usage = 0 /\ t \notin unwritten /\ \A s \in tenantSent : s.tenant # t
  /\ \A s \in tenantSent : s.tenant = t => s.record.known
  /\ ~tenantTable[t].known => tenantTable[t].usage = 0
  /\ tenantLoad.rows[t].known => tenantLoad.step = "apply" /\ tenantTable[t].known
  /\ tenantLoad.step = "apply" /\ ~tenants[t].known => tenantLoad.rows[t] = tenantTable[t]

\* The limits are the same everywhere, and kept everywhere.
LimitsInv(t) ==
  /\ \A s \in tenantSent :
       s.tenant = t => s.record.limits = tenants[t].limits /\ Within(s.record)
  /\ tenants[t].known /\ tenantTable[t].known => tenants[t].limits = tenantTable[t].limits
  /\ Within(tenants[t]) /\ Within(tenantTable[t]) /\ Within(tenantLoad.rows[t])

\* Nothing reported is missing in the map; and in the table only what is still on
\* its way, or was not written.
CountInv(t) ==
  /\ spent[t] \in Nat
  /\ tenants[t].known => tenants[t].usage = spent[t]
  /\ \A s \in tenantSent :
       s.tenant = t => IF s.op = "insert" THEN s.record.usage = 0
                       ELSE s.record.usage \in Nat /\ s.record.usage <= spent[t]
  /\ tenantTable[t].usage \in Nat /\ tenantTable[t].usage <= spent[t]
  /\ t \notin unwritten =>
       \/ tenantTable[t].usage = spent[t]
       \/ \E s \in tenantSent : s.tenant = t /\ s.op = "update" /\ s.record.usage = spent[t]

TenantPart(t) ==
  /\ RowsInv(t)
  /\ t \notin clashed => LimitsInv(t)
  /\ spent[t] # Uncounted => t \notin clashed /\ CountInv(t)

TenantInv == TenantTypeOK /\ \A t \in AllTenants : TenantPart(t)

(* The most tokens of a plan.                                                  *)
LEMMA MaxTokensFacts == MaxTokens \in Nat /\ \A p \in Plan : TokensPerDay[p] <= MaxTokens
<1> DEFINE S == {TokensPerDay[p] : p \in Plan}
<1>1. PICK p \in Plan : \A q \in Plan : TokensPerDay[q] <= TokensPerDay[p]
  BY TenantAssumption
<1>2. \E n \in S : \A q \in Plan : TokensPerDay[q] <= n
  BY <1>1
<1>3. MaxTokens \in S /\ \A q \in Plan : TokensPerDay[q] <= MaxTokens
  BY <1>2 DEF MaxTokens
<1> QED
  BY <1>3, TenantAssumption

(* A tenant that is not known is a record without use.                         *)
LEMMA NoTenantFacts ==
  /\ NoTenantRecord \in TenantRecord /\ Within(NoTenantRecord)
  /\ ~NoTenantRecord.known /\ NoTenantRecord.usage = 0
  /\ NoTenants \in TenantMap
  /\ \A t \in AllTenants : NoTenants[t] = NoTenantRecord
<1>1. /\ FreePlan \in Plan /\ TokensPerDay[FreePlan] \in Nat
      /\ 0 \in Usage
  BY TenantAssumption, TenantBounds, MaxTokensFacts DEF Usage
<1>2. NoTenantRecord \in TenantRecord
  BY <1>1 DEF NoTenantRecord, TenantRecord
<1>3. Within(NoTenantRecord) /\ ~NoTenantRecord.known /\ NoTenantRecord.usage = 0
  BY <1>1 DEF Within, NoTenantRecord
<1> QED
  BY <1>2, <1>3 DEF NoTenants, TenantMap

(* Seeding makes the demo tenant known in an empty map, and changes no other.  *)
LEMMA SeededFacts ==
  ASSUME NEW map \in TenantMap
  PROVE  /\ Seeded(map) \in TenantMap
         /\ \A t \in AllTenants :
              /\ Seeded(map)[t].usage = map[t].usage /\ Seeded(map)[t].limits = map[t].limits
              /\ map[t].known => Seeded(map)[t].known
              /\ (\E u \in AllTenants : map[u].known) => Seeded(map)[t] = map[t]
<1>1. CASE \E t \in AllTenants : map[t].known
  BY <1>1 DEF Seeded
<1>2. CASE ~\E t \in AllTenants : map[t].known
  <2>1. Seeded(map) = [map EXCEPT ![DemoTenant].known = TRUE]
    BY <1>2 DEF Seeded
  <2>2. \A t \in AllTenants : map[t] \in TenantRecord
    BY DEF TenantMap
  <2>3. \A t \in AllTenants :
          Seeded(map)[t] = IF t = DemoTenant THEN [map[t] EXCEPT !.known = TRUE] ELSE map[t]
    BY <2>1 DEF TenantMap
  <2>4. ASSUME NEW t \in AllTenants
        PROVE  /\ [map[t] EXCEPT !.known = TRUE] \in TenantRecord
               /\ [map[t] EXCEPT !.known = TRUE].usage = map[t].usage
               /\ [map[t] EXCEPT !.known = TRUE].limits = map[t].limits
    BY <2>2 DEF TenantRecord
  <2>5. DemoTenant \in AllTenants
    BY DEF AllTenants
  <2>6. Seeded(map) \in TenantMap
    BY <2>1, <2>4, <2>5 DEF TenantMap
  <2> QED
    BY <1>2, <2>3, <2>4, <2>6
<1> QED
  BY <1>1, <1>2

(* A place of a load is one.                                                   *)
LEMMA LoadAtFacts ==
  ASSUME NEW step \in {"create", "select", "apply", "done"}
  PROVE  /\ LoadAt(step) \in [step: {"create", "select", "apply", "done"}, rows: TenantMap]
         /\ LoadAt(step).step = step /\ LoadAt(step).rows = NoTenants
BY NoTenantFacts DEF LoadAt

(* The table is empty and the process starts.                                  *)
LEMMA TenantInitially == TenantInit => TenantInv
<1> SUFFICES ASSUME TenantInit PROVE TenantInv
  OBVIOUS
<1>1. TenantTypeOK
  BY NoTenantFacts, LoadAtFacts DEF TenantInit, TenantTypeOK
<1>2. ASSUME NEW t \in AllTenants PROVE TenantPart(t)
  <2>1. /\ tenants[t] = NoTenantRecord /\ tenantTable[t] = NoTenantRecord
        /\ tenantLoad.rows[t] = NoTenantRecord /\ tenantLoad.step = "create"
        /\ tenantSent = {} /\ unwritten = {} /\ clashed = {} /\ spent[t] = 0
    BY NoTenantFacts, LoadAtFacts DEF TenantInit
  <2> QED
    BY <2>1, NoTenantFacts DEF TenantPart, RowsInv, LimitsInv, CountInv
<1> QED
  BY <1>1, <1>2 DEF TenantInv

(* A tenant's part is kept when nothing of it changes.                         *)
LEMMA OneTenantChanges ==
  ASSUME TenantInv, NEW t \in AllTenants, TenantTypeOK', TenantPart(t)',
         \A u \in AllTenants \ {t} :
           /\ tenants'[u] = tenants[u] /\ tenantTable'[u] = tenantTable[u]
           /\ spent'[u] = spent[u] /\ (u \in clashed' <=> u \in clashed)
           /\ (u \in unwritten' <=> u \in unwritten),
         \A s : s.tenant # t => (s \in tenantSent' <=> s \in tenantSent),
         UNCHANGED tenantLoad
  PROVE  TenantInv'
<1>1. ASSUME NEW u \in AllTenants, u # t PROVE TenantPart(u)'
  <2>1. TenantPart(u)
    BY DEF TenantInv
  <2>2. /\ tenants'[u] = tenants[u] /\ tenantTable'[u] = tenantTable[u]
        /\ spent'[u] = spent[u] /\ (u \in clashed' <=> u \in clashed)
        /\ (u \in unwritten' <=> u \in unwritten) /\ tenantLoad' = tenantLoad
        /\ \A s : s.tenant = u => (s \in tenantSent' <=> s \in tenantSent)
    BY <1>1
  <2>3. RowsInv(u)'
    BY <2>1, <2>2 DEF TenantPart, RowsInv
  <2>4. u \notin clashed' => LimitsInv(u)'
    BY <2>1, <2>2 DEF TenantPart, LimitsInv
  <2>5. spent'[u] # Uncounted => u \notin clashed' /\ CountInv(u)'
    BY <2>1, <2>2 DEF TenantPart, CountInv
  <2> QED
    BY <2>3, <2>4, <2>5 DEF TenantPart
<1> QED
  BY <1>1 DEF TenantInv

(* The table exists, or the rows are found.                                    *)
LEMMA TenantReadsKeep ==
  ASSUME TenantInv, TenantTableExists \/ TenantRows PROVE TenantInv'
<1>1. /\ IF TenantRows THEN /\ tenantLoad'.step = "apply" /\ tenantLoad'.rows = tenantTable
         ELSE tenantLoad'.step = "select" /\ tenantLoad'.rows = NoTenants
      /\ tenantLoad' \in [step: {"create", "select", "apply", "done"}, rows: TenantMap]
      /\ tenantMysql' \in BOOLEAN
      /\ UNCHANGED <<tenants, tenantTable, tenantSent, clashed, unwritten, spent>>
  <2>1. tenantTable \in TenantMap /\ tenantMysql \in BOOLEAN
    BY DEF TenantInv, TenantTypeOK
  <2>2. CASE TenantTableExists
    <3>1. ~TenantRows
      BY <2>2 DEF TenantTableExists, TenantRows
    <3> QED
      BY <2>2, <3>1, LoadAtFacts DEF TenantTableExists, historyVars
  <2>3. CASE TenantRows
    BY <2>1, <2>3 DEF TenantRows, historyVars
  <2> QED
    BY <2>2, <2>3
<1>2. TenantTypeOK'
  BY <1>1 DEF TenantInv, TenantTypeOK
<1>3. ASSUME NEW t \in AllTenants PROVE TenantPart(t)'
  <2>1. TenantPart(t)
    BY DEF TenantInv
  <2>2. RowsInv(t)'
    BY <1>1, <2>1, NoTenantFacts DEF TenantPart, RowsInv
  <2>3. t \notin clashed' => LimitsInv(t)'
    BY <1>1, <2>1, NoTenantFacts DEF TenantPart, LimitsInv
  <2>4. spent'[t] # Uncounted => t \notin clashed' /\ CountInv(t)'
    BY <1>1, <2>1 DEF TenantPart, CountInv
  <2> QED
    BY <2>2, <2>3, <2>4 DEF TenantPart
<1> QED
  BY <1>2, <1>3 DEF TenantInv

(* The count of some tenants is lost, and they clash.                          *)
LEMMA ClashFacts ==
  ASSUME NEW T \in SUBSET AllTenants, TenantTypeOK, Clash(T)
  PROVE  /\ clashed' \subseteq AllTenants /\ spent' \in [AllTenants -> Nat \cup {Uncounted}]
         /\ clashed' = clashed \cup T
         /\ \A t \in AllTenants : spent'[t] = IF t \in T THEN Uncounted ELSE spent[t]
BY DEF Clash, LoseCount, TenantTypeOK

(* The rows enter the map.                                                     *)
LEMMA ApplyRowsKeeps == ASSUME TenantInv, ApplyRows PROVE TenantInv'
<1> DEFINE map == [t \in AllTenants |->
                     IF tenantLoad.rows[t].known THEN tenantLoad.rows[t] ELSE tenants[t]]
           T == {t \in AllTenants : tenants[t].known /\ tenantLoad.rows[t].known}
<1>1. /\ tenantLoad.step = "apply" /\ tenants' = Seeded(map) /\ tenantLoad' = LoadAt("done")
      /\ Clash(T) /\ UNCHANGED <<tenantTable, tenantMysql, tenantSent, unwritten>>
  BY DEF ApplyRows
<1>2. /\ TenantTypeOK /\ tenants \in TenantMap /\ tenantLoad.rows \in TenantMap
  BY DEF TenantInv, TenantTypeOK
<1>3. map \in TenantMap
  BY <1>2 DEF TenantMap
<1>4. \A t \in AllTenants :
        map[t] = IF tenantLoad.rows[t].known THEN tenantLoad.rows[t] ELSE tenants[t]
  OBVIOUS
<1>5. /\ clashed' = clashed \cup T /\ clashed' \subseteq AllTenants
      /\ spent' \in [AllTenants -> Nat \cup {Uncounted}]
      /\ \A t \in AllTenants : spent'[t] = IF t \in T THEN Uncounted ELSE spent[t]
  BY <1>1, <1>2, ClashFacts
<1> HIDE DEF map
<1>6. /\ tenants' \in TenantMap
      /\ \A t \in AllTenants :
           /\ tenants'[t].usage = map[t].usage /\ tenants'[t].limits = map[t].limits
           /\ map[t].known => tenants'[t].known
  BY <1>1, <1>3, SeededFacts
<1>7. /\ tenantLoad'.step = "done" /\ tenantLoad'.rows = NoTenants
      /\ tenantLoad' \in [step: {"create", "select", "apply", "done"}, rows: TenantMap]
  BY <1>1, LoadAtFacts
<1>8. TenantTypeOK'
  BY <1>1, <1>2, <1>5, <1>6, <1>7 DEF TenantTypeOK
<1>9. ASSUME NEW t \in AllTenants PROVE TenantPart(t)'
  <2>1. TenantPart(t) /\ RowsInv(t)
    BY DEF TenantInv, TenantPart
  <2>2. tenantLoad.rows[t].known /\ ~tenants[t].known => map[t] = tenantTable[t]
    BY <1>1, <1>4, <2>1 DEF RowsInv
  <2>3. ~tenants[t].known /\ ~tenantLoad.rows[t].known => ~tenantTable[t].known
    BY <1>1, <2>1 DEF RowsInv
  <2>4. RowsInv(t)'
    <3>1. ~tenants'[t].known => ~map[t].known /\ ~tenants[t].known /\ tenants'[t].usage = 0
      BY <1>4, <1>6, <2>1 DEF RowsInv
    <3> QED
      BY <1>1, <1>7, <2>1, <3>1, NoTenantFacts DEF RowsInv
  <2>5. ASSUME t \notin clashed' PROVE LimitsInv(t)'
    <3>1. t \notin clashed /\ ~(tenants[t].known /\ tenantLoad.rows[t].known) /\ LimitsInv(t)
      BY <1>5, <2>1, <2>5 DEF TenantPart
    <3>2. Within(map[t])
      BY <1>4, <3>1 DEF LimitsInv
    <3>3. tenantTable[t].known /\ tenants'[t].known => tenants'[t].limits = tenantTable[t].limits
      BY <1>4, <1>6, <2>2, <2>3, <3>1 DEF LimitsInv
    <3>4. \A s \in tenantSent : s.tenant = t => tenants[t].known /\ map[t] = tenants[t]
      BY <1>4, <2>1, <3>1 DEF RowsInv
    <3>5. Within(tenants'[t])
      BY <1>6, <3>2 DEF Within
    <3> QED
      BY <1>1, <1>6, <1>7, <3>1, <3>3, <3>4, <3>5, NoTenantFacts DEF LimitsInv
  <2>6. ASSUME spent'[t] # Uncounted PROVE t \notin clashed' /\ CountInv(t)'
    <3>1. /\ t \notin T /\ spent'[t] = spent[t] /\ spent[t] # Uncounted
      BY <1>5, <2>6
    <3>2. t \notin clashed' /\ CountInv(t)
      BY <1>5, <2>1, <3>1 DEF TenantPart
    <3>3. ~tenants[t].known => tenantTable[t].usage = spent[t]
      BY <2>1, <3>2 DEF RowsInv, CountInv
    <3>4. tenants'[t].usage = spent[t]
      <4>1. CASE tenants[t].known
        BY <1>4, <1>6, <3>1, <3>2, <4>1 DEF CountInv
      <4>2. CASE ~tenants[t].known /\ tenantLoad.rows[t].known
        BY <1>6, <2>2, <3>3, <4>2
      <4>3. CASE ~tenants[t].known /\ ~tenantLoad.rows[t].known
        BY <1>4, <1>6, <2>1, <2>3, <3>3, <4>3 DEF RowsInv
      <4> QED
        BY <4>1, <4>2, <4>3
    <3> QED
      BY <1>1, <3>1, <3>2, <3>4 DEF CountInv
  <2> QED
    BY <2>4, <2>5, <2>6 DEF TenantPart
<1> QED
  BY <1>8, <1>9 DEF TenantInv

(* The map is emptied or kept, and seeded if it is empty.                      *)
LEMMA SeedingKeeps ==
  ASSUME TenantInv, NEW map \in TenantMap, tenants' = map \/ tenants' = Seeded(map),
         \/ map = NoTenants /\ tenantSent' = {} /\ unwritten' = {}
         \/ map = tenants /\ UNCHANGED <<tenantSent, unwritten>>,
         NEW T \in SUBSET AllTenants, clashed' = clashed \cup T,
         \A t \in AllTenants : tenants'[t].known /\ ~map[t].known /\ tenantTable[t].known => t \in T,
         spent' \in [AllTenants -> Nat \cup {Uncounted}],
         \A t \in AllTenants :
           spent'[t] # Uncounted =>
             /\ t \notin T /\ spent'[t] = spent[t]
             /\ tenantSent' # tenantSent \/ unwritten' # unwritten =>
                  t \notin unwritten /\ \A s \in tenantSent : s.tenant = t => s.op = "insert",
         tenantLoad' \in [step: {"create", "select", "apply", "done"}, rows: TenantMap],
         tenantLoad'.rows = NoTenants, tenantLoad'.step # "apply",
         tenantMysql' \in BOOLEAN, UNCHANGED tenantTable
  PROVE  TenantInv'
<1>1. /\ tenants' \in TenantMap
      /\ \A t \in AllTenants :
           /\ tenants'[t].usage = map[t].usage /\ tenants'[t].limits = map[t].limits
           /\ map[t].known => tenants'[t].known
  BY SeededFacts
<1>2. TenantTypeOK /\ tenantSent' \subseteq tenantSent /\ unwritten' \subseteq unwritten
  BY DEF TenantInv
<1>3. TenantTypeOK'
  BY <1>1, <1>2 DEF TenantTypeOK
<1>4. ASSUME NEW t \in AllTenants PROVE TenantPart(t)'
  <2>1. TenantPart(t) /\ RowsInv(t)
    BY DEF TenantInv, TenantPart
  <2>2. map[t] = tenants[t] \/ map[t] = NoTenantRecord
    BY NoTenantFacts
  <2>3. ~map[t].known => map[t].usage = 0 /\ t \notin unwritten' /\ \A s \in tenantSent' : s.tenant # t
    BY <2>1, NoTenantFacts DEF RowsInv
  <2>4. RowsInv(t)'
    BY <1>1, <2>1, <2>3, NoTenantFacts DEF RowsInv
  <2>5. ASSUME t \notin clashed' PROVE LimitsInv(t)'
    <3>1. t \notin clashed /\ t \notin T /\ LimitsInv(t)
      BY <2>1, <2>5 DEF TenantPart
    <3>2. Within(tenants'[t])
      BY <1>1, <2>2, <3>1, NoTenantFacts DEF Within, LimitsInv
    <3>3. tenants'[t].known /\ tenantTable[t].known => map[t].known
      BY <3>1
    <3>4. map[t].known => map[t] = tenants[t]
      BY <2>2, NoTenantFacts
    <3>5. \A s \in tenantSent' : s.tenant = t => map[t] = tenants[t]
      BY <2>3, <3>4
    <3> QED
      BY <1>1, <1>2, <3>1, <3>2, <3>3, <3>4, <3>5, NoTenantFacts DEF LimitsInv
  <2>6. ASSUME spent'[t] # Uncounted PROVE t \notin clashed' /\ CountInv(t)'
    <3>1. /\ t \notin T /\ spent'[t] = spent[t]
          /\ tenantSent' # tenantSent \/ unwritten' # unwritten =>
               t \notin unwritten /\ \A s \in tenantSent : s.tenant = t => s.op = "insert"
      BY <2>6
    <3>2. t \notin clashed' /\ CountInv(t)
      BY <2>1, <2>6, <3>1 DEF TenantPart
    <3>3. t \notin unwritten' =>
            \/ tenantTable[t].usage = spent[t]
            \/ \E s \in tenantSent' : s.tenant = t /\ s.op = "update" /\ s.record.usage = spent[t]
      <4>1. CASE tenantSent' # tenantSent \/ unwritten' # unwritten
        <5>1. t \notin unwritten /\ ~\E s \in tenantSent : s.tenant = t /\ s.op = "update"
          BY <3>1, <4>1
        <5> QED
          BY <3>2, <5>1 DEF CountInv
      <4>2. CASE tenantSent' = tenantSent /\ unwritten' = unwritten
        BY <3>2, <4>2 DEF CountInv
      <4> QED
        BY <4>1, <4>2
    <3>4. tenants'[t].known => tenants'[t].usage = spent[t]
      <4>1. CASE map[t].known
        BY <1>1, <2>2, <3>2, <4>1, NoTenantFacts DEF CountInv
      <4>2. CASE ~map[t].known /\ tenants'[t].known
        <5>1. ~tenantTable[t].known
          BY <3>1, <4>2
        <5>2. tenantTable[t].usage = 0 /\ map[t].usage = 0
          BY <2>1, <2>3, <4>2, <5>1 DEF RowsInv
        <5>3. tenantTable[t].usage = spent[t]
          BY <2>3, <3>3, <4>2
        <5> QED
          BY <1>1, <5>2, <5>3
      <4> QED
        BY <4>1, <4>2
    <3> QED
      BY <1>2, <3>1, <3>2, <3>3, <3>4 DEF CountInv
  <2> QED
    BY <2>4, <2>5, <2>6 DEF TenantPart
<1> QED
  BY <1>3, <1>4 DEF TenantInv

(* The load fails.                                                             *)
LEMMA TenantLoadFailsKeeps == ASSUME TenantInv, TenantLoadFails PROVE TenantInv'
<1>1. /\ tenants' = Seeded(tenants) /\ tenantMysql' = FALSE /\ tenantLoad' = LoadAt("done")
      /\ Clash(SeededBesideRow(tenants)) /\ UNCHANGED <<tenantTable, tenantSent, unwritten>>
  BY DEF TenantLoadFails
<1>2. TenantTypeOK /\ tenants \in TenantMap /\ SeededBesideRow(tenants) \subseteq AllTenants
  BY DEF TenantInv, TenantTypeOK, SeededBesideRow
<1>3. /\ clashed' = clashed \cup SeededBesideRow(tenants)
      /\ spent' \in [AllTenants -> Nat \cup {Uncounted}]
      /\ \A t \in AllTenants :
           spent'[t] = IF t \in SeededBesideRow(tenants) THEN Uncounted ELSE spent[t]
  BY <1>1, <1>2, ClashFacts
<1>4. \A t \in AllTenants : tenants'[t].known /\ ~tenants[t].known /\ tenantTable[t].known =>
                              t \in SeededBesideRow(tenants)
  BY <1>1 DEF SeededBesideRow
<1>5. /\ tenantLoad'.step = "done" /\ tenantLoad'.rows = NoTenants
      /\ tenantLoad' \in [step: {"create", "select", "apply", "done"}, rows: TenantMap]
  BY <1>1, LoadAtFacts
<1> HIDE DEF TenantInv
<1> QED
  BY <1>1, <1>2, <1>3, <1>4, <1>5, SeedingKeeps

(* The process ends and is started.                                            *)
LEMMA TenantRestartKeeps ==
  ASSUME TenantInv, NEW connected \in BOOLEAN, TenantRestart(connected) PROVE TenantInv'
<1> DEFINE T == IF connected THEN {} ELSE SeededBesideRow(NoTenants)
           lost == T \cup unwritten \cup {s.tenant : s \in {u \in tenantSent : u.op = "update"}}
<1>1. /\ tenants' = IF connected THEN NoTenants ELSE Seeded(NoTenants)
      /\ tenantLoad' = LoadAt(IF connected THEN "create" ELSE "done")
      /\ tenantMysql' = FALSE /\ tenantSent' = {} /\ unwritten' = {} /\ UNCHANGED tenantTable
      /\ clashed' = clashed \cup T
      /\ spent' = [t \in AllTenants |-> IF t \in lost THEN Uncounted ELSE spent[t]]
  BY DEF TenantRestart, TenantStart, LoseCount
<1>2. T \subseteq AllTenants /\ TenantTypeOK
  BY DEF TenantInv, SeededBesideRow
<1>3. /\ spent' \in [AllTenants -> Nat \cup {Uncounted}]
      /\ \A t \in AllTenants : spent'[t] = IF t \in lost THEN Uncounted ELSE spent[t]
  BY <1>1, <1>2 DEF TenantTypeOK
<1>4. \A t \in AllTenants : t \notin lost =>
        /\ t \notin T /\ t \notin unwritten
        /\ \A s \in tenantSent : s.tenant = t => s.op # "update"
  OBVIOUS
<1>5. \A s \in tenantSent : s.op # "update" => s.op = "insert"
  BY <1>2 DEF TenantTypeOK, TenantStatement
<1>6. \A t \in AllTenants :
        tenants'[t].known /\ ~NoTenants[t].known /\ tenantTable[t].known => t \in T
  BY <1>1, NoTenantFacts DEF SeededBesideRow
<1>7. /\ tenantLoad' \in [step: {"create", "select", "apply", "done"}, rows: TenantMap]
      /\ tenantLoad'.rows = NoTenants /\ tenantLoad'.step # "apply"
  BY <1>1, LoadAtFacts
<1>8. NoTenants \in TenantMap
  BY NoTenantFacts
<1>9. \A t \in AllTenants :
        spent'[t] # Uncounted =>
          /\ t \notin T /\ spent'[t] = spent[t]
          /\ tenantSent' # tenantSent \/ unwritten' # unwritten =>
               t \notin unwritten /\ \A s \in tenantSent : s.tenant = t => s.op = "insert"
  BY <1>3, <1>4, <1>5
<1>10. tenants' = NoTenants \/ tenants' = Seeded(NoTenants)
  BY <1>1
<1>11. clashed' = clashed \cup T /\ tenantMysql' \in BOOLEAN
  BY <1>1
<1>12. /\ UNCHANGED tenantTable
       /\ \/ NoTenants = NoTenants /\ tenantSent' = {} /\ unwritten' = {}
          \/ NoTenants = tenants /\ UNCHANGED <<tenantSent, unwritten>>
  BY <1>1
<1>13. spent' \in [AllTenants -> Nat \cup {Uncounted}] /\ T \in SUBSET AllTenants
  BY <1>2, <1>3
<1> HIDE DEF TenantInv, T, lost
<1> QED
  BY <1>6, <1>7, <1>8, <1>9, <1>10, <1>11, <1>12, <1>13, SeedingKeeps, Zenon

(* What is sent with a change.                                                 *)
LEMMA SendTenantFacts ==
  ASSUME TenantTypeOK, NEW op \in {"insert", "update"}, NEW t \in AllTenants,
         NEW record \in TenantRecord, tenantSent' = SendTenant(op, t, record)
  PROVE  /\ tenantSent' \subseteq TenantStatement
         /\ tenantSent' = tenantSent \cup
              (IF tenantMysql THEN {[op |-> op, tenant |-> t, record |-> record]} ELSE {})
BY DEF SendTenant, TenantTypeOK, TenantStatement

(* A tenant is registered.                                                     *)
LEMMA RegisterKeeps ==
  ASSUME TenantInv, NEW t \in AllTenants, NEW plan \in Plan, Register(t, plan) PROVE TenantInv'
<1> DEFINE record == [known |-> TRUE, plan |-> plan, limits |-> plan, usage |-> 0]
           T == {t} \cap {u \in AllTenants : tenantTable[u].known}
           new == [op |-> "insert", tenant |-> t, record |-> record]
<1>1. /\ ~tenants[t].known /\ tenants' = [tenants EXCEPT ![t] = record]
      /\ tenantSent' = SendTenant("insert", t, record) /\ Clash(T)
      /\ UNCHANGED <<tenantTable, tenantMysql, tenantLoad, unwritten>>
  BY DEF Register
<1>2. TenantTypeOK /\ TenantPart(t) /\ RowsInv(t)
  BY DEF TenantInv, TenantPart
<1>3. record \in TenantRecord /\ Within(record)
  <2>1. 0 \in Usage
    BY MaxTokensFacts, TenantBounds DEF Usage
  <2> QED
    BY <2>1, TenantAssumption DEF TenantRecord, Within
<1>4. record.known /\ record.limits = plan /\ record.usage = 0
  OBVIOUS
<1> HIDE DEF record
<1>5. /\ clashed' = clashed \cup T /\ clashed' \subseteq AllTenants
      /\ spent' \in [AllTenants -> Nat \cup {Uncounted}]
      /\ \A u \in AllTenants : spent'[u] = IF u \in T THEN Uncounted ELSE spent[u]
  BY <1>1, <1>2, ClashFacts
<1>6. /\ tenantSent' \subseteq TenantStatement
      /\ tenantSent' = tenantSent \cup (IF tenantMysql THEN {new} ELSE {})
  BY <1>1, <1>2, <1>3, SendTenantFacts
<1>7. /\ tenants' \in TenantMap /\ tenants'[t] = record
      /\ \A u \in AllTenants \ {t} : tenants'[u] = tenants[u]
  BY <1>1, <1>2, <1>3 DEF TenantTypeOK, TenantMap
<1>8. TenantTypeOK'
  BY <1>1, <1>2, <1>5, <1>6, <1>7 DEF TenantTypeOK
<1>9. \A s \in tenantSent' : s.tenant = t => s = new
  BY <1>1, <1>2, <1>6 DEF RowsInv
<1>10. new.tenant = t /\ new.op = "insert" /\ new.record = record
  OBVIOUS
<1> HIDE DEF new
<1>11. TenantPart(t)'
  <2>1. RowsInv(t)'
    BY <1>1, <1>2, <1>4, <1>7, <1>9, <1>10 DEF RowsInv
  <2>2. ASSUME t \notin clashed' PROVE LimitsInv(t)'
    <3>1. t \notin clashed /\ ~tenantTable[t].known /\ LimitsInv(t)
      BY <1>2, <1>5, <2>2 DEF TenantPart
    <3> QED
      BY <1>1, <1>3, <1>7, <1>9, <1>10, <3>1 DEF LimitsInv
  <2>3. ASSUME spent'[t] # Uncounted PROVE t \notin clashed' /\ CountInv(t)'
    <3>1. t \notin T /\ spent'[t] = spent[t] /\ ~tenantTable[t].known
      BY <1>5, <2>3
    <3>2. t \notin clashed' /\ CountInv(t)
      BY <1>2, <1>5, <2>3, <3>1 DEF TenantPart
    <3>3. spent[t] = 0 /\ tenantTable[t].usage = 0
      BY <1>1, <1>2, <3>1, <3>2 DEF RowsInv, CountInv
    <3> QED
      BY <1>1, <1>4, <1>7, <1>9, <1>10, <3>1, <3>2, <3>3 DEF CountInv
  <2> QED
    BY <2>1, <2>2, <2>3 DEF TenantPart
<1>12. \A s : s.tenant # t => (s \in tenantSent' <=> s \in tenantSent)
  BY <1>6, <1>10
<1>13. \A u \in AllTenants \ {t} : spent'[u] = spent[u] /\ (u \in clashed' <=> u \in clashed)
  BY <1>5
<1> QED
  BY <1>1, <1>7, <1>8, <1>11, <1>12, <1>13, OneTenantChanges

(* A tenant is used.                                                           *)
LEMMA TrackUsageKeeps ==
  ASSUME TenantInv, NEW t \in AllTenants, NEW tokens \in Report, TrackUsage(t, tokens)
  PROVE  TenantInv'
<1> DEFINE count == CountAfter(tenants[t].usage, tokens)
           record == [tenants[t] EXCEPT !.usage = count]
           new == [op |-> "update", tenant |-> t, record |-> record]
           after == IF spent[t] # Uncounted /\ tokens \in 0 .. MaxTokens THEN spent[t] + tokens
                    ELSE Uncounted
<1>1. /\ tenants[t].known /\ count \in Usage
      /\ Passes(tenants[t].usage, tokens, TokensPerDay[tenants[t].limits])
      /\ tenants' = [tenants EXCEPT ![t] = record]
      /\ tenantSent' = SendTenant("update", t, tenants'[t])
      /\ unwritten' = IF tenantMysql THEN unwritten ELSE unwritten \cup {t}
      /\ spent' = [spent EXCEPT ![t] = after]
      /\ UNCHANGED <<tenantTable, tenantMysql, tenantLoad, clashed>>
  BY DEF TrackUsage
<1>2. /\ TenantTypeOK /\ TenantPart(t) /\ RowsInv(t)
      /\ tenants \in TenantMap /\ tenants[t] \in TenantRecord
  BY DEF TenantInv, TenantTypeOK, TenantMap, TenantPart
<1>3. /\ record \in TenantRecord /\ record.usage = count
      /\ record.limits = tenants[t].limits /\ record.known
  BY <1>1, <1>2 DEF TenantRecord
<1>4. spent[t] # Uncounted => spent[t] \in Nat
  BY <1>2 DEF TenantTypeOK
<1>5. after \in Nat \cup {Uncounted}
  BY <1>4, MaxTokensFacts
<1>6. Within(record)
  <2>1. CASE count = Text
    BY <1>3, <2>1 DEF Within
  <2>2. CASE count # Text /\ tokens = Missing
    <3>1. count = 0 /\ TokensPerDay[tenants[t].limits] \in Nat
      BY <1>2, <2>2, TenantAssumption DEF CountAfter, TenantRecord
    <3> QED
      BY <1>3, <3>1 DEF Within
  <2>3. CASE count # Text /\ tokens # Missing
    <3>1. count = tenants[t].usage + tokens /\ tenants[t].usage # Text /\ tokens # Text
      BY <2>3 DEF CountAfter
    <3>2. count <= TokensPerDay[tenants[t].limits]
      BY <1>1, <2>3, <3>1 DEF Passes
    <3> QED
      BY <1>3, <3>2 DEF Within
  <2> QED
    BY <2>1, <2>2, <2>3
<1>7. spent[t] # Uncounted /\ tokens \in 0 .. MaxTokens /\ tenants[t].usage = spent[t] =>
        count = spent[t] + tokens
  BY <1>4, NotNumbers, MaxTokensFacts DEF CountAfter
<1>8. after # Uncounted =>
        after = spent[t] + tokens /\ spent[t] # Uncounted /\ tokens \in 0 .. MaxTokens
  OBVIOUS
<1> HIDE DEF record, count, after
<1>9. /\ tenants' \in TenantMap /\ tenants'[t] = record
      /\ \A u \in AllTenants \ {t} : tenants'[u] = tenants[u]
  BY <1>1, <1>2, <1>3 DEF TenantMap
<1>10. /\ spent' \in [AllTenants -> Nat \cup {Uncounted}] /\ spent'[t] = after
       /\ \A u \in AllTenants \ {t} : spent'[u] = spent[u]
  BY <1>1, <1>2, <1>5 DEF TenantTypeOK
<1>11. /\ tenantSent' \subseteq TenantStatement
       /\ tenantSent' = tenantSent \cup (IF tenantMysql THEN {new} ELSE {})
  BY <1>1, <1>2, <1>3, <1>9, SendTenantFacts
<1>12. unwritten' \subseteq AllTenants
  BY <1>1, <1>2 DEF TenantTypeOK
<1>13. TenantTypeOK'
  BY <1>1, <1>2, <1>9, <1>10, <1>11, <1>12 DEF TenantTypeOK
<1>14. new.tenant = t /\ new.op = "update" /\ new.record = record
  OBVIOUS
<1> HIDE DEF new
<1>15. \A s \in tenantSent' : s = new \/ s \in tenantSent
  BY <1>11
<1>16. TenantPart(t)'
  <2>1. RowsInv(t)'
    BY <1>1, <1>2, <1>3, <1>9, <1>14, <1>15 DEF RowsInv
  <2>2. ASSUME t \notin clashed' PROVE LimitsInv(t)'
    <3>1. LimitsInv(t)
      BY <1>1, <1>2, <2>2 DEF TenantPart
    <3> QED
      BY <1>1, <1>3, <1>6, <1>9, <1>14, <1>15, <3>1 DEF LimitsInv
  <2>3. ASSUME spent'[t] # Uncounted PROVE t \notin clashed' /\ CountInv(t)'
    <3>1. /\ after = spent[t] + tokens /\ spent[t] # Uncounted /\ tokens \in 0 .. MaxTokens
      BY <1>8, <1>10, <2>3
    <3>2. t \notin clashed' /\ CountInv(t)
      BY <1>1, <1>2, <3>1 DEF TenantPart
    <3>3. count = after /\ record.usage = after
      BY <1>1, <1>3, <1>7, <3>1, <3>2 DEF CountInv
    <3>4. after \in Nat /\ spent[t] \in Nat /\ spent[t] <= after
      BY <1>4, <3>1, MaxTokensFacts
    <3>5. t \notin unwritten' => new \in tenantSent'
      BY <1>1, <1>11
    <3>6. \A s \in tenantSent' :
            s.tenant = t => IF s.op = "insert" THEN s.record.usage = 0
                            ELSE s.record.usage \in Nat /\ s.record.usage <= after
      BY <1>14, <1>15, <3>2, <3>3, <3>4 DEF CountInv
    <3>7. tenantTable[t].usage \in Nat /\ tenantTable[t].usage <= after
      BY <3>2, <3>4 DEF CountInv
    <3> QED
      BY <1>1, <1>9, <1>10, <1>14, <3>2, <3>3, <3>4, <3>5, <3>6, <3>7 DEF CountInv
  <2> QED
    BY <2>1, <2>2, <2>3 DEF TenantPart
<1>17. \A s : s.tenant # t => (s \in tenantSent' <=> s \in tenantSent)
  BY <1>11, <1>14
<1> QED
  BY <1>1, <1>9, <1>10, <1>13, <1>16, <1>17, OneTenantChanges

(* A statement is executed.                                                    *)
LEMMA ExecuteTenantKeeps ==
  ASSUME TenantInv, NEW s \in tenantSent, ExecuteTenant(s) PROVE TenantInv'
<1> DEFINE t == s.tenant
           row == tenantTable[t]
           next == Written(s)
<1>1. /\ tenantSent' = tenantSent \ {s} /\ tenantTable' = [tenantTable EXCEPT ![t] = next]
      /\ unwritten' = IF Misses(s) THEN unwritten \cup {t} ELSE unwritten
      /\ UNCHANGED <<tenants, tenantMysql, tenantLoad, clashed, spent>>
  BY DEF ExecuteTenant
<1>2. /\ TenantTypeOK
      /\ t \in AllTenants /\ s.record \in TenantRecord /\ s.op \in {"insert", "update"}
      /\ tenantTable \in TenantMap /\ row \in TenantRecord
  BY DEF TenantInv, TenantTypeOK, TenantStatement, TenantMap
<1>3. TenantPart(t) /\ RowsInv(t) /\ tenants[t].known
  BY <1>2 DEF TenantInv, TenantPart, RowsInv
<1>4. /\ next \in TenantRecord
      /\ IF row.known THEN /\ next.limits = row.limits /\ next.known
                           /\ next.usage = IF s.op = "insert" THEN row.usage ELSE s.record.usage
         ELSE next = IF s.op = "insert" THEN s.record ELSE row
  <2>1. CASE s.op = "insert" /\ row.known
    <3>1. next = [row EXCEPT !.plan = s.record.plan]
      BY <2>1 DEF Written
    <3>2. s.record.plan \in Plan
      BY <1>2 DEF TenantRecord
    <3> HIDE DEF row, next
    <3> QED
      BY <1>2, <2>1, <3>1, <3>2 DEF TenantRecord
  <2>2. CASE s.op = "update" /\ row.known
    <3>1. next = [row EXCEPT !.usage = s.record.usage]
      BY <2>2 DEF Written
    <3>2. next = [known |-> row.known, plan |-> row.plan, limits |-> row.limits,
                  usage |-> s.record.usage]
      BY <1>2, <3>1 DEF TenantRecord
    <3> HIDE DEF row, next
    <3> QED
      BY <1>2, <2>2, <3>2 DEF TenantRecord
  <2>3. CASE ~row.known
    BY <1>2, <2>3 DEF Written
  <2> QED
    BY <1>2, <2>1, <2>2, <2>3
<1>5. ~Misses(s) /\ s.op = "update" =>
        row.known /\ (s.record.usage # Text => ~(s.record.usage < row.usage))
  BY DEF Misses
<1> HIDE DEF next
<1>6. /\ tenantTable' \in TenantMap /\ tenantTable'[t] = next
      /\ \A u \in AllTenants \ {t} : tenantTable'[u] = tenantTable[u]
  BY <1>1, <1>2, <1>4 DEF TenantMap
<1>7. unwritten' \subseteq AllTenants
  BY <1>1, <1>2 DEF TenantTypeOK
<1>8. TenantTypeOK'
  BY <1>1, <1>2, <1>6, <1>7 DEF TenantTypeOK
<1>9. TenantPart(t)'
  <2>1. RowsInv(t)'
    <3>1. ~next.known => next.usage = 0
      BY <1>2, <1>3, <1>4 DEF RowsInv
    <3> QED
      BY <1>1, <1>3, <1>4, <1>6, <3>1 DEF RowsInv
  <2>2. ASSUME t \notin clashed' PROVE LimitsInv(t)'
    <3>1. LimitsInv(t) /\ s.record.limits = tenants[t].limits /\ Within(s.record)
      BY <1>1, <1>3, <2>2 DEF TenantPart, LimitsInv
    <3>2. (next.known => next.limits = tenants[t].limits) /\ Within(next)
      <4>1. row.known => row.limits = tenants[t].limits
        BY <1>3, <3>1 DEF LimitsInv
      <4>2. Within(row)
        BY <3>1 DEF LimitsInv
      <4> HIDE DEF row, t
      <4> QED
        BY <1>2, <1>4, <3>1, <4>1, <4>2 DEF Within
    <3> QED
      BY <1>1, <1>6, <3>1, <3>2 DEF LimitsInv
  <2>3. ASSUME spent'[t] # Uncounted PROVE t \notin clashed' /\ CountInv(t)'
    <3>1. t \notin clashed' /\ CountInv(t)
      BY <1>1, <1>3, <2>3 DEF TenantPart
    <3>2. /\ row.usage \in Nat /\ row.usage <= spent[t] /\ spent[t] \in Nat
          /\ s.op = "insert" => s.record.usage = 0
          /\ s.op = "update" => s.record.usage \in Nat /\ s.record.usage <= spent[t]
      BY <3>1 DEF CountInv
    <3>3. ~row.known => row.usage = 0
      BY <1>3 DEF RowsInv
    <3>4. next.usage \in Nat /\ next.usage <= spent[t]
      BY <1>2, <1>4, <3>2, <3>3
    <3>5. ASSUME t \notin unwritten'
          PROVE  \/ next.usage = spent[t]
                 \/ \E r \in tenantSent' :
                      r.tenant = t /\ r.op = "update" /\ r.record.usage = spent[t]
      <4>1. t \notin unwritten /\ ~Misses(s)
        BY <1>1, <3>5
      <4>2. CASE row.usage = spent[t]
        <5>1. CASE s.op = "insert"
          BY <1>4, <3>2, <3>3, <4>2, <5>1
        <5>2. CASE s.op = "update"
          <6>1. row.known /\ ~(s.record.usage < row.usage)
            BY <1>5, <3>2, <4>1, <5>2, NotNumbers
          <6> QED
            BY <1>4, <3>2, <4>2, <5>2, <6>1
        <5> QED
          BY <1>2, <5>1, <5>2
      <4>3. CASE row.usage # spent[t]
        <5>1. PICK r \in tenantSent : r.tenant = t /\ r.op = "update" /\ r.record.usage = spent[t]
          BY <3>1, <4>1, <4>3 DEF CountInv
        <5>2. CASE r = s
          BY <1>4, <1>5, <4>1, <5>1, <5>2
        <5>3. CASE r # s
          BY <1>1, <5>1, <5>3
        <5> QED
          BY <5>2, <5>3
      <4> QED
        BY <4>2, <4>3
    <3> QED
      BY <1>1, <1>6, <3>1, <3>2, <3>4, <3>5 DEF CountInv
  <2> QED
    BY <2>1, <2>2, <2>3 DEF TenantPart
<1>10. \A r : r.tenant # t => (r \in tenantSent' <=> r \in tenantSent)
  BY <1>1
<1>11. \A u \in AllTenants \ {t} : u \in unwritten' <=> u \in unwritten
  BY <1>1
<1> HIDE DEF t
<1> QED
  BY <1>1, <1>2, <1>6, <1>8, <1>9, <1>10, <1>11, OneTenantChanges

(* A statement fails.                                                          *)
LEMMA TenantStatementFailsKeeps ==
  ASSUME TenantInv, NEW s \in tenantSent, TenantStatementFails(s) PROVE TenantInv'
<1> DEFINE t == s.tenant
<1>1. /\ tenantSent' = tenantSent \ {s} /\ unwritten' = unwritten \cup {t}
      /\ UNCHANGED <<tenants, tenantTable, tenantMysql, tenantLoad, clashed, spent>>
  BY DEF TenantStatementFails
<1>2. TenantTypeOK /\ t \in AllTenants
  BY DEF TenantInv, TenantTypeOK, TenantStatement
<1>3. TenantPart(t) /\ tenants[t].known
  BY <1>2 DEF TenantInv, TenantPart, RowsInv
<1>4. TenantTypeOK'
  BY <1>1, <1>2 DEF TenantTypeOK
<1>5. TenantPart(t)'
  <2>1. RowsInv(t)'
    BY <1>1, <1>3 DEF TenantPart, RowsInv
  <2>2. t \notin clashed' => LimitsInv(t)'
    BY <1>1, <1>3 DEF TenantPart, LimitsInv
  <2>3. spent'[t] # Uncounted => t \notin clashed' /\ CountInv(t)'
    BY <1>1, <1>3 DEF TenantPart, CountInv
  <2> QED
    BY <2>1, <2>2, <2>3 DEF TenantPart
<1>6. \A r : r.tenant # t => (r \in tenantSent' <=> r \in tenantSent)
  BY <1>1
<1>7. \A u \in AllTenants \ {t} : u \in unwritten' <=> u \in unwritten
  BY <1>1
<1> HIDE DEF t
<1> QED
  BY <1>1, <1>2, <1>4, <1>5, <1>6, <1>7, OneTenantChanges

(* No step breaks the invariant.                                               *)
LEMMA TenantInductive == TenantInv /\ [TenantNext]_tenantVars => TenantInv'
<1> SUFFICES ASSUME TenantInv, [TenantNext]_tenantVars PROVE TenantInv'
  OBVIOUS
<1>1. CASE UNCHANGED tenantVars
  <2>1. UNCHANGED <<tenants, tenantTable, tenantMysql, tenantLoad, tenantSent, clashed,
                    unwritten, spent>>
    BY <1>1 DEF tenantVars, historyVars
  <2>2. TenantTypeOK'
    BY <2>1 DEF TenantInv, TenantTypeOK
  <2>3. ASSUME NEW t \in AllTenants PROVE TenantPart(t)'
    <3>1. TenantPart(t)
      BY DEF TenantInv
    <3> QED
      BY <2>1, <3>1 DEF TenantPart, RowsInv, LimitsInv, CountInv
  <2> QED
    BY <2>2, <2>3 DEF TenantInv
<1>2. TenantId \subseteq AllTenants
  BY DEF AllTenants
<1>3. CASE TenantNext
  BY <1>2, <1>3, TenantReadsKeep, ApplyRowsKeeps, TenantLoadFailsKeeps, RegisterKeeps,
     TrackUsageKeeps, ExecuteTenantKeeps, TenantStatementFailsKeeps,
     TenantRestartKeeps DEF TenantNext
<1> QED
  BY <1>1, <1>3

(* The invariant holds whatever the plans and the tenants are.                 *)
LEMMA TenantInvariant == TenantSpec => []TenantInv
BY TenantInitially, TenantInductive, PTL DEF TenantSpec

(* The map, the table and the statements have their types.                     *)
THEOREM TenantTypes == TenantSpec => []TenantTypeOK
<1>1. TenantInv => TenantTypeOK
  BY DEF TenantInv
<1> QED
  BY <1>1, TenantInvariant, PTL

(* Counts stay within the limits on record, whatever is reported; and they are *)
(* all that was reported, also over restarts, but for the mishaps named.       *)
THEOREM TenantsWithinLimits == TenantSpec => []UsageWithinLimits
<1>1. TenantInv => UsageWithinLimits
  BY DEF TenantInv, TenantPart, LimitsInv, CountInv, Within, UsageWithinLimits
<1> QED
  BY <1>1, TenantInvariant, PTL
=============================================================================
