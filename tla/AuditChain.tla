------------------------------ MODULE AuditChain ------------------------------
(***************************************************************************)
(* The audit log .mona-dashboard/events.jsonl: an append-only file of JSON *)
(* lines whose records name the hash of the record before them.  Three     *)
(* kinds of call append to it, and nothing serialises them:                *)
(*                                                                         *)
(*   "audit"      server.js and wrapper-server.js: read the last hash of   *)
(*                the file (any read error counts as null), then append;   *)
(*   "broadcast"  src/broadcast.js (every llm-proxy event): take the hash  *)
(*                cached in the process, append, then renew the cache;     *)
(*   "library"    src/audit-log.js appendAuditEvent without previousHash:  *)
(*                as "audit", but an unreadable file is an error.          *)
(*                                                                         *)
(* A record's SHA-256 is modelled by a number that no other record has:    *)
(* the hashed event carries a random id, so two records never share one.   *)
(* Zero stands for a null previousHash.                                    *)
(*                                                                         *)
(* A definition whose comment starts with "Slip" is no part of the         *)
(* specification: it is a plausible mistake in the definition after it,    *)
(* kept to show that a property notices.                                   *)
(***************************************************************************)
EXTENDS Naturals, Sequences, FiniteSets

CONSTANTS
  Proc,        \* the Node processes that share the file
  Call,        \* slots, each running one call after another
  ProcOf,      \* the process a slot belongs to
  Kinds,       \* the kinds of call the slots make
  MaxRecords,  \* bound: hashes ever computed
  MaxTorn      \* bound: appends that fail after writing a part of the line

ASSUME ProcOfAssumption == ProcOf \in [Call -> Proc]
ASSUME KindsAssumption  == Kinds \subseteq {"audit", "broadcast", "library"}
ASSUME BoundsAssumption == MaxRecords \in Nat /\ MaxTorn \in Nat

Null == 0
Hash == 1 .. MaxRecords

VARIABLES
  file,      \* the lines of events.jsonl: the records they were written for
  broken,    \* the positions of the lines that JSON.parse rejects
  open,      \* the last line has no newline yet: an append was cut short
  lastHash,  \* broadcast.js: the cached hash, per process
  pc,        \* where each slot's call is suspended
  kind,      \* the kind of each slot's call
  rec,       \* the record each slot's call has built
  hashed,    \* number of hashes computed
  acked,     \* history: hashes whose append reported success
  torn,      \* history: number of appends cut short
  overlap    \* history: some call took its hash between another's and its append

vars ==
  <<file, broken, open, lastHash, pc, kind, rec, hashed, acked, torn, overlap>>

(* A line's record, with the slot that wrote it. *)
Line == [hash: Hash, prev: Hash \cup {Null}, by: Call]

NoRecord == [hash |-> Null, prev |-> Null]

TypeOK ==
  /\ file \in Seq(Line)
  /\ broken \subseteq 1 .. Len(file)
  /\ open \in BOOLEAN
  /\ lastHash \in [Proc -> Hash \cup {Null}]
  /\ pc \in [Call -> {"idle", "append", "resume"}]
  /\ kind \in [Call -> {"audit", "broadcast", "library"}]
  /\ rec \in [Call -> [hash: Hash \cup {Null}, prev: Hash \cup {Null}]]
  /\ hashed \in 0 .. MaxRecords
  /\ acked \subseteq Hash
  /\ torn \in 0 .. MaxTorn
  /\ overlap \in BOOLEAN

-----------------------------------------------------------------------------
(* Reading the log. *)

\* Slip: readAuditLog steps over the lines that do not parse.
Readable_Forgiving == TRUE

(* readAuditLog throws as soon as one line does not parse. *)
Readable == broken = {}

(* The hashes that a reader of the file gets: none when readAuditLog throws. *)
Recorded ==
  IF Readable THEN {file[i].hash : i \in (1 .. Len(file)) \ broken} ELSE {}

\* Slip: latestAuditHash without reverse(): the first record instead of the last.
LatestHash_First == IF file = <<>> THEN Null ELSE file[1].hash

(* The hash of the last record, or null for an empty file. *)
LatestHash == IF file = <<>> THEN Null ELSE file[Len(file)].hash

\* Slip: audit() drops the newest record before it looks for a hash.
PreviousAuditHash_OffByOne ==
  IF Readable /\ Len(file) > 1 THEN file[Len(file) - 1].hash ELSE Null

(* previousAuditHash of the servers: every read error is a null. *)
PreviousAuditHash == IF Readable THEN LatestHash ELSE Null

(* verifyAuditChain: every record names the hash of the one before it. *)
ChainVerifies ==
  \A i \in 1 .. Len(file) :
    file[i].prev = IF i = 1 THEN Null ELSE file[i - 1].hash

-----------------------------------------------------------------------------
Init ==
  /\ file = <<>>
  /\ broken = {}
  /\ open = FALSE
  /\ lastHash = [p \in Proc |-> Null]
  /\ pc = [c \in Call |-> "idle"]
  /\ kind = [c \in Call |-> "audit"]
  /\ rec = [c \in Call |-> NoRecord]
  /\ hashed = 0
  /\ acked = {}
  /\ torn = 0
  /\ overlap = FALSE

(* The common part of the three calls: build a record that names prev.  The *)
(* call is then suspended in mkdir and appendFile.                          *)
Build(c, k, prev) ==
  /\ pc[c] = "idle"
  /\ k \in Kinds
  /\ hashed < MaxRecords
  /\ hashed' = hashed + 1
  /\ rec' = [rec EXCEPT ![c] = [hash |-> hashed + 1, prev |-> prev]]
  /\ kind' = [kind EXCEPT ![c] = k]
  /\ pc' = [pc EXCEPT ![c] = "append"]
  /\ overlap' = (overlap \/ \E d \in Call : pc[d] = "append")
  /\ UNCHANGED <<file, broken, open, lastHash, acked, torn>>

\* Slip: audit() trusts the hash cached when the process started.
AuditRead_Cached(c) == Build(c, "audit", lastHash[ProcOf[c]])

(* audit() up to its append: previousAuditHash() has read the file. *)
AuditRead(c) == Build(c, "audit", PreviousAuditHash)

(* broadcast() up to its append. *)
BroadcastRead(c) == Build(c, "broadcast", lastHash[ProcOf[c]])

(* appendAuditEvent() without a previousHash: latestAuditHash() forgives a *)
(* missing file and nothing else.                                          *)
LibraryRead(c) == Readable /\ Build(c, "library", LatestHash)

Entry(c) == [hash |-> rec[c].hash, prev |-> rec[c].prev, by |-> c]

(* appendFile writes the whole line.  Behind a line that was cut short there *)
(* is no newline, so the two run together and neither parses again.          *)
PutLine(c) ==
  IF open
    THEN broken' = broken \cup {Len(file)} /\ UNCHANGED file
    ELSE file' = Append(file, Entry(c)) /\ UNCHANGED broken

AppendFile(c) ==
  /\ pc[c] = "append"
  /\ PutLine(c)
  /\ open' = FALSE
  /\ acked' = acked \cup {rec[c].hash}
  /\ pc' = [pc EXCEPT ![c] = "resume"]
  /\ UNCHANGED <<lastHash, kind, rec, hashed, torn, overlap>>

\* Slip: broadcast() swallows the rejection of appendFile and renews its cache.
AppendTorn_Swallowed(c) ==
  /\ pc[c] = "append"
  /\ torn < MaxTorn
  /\ torn' = torn + 1
  /\ IF open
       THEN PutLine(c)
       ELSE /\ file' = Append(file, Entry(c))
            /\ broken' \in {broken, broken \cup {Len(file) + 1}}
  /\ open' = TRUE
  /\ pc' = [pc EXCEPT ![c] = "resume"]
  /\ UNCHANGED <<lastHash, kind, rec, hashed, acked, overlap>>

(* appendFile fails part way (a full disk): a piece of the line stays in the *)
(* file, which parses only if nothing but the newline is missing, and the    *)
(* call rejects.                                                             *)
AppendTorn(c) ==
  /\ pc[c] = "append"
  /\ torn < MaxTorn
  /\ torn' = torn + 1
  /\ IF open
       THEN PutLine(c)
       ELSE /\ file' = Append(file, Entry(c))
            /\ broken' \in {broken, broken \cup {Len(file) + 1}}
  /\ open' = TRUE
  /\ pc' = [pc EXCEPT ![c] = "idle"]
  /\ UNCHANGED <<lastHash, kind, rec, hashed, acked, overlap>>

(* The call continues after its append: broadcast() renews the cached hash. *)
Resume(c) ==
  /\ pc[c] = "resume"
  /\ lastHash' = IF kind[c] = "broadcast"
                   THEN [lastHash EXCEPT ![ProcOf[c]] = rec[c].hash]
                   ELSE lastHash
  /\ pc' = [pc EXCEPT ![c] = "idle"]
  /\ UNCHANGED <<file, broken, open, kind, rec, hashed, acked, torn, overlap>>

(* A process dies and starts again: its calls are gone and broadcast.js loads *)
(* the last hash of the file, or null when the file cannot be read.           *)
Restart(p) ==
  /\ pc' = [c \in Call |-> IF ProcOf[c] = p THEN "idle" ELSE pc[c]]
  /\ lastHash' = [lastHash EXCEPT ![p] = PreviousAuditHash]
  /\ UNCHANGED <<file, broken, open, kind, rec, hashed, acked, torn, overlap>>

Next ==
  \/ \E c \in Call : \/ AuditRead(c)
                     \/ BroadcastRead(c)
                     \/ LibraryRead(c)
                     \/ AppendFile(c)
                     \/ AppendTorn(c)
                     \/ Resume(c)
  \/ \E p \in Proc : Restart(p)

Spec == Init /\ [][Next]_vars

-----------------------------------------------------------------------------
(* A record whose append reported success though it is on no line of its own: *)
(* it was glued to the piece that a cut append had left.                      *)
Glued(h) == h \in acked /\ \A j \in 1 .. Len(file) : file[j].hash # h

(* However calls of the three kinds interleave, appends are cut short and     *)
(* processes restart, a record names an earlier line of the file or a record  *)
(* that was reported as written and glued to a piece: never a later one, and  *)
(* never one whose own append was rejected without leaving a line.            *)
LinksPointBack ==
  \A i \in 1 .. Len(file) :
    file[i].prev # Null =>
      \/ \E j \in 1 .. (i - 1) : file[j].hash = file[i].prev
      \/ Glued(file[i].prev)

(* The calls that read the file, as long as no two of them overlap between   *)
(* the read and the append, keep the chain verifyAuditChain accepts, in every *)
(* number of processes and across restarts: a fork needs an overlap.          *)
ForkNeedsOverlap ==
  (torn = 0 /\ ~overlap /\ "broadcast" \notin Kinds) => ChainVerifies

(* Concurrent callers that read the file fork at most once each: two records *)
(* of one slot never name the same predecessor (nor null twice), so a record *)
(* has at most as many successors as there are slots.                        *)
NoForkBySelf ==
  (torn = 0 /\ "broadcast" \notin Kinds) =>
    \A i, j \in 1 .. Len(file) :
      (i # j /\ file[i].by = file[j].by) => file[i].prev # file[j].prev

(* With calls that read the file and no append cut short, the log is a log   *)
(* whose writers link to an entry no older than their own last one.          *)
Log == INSTANCE LinkedLog WITH Writer <- Call, log <- file
ImplementsLinkedLog == Log!Spec

(* What appends reported as written is never lost silently: a reader who gets  *)
(* records at all gets every one of those, and without a cut append he always  *)
(* does.  (After a cut whose piece is not a whole record he gets none at all.) *)
AllOrNothing ==
  /\ Readable => acked \subseteq Recorded
  /\ torn = 0 => Readable

(* The claim of the documentation, for every interleaving: the file always *)
(* verifies.                                                               *)
AlwaysVerifies == ChainVerifies

=============================================================================
