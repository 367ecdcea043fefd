--------------------------- MODULE AuditChainProofs ---------------------------
(***************************************************************************)
(* Proofs about AuditChain, for every set of processes and slots, every    *)
(* mixture of calls and every bound.                                       *)
(***************************************************************************)
EXTENDS AuditChain, TLAPS

USE ProcOfAssumption, KindsAssumption, BoundsAssumption

-----------------------------------------------------------------------------
(* Types. *)

\* What a call carries while it is under way, and where a cut line can be.
InFlight ==
  /\ \A c \in Call : pc[c] # "idle" => rec[c].hash \in Hash
  /\ open => file # <<>>

TInv == TypeOK /\ InFlight

LEMMA LatestHashType == TypeOK => LatestHash \in Hash \cup {Null}
<1> SUFFICES ASSUME TypeOK, file # <<>> PROVE file[Len(file)] \in Line
  BY DEF LatestHash, Line
<1> QED BY DEF TypeOK

LEMMA PreviousAuditHashType == TypeOK => PreviousAuditHash \in Hash \cup {Null}
  BY LatestHashType DEF PreviousAuditHash

(* The last step of each of the three calls that build a record. *)
LEMMA BuildTypes ==
  ASSUME TInv, NEW c \in Call, NEW k \in {"audit", "broadcast", "library"},
         NEW prev \in Hash \cup {Null}, Build(c, k, prev)
  PROVE  TInv'
<1>1. hashed + 1 \in Hash /\ hashed' \in 0 .. MaxRecords
  BY DEF TInv, TypeOK, Build, Hash
<1>2. rec' \in [Call -> [hash: Hash \cup {Null}, prev: Hash \cup {Null}]]
  BY <1>1 DEF TInv, TypeOK, Build
<1>3. \A d \in Call : pc'[d] # "idle" => rec'[d].hash \in Hash
  BY <1>1 DEF TInv, TypeOK, InFlight, Build
<1> QED BY <1>1, <1>2, <1>3 DEF TInv, TypeOK, InFlight, Build

LEMMA PutLineTypes ==
  ASSUME TInv, NEW c \in Call, pc[c] = "append"
  PROVE  /\ Append(file, Entry(c)) \in Seq(Line)
         /\ Len(Append(file, Entry(c))) = Len(file) + 1
         /\ Append(file, Entry(c)) # <<>>
         /\ open => Len(file) \in 1 .. Len(file)
  BY DEF TInv, TypeOK, InFlight, Entry, Line

LEMMA TInvInit == Init => TInv
<1> SUFFICES ASSUME Init PROVE TInv
  OBVIOUS
<1>1. file \in Seq(Line) /\ broken \subseteq 1 .. Len(file)
  BY DEF Init
<1>2. rec \in [Call -> [hash: Hash \cup {Null}, prev: Hash \cup {Null}]]
  BY DEF Init, NoRecord
<1>3. hashed \in 0 .. MaxRecords /\ torn \in 0 .. MaxTorn
  BY DEF Init
<1> QED BY <1>1, <1>2, <1>3 DEF Init, TInv, TypeOK, InFlight

LEMMA TInvNext == TInv /\ [Next]_vars => TInv'
<1> SUFFICES ASSUME TInv, [Next]_vars PROVE TInv'
  OBVIOUS
<1>1. ASSUME NEW c \in Call, AuditRead(c) PROVE TInv'
  BY <1>1, BuildTypes, PreviousAuditHashType DEF AuditRead, TInv
<1>2. ASSUME NEW c \in Call, BroadcastRead(c) PROVE TInv'
  BY <1>2, BuildTypes DEF BroadcastRead, TInv, TypeOK
<1>3. ASSUME NEW c \in Call, LibraryRead(c) PROVE TInv'
  BY <1>3, BuildTypes, LatestHashType DEF LibraryRead, TInv
<1>4. ASSUME NEW c \in Call, AppendFile(c) PROVE TInv'
  <2>1. pc[c] = "append"
    BY <1>4 DEF AppendFile
  <2>2. /\ file' \in Seq(Line)
        /\ broken' \subseteq 1 .. Len(file')
    <3>1. CASE open
      BY <1>4, <2>1, <3>1, PutLineTypes DEF AppendFile, PutLine, TInv, TypeOK
    <3>2. CASE ~open
      <4>1. file' = Append(file, Entry(c)) /\ broken' = broken
        BY <1>4, <3>2 DEF AppendFile, PutLine
      <4>2. file' \in Seq(Line) /\ Len(file') = Len(file) + 1
        BY <4>1, <2>1, PutLineTypes
      <4>3. Len(file) \in Nat /\ broken \subseteq 1 .. Len(file)
        BY DEF TInv, TypeOK
      <4> QED BY <4>1, <4>2, <4>3
    <3> QED BY <3>1, <3>2
  <2>3. acked' \subseteq Hash
    BY <1>4, <2>1 DEF AppendFile, TInv, TypeOK, InFlight
  <2> QED BY <1>4, <2>2, <2>3 DEF AppendFile, TInv, TypeOK, InFlight
<1>5. ASSUME NEW c \in Call, AppendTorn(c) PROVE TInv'
  <2>1. pc[c] = "append"
    BY <1>5 DEF AppendTorn
  <2>2. /\ file' \in Seq(Line) /\ file' # <<>>
        /\ broken' \subseteq 1 .. Len(file')
    <3>1. CASE open
      BY <1>5, <2>1, <3>1, PutLineTypes
         DEF AppendTorn, PutLine, TInv, TypeOK, InFlight
    <3>2. CASE ~open
      <4>1. /\ file' = Append(file, Entry(c))
            /\ broken' \in {broken, broken \cup {Len(file) + 1}}
        BY <1>5, <3>2 DEF AppendTorn
      <4>2. /\ file' \in Seq(Line) /\ file' # <<>>
            /\ Len(file') = Len(file) + 1
        BY <4>1, <2>1, PutLineTypes
      <4>3. Len(file) \in Nat /\ broken \subseteq 1 .. Len(file)
        BY DEF TInv, TypeOK
      <4> QED BY <4>1, <4>2, <4>3
    <3> QED BY <3>1, <3>2
  <2>3. torn' \in 0 .. MaxTorn
    BY <1>5 DEF AppendTorn, TInv, TypeOK
  <2>4. TypeOK'
    BY <1>5, <2>2, <2>3 DEF AppendTorn, TInv, TypeOK
  <2>5. InFlight'
    BY <1>5, <2>2 DEF AppendTorn, TInv, TypeOK, InFlight
  <2> QED BY <2>4, <2>5 DEF TInv
<1>6. ASSUME NEW c \in Call, Resume(c) PROVE TInv'
  BY <1>6 DEF Resume, TInv, TypeOK, InFlight
<1>7. ASSUME NEW p \in Proc, Restart(p) PROVE TInv'
  BY <1>7, PreviousAuditHashType DEF Restart, TInv, TypeOK, InFlight
<1>8. CASE UNCHANGED vars
  BY <1>8 DEF vars, TInv, TypeOK, InFlight
<1> QED BY <1>1, <1>2, <1>3, <1>4, <1>5, <1>6, <1>7, <1>8 DEF Next

(* Every variable keeps its type in every behaviour. *)
THEOREM TypeCorrect == Spec => []TypeOK
<1>1. Spec => []TInv
  BY TInvInit, TInvNext, PTL DEF Spec
<1>2. TInv => TypeOK
  BY DEF TInv
<1> QED BY <1>1, <1>2, PTL

LEMMA AlwaysTInv == Spec => []TInv
  BY TInvInit, TInvNext, PTL DEF Spec

-----------------------------------------------------------------------------
(* While no append was cut short, links lead to lines of the file. *)

OnFile(h) == \E j \in 1 .. Len(file) : file[j].hash = h

\* Every hash a process or a call may still link to is that of a line of the file.
LInv ==
  torn = 0 =>
    /\ ~open
    /\ broken = {}
    /\ \A i \in 1 .. Len(file) :
         file[i].prev # Null =>
           \E j \in 1 .. (i - 1) : file[j].hash = file[i].prev
    /\ \A p \in Proc : lastHash[p] # Null => OnFile(lastHash[p])
    /\ \A c \in Call : /\ pc[c] = "append" /\ rec[c].prev # Null
                          => OnFile(rec[c].prev)
                       /\ pc[c] = "resume" => OnFile(rec[c].hash)

LEMMA LatestOnFile == TInv => (LatestHash # Null => OnFile(LatestHash))
  BY DEF TInv, TypeOK, LatestHash, OnFile

LEMMA PreviousOnFile == TInv => (PreviousAuditHash # Null => OnFile(PreviousAuditHash))
  BY LatestOnFile DEF PreviousAuditHash

\* What one more line changes.
LEMMA Grown ==
  ASSUME TInv, NEW c \in Call, pc[c] = "append", file' = Append(file, Entry(c))
  PROVE  /\ Len(file) \in Nat
         /\ Len(file') = Len(file) + 1
         /\ \A i \in 1 .. Len(file) : file'[i] = file[i]
         /\ file'[Len(file) + 1] = Entry(c)
         /\ Entry(c).hash = rec[c].hash
         /\ Entry(c).prev = rec[c].prev
         /\ Entry(c).by = c
  BY DEF TInv, TypeOK, InFlight, Entry, Line

LEMMA BuildLInv ==
  ASSUME TInv, LInv, NEW c \in Call, NEW k, NEW prev \in Hash \cup {Null},
         prev # Null => OnFile(prev), Build(c, k, prev)
  PROVE  LInv'
  BY DEF TInv, TypeOK, LInv, Build, OnFile

LEMMA LInvNext == TInv /\ LInv /\ [Next]_vars => LInv'
<1> SUFFICES ASSUME TInv, LInv, [Next]_vars PROVE LInv'
  OBVIOUS
<1>1. ASSUME NEW c \in Call, AuditRead(c) PROVE LInv'
  BY <1>1, BuildLInv, PreviousAuditHashType, PreviousOnFile DEF AuditRead, TInv
<1>2. ASSUME NEW c \in Call, BroadcastRead(c) PROVE LInv'
  <2>1. lastHash[ProcOf[c]] \in Hash \cup {Null}
    BY DEF TInv, TypeOK
  <2>2. CASE torn = 0
    <3>1. lastHash[ProcOf[c]] # Null => OnFile(lastHash[ProcOf[c]])
      BY <2>2 DEF LInv
    <3> QED BY <1>2, <2>1, <3>1, BuildLInv DEF BroadcastRead
  <2>3. CASE torn # 0
    BY <1>2, <2>3 DEF BroadcastRead, Build, LInv
  <2> QED BY <2>2, <2>3
<1>3. ASSUME NEW c \in Call, LibraryRead(c) PROVE LInv'
  BY <1>3, BuildLInv, LatestHashType, LatestOnFile DEF LibraryRead, TInv
<1>4. ASSUME NEW c \in Call, AppendFile(c), torn = 0 PROVE LInv'
  <2>1. pc[c] = "append" /\ ~open /\ broken = {}
    BY <1>4 DEF AppendFile, LInv
  <2>2. file' = Append(file, Entry(c)) /\ broken' = {} /\ ~open'
    BY <1>4, <2>1 DEF AppendFile, PutLine
  <2>3. \A h : OnFile(h) => OnFile(h)'
    BY <2>1, <2>2, Grown DEF OnFile
  <2>4. OnFile(rec[c].hash)'
    <3>1. /\ Len(file) + 1 \in 1 .. Len(file')
          /\ file'[Len(file) + 1].hash = rec[c].hash
          /\ rec' = rec
      BY <1>4, <2>1, <2>2, Grown DEF AppendFile
    <3> QED BY <3>1 DEF OnFile
  <2>5. ASSUME NEW i \in 1 .. Len(file'), file'[i].prev # Null
        PROVE  \E j \in 1 .. (i - 1) : file'[j].hash = file'[i].prev
    <3>1. CASE i \in 1 .. Len(file)
      <4>1. PICK j \in 1 .. (i - 1) : file[j].hash = file[i].prev
        BY <1>4, <2>1, <2>2, <2>5, <3>1, Grown DEF LInv
      <4>2. j \in 1 .. Len(file)
        BY <3>1, <2>1, <2>2, Grown
      <4> QED BY <2>1, <2>2, <3>1, <4>1, <4>2, Grown
    <3>2. CASE i = Len(file) + 1
      <4>1. rec[c].prev # Null /\ file'[i].prev = rec[c].prev
        BY <2>1, <2>2, <2>5, <3>2, Grown
      <4>2. PICK j \in 1 .. Len(file) : file[j].hash = rec[c].prev
        BY <1>4, <2>1, <4>1 DEF LInv, OnFile
      <4>3. j \in 1 .. (i - 1) /\ file'[j] = file[j]
        BY <2>1, <2>2, <3>2, Grown
      <4> QED BY <4>1, <4>2, <4>3
    <3> QED BY <2>1, <2>2, <3>1, <3>2, Grown
  <2>6. \A p \in Proc : lastHash'[p] # Null => OnFile(lastHash[p])'
    BY <1>4, <2>3 DEF AppendFile, LInv
  <2>7. ASSUME NEW d \in Call
        PROVE  /\ pc'[d] = "append" /\ rec'[d].prev # Null
                    => OnFile(rec[d].prev)'
               /\ pc'[d] = "resume" => OnFile(rec[d].hash)'
    BY <1>4, <2>3, <2>4 DEF AppendFile, LInv, TInv, TypeOK
  <2> QED BY <2>2, <2>5, <2>6, <2>7 DEF LInv
<1>5. ASSUME NEW c \in Call, AppendTorn(c) PROVE LInv'
  BY <1>5 DEF AppendTorn, LInv, TInv, TypeOK
<1>6. ASSUME NEW c \in Call, Resume(c) PROVE LInv'
  BY <1>6 DEF Resume, LInv, TInv, TypeOK, OnFile
<1>7. ASSUME NEW p \in Proc, Restart(p) PROVE LInv'
  BY <1>7, PreviousOnFile DEF Restart, LInv, TInv, TypeOK, OnFile
<1>8. CASE UNCHANGED vars
  BY <1>8 DEF vars, LInv, OnFile
<1>9. ASSUME NEW c \in Call, AppendFile(c), torn # 0 PROVE LInv'
  BY <1>9 DEF AppendFile, LInv
<1> QED BY <1>1, <1>2, <1>3, <1>4, <1>5, <1>6, <1>7, <1>8, <1>9 DEF Next

LEMMA AlwaysLInv == Spec => [](TInv /\ LInv)
<1>1. Init => LInv
  BY DEF Init, LInv, OnFile
<1> QED BY <1>1, LInvNext, AlwaysTInv, PTL DEF Spec

-----------------------------------------------------------------------------
(* A fork needs an overlap. *)

\* While nothing overlapped, at most one call holds a hash, that of the last line.
SInv ==
  (torn = 0 /\ ~overlap /\ "broadcast" \notin Kinds) =>
    /\ ChainVerifies
    /\ \A c \in Call :
         pc[c] = "append" => /\ rec[c].prev = LatestHash
                            /\ \A d \in Call : pc[d] = "append" => d = c

LEMMA BuildSInv ==
  ASSUME TInv, LInv, SInv, NEW c \in Call, NEW k, Build(c, k, LatestHash)
  PROVE  SInv'
<1> SUFFICES ASSUME torn' = 0, ~overlap', "broadcast" \notin Kinds
             PROVE  SInv'
  BY DEF SInv
<1>1. torn = 0 /\ ~overlap /\ \A d \in Call : pc[d] # "append"
  BY DEF Build, TInv, TypeOK
<1>2. ChainVerifies' /\ LatestHash' = LatestHash
  BY <1>1 DEF SInv, Build, ChainVerifies, LatestHash
<1>3. \A d \in Call : pc'[d] = "append" => d = c /\ rec'[d].prev = LatestHash
  BY <1>1 DEF Build, TInv, TypeOK
<1> QED BY <1>2, <1>3 DEF SInv

LEMMA SInvNext == TInv /\ LInv /\ SInv /\ [Next]_vars => SInv'
<1> SUFFICES ASSUME TInv, LInv, SInv, [Next]_vars,
                    torn' = 0, ~overlap', "broadcast" \notin Kinds
             PROVE  SInv'
  BY DEF SInv
<1>1. ASSUME NEW c \in Call, AuditRead(c) PROVE SInv'
  <2>1. PreviousAuditHash = LatestHash
    BY <1>1 DEF AuditRead, Build, LInv, PreviousAuditHash, Readable
  <2> QED BY <1>1, <2>1, BuildSInv DEF AuditRead
<1>2. ASSUME NEW c \in Call, BroadcastRead(c) PROVE SInv'
  BY <1>2 DEF BroadcastRead, Build
<1>3. ASSUME NEW c \in Call, LibraryRead(c) PROVE SInv'
  BY <1>3, BuildSInv DEF LibraryRead
<1>4. ASSUME NEW c \in Call, AppendFile(c) PROVE SInv'
  <2>1. /\ pc[c] = "append" /\ ~open
        /\ torn = 0 /\ ~overlap /\ file' = Append(file, Entry(c))
    BY <1>4 DEF AppendFile, PutLine, LInv
  <2>2. rec[c].prev = LatestHash
    BY <2>1 DEF SInv
  <2>3. ChainVerifies'
    <3> SUFFICES ASSUME NEW i \in 1 .. Len(file')
                 PROVE  file'[i].prev = IF i = 1 THEN Null ELSE file'[i - 1].hash
      BY DEF ChainVerifies
    <3>1. CASE i \in 1 .. Len(file)
      BY <2>1, <3>1, Grown DEF SInv, ChainVerifies
    <3>2. CASE i = Len(file) + 1
      <4>1. file = <<>> <=> Len(file) = 0
        BY DEF TInv, TypeOK
      <4> QED BY <2>1, <2>2, <3>2, <4>1, Grown DEF LatestHash
    <3> QED BY <2>1, <3>1, <3>2, Grown
  <2>4. \A d \in Call : pc'[d] # "append"
    BY <1>4, <2>1 DEF AppendFile, SInv, TInv, TypeOK
  <2> QED BY <2>3, <2>4 DEF SInv
<1>5. ASSUME NEW c \in Call, AppendTorn(c) PROVE SInv'
  BY <1>5 DEF AppendTorn, TInv, TypeOK
<1>6. ASSUME NEW c \in Call, Resume(c) PROVE SInv'
  BY <1>6 DEF Resume, SInv, TInv, TypeOK, ChainVerifies, LatestHash
<1>7. ASSUME NEW p \in Proc, Restart(p) PROVE SInv'
  BY <1>7 DEF Restart, SInv, TInv, TypeOK, ChainVerifies, LatestHash
<1>8. CASE UNCHANGED vars
  BY <1>8 DEF vars, SInv, ChainVerifies, LatestHash
<1> QED BY <1>1, <1>2, <1>3, <1>4, <1>5, <1>6, <1>7, <1>8 DEF Next

(* Calls that read the file keep a chain that verifies, as long as no two of *)
(* them are between their read and their append at the same time: whatever   *)
(* the number of processes, and across restarts.                             *)
THEOREM ForksNeedOverlap == Spec => []ForkNeedsOverlap
<1>1. Init => SInv
  BY DEF Init, SInv, ChainVerifies
<1>2. SInv => ForkNeedsOverlap
  BY DEF SInv, ForkNeedsOverlap
<1>3. Spec => []SInv
  BY <1>1, SInvNext, AlwaysLInv, PTL DEF Spec
<1> QED BY <1>2, <1>3, PTL

-----------------------------------------------------------------------------
(* The calls that read the file implement LinkedLog. *)

\* Hashes are unique, and a call's link is one that LinkedLog lets its slot add.
RInv ==
  (torn = 0 /\ "broadcast" \notin Kinds) =>
    /\ \A i \in 1 .. Len(file) : file[i].hash <= hashed
    /\ \A i, j \in 1 .. Len(file) : file[i].hash = file[j].hash => i = j
    /\ \A c \in Call :
         pc[c] = "append" =>
           /\ rec[c].hash <= hashed
           /\ \A i \in 1 .. Len(file) : file[i].hash # rec[c].hash
           /\ \A d \in Call :
                pc[d] = "append" /\ rec[d].hash = rec[c].hash => d = c
           /\ Log!Links(Entry(c))

\* The hash of the last line may be linked to by everyone.
LEMMA LatestLinks ==
  ASSUME TInv, NEW c \in Call, NEW e, e.by = c, e.prev = LatestHash
  PROVE  Log!Links(e)
<1>1. CASE file = <<>>
  BY <1>1 DEF LatestHash, Log!Links
<1>2. CASE file # <<>>
  <2>1. Len(file) \in 1 .. Len(file) /\ file[Len(file)].hash = e.prev
    BY <1>2 DEF TInv, TypeOK, LatestHash
  <2>2. Log!SeesOwn(e.by, Len(file))
    BY <2>1 DEF Log!SeesOwn
  <2> QED BY <2>1, <2>2 DEF Log!Links
<1> QED BY <1>1, <1>2

LEMMA BuildRInv ==
  ASSUME TInv, RInv, NEW c \in Call, NEW k, Build(c, k, LatestHash)
  PROVE  RInv'
<1> SUFFICES ASSUME torn' = 0, "broadcast" \notin Kinds PROVE RInv'
  BY DEF RInv
<1>1. /\ torn = 0 /\ file' = file /\ hashed' = hashed + 1
      /\ rec'[c] = [hash |-> hashed + 1, prev |-> LatestHash]
      /\ \A d \in Call : d # c => rec'[d] = rec[d] /\ pc'[d] = pc[d]
  BY DEF Build, TInv, TypeOK
<1>2. hashed \in Nat /\ \A i \in 1 .. Len(file) : file[i].hash \in Nat
  <2>1. \A i \in 1 .. Len(file) : file[i] \in Line
    BY DEF TInv, TypeOK
  <2> QED BY <2>1 DEF TInv, TypeOK, Line, Hash
<1>3. /\ \A i \in 1 .. Len(file) : file[i].hash <= hashed
      /\ \A d \in Call : pc[d] = "append" => rec[d].hash <= hashed
  BY <1>1 DEF RInv
<1>4. \A d \in Call : pc[d] = "append" => rec[d].hash \in Nat
  BY DEF TInv, InFlight, Hash
<1>5. \A i \in 1 .. Len(file') : file'[i].hash <= hashed'
  BY <1>1, <1>2, <1>3
<1>6. ASSUME NEW d \in Call, pc'[d] = "append"
      PROVE  /\ rec'[d].hash <= hashed'
             /\ \A i \in 1 .. Len(file') : file'[i].hash # rec'[d].hash
             /\ \A x \in Call :
                  pc'[x] = "append" /\ rec'[x].hash = rec'[d].hash => x = d
             /\ Log!Links(Entry(d))'
  <2>1. CASE d = c
    <3>1. Log!Links(Entry(c))'
      <4>1. Log!Links([hash |-> hashed + 1, prev |-> LatestHash, by |-> c])
        BY LatestLinks
      <4>2. Entry(c)' = [hash |-> hashed + 1, prev |-> LatestHash, by |-> c]
        BY <1>1 DEF Entry
      <4> QED BY <1>1, <4>1, <4>2 DEF Log!Links, Log!SeesOwn
    <3> QED BY <1>1, <1>2, <1>3, <1>4, <2>1, <3>1
  <2>2. CASE d # c
    <3>1. pc[d] = "append" /\ rec'[d] = rec[d]
      BY <1>1, <1>6, <2>2
    <3>2. Log!Links(Entry(d))'
      BY <1>1, <3>1 DEF RInv, Entry, Log!Links, Log!SeesOwn
    <3>3. /\ rec'[d].hash <= hashed'
          /\ \A i \in 1 .. Len(file') : file'[i].hash # rec'[d].hash
      BY <1>1, <1>2, <1>3, <1>4, <3>1 DEF RInv
    <3>4. \A x \in Call :
            pc'[x] = "append" /\ rec'[x].hash = rec'[d].hash => x = d
      BY <1>1, <1>2, <1>3, <1>4, <3>1 DEF RInv
    <3> QED BY <3>2, <3>3, <3>4
  <2> QED BY <2>1, <2>2
<1>7. \A i, j \in 1 .. Len(file') : file'[i].hash = file'[j].hash => i = j
  BY <1>1 DEF RInv
<1> QED BY <1>5, <1>6, <1>7 DEF RInv

LEMMA AppendRInv ==
  ASSUME TInv, LInv, RInv, NEW c \in Call, AppendFile(c),
         torn = 0, "broadcast" \notin Kinds
  PROVE  RInv' /\ Log!Add(Entry(c)) /\ Entry(c) \in Log!Entry
<1>1. /\ pc[c] = "append" /\ ~open /\ file' = Append(file, Entry(c))
      /\ rec' = rec /\ hashed' = hashed
  BY DEF AppendFile, PutLine, LInv
<1>2. \A d \in Call : pc'[d] = "append" => d # c /\ pc[d] = "append"
  BY DEF AppendFile, TInv, TypeOK
<1>3. Log!Add(Entry(c))
  BY <1>1, Grown DEF RInv, Log!Add
<1>4. Entry(c) \in Log!Entry
  BY <1>1 DEF TInv, TypeOK, InFlight, Entry, Log!Entry
<1>5. \A i \in 1 .. Len(file') : file'[i].hash <= hashed'
  BY <1>1, Grown DEF RInv
<1>6. \A i, j \in 1 .. Len(file') : file'[i].hash = file'[j].hash => i = j
  BY <1>1, Grown DEF RInv
<1>7. ASSUME NEW d \in Call, pc'[d] = "append"
      PROVE  /\ rec'[d].hash <= hashed'
             /\ \A i \in 1 .. Len(file') : file'[i].hash # rec'[d].hash
             /\ \A x \in Call :
                  pc'[x] = "append" /\ rec'[x].hash = rec'[d].hash => x = d
             /\ Log!Links(Entry(d))'
  <2>1. d # c /\ pc[d] = "append"
    BY <1>2, <1>7
  <2>2. \A i \in 1 .. Len(file') : file'[i].hash # rec'[d].hash
    BY <1>1, <2>1, Grown DEF RInv
  <2>3. Log!Links(Entry(d))'
    <3>1. Log!Links(Entry(d)) /\ Entry(d)' = Entry(d) /\ Entry(d).by = d
      BY <1>1, <2>1 DEF RInv, Entry
    <3>2. CASE /\ Entry(d).prev = Null
               /\ \A j \in 1 .. Len(file) : file[j].by # Entry(d).by
      <4>1. \A j \in 1 .. Len(file') : file'[j].by # d
        BY <1>1, <2>1, <3>1, <3>2, Grown
      <4> QED BY <3>1, <3>2, <4>1 DEF Log!Links
    <3>3. ASSUME NEW i \in 1 .. Len(file), file[i].hash = Entry(d).prev,
                 Log!SeesOwn(Entry(d).by, i)
          PROVE  Log!Links(Entry(d))'
      <4>1. i \in 1 .. Len(file') /\ file'[i].hash = Entry(d).prev
        BY <1>1, <3>3, Grown
      <4>2. \A j \in 1 .. Len(file') : file'[j].by = d => j <= i
        BY <1>1, <2>1, <3>1, <3>3, Grown DEF Log!SeesOwn
      <4> QED BY <3>1, <4>1, <4>2 DEF Log!Links, Log!SeesOwn
    <3> QED BY <3>1, <3>2, <3>3 DEF Log!Links
  <2> QED BY <1>1, <1>2, <2>1, <2>2, <2>3 DEF RInv
<1>8. RInv'
  BY <1>5, <1>6, <1>7 DEF RInv
<1> QED BY <1>3, <1>4, <1>8

LEMMA RInvNext == TInv /\ LInv /\ RInv /\ [Next]_vars => RInv'
<1> SUFFICES ASSUME TInv, LInv, RInv, [Next]_vars,
                    torn' = 0, "broadcast" \notin Kinds
             PROVE  RInv'
  BY DEF RInv
<1>1. ASSUME NEW c \in Call, AuditRead(c) PROVE RInv'
  <2>1. PreviousAuditHash = LatestHash
    BY <1>1 DEF AuditRead, Build, LInv, PreviousAuditHash, Readable
  <2> QED BY <1>1, <2>1, BuildRInv DEF AuditRead
<1>2. ASSUME NEW c \in Call, BroadcastRead(c) PROVE RInv'
  BY <1>2 DEF BroadcastRead, Build
<1>3. ASSUME NEW c \in Call, LibraryRead(c) PROVE RInv'
  BY <1>3, BuildRInv DEF LibraryRead
<1>4. ASSUME NEW c \in Call, AppendFile(c) PROVE RInv'
  BY <1>4, AppendRInv DEF AppendFile
<1>5. ASSUME NEW c \in Call, AppendTorn(c) PROVE RInv'
  BY <1>5 DEF AppendTorn, TInv, TypeOK
<1>6. ASSUME NEW c \in Call, Resume(c) PROVE RInv'
  BY <1>6 DEF Resume, RInv, TInv, TypeOK, Entry, Log!Links, Log!SeesOwn
<1>7. ASSUME NEW p \in Proc, Restart(p) PROVE RInv'
  BY <1>7 DEF Restart, RInv, TInv, TypeOK, Entry, Log!Links, Log!SeesOwn
<1>8. CASE UNCHANGED vars
  BY <1>8 DEF vars, RInv, Entry, Log!Links, Log!SeesOwn
<1> QED BY <1>1, <1>2, <1>3, <1>4, <1>5, <1>6, <1>7, <1>8 DEF Next

LEMMA AlwaysRInv == Spec => [](TInv /\ LInv /\ RInv)
<1>1. Init => RInv
  BY DEF Init, RInv
<1> QED BY <1>1, RInvNext, AlwaysLInv, PTL DEF Spec

(* Without broadcasts, and as long as no append is cut short, the system      *)
(* implements LinkedLog: every entry links to one no older than its writer's *)
(* last, so a writer never builds beside its own records.                    *)
THEOREM Refinement ==
  ASSUME MaxTorn = 0, "broadcast" \notin Kinds
  PROVE  Spec => ImplementsLinkedLog
<1>1. Init => Log!Init
  BY DEF Init, Log!Init
<1>2. TInv /\ LInv /\ RInv /\ [Next]_vars => [Log!Next]_file
  <2> SUFFICES ASSUME TInv, LInv, RInv, [Next]_vars PROVE [Log!Next]_file
    OBVIOUS
  <2>1. torn = 0
    BY DEF TInv, TypeOK
  <2>2. ASSUME NEW c \in Call, AppendFile(c) PROVE Log!Next
    BY <2>1, <2>2, AppendRInv DEF Log!Next
  <2>3. ASSUME NEW c \in Call, AuditRead(c) \/ BroadcastRead(c) \/ LibraryRead(c)
        PROVE  UNCHANGED file
    BY <2>3 DEF AuditRead, BroadcastRead, LibraryRead, Build
  <2>4. ASSUME NEW c \in Call PROVE ~AppendTorn(c)
    BY <2>1 DEF AppendTorn
  <2>5. ASSUME NEW c \in Call, Resume(c) PROVE UNCHANGED file
    BY <2>5 DEF Resume
  <2>6. ASSUME NEW p \in Proc, Restart(p) PROVE UNCHANGED file
    BY <2>6 DEF Restart
  <2> QED BY <2>2, <2>3, <2>4, <2>5, <2>6 DEF Next, vars
<1> QED BY <1>1, <1>2, AlwaysRInv, PTL DEF Spec, ImplementsLinkedLog, Log!Spec

-----------------------------------------------------------------------------
(* A slot never forks the log against itself. *)

\* A line links to one that is no older than any earlier line of its slot.
FInv ==
  (torn = 0 /\ "broadcast" \notin Kinds) =>
    \A j \in 1 .. Len(file) : \A i \in 1 .. (j - 1) :
      file[i].by = file[j].by =>
        \E k \in i .. (j - 1) : file[k].hash = file[j].prev

LEMMA FInvNext == TInv /\ LInv /\ RInv /\ FInv /\ [Next]_vars => FInv'
<1> SUFFICES ASSUME TInv, LInv, RInv, FInv, [Next]_vars,
                    torn' = 0, "broadcast" \notin Kinds
             PROVE  FInv'
  BY DEF FInv
<1>1. ASSUME NEW c \in Call, AppendFile(c) PROVE FInv'
  <2>1. /\ pc[c] = "append" /\ torn = 0 /\ ~open
        /\ file' = Append(file, Entry(c)) /\ Log!Links(Entry(c))
    BY <1>1 DEF AppendFile, PutLine, LInv, RInv
  <2> SUFFICES ASSUME NEW j \in 1 .. Len(file'), NEW i \in 1 .. (j - 1),
                      file'[i].by = file'[j].by
               PROVE  \E k \in i .. (j - 1) : file'[k].hash = file'[j].prev
    BY DEF FInv
  <2>2. CASE j \in 1 .. Len(file)
    <3>1. i \in 1 .. Len(file)
      BY <2>1, <2>2, Grown
    <3>2. PICK k \in i .. (j - 1) : file[k].hash = file[j].prev
      BY <2>1, <2>2, <3>1, Grown DEF FInv
    <3>3. k \in 1 .. Len(file)
      BY <2>1, <2>2, <3>1, Grown
    <3> QED BY <2>1, <2>2, <3>2, <3>3, Grown
  <2>3. CASE j = Len(file) + 1
    <3>1. i \in 1 .. Len(file) /\ file[i].by = c
      BY <2>1, <2>3, Grown
    <3>2. PICK k \in 1 .. Len(file) :
            file[k].hash = rec[c].prev /\ Log!SeesOwn(c, k)
      BY <2>1, <3>1, Grown DEF Log!Links
    <3>3. i <= k
      BY <3>1, <3>2 DEF Log!SeesOwn
    <3> QED BY <2>1, <2>3, <3>1, <3>2, <3>3, Grown
  <2> QED BY <2>1, <2>2, <2>3, Grown
<1>2. ASSUME UNCHANGED <<file, torn>> PROVE FInv'
  BY <1>2 DEF FInv
<1>3. ASSUME NEW c \in Call, AppendTorn(c) PROVE FALSE
  BY <1>3 DEF AppendTorn, TInv, TypeOK
<1> QED BY <1>1, <1>2, <1>3
        DEF Next, vars, AuditRead, BroadcastRead, LibraryRead, Build, Resume, Restart

(* Two records of one slot never name the same predecessor. *)
THEOREM SlotsNeverFork == Spec => []NoForkBySelf
<1>1. Init => FInv
  BY DEF Init, FInv
<1>2. TInv /\ LInv /\ RInv /\ FInv => NoForkBySelf
  <2> SUFFICES ASSUME TInv, LInv, RInv, FInv, torn = 0, "broadcast" \notin Kinds,
                      NEW i \in 1 .. Len(file), NEW j \in 1 .. Len(file),
                      i < j, file[i].by = file[j].by, file[i].prev = file[j].prev
               PROVE  FALSE
    <3>1. Len(file) \in Nat
      BY DEF TInv, TypeOK
    <3> QED BY <3>1 DEF NoForkBySelf
  <2>1. PICK k \in i .. (j - 1) : file[k].hash = file[j].prev
    <3>1. i \in 1 .. (j - 1)
      OBVIOUS
    <3> QED BY <3>1 DEF FInv
  <2>2. k \in 1 .. Len(file) /\ file[k].hash # Null
    <3>1. Len(file) \in Nat /\ k \in 1 .. Len(file)
      BY DEF TInv, TypeOK
    <3>2. file[k] \in Line
      BY <3>1 DEF TInv, TypeOK
    <3> QED BY <3>1, <3>2 DEF Line, Hash, Null
  <2>3. PICK m \in 1 .. (i - 1) : file[m].hash = file[i].prev
    BY <2>1, <2>2 DEF LInv
  <2>4. m \in 1 .. Len(file) /\ m # k
    BY <2>3, <2>1
  <2> QED BY <2>1, <2>2, <2>3, <2>4 DEF RInv
<1>3. Spec => []FInv
  BY <1>1, FInvNext, AlwaysRInv, PTL DEF Spec
<1> QED BY <1>2, <1>3, AlwaysRInv, PTL

-----------------------------------------------------------------------------
(* Appends that are cut short. *)

\* A hash about to be appended is new: no other call carries it, it is not on
\* file, and nobody was told that it is.
NewHashes ==
  /\ \A c \in Call : pc[c] = "append" =>
       rec[c].hash <= hashed /\ rec[c].hash \notin acked /\ ~OnFile(rec[c].hash)
  /\ \A c, d \in Call :
       pc[c] = "append" /\ pc[d] = "append" /\ rec[c].hash = rec[d].hash => c = d
  /\ \A h \in acked : h <= hashed
  /\ \A j \in 1 .. Len(file) : file[j].hash <= hashed

\* A record that a call may link to is on a line or was reported as written.
Known(h) == OnFile(h) \/ h \in acked

KnownLinks ==
  /\ \A p \in Proc : lastHash[p] # Null => Known(lastHash[p])
  /\ \A c \in Call : /\ pc[c] = "append" /\ rec[c].prev # Null => Known(rec[c].prev)
                     /\ pc[c] = "resume" => Known(rec[c].hash)

\* While every line parses, every record reported as written is on a line.
WrittenInv == broken = {} => \A h \in acked : OnFile(h)

CutInv == TInv /\ NewHashes /\ KnownLinks /\ LinksPointBack /\ WrittenInv

(* A call that builds a record draws a new hash and links to a known one.      *)
LEMMA BuildCut ==
  ASSUME CutInv, NEW c \in Call, NEW k \in {"audit", "broadcast", "library"},
         NEW prev \in Hash \cup {Null}, prev # Null => Known(prev), Build(c, k, prev)
  PROVE  NewHashes' /\ KnownLinks' /\ LinksPointBack' /\ WrittenInv'
<1>1. /\ hashed' = hashed + 1 /\ hashed \in Nat
      /\ \A d \in Call : pc'[d] = IF d = c THEN "append" ELSE pc[d]
      /\ \A d \in Call : rec'[d] = IF d = c THEN [hash |-> hashed + 1, prev |-> prev] ELSE rec[d]
      /\ UNCHANGED <<file, broken, open, lastHash, acked, torn>>
  BY DEF CutInv, TInv, TypeOK, Build
<1>2. LinksPointBack' /\ WrittenInv'
  BY <1>1 DEF CutInv, LinksPointBack, Glued, WrittenInv, OnFile
<1>3. /\ acked \subseteq Nat
      /\ \A j \in 1 .. Len(file) : file[j].hash \in Nat
      /\ \A d \in Call : rec[d].hash \in Nat
  <2>1. Hash \subseteq Nat /\ Null \in Nat
    BY DEF Hash, Null
  <2>2. acked \subseteq Hash /\ \A d \in Call : rec[d].hash \in Hash \cup {Null}
    BY DEF CutInv, TInv, TypeOK
  <2>3. \A j \in 1 .. Len(file) : file[j].hash \in Hash
    <3>1. file \in Seq(Line) /\ \A l \in Line : l.hash \in Hash
      BY DEF CutInv, TInv, TypeOK, Line
    <3> QED BY <3>1
  <2> QED BY <2>1, <2>2, <2>3
<1>4. \A d \in Call : pc[d] = "append" => rec[d].hash <= hashed /\ rec[d].hash # hashed + 1
  BY <1>1, <1>3 DEF CutInv, NewHashes
<1>5. hashed + 1 \notin acked /\ \A j \in 1 .. Len(file) : file[j].hash # hashed + 1
  BY <1>1, <1>3 DEF CutInv, NewHashes
<1>6. /\ \A d \in Call : pc'[d] = "append" => rec'[d].hash <= hashed'
      /\ \A h \in acked' : h <= hashed'
      /\ \A j \in 1 .. Len(file') : file'[j].hash <= hashed'
  BY <1>1, <1>3, <1>4 DEF CutInv, NewHashes
<1>7. \A d \in Call : pc'[d] = "append" => (rec[d].hash \notin acked /\ ~OnFile(rec[d].hash))'
  BY <1>1, <1>5 DEF CutInv, NewHashes, OnFile
<1>8. \A d, e \in Call :
        pc'[d] = "append" /\ pc'[e] = "append" /\ rec'[d].hash = rec'[e].hash => d = e
  BY <1>1, <1>4 DEF CutInv, NewHashes
<1>9. KnownLinks'
  <2>1. \A h : Known(h)' <=> Known(h)
    BY <1>1 DEF Known, OnFile
  <2> QED BY <1>1, <2>1 DEF CutInv, KnownLinks, Known, OnFile
<1> QED BY <1>2, <1>6, <1>7, <1>8, <1>9 DEF NewHashes

\* What a whole or a cut line leaves of the invariant: the file is the old one or
\* has the record of c as its last line.
LEMMA LineCut ==
  ASSUME CutInv, NEW c \in Call, pc[c] = "append",
         pc' \in [Call -> {"idle", "append", "resume"}], pc'[c] # "append",
         \A d \in Call : d # c => pc'[d] = pc[d],
         \/ file' = file
         \/ file' = Append(file, Entry(c)),
         acked' \in {acked, acked \cup {rec[c].hash}},
         UNCHANGED <<rec, hashed, lastHash>>,
         pc'[c] = "resume" => Known(rec[c].hash)'
  PROVE  NewHashes' /\ KnownLinks' /\ LinksPointBack'
<1> DEFINE h == rec[c].hash
<1>1. h \in Hash /\ h \notin acked /\ ~OnFile(h) /\ h <= hashed
  BY DEF CutInv, TInv, InFlight, NewHashes
<1>2. /\ Append(file, Entry(c)) \in Seq(Line)
      /\ Len(Append(file, Entry(c))) = Len(file) + 1 /\ Len(file) \in Nat
      /\ \A j \in 1 .. Len(file) : Append(file, Entry(c))[j] = file[j]
      /\ Append(file, Entry(c))[Len(file) + 1].hash = h
      /\ Append(file, Entry(c))[Len(file) + 1].prev = rec[c].prev
  BY PutLineTypes DEF CutInv, TInv, TypeOK, Entry
<1>3. \A g : /\ OnFile(g)' => OnFile(g) \/ g = h
             /\ OnFile(g) => OnFile(g)'
             /\ Known(g) => Known(g)'
  BY <1>2 DEF OnFile, Known
<1>4. NewHashes'
  <2>1. \A j \in 1 .. Len(file') : file'[j].hash <= hashed
    BY <1>1, <1>2 DEF CutInv, NewHashes
  <2>2. \A d \in Call : pc'[d] = "append" =>
          rec[d].hash \notin acked' /\ ~OnFile(rec[d].hash)'
    BY <1>1, <1>3 DEF CutInv, NewHashes
  <2>3. \A g \in acked' : g <= hashed
    BY <1>1 DEF CutInv, NewHashes
  <2> QED BY <2>1, <2>2, <2>3 DEF CutInv, NewHashes
<1>5. KnownLinks'
  BY <1>3 DEF CutInv, KnownLinks
<1>6. LinksPointBack'
  <2> SUFFICES ASSUME NEW i \in 1 .. Len(file'), file'[i].prev # Null
               PROVE  \/ \E j \in 1 .. (i - 1) : file'[j].hash = file'[i].prev
                      \/ /\ file'[i].prev \in acked'
                         /\ \A j \in 1 .. Len(file') : file'[j].hash # file'[i].prev
    BY DEF LinksPointBack, Glued
  <2>1. \A g : Glued(g) => g \in acked' /\ \A j \in 1 .. Len(file') : file'[j].hash # g
    <3> SUFFICES ASSUME NEW g, Glued(g)
                 PROVE  g \in acked' /\ ~OnFile(g)'
      BY DEF OnFile
    <3>1. g \in acked' /\ g # h /\ ~OnFile(g)
      BY <1>1 DEF Glued, OnFile
    <3> QED BY <1>3, <3>1
  <2>2. CASE i \in 1 .. Len(file)
    <3>1. file'[i] = file[i]
      BY <1>2, <2>2
    <3>2. \/ \E j \in 1 .. (i - 1) : file[j].hash = file[i].prev
          \/ Glued(file[i].prev)
      BY <2>2, <3>1 DEF CutInv, LinksPointBack
    <3>3. \A j \in 1 .. (i - 1) : file'[j] = file[j]
      <4>1. \A j \in 1 .. (i - 1) : j \in 1 .. Len(file)
        BY <1>2, <2>2
      <4>2. \A j \in 1 .. Len(file) : file'[j] = file[j]
        BY <1>2
      <4> QED BY <4>1, <4>2
    <3> QED BY <2>1, <3>1, <3>2, <3>3
  <2>3. CASE i \notin 1 .. Len(file)
    <3>1. i = Len(file) + 1 /\ file' = Append(file, Entry(c)) /\ file'[i].prev = rec[c].prev
      BY <1>2, <2>3
    <3>2. Known(rec[c].prev)
      BY <3>1 DEF CutInv, KnownLinks
    <3>3. CASE OnFile(rec[c].prev)
      <4>1. PICK j \in 1 .. Len(file) : file[j].hash = rec[c].prev
        BY <3>3 DEF OnFile
      <4>2. j \in 1 .. (i - 1) /\ file'[j] = file[j]
        BY <1>2, <3>1
      <4> QED BY <3>1, <4>1, <4>2
    <3>4. CASE ~OnFile(rec[c].prev)
      <4>1. Glued(rec[c].prev)
        BY <3>2, <3>4 DEF Known, Glued, OnFile
      <4> QED BY <2>1, <3>1, <4>1
    <3> QED BY <3>3, <3>4
  <2> QED BY <2>2, <2>3
<1> QED BY <1>4, <1>5, <1>6

LEMMA AppendCut ==
  ASSUME CutInv, NEW c \in Call, AppendFile(c)
  PROVE  NewHashes' /\ KnownLinks' /\ LinksPointBack' /\ WrittenInv'
<1> DEFINE h == rec[c].hash
<1>1. /\ pc[c] = "append" /\ pc' = [pc EXCEPT ![c] = "resume"]
      /\ acked' = acked \cup {h} /\ UNCHANGED <<rec, hashed, lastHash>>
  BY DEF AppendFile
<1>2. /\ Append(file, Entry(c)) \in Seq(Line)
      /\ Len(Append(file, Entry(c))) = Len(file) + 1 /\ Len(file) \in Nat
      /\ \A j \in 1 .. Len(file) : Append(file, Entry(c))[j] = file[j]
      /\ Append(file, Entry(c))[Len(file) + 1].hash = h
  BY <1>1, PutLineTypes DEF CutInv, TInv, TypeOK, Entry
<1>3. file' \in {file, Append(file, Entry(c))}
  BY DEF AppendFile, PutLine
<1>4. NewHashes' /\ KnownLinks' /\ LinksPointBack'
  <2>1. pc' \in [Call -> {"idle", "append", "resume"}]
    BY <1>1 DEF CutInv, TInv, TypeOK
  <2>2. pc'[c] # "append" /\ \A d \in Call : d # c => pc'[d] = pc[d]
    BY <1>1 DEF CutInv, TInv, TypeOK
  <2>3. Known(rec[c].hash)'
    BY <1>1 DEF Known
  <2> QED BY <1>1, <1>3, <2>1, <2>2, <2>3, LineCut
<1>5. WrittenInv'
  <2> SUFFICES ASSUME broken' = {}, NEW g \in acked' PROVE OnFile(g)'
    BY DEF WrittenInv
  <2>1. broken = {} /\ file' = Append(file, Entry(c))
    BY DEF AppendFile, PutLine
  <2>2. OnFile(g) \/ g = h
    BY <1>1, <2>1 DEF CutInv, WrittenInv
  <2> QED BY <1>2, <2>1, <2>2 DEF OnFile
<1> QED BY <1>4, <1>5

LEMMA TornCut ==
  ASSUME CutInv, NEW c \in Call, AppendTorn(c)
  PROVE  NewHashes' /\ KnownLinks' /\ LinksPointBack' /\ WrittenInv'
<1>1. /\ pc[c] = "append" /\ pc' = [pc EXCEPT ![c] = "idle"]
      /\ UNCHANGED <<acked, rec, hashed, lastHash>>
  BY DEF AppendTorn
<1>2. /\ Append(file, Entry(c)) \in Seq(Line)
      /\ Len(Append(file, Entry(c))) = Len(file) + 1 /\ Len(file) \in Nat
      /\ \A j \in 1 .. Len(file) : Append(file, Entry(c))[j] = file[j]
  BY <1>1, PutLineTypes DEF CutInv, TInv, TypeOK, Entry
<1>3. file' \in {file, Append(file, Entry(c))}
  BY DEF AppendTorn, PutLine
<1>4. NewHashes' /\ KnownLinks' /\ LinksPointBack'
  <2>1. pc' \in [Call -> {"idle", "append", "resume"}]
    BY <1>1 DEF CutInv, TInv, TypeOK
  <2>2. pc'[c] = "idle" /\ \A d \in Call : d # c => pc'[d] = pc[d]
    BY <1>1 DEF CutInv, TInv, TypeOK
  <2> QED BY <1>1, <1>3, <2>1, <2>2, LineCut
<1>5. WrittenInv'
  <2>1. broken' = {} => broken = {}
    BY DEF AppendTorn, PutLine
  <2> QED BY <1>1, <1>2, <1>3, <2>1 DEF CutInv, WrittenInv, OnFile
<1> QED BY <1>4, <1>5

LEMMA CutInvNext == CutInv /\ [Next]_vars => CutInv'
<1> SUFFICES ASSUME CutInv, [Next]_vars
             PROVE  NewHashes' /\ KnownLinks' /\ LinksPointBack' /\ WrittenInv'
  BY TInvNext DEF CutInv
<1> USE DEF Known
<1>1. ASSUME NEW c \in Call, AuditRead(c)
      PROVE  NewHashes' /\ KnownLinks' /\ LinksPointBack' /\ WrittenInv'
  BY <1>1, BuildCut, PreviousAuditHashType, PreviousOnFile DEF AuditRead, CutInv, TInv
<1>2. ASSUME NEW c \in Call, BroadcastRead(c)
      PROVE  NewHashes' /\ KnownLinks' /\ LinksPointBack' /\ WrittenInv'
  <2>1. /\ lastHash[ProcOf[c]] \in Hash \cup {Null}
        /\ lastHash[ProcOf[c]] # Null => Known(lastHash[ProcOf[c]])
    BY DEF CutInv, TInv, TypeOK, KnownLinks
  <2> QED BY <1>2, <2>1, BuildCut DEF BroadcastRead
<1>3. ASSUME NEW c \in Call, LibraryRead(c)
      PROVE  NewHashes' /\ KnownLinks' /\ LinksPointBack' /\ WrittenInv'
  BY <1>3, BuildCut, LatestHashType, LatestOnFile DEF LibraryRead, CutInv, TInv
<1>4. ASSUME NEW c \in Call, AppendFile(c)
      PROVE  NewHashes' /\ KnownLinks' /\ LinksPointBack' /\ WrittenInv'
  BY <1>4, AppendCut
<1>5. ASSUME NEW c \in Call, AppendTorn(c)
      PROVE  NewHashes' /\ KnownLinks' /\ LinksPointBack' /\ WrittenInv'
  BY <1>5, TornCut
<1>6. ASSUME NEW c \in Call, Resume(c)
      PROVE  NewHashes' /\ KnownLinks' /\ LinksPointBack' /\ WrittenInv'
  <2>1. /\ UNCHANGED <<file, broken, rec, hashed, acked>>
        /\ \A d \in Call : pc'[d] # "idle" => pc'[d] = pc[d]
    BY <1>6 DEF Resume, CutInv, TInv, TypeOK
  <2>2. \A p \in Proc : lastHash'[p] # Null => Known(lastHash'[p])
    BY <1>6 DEF Resume, CutInv, TInv, TypeOK, KnownLinks
  <2>3. KnownLinks'
    BY <2>1, <2>2 DEF CutInv, KnownLinks, OnFile
  <2> QED BY <2>1, <2>3 DEF CutInv, NewHashes, LinksPointBack, Glued, WrittenInv, OnFile
<1>7. ASSUME NEW p \in Proc, Restart(p)
      PROVE  NewHashes' /\ KnownLinks' /\ LinksPointBack' /\ WrittenInv'
  <2>1. /\ UNCHANGED <<file, broken, rec, hashed, acked>>
        /\ \A d \in Call : pc'[d] # "idle" => pc'[d] = pc[d]
    BY <1>7 DEF Restart, CutInv, TInv, TypeOK
  <2>2. \A q \in Proc : lastHash'[q] # Null => Known(lastHash'[q])
    BY <1>7, PreviousOnFile DEF Restart, CutInv, TInv, TypeOK, KnownLinks
  <2>3. KnownLinks'
    BY <2>1, <2>2 DEF CutInv, KnownLinks, OnFile
  <2> QED BY <2>1, <2>3 DEF CutInv, NewHashes, LinksPointBack, Glued, WrittenInv, OnFile
<1>8. CASE UNCHANGED vars
  BY <1>8 DEF vars, CutInv, NewHashes, KnownLinks, LinksPointBack, Glued, WrittenInv, OnFile
<1> QED BY <1>1, <1>2, <1>3, <1>4, <1>5, <1>6, <1>7, <1>8 DEF Next

LEMMA AlwaysCutInv == Spec => []CutInv
<1>1. Init => CutInv
  BY TInvInit DEF Init, CutInv, NewHashes, KnownLinks, LinksPointBack, WrittenInv, OnFile
<1> QED BY <1>1, CutInvNext, PTL DEF Spec

(* For every mixture of the three kinds of call, with appends cut short and    *)
(* restarts: a record links to an earlier line, or to a record that was        *)
(* reported as written and glued to a piece.                                   *)
THEOREM LinksAlwaysPointBack == Spec => []LinksPointBack
<1>1. CutInv => LinksPointBack
  BY DEF CutInv
<1> QED BY <1>1, AlwaysCutInv, PTL

(* A reader who gets the records of the file gets all that were reported as    *)
(* written, whatever was cut short; and without a cut he gets them always.     *)
THEOREM ReaderGetsAllOrNothing == Spec => []AllOrNothing
<1>1. CutInv /\ LInv => AllOrNothing
  BY DEF CutInv, WrittenInv, LInv, AllOrNothing, Recorded, Readable, OnFile
<1> QED BY <1>1, AlwaysCutInv, AlwaysLInv, PTL
=============================================================================
