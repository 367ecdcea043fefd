---------------------------- MODULE KeyStoreProofs ----------------------------
(***************************************************************************)
(* Theorems about KeyStore, for every number of keys and every set of      *)
(* callers, in either mode and across restarts.                            *)
(*                                                                         *)
(* The argument is about what a step can do to an entry: an entry becomes  *)
(* active only if its key was drawn and not issued before (Unissued), and  *)
(* a dead key, revoked or retired by a rotation under way, has been        *)
(* issued.  What a call remembers of an entry is therefore out of date in  *)
(* one direction only.                                                     *)
(***************************************************************************)
EXTENDS KeyStore, SequenceTheorems, TLAPS

Unissued ==
  {k \in Key : \/ k > keysDrawn
               \/ \E c \in KeyCaller : keyCall[c].step = "insert" /\ keyCall[c].fresh = k}

Dead ==
  keyRevoked \cup
  {k \in Key : \E c \in KeyCaller : keyCall[c].step = "insert" /\ k \in ToSet(keyCall[c].keys)}

\* What the entries have to do with the history of their keys.
EntriesInv ==
  /\ \A k \in Unissued : k \notin Dead /\ k \notin keyPast
  /\ \A k \in Unissued, m \in KeyMode : keyStore[m][k].status = "none"
  /\ \A k \in Dead, m \in KeyMode : keyStore[m][k].status # "active"
  /\ \A k \in keyPast, m \in KeyMode :
       keyStore[m][k].status = "active" => keyStore[m][k].expires
  /\ \A k \in Key : \E m \in KeyMode : keyStore[m][k].status = "none"
  /\ keyMode = "mysql" => \A k \in Key : keyStore["memory"][k].status = "none"
  /\ \A k \in Key : keyParent[k] # NoKey => keyParent[k] \in keyRevoked

\* A call that has begun to wait uses the table, and waits for something.
WaitInv(c) ==
  LET call == keyCall[c]
  IN  /\ call.step \notin {"idle", "done"} => keyMode = "mysql"
      /\ call.step \in {"select", "check"} => call.keys # <<>>
      /\ call.step \in {"revoke", "old", "retire"} => \E k \in Key : call.keys = <<k>>
      /\ call.step = "insert" => call.fresh # NoKey /\ call.fresh <= keysDrawn
      /\ call.step = "insert" =>
           \A d \in KeyCaller :
             keyCall[d].step = "insert" /\ keyCall[d].fresh = call.fresh => d = c
      /\ call.step = "retire" => Head(call.keys) \notin Unissued

\* A row that was selected differs from the entry only if the entry is no
\* longer active.
RowInv(call) ==
  LET k == Head(call.keys)
  IN  /\ k \in call.gone => call.row.status # "active"
      /\ k \in call.past /\ call.row.status = "active" => call.row.expires
      /\ k \in call.live /\ Stored(k).status = "active" => call.row = Stored(k)

\* What a call remembers from its beginning still counts.
MemoryInv(c) ==
  LET call == keyCall[c]
  IN  /\ call.gone \subseteq keyRevoked
      /\ call.past \subseteq keyPast
      /\ \A k \in call.live : k \notin Unissued
      /\ call.step = "check" => RowInv(call)
      /\ call.step \in {"select", "check"} =>
           call.live \cap LiveKeys \subseteq ToSet(call.keys)
      /\ call.step = "done" =>
           /\ call.key \notin call.gone
           /\ keyMode = "mysql" => call.key \notin call.past
           /\ call.key = NoKey => call.live \cap LiveKeys = {}

CallsInv == \A c \in KeyCaller : WaitInv(c) /\ MemoryInv(c)

KeyInv == KeyTypeOK /\ EntriesInv /\ CallsInv

-----------------------------------------------------------------------------
(* The keys of a sequence with a first one are that one and the others.        *)
LEMMA HeadTail ==
  ASSUME NEW S, NEW s \in Seq(S), s # <<>>
  PROVE  /\ Head(s) \in S
         /\ Tail(s) \in Seq(S)
         /\ Head(s) \in ToSet(s)
         /\ ToSet(s) \subseteq S
         /\ \A e \in ToSet(s) : e = Head(s) \/ e \in ToSet(Tail(s))
  <1> DEFINE n == Len(s)
  <1>1. n \in Nat /\ n # 0 /\ DOMAIN s = 1 .. n /\ \A i \in 1 .. n : s[i] \in S
    BY EmptySeq, LenProperties
  <1>2. Head(s) = s[1] /\ 1 \in 1 .. n BY <1>1
  <1>3. /\ Tail(s) \in Seq(S)
        /\ DOMAIN Tail(s) = 1 .. n - 1
        /\ \A i \in 1 .. n - 1 : Tail(s)[i] = s[i + 1]
    BY <1>1
  <1>4. ASSUME NEW e \in ToSet(s), e # s[1] PROVE e \in ToSet(Tail(s))
    <2>1. PICK i \in 1 .. n : e = s[i] BY <1>1 DEF ToSet
    <2>2. i - 1 \in 1 .. n - 1 /\ (i - 1) + 1 = i BY <1>1, <1>4, <2>1
    <2>3. Tail(s)[i - 1] = e BY <1>3, <2>1, <2>2
    <2> QED BY <1>3, <2>2, <2>3 DEF ToSet
  <1> QED BY <1>1, <1>2, <1>3, <1>4 DEF ToSet

(* There are no keys in the empty sequence, and one in a sequence of one.      *)
LEMMA FewKeys ==
  ASSUME NEW S, NEW e \in S
  PROVE  /\ ToSet(<<>>) = {}
         /\ <<e>> \in Seq(S) /\ <<e>> # <<>> /\ Head(<<e>>) = e /\ ToSet(<<e>>) = {e}
  BY DEF ToSet
(* Keys are positive numbers; no key is not one of them.                       *)
LEMMA Keys ==
  /\ \A k \in Key \cup {NoKey} : k \in Nat
  /\ \A k \in Key : k # NoKey /\ k > 0
  BY MaxKeysAssumption DEF Key, NoKey

(* What the operators that make a call return is the record of a call.         *)
LEMMA Calls ==
  ASSUME KeyTypeOK
  PROVE  /\ NoEntry \in KeyEntry
         /\ IdleCall \in KeyCallRecord
         /\ \A step \in KeyStep, keys \in Seq(Key) :
              /\ KeyWaits(step, keys) \in KeyCallRecord
              /\ KeyBegin(step, keys) \in KeyCallRecord
         /\ \A call \in KeyCallRecord, k \in Key \cup {NoKey} :
              KeyAnswer(call, k) \in KeyCallRecord
  <1>1. NoEntry \in KeyEntry BY DEF NoEntry, KeyEntry
  <1>2. <<>> \in Seq(Key) BY EmptySeq
  <1>3. IdleCall \in KeyCallRecord BY <1>1, <1>2 DEF IdleCall, KeyCallRecord, KeyStep
  <1>4. ASSUME NEW step \in KeyStep, NEW keys \in Seq(Key)
        PROVE  KeyWaits(step, keys) \in KeyCallRecord
    BY <1>3 DEF KeyWaits, KeyCallRecord
  <1>5. ASSUME NEW step \in KeyStep, NEW keys \in Seq(Key)
        PROVE  KeyBegin(step, keys) \in KeyCallRecord
    <2> DEFINE w == KeyWaits(step, keys)
               live == LiveKeys \cap ToSet(keys)
               gone == keyRevoked \cap ToSet(keys)
               past == keyPast \cap ToSet(keys)
    <2>1. w \in KeyCallRecord BY <1>4
    <2>2. live \in SUBSET Key /\ gone \in SUBSET Key /\ past \in SUBSET Key
      BY DEF LiveKeys, KeyTypeOK
    <2>3. KeyBegin(step, keys) = [w EXCEPT !.live = live, !.gone = gone, !.past = past]
      BY DEF KeyBegin
    <2> HIDE DEF w, live, gone, past
    <2> QED BY <2>1, <2>2, <2>3 DEF KeyCallRecord
  <1>6. ASSUME NEW call \in KeyCallRecord, NEW k \in Key \cup {NoKey}
        PROVE  KeyAnswer(call, k) \in KeyCallRecord
    BY <1>1, <1>2 DEF KeyAnswer, KeyCallRecord, KeyStep
  <1> QED BY <1>1, <1>3, <1>4, <1>5, <1>6

(* What they put into its fields.                                              *)
LEMMA Fields ==
  /\ \A step, keys :
       /\ KeyWaits(step, keys).step = step /\ KeyWaits(step, keys).keys = keys
       /\ KeyWaits(step, keys).live = {} /\ KeyWaits(step, keys).gone = {}
       /\ KeyWaits(step, keys).past = {}
       /\ KeyBegin(step, keys).step = step /\ KeyBegin(step, keys).keys = keys
       /\ KeyBegin(step, keys).live = LiveKeys \cap ToSet(keys)
       /\ KeyBegin(step, keys).gone = keyRevoked \cap ToSet(keys)
       /\ KeyBegin(step, keys).past = keyPast \cap ToSet(keys)
  /\ \A call \in KeyCallRecord : \A k :
       /\ KeyAnswer(call, k).step = "done" /\ KeyAnswer(call, k).key = k
       /\ KeyAnswer(call, k).live = call.live /\ KeyAnswer(call, k).gone = call.gone
       /\ KeyAnswer(call, k).past = call.past
  /\ IdleCall.step = "idle" /\ IdleCall.live = {} /\ IdleCall.gone = {} /\ IdleCall.past = {}
  BY DEF KeyWaits, KeyBegin, KeyAnswer, IdleCall, KeyCallRecord

-----------------------------------------------------------------------------
\* An entry that replaces another accepts nothing that the other did not.
NoLivelier(new, old) ==
  new.status # "none" =>
    /\ old.status # "none"
    /\ new.expires = old.expires
    /\ new.status = "active" => old.status = "active"

\* What a step does to the entries and to the history of the keys.
EntriesStep ==
  /\ Unissued' \subseteq Unissued
  /\ \A m \in KeyMode, k \in Key :
       \/ k \in Unissued \ Unissued' /\ m = keyMode
       \/ NoLivelier(keyStore'[m][k], keyStore[m][k])
  /\ \A k \in Dead' \ Dead :
       k \notin Unissued /\ \A m \in KeyMode : keyStore'[m][k].status # "active"
  /\ \A k \in keyPast' \ keyPast :
       /\ k \notin Unissued
       /\ \A m \in KeyMode : keyStore'[m][k].status = "active" => keyStore'[m][k].expires
  /\ keyRevoked \subseteq keyRevoked'
  /\ keyPast \subseteq keyPast'
  /\ \A k \in Key : keyParent'[k] = keyParent[k] \/ keyParent'[k] \in keyRevoked'
  /\ keysDrawn <= keysDrawn'

\* Who inserts a key that nobody else inserts, inserts a new one.
FreshStep ==
  \A c \in KeyCaller :
    keyCall'[c].step = "insert" =>
      \/ keyCall[c].step = "insert" /\ keyCall'[c].fresh = keyCall[c].fresh
      \/ keyCall'[c].fresh > keysDrawn

(* Such a step keeps the entries in order.                                     *)
LEMMA EntriesKept ==
  ASSUME KeyInv, KeyTypeOK', EntriesStep,
         keyMode' = "mysql" => keyMode = "mysql" \/ \A k \in Key : keyStore'["memory"][k].status = "none"
  PROVE  EntriesInv'
  <1>1. Unissued \subseteq Key /\ Unissued' \subseteq Key BY DEF Unissued
  <1>2. \A k \in Unissued', m \in KeyMode : keyStore'[m][k].status = "none"
    BY <1>1 DEF EntriesStep, NoLivelier, KeyInv, EntriesInv
  <1>3. \A k \in Unissued' : k \notin Dead' /\ k \notin keyPast'
    BY DEF EntriesStep, NoLivelier, KeyInv, EntriesInv
  <1>4. ASSUME NEW k \in Dead', NEW m \in KeyMode PROVE keyStore'[m][k].status # "active"
    <2>1. CASE k \notin Dead BY <1>4, <2>1 DEF EntriesStep, NoLivelier
    <2>2. CASE k \in Dead
      <3>1. k \in Key BY <2>2 DEF Dead, KeyInv, KeyTypeOK
      <3>2. keyStore[m][k].status # "active" /\ k \notin Unissued
        BY <2>2 DEF KeyInv, EntriesInv
      <3> QED BY <3>1, <3>2 DEF EntriesStep, NoLivelier
    <2> QED BY <2>1, <2>2
  <1>5. ASSUME NEW k \in keyPast', NEW m \in KeyMode, keyStore'[m][k].status = "active"
        PROVE  keyStore'[m][k].expires
    <2>1. CASE k \notin keyPast BY <1>5, <2>1 DEF EntriesStep, NoLivelier
    <2>2. CASE k \in keyPast
      <3>1. k \in Key BY <2>2 DEF KeyInv, KeyTypeOK
      <3>2. k \notin Unissued /\ (keyStore[m][k].status = "active" => keyStore[m][k].expires)
        BY <2>2 DEF KeyInv, EntriesInv
      <3> QED BY <1>5, <3>1, <3>2 DEF EntriesStep, NoLivelier
    <2> QED BY <2>1, <2>2
  <1>6. ASSUME NEW k \in Key PROVE \E m \in KeyMode : keyStore'[m][k].status = "none"
    <2>1. PICK m \in KeyMode : keyStore[m][k].status = "none" BY DEF KeyInv, EntriesInv
    <2>2. CASE k \notin Unissued BY <2>1, <2>2 DEF EntriesStep, NoLivelier
    <2>3. CASE k \in Unissued
      <3>1. \A n \in KeyMode : keyStore[n][k].status = "none" BY <2>3 DEF KeyInv, EntriesInv
      <3>2. PICK n \in KeyMode : n # keyMode BY DEF KeyMode
      <3> QED BY <3>1, <3>2 DEF EntriesStep, NoLivelier
    <2> QED BY <2>2, <2>3
  <1>7. keyMode' = "mysql" => \A k \in Key : keyStore'["memory"][k].status = "none"
    BY DEF EntriesStep, NoLivelier, KeyInv, EntriesInv, KeyMode
  <1>8. \A k \in Key : keyParent'[k] # NoKey => keyParent'[k] \in keyRevoked'
    BY DEF EntriesStep, NoLivelier, KeyInv, EntriesInv
  <1> QED BY <1>2, <1>3, <1>4, <1>5, <1>6, <1>7, <1>8 DEF EntriesInv

(* No key comes to life again.                                                 *)
LEMMA LiveShrinks ==
  ASSUME KeyInv, EntriesStep, keyMode' = keyMode
  PROVE  \A k \in LiveKeys' : k \in LiveKeys \/ k \in Unissued
  <1> SUFFICES ASSUME NEW k \in LiveKeys', k \notin Unissued PROVE k \in LiveKeys
    OBVIOUS
  <1>1. /\ k \in Key
        /\ keyStore'[keyMode][k].status = "active"
        /\ ~(keyStore'[keyMode][k].expires /\ k \in keyPast')
    BY DEF LiveKeys, Stored
  <1>2. keyMode \in KeyMode BY DEF KeyInv, KeyTypeOK
  <1> QED BY <1>1, <1>2 DEF EntriesStep, NoLivelier, LiveKeys, Stored

(* A call that does nothing remembers what it has to.                          *)
LEMMA MemoryKept ==
  ASSUME KeyInv, KeyTypeOK', EntriesStep, keyMode' = keyMode,
         NEW c \in KeyCaller, keyCall'[c] = keyCall[c]
  PROVE  MemoryInv(c)'
  <1> DEFINE call == keyCall[c]
  <1>1. MemoryInv(c) /\ call \in KeyCallRecord /\ keyMode \in KeyMode
    BY DEF KeyInv, CallsInv, KeyTypeOK
  <1>2. /\ call.gone \subseteq keyRevoked'
        /\ call.past \subseteq keyPast'
        /\ \A k \in call.live : k \notin Unissued'
    BY <1>1 DEF MemoryInv, EntriesStep, NoLivelier
  <1>3. call.live \cap LiveKeys' \subseteq call.live \cap LiveKeys
    BY <1>1, LiveShrinks DEF MemoryInv
  <1>4. ASSUME call.step = "check" PROVE RowInv(call)'
    <2> DEFINE k == Head(call.keys)
    <2>1. RowInv(call) BY <1>1, <1>4 DEF MemoryInv
    <2>2. ASSUME k \in call.live, keyStore'[keyMode][k].status = "active"
          PROVE  call.row = keyStore'[keyMode][k]
      <3>1. k \in Key /\ k \notin Unissued BY <1>1, <2>2 DEF MemoryInv, KeyCallRecord
      <3>2. /\ keyStore[keyMode][k].status = "active"
            /\ keyStore'[keyMode][k].expires = keyStore[keyMode][k].expires
        BY <1>1, <2>2, <3>1 DEF EntriesStep, NoLivelier
      <3>3. keyStore[keyMode][k] \in KeyEntry /\ keyStore'[keyMode][k] \in KeyEntry
        BY <1>1, <3>1 DEF KeyInv, KeyTypeOK
      <3>4. keyStore'[keyMode][k] = keyStore[keyMode][k]
        BY <2>2, <3>2, <3>3 DEF KeyEntry
      <3> QED BY <2>1, <2>2, <3>2, <3>4 DEF RowInv, Stored
    <2> QED BY <2>1, <2>2 DEF RowInv, Stored
  <1> QED BY <1>1, <1>2, <1>3, <1>4 DEF MemoryInv

(* A call that does nothing waits for what it waited for.                      *)
LEMMA WaitKept ==
  ASSUME KeyInv, KeyTypeOK', EntriesStep, FreshStep, keyMode' = keyMode,
         NEW c \in KeyCaller, keyCall'[c] = keyCall[c]
  PROVE  WaitInv(c)'
  <1> DEFINE call == keyCall[c]
  <1>1. WaitInv(c) /\ call \in KeyCallRecord /\ keysDrawn \in Nat /\ keysDrawn' \in Nat
    BY MaxKeysAssumption DEF KeyInv, CallsInv, KeyTypeOK
  <1>2. call.fresh \in Nat
    <2>1. call.fresh \in Key \cup {NoKey} BY <1>1 DEF KeyCallRecord
    <2> QED BY <2>1, Keys
  <1>3. call.step = "insert" => call.fresh # NoKey /\ call.fresh <= keysDrawn'
    BY <1>1, <1>2 DEF WaitInv, EntriesStep, NoLivelier
  <1>4. ASSUME call.step = "insert", NEW d \in KeyCaller,
               keyCall'[d].step = "insert", keyCall'[d].fresh = call.fresh
        PROVE  d = c
    <2>1. ~(call.fresh > keysDrawn) BY <1>1, <1>2, <1>4 DEF WaitInv
    <2>2. keyCall[d].step = "insert" /\ keyCall[d].fresh = call.fresh
      BY <1>4, <2>1 DEF FreshStep
    <2> QED BY <1>1, <1>4, <2>2 DEF WaitInv
  <1>5. call.step = "retire" => Head(call.keys) \notin Unissued'
    <2>1. call.step = "retire" => Head(call.keys) \notin Unissued BY <1>1 DEF WaitInv
    <2>2. Unissued' \subseteq Unissued BY DEF EntriesStep, NoLivelier
    <2> QED BY <2>1, <2>2
  <1> QED BY <1>1, <1>3, <1>4, <1>5 DEF WaitInv
(* After a step of one caller that keeps its own call in order, everything is. *)
LEMMA Acted ==
  ASSUME KeyInv, KeyTypeOK', EntriesStep, FreshStep, keyMode' = keyMode,
         NEW c \in KeyCaller,
         \A d \in KeyCaller \ {c} : keyCall'[d] = keyCall[d],
         WaitInv(c)', MemoryInv(c)'
  PROVE  KeyInv' /\ EntriesStep
  <1>1. EntriesInv' BY EntriesKept
  <1>2. ASSUME NEW d \in KeyCaller PROVE WaitInv(d)' /\ MemoryInv(d)'
    <2>1. CASE d = c BY <2>1
    <2>2. CASE d # c BY <2>2, WaitKept, MemoryKept
    <2> QED BY <2>1, <2>2
  <1> QED BY <1>1, <1>2 DEF KeyInv, CallsInv

(* So it is after a step of no caller.                                         *)
LEMMA Nobody ==
  ASSUME KeyInv, KeyTypeOK', EntriesStep, UNCHANGED <<keyMode, keyCall>>
  PROVE  KeyInv' /\ EntriesStep
  <1>1. EntriesInv' BY EntriesKept
  <1>2. FreshStep BY DEF FreshStep
  <1>3. \A d \in KeyCaller : WaitInv(d)' /\ MemoryInv(d)' BY <1>2, WaitKept, MemoryKept
  <1> QED BY <1>1, <1>3 DEF KeyInv, CallsInv

(* A call that remembers nothing cannot be wrong about it.                     *)
LEMMA Forgets ==
  ASSUME NEW c \in KeyCaller,
         keyCall'[c].live = {}, keyCall'[c].gone = {}, keyCall'[c].past = {}
  PROVE  MemoryInv(c)'
  BY DEF MemoryInv, RowInv

(* An idle call is in order.                                                   *)
LEMMA IdleInOrder ==
  ASSUME NEW c \in KeyCaller, keyCall'[c] = IdleCall
  PROVE  WaitInv(c)' /\ MemoryInv(c)'
  <1>1. MemoryInv(c)' BY Forgets, Fields
  <1>2. keyCall'[c].step = "idle" BY Fields
  <1> QED BY <1>1, <1>2 DEF WaitInv

(* A step that only exchanges a call for one that inserts nothing leaves the   *)
(* entries in order.                                                           *)
LEMMA CallOnly ==
  ASSUME KeyInv, NEW c \in KeyCaller, NEW q \in KeyCallRecord, q.step # "insert",
         keyCall' = [keyCall EXCEPT ![c] = q],
         UNCHANGED <<keyMode, keyStore, keysDrawn, keyPast, keyRevoked, keyParent>>
  PROVE  /\ KeyTypeOK' /\ EntriesStep /\ FreshStep
         /\ keyCall'[c] = q
         /\ \A d \in KeyCaller \ {c} : keyCall'[d] = keyCall[d]
         /\ Unissued' \subseteq Unissued
         /\ LiveKeys' = LiveKeys
  <1>1. KeyTypeOK' BY DEF KeyInv, KeyTypeOK
  <1>2. keyCall'[c] = q /\ \A d \in KeyCaller \ {c} : keyCall'[d] = keyCall[d]
    BY DEF KeyInv, KeyTypeOK
  <1>3. \A d \in KeyCaller : keyCall'[d].step = "insert" => keyCall'[d] = keyCall[d]
    BY <1>2
  <1>4. Unissued' \subseteq Unissued BY <1>3 DEF Unissued
  <1>5. Dead' \subseteq Dead BY <1>3 DEF Dead
  <1>6. FreshStep BY <1>3 DEF FreshStep
  <1>7. keysDrawn <= keysDrawn' BY MaxKeysAssumption DEF KeyInv, KeyTypeOK
  <1>8. EntriesStep BY <1>4, <1>5, <1>7 DEF EntriesStep, NoLivelier
  <1>9. LiveKeys' = LiveKeys BY DEF LiveKeys, Stored
  <1> QED BY <1>1, <1>2, <1>4, <1>6, <1>8, <1>9

(* A key that is on record has been issued.                                    *)
LEMMA OnRecord ==
  ASSUME KeyInv
  PROVE  /\ \A k \in Key : Stored(k) \in KeyEntry
         /\ \A k \in Key : Stored(k).status # "none" => k \notin Unissued
         /\ \A k \in LiveKeys : k \in Key /\ k \notin Unissued
         /\ \A k \in keyRevoked : Stored(k).status # "active"
         /\ \A k \in keyPast : Stored(k).status = "active" => Stored(k).expires
  <1>1. keyMode \in KeyMode BY DEF KeyInv, KeyTypeOK
  <1>2. \A k \in Key : Stored(k) \in KeyEntry BY <1>1 DEF KeyInv, KeyTypeOK, Stored
  <1>3. \A k \in Key : Stored(k).status # "none" => k \notin Unissued
    BY <1>1 DEF KeyInv, EntriesInv, Stored
  <1>4. \A k \in LiveKeys : k \in Key /\ k \notin Unissued BY <1>3 DEF LiveKeys
  <1>5. \A k \in keyRevoked : Stored(k).status # "active"
    BY <1>1 DEF KeyInv, EntriesInv, Stored, Dead
  <1>6. \A k \in keyPast : Stored(k).status = "active" => Stored(k).expires
    BY <1>1 DEF KeyInv, EntriesInv, Stored
  <1> QED BY <1>2, <1>3, <1>4, <1>5, <1>6
-----------------------------------------------------------------------------
(* An authentication begins; in memory, it is answered in the same turn.       *)
LEMMA AuthenticateKeeps ==
  ASSUME KeyInv, NEW c \in KeyCaller, NEW keys \in Seq(Key), keys # <<>>, Authenticate(c, keys)
  PROVE  KeyInv' /\ EntriesStep
  <1> DEFINE b(step) == KeyBegin(step, keys)
  <1>0. KeyTypeOK BY DEF KeyInv
  <1>1. /\ UNCHANGED <<keyMode, keyStore, keysDrawn, keyPast, keyRevoked, keyParent>>
        /\ keyMode \in KeyMode /\ keyRevoked \subseteq Key
    BY <1>0 DEF Authenticate, KeyTypeOK
  <1>2. b("select") \in KeyCallRecord /\ b("done") \in KeyCallRecord
    BY <1>0, Calls DEF KeyStep
  <1>3. \A k \in LiveKeys : k \notin Unissued BY OnRecord
  <1>4. CASE keyMode = "mysql"
    <2>1. keyCall' = [keyCall EXCEPT ![c] = b("select")] BY <1>4 DEF Authenticate
    <2>2. b("select").step = "select" /\ b("select").keys = keys BY Fields
    <2>3. /\ KeyTypeOK' /\ EntriesStep /\ FreshStep
          /\ keyCall'[c] = b("select")
          /\ \A d \in KeyCaller \ {c} : keyCall'[d] = keyCall[d]
          /\ Unissued' \subseteq Unissued
          /\ LiveKeys' = LiveKeys
      BY <1>1, <1>2, <2>1, <2>2, CallOnly
    <2>4. WaitInv(c)' BY <1>1, <1>4, <2>2, <2>3 DEF WaitInv
    <2>5. /\ b("select").live = LiveKeys \cap ToSet(keys)
          /\ b("select").gone \subseteq keyRevoked /\ b("select").past \subseteq keyPast
      BY Fields
    <2> HIDE DEF b
    <2>6. MemoryInv(c)' BY <1>1, <1>3, <2>2, <2>3, <2>5 DEF MemoryInv
    <2> QED BY <1>1, <2>3, <2>4, <2>6, Acted
  <1>5. CASE keyMode # "mysql"
    <2>1. PICK k \in ToSet(keys) \cup {NoKey} :
             Outcome(keys, k) /\ keyCall' = [keyCall EXCEPT ![c] = KeyAnswer(b("done"), k)]
      BY <1>5 DEF Authenticate
    <2> DEFINE q == KeyAnswer(b("done"), k)
    <2>2. ToSet(keys) \subseteq Key BY HeadTail
    <2>3. q \in KeyCallRecord BY <1>0, <1>2, <2>2, Calls
    <2>4. /\ q.step = "done" /\ q.key = k
          /\ q.live = LiveKeys \cap ToSet(keys)
          /\ q.gone = keyRevoked \cap ToSet(keys) /\ q.past = keyPast \cap ToSet(keys)
      BY <1>2, Fields
    <2>5. /\ KeyTypeOK' /\ EntriesStep /\ FreshStep
          /\ keyCall'[c] = q
          /\ \A d \in KeyCaller \ {c} : keyCall'[d] = keyCall[d]
          /\ Unissued' \subseteq Unissued
          /\ LiveKeys' = LiveKeys
      BY <1>1, <2>1, <2>3, <2>4, CallOnly
    <2>6. k \in Key => k \notin keyRevoked
      BY <1>5, <2>1, OnRecord, Keys DEF Outcome, Accepts
    <2>7. k \notin q.gone BY <1>1, <2>2, <2>4, <2>6
    <2>8. ASSUME k = NoKey PROVE q.live \cap LiveKeys = {}
      <3>1. \A e \in ToSet(keys) : ~Accepts(Stored(e), e)
        BY <2>1, <2>2, <2>8, Keys DEF Outcome, ToSet
      <3>2. \A e \in LiveKeys : Accepts(Stored(e), e) BY <1>5 DEF LiveKeys, Accepts
      <3> QED BY <2>4, <3>1, <3>2
    <2>9. WaitInv(c)' BY <2>4, <2>5 DEF WaitInv
    <2> HIDE DEF q, b
    <2>10. MemoryInv(c)' BY <1>1, <1>3, <1>5, <2>4, <2>5, <2>7, <2>8 DEF MemoryInv
    <2> QED BY <1>1, <2>5, <2>9, <2>10, Acted
  <1> QED BY <1>4, <1>5

(* The row of the first key arrives.                                           *)
LEMMA SelectKeyKeeps ==
  ASSUME KeyInv, NEW c \in KeyCaller, SelectKey(c)
  PROVE  KeyInv' /\ EntriesStep
  <1> DEFINE call == keyCall[c]
             k == Head(call.keys)
             q == [call EXCEPT !.step = "check", !.row = Stored(k)]
  <1>1. /\ call \in KeyCallRecord /\ call.step = "select"
        /\ WaitInv(c) /\ MemoryInv(c)
        /\ UNCHANGED <<keyMode, keyStore, keysDrawn, keyPast, keyRevoked, keyParent>>
    BY DEF KeyInv, KeyTypeOK, CallsInv, SelectKey
  <1>2. call.keys \in Seq(Key) /\ call.keys # <<>> /\ keyMode = "mysql"
    BY <1>1 DEF WaitInv, KeyCallRecord
  <1>3. k \in Key BY <1>2, HeadTail
  <1>4. Stored(k) \in KeyEntry BY <1>3, OnRecord
  <1>5. /\ q \in KeyCallRecord
        /\ q.step = "check" /\ q.row = Stored(k) /\ q.keys = call.keys
        /\ q.live = call.live /\ q.gone = call.gone /\ q.past = call.past
    BY <1>1, <1>4 DEF KeyCallRecord, KeyStep
  <1>6. keyCall' = [keyCall EXCEPT ![c] = q]
    BY DEF SelectKey, KeyInv, KeyTypeOK
  <1> HIDE DEF q
  <1>7. /\ KeyTypeOK' /\ EntriesStep /\ FreshStep
        /\ keyCall'[c] = q
        /\ \A d \in KeyCaller \ {c} : keyCall'[d] = keyCall[d]
        /\ Unissued' \subseteq Unissued
        /\ LiveKeys' = LiveKeys
    BY <1>1, <1>5, <1>6, CallOnly
  <1>8. WaitInv(c)' BY <1>1, <1>2, <1>5, <1>7 DEF WaitInv
  <1>9. RowInv(keyCall[c])'
    <2>1. k \in keyRevoked => Stored(k).status # "active" BY OnRecord
    <2>2. k \in keyPast /\ Stored(k).status = "active" => Stored(k).expires BY OnRecord
    <2>3. call.gone \subseteq keyRevoked /\ call.past \subseteq keyPast BY <1>1 DEF MemoryInv
    <2>4. RowInv(q) BY <1>5, <2>1, <2>2, <2>3 DEF RowInv
    <2> QED BY <1>1, <1>7, <2>4 DEF RowInv, Stored
  <1>10. MemoryInv(c)'
    <2>1. /\ q.gone \subseteq keyRevoked' /\ q.past \subseteq keyPast'
          /\ \A e \in q.live : e \notin Unissued'
          /\ q.live \cap LiveKeys' \subseteq ToSet(q.keys)
      BY <1>1, <1>5, <1>7 DEF MemoryInv
    <2>2. q.step = "check" BY <1>5
    <2> QED BY <1>7, <1>9, <2>1, <2>2 DEF MemoryInv
  <1> QED BY <1>1, <1>7, <1>8, <1>10, Acted

(* The row is checked, and the call answered, or the next key is selected.     *)
LEMMA CheckKeyKeeps ==
  ASSUME KeyInv, NEW c \in KeyCaller, CheckKey(c)
  PROVE  KeyInv' /\ EntriesStep
  <1> DEFINE call == keyCall[c]
             k == Head(call.keys)
             next == [call EXCEPT !.step = "select", !.keys = Tail(@), !.row = NoEntry]
  <1>1. /\ call \in KeyCallRecord /\ call.step = "check"
        /\ WaitInv(c) /\ MemoryInv(c)
        /\ UNCHANGED <<keyMode, keyStore, keysDrawn, keyPast, keyRevoked, keyParent>>
    BY DEF KeyInv, KeyTypeOK, CallsInv, CheckKey
  <1>2. call.keys \in Seq(Key) /\ call.keys # <<>> /\ keyMode = "mysql"
    BY <1>1 DEF WaitInv, KeyCallRecord
  <1>3. /\ k \in Key /\ Tail(call.keys) \in Seq(Key)
        /\ \A e \in ToSet(call.keys) : e = k \/ e \in ToSet(Tail(call.keys))
    BY <1>2, HeadTail
  <1>4. /\ RowInv(call)
        /\ call.gone \subseteq keyRevoked /\ call.past \subseteq keyPast
        /\ \A e \in call.live : e \notin Unissued
        /\ call.live \cap LiveKeys \subseteq ToSet(call.keys)
    BY <1>1 DEF MemoryInv
  <1>a. ASSUME NEW q \in KeyCallRecord, keyCall' = [keyCall EXCEPT ![c] = q],
               q.live = call.live, q.gone = call.gone, q.past = call.past,
               \/ /\ q.step = "done" /\ q.key \notin q.gone \cup q.past
                  /\ q.key = NoKey => q.live \cap LiveKeys = {}
               \/ /\ q.step = "select" /\ q.keys # <<>>
                  /\ q.live \cap LiveKeys \subseteq ToSet(q.keys)
        PROVE  KeyInv' /\ EntriesStep
    <2>1. /\ KeyTypeOK' /\ EntriesStep /\ FreshStep
          /\ keyCall'[c] = q
          /\ \A d \in KeyCaller \ {c} : keyCall'[d] = keyCall[d]
          /\ Unissued' \subseteq Unissued
          /\ LiveKeys' = LiveKeys
      BY <1>1, <1>a, CallOnly
    <2>2. WaitInv(c)' BY <1>1, <1>2, <1>a, <2>1 DEF WaitInv
    <2>3. MemoryInv(c)' BY <1>1, <1>4, <1>a, <2>1 DEF MemoryInv
    <2> QED BY <1>1, <2>1, <2>2, <2>3, Acted
  <1>b. /\ KeyTypeOK /\ call.gone \subseteq Key /\ call.past \subseteq Key /\ NoKey \notin Key
    BY <1>1, Keys DEF KeyInv, KeyCallRecord
  <1>5. CASE Accepts(call.row, k)
    <2> DEFINE q == KeyAnswer(call, k)
    <2>1. q \in KeyCallRecord BY <1>1, <1>3, <1>b, Calls
    <2>2. /\ q.step = "done" /\ q.key = k
          /\ q.live = call.live /\ q.gone = call.gone /\ q.past = call.past
      BY <1>1, Fields
    <2>3. k \notin call.gone \cup call.past BY <1>2, <1>4, <1>5 DEF RowInv, Accepts
    <2>4. keyCall' = [keyCall EXCEPT ![c] = q] BY <1>5 DEF CheckKey
    <2>5. k # NoKey BY <1>3, <1>b
    <2> HIDE DEF q
    <2> QED BY <1>a, <2>1, <2>2, <2>3, <2>4, <2>5
  <1>6. CASE ~Accepts(call.row, k)
    <2>1. k \in call.live => k \notin LiveKeys
      BY <1>2, <1>4, <1>6 DEF RowInv, Accepts, LiveKeys
    <2>2. call.live \cap LiveKeys \subseteq ToSet(Tail(call.keys))
      BY <1>3, <1>4, <2>1
    <2>3. CASE Tail(call.keys) = <<>>
      <3> DEFINE q == KeyAnswer(call, NoKey)
      <3>1. q \in KeyCallRecord BY <1>1, <1>b, Calls
      <3>2. /\ q.step = "done" /\ q.key = NoKey
            /\ q.live = call.live /\ q.gone = call.gone /\ q.past = call.past
        BY <1>1, Fields
      <3>3. call.live \cap LiveKeys = {} BY <1>3, <2>2, <2>3, FewKeys
      <3>4. keyCall' = [keyCall EXCEPT ![c] = q] BY <1>6, <2>3 DEF CheckKey
      <3> HIDE DEF q
      <3> QED BY <1>a, <1>b, <3>1, <3>2, <3>3, <3>4
    <2>4. CASE Tail(call.keys) # <<>>
      <3>1. next \in KeyCallRecord BY <1>1, <1>3, <1>b, Calls DEF KeyCallRecord, KeyStep
      <3>2. /\ next.step = "select" /\ next.keys = Tail(call.keys)
            /\ next.live = call.live /\ next.gone = call.gone /\ next.past = call.past
        BY <1>1 DEF KeyCallRecord
      <3>3. keyCall' = [keyCall EXCEPT ![c] = next] BY <1>6, <2>4 DEF CheckKey
      <3> HIDE DEF next
      <3> QED BY <1>a, <2>2, <2>4, <3>1, <3>2, <3>3
    <2> QED BY <2>3, <2>4
  <1> QED BY <1>5, <1>6
-----------------------------------------------------------------------------
(* A revoked entry accepts nothing; the others are what they were.             *)
LEMMA RevokeEntry ==
  ASSUME NEW store \in [Key -> KeyEntry], NEW k \in Key
  PROVE  /\ Revoke(store, k) \in [Key -> KeyEntry]
         /\ \A e \in Key : NoLivelier(Revoke(store, k)[e], store[e])
         /\ Revoke(store, k)[k].status # "active"
  BY DEF Revoke, NoLivelier, KeyEntry

(* A change of the entries in use leaves those of the other mode alone.        *)
LEMMA StoreChanged ==
  ASSUME KeyInv, NEW store \in [Key -> KeyEntry], keyStore' = [keyStore EXCEPT ![keyMode] = store]
  PROVE  /\ keyStore' \in [KeyMode -> [Key -> KeyEntry]]
         /\ keyStore'[keyMode] = store
         /\ \A m \in KeyMode \ {keyMode} : keyStore'[m] = keyStore[m]
         /\ keyStore[keyMode] \in [Key -> KeyEntry]
         /\ (\A k \in Key : NoLivelier(store[k], Stored(k))) =>
              \A m \in KeyMode, k \in Key : NoLivelier(keyStore'[m][k], keyStore[m][k])
  BY DEF KeyInv, KeyTypeOK, NoLivelier, Stored

(* To issue a key that was drawn is a step that the entries allow.             *)
LEMMA IssueEntry ==
  ASSUME KeyInv, NEW x \in Key, NEW expires \in BOOLEAN, x \in Unissued, x \notin Unissued',
         NEW store \in [Key -> KeyEntry], \A k \in Key : NoLivelier(store[k], Stored(k)),
         keyStore' = [keyStore EXCEPT ![keyMode] = Issue(store, x, expires)]
  PROVE  /\ keyStore' \in [KeyMode -> [Key -> KeyEntry]]
         /\ keyStore'[keyMode] = Issue(store, x, expires)
         /\ \A m \in KeyMode \ {keyMode} : keyStore'[m] = keyStore[m]
         /\ \A m \in KeyMode, k \in Key :
              \/ k \in Unissued \ Unissued' /\ m = keyMode
              \/ NoLivelier(keyStore'[m][k], keyStore[m][k])
  <1> DEFINE new == Issue(store, x, expires)
  <1>1. new \in [Key -> KeyEntry] /\ \A k \in Key \ {x} : new[k] = store[k]
    BY DEF Issue, KeyEntry
  <1> HIDE DEF new
  <1>2. keyStore' = [keyStore EXCEPT ![keyMode] = new] BY DEF new
  <1>3. /\ keyStore' \in [KeyMode -> [Key -> KeyEntry]]
        /\ keyStore'[keyMode] = new
        /\ \A m \in KeyMode \ {keyMode} : keyStore'[m] = keyStore[m]
    BY <1>1, <1>2, StoreChanged
  <1>4. ASSUME NEW m \in KeyMode, NEW k \in Key, ~(k \in Unissued \ Unissued' /\ m = keyMode)
        PROVE  NoLivelier(keyStore'[m][k], keyStore[m][k])
    <2>1. CASE m # keyMode BY <1>3, <2>1 DEF NoLivelier
    <2>2. CASE m = keyMode BY <1>1, <1>3, <1>4, <2>2 DEF Stored
    <2> QED BY <2>1, <2>2
  <1> QED BY <1>3, <1>4 DEF new

(* An entry in use has none beside it in the other mode.                       *)
LEMMA OneEntry ==
  ASSUME KeyInv, NEW k \in Key, keyMode = "mysql" \/ Stored(k).status # "none"
  PROVE  \A m \in KeyMode \ {keyMode} : keyStore[m][k].status = "none"
  BY DEF KeyInv, KeyTypeOK, EntriesInv, KeyMode, Stored

(* A revocation, in whichever mode, ends the caller's call.                    *)
LEMMA RevocationKeeps ==
  ASSUME KeyInv, NEW c \in KeyCaller, NEW k \in Key,
         keyStore' = [keyStore EXCEPT ![keyMode] = Revoke(@, k)],
         keyRevoked' = IF Stored(k).status = "none" THEN keyRevoked ELSE keyRevoked \cup {k},
         keyCall' = [keyCall EXCEPT ![c] = IdleCall],
         UNCHANGED <<keyMode, keysDrawn, keyPast, keyParent>>
  PROVE  KeyInv' /\ EntriesStep
  <1> DEFINE store == Revoke(keyStore[keyMode], k)
  <1>0. KeyTypeOK /\ keyMode \in KeyMode BY DEF KeyInv, KeyTypeOK
  <1>1. /\ store \in [Key -> KeyEntry]
        /\ \A e \in Key : NoLivelier(store[e], Stored(e))
        /\ store[k].status # "active"
    BY <1>0, RevokeEntry DEF KeyTypeOK, Stored
  <1>2. keyStore' = [keyStore EXCEPT ![keyMode] = store] BY <1>0 DEF KeyTypeOK
  <1> HIDE DEF store
  <1>3. /\ keyStore' \in [KeyMode -> [Key -> KeyEntry]]
        /\ keyStore'[keyMode] = store
        /\ \A m \in KeyMode \ {keyMode} : keyStore'[m] = keyStore[m]
        /\ \A m \in KeyMode, e \in Key : NoLivelier(keyStore'[m][e], keyStore[m][e])
    BY <1>1, <1>2, StoreChanged
  <1>4. /\ keyCall'[c] = IdleCall
        /\ \A d \in KeyCaller \ {c} : keyCall'[d] = keyCall[d]
        /\ \A d \in KeyCaller : keyCall'[d].step = "insert" => keyCall'[d] = keyCall[d]
    BY <1>0, Fields DEF KeyTypeOK
  <1>5. KeyTypeOK' BY <1>0, <1>3, Calls DEF KeyTypeOK
  <1>6. Unissued' \subseteq Unissued BY <1>4 DEF Unissued
  <1>7. ASSUME NEW e \in Dead' \ Dead
        PROVE  e \notin Unissued /\ \A m \in KeyMode : keyStore'[m][e].status # "active"
    <2>1. e = k /\ Stored(k).status # "none" BY <1>4, <1>7 DEF Dead
    <2>2. k \notin Unissued BY <2>1, OnRecord
    <2>3. \A m \in KeyMode \ {keyMode} : keyStore[m][k].status = "none" BY <2>1, OneEntry
    <2> QED BY <1>1, <1>3, <2>1, <2>2, <2>3
  <1>8. keyRevoked \subseteq keyRevoked' OBVIOUS
  <1>9. keysDrawn <= keysDrawn' BY <1>0, MaxKeysAssumption DEF KeyTypeOK
  <1>10. EntriesStep BY <1>3, <1>6, <1>7, <1>8, <1>9 DEF EntriesStep
  <1>11. FreshStep BY <1>4 DEF FreshStep
  <1>12. WaitInv(c)' /\ MemoryInv(c)' BY <1>4, IdleInOrder
  <1> QED BY <1>4, <1>5, <1>10, <1>11, <1>12, Acted
(* A key that is issued, by a caller that keeps its call in order.             *)
LEMMA IssueKeeps ==
  ASSUME KeyInv, NEW c \in KeyCaller, NEW x \in Key, NEW expires \in BOOLEAN,
         x \in Unissued, x \notin Unissued', Unissued' \subseteq Unissued,
         NEW store \in [Key -> KeyEntry], \A k \in Key : NoLivelier(store[k], Stored(k)),
         keyStore' = [keyStore EXCEPT ![keyMode] = Issue(store, x, expires)],
         keyCall' = [keyCall EXCEPT ![c] = IdleCall],
         keyRevoked' \subseteq Key, keyRevoked \subseteq keyRevoked',
         keyParent' \in [Key -> Key \cup {NoKey}],
         \A k \in Key : keyParent'[k] = keyParent[k] \/ keyParent'[k] \in keyRevoked',
         \A k \in keyRevoked' \ Dead : k \notin Unissued /\ Stored(k).status # "none"
                                       /\ store[k].status # "active",
         keysDrawn' \in 0 .. MaxKeys, keysDrawn <= keysDrawn',
         UNCHANGED <<keyMode, keyPast>>
  PROVE  KeyInv' /\ EntriesStep
  <1>0. KeyTypeOK /\ keyMode \in KeyMode BY DEF KeyInv, KeyTypeOK
  <1>1. /\ keyStore' \in [KeyMode -> [Key -> KeyEntry]]
        /\ keyStore'[keyMode] = Issue(store, x, expires)
        /\ \A m \in KeyMode \ {keyMode} : keyStore'[m] = keyStore[m]
        /\ \A m \in KeyMode, k \in Key :
              \/ k \in Unissued \ Unissued' /\ m = keyMode
              \/ NoLivelier(keyStore'[m][k], keyStore[m][k])
    BY IssueEntry
  <1>2. /\ keyCall'[c] = IdleCall
        /\ \A d \in KeyCaller \ {c} : keyCall'[d] = keyCall[d]
        /\ \A d \in KeyCaller : keyCall'[d].step = "insert" => keyCall'[d] = keyCall[d]
    BY <1>0, Fields DEF KeyTypeOK
  <1>3. KeyTypeOK' BY <1>0, <1>1, Calls DEF KeyTypeOK
  <1>4. ASSUME NEW k \in Dead' \ Dead
        PROVE  k \notin Unissued /\ \A m \in KeyMode : keyStore'[m][k].status # "active"
    <2>1. k \in keyRevoked' \ Dead BY <1>2, <1>4 DEF Dead
    <2>2. k \in Key /\ k # x /\ Stored(k).status # "none" BY <2>1
    <2>3. \A m \in KeyMode \ {keyMode} : keyStore[m][k].status = "none" BY <2>2, OneEntry
    <2>4. Issue(store, x, expires)[k].status # "active" BY <2>1, <2>2 DEF Issue
    <2> QED BY <1>1, <2>1, <2>3, <2>4
  <1>5. EntriesStep BY <1>1, <1>4 DEF EntriesStep
  <1>6. FreshStep BY <1>2 DEF FreshStep
  <1>7. WaitInv(c)' /\ MemoryInv(c)' BY <1>2, IdleInOrder
  <1> QED BY <1>2, <1>3, <1>5, <1>6, <1>7, Acted

(* The key drawn next is not issued yet, and nobody inserts it.                *)
LEMMA NextKey ==
  ASSUME KeyInv, keysDrawn < MaxKeys
  PROVE  /\ keysDrawn \in Nat
         /\ keysDrawn + 1 \in Key /\ keysDrawn + 1 \in Unissued
         /\ keysDrawn + 1 \in 0 .. MaxKeys /\ keysDrawn <= keysDrawn + 1
         /\ \A c \in KeyCaller :
              keyCall[c].step = "insert" => keyCall[c].fresh \in 1 .. keysDrawn
  <1>1. keysDrawn \in Nat /\ keysDrawn + 1 \in Key
    BY MaxKeysAssumption DEF KeyInv, KeyTypeOK, Key
  <1>2. ASSUME NEW c \in KeyCaller, keyCall[c].step = "insert"
        PROVE  keyCall[c].fresh \in 1 .. keysDrawn
    <2>1. keyCall[c].fresh \in Key \cup {NoKey} BY DEF KeyInv, KeyTypeOK, KeyCallRecord
    <2>2. keyCall[c].fresh # NoKey /\ keyCall[c].fresh <= keysDrawn
      BY <1>2 DEF KeyInv, CallsInv, WaitInv
    <2> QED BY <1>1, <2>1, <2>2, Keys
  <1>3. keysDrawn + 1 \in Unissued BY <1>1 DEF Unissued
  <1> QED BY <1>1, <1>2, <1>3, MaxKeysAssumption

(* generateApiKey: the new key is issued at once, or its INSERT is sent.       *)
LEMMA GenerateKeyKeeps ==
  ASSUME KeyInv, NEW c \in KeyCaller, NEW expires \in BOOLEAN, GenerateKey(c, expires)
  PROVE  KeyInv' /\ EntriesStep
  <1> DEFINE x == keysDrawn + 1
             q == [KeyWaits("insert", <<>>) EXCEPT !.fresh = x, !.expires = expires]
  <1>0. KeyTypeOK /\ keyMode \in KeyMode BY DEF KeyInv, KeyTypeOK
  <1>1. /\ KeyFree(c) /\ keysDrawn < MaxKeys /\ keysDrawn' = x
        /\ UNCHANGED <<keyMode, keyPast, keyRevoked, keyParent>>
    BY DEF GenerateKey
  <1>2. /\ keysDrawn \in Nat
        /\ x \in Key /\ x \in Unissued /\ x \in 0 .. MaxKeys /\ keysDrawn <= x
        /\ \A d \in KeyCaller :
             keyCall[d].step = "insert" => keyCall[d].fresh \in 1 .. keysDrawn
    BY <1>1, NextKey
  <1>3. CASE keyMode # "mysql"
    <2>1. /\ keyCall' = [keyCall EXCEPT ![c] = IdleCall]
          /\ keyStore' = [keyStore EXCEPT ![keyMode] = Issue(keyStore[keyMode], x, expires)]
      BY <1>0, <1>3 DEF GenerateKey, KeyTypeOK
    <2>2. \A d \in KeyCaller : keyCall'[d].step = "insert" => keyCall'[d] = keyCall[d]
      BY <1>0, <2>1, Fields DEF KeyTypeOK
    <2>3. Unissued' \subseteq Unissued BY <1>1, <1>2, <2>2, Keys DEF Unissued
    <2>4. x \notin Unissued' BY <1>1, <1>2, <2>2 DEF Unissued
    <2>5. /\ keyStore[keyMode] \in [Key -> KeyEntry]
          /\ \A k \in Key : NoLivelier(keyStore[keyMode][k], Stored(k))
      BY <1>0 DEF KeyTypeOK, NoLivelier, Stored
    <2>6. /\ keyRevoked' \subseteq Key /\ keyRevoked \subseteq keyRevoked'
          /\ keyRevoked' \subseteq Dead
          /\ keyParent' \in [Key -> Key \cup {NoKey}]
      BY <1>0, <1>1 DEF KeyTypeOK, Dead
    <2> HIDE DEF x
    <2> QED BY <1>1, <1>2, <2>1, <2>3, <2>4, <2>5, <2>6, IssueKeeps
  <1>4. CASE keyMode = "mysql"
    <2>1. keyCall' = [keyCall EXCEPT ![c] = q] /\ UNCHANGED keyStore
      BY <1>4 DEF GenerateKey
    <2>2. KeyWaits("insert", <<>>) \in KeyCallRecord BY <1>0, Calls, EmptySeq DEF KeyStep
    <2>3. /\ q \in KeyCallRecord
          /\ q.step = "insert" /\ q.keys = <<>> /\ q.fresh = x
          /\ q.live = {} /\ q.gone = {} /\ q.past = {}
      <3> DEFINE w == KeyWaits("insert", <<>>)
      <3>1. w \in KeyCallRecord BY <2>2
      <3>2. w.step = "insert" /\ w.keys = <<>> /\ w.live = {} /\ w.gone = {} /\ w.past = {}
        BY Fields
      <3>3. q = [w EXCEPT !.fresh = x, !.expires = expires] OBVIOUS
      <3> HIDE DEF w, q, x
      <3> QED BY <1>2, <3>1, <3>2, <3>3 DEF KeyCallRecord
    <2> HIDE DEF q
    <2>4. keyCall'[c] = q /\ \A d \in KeyCaller \ {c} : keyCall'[d] = keyCall[d]
      BY <1>0, <2>1 DEF KeyTypeOK
    <2>5. KeyTypeOK' BY <1>0, <1>1, <1>2, <2>1, <2>3 DEF KeyTypeOK
    <2>6. Unissued' \subseteq Unissued
      <3>1. ASSUME NEW k \in Key, NEW d \in KeyCaller,
                   keyCall'[d].step = "insert", keyCall'[d].fresh = k
            PROVE  k \in Unissued
        BY <1>2, <2>3, <2>4, <3>1 DEF Unissued
      <3>2. \A k \in Key : k > keysDrawn' => k > keysDrawn BY <1>1, <1>2, Keys
      <3> QED BY <3>1, <3>2 DEF Unissued
    <2>7. Dead' \subseteq Dead
      <3>1. ToSet(q.keys) = {} BY <1>2, <2>3, FewKeys
      <3> QED BY <1>1, <2>4, <3>1 DEF Dead
    <2>8. EntriesStep BY <1>1, <1>2, <2>1, <2>6, <2>7 DEF EntriesStep, NoLivelier
    <2>9. FreshStep BY <1>2, <2>3, <2>4 DEF FreshStep
    <2>10. WaitInv(c)'
      <3>1. x # NoKey /\ x <= keysDrawn' BY <1>1, <1>2, Keys
      <3>2. ASSUME NEW d \in KeyCaller, keyCall'[d].step = "insert", keyCall'[d].fresh = x
            PROVE  d = c
        BY <1>2, <2>4, <3>2
      <3> QED BY <1>1, <1>4, <2>3, <2>4, <3>1, <3>2 DEF WaitInv
    <2>11. MemoryInv(c)' BY <2>3, <2>4, Forgets
    <2> QED BY <1>1, <2>4, <2>5, <2>8, <2>9, <2>10, <2>11, Acted
  <1> QED BY <1>3, <1>4

(* The INSERT is carried out, for a new key or for the successor of one.       *)
LEMMA InsertKeyKeeps ==
  ASSUME KeyInv, NEW c \in KeyCaller, InsertKey(c)
  PROVE  KeyInv' /\ EntriesStep
  <1> DEFINE call == keyCall[c]
             x == call.fresh
  <1>0. KeyTypeOK /\ keyMode \in KeyMode BY DEF KeyInv, KeyTypeOK
  <1>1. /\ call \in KeyCallRecord /\ call.step = "insert" /\ WaitInv(c)
        /\ keyRevoked' = keyRevoked \cup ToSet(call.keys)
        /\ keyParent' = IF call.keys = <<>> THEN keyParent
                        ELSE [keyParent EXCEPT ![x] = Head(call.keys)]
        /\ keyCall' = [keyCall EXCEPT ![c] = IdleCall]
        /\ UNCHANGED <<keyMode, keysDrawn, keyPast>>
    BY DEF KeyInv, KeyTypeOK, CallsInv, InsertKey
  <1>2. x \in Key /\ call.expires \in BOOLEAN /\ call.keys \in Seq(Key)
    BY <1>1 DEF WaitInv, KeyCallRecord
  <1>3. keyStore' = [keyStore EXCEPT ![keyMode] = Issue(keyStore[keyMode], x, call.expires)]
    BY <1>0 DEF InsertKey, KeyTypeOK
  <1>4. \A d \in KeyCaller : keyCall'[d].step = "insert" => d # c /\ keyCall'[d] = keyCall[d]
    BY <1>0, <1>1, Fields DEF KeyTypeOK
  <1>5. Unissued' \subseteq Unissued BY <1>1, <1>4 DEF Unissued
  <1>6. x \in Unissued BY <1>1, <1>2 DEF Unissued
  <1>7. x \notin Unissued'
    <2>1. ~(x > keysDrawn) BY <1>0, <1>1, <1>2, Keys, MaxKeysAssumption DEF WaitInv, KeyTypeOK
    <2>2. \A d \in KeyCaller : keyCall'[d].step = "insert" => keyCall'[d].fresh # x
      BY <1>1, <1>4 DEF WaitInv
    <2> QED BY <1>1, <2>1, <2>2 DEF Unissued
  <1>8. /\ keyStore[keyMode] \in [Key -> KeyEntry]
        /\ \A k \in Key : NoLivelier(keyStore[keyMode][k], Stored(k))
    BY <1>0 DEF KeyTypeOK, NoLivelier, Stored
  <1>9. ToSet(call.keys) \subseteq Key BY <1>2 DEF ToSet
  <1>10. /\ keyRevoked' \subseteq Key /\ keyRevoked \subseteq keyRevoked'
         /\ keyRevoked' \subseteq Dead
    BY <1>0, <1>1, <1>9 DEF KeyTypeOK, Dead
  <1>11. /\ keyParent' \in [Key -> Key \cup {NoKey}]
         /\ \A k \in Key : keyParent'[k] = keyParent[k] \/ keyParent'[k] \in keyRevoked'
    <2>1. CASE call.keys = <<>> BY <1>0, <1>1, <2>1 DEF KeyTypeOK
    <2>2. CASE call.keys # <<>>
      <3>1. Head(call.keys) \in Key /\ Head(call.keys) \in ToSet(call.keys)
        BY <1>2, <2>2, HeadTail
      <3> QED BY <1>0, <1>1, <2>2, <3>1 DEF KeyTypeOK
    <2> QED BY <2>1, <2>2
  <1>12. keysDrawn' \in 0 .. MaxKeys /\ keysDrawn <= keysDrawn'
    BY <1>0, <1>1, MaxKeysAssumption DEF KeyTypeOK
  <1> HIDE DEF x
  <1> QED BY <1>1, <1>2, <1>3, <1>5, <1>6, <1>7, <1>8, <1>10, <1>11, <1>12, IssueKeeps
(* A call that manages a key begins to wait.                                   *)
LEMMA WaitingKeeps ==
  ASSUME KeyInv, NEW c \in KeyCaller, NEW k \in Key, NEW step \in {"revoke", "old"},
         keyMode = "mysql", keyCall' = [keyCall EXCEPT ![c] = KeyWaits(step, <<k>>)],
         UNCHANGED <<keyMode, keyStore, keysDrawn, keyPast, keyRevoked, keyParent>>
  PROVE  KeyInv' /\ EntriesStep
  <1> DEFINE q == KeyWaits(step, <<k>>)
  <1>1. q \in KeyCallRecord BY Calls, FewKeys DEF KeyInv, KeyStep
  <1>2. /\ q.step = step /\ q.keys = <<k>>
        /\ q.live = {} /\ q.gone = {} /\ q.past = {}
    BY Fields
  <1> HIDE DEF q
  <1>3. keyCall' = [keyCall EXCEPT ![c] = q] BY DEF q
  <1>4. /\ KeyTypeOK' /\ EntriesStep /\ FreshStep
        /\ keyCall'[c] = q
        /\ \A d \in KeyCaller \ {c} : keyCall'[d] = keyCall[d]
    BY <1>1, <1>2, <1>3, CallOnly
  <1>5. WaitInv(c)' BY <1>2, <1>4 DEF WaitInv
  <1>6. MemoryInv(c)' BY <1>2, <1>4, Forgets
  <1> QED BY <1>4, <1>5, <1>6, Acted

(* A call ends without an effect.                                              *)
LEMMA EndKeeps ==
  ASSUME KeyInv, NEW c \in KeyCaller, keyCall' = [keyCall EXCEPT ![c] = IdleCall],
         UNCHANGED <<keyMode, keyStore, keysDrawn, keyPast, keyRevoked, keyParent>>
  PROVE  KeyInv' /\ EntriesStep
  <1>1. IdleCall \in KeyCallRecord /\ IdleCall.step # "insert" BY Calls, Fields DEF KeyInv
  <1>2. /\ KeyTypeOK' /\ EntriesStep /\ FreshStep
        /\ keyCall'[c] = IdleCall
        /\ \A d \in KeyCaller \ {c} : keyCall'[d] = keyCall[d]
    BY <1>1, CallOnly
  <1>3. WaitInv(c)' /\ MemoryInv(c)' BY <1>2, IdleInOrder
  <1> QED BY <1>2, <1>3, Acted

(* revokeApiKey, with either kind of store.                                    *)
LEMMA RevokeKeyKeeps ==
  ASSUME KeyInv, NEW c \in KeyCaller, NEW k \in Key, RevokeKey(c, k)
  PROVE  KeyInv' /\ EntriesStep
  <1>1. CASE keyMode = "mysql"
    BY <1>1, WaitingKeeps DEF RevokeKey
  <1>2. CASE keyMode # "mysql"
    BY <1>2, RevocationKeeps DEF RevokeKey
  <1> QED BY <1>1, <1>2

(* Its UPDATE is carried out.                                                  *)
LEMMA UpdateRevokedKeeps ==
  ASSUME KeyInv, NEW c \in KeyCaller, UpdateRevoked(c)
  PROVE  KeyInv' /\ EntriesStep
  <1>1. PICK k \in Key : keyCall[c].keys = <<k>>
    BY DEF UpdateRevoked, KeyInv, CallsInv, WaitInv
  <1>2. Head(keyCall[c].keys) = k BY <1>1
  <1> QED BY <1>2, RevocationKeeps DEF UpdateRevoked

(* rotateApiKey in memory: both halves in one turn.                            *)
LEMMA RotateKeyKeeps ==
  ASSUME KeyInv, NEW c \in KeyCaller, NEW k \in Key, RotateKey(c, k)
  PROVE  KeyInv' /\ EntriesStep
  <1> DEFINE x == keysDrawn + 1
             store == Revoke(keyStore[keyMode], k)
  <1>0. KeyTypeOK /\ keyMode \in KeyMode BY DEF KeyInv, KeyTypeOK
  <1>1. CASE keyMode = "mysql"
    BY <1>1, WaitingKeeps DEF RotateKey
  <1>2. CASE keyMode # "mysql"
    <2>1. /\ Stored(k).status # "none"
          /\ keysDrawn < MaxKeys /\ keysDrawn' = x
          /\ keyStore' = [keyStore EXCEPT ![keyMode] = Issue(store, x, FALSE)]
          /\ keyParent' = [keyParent EXCEPT ![x] = k]
          /\ keyRevoked' = keyRevoked \cup {k}
          /\ keyCall' = [keyCall EXCEPT ![c] = IdleCall]
          /\ UNCHANGED <<keyMode, keyPast>>
      BY <1>0, <1>2 DEF RotateKey, KeyTypeOK
    <2>2. /\ keysDrawn \in Nat
          /\ x \in Key /\ x \in Unissued /\ x \in 0 .. MaxKeys /\ keysDrawn <= x
          /\ \A d \in KeyCaller :
               keyCall[d].step = "insert" => keyCall[d].fresh \in 1 .. keysDrawn
      BY <2>1, NextKey
    <2>3. /\ store \in [Key -> KeyEntry]
          /\ \A e \in Key : NoLivelier(store[e], Stored(e))
          /\ store[k].status # "active"
      BY <1>0, RevokeEntry DEF KeyTypeOK, Stored
    <2>4. \A d \in KeyCaller : keyCall'[d].step = "insert" => keyCall'[d] = keyCall[d]
      BY <1>0, <2>1, Fields DEF KeyTypeOK
    <2>5. Unissued' \subseteq Unissued BY <2>1, <2>2, <2>4, Keys DEF Unissued
    <2>6. x \notin Unissued' BY <2>1, <2>2, <2>4 DEF Unissued
    <2>7. k \notin Unissued BY <2>1, OnRecord
    <2>8. /\ keyRevoked' \subseteq Key /\ keyRevoked \subseteq keyRevoked'
          /\ \A e \in keyRevoked' \ Dead : e = k
      BY <1>0, <2>1 DEF KeyTypeOK, Dead
    <2>9. /\ keyParent' \in [Key -> Key \cup {NoKey}]
          /\ \A e \in Key : keyParent'[e] = keyParent[e] \/ keyParent'[e] \in keyRevoked'
      BY <1>0, <2>1, <2>2 DEF KeyTypeOK
    <2>10. \A e \in keyRevoked' \ Dead : /\ e \notin Unissued /\ Stored(e).status # "none"
                                        /\ store[e].status # "active"
      BY <2>1, <2>3, <2>7, <2>8
    <2>11. keysDrawn' \in 0 .. MaxKeys /\ keysDrawn <= keysDrawn' /\ FALSE \in BOOLEAN
      BY <2>1, <2>2
    <2> HIDE DEF x, store
    <2> QED BY <2>1, <2>2, <2>3, <2>5, <2>6, <2>8, <2>9, <2>10, <2>11, IssueKeeps
  <1> QED BY <1>1, <1>2

(* The row of the old key arrives; without one the call ends.                  *)
LEMMA SelectOldKeeps ==
  ASSUME KeyInv, NEW c \in KeyCaller, SelectOld(c)
  PROVE  KeyInv' /\ EntriesStep
  <1> DEFINE call == keyCall[c]
             q == [call EXCEPT !.step = "retire"]
  <1>1. /\ call \in KeyCallRecord /\ call.step = "old"
        /\ WaitInv(c) /\ MemoryInv(c)
        /\ UNCHANGED <<keyMode, keyStore, keysDrawn, keyPast, keyRevoked, keyParent>>
    BY DEF KeyInv, KeyTypeOK, CallsInv, SelectOld
  <1>2. PICK k \in Key : call.keys = <<k>> BY <1>1 DEF WaitInv
  <1>3. Head(call.keys) = k /\ keyMode = "mysql" BY <1>1, <1>2 DEF WaitInv
  <1>4. CASE Stored(k).status = "none"
    BY <1>1, <1>3, <1>4, EndKeeps DEF SelectOld
  <1>5. CASE Stored(k).status # "none"
    <2>1. keyCall' = [keyCall EXCEPT ![c] = q] BY <1>3, <1>5 DEF SelectOld
    <2>2. /\ q \in KeyCallRecord /\ q.step = "retire" /\ q.keys = call.keys
          /\ q.live = call.live /\ q.gone = call.gone /\ q.past = call.past
      BY <1>1 DEF KeyCallRecord, KeyStep
    <2> HIDE DEF q
    <2>3. /\ KeyTypeOK' /\ EntriesStep /\ FreshStep
          /\ keyCall'[c] = q
          /\ \A d \in KeyCaller \ {c} : keyCall'[d] = keyCall[d]
          /\ Unissued' \subseteq Unissued
      BY <1>1, <2>1, <2>2, CallOnly
    <2>4. k \notin Unissued' BY <1>5, <2>3, OnRecord
    <2>5. WaitInv(c)' BY <1>1, <1>2, <1>3, <2>2, <2>3, <2>4 DEF WaitInv
    <2>6. MemoryInv(c)' BY <1>1, <2>2, <2>3 DEF MemoryInv
    <2> QED BY <1>1, <2>3, <2>5, <2>6, Acted
  <1> QED BY <1>4, <1>5

(* The old key is revoked, and the new one drawn.                              *)
LEMMA RetireKeeps ==
  ASSUME KeyInv, NEW c \in KeyCaller, Retire(c)
  PROVE  KeyInv' /\ EntriesStep
  <1> DEFINE call == keyCall[c]
             x == keysDrawn + 1
             q == [call EXCEPT !.step = "insert", !.fresh = x]
  <1>0. KeyTypeOK /\ keyMode \in KeyMode BY DEF KeyInv, KeyTypeOK
  <1>1. /\ call \in KeyCallRecord /\ call.step = "retire"
        /\ WaitInv(c) /\ MemoryInv(c)
        /\ keysDrawn < MaxKeys /\ keysDrawn' = x
        /\ UNCHANGED <<keyMode, keyPast, keyRevoked, keyParent>>
    BY <1>0 DEF KeyInv, KeyTypeOK, CallsInv, Retire
  <1>2. PICK k \in Key : call.keys = <<k>> BY <1>1 DEF WaitInv
  <1>3. /\ Head(call.keys) = k /\ ToSet(call.keys) = {k}
        /\ k \notin Unissued /\ keyMode = "mysql"
    <2>1. Head(call.keys) = k /\ ToSet(call.keys) = {k} BY <1>2, FewKeys
    <2> QED BY <1>1, <2>1 DEF WaitInv
  <1>4. /\ keysDrawn \in Nat
        /\ x \in Key /\ x \in Unissued /\ x \in 0 .. MaxKeys /\ keysDrawn <= x
        /\ \A d \in KeyCaller :
             keyCall[d].step = "insert" => keyCall[d].fresh \in 1 .. keysDrawn
    BY <1>1, NextKey
  <1>5. /\ q \in KeyCallRecord
        /\ q.step = "insert" /\ q.keys = call.keys /\ q.fresh = x
        /\ q.live = call.live /\ q.gone = call.gone /\ q.past = call.past
    <2> HIDE DEF x
    <2> QED BY <1>1, <1>4 DEF KeyCallRecord, KeyStep
  <1>6. keyCall' = [keyCall EXCEPT ![c] = q] BY <1>0 DEF Retire, KeyTypeOK
  <1> HIDE DEF q
  <1>7. keyCall'[c] = q /\ \A d \in KeyCaller \ {c} : keyCall'[d] = keyCall[d]
    BY <1>0, <1>6 DEF KeyTypeOK
  <1> DEFINE store == Revoke(keyStore[keyMode], k)
  <1>8. /\ store \in [Key -> KeyEntry]
        /\ \A e \in Key : NoLivelier(store[e], Stored(e))
        /\ store[k].status # "active"
    BY <1>0, RevokeEntry DEF KeyTypeOK, Stored
  <1>9. keyStore' = [keyStore EXCEPT ![keyMode] = store]
    BY <1>0, <1>3 DEF Retire, KeyTypeOK
  <1> HIDE DEF store
  <1>10. /\ keyStore' \in [KeyMode -> [Key -> KeyEntry]]
         /\ keyStore'[keyMode] = store
         /\ \A m \in KeyMode \ {keyMode} : keyStore'[m] = keyStore[m]
         /\ \A m \in KeyMode, e \in Key : NoLivelier(keyStore'[m][e], keyStore[m][e])
    BY <1>8, <1>9, StoreChanged
  <1>11. KeyTypeOK' BY <1>0, <1>1, <1>4, <1>5, <1>6, <1>10 DEF KeyTypeOK
  <1>12. Unissued' \subseteq Unissued
    <2>1. ASSUME NEW e \in Key, NEW d \in KeyCaller,
                 keyCall'[d].step = "insert", keyCall'[d].fresh = e
          PROVE  e \in Unissued
      BY <1>4, <1>5, <1>7, <2>1 DEF Unissued
    <2>2. \A e \in Key : e > keysDrawn' => e > keysDrawn BY <1>1, <1>4, Keys
    <2> QED BY <2>1, <2>2 DEF Unissued
  <1>13. ASSUME NEW e \in Dead' \ Dead
         PROVE  e \notin Unissued /\ \A m \in KeyMode : keyStore'[m][e].status # "active"
    <2>1. e = k BY <1>1, <1>3, <1>5, <1>7, <1>13 DEF Dead
    <2>2. \A m \in KeyMode \ {keyMode} : keyStore[m][k].status = "none" BY <1>3, OneEntry
    <2> QED BY <1>3, <1>8, <1>10, <2>1, <2>2
  <1>14. EntriesStep BY <1>1, <1>4, <1>10, <1>12, <1>13 DEF EntriesStep
  <1>15. FreshStep BY <1>4, <1>5, <1>7 DEF FreshStep
  <1>16. WaitInv(c)'
    <2>1. x # NoKey /\ x <= keysDrawn' BY <1>1, <1>4, Keys
    <2>2. ASSUME NEW d \in KeyCaller, keyCall'[d].step = "insert", keyCall'[d].fresh = x
          PROVE  d = c
      BY <1>4, <1>7, <2>2
    <2> QED BY <1>1, <1>3, <1>5, <1>7, <2>1, <2>2 DEF WaitInv
  <1>17. MemoryInv(c)' BY <1>1, <1>5, <1>7, <1>12 DEF MemoryInv
  <1> QED BY <1>1, <1>7, <1>11, <1>14, <1>15, <1>16, <1>17, Acted
(* cleanExpiredKeys: some entries go.                                          *)
LEMMA CleanKeysKeeps ==
  ASSUME KeyInv, NEW old \in SUBSET Key, CleanKeys(old)
  PROVE  KeyInv' /\ EntriesStep
  <1>0. KeyTypeOK /\ keyMode \in KeyMode BY DEF KeyInv, KeyTypeOK
  <1>1. PICK gone :
           keyStore' = [keyStore EXCEPT ![keyMode] =
                          [k \in Key |-> IF k \in gone THEN NoEntry ELSE @[k]]]
    BY DEF CleanKeys
  <1> DEFINE store == [k \in Key |-> IF k \in gone THEN NoEntry ELSE keyStore[keyMode][k]]
  <1>2. UNCHANGED <<keyMode, keysDrawn, keyPast, keyCall, keyRevoked, keyParent>>
    BY DEF CleanKeys
  <1>3. keyStore' = [keyStore EXCEPT ![keyMode] = store] BY <1>0, <1>1 DEF KeyTypeOK
  <1>4. /\ store \in [Key -> KeyEntry]
        /\ \A k \in Key : NoLivelier(store[k], Stored(k))
    BY <1>0, Calls DEF KeyTypeOK, NoLivelier, Stored, NoEntry
  <1> HIDE DEF store
  <1>5. /\ keyStore' \in [KeyMode -> [Key -> KeyEntry]]
        /\ \A m \in KeyMode, k \in Key : NoLivelier(keyStore'[m][k], keyStore[m][k])
    BY <1>3, <1>4, StoreChanged
  <1>6. KeyTypeOK' BY <1>0, <1>2, <1>5 DEF KeyTypeOK
  <1>7. Unissued' = Unissued /\ Dead' = Dead BY <1>2 DEF Unissued, Dead
  <1>8. keysDrawn <= keysDrawn' BY <1>0, <1>2, MaxKeysAssumption DEF KeyTypeOK
  <1>9. EntriesStep BY <1>2, <1>5, <1>7, <1>8 DEF EntriesStep
  <1> QED BY <1>2, <1>6, <1>9, Nobody

(* A date of expiry passes.                                                    *)
LEMMA PassExpiryKeeps ==
  ASSUME KeyInv, NEW k \in Key, PassExpiry(k)
  PROVE  KeyInv' /\ EntriesStep
  <1>0. KeyTypeOK /\ keyMode \in KeyMode BY DEF KeyInv, KeyTypeOK
  <1>1. /\ Stored(k).status # "none" /\ Stored(k).expires /\ keyPast' = keyPast \cup {k}
        /\ UNCHANGED <<keyMode, keyStore, keysDrawn, keyCall, keyRevoked, keyParent>>
    BY DEF PassExpiry
  <1>2. KeyTypeOK' BY <1>0, <1>1 DEF KeyTypeOK
  <1>3. Unissued' = Unissued /\ Dead' = Dead BY <1>1 DEF Unissued, Dead
  <1>4. \A m \in KeyMode \ {keyMode} : keyStore[m][k].status = "none" BY <1>1, OneEntry
  <1>5. k \notin Unissued BY <1>1, OnRecord
  <1>6. \A m \in KeyMode : keyStore'[m][k].status = "active" => keyStore'[m][k].expires
    BY <1>1, <1>4 DEF Stored
  <1>7. keysDrawn <= keysDrawn' BY <1>0, <1>1, MaxKeysAssumption DEF KeyTypeOK
  <1>8. EntriesStep BY <1>1, <1>3, <1>5, <1>6, <1>7 DEF EntriesStep, NoLivelier
  <1> QED BY <1>1, <1>2, <1>8, Nobody

(* A restart, with or without a database: every call is lost, and the map.     *)
LEMMA KeyRestartKeeps ==
  ASSUME KeyInv, NEW mode \in KeyMode, KeyRestart(mode)
  PROVE  KeyInv' /\ EntriesStep
  <1>0. KeyTypeOK BY DEF KeyInv
  <1>1. /\ keyMode' = mode
        /\ keyCall' = [c \in KeyCaller |-> IdleCall]
        /\ UNCHANGED <<keysDrawn, keyPast, keyRevoked, keyParent>>
    BY DEF KeyRestart
  <1>2. /\ keyStore' \in [KeyMode -> [Key -> KeyEntry]]
        /\ \A k \in Key : keyStore'["memory"][k].status = "none"
        /\ \A m \in KeyMode, k \in Key : NoLivelier(keyStore'[m][k], keyStore[m][k])
    <2>1. /\ keyStore'["memory"] = [k \in Key |-> NoEntry]
          /\ keyStore'["mysql"] = keyStore["mysql"]
          /\ keyStore' \in [KeyMode -> [Key -> KeyEntry]]
      BY <1>0, Calls DEF KeyRestart, KeyTypeOK, KeyMode
    <2> QED BY <2>1 DEF NoEntry, NoLivelier, KeyMode
  <1>3. KeyTypeOK' BY <1>0, <1>1, <1>2, Calls DEF KeyTypeOK
  <1>4. \A c \in KeyCaller : keyCall'[c] = IdleCall /\ keyCall'[c].step = "idle"
    BY <1>1, Fields
  <1>5. Unissued' \subseteq Unissued BY <1>1, <1>4 DEF Unissued
  <1>6. Dead' \subseteq Dead BY <1>1, <1>4 DEF Dead
  <1>7. keysDrawn <= keysDrawn' BY <1>0, <1>1, MaxKeysAssumption DEF KeyTypeOK
  <1>8. EntriesStep BY <1>1, <1>2, <1>5, <1>6, <1>7 DEF EntriesStep
  <1>9. EntriesInv' BY <1>2, <1>3, <1>8, EntriesKept
  <1>10. CallsInv' BY <1>4, IdleInOrder DEF CallsInv
  <1> QED BY <1>3, <1>8, <1>9, <1>10 DEF KeyInv

-----------------------------------------------------------------------------
(* The invariant holds at the start.                                           *)
LEMMA KeyInvInit == KeyInit => KeyInv
  <1> SUFFICES ASSUME KeyInit PROVE KeyInv OBVIOUS
  <1>1. NoEntry \in KeyEntry /\ NoEntry.status = "none" BY DEF NoEntry, KeyEntry
  <1>2. IdleCall \in KeyCallRecord
    BY <1>1, EmptySeq DEF IdleCall, KeyCallRecord, KeyStep
  <1>3. KeyTypeOK BY <1>1, <1>2, MaxKeysAssumption DEF KeyInit, KeyTypeOK, KeyMode
  <1>4. \A c \in KeyCaller : keyCall[c] = IdleCall BY DEF KeyInit
  <1>5. CallsInv BY <1>4, Fields DEF CallsInv, WaitInv, MemoryInv
  <1>6. Dead = {} BY <1>4, Fields DEF KeyInit, Dead
  <1>7. \A m \in KeyMode, k \in Key : keyStore[m][k].status = "none"
    BY <1>1 DEF KeyInit
  <1>8. keyPast = {} /\ \A k \in Key : keyParent[k] = NoKey BY DEF KeyInit
  <1>9. "memory" \in KeyMode BY DEF KeyMode
  <1>10. Unissued \subseteq Key BY DEF Unissued
  <1>11. EntriesInv BY <1>6, <1>7, <1>8, <1>9, <1>10 DEF EntriesInv
  <1> QED BY <1>3, <1>5, <1>11 DEF KeyInv

(* Every step keeps it, and is one that the entries allow.                     *)
LEMMA KeyInvNext == KeyInv /\ [KeyNext]_keyVars => KeyInv' /\ EntriesStep
  <1> SUFFICES ASSUME KeyInv, [KeyNext]_keyVars PROVE KeyInv' /\ EntriesStep OBVIOUS
  <1>0. \A c : c \in KeyClient \/ c \in KeyAdmin => c \in KeyCaller BY DEF KeyCaller
  <1>1. ASSUME NEW c \in KeyClient, NEW i \in Key, Authenticate(c, <<i>>)
        PROVE  KeyInv' /\ EntriesStep
    BY <1>0, <1>1, FewKeys, AuthenticateKeeps
  <1>2. ASSUME NEW c \in KeyClient, NEW i \in Key, NEW j \in Key, Authenticate(c, <<i, j>>)
        PROVE  KeyInv' /\ EntriesStep
    <2>1. <<i, j>> \in Seq(Key) /\ <<i, j>> # <<>> OBVIOUS
    <2> QED BY <1>0, <1>2, <2>1, AuthenticateKeeps
  <1>3. ASSUME NEW c \in KeyClient, SelectKey(c) PROVE KeyInv' /\ EntriesStep
    BY <1>0, <1>3, SelectKeyKeeps
  <1>4. ASSUME NEW c \in KeyClient, CheckKey(c) PROVE KeyInv' /\ EntriesStep
    BY <1>0, <1>4, CheckKeyKeeps
  <1>5. ASSUME NEW c \in KeyAdmin, NEW expires \in BOOLEAN, GenerateKey(c, expires)
        PROVE  KeyInv' /\ EntriesStep
    BY <1>0, <1>5, GenerateKeyKeeps
  <1>6. ASSUME NEW c \in KeyAdmin, InsertKey(c) PROVE KeyInv' /\ EntriesStep
    BY <1>0, <1>6, InsertKeyKeeps
  <1>7. ASSUME NEW c \in KeyAdmin, NEW k \in Key, RevokeKey(c, k) PROVE KeyInv' /\ EntriesStep
    BY <1>0, <1>7, RevokeKeyKeeps
  <1>8. ASSUME NEW c \in KeyAdmin, NEW k \in Key, RotateKey(c, k) PROVE KeyInv' /\ EntriesStep
    BY <1>0, <1>8, RotateKeyKeeps
  <1>9. ASSUME NEW c \in KeyAdmin, UpdateRevoked(c) PROVE KeyInv' /\ EntriesStep
    BY <1>0, <1>9, UpdateRevokedKeeps
  <1>10. ASSUME NEW c \in KeyAdmin, SelectOld(c) PROVE KeyInv' /\ EntriesStep
    BY <1>0, <1>10, SelectOldKeeps
  <1>11. ASSUME NEW c \in KeyAdmin, Retire(c) PROVE KeyInv' /\ EntriesStep
    BY <1>0, <1>11, RetireKeeps
  <1>12. ASSUME NEW c \in KeyCaller, KeyStatementFails(c) PROVE KeyInv' /\ EntriesStep
    BY <1>12, EndKeeps DEF KeyStatementFails
  <1>13. ASSUME NEW old \in SUBSET Key, CleanKeys(old) PROVE KeyInv' /\ EntriesStep
    BY <1>13, CleanKeysKeeps
  <1>14. ASSUME NEW k \in Key, PassExpiry(k) PROVE KeyInv' /\ EntriesStep
    BY <1>14, PassExpiryKeeps
  <1>15. ASSUME NEW mode \in KeyMode, KeyRestart(mode) PROVE KeyInv' /\ EntriesStep
    BY <1>15, KeyRestartKeeps
  <1>16. CASE UNCHANGED keyVars
    <2>1. KeyTypeOK' BY <1>16 DEF KeyInv, KeyTypeOK, keyVars
    <2>2. Unissued' = Unissued /\ Dead' = Dead BY <1>16 DEF Unissued, Dead, keyVars
    <2>3. keysDrawn <= keysDrawn' BY <1>16, MaxKeysAssumption DEF KeyInv, KeyTypeOK, keyVars
    <2>4. EntriesStep BY <1>16, <2>2, <2>3 DEF EntriesStep, NoLivelier, keyVars
    <2> QED BY <1>16, <2>1, <2>4, Nobody DEF keyVars
  <1> QED BY <1>1, <1>2, <1>3, <1>4, <1>5, <1>6, <1>7, <1>8, <1>9, <1>10, <1>11, <1>12, <1>13,
             <1>14, <1>15, <1>16 DEF KeyNext

(* It therefore always holds.                                                  *)
LEMMA KeyInvAlways == KeySpec => []KeyInv
  BY KeyInvInit, KeyInvNext, PTL DEF KeySpec

-----------------------------------------------------------------------------
(* The rows, the entries in memory and the calls in flight of key-store.js     *)
(* always have their types.                                                    *)
THEOREM KeyTypesCorrect == KeySpec => []KeyTypeOK
  <1>1. KeyInv => KeyTypeOK BY DEF KeyInv
  <1> QED BY <1>1, KeyInvAlways, PTL

(* However many keys and callers there are, whichever statements fail, and     *)
(* across restarts with and without a database: an authentication that begins  *)
(* after the revocation or the rotation of a key was answered rejects the key. *)
THEOREM RevocationIsFinal == KeySpec => []RevocationFinal
  <1>1. KeyInv => RevocationFinal
    BY DEF KeyInv, CallsInv, MemoryInv, RevocationFinal, Authenticated, KeyCaller
  <1> QED BY <1>1, KeyInvAlways, PTL

(* And a request is turned away only if each key that was good when it began   *)
(* has since been revoked, has expired or has gone: a row that was selected is *)
(* never out of date in the other direction.                                   *)
THEOREM RejectionIsJustified == KeySpec => []RejectionJustified
  <1>1. KeyInv => RejectionJustified
    BY DEF KeyInv, CallsInv, MemoryInv, RejectionJustified, Authenticated, KeyCaller
  <1> QED BY <1>1, KeyInvAlways, PTL

(* A key that has a successor is not accepted, in whichever mode, whatever     *)
(* other rotation, revocation or cleaning runs beside the rotation.            *)
THEOREM SuccessorsReplace == KeySpec => []SuccessorMeansRevoked
  <1>1. KeyInv => SuccessorMeansRevoked
    <2> SUFFICES ASSUME KeyInv PROVE SuccessorMeansRevoked OBVIOUS
    <2>1. \A k \in Key : keyParent[k] # NoKey => keyParent[k] \in keyRevoked
      BY DEF KeyInv, EntriesInv
    <2>2. \A k \in keyRevoked : Stored(k).status # "active" BY OnRecord
    <2> QED BY <2>1, <2>2 DEF SuccessorMeansRevoked
  <1> QED BY <1>1, KeyInvAlways, PTL

(* With the table, a key that had expired when an authentication began is not  *)
(* accepted by it, even if the row was selected before the check was made.     *)
THEOREM ExpiryIsChecked == KeySpec => []ExpiredRejectedByTable
  <1>1. KeyInv => ExpiredRejectedByTable
    BY DEF KeyInv, CallsInv, MemoryInv, ExpiredRejectedByTable, Authenticated, KeyCaller
  <1> QED BY <1>1, KeyInvAlways, PTL

-----------------------------------------------------------------------------
(* The ledger of the keys.                                                     *)

(* The states of a key, and what keys and calls are mapped to.                 *)
LEMMA KeyStates ==
  ASSUME KeyTypeOK
  PROVE  /\ \A k \in Key :
              /\ KeysOnRecord[k] = [state |-> KeyState(k), owner |-> k]
              /\ KeyState(k) = IF \E m \in KeyMode : keyStore[m][k].status = "active" THEN "valid"
                               ELSE IF k \in Unissued THEN "unissued" ELSE "withdrawn"
         /\ KeysOnRecord \in [Key -> KeyLedger!Entry]
  <1>1. \A k \in Key : ToBeIssued(k) <=> k \in Unissued BY DEF ToBeIssued, Unissued
  <1>2. \A k \in Key : KeyState(k) \in {"unissued", "valid", "withdrawn"} BY DEF KeyState
  <1>3. KeysOnRecord \in [Key -> KeyLedger!Entry] BY <1>2 DEF KeysOnRecord, KeyLedger!Entry
  <1> QED BY <1>1, <1>3 DEF KeysOnRecord, KeyState

(* A call that waits for a row, one that has it, and one that was answered.    *)
LEMMA RequestOf ==
  ASSUME NEW call \in KeyCallRecord
  PROVE  /\ (call.step = "check" => call.keys # <<>>)
            => KeyRequest(call) \in KeyLedger!Request
         /\ call.step = "select" => KeyRequest(call) = KeyLedger!Asking
         /\ call.step = "check" =>
              KeyRequest(call) = IF call.row.status = "active"
                                   THEN KeyLedger!In("assured", Head(call.keys))
                                   ELSE KeyLedger!Asking
         /\ call.step = "done" /\ call.key # NoKey =>
              KeyRequest(call) = KeyLedger!In("served", call.key)
         /\ call.step = "done" /\ call.key = NoKey => KeyRequest(call) = KeyLedger!Idle
         /\ call.step \notin {"select", "check", "done"} => KeyRequest(call) = KeyLedger!Idle
  <1>1. call.step = "select" => KeyRequest(call) = KeyLedger!Asking
    BY DEF KeyRequest, KeyLedger!Asking, KeyLedger!In
  <1>2. call.step = "check" =>
          KeyRequest(call) = IF call.row.status = "active"
                               THEN KeyLedger!In("assured", Head(call.keys))
                               ELSE KeyLedger!Asking
    BY DEF KeyRequest, KeyLedger!Asking, KeyLedger!In
  <1>3. call.step = "done" /\ call.key # NoKey =>
          KeyRequest(call) = KeyLedger!In("served", call.key)
    BY DEF KeyRequest, KeyLedger!In
  <1>4. \/ call.step \notin {"select", "check", "done"}
        \/ call.step = "done" /\ call.key = NoKey
        => KeyRequest(call) = KeyLedger!Idle
    BY DEF KeyRequest, KeyLedger!Idle, KeyLedger!In
  <1>5. ASSUME call.step = "check" => call.keys # <<>>
        PROVE  KeyRequest(call) \in KeyLedger!Request
    <2>1. call.step = "check" => Head(call.keys) \in Key
      BY <1>5, HeadTail DEF KeyCallRecord
    <2>2. /\ KeyLedger!Idle \in KeyLedger!Request /\ KeyLedger!Asking \in KeyLedger!Request
          /\ \A k \in Key \cup {NoKey} : /\ KeyLedger!In("assured", k) \in KeyLedger!Request
                                         /\ KeyLedger!In("served", k) \in KeyLedger!Request
      BY DEF KeyLedger!Idle, KeyLedger!Asking, KeyLedger!In, KeyLedger!Request
    <2>3. call.key \in Key \cup {NoKey} BY DEF KeyCallRecord
    <2> QED BY <1>1, <1>2, <1>3, <1>4, <2>1, <2>2, <2>3
  <1> QED BY <1>1, <1>2, <1>3, <1>4, <1>5

(* A step that the entries allow takes keys forward.                           *)
LEMMA StatesForward ==
  ASSUME KeyInv, KeyInv', EntriesStep, NEW k \in Key
  PROVE  KeyLedger!Forward(KeysOnRecord[k], KeysOnRecord'[k])
  <1> DEFINE active == \E m \in KeyMode : keyStore[m][k].status = "active"
             before == IF active THEN "valid"
                       ELSE IF k \in Unissued THEN "unissued" ELSE "withdrawn"
             after == IF active' THEN "valid"
                      ELSE IF k \in Unissued' THEN "unissued" ELSE "withdrawn"
  <1>1. /\ KeysOnRecord[k] = [state |-> before, owner |-> k]
        /\ KeysOnRecord'[k] = [state |-> after, owner |-> k]
    <2>1. KeysOnRecord[k] = [state |-> before, owner |-> k]
      BY KeyStates DEF KeyInv
    <2>2. KeysOnRecord'[k] = [state |-> KeyState(k), owner |-> k]' BY DEF KeysOnRecord
    <2>3. KeyState(k)' = after BY DEF KeyState, ToBeIssued, Unissued
    <2> QED BY <2>1, <2>2, <2>3
  <1>2. active => k \notin Unissued BY DEF KeyInv, EntriesInv
  <1>3. k \notin Unissued => k \notin Unissued' /\ (active' => active)
    BY DEF EntriesStep, NoLivelier
  <1> HIDE DEF active
  <1>4. \/ after = before
        \/ before = "unissued" /\ after \in {"valid", "withdrawn"}
        \/ before = "valid" /\ after = "withdrawn"
    BY <1>2, <1>3
  <1> HIDE DEF before, after
  <1> QED BY <1>1, <1>4 DEF KeyLedger!Forward

\* What a step may do to the requests beside issuing and withdrawing keys.
Lapses(old, new) ==
  \/ new \in {old, KeyLedger!Idle}
  \/ old.phase = "assured" /\ new = KeyLedger!Asking

(* A step that lets requests lapse at most is one of managing keys.            *)
LEMMA KeysManaged ==
  ASSUME KeyInv, KeyInv', EntriesStep,
         \A c \in KeyClient : Lapses(KeyRequest(keyCall[c]), KeyRequest(keyCall'[c]))
  PROVE  KeyLedger!Next
  <1>1. KeysOnRecord' \in [Key -> KeyLedger!Entry]
    <2>1. \A k \in Key : KeyState(k)' \in {"unissued", "valid", "withdrawn"} BY DEF KeyState
    <2> QED BY <2>1 DEF KeysOnRecord, KeyLedger!Entry
  <1>2. /\ KeyRequests = [c \in KeyClient |-> KeyRequest(keyCall[c])]
        /\ KeyRequests' = [c \in KeyClient |-> KeyRequest(keyCall'[c])]
    BY DEF KeyRequests
  <1>3. \A c \in KeyClient : KeyRequest(keyCall'[c]) \in KeyLedger!Request
    <2> SUFFICES ASSUME NEW c \in KeyClient
                 PROVE  KeyRequest(keyCall'[c]) \in KeyLedger!Request
      OBVIOUS
    <2>1. c \in KeyCaller BY DEF KeyCaller
    <2>2. /\ keyCall'[c] \in KeyCallRecord
          /\ keyCall'[c].step = "check" => keyCall'[c].keys # <<>>
      BY <2>1 DEF KeyInv, KeyTypeOK, CallsInv, WaitInv
    <2> QED BY <2>2, RequestOf
  <1>4. KeyRequests' \in [KeyClient -> KeyLedger!Request] BY <1>2, <1>3
  <1>5. \A k \in Key : KeyLedger!Forward(KeysOnRecord[k], KeysOnRecord'[k])
    BY StatesForward
  <1>6. \A c \in KeyClient :
           \/ KeyRequests'[c] \in {KeyRequests[c], KeyLedger!Idle}
           \/ KeyRequests[c].phase = "assured" /\ KeyRequests'[c] = KeyLedger!Asking
    BY <1>2 DEF Lapses
  <1> QED BY <1>1, <1>4, <1>5, <1>6 DEF KeyLedger!Next, KeyLedger!Manage

(* A step of a client that changes nothing but its own call.                   *)
LEMMA ClientMoves ==
  ASSUME KeyInv, NEW c \in KeyClient, NEW q,
         keyCall[c].step # "insert", q.step # "insert",
         keyCall' = [keyCall EXCEPT ![c] = q], UNCHANGED <<keyStore, keysDrawn>>
  PROVE  /\ KeysOnRecord' = KeysOnRecord
         /\ KeyRequests' = [KeyRequests EXCEPT ![c] = KeyRequest(q)]
         /\ KeyRequests[c] = KeyRequest(keyCall[c])
  <1>1. /\ c \in KeyCaller /\ keyCall'[c] = q
        /\ \A d \in KeyCaller \ {c} : keyCall'[d] = keyCall[d]
        /\ KeyClient \subseteq KeyCaller
    BY DEF KeyCaller, KeyInv, KeyTypeOK
  <1>2. \A k \in Key : ToBeIssued(k)' <=> ToBeIssued(k) BY <1>1 DEF ToBeIssued
  <1>3. \A k \in Key : KeyState(k)' = KeyState(k) BY <1>2 DEF KeyState
  <1>4. KeysOnRecord' = KeysOnRecord BY <1>3 DEF KeysOnRecord
  <1>5. \A d \in KeyClient : KeyRequest(keyCall'[d]) =
                               IF d = c THEN KeyRequest(q) ELSE KeyRequest(keyCall[d])
    BY <1>1
  <1> QED BY <1>4, <1>5 DEF KeyRequests

(* So is a step after which every call is as before, or awaits no key.         *)
LEMMA KeysOnly ==
  ASSUME KeyInv, KeyInv', EntriesStep,
         \A c \in KeyClient : \/ keyCall'[c] = keyCall[c]
                              \/ keyCall'[c].step \notin {"select", "check", "done"}
  PROVE  KeyLedger!Next
  <1>1. ASSUME NEW c \in KeyClient
        PROVE  Lapses(KeyRequest(keyCall[c]), KeyRequest(keyCall'[c]))
    <2>1. keyCall'[c] \in KeyCallRecord BY DEF KeyCaller, KeyInv, KeyTypeOK
    <2>2. CASE keyCall'[c] = keyCall[c] BY <2>2 DEF Lapses
    <2>3. CASE keyCall'[c].step \notin {"select", "check", "done"}
      <3>1. KeyRequest(keyCall'[c]) = KeyLedger!Idle BY <2>1, <2>3, RequestOf
      <3> QED BY <3>1 DEF Lapses
    <2> QED BY <1>1, <2>2, <2>3
  <1> QED BY <1>1, KeysManaged

(* A key that an entry in use accepts is valid, and is its own owner.          *)
LEMMA ActiveIsValid ==
  ASSUME KeyInv, NEW k \in Key, Stored(k).status = "active"
  PROVE  KeysOnRecord[k] = [state |-> "valid", owner |-> k]
  <1>1. keyMode \in KeyMode BY DEF KeyInv, KeyTypeOK
  <1>2. KeyState(k) = "valid" BY <1>1 DEF KeyState, Stored
  <1> QED BY <1>2 DEF KeysOnRecord

(* A free call is one that was answered, or none.                              *)
LEMMA FreeRequest ==
  ASSUME KeyInv, NEW c \in KeyClient, KeyFree(c)
  PROVE  KeyRequest(keyCall[c]).phase \in {"idle", "served"}
  <1>1. keyCall[c] \in KeyCallRecord BY DEF KeyCaller, KeyInv, KeyTypeOK
  <1>2. KeyRequest(keyCall[c]) = KeyLedger!Idle
        \/ KeyRequest(keyCall[c]) = KeyLedger!In("served", keyCall[c].key)
    BY <1>1, RequestOf DEF KeyFree
  <1> QED BY <1>2 DEF KeyLedger!Idle, KeyLedger!In

(* To begin an authentication is to ask; without the table, it is to be        *)
(* served, or turned away, at once.                                            *)
LEMMA AuthenticateIsAsking ==
  ASSUME KeyInv, KeyInv', EntriesStep, NEW c \in KeyClient, NEW keys \in Seq(Key),
         Authenticate(c, keys)
  PROVE  KeyLedger!Next
  <1>1. /\ KeyTypeOK /\ c \in KeyCaller /\ keyMode \in KeyMode
        /\ keyCall[c].step # "insert" /\ KeyRequest(keyCall[c]).phase \in {"idle", "served"}
        /\ UNCHANGED <<keyStore, keysDrawn>>
    BY FreeRequest DEF KeyInv, KeyTypeOK, KeyCaller, KeyFree, Authenticate
  <1>2. CASE keyMode = "mysql"
    <2> DEFINE q == KeyBegin("select", keys)
    <2>1. q \in KeyCallRecord /\ q.step = "select" BY <1>1, Calls, Fields DEF KeyStep
    <2>2. KeyRequest(q) = KeyLedger!Asking BY <2>1, RequestOf
    <2>3. keyCall' = [keyCall EXCEPT ![c] = q] BY <1>2 DEF Authenticate
    <2> HIDE DEF q
    <2>4. /\ KeysOnRecord' = KeysOnRecord
          /\ KeyRequests' = [KeyRequests EXCEPT ![c] = KeyRequest(q)]
          /\ KeyRequests[c] = KeyRequest(keyCall[c])
      BY <1>1, <2>1, <2>3, ClientMoves
    <2>5. KeyLedger!Ask(c)
      BY <1>1, <2>2, <2>4 DEF KeyLedger!Ask, KeyLedger!Free, KeyLedger!Becomes
    <2> QED BY <2>5 DEF KeyLedger!Next
  <1>3. CASE keyMode # "mysql"
    <2>1. PICK k \in ToSet(keys) \cup {NoKey} :
            /\ Outcome(keys, k)
            /\ keyCall' = [keyCall EXCEPT ![c] = KeyAnswer(KeyBegin("done", keys), k)]
      BY <1>3 DEF Authenticate
    <2> DEFINE q == KeyAnswer(KeyBegin("done", keys), k)
    <2>2. ToSet(keys) \subseteq Key BY DEF ToSet
    <2>3. q \in KeyCallRecord /\ q.step = "done" /\ q.key = k
      BY <1>1, <2>1, <2>2, Calls, Fields DEF KeyStep
    <2>4. keyCall' = [keyCall EXCEPT ![c] = q] BY <2>1
    <2> HIDE DEF q
    <2>5. /\ KeysOnRecord' = KeysOnRecord
          /\ KeyRequests' = [KeyRequests EXCEPT ![c] = KeyRequest(q)]
          /\ KeyRequests[c] = KeyRequest(keyCall[c])
      BY <1>1, <2>3, <2>4, ClientMoves
    <2>6. CASE k = NoKey
      <3>1. KeyRequest(q) = KeyLedger!Idle BY <2>3, <2>6, RequestOf
      <3>2. ASSUME NEW d \in KeyClient
            PROVE  Lapses(KeyRequest(keyCall[d]), KeyRequest(keyCall'[d]))
        <4>1. d \in KeyCaller BY DEF KeyCaller
        <4>2. CASE d = c
          <5>1. keyCall'[d] = q BY <1>1, <2>4, <4>2 DEF KeyTypeOK
          <5> QED BY <3>1, <5>1 DEF Lapses
        <4>3. CASE d # c
          <5>1. keyCall'[d] = keyCall[d] BY <1>1, <2>4, <4>1, <4>3 DEF KeyTypeOK
          <5> QED BY <5>1 DEF Lapses
        <4> QED BY <4>2, <4>3
      <3> QED BY <3>2, KeysManaged
    <2>7. CASE k # NoKey
      <3>1. k \in Key BY <2>1, <2>2, <2>7
      <3>2. Stored(k).status = "active" BY <2>1, <2>7 DEF Outcome, Accepts
      <3>3. KeysOnRecord[k] = [state |-> "valid", owner |-> k] BY <3>1, <3>2, ActiveIsValid
      <3>4. KeyRequest(q) = KeyLedger!In("served", k) BY <2>3, <2>7, RequestOf
      <3>5. KeyLedger!ServeAtOnce(c, k)
        BY <1>1, <2>5, <3>3, <3>4
        DEF KeyLedger!ServeAtOnce, KeyLedger!Free, KeyLedger!Becomes
      <3> QED BY <3>1, <3>5 DEF KeyLedger!Next
    <2> QED BY <2>6, <2>7
  <1> QED BY <1>2, <1>3

(* To select the row of an active key is to be assured of it.                  *)
LEMMA SelectIsAssurance ==
  ASSUME KeyInv, KeyInv', EntriesStep, NEW c \in KeyClient, SelectKey(c)
  PROVE  KeyLedger!Next \/ UNCHANGED <<KeysOnRecord, KeyRequests>>
  <1> DEFINE call == keyCall[c]
             k == Head(call.keys)
             q == [call EXCEPT !.step = "check", !.row = Stored(k)]
  <1>1. /\ c \in KeyCaller /\ call \in KeyCallRecord /\ keyMode \in KeyMode
        /\ call.step = "select" /\ call.keys # <<>> /\ call.keys \in Seq(Key)
        /\ UNCHANGED <<keyStore, keysDrawn>>
        /\ keyCall \in [KeyCaller -> KeyCallRecord]
        /\ keyStore \in [KeyMode -> [Key -> KeyEntry]]
    BY DEF KeyCaller, KeyInv, KeyTypeOK, CallsInv, WaitInv, SelectKey, KeyCallRecord
  <1>2. k \in Key /\ Stored(k) \in KeyEntry BY <1>1, HeadTail DEF Stored
  <1>3. /\ q \in KeyCallRecord /\ q.step = "check" /\ q.keys = call.keys
        /\ q.row = Stored(k)
    BY <1>1, <1>2 DEF KeyCallRecord, KeyStep
  <1>4. keyCall' = [keyCall EXCEPT ![c] = q] BY <1>1 DEF SelectKey
  <1>5. KeyRequest(call) = KeyLedger!Asking BY <1>1, RequestOf
  <1>6. KeyRequest(q) = IF Stored(k).status = "active" THEN KeyLedger!In("assured", k)
                        ELSE KeyLedger!Asking
    BY <1>3, RequestOf
  <1> HIDE DEF q
  <1>7. /\ KeysOnRecord' = KeysOnRecord
        /\ KeyRequests' = [KeyRequests EXCEPT ![c] = KeyRequest(q)]
        /\ KeyRequests[c] = KeyRequest(call)
    BY <1>1, <1>3, <1>4, ClientMoves
  <1>8. CASE Stored(k).status = "active"
    <2>1. KeysOnRecord[k] = [state |-> "valid", owner |-> k] BY <1>2, <1>8, ActiveIsValid
    <2>2. KeyLedger!Assure(c, k)
      BY <1>5, <1>6, <1>7, <1>8, <2>1 DEF KeyLedger!Assure, KeyLedger!Becomes
    <2> QED BY <1>2, <2>2 DEF KeyLedger!Next
  <1>9. CASE Stored(k).status # "active"
    <2>1. KeyRequests' = KeyRequests
      BY <1>5, <1>6, <1>7, <1>9 DEF KeyRequests
    <2> QED BY <1>7, <2>1
  <1> QED BY <1>8, <1>9

(* To accept the row that was selected is to serve; to reject it, to ask for   *)
(* the next key, or to end.                                                    *)
LEMMA CheckIsService ==
  ASSUME KeyInv, KeyInv', EntriesStep, NEW c \in KeyClient, CheckKey(c)
  PROVE  KeyLedger!Next
  <1> DEFINE call == keyCall[c]
             k == Head(call.keys)
  <1>1. /\ c \in KeyCaller /\ call \in KeyCallRecord
        /\ call.step = "check" /\ call.keys # <<>> /\ call.keys \in Seq(Key)
        /\ UNCHANGED <<keyStore, keysDrawn>>
        /\ keyCall \in [KeyCaller -> KeyCallRecord]
        /\ keyCall' \in [KeyCaller -> KeyCallRecord]
    BY DEF KeyCaller, KeyInv, KeyTypeOK, CallsInv, WaitInv, CheckKey, KeyCallRecord
  <1>2. k \in Key /\ k # NoKey BY <1>1, HeadTail, Keys
  <1>3. KeyRequest(call) = IF call.row.status = "active" THEN KeyLedger!In("assured", k)
                           ELSE KeyLedger!Asking
    BY <1>1, RequestOf
  <1>4. CASE Accepts(call.row, k)
    <2> DEFINE q == KeyAnswer(call, k)
    <2>1. q.step = "done" /\ q.key = k BY <1>1, Fields
    <2>2. q \in KeyCallRecord BY <1>1, <1>2, Calls DEF KeyInv
    <2>3. keyCall' = [keyCall EXCEPT ![c] = q] BY <1>4 DEF CheckKey
    <2> HIDE DEF q
    <2>4. /\ KeysOnRecord' = KeysOnRecord
          /\ KeyRequests' = [KeyRequests EXCEPT ![c] = KeyRequest(q)]
          /\ KeyRequests[c] = KeyRequest(call)
      BY <1>1, <2>1, <2>3, ClientMoves
    <2>5. KeyRequest(q) = KeyLedger!In("served", k) BY <1>2, <2>1, <2>2, RequestOf
    <2>6. KeyRequest(call) = KeyLedger!In("assured", k) BY <1>3, <1>4 DEF Accepts
    <2>7. KeyLedger!Serve(c)
      BY <2>4, <2>5, <2>6 DEF KeyLedger!Serve, KeyLedger!Becomes, KeyLedger!In
    <2> QED BY <2>7 DEF KeyLedger!Next
  <1>5. CASE ~Accepts(call.row, k)
    <2>1. keyCall'[c] \in KeyCallRecord BY <1>1
    <2>2. \/ keyCall'[c].step = "done" /\ keyCall'[c].key = NoKey
          \/ keyCall'[c].step = "select"
      <3>1. CASE Tail(call.keys) = <<>>
        <4>1. keyCall'[c] = KeyAnswer(call, NoKey) BY <1>1, <1>5, <3>1 DEF CheckKey
        <4> QED BY <1>1, <4>1, Fields
      <3>2. CASE Tail(call.keys) # <<>>
        <4>1. keyCall'[c] = [call EXCEPT !.step = "select", !.keys = Tail(@), !.row = NoEntry]
          BY <1>1, <1>5, <3>2 DEF CheckKey
        <4> QED BY <1>1, <4>1 DEF KeyCallRecord
      <3> QED BY <3>1, <3>2
    <2>3. KeyRequest(keyCall'[c]) \in {KeyLedger!Idle, KeyLedger!Asking}
      BY <2>1, <2>2, RequestOf
    <2>4. Lapses(KeyRequest(keyCall[c]), KeyRequest(keyCall'[c]))
      BY <1>3, <2>3 DEF Lapses, KeyLedger!In
    <2>5. ASSUME NEW d \in KeyClient, d # c
          PROVE  Lapses(KeyRequest(keyCall[d]), KeyRequest(keyCall'[d]))
      <3>1. keyCall'[d] = keyCall[d] BY <1>1, <2>5 DEF CheckKey, KeyCaller
      <3> QED BY <3>1 DEF Lapses
    <2> QED BY <2>4, <2>5, KeysManaged
  <1> QED BY <1>4, <1>5

(* What those do who manage keys, and the environment, lets no request be      *)
(* served.                                                                     *)
LEMMA OthersManage ==
  ASSUME KeyInv, KeyInv', EntriesStep,
         \/ \E c \in KeyAdmin :
              \/ \E expires \in BOOLEAN : GenerateKey(c, expires)
              \/ InsertKey(c)
              \/ \E k \in Key : RevokeKey(c, k) \/ RotateKey(c, k)
              \/ UpdateRevoked(c)
              \/ SelectOld(c)
              \/ Retire(c)
         \/ \E c \in KeyCaller : KeyStatementFails(c)
         \/ \E old \in SUBSET Key : CleanKeys(old)
         \/ \E k \in Key : PassExpiry(k)
         \/ \E mode \in KeyMode : KeyRestart(mode)
  PROVE  KeyLedger!Next
  <1>1. /\ keyCall \in [KeyCaller -> KeyCallRecord]
        /\ KeyClient \subseteq KeyCaller /\ KeyAdmin \subseteq KeyCaller
    BY DEF KeyInv, KeyTypeOK, KeyCaller
  <1>2. SUFFICES \A d \in KeyCaller :
                   \/ keyCall'[d] = keyCall[d]
                   \/ keyCall'[d].step \notin {"select", "check", "done"}
    BY <1>1, KeysOnly
  <1>3. ASSUME NEW c \in KeyAdmin, NEW expires \in BOOLEAN, GenerateKey(c, expires)
        PROVE  \A d \in KeyCaller :
                 \/ keyCall'[d] = keyCall[d]
                 \/ keyCall'[d].step \notin {"select", "check", "done"}
    <2>1. \E q : /\ keyCall' = [keyCall EXCEPT ![c] = q]
                 /\ q.step \in {"idle", "insert"}
      <3> DEFINE q == [KeyWaits("insert", <<>>) EXCEPT !.fresh = keysDrawn + 1,
                                                       !.expires = expires]
      <3>1. KeyWaits("insert", <<>>) \in KeyCallRecord
            /\ KeyWaits("insert", <<>>).step = "insert"
        BY EmptySeq, Calls, Fields DEF KeyInv, KeyStep
      <3>2. q.step = "insert" BY <3>1 DEF KeyCallRecord
      <3>3. \/ keyCall' = [keyCall EXCEPT ![c] = IdleCall]
            \/ keyCall' = [keyCall EXCEPT ![c] = q]
        BY <1>3, Zenon DEF GenerateKey
      <3> HIDE DEF q
      <3> QED BY <3>2, <3>3, Fields
    <2> QED BY <1>1, <2>1
  <1>4. ASSUME NEW c \in KeyAdmin, InsertKey(c) \/ UpdateRevoked(c)
        PROVE  \A d \in KeyCaller :
                 \/ keyCall'[d] = keyCall[d]
                 \/ keyCall'[d].step \notin {"select", "check", "done"}
    BY <1>1, <1>4 DEF InsertKey, UpdateRevoked, IdleCall
  <1>5. ASSUME NEW c \in KeyAdmin, NEW k \in Key, RevokeKey(c, k) \/ RotateKey(c, k)
        PROVE  \A d \in KeyCaller :
                 \/ keyCall'[d] = keyCall[d]
                 \/ keyCall'[d].step \notin {"select", "check", "done"}
    <2>1. \E q : /\ keyCall' = [keyCall EXCEPT ![c] = q]
                 /\ q.step \in {"idle", "revoke", "old"}
      <3>1. /\ IdleCall.step = "idle"
            /\ KeyWaits("revoke", <<k>>).step = "revoke"
            /\ KeyWaits("old", <<k>>).step = "old"
        BY Fields
      <3>2. \/ keyCall' = [keyCall EXCEPT ![c] = IdleCall]
            \/ keyCall' = [keyCall EXCEPT ![c] = KeyWaits("revoke", <<k>>)]
            \/ keyCall' = [keyCall EXCEPT ![c] = KeyWaits("old", <<k>>)]
        BY <1>5, Zenon DEF RevokeKey, RotateKey
      <3> QED BY <3>1, <3>2
    <2> QED BY <1>1, <2>1
  <1>6. ASSUME NEW c \in KeyAdmin, SelectOld(c) \/ Retire(c)
        PROVE  \A d \in KeyCaller :
                 \/ keyCall'[d] = keyCall[d]
                 \/ keyCall'[d].step \notin {"select", "check", "done"}
    BY <1>1, <1>6 DEF SelectOld, Retire, KeyCallRecord, IdleCall
  <1>7. ASSUME NEW c \in KeyCaller, KeyStatementFails(c)
        PROVE  \A d \in KeyCaller :
                 \/ keyCall'[d] = keyCall[d]
                 \/ keyCall'[d].step \notin {"select", "check", "done"}
    BY <1>1, <1>7 DEF KeyStatementFails, IdleCall
  <1>8. ASSUME NEW mode \in KeyMode, KeyRestart(mode)
        PROVE  \A d \in KeyCaller : keyCall'[d].step \notin {"select", "check", "done"}
    BY <1>8 DEF KeyRestart, IdleCall
  <1>9. ASSUME \/ \E old \in SUBSET Key : CleanKeys(old)
               \/ \E k \in Key : PassExpiry(k)
        PROVE  keyCall' = keyCall
    BY <1>9 DEF CleanKeys, PassExpiry
  <1> QED BY <1>3, <1>4, <1>5, <1>6, <1>7, <1>8, <1>9

(* Every step is one of the ledger, or none.                                   *)
LEMMA KeyLedgerStep ==
  ASSUME KeyInv, KeyInv', EntriesStep, [KeyNext]_keyVars
  PROVE  [KeyLedger!Next]_<<KeysOnRecord, KeyRequests>>
  <1>1. CASE \E c \in KeyClient, i, j \in Key :
               Authenticate(c, <<i>>) \/ Authenticate(c, <<i, j>>)
    <2>1. PICK c \in KeyClient, i \in Key, j \in Key :
            Authenticate(c, <<i>>) \/ Authenticate(c, <<i, j>>)
      BY <1>1
    <2>2. <<i>> \in Seq(Key) /\ <<i, j>> \in Seq(Key) OBVIOUS
    <2> QED BY <2>1, <2>2, AuthenticateIsAsking
  <1>2. CASE \E c \in KeyClient : SelectKey(c) BY <1>2, SelectIsAssurance
  <1>3. CASE \E c \in KeyClient : CheckKey(c) BY <1>3, CheckIsService
  <1>4. CASE \/ \E c \in KeyAdmin :
                  \/ \E expires \in BOOLEAN : GenerateKey(c, expires)
                  \/ InsertKey(c)
                  \/ \E k \in Key : RevokeKey(c, k) \/ RotateKey(c, k)
                  \/ UpdateRevoked(c)
                  \/ SelectOld(c)
                  \/ Retire(c)
             \/ \E c \in KeyCaller : KeyStatementFails(c)
             \/ \E old \in SUBSET Key : CleanKeys(old)
             \/ \E k \in Key : PassExpiry(k)
             \/ \E mode \in KeyMode : KeyRestart(mode)
    BY <1>4, OthersManage
  <1>5. CASE UNCHANGED keyVars
    <2>1. KeysOnRecord' = KeysOnRecord
      BY <1>5 DEF KeysOnRecord, KeyState, ToBeIssued, keyVars
    <2>2. KeyRequests' = KeyRequests BY <1>5 DEF KeyRequests, KeyRequest, keyVars
    <2> QED BY <2>1, <2>2
  <1> QED BY <1>1, <1>2, <1>3, <1>4, <1>5 DEF KeyNext

(* In the beginning no key is on record, and nobody has asked.                 *)
LEMMA KeyLedgerInit == KeyInit => KeyLedger!Init
  <1> SUFFICES ASSUME KeyInit PROVE KeyLedger!Init
    OBVIOUS
  <1>1. KeyTypeOK BY KeyInvInit DEF KeyInv
  <1>2. ASSUME NEW k \in Key PROVE KeysOnRecord[k].state # "withdrawn"
    <2>1. k > keysDrawn BY Keys DEF KeyInit
    <2>2. k \in Unissued BY <2>1 DEF Unissued
    <2> QED BY <1>1, <2>2, KeyStates
  <1>3. ASSUME NEW c \in KeyClient PROVE KeyRequest(keyCall[c]) = KeyLedger!Idle
    <2>1. keyCall[c] = IdleCall BY DEF KeyInit, KeyCaller
    <2>2. IdleCall \in KeyCallRecord /\ IdleCall.step = "idle" BY <1>1, Calls, Fields
    <2> QED BY <2>1, <2>2, RequestOf
  <1>4. KeyRequests = [c \in KeyClient |-> KeyLedger!Idle] BY <1>3 DEF KeyRequests
  <1>5. KeysOnRecord \in [Key -> KeyLedger!Entry] BY <1>1, KeyStates
  <1> QED BY <1>2, <1>4, <1>5 DEF KeyLedger!Init

(* In either mode, across restarts and whatever statement fails, keys are      *)
(* issued once and withdrawn for good, and a request that key-store.js answers *)
(* with a key is one whose key was valid after it had begun.                   *)
THEOREM KeysAreLedger == KeySpec => KeysImplementAccess
  <1>1. KeyInv /\ KeyInv' /\ [KeyNext]_keyVars
        => [KeyLedger!Next]_<<KeysOnRecord, KeyRequests>>
    BY KeyInvNext, KeyLedgerStep
  <1> QED BY <1>1, KeyLedgerInit, KeyInvAlways, PTL
          DEF KeySpec, KeysImplementAccess, KeyLedger!Spec
=============================================================================
