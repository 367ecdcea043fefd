------------------------------- MODULE KeyStore -------------------------------
(***************************************************************************)
(* API keys: src/key-store.js behind src/api-auth.js and /api/keys.  Keys  *)
(* are rows of api_keys, or entries of a map in memory: which of the two   *)
(* is decided once, when the module is imported.  With the map, a call     *)
(* runs in one turn; with the table, it suspends at every statement.       *)
(*                                                                         *)
(* Left out: hashing (a key and its hash are one value), tenants, labels,  *)
(* scopes and metadata, which only pass through, and last_used, which      *)
(* nothing reads but a listing.                                            *)
(***************************************************************************)
EXTENDS Naturals, Sequences, SequencesExt

CONSTANTS
  MaxKeys,        \* bound: keys that are drawn
  KeyClient,      \* requests that authenticate
  KeyAdmin        \* requests that manage keys

Key == 1 .. MaxKeys
NoKey == 0
KeyCaller == KeyClient \cup KeyAdmin

ASSUME MaxKeysAssumption == MaxKeys \in Nat \ {0}

VARIABLES
  keyMode,    \* mysqlAvailable, as it was when the module was imported
  keyStore,   \* per mode: the table, or the map
  keysDrawn,  \* how many raw keys have been drawn
  keyPast,    \* keys whose date of expiry has passed
  keyCall,    \* the call each caller has in flight, or its answer
  keyRevoked, \* history: keys whose revocation was answered
  keyParent   \* history: the key that a key was issued to replace

keyVars == <<keyMode, keyStore, keysDrawn, keyPast, keyCall, keyRevoked, keyParent>>

KeyMode == {"memory", "mysql"}
KeyEntry == [status: {"none", "active", "revoked"}, expires: BOOLEAN]
NoEntry == [status |-> "none", expires |-> FALSE]

\* "done": an authentication was answered with a key, or with none.  The other
\* operations are idle again once they are answered.
KeyStep == {"idle", "select", "check", "revoke", "old", "retire", "insert", "done"}

\* fresh: the key to insert.  row: what a SELECT found.  live, gone, past: which
\* of its keys were good, revoked and expired when the call began (history).
KeyCallRecord ==
  [step: KeyStep, keys: Seq(Key), row: KeyEntry,
   fresh: Key \cup {NoKey}, expires: BOOLEAN, key: Key \cup {NoKey},
   live: SUBSET Key, gone: SUBSET Key, past: SUBSET Key]

IdleCall == [step |-> "idle", keys |-> <<>>, row |-> NoEntry,
             fresh |-> NoKey, expires |-> FALSE, key |-> NoKey,
             live |-> {}, gone |-> {}, past |-> {}]

KeyTypeOK ==
  /\ keyMode \in KeyMode
  /\ keyStore \in [KeyMode -> [Key -> KeyEntry]]
  /\ keysDrawn \in 0 .. MaxKeys
  /\ keyPast \subseteq Key
  /\ keyCall \in [KeyCaller -> KeyCallRecord]
  /\ keyRevoked \subseteq Key
  /\ keyParent \in [Key -> Key \cup {NoKey}]

KeyInit ==
  /\ keyMode \in KeyMode
  /\ keyStore = [mode \in KeyMode |-> [k \in Key |-> NoEntry]]
  /\ keysDrawn = 0
  /\ keyPast = {}
  /\ keyCall = [c \in KeyCaller |-> IdleCall]
  /\ keyRevoked = {}
  /\ keyParent = [k \in Key |-> NoKey]

-----------------------------------------------------------------------------
Stored(k) == keyStore[keyMode][k]

KeyFree(c) == keyCall[c].step \in {"idle", "done"}

\* What a check of the fields of an entry would accept, by their meaning.
LiveKeys == {k \in Key : Stored(k).status = "active" /\ ~(Stored(k).expires /\ k \in keyPast)}

KeyWaits(step, keys) == [IdleCall EXCEPT !.step = step, !.keys = keys]

KeyBegin(step, keys) ==
  [KeyWaits(step, keys) EXCEPT
                   !.live = LiveKeys \cap ToSet(keys),
                   !.gone = keyRevoked \cap ToSet(keys),
                   !.past = keyPast \cap ToSet(keys)]

KeyAnswer(call, k) == [call EXCEPT !.step = "done", !.key = k, !.keys = <<>>, !.row = NoEntry]

-----------------------------------------------------------------------------
(* authenticateRequest of api-auth.js: the Bearer token, then the query, then  *)
(* the cookie, until key-store.js accepts one.                                 *)

\* Slip: whatever is on record is accepted.
Accepts_Status(entry, k) == entry.status # "none"

\* Slip: the date of expiry is looked up under its name in memory.
Accepts_Expiry(entry, k) == entry.status = "active"

\* Rows call the date expires_at and entries of the map expiresAt; only the
\* former is read.
Accepts(entry, k) ==
  /\ entry.status = "active"
  /\ keyMode = "mysql" => ~(entry.expires /\ k \in keyPast)

\* Slip: only the first of the keys is tried.
Outcome_Header(keys, k) ==
  k = IF Accepts(Stored(Head(keys)), Head(keys)) THEN Head(keys) ELSE NoKey

\* k is the first key that is accepted, or none is.
Outcome(keys, k) ==
  \/ \E i \in DOMAIN keys :
       /\ k = keys[i]
       /\ Accepts(Stored(k), k)
       /\ \A j \in 1 .. i - 1 : ~Accepts(Stored(keys[j]), keys[j])
  \/ k = NoKey /\ \A i \in DOMAIN keys : ~Accepts(Stored(keys[i]), keys[i])

Authenticate(c, keys) ==
  /\ KeyFree(c)
  /\ IF keyMode = "mysql"
       THEN keyCall' = [keyCall EXCEPT ![c] = KeyBegin("select", keys)]
       ELSE \E k \in ToSet(keys) \cup {NoKey} :
              /\ Outcome(keys, k)
              /\ keyCall' = [keyCall EXCEPT ![c] = KeyAnswer(KeyBegin("done", keys), k)]
  /\ UNCHANGED <<keyMode, keyStore, keysDrawn, keyPast, keyRevoked, keyParent>>

SelectKey(c) ==
  /\ keyCall[c].step = "select"
  /\ keyCall' = [keyCall EXCEPT ![c].step = "check",
                                ![c].row = Stored(Head(keyCall[c].keys))]
  /\ UNCHANGED <<keyMode, keyStore, keysDrawn, keyPast, keyRevoked, keyParent>>

\* The row may be out of date by now; the time is not.
CheckKey(c) ==
  LET call == keyCall[c]
      k == Head(call.keys)
  IN  /\ call.step = "check"
      /\ keyCall' = [keyCall EXCEPT ![c] =
           IF Accepts(call.row, k) THEN KeyAnswer(call, k)
           ELSE IF Tail(call.keys) = <<>> THEN KeyAnswer(call, NoKey)
           ELSE [call EXCEPT !.step = "select", !.keys = Tail(@), !.row = NoEntry]]
      /\ UNCHANGED <<keyMode, keyStore, keysDrawn, keyPast, keyRevoked, keyParent>>

-----------------------------------------------------------------------------
(* generateApiKey, revokeApiKey, rotateApiKey, cleanExpiredKeys.               *)

Revoke(store, k) ==
  IF store[k].status = "none" THEN store ELSE [store EXCEPT ![k].status = "revoked"]

Issue(store, k, expires) == [store EXCEPT ![k] = [status |-> "active", expires |-> expires]]

GenerateKey(c, expires) ==
  /\ KeyFree(c)
  /\ keysDrawn < MaxKeys
  /\ keysDrawn' = keysDrawn + 1
  /\ IF keyMode = "mysql"
       THEN /\ keyCall' = [keyCall EXCEPT ![c] =
                 [KeyWaits("insert", <<>>) EXCEPT !.fresh = keysDrawn + 1, !.expires = expires]]
            /\ UNCHANGED keyStore
       ELSE /\ keyCall' = [keyCall EXCEPT ![c] = IdleCall]
            /\ keyStore' = [keyStore EXCEPT ![keyMode] = Issue(@, keysDrawn + 1, expires)]
  /\ UNCHANGED <<keyMode, keyPast, keyRevoked, keyParent>>

InsertKey(c) ==
  LET call == keyCall[c]
  IN  /\ call.step = "insert"
      /\ keyStore' = [keyStore EXCEPT ![keyMode] = Issue(@, call.fresh, call.expires)]
      /\ keyParent' = IF call.keys = <<>> THEN keyParent
                      ELSE [keyParent EXCEPT ![call.fresh] = Head(call.keys)]
      /\ keyRevoked' = keyRevoked \cup ToSet(call.keys)
      /\ keyCall' = [keyCall EXCEPT ![c] = IdleCall]
      /\ UNCHANGED <<keyMode, keysDrawn, keyPast>>

\* A key that is not on record is answered "Key not found".
RevokeKey(c, k) ==
  /\ KeyFree(c)
  /\ IF keyMode = "mysql"
       THEN /\ keyCall' = [keyCall EXCEPT ![c] = KeyWaits("revoke", <<k>>)]
            /\ UNCHANGED <<keyStore, keyRevoked>>
       ELSE /\ keyCall' = [keyCall EXCEPT ![c] = IdleCall]
            /\ keyStore' = [keyStore EXCEPT ![keyMode] = Revoke(@, k)]
            /\ keyRevoked' = IF Stored(k).status = "none" THEN keyRevoked ELSE keyRevoked \cup {k}
  /\ UNCHANGED <<keyMode, keysDrawn, keyPast, keyParent>>

UpdateRevoked(c) ==
  LET k == Head(keyCall[c].keys)
  IN  /\ keyCall[c].step = "revoke"
      /\ keyStore' = [keyStore EXCEPT ![keyMode] = Revoke(@, k)]
      /\ keyRevoked' = IF Stored(k).status = "none" THEN keyRevoked ELSE keyRevoked \cup {k}
      /\ keyCall' = [keyCall EXCEPT ![c] = IdleCall]
      /\ UNCHANGED <<keyMode, keysDrawn, keyPast, keyParent>>

\* The status of the old key is not asked for, and its date of expiry is not
\* passed on.
RotateKey(c, k) ==
  /\ KeyFree(c)
  /\ IF keyMode = "mysql"
       THEN /\ keyCall' = [keyCall EXCEPT ![c] = KeyWaits("old", <<k>>)]
            /\ UNCHANGED <<keyStore, keysDrawn, keyRevoked, keyParent>>
       ELSE /\ Stored(k).status # "none"
            /\ keysDrawn < MaxKeys
            /\ keysDrawn' = keysDrawn + 1
            /\ keyStore' = [keyStore EXCEPT ![keyMode] =
                              Issue(Revoke(@, k), keysDrawn + 1, FALSE)]
            /\ keyParent' = [keyParent EXCEPT ![keysDrawn + 1] = k]
            /\ keyRevoked' = keyRevoked \cup {k}
            /\ keyCall' = [keyCall EXCEPT ![c] = IdleCall]
  /\ UNCHANGED <<keyMode, keyPast>>

SelectOld(c) ==
  LET k == Head(keyCall[c].keys)
  IN  /\ keyCall[c].step = "old"
      /\ keyCall' = [keyCall EXCEPT ![c] =
           IF Stored(k).status = "none" THEN IdleCall
           ELSE [@ EXCEPT !.step = "retire"]]
      /\ UNCHANGED <<keyMode, keyStore, keysDrawn, keyPast, keyRevoked, keyParent>>

\* Slip: the new key is issued first, and the old one is left to a later call.
Retire_Skipped(c) ==
  /\ keyCall[c].step = "retire"
  /\ keysDrawn < MaxKeys
  /\ keysDrawn' = keysDrawn + 1
  /\ keyCall' = [keyCall EXCEPT ![c].step = "insert", ![c].fresh = keysDrawn + 1]
  /\ UNCHANGED <<keyMode, keyStore, keyPast, keyRevoked, keyParent>>

\* The UPDATE; generateApiKey then draws the new key and sends its INSERT.
Retire(c) ==
  /\ keyCall[c].step = "retire"
  /\ keysDrawn < MaxKeys
  /\ keysDrawn' = keysDrawn + 1
  /\ keyStore' = [keyStore EXCEPT ![keyMode] = Revoke(@, Head(keyCall[c].keys))]
  /\ keyCall' = [keyCall EXCEPT ![c].step = "insert", ![c].fresh = keysDrawn + 1]
  /\ UNCHANGED <<keyMode, keyPast, keyRevoked, keyParent>>

\* old: rows last updated before the cutoff.  In memory updatedAt is never set,
\* so that only expired keys go, whatever their age.
CleanKeys(old) ==
  LET expired == {k \in Key : Stored(k).expires /\ k \in keyPast}
      revoked == {k \in Key : Stored(k).status = "revoked"}
      gone == IF keyMode = "mysql" THEN old \cap (expired \cup revoked) ELSE expired
  IN  /\ gone # {}
      /\ keyStore' = [keyStore EXCEPT ![keyMode] =
                        [k \in Key |-> IF k \in gone THEN NoEntry ELSE @[k]]]
      /\ UNCHANGED <<keyMode, keysDrawn, keyPast, keyCall, keyRevoked, keyParent>>

-----------------------------------------------------------------------------
(* The environment.                                                            *)

PassExpiry(k) ==
  /\ k \notin keyPast
  /\ Stored(k).status # "none" /\ Stored(k).expires
  /\ keyPast' = keyPast \cup {k}
  /\ UNCHANGED <<keyMode, keyStore, keysDrawn, keyCall, keyRevoked, keyParent>>

\* The database refuses the statement that a call waits for: status 503.
KeyStatementFails(c) ==
  /\ keyCall[c].step \in {"select", "revoke", "old", "retire", "insert"}
  /\ keyCall' = [keyCall EXCEPT ![c] = IdleCall]
  /\ UNCHANGED <<keyMode, keyStore, keysDrawn, keyPast, keyRevoked, keyParent>>

\* The process ends, and is started with or without a connected database: the
\* table survives, the map does not.
KeyRestart(mode) ==
  /\ keyMode' = mode
  /\ keyStore' = [keyStore EXCEPT !["memory"] = [k \in Key |-> NoEntry]]
  /\ keyCall' = [c \in KeyCaller |-> IdleCall]
  /\ UNCHANGED <<keysDrawn, keyPast, keyRevoked, keyParent>>

KeyNext ==
  \/ \E c \in KeyClient :
       \/ \E i, j \in Key : Authenticate(c, <<i>>) \/ (i # j /\ Authenticate(c, <<i, j>>))
       \/ SelectKey(c)
       \/ CheckKey(c)
  \/ \E c \in KeyAdmin :
       \/ \E expires \in BOOLEAN : GenerateKey(c, expires)
       \/ InsertKey(c)
       \/ \E k \in Key : RevokeKey(c, k) \/ RotateKey(c, k)
       \/ UpdateRevoked(c)
       \/ SelectOld(c)
       \/ Retire(c)
  \/ \E c \in KeyCaller : KeyStatementFails(c)
  \/ \E old \in SUBSET Key : CleanKeys(old)
  \/ \E k \in Key : PassExpiry(k)
  \/ \E mode \in KeyMode : KeyRestart(mode)

KeySpec == KeyInit /\ [][KeyNext]_keyVars

-----------------------------------------------------------------------------
Authenticated(c, k) == keyCall[c].step = "done" /\ keyCall[c].key = k

(* Once a revocation or a rotation of a key has been answered, no              *)
(* authentication that begins later accepts it, in whichever mode, whatever    *)
(* else was under way, and across restarts and cleaning.                       *)
RevocationFinal ==
  \A c \in KeyClient, k \in Key : Authenticated(c, k) => k \notin keyCall[c].gone

(* A request is turned away only if none of its keys would do: one that was    *)
(* accepted when the request began has been revoked, has expired or has gone   *)
(* since.                                                                      *)
RejectionJustified ==
  \A c \in KeyClient : Authenticated(c, NoKey) => keyCall[c].live \cap LiveKeys = {}

(* A key and the one issued to replace it are never accepted side by side: a   *)
(* rotation revokes first, whichever of its statements fails.                  *)
SuccessorMeansRevoked ==
  \A k \in Key : keyParent[k] # NoKey => Stored(keyParent[k]).status # "active"

(* With the table, an authentication that begins after a key has expired does  *)
(* not accept it.                                                              *)
ExpiredRejectedByTable ==
  \A c \in KeyClient, k \in Key :
    keyMode = "mysql" /\ Authenticated(c, k) => k \notin keyCall[c].past

\* A key that has no row yet: it is not drawn, or a call is about to insert it.
ToBeIssued(k) ==
  \/ k > keysDrawn
  \/ \E c \in KeyCaller : keyCall[c].step = "insert" /\ keyCall[c].fresh = k

KeyState(k) ==
  IF \E mode \in KeyMode : keyStore[mode][k].status = "active" THEN "valid"
  ELSE IF ToBeIssued(k) THEN "unissued" ELSE "withdrawn"

\* How far the request of a caller is: a row that it has selected and that was
\* active assures it of its key.
KeyRequest(call) ==
  CASE call.step = "select" -> [phase |-> "asking", for |-> NoKey]
    [] call.step = "check" ->
         IF call.row.status = "active" THEN [phase |-> "assured", for |-> Head(call.keys)]
                                       ELSE [phase |-> "asking", for |-> NoKey]
    [] call.step = "done" /\ call.key # NoKey -> [phase |-> "served", for |-> call.key]
    [] OTHER -> [phase |-> "idle", for |-> NoKey]

KeysOnRecord == [k \in Key |-> [state |-> KeyState(k), owner |-> k]]
KeyRequests == [c \in KeyClient |-> KeyRequest(keyCall[c])]

(* In either mode, across restarts into the other one, and with rotations that *)
(* stop half way, keys are issued once and withdrawn for good, and a request   *)
(* is served only for a key that was valid after it began.                     *)
KeyLedger == INSTANCE AccessLedger WITH
               Credential <- Key, Owner <- Key, Nobody <- NoKey, Asker <- KeyClient,
               ledger <- KeysOnRecord, asked <- KeyRequests
KeysImplementAccess == KeyLedger!Spec

(* "Supports key generation, revocation, rotation, usage tracking, and expiry. *)
(* When MySQL is unavailable, falls back to an in-memory Map": the same in     *)
(* either mode.                                                                *)
ExpiredRejected ==
  \A c \in KeyClient, k \in Key : Authenticated(c, k) => k \notin keyCall[c].past
=============================================================================
