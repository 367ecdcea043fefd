------------------------------- MODULE WebApi -------------------------------
(***************************************************************************)
(* The accounts of the web API, server/web/api.php, with their keys, the   *)
(* links that reset a password, and the audit table.  Every request is a   *)
(* PHP process of its own and takes no transaction: an action is one SQL   *)
(* statement, and what the request then does with its result.              *)
(*                                                                         *)
(* Left out: passwords, which a request knows or does not; names, profiles *)
(* and time stamps; wrappers, chat and administration.  All requests name  *)
(* one address: accounts of different ones do not meet.  The schema is not *)
(* in the repository: nothing is assumed of it but that ids are new.       *)
(***************************************************************************)
EXTENDS Naturals, Sequences

CONSTANTS
  WebClient,    \* clients, each with one request in flight
  MaxAccounts,  \* bound: accounts that are registered
  MaxWebKeys,   \* bound: keys that are issued
  MaxResets,    \* bound: resets that are requested
  MaxWebCalls   \* bound: requests that are made

Account == 1 .. MaxAccounts
WebKey == 1 .. MaxWebKeys
Reset == 1 .. MaxResets
None == 0

ASSUME WebBounds == /\ MaxAccounts \in Nat \ {0}
                    /\ MaxWebKeys \in Nat
                    /\ MaxResets \in Nat
                    /\ MaxWebCalls \in Nat

VARIABLES
  accounts,     \* table users: whether there, and the column password_reset_token
  webKeys,      \* table api_keys: the owner of each key, and whether it is there
  resets,       \* table password_resets
  resetPast,    \* resets whose hour has passed
  auditTable,   \* table audit_log, by id
  webCall,      \* the request each client has in flight
  webMade,      \* how many requests were made
  webGone,      \* history: keys that their owner was answered to be deleted
  resetSets,    \* history: how often each reset has set a password (2: or more)
  resetRaced,   \* history: resets of two confirmations at once, or of one cut short
  auditRaced    \* history: two requests were between their SELECT and INSERT

webVars == <<accounts, webKeys, resets, resetPast, auditTable, webCall, webMade, webGone,
             resetSets, resetRaced, auditRaced>>

WebOperation == {"none", "register", "login", "reset_password", "reset_password_confirm",
                 "delete_account", "change_password", "create_api_key", "delete_api_key",
                 "push_audit"}
\* Those that call requireUser.
NeedsUser == {"delete_account", "change_password", "create_api_key", "delete_api_key",
              "push_audit"}

WebStep == {"idle", "key", "user", "account", "addUser", "findKey", "addKey", "removeKey",
            "addReset", "findReset", "findLegacy", "verify", "set", "setLegacy", "mark",
            "readLast", "addRow", "removeUser"}

\* barred: the key or its account had been deleted when the request began (history).
WebCallRecord ==
  [step: WebStep, op: WebOperation, user: Account \cup {None}, key: WebKey \cup {None},
   reset: Reset \cup {None}, last: Nat, barred: BOOLEAN]

NoWebCall == [step |-> "idle", op |-> "none", user |-> None, key |-> None, reset |-> None,
              last |-> 0, barred |-> FALSE]

WebTypeOK ==
  /\ accounts \in [Account -> [state: {"none", "open", "deleted"}, reset: Reset \cup {None}]]
  /\ webKeys \in [WebKey -> [user: Account \cup {None}, web: BOOLEAN, there: BOOLEAN]]
  /\ resets \in [Reset -> [drawn: BOOLEAN, user: Account \cup {None}, used: BOOLEAN]]
  /\ resetPast \subseteq Reset
  /\ auditTable \in Seq([previous: Nat, hash: Nat])
  /\ webCall \in [WebClient -> WebCallRecord]
  /\ webMade \in 0 .. MaxWebCalls
  /\ webGone \subseteq WebKey
  /\ resetSets \in [Reset -> 0 .. 2]
  /\ resetRaced \subseteq Reset
  /\ auditRaced \in BOOLEAN

\* Nobody is registered, or one account is, with its session key and audit row.
WebInit ==
  /\ \E n \in {0, 1} :
       /\ accounts = [u \in Account |->
                        [state |-> IF u <= n THEN "open" ELSE "none", reset |-> None]]
       /\ webKeys = [k \in WebKey |-> [user |-> IF k <= n THEN 1 ELSE None,
                                       web |-> k <= n, there |-> k <= n]]
       /\ auditTable = [i \in 1 .. n |-> [previous |-> 0, hash |-> 1]]
  /\ resets = [t \in Reset |-> [drawn |-> FALSE, user |-> None, used |-> FALSE]]
  /\ resetPast = {}
  /\ webCall = [c \in WebClient |-> NoWebCall]
  /\ webMade = 0
  /\ webGone = {}
  /\ resetSets = [t \in Reset |-> 0]
  /\ resetRaced = {}
  /\ auditRaced = FALSE

-----------------------------------------------------------------------------
Open(u) == accounts[u].state = "open"
OpenAccounts == {u \in Account : Open(u)}

At(c, step) == webCall[c].step = step
Move(c, call) == webCall' = [webCall EXCEPT ![c] = call]
Go(c, step) == Move(c, [webCall[c] EXCEPT !.step = step])
\* An answer, with a result or an error.
Answer(c) == Move(c, NoWebCall)

\* What a statement leaves alone that changes no table.
OnlyReads == UNCHANGED <<webMade, accounts, webKeys, resets, resetPast, auditTable, webGone,
                         resetSets, resetRaced, auditRaced>>

\* An id that no row has had yet.
IsNew(n, used) == n \notin used /\ \A m \in used : m < n
NewAccount(u) == IsNew(u, {v \in Account : accounts[v].state # "none"})
NewKey(k) == IsNew(k, {l \in WebKey : webKeys[l].user # None})

WebBegin(c) ==
  /\ At(c, "idle")
  /\ webMade < MaxWebCalls
  /\ webMade' = webMade + 1
  /\ \/ \E op \in {"register", "login", "reset_password"} :
          Move(c, [NoWebCall EXCEPT !.step = "account", !.op = op])
     \/ \E t \in Reset :
          /\ resets[t].drawn
          /\ Move(c, [NoWebCall EXCEPT !.step = "findReset", !.op = "reset_password_confirm",
                                       !.reset = t])
     \/ \E op \in NeedsUser, k \in WebKey :
          /\ webKeys[k].user # None
          /\ Move(c, [NoWebCall EXCEPT !.step = "key", !.op = op, !.key = k,
                                       !.barred = k \in webGone \/ ~Open(webKeys[k].user)])
  /\ UNCHANGED <<accounts, webKeys, resets, resetPast, auditTable, webGone, resetSets, resetRaced,
                 auditRaced>>

\* A statement throws or the process ends.  What was executed stays.
WebFail(c) ==
  /\ ~At(c, "idle")
  /\ Answer(c)
  /\ resetRaced' = IF At(c, "mark") THEN resetRaced \cup {webCall[c].reset} ELSE resetRaced
  /\ UNCHANGED <<webMade, accounts, webKeys, resets, resetPast, auditTable, webGone, resetSets,
                 auditRaced>>

-----------------------------------------------------------------------------
(* authUser: the row of the key, then the row of its owner.  Nothing in the    *)
(* code sets the columns is_active and expires_at, which are checked as well.  *)

FirstStep(op) ==
  CASE op = "change_password" -> "verify"
    [] op = "create_api_key" -> "addKey"
    [] op = "delete_api_key" -> "removeKey"
    [] op \in {"delete_account", "push_audit"} -> "readLast"

CheckToken(c) ==
  /\ At(c, "key")
  /\ LET key == webKeys[webCall[c].key]
     IN  IF key.there
         THEN Move(c, [webCall[c] EXCEPT !.step = "user", !.user = key.user])
         ELSE Answer(c)
  /\ OnlyReads

\* Slip: the row of the key is enough.
CheckUser_KeyOnly(c) ==
  /\ At(c, "user")
  /\ Go(c, FirstStep(webCall[c].op))
  /\ OnlyReads

CheckUser(c) ==
  /\ At(c, "user")
  /\ IF Open(webCall[c].user) THEN Go(c, FirstStep(webCall[c].op)) ELSE Answer(c)
  /\ OnlyReads

-----------------------------------------------------------------------------
(* Accounts and keys.                                                          *)

\* The row of an address.  register refuses one that is there; a reset of one
\* that is not is answered like any other.
FindAccount(c) ==
  /\ At(c, "account")
  /\ LET op == webCall[c].op
     IN  \/ op = "register" /\ OpenAccounts = {} /\ Go(c, "addUser")
         \/ (op = "register" <=> OpenAccounts # {}) /\ Answer(c)
         \/ \E u \in OpenAccounts :
              /\ op # "register"
              /\ Move(c, [webCall[c] EXCEPT !.user = u,
                         !.step = IF op = "login" THEN "findKey" ELSE "addReset"])
  /\ OnlyReads

AddUser(c) ==
  /\ At(c, "addUser")
  /\ \E u \in Account :
       /\ NewAccount(u)
       /\ accounts' = [accounts EXCEPT ![u].state = "open"]
       /\ Move(c, [webCall[c] EXCEPT !.step = "addKey", !.user = u])
  /\ UNCHANGED <<webMade, webKeys, resets, resetPast, auditTable, webGone, resetSets,
                 resetRaced, auditRaced>>

\* login takes a session key of the account, or issues one.
FindKey(c) ==
  /\ At(c, "findKey")
  /\ LET sessions == {k \in WebKey : /\ webKeys[k].there /\ webKeys[k].web
                                     /\ webKeys[k].user = webCall[c].user}
     IN  \/ sessions = {} /\ Go(c, "addKey")
         \/ \E k \in sessions : Move(c, [webCall[c] EXCEPT !.step = "readLast", !.key = k])
  /\ OnlyReads

AddKey(c) ==
  /\ At(c, "addKey")
  /\ \E k \in WebKey :
       /\ NewKey(k)
       /\ webKeys' = [webKeys EXCEPT ![k] = [user |-> webCall[c].user, there |-> TRUE,
                                             web |-> webCall[c].op # "create_api_key"]]
       /\ Move(c, [webCall[c] EXCEPT !.step = "readLast", !.key = k])
  /\ UNCHANGED <<webMade, accounts, resets, resetPast, auditTable, webGone, resetSets,
                 resetRaced, auditRaced>>

\* delete_api_key: any row may be named, and one of another owner stays.
RemoveKey(c) ==
  /\ At(c, "removeKey")
  /\ \E k \in WebKey :
       /\ webKeys[k].user # None
       /\ webKeys' = IF webKeys[k].user = webCall[c].user
                     THEN [webKeys EXCEPT ![k].there = FALSE] ELSE webKeys
       /\ Move(c, [webCall[c] EXCEPT !.step = "readLast", !.key = k])
  /\ UNCHANGED <<webMade, accounts, resets, resetPast, auditTable, webGone, resetSets,
                 resetRaced, auditRaced>>

\* delete_account, after its row in the audit table.  Keys stay where they are.
RemoveUser(c) ==
  /\ At(c, "removeUser")
  /\ accounts' = [accounts EXCEPT ![webCall[c].user] = [state |-> "deleted", reset |-> None]]
  /\ Answer(c)
  /\ UNCHANGED <<webMade, webKeys, resets, resetPast, auditTable, webGone, resetSets,
                 resetRaced, auditRaced>>

-----------------------------------------------------------------------------
(* Passwords.                                                                  *)

\* The row goes into its table or, if that fails, into columns of the account.
AddReset(c) ==
  /\ At(c, "addReset")
  /\ LET u == webCall[c].user
     IN  \E t \in Reset, inTable \in BOOLEAN :
           /\ IsNew(t, {s \in Reset : resets[s].drawn})
           /\ resets' = [resets EXCEPT ![t] = [drawn |-> TRUE, used |-> FALSE,
                                               user |-> IF inTable THEN u ELSE None]]
           /\ accounts' = IF ~inTable /\ Open(u)
                          THEN [accounts EXCEPT ![u].reset = t] ELSE accounts
  /\ Go(c, "readLast")
  /\ UNCHANGED <<webMade, webKeys, resetPast, auditTable, webGone, resetSets, resetRaced,
                 auditRaced>>

ResetExpires(t) ==
  /\ resets[t].drawn /\ t \notin resetPast
  /\ resetPast' = resetPast \cup {t}
  /\ UNCHANGED <<webMade, accounts, webKeys, resets, auditTable, webCall, webGone, resetSets,
                 resetRaced, auditRaced>>

\* Another confirmation has found the reset and not marked it yet.
Confirming(c, t) ==
  \E d \in WebClient \ {c} :
    webCall[d].reset = t /\ webCall[d].step \in {"set", "setLegacy", "mark"}

\* A confirmation found reset t, of account u.
Found(c, step, u) ==
  /\ Move(c, [webCall[c] EXCEPT !.step = step, !.user = u])
  /\ resetRaced' = IF Confirming(c, webCall[c].reset)
                   THEN resetRaced \cup {webCall[c].reset} ELSE resetRaced

\* Slip: a used reset is found again.
FindReset_Used(c) ==
  /\ At(c, "findReset")
  /\ LET t == webCall[c].reset
     IN  IF resets[t].user # None /\ t \notin resetPast
         THEN Found(c, "set", resets[t].user)
         ELSE Go(c, "findLegacy") /\ UNCHANGED resetRaced
  /\ UNCHANGED <<webMade, accounts, webKeys, resets, resetPast, auditTable, webGone, resetSets,
                 auditRaced>>

FindReset(c) ==
  /\ At(c, "findReset")
  /\ LET t == webCall[c].reset
     IN  IF resets[t].user # None /\ ~resets[t].used /\ t \notin resetPast
         THEN Found(c, "set", resets[t].user)
         ELSE Go(c, "findLegacy") /\ UNCHANGED resetRaced
  /\ UNCHANGED <<webMade, accounts, webKeys, resets, resetPast, auditTable, webGone, resetSets,
                 auditRaced>>

FindLegacy(c) ==
  /\ At(c, "findLegacy")
  /\ LET holders == {u \in OpenAccounts :
                       accounts[u].reset = webCall[c].reset /\ webCall[c].reset \notin resetPast}
     IN  \/ holders = {} /\ Answer(c) /\ UNCHANGED resetRaced
         \/ \E u \in holders : Found(c, "setLegacy", u)
  /\ UNCHANGED <<webMade, accounts, webKeys, resets, resetPast, auditTable, webGone, resetSets,
                 auditRaced>>

\* change_password: the current one has to match, and the row to be there.
VerifyPassword(c) ==
  /\ At(c, "verify")
  /\ IF Open(webCall[c].user) THEN Go(c, "set") ELSE Answer(c)
  /\ OnlyReads

Once(n) == IF n < 2 THEN n + 1 ELSE n

\* UPDATE users SET password_hash.  The old way clears the columns as well.
SetPassword(c) ==
  /\ At(c, "set") \/ At(c, "setLegacy")
  /\ LET call == webCall[c]
         confirms == call.op = "reset_password_confirm"
     IN  /\ Go(c, IF confirms /\ call.step = "set" THEN "mark" ELSE "readLast")
         /\ accounts' = IF call.step = "setLegacy"
                        THEN [accounts EXCEPT ![call.user].reset = None] ELSE accounts
         /\ resetSets' = IF confirms
                         THEN [resetSets EXCEPT ![call.reset] = Once(@)] ELSE resetSets
  /\ UNCHANGED <<webMade, webKeys, resets, resetPast, auditTable, webGone, resetRaced,
                 auditRaced>>

MarkUsed(c) ==
  /\ At(c, "mark")
  /\ resets' = [resets EXCEPT ![webCall[c].reset].used = TRUE]
  /\ Go(c, "readLast")
  /\ UNCHANGED <<webMade, accounts, webKeys, resetPast, auditTable, webGone, resetSets,
                 resetRaced, auditRaced>>

-----------------------------------------------------------------------------
(* auditLog, and the same two statements in push_audit.                        *)

LastHash == IF auditTable = <<>> THEN 0 ELSE auditTable[Len(auditTable)].hash

\* Slip: rows are taken in ascending order.
ReadLast_First(c) ==
  /\ At(c, "readLast")
  /\ Move(c, [webCall[c] EXCEPT !.step = "addRow",
                !.last = IF auditTable = <<>> THEN 0 ELSE auditTable[1].hash])
  /\ auditRaced' = (auditRaced \/ \E d \in WebClient : At(d, "addRow"))
  /\ UNCHANGED <<webMade, accounts, webKeys, resets, resetPast, auditTable, webGone, resetSets,
                 resetRaced>>

ReadLast(c) ==
  /\ At(c, "readLast")
  /\ Move(c, [webCall[c] EXCEPT !.step = "addRow", !.last = LastHash])
  /\ auditRaced' = (auditRaced \/ \E d \in WebClient : At(d, "addRow"))
  /\ UNCHANGED <<webMade, accounts, webKeys, resets, resetPast, auditTable, webGone, resetSets,
                 resetRaced>>

\* The hash is over the last one, the kind of event and the second, and not the
\* row's id: rows that follow the same one may have the same hash.
AddRow(c) ==
  /\ At(c, "addRow")
  /\ LET call == webCall[c]
         twins == {auditTable[i].hash : i \in {j \in DOMAIN auditTable :
                                                 auditTable[j].previous = call.last}}
     IN  /\ \E hash \in twins \cup {Len(auditTable) + 1} :
              auditTable' = Append(auditTable, [previous |-> call.last, hash |-> hash])
         /\ IF call.op = "delete_account" THEN Go(c, "removeUser") ELSE Answer(c)
         /\ webGone' = IF call.op = "delete_api_key" /\ webKeys[call.key].user = call.user
                       THEN webGone \cup {call.key} ELSE webGone
  /\ UNCHANGED <<webMade, accounts, webKeys, resets, resetPast, resetSets, resetRaced,
                 auditRaced>>

WebNext ==
  \/ \E c \in WebClient :
       \/ WebBegin(c) \/ WebFail(c) \/ CheckToken(c) \/ CheckUser(c)
       \/ FindAccount(c) \/ AddUser(c) \/ FindKey(c) \/ AddKey(c) \/ RemoveKey(c) \/ RemoveUser(c)
       \/ AddReset(c) \/ FindReset(c) \/ FindLegacy(c)
       \/ VerifyPassword(c) \/ SetPassword(c) \/ MarkUsed(c)
       \/ ReadLast(c) \/ AddRow(c)
  \/ \E t \in Reset : ResetExpires(t)

WebSpec == WebInit /\ [][WebNext]_webVars

-----------------------------------------------------------------------------
(* No request is served that began after its key was answered deleted, or the  *)
(* account of its key was deleted: also if another request issued the key in   *)
(* between, or the address was registered again.                               *)
DeletedStaysOut ==
  \A c \in WebClient :
    webCall[c].barred => webCall[c].step \in {"key", "user"}

(* A reset sets the password of its account once, unless two requests          *)
(* confirmed it at the same time or one ended between its two UPDATEs.         *)
ResetSetsOnce == \A t \in Reset \ resetRaced : resetSets[t] < 2

(* While no two requests were between their SELECT and INSERT at once, each    *)
(* row of the audit table links to the row before it, by a hash of its own.    *)
TableForksNeedOverlap ==
  ~auditRaced => \A i \in DOMAIN auditTable : auditTable[i] = [previous |-> i - 1, hash |-> i]

WebKeyState(key) ==
  IF key.user = None THEN "unissued"
  ELSE IF key.there /\ Open(key.user) THEN "valid" ELSE "withdrawn"

\* How far a request that needs a user is: the row of its key assures it of an
\* account, as long as that is there.
WebRequest(call) ==
  IF call.op \notin NeedsUser THEN [phase |-> "idle", for |-> None]
  ELSE CASE call.step = "key" -> [phase |-> "asking", for |-> None]
         [] call.step = "user" ->
              IF Open(call.user) THEN [phase |-> "assured", for |-> call.user]
                                 ELSE [phase |-> "asking", for |-> None]
         [] OTHER -> [phase |-> "served", for |-> call.user]

WebKeysOnRecord ==
  [k \in WebKey |-> [state |-> WebKeyState(webKeys[k]), owner |-> webKeys[k].user]]
WebRequests == [c \in WebClient |-> WebRequest(webCall[c])]

(* Keys that are deleted, or whose account is, stay withdrawn, and a request   *)
(* acts for an account only if a key of that account was valid after it began, *)
(* although authUser reads key and account by two statements.                  *)
WebLedger == INSTANCE AccessLedger WITH
               Credential <- WebKey, Owner <- Account, Nobody <- None, Asker <- WebClient,
               ledger <- WebKeysOnRecord, asked <- WebRequests
WebKeysImplementAccess == WebLedger!Spec
=============================================================================
