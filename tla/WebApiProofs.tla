----------------------------- MODULE WebApiProofs -----------------------------
(***************************************************************************)
(* Theorems about WebApi, for every number of clients, accounts, keys and  *)
(* resets: whichever statements of whichever requests interleave, fail or  *)
(* are cut off.                                                            *)
(***************************************************************************)
EXTENDS WebApi, SequenceTheorems, TLAPS

-----------------------------------------------------------------------------
(* What the step of a request says about its other fields.                     *)

Flow(call) ==
  /\ call.step \notin {"idle", "key", "account", "addUser", "findReset", "findLegacy"} =>
       call.user # None
  /\ call.step \in {"key", "user"} => call.op \in NeedsUser
  /\ call.step \in {"account", "addUser"} => call.op \notin NeedsUser
  /\ call.step = "key" => call.key # None
  /\ call.reset # None <=> call.op = "reset_password_confirm"
  /\ call.step \in {"findReset", "findLegacy", "setLegacy", "mark"} => call.reset # None
  /\ call.op = "delete_api_key" =>
       call.step \in {"key", "user", "removeKey", "readLast", "addRow"}
  /\ call.step = "verify" => call.op = "change_password"

(* What a request remembers of the tables still holds of them: who it acts for *)
(* is or was registered, its key was issued, the key it deletes is gone, and a *)
(* request that came too late has a key or an account that is gone.            *)
Grounded(call, users, keys, gone) ==
  /\ call.user # None => users[call.user].state # "none"
  /\ call.key # None => keys[call.key].user # None
  /\ call.op = "delete_api_key" /\ call.step \in {"readLast", "addRow"} =>
       /\ call.key # None
       /\ keys[call.key].user = call.user => ~keys[call.key].there
  /\ call.barred =>
       \/ /\ call.step = "key"
          /\ call.key \in gone \/ users[keys[call.key].user].state = "deleted"
       \/ /\ call.step = "user"
          /\ users[call.user].state = "deleted"

(* A key has an owner who was registered, as has a reset; no deleted key is    *)
(* there.                                                                      *)
RowsInv ==
  /\ \A k \in WebKey :
       /\ webKeys[k].there => webKeys[k].user # None
       /\ webKeys[k].user # None => accounts[webKeys[k].user].state # "none"
       /\ k \in webGone => webKeys[k].user # None /\ ~webKeys[k].there
  /\ \A t \in Reset : resets[t].user # None => accounts[resets[t].user].state # "none"

CallsInv == \A c \in WebClient : /\ Flow(webCall[c])
                                 /\ Grounded(webCall[c], accounts, webKeys, webGone)

WebInv == WebTypeOK /\ RowsInv /\ CallsInv

(* What a step never does to the tables.                                       *)
TablesGrow ==
  /\ \A u \in Account :
       /\ accounts[u].state # "none" => accounts'[u].state # "none"
       /\ accounts[u].state = "deleted" => accounts'[u].state = "deleted"
  /\ \A k \in WebKey :
       webKeys[k].user # None => /\ webKeys'[k].user = webKeys[k].user
                                 /\ webKeys'[k].there => webKeys[k].there
  /\ webGone \subseteq webGone'

UserTable == [Account -> [state: {"none", "open", "deleted"}, reset: Reset \cup {None}]]
KeyTable == [WebKey -> [user: Account \cup {None}, web: BOOLEAN, there: BOOLEAN]]
ResetTable == [Reset -> [drawn: BOOLEAN, user: Account \cup {None}, used: BOOLEAN]]

(* The types of all variables but webCall, after a step.                       *)
TablesTyped ==
  /\ accounts' \in UserTable
  /\ webKeys' \in KeyTable
  /\ resets' \in ResetTable
  /\ auditTable' \in Seq([previous: Nat, hash: Nat])
  /\ resetPast' \subseteq Reset /\ webMade' \in 0 .. MaxWebCalls
  /\ webGone' \subseteq WebKey /\ resetSets' \in [Reset -> 0 .. 2]
  /\ resetRaced' \subseteq Reset /\ auditRaced' \in BOOLEAN

-----------------------------------------------------------------------------
(* A call that is grounded stays so while the tables only grow.                *)
LEMMA StaysGrounded ==
  ASSUME WebTypeOK, TablesGrow, TablesTyped,
         NEW c \in WebClient, Flow(webCall[c]), Grounded(webCall[c], accounts, webKeys, webGone)
  PROVE  Grounded(webCall[c], accounts', webKeys', webGone')
  <1> DEFINE call == webCall[c]
  <1>1. call \in WebCallRecord BY DEF WebTypeOK
  <1>2. /\ call.user # None => call.user \in Account
        /\ call.key # None => call.key \in WebKey
        /\ call.key # None => webKeys[call.key].user \in Account
    BY <1>1 DEF WebCallRecord, Grounded, WebTypeOK
  <1>3. call.user # None => accounts'[call.user].state # "none"
    BY <1>2 DEF Grounded, TablesGrow
  <1>4. call.key # None => webKeys'[call.key].user = webKeys[call.key].user
    BY <1>2 DEF Grounded, TablesGrow
  <1>5. call.op = "delete_api_key" /\ call.step \in {"readLast", "addRow"} =>
          /\ call.key # None
          /\ webKeys'[call.key].user = call.user => ~webKeys'[call.key].there
    BY <1>2, <1>4 DEF Grounded, TablesGrow
  <1>6. ASSUME call.barred
        PROVE  \/ /\ call.step = "key"
                  /\ call.key \in webGone' \/ accounts'[webKeys'[call.key].user].state = "deleted"
               \/ /\ call.step = "user"
                  /\ accounts'[call.user].state = "deleted"
    <2>1. CASE call.step = "key"
      BY <1>2, <1>4, <1>6, <2>1 DEF Grounded, TablesGrow, Flow
    <2>2. CASE call.step = "user"
      BY <1>2, <1>6, <2>2 DEF Grounded, TablesGrow, Flow
    <2> QED BY <1>6, <2>1, <2>2 DEF Grounded
  <1> QED BY <1>2, <1>3, <1>4, <1>5, <1>6 DEF Grounded

(* A step of one request keeps the invariant if its own call stays in order.   *)
LEMMA OneMoves ==
  ASSUME WebInv, NEW c \in WebClient, NEW call \in WebCallRecord, Move(c, call), Flow(call),
         Grounded(call, accounts', webKeys', webGone'), TablesGrow, TablesTyped, RowsInv'
  PROVE  WebInv' /\ TablesGrow
  <1>1. /\ webCall' \in [WebClient -> WebCallRecord]
        /\ webCall'[c] = call
        /\ \A d \in WebClient \ {c} : webCall'[d] = webCall[d]
    BY DEF WebInv, WebTypeOK, Move
  <1>2. WebTypeOK' BY <1>1 DEF WebTypeOK, TablesTyped, UserTable, KeyTable, ResetTable
  <1>3. \A d \in WebClient : Flow(webCall'[d]) BY <1>1 DEF WebInv, CallsInv
  <1>4. ASSUME NEW d \in WebClient
        PROVE  Grounded(webCall'[d], accounts', webKeys', webGone')
    <2>1. CASE d = c BY <1>1, <2>1
    <2>2. CASE d # c
      BY <1>1, <2>2, StaysGrounded DEF WebInv, CallsInv
    <2> QED BY <2>1, <2>2
  <1> QED BY <1>2, <1>3, <1>4 DEF WebInv, CallsInv

(* The call a client starts from, and the answer.                              *)
LEMMA Answered ==
  /\ NoWebCall \in WebCallRecord /\ Flow(NoWebCall)
  /\ \A users, keys, gone : Grounded(NoWebCall, users, keys, gone)
  BY WebBounds DEF NoWebCall, WebCallRecord, Flow, Grounded, WebStep, WebOperation, None, NeedsUser

(* A statement that changes no table, and one that leaves accounts, keys and   *)
(* resets alone.                                                               *)
LEMMA TablesStay ==
  ASSUME WebInv, UNCHANGED <<accounts, webKeys, resets, webGone>>
  PROVE  TablesGrow /\ RowsInv'
  BY DEF WebInv, TablesGrow, RowsInv

(* A statement that only reads keeps the invariant if its own call does.       *)
LEMMA ReadsKeep ==
  ASSUME WebInv, OnlyReads, NEW c \in WebClient,
         NEW call \in WebCallRecord, Move(c, call), Flow(call),
         Grounded(call, accounts, webKeys, webGone)
  PROVE  WebInv' /\ TablesGrow
  <1>1. UNCHANGED <<accounts, webKeys, resets, webGone>> BY DEF OnlyReads
  <1>2. TablesTyped
    BY DEF WebInv, WebTypeOK, OnlyReads, TablesTyped, UserTable, KeyTable, ResetTable
  <1>3. TablesGrow /\ RowsInv' BY <1>1, TablesStay
  <1>4. Grounded(call, accounts', webKeys', webGone') BY <1>1
  <1> QED BY <1>2, <1>3, <1>4, OneMoves

-----------------------------------------------------------------------------
(* The actions, one by one.                                                    *)

(* The invariant holds at first, with and without an account.                  *)
LEMMA WebInitHolds == WebInit => WebInv
  <1> SUFFICES ASSUME WebInit PROVE WebInv OBVIOUS
  <1> USE WebBounds DEF Account, WebKey, Reset, None
  <1>1. PICK n \in {0, 1} :
       /\ accounts = [u \in Account |->
                        [state |-> IF u <= n THEN "open" ELSE "none", reset |-> None]]
       /\ webKeys = [k \in WebKey |-> [user |-> IF k <= n THEN 1 ELSE None,
                                       web |-> k <= n, there |-> k <= n]]
       /\ auditTable = [i \in 1 .. n |-> [previous |-> 0, hash |-> 1]]
    BY DEF WebInit
  <1>2. accounts \in UserTable BY <1>1 DEF UserTable
  <1>3. webKeys \in KeyTable
    <2>1. \A k \in WebKey : (k <= n) \in BOOLEAN OBVIOUS
    <2>2. \A k \in WebKey : (IF k <= n THEN 1 ELSE None) \in Account \cup {None} OBVIOUS
    <2> QED BY <1>1, <2>1, <2>2 DEF KeyTable
  <1>4. auditTable \in Seq([previous: Nat, hash: Nat])
    <2>1. n \in Nat /\ \A i \in 1 .. n : [previous |-> 0, hash |-> 1] \in [previous: Nat, hash: Nat]
      OBVIOUS
    <2> QED BY <1>1, <2>1, SeqDef
  <1>5. /\ resets \in ResetTable
        /\ \A t \in Reset : resets[t].user = None
    BY DEF WebInit, ResetTable
  <1>6. /\ resetPast \subseteq Reset /\ webMade \in 0 .. MaxWebCalls /\ webGone = {}
        /\ resetSets \in [Reset -> 0 .. 2]
        /\ resetRaced \subseteq Reset /\ auditRaced \in BOOLEAN
    <2>1. webMade \in 0 .. MaxWebCalls
      <3>1. webMade = 0 /\ MaxWebCalls \in Nat BY DEF WebInit
      <3> QED BY <3>1
    <2>2. resetSets \in [Reset -> 0 .. 2]
      <3>1. resetSets = [t \in Reset |-> 0] BY DEF WebInit
      <3>2. 0 \in 0 .. 2 OBVIOUS
      <3> QED BY <3>1, <3>2
    <2> QED BY <2>1, <2>2 DEF WebInit
  <1>7. CallsInv /\ webCall \in [WebClient -> WebCallRecord]
    BY Answered DEF WebInit, CallsInv
  <1>8. WebTypeOK
    BY <1>2, <1>3, <1>4, <1>5, <1>6, <1>7 DEF WebTypeOK, UserTable, KeyTable, ResetTable
  <1>9. ASSUME NEW k \in WebKey
        PROVE  /\ webKeys[k].there => webKeys[k].user # None
               /\ webKeys[k].user # None => accounts[webKeys[k].user].state # "none"
    <2>1. webKeys[k].there => k <= n BY <1>1
    <2>2. webKeys[k].user = IF k <= n THEN 1 ELSE None BY <1>1
    <2>3. k <= n => accounts[1].state = "open" BY <1>1
    <2> QED BY <2>1, <2>2, <2>3
  <1> QED BY <1>5, <1>6, <1>7, <1>8, <1>9 DEF WebInv, RowsInv

(* A request that begins has taken nothing from the tables but its key.        *)
LEMMA BeginKeeps ==
  ASSUME WebInv, NEW c \in WebClient, WebBegin(c)
  PROVE  WebInv' /\ TablesGrow
  <1>1. UNCHANGED <<accounts, webKeys, resets, resetPast, auditTable, webGone, resetSets,
                    resetRaced, auditRaced>>
    BY DEF WebBegin
  <1>2. webMade' \in 0 .. MaxWebCalls
    <2>1. webMade < MaxWebCalls /\ webMade' = webMade + 1 BY DEF WebBegin
    <2>2. webMade \in 0 .. MaxWebCalls BY DEF WebInv, WebTypeOK
    <2> QED BY <2>1, <2>2, WebBounds
  <1>3. TablesTyped
    BY <1>1, <1>2 DEF WebInv, WebTypeOK, TablesTyped, UserTable, KeyTable, ResetTable
  <1>4. \E call \in WebCallRecord :
          Move(c, call) /\ Flow(call) /\ Grounded(call, accounts, webKeys, webGone)
    <2> DEFINE asks(op) == [NoWebCall EXCEPT !.step = "account", !.op = op]
               confirms(t) == [NoWebCall EXCEPT !.step = "findReset",
                                                !.op = "reset_password_confirm", !.reset = t]
               late(k) == k \in webGone \/ ~Open(webKeys[k].user)
               shows(op, k, b) == [NoWebCall EXCEPT !.step = "key", !.op = op, !.key = k,
                                                    !.barred = b]
               Good(q) == q \in WebCallRecord /\ Flow(q)
                          /\ Grounded(q, accounts, webKeys, webGone)
    <2>1. ASSUME NEW op \in {"register", "login", "reset_password"} PROVE Good(asks(op))
      <3> USE WebBounds, Answered DEF WebCallRecord, NoWebCall, WebStep, WebOperation, NeedsUser,
                                      Account, WebKey, Reset, None
      <3>1. asks(op) \in WebCallRecord OBVIOUS
      <3>2. Flow(asks(op)) BY DEF Flow
      <3>3. Grounded(asks(op), accounts, webKeys, webGone) BY DEF Grounded
      <3> QED BY <3>1, <3>2, <3>3
    <2>2. ASSUME NEW t \in Reset PROVE Good(confirms(t))
      <3> USE WebBounds, Answered DEF WebCallRecord, NoWebCall, WebStep, WebOperation, NeedsUser,
                                      Account, WebKey, Reset, None
      <3>1. confirms(t) \in WebCallRecord OBVIOUS
      <3>2. Flow(confirms(t)) BY DEF Flow
      <3>3. Grounded(confirms(t), accounts, webKeys, webGone) BY DEF Grounded
      <3> QED BY <3>1, <3>2, <3>3
    <2>3. ASSUME NEW op \in NeedsUser, NEW k \in WebKey, webKeys[k].user # None
          PROVE  Good(shows(op, k, late(k)))
      <3>1. late(k) => k \in webGone \/ accounts[webKeys[k].user].state = "deleted"
        <4>1. accounts[webKeys[k].user].state # "none" BY <2>3 DEF WebInv, RowsInv
        <4>2. webKeys[k].user \in Account BY <2>3 DEF WebInv, WebTypeOK
        <4>3. accounts[webKeys[k].user].state \in {"none", "open", "deleted"}
          BY <4>2 DEF WebInv, WebTypeOK
        <4> QED BY <4>1, <4>3 DEF Open
      <3>2. late(k) \in BOOLEAN OBVIOUS
      <3> HIDE DEF late
      <3> USE WebBounds, Answered DEF WebCallRecord, NoWebCall, WebStep, WebOperation, NeedsUser,
                                      Account, WebKey, Reset, None
      <3>3. shows(op, k, late(k)) \in WebCallRecord BY <3>2
      <3>4. Flow(shows(op, k, late(k))) BY <3>2 DEF Flow
      <3>5. Grounded(shows(op, k, late(k)), accounts, webKeys, webGone)
        BY <2>3, <3>1, <3>2 DEF Grounded
      <3> QED BY <3>3, <3>4, <3>5
    <2>4. \/ \E op \in {"register", "login", "reset_password"} : Move(c, asks(op))
          \/ \E t \in Reset : Move(c, confirms(t))
          \/ \E op \in NeedsUser, k \in WebKey :
               webKeys[k].user # None /\ Move(c, shows(op, k, late(k)))
      BY DEF WebBegin
    <2> HIDE DEF asks, confirms, shows
    <2> QED BY <2>1, <2>2, <2>3, <2>4
  <1>5. PICK call \in WebCallRecord :
          Move(c, call) /\ Flow(call) /\ Grounded(call, accounts, webKeys, webGone)
    BY <1>4
  <1>6. TablesGrow /\ RowsInv' BY <1>1, TablesStay
  <1>7. Grounded(call, accounts', webKeys', webGone') BY <1>1, <1>5
  <1> QED BY <1>3, <1>5, <1>6, <1>7, OneMoves

(* A request that is cut off remembers nothing.                                *)
LEMMA FailKeeps ==
  ASSUME WebInv, NEW c \in WebClient, WebFail(c)
  PROVE  WebInv' /\ TablesGrow
  <1>1. UNCHANGED <<webMade, accounts, webKeys, resets, resetPast, auditTable, webGone, resetSets,
                    auditRaced>> /\ Move(c, NoWebCall)
    BY DEF WebFail, Answer
  <1>2. resetRaced' \subseteq Reset
    <2>1. webCall[c].reset \in Reset \cup {None} BY DEF WebInv, WebTypeOK, WebCallRecord
    <2>2. At(c, "mark") => webCall[c].reset # None BY DEF At, WebInv, CallsInv, Flow
    <2>3. resetRaced' = resetRaced \/ (At(c, "mark") /\ resetRaced' = resetRaced \cup {webCall[c].reset})
      BY DEF WebFail
    <2> QED BY <2>1, <2>2, <2>3 DEF WebInv, WebTypeOK
  <1>3. TablesTyped
    BY <1>1, <1>2 DEF WebInv, WebTypeOK, TablesTyped, UserTable, KeyTable, ResetTable
  <1>4. TablesGrow /\ RowsInv' BY <1>1, TablesStay
  <1> QED BY <1>1, <1>3, <1>4, Answered, OneMoves

(* What is known of the request that takes a step.                             *)
LEMMA Acting ==
  ASSUME WebInv, NEW c \in WebClient
  PROVE  /\ webCall[c] \in WebCallRecord
         /\ Flow(webCall[c])
         /\ Grounded(webCall[c], accounts, webKeys, webGone)
         /\ webCall[c].user # None => webCall[c].user \in Account
         /\ webCall[c].key # None => webCall[c].key \in WebKey
         /\ webCall[c].reset # None => webCall[c].reset \in Reset
         /\ webCall[c].step \notin {"key", "user"} => ~webCall[c].barred
  <1>1. webCall[c] \in WebCallRecord BY DEF WebInv, WebTypeOK
  <1>2. Flow(webCall[c]) /\ Grounded(webCall[c], accounts, webKeys, webGone)
    BY DEF WebInv, CallsInv
  <1>3. webCall[c].step \notin {"key", "user"} => ~webCall[c].barred BY <1>2 DEF Grounded
  <1> QED BY <1>1, <1>2, <1>3 DEF WebCallRecord

(* A request that only takes another step.                                     *)
LEMMA Goes ==
  ASSUME WebInv, NEW c \in WebClient, NEW step \in WebStep,
         Flow([webCall[c] EXCEPT !.step = step]),
         webCall[c].step \notin {"key", "user"} \/ ~webCall[c].barred,
         webCall[c].op = "delete_api_key" => step \notin {"readLast", "addRow"}
  PROVE  /\ [webCall[c] EXCEPT !.step = step] \in WebCallRecord
         /\ Grounded([webCall[c] EXCEPT !.step = step], accounts, webKeys, webGone)
  <1> DEFINE q == [webCall[c] EXCEPT !.step = step]
  <1>1. webCall[c] \in WebCallRecord /\ Grounded(webCall[c], accounts, webKeys, webGone)
        /\ ~webCall[c].barred
    BY Acting
  <1>2. q \in WebCallRecord BY <1>1 DEF WebCallRecord
  <1>3. /\ q.step = step /\ q.op = webCall[c].op /\ q.user = webCall[c].user
        /\ q.key = webCall[c].key /\ q.barred = webCall[c].barred
    BY <1>1 DEF WebCallRecord
  <1> QED BY <1>1, <1>2, <1>3 DEF Grounded

(* The owner of a key that is there was registered.                            *)
LEMMA CheckTokenKeeps ==
  ASSUME WebInv, NEW c \in WebClient, CheckToken(c)
  PROVE  WebInv' /\ TablesGrow
  <1> DEFINE call == webCall[c]
             key == webKeys[call.key]
             q == [call EXCEPT !.step = "user", !.user = key.user]
  <1>1. OnlyReads /\ call.step = "key" BY DEF CheckToken, At
  <1>2. call \in WebCallRecord /\ Flow(call) /\ Grounded(call, accounts, webKeys, webGone)
    BY Acting
  <1>3. call.key \in WebKey BY <1>1, <1>2, Acting DEF Flow
  <1>4. key.user \in Account \cup {None} BY <1>3 DEF WebInv, WebTypeOK
  <1>5. CASE ~key.there
    BY <1>1, <1>5, Answered, ReadsKeep DEF CheckToken, Answer
  <1>6. CASE key.there
    <2>1. Move(c, q) BY <1>6 DEF CheckToken
    <2>2. /\ q \in WebCallRecord
          /\ q.step = "user" /\ q.user = key.user /\ q.op = call.op /\ q.key = call.key
          /\ q.reset = call.reset /\ q.barred = call.barred
      BY <1>2, <1>4 DEF WebCallRecord, WebStep
    <2>3. /\ key.user # None /\ call.key \notin webGone
          /\ accounts[key.user].state # "none"
      BY <1>3, <1>6 DEF WebInv, RowsInv
    <2>4. Flow(q) BY <1>1, <1>2, <2>2, <2>3 DEF Flow
    <2>5. Grounded(q, accounts, webKeys, webGone)
      BY <1>1, <1>2, <2>2, <2>3 DEF Grounded
    <2> QED BY <1>1, <2>1, <2>2, <2>4, <2>5, ReadsKeep
  <1> QED BY <1>5, <1>6

(* A request that finds its account open did not come too late.                *)
LEMMA CheckUserKeeps ==
  ASSUME WebInv, NEW c \in WebClient, CheckUser(c)
  PROVE  WebInv' /\ TablesGrow
  <1> DEFINE call == webCall[c]
             q == [call EXCEPT !.step = FirstStep(call.op)]
  <1>1. OnlyReads /\ call.step = "user" BY DEF CheckUser, At
  <1>2. call \in WebCallRecord /\ Flow(call) /\ Grounded(call, accounts, webKeys, webGone)
    BY Acting
  <1>3. CASE ~Open(call.user)
    BY <1>1, <1>3, Answered, ReadsKeep DEF CheckUser, Answer
  <1>4. CASE Open(call.user)
    <2>1. Move(c, q) BY <1>4 DEF CheckUser, Go
    <2>2. call.op \in NeedsUser /\ call.user # None BY <1>1, <1>2 DEF Flow
    <2>3. /\ FirstStep(call.op) \in {"verify", "addKey", "removeKey", "readLast"}
          /\ call.op = "delete_api_key" => FirstStep(call.op) = "removeKey"
          /\ FirstStep(call.op) = "verify" => call.op = "change_password"
      BY <2>2 DEF FirstStep, NeedsUser
    <2>4. FirstStep(call.op) \in WebStep BY <2>3 DEF WebStep
    <2>5. /\ q.step = FirstStep(call.op) /\ q.op = call.op /\ q.user = call.user
          /\ q.key = call.key /\ q.reset = call.reset
      BY <1>2 DEF WebCallRecord
    <2>6. Flow(q) BY <1>1, <1>2, <2>2, <2>3, <2>5 DEF Flow
    <2>7. ~call.barred BY <1>1, <1>2, <1>4 DEF Grounded, Open
    <2>8. q \in WebCallRecord /\ Grounded(q, accounts, webKeys, webGone)
      BY <2>3, <2>4, <2>6, <2>7, Goes
    <2> QED BY <1>1, <2>1, <2>6, <2>8, ReadsKeep
  <1> QED BY <1>3, <1>4

(* The account that is found is a registered one.                              *)
LEMMA FindAccountKeeps ==
  ASSUME WebInv, NEW c \in WebClient, FindAccount(c)
  PROVE  WebInv' /\ TablesGrow
  <1> DEFINE call == webCall[c]
             q(u, step) == [call EXCEPT !.user = u, !.step = step]
  <1>1. OnlyReads /\ call.step = "account" BY DEF FindAccount, At
  <1>2. call \in WebCallRecord /\ Flow(call) /\ Grounded(call, accounts, webKeys, webGone)
        /\ ~call.barred
    BY <1>1, Acting
  <1>3. CASE Answer(c) BY <1>1, <1>3, Answered, ReadsKeep DEF Answer
  <1>4. CASE Go(c, "addUser")
    <2>1. Flow([call EXCEPT !.step = "addUser"]) BY <1>1, <1>2 DEF Flow, WebCallRecord
    <2>2. "addUser" \in WebStep BY DEF WebStep
    <2> QED BY <1>1, <1>2, <1>4, <2>1, <2>2, Goes, ReadsKeep DEF Go
  <1>5. ASSUME NEW u \in OpenAccounts, NEW step \in {"findKey", "addReset"}, Move(c, q(u, step))
        PROVE  WebInv' /\ TablesGrow
    <2>1. u \in Account /\ u # None /\ accounts[u].state = "open"
      BY WebBounds, <1>5 DEF OpenAccounts, Open, Account, None
    <2>2. /\ q(u, step) \in WebCallRecord
          /\ q(u, step).step = step /\ q(u, step).user = u /\ q(u, step).op = call.op
          /\ q(u, step).key = call.key /\ q(u, step).reset = call.reset
          /\ q(u, step).barred = call.barred
      BY <1>2, <1>5, <2>1 DEF WebCallRecord, WebStep
    <2>3. Flow(q(u, step)) BY <1>1, <1>2, <2>1, <2>2 DEF Flow
    <2>4. Grounded(q(u, step), accounts, webKeys, webGone)
      BY <1>2, <2>1, <2>2 DEF Grounded
    <2> HIDE DEF q
    <2> QED BY <1>1, <1>5, <2>2, <2>3, <2>4, ReadsKeep
  <1>6. \/ Answer(c) \/ Go(c, "addUser")
        \/ \E u \in OpenAccounts, step \in {"findKey", "addReset"} : Move(c, q(u, step))
    BY DEF FindAccount
  <1> QED BY <1>3, <1>4, <1>5, <1>6

(* The session key that is found has an owner.                                 *)
LEMMA FindKeyKeeps ==
  ASSUME WebInv, NEW c \in WebClient, FindKey(c)
  PROVE  WebInv' /\ TablesGrow
  <1> DEFINE call == webCall[c]
             q(k) == [call EXCEPT !.step = "readLast", !.key = k]
  <1>1. OnlyReads /\ call.step = "findKey" BY DEF FindKey, At
  <1>2. call \in WebCallRecord /\ Flow(call) /\ Grounded(call, accounts, webKeys, webGone)
        /\ ~call.barred
    BY <1>1, Acting
  <1>3. CASE Go(c, "addKey")
    <2>1. Flow([call EXCEPT !.step = "addKey"]) BY <1>1, <1>2 DEF Flow, WebCallRecord
    <2>2. "addKey" \in WebStep BY DEF WebStep
    <2> QED BY <1>1, <1>2, <1>3, <2>1, <2>2, Goes, ReadsKeep DEF Go
  <1>4. ASSUME NEW k \in WebKey, webKeys[k].there, Move(c, q(k)) PROVE WebInv' /\ TablesGrow
    <2>1. webKeys[k].user # None BY <1>4 DEF WebInv, RowsInv
    <2>2. /\ q(k) \in WebCallRecord
          /\ q(k).step = "readLast" /\ q(k).user = call.user /\ q(k).op = call.op
          /\ q(k).key = k /\ q(k).reset = call.reset /\ q(k).barred = call.barred
      BY <1>2 DEF WebCallRecord, WebStep
    <2>3. Flow(q(k)) BY <1>1, <1>2, <2>1, <2>2 DEF Flow
    <2>4. call.op # "delete_api_key" BY <1>1, <1>2 DEF Flow
    <2>5. Grounded(q(k), accounts, webKeys, webGone)
      BY <1>2, <2>1, <2>2, <2>4 DEF Grounded
    <2> HIDE DEF q
    <2> QED BY <1>1, <1>4, <2>2, <2>3, <2>5, ReadsKeep
  <1>5. Go(c, "addKey") \/ \E k \in WebKey : webKeys[k].there /\ Move(c, q(k)) BY DEF FindKey
  <1> QED BY <1>3, <1>4, <1>5

(* To check a password is to go on, or to end.                                 *)
LEMMA VerifyKeeps ==
  ASSUME WebInv, NEW c \in WebClient, VerifyPassword(c)
  PROVE  WebInv' /\ TablesGrow
  <1> DEFINE call == webCall[c]
  <1>1. OnlyReads /\ call.step = "verify" BY DEF VerifyPassword, At
  <1>2. call \in WebCallRecord /\ Flow(call) /\ ~call.barred BY <1>1, Acting
  <1>3. CASE Answer(c) BY <1>1, <1>3, Answered, ReadsKeep DEF Answer
  <1>4. CASE Go(c, "set")
    <2>1. Flow([call EXCEPT !.step = "set"]) BY <1>1, <1>2 DEF Flow, WebCallRecord
    <2>2. "set" \in WebStep BY DEF WebStep
    <2> QED BY <1>1, <1>2, <1>4, <2>1, <2>2, Goes, ReadsKeep DEF Go
  <1> QED BY <1>3, <1>4 DEF VerifyPassword

(* A new account was none before.                                              *)
LEMMA AddUserKeeps ==
  ASSUME WebInv, NEW c \in WebClient, AddUser(c)
  PROVE  WebInv' /\ TablesGrow
  <1> DEFINE call == webCall[c]
             q(u) == [call EXCEPT !.step = "addKey", !.user = u]
  <1>1. /\ UNCHANGED <<webMade, webKeys, resets, resetPast, auditTable, webGone, resetSets,
                       resetRaced, auditRaced>>
        /\ call.step = "addUser"
    BY DEF AddUser, At
  <1>2. call \in WebCallRecord /\ Flow(call) /\ Grounded(call, accounts, webKeys, webGone)
        /\ ~call.barred
    BY <1>1, Acting
  <1>3. PICK u \in Account : /\ accounts[u].state = "none"
                             /\ accounts' = [accounts EXCEPT ![u].state = "open"]
                             /\ Move(c, q(u))
    BY DEF AddUser, NewAccount, IsNew
  <1>4. /\ accounts' \in UserTable
        /\ accounts'[u].state = "open"
        /\ \A v \in Account \ {u} : accounts'[v] = accounts[v]
    BY <1>3 DEF WebInv, WebTypeOK, UserTable
  <1>5. TablesTyped
    BY <1>1, <1>4 DEF WebInv, WebTypeOK, TablesTyped, KeyTable, ResetTable
  <1>6. TablesGrow BY <1>1, <1>3, <1>4 DEF TablesGrow
  <1>7. RowsInv'
    BY <1>1, <1>3, <1>4 DEF WebInv, WebTypeOK, RowsInv
  <1>8. u # None BY WebBounds DEF Account, None
  <1>9. /\ q(u) \in WebCallRecord
        /\ q(u).step = "addKey" /\ q(u).user = u /\ q(u).op = call.op
        /\ q(u).key = call.key /\ q(u).reset = call.reset /\ q(u).barred = call.barred
    BY <1>2 DEF WebCallRecord, WebStep
  <1>10. Flow(q(u)) BY <1>1, <1>2, <1>8, <1>9 DEF Flow
  <1>11. Grounded(q(u), accounts', webKeys', webGone')
    BY <1>1, <1>2, <1>4, <1>9 DEF Grounded
  <1> HIDE DEF q
  <1> QED BY <1>3, <1>5, <1>6, <1>7, <1>9, <1>10, <1>11, OneMoves

(* A new key had no owner before.                                              *)
LEMMA AddKeyKeeps ==
  ASSUME WebInv, NEW c \in WebClient, AddKey(c)
  PROVE  WebInv' /\ TablesGrow
  <1> DEFINE call == webCall[c]
             row == [user |-> call.user, there |-> TRUE, web |-> call.op # "create_api_key"]
             q(k) == [call EXCEPT !.step = "readLast", !.key = k]
  <1>1. /\ UNCHANGED <<webMade, accounts, resets, resetPast, auditTable, webGone, resetSets,
                       resetRaced, auditRaced>>
        /\ call.step = "addKey"
    BY DEF AddKey, At
  <1>2. call \in WebCallRecord /\ Flow(call) /\ Grounded(call, accounts, webKeys, webGone)
        /\ ~call.barred
    BY <1>1, Acting
  <1>3. PICK k \in WebKey : /\ webKeys[k].user = None
                            /\ webKeys' = [webKeys EXCEPT ![k] = row]
                            /\ Move(c, q(k))
    BY DEF AddKey, NewKey, IsNew
  <1>4. /\ call.user # None /\ call.user \in Account /\ call.op # "delete_api_key"
        /\ accounts[call.user].state # "none"
    BY <1>1, <1>2, Acting DEF Flow, Grounded
  <1>5. /\ webKeys' \in KeyTable
        /\ webKeys'[k].user = call.user /\ webKeys'[k].there
        /\ \A l \in WebKey \ {k} : webKeys'[l] = webKeys[l]
    <2>1. row \in [user: Account \cup {None}, web: BOOLEAN, there: BOOLEAN] BY <1>4
    <2>2. row.user = call.user /\ row.there OBVIOUS
    <2>3. webKeys \in KeyTable BY DEF WebInv, WebTypeOK, KeyTable
    <2> HIDE DEF row
    <2> QED BY <1>3, <2>1, <2>2, <2>3 DEF KeyTable
  <1>6. TablesTyped
    BY <1>1, <1>5 DEF WebInv, WebTypeOK, TablesTyped, UserTable, ResetTable
  <1>7. TablesGrow BY <1>1, <1>3, <1>5 DEF TablesGrow
  <1>8. k \notin webGone BY <1>3 DEF WebInv, RowsInv
  <1>9. RowsInv'
    BY <1>1, <1>4, <1>5, <1>8 DEF WebInv, RowsInv
  <1>10. /\ q(k) \in WebCallRecord
         /\ q(k).step = "readLast" /\ q(k).user = call.user /\ q(k).op = call.op
         /\ q(k).key = k /\ q(k).reset = call.reset /\ q(k).barred = call.barred
    BY <1>2 DEF WebCallRecord, WebStep
  <1>11. Flow(q(k)) BY <1>1, <1>2, <1>4, <1>10 DEF Flow
  <1>12. Grounded(q(k), accounts', webKeys', webGone')
    BY <1>1, <1>2, <1>4, <1>5, <1>10 DEF Grounded
  <1> HIDE DEF q
  <1> QED BY <1>3, <1>6, <1>7, <1>9, <1>10, <1>11, <1>12, OneMoves

(* A key that was removed is not there.                                        *)
LEMMA RemoveKeyKeeps ==
  ASSUME WebInv, NEW c \in WebClient, RemoveKey(c)
  PROVE  WebInv' /\ TablesGrow
  <1> DEFINE call == webCall[c]
             q(k) == [call EXCEPT !.step = "readLast", !.key = k]
  <1>1. /\ UNCHANGED <<webMade, accounts, resets, resetPast, auditTable, webGone, resetSets,
                       resetRaced, auditRaced>>
        /\ call.step = "removeKey"
    BY DEF RemoveKey, At
  <1>2. call \in WebCallRecord /\ Flow(call) /\ Grounded(call, accounts, webKeys, webGone)
        /\ ~call.barred
    BY <1>1, Acting
  <1>3. PICK k \in WebKey :
          /\ webKeys[k].user # None
          /\ webKeys' = IF webKeys[k].user = call.user
                        THEN [webKeys EXCEPT ![k].there = FALSE] ELSE webKeys
          /\ Move(c, q(k))
    BY DEF RemoveKey
  <1>4. /\ webKeys' \in KeyTable
        /\ \A l \in WebKey : /\ webKeys'[l].user = webKeys[l].user
                             /\ webKeys'[l].there => webKeys[l].there
        /\ webKeys[k].user = call.user => ~webKeys'[k].there
    BY <1>3 DEF WebInv, WebTypeOK, KeyTable
  <1>5. TablesTyped
    BY <1>1, <1>4 DEF WebInv, WebTypeOK, TablesTyped, UserTable, ResetTable
  <1>6. TablesGrow BY <1>1, <1>4 DEF TablesGrow
  <1>7. RowsInv' BY <1>1, <1>4 DEF WebInv, RowsInv
  <1>8. /\ q(k) \in WebCallRecord
        /\ q(k).step = "readLast" /\ q(k).user = call.user /\ q(k).op = call.op
        /\ q(k).key = k /\ q(k).reset = call.reset /\ q(k).barred = call.barred
    BY <1>2 DEF WebCallRecord, WebStep
  <1>9. k # None BY WebBounds DEF WebKey, None
  <1>10. Flow(q(k)) BY <1>1, <1>2, <1>8, <1>9 DEF Flow
  <1>11. Grounded(q(k), accounts', webKeys', webGone')
    BY <1>1, <1>2, <1>3, <1>4, <1>8, <1>9 DEF Grounded
  <1> HIDE DEF q
  <1> QED BY <1>3, <1>5, <1>6, <1>7, <1>8, <1>10, <1>11, OneMoves

(* An account that was removed stays removed.                                  *)
LEMMA RemoveUserKeeps ==
  ASSUME WebInv, NEW c \in WebClient, RemoveUser(c)
  PROVE  WebInv' /\ TablesGrow
  <1> DEFINE u == webCall[c].user
  <1>1. /\ UNCHANGED <<webMade, webKeys, resets, resetPast, auditTable, webGone, resetSets,
                       resetRaced, auditRaced>>
        /\ webCall[c].step = "removeUser" /\ Move(c, NoWebCall)
        /\ accounts' = [accounts EXCEPT ![u] = [state |-> "deleted", reset |-> None]]
    BY DEF RemoveUser, At, Answer
  <1>2. u \in Account BY <1>1, Acting DEF Flow
  <1>3. /\ accounts' \in UserTable
        /\ accounts'[u].state = "deleted"
        /\ \A v \in Account \ {u} : accounts'[v] = accounts[v]
    BY <1>1, <1>2 DEF WebInv, WebTypeOK, UserTable
  <1>4. TablesTyped
    BY <1>1, <1>3 DEF WebInv, WebTypeOK, TablesTyped, KeyTable, ResetTable
  <1>5. TablesGrow BY <1>1, <1>3 DEF TablesGrow
  <1>6. RowsInv' BY <1>1, <1>3 DEF WebInv, WebTypeOK, RowsInv
  <1> QED BY <1>1, <1>4, <1>5, <1>6, Answered, OneMoves

(* A step that leaves keys and the states of accounts alone, and gives resets  *)
(* only to accounts that were registered.                                      *)
LEMMA ResetsMove ==
  ASSUME WebInv, UNCHANGED <<webKeys, webGone>>, TablesTyped,
         \A u \in Account : accounts'[u].state = accounts[u].state,
         \A t \in Reset : resets'[t].user # None =>
                            \/ resets'[t].user = resets[t].user
                            \/ /\ resets'[t].user \in Account
                               /\ accounts[resets'[t].user].state # "none",
         NEW c \in WebClient, NEW step \in WebStep,
         Go(c, step), Flow([webCall[c] EXCEPT !.step = step]), ~webCall[c].barred,
         webCall[c].op # "delete_api_key"
  PROVE  WebInv' /\ TablesGrow
  <1> DEFINE q == [webCall[c] EXCEPT !.step = step]
  <1>1. q \in WebCallRecord /\ Grounded(q, accounts, webKeys, webGone) BY Goes
  <1>2. TablesGrow BY DEF TablesGrow
  <1>3. RowsInv'
    <2>1. ASSUME NEW k \in WebKey, webKeys'[k].user # None
          PROVE  accounts'[webKeys'[k].user].state # "none"
      BY <2>1 DEF WebInv, WebTypeOK, RowsInv
    <2>2. ASSUME NEW t \in Reset, resets'[t].user # None
          PROVE  accounts'[resets'[t].user].state # "none"
      BY <2>2 DEF WebInv, WebTypeOK, RowsInv
    <2> QED BY <2>1, <2>2 DEF WebInv, RowsInv
  <1>4. Grounded(q, accounts', webKeys', webGone')
    <2>1. q.user # None => q.user \in Account BY <1>1 DEF WebCallRecord
    <2>2. ~q.barred
      <3>1. webCall[c] \in WebCallRecord BY Acting
      <3> QED BY <3>1 DEF WebCallRecord
    <2> HIDE DEF q
    <2> QED BY <1>1, <2>1, <2>2 DEF Grounded
  <1>5. Move(c, q) BY DEF Go
  <1> HIDE DEF q
  <1> QED BY <1>1, <1>2, <1>3, <1>4, <1>5, OneMoves DEF q

(* A new reset is for an account that was registered.                          *)
LEMMA AddResetKeeps ==
  ASSUME WebInv, NEW c \in WebClient, AddReset(c)
  PROVE  WebInv' /\ TablesGrow
  <1> DEFINE call == webCall[c]
             u == call.user
  <1>1. /\ UNCHANGED <<webMade, webKeys, resetPast, auditTable, webGone, resetSets, resetRaced,
                       auditRaced>>
        /\ call.step = "addReset" /\ Go(c, "readLast")
    BY DEF AddReset, At
  <1>2. call \in WebCallRecord /\ Flow(call) /\ Grounded(call, accounts, webKeys, webGone)
        /\ ~call.barred
    BY <1>1, Acting
  <1>3. u \in Account /\ u # None /\ accounts[u].state # "none" /\ call.op # "delete_api_key"
    BY <1>1, <1>2, Acting DEF Flow, Grounded
  <1>4. PICK t \in Reset, inTable \in BOOLEAN :
          /\ resets' = [resets EXCEPT ![t] = [drawn |-> TRUE, used |-> FALSE,
                                              user |-> IF inTable THEN u ELSE None]]
          /\ accounts' = IF ~inTable /\ Open(u)
                         THEN [accounts EXCEPT ![u].reset = t] ELSE accounts
    BY DEF AddReset
  <1>5. /\ accounts' \in UserTable
        /\ \A v \in Account : accounts'[v].state = accounts[v].state
    BY <1>3, <1>4 DEF WebInv, WebTypeOK, UserTable
  <1>6. /\ resets' \in ResetTable
        /\ \A s \in Reset : resets'[s].user \in {resets[s].user, u, None}
    BY <1>3, <1>4 DEF WebInv, WebTypeOK, ResetTable
  <1>7. TablesTyped
    BY <1>1, <1>5, <1>6 DEF WebInv, WebTypeOK, TablesTyped, KeyTable
  <1>8. Flow([call EXCEPT !.step = "readLast"])
    BY <1>1, <1>2, <1>3 DEF Flow, WebCallRecord
  <1>9. "readLast" \in WebStep BY DEF WebStep
  <1>10. \A s \in Reset : resets'[s].user # None =>
                            \/ resets'[s].user = resets[s].user
                            \/ /\ resets'[s].user \in Account
                               /\ accounts[resets'[s].user].state # "none"
    BY <1>3, <1>6
  <1> QED BY <1>1, <1>2, <1>3, <1>5, <1>7, <1>8, <1>9, <1>10, ResetsMove

(* To mark a reset leaves its account alone.                                   *)
LEMMA MarkUsedKeeps ==
  ASSUME WebInv, NEW c \in WebClient, MarkUsed(c)
  PROVE  WebInv' /\ TablesGrow
  <1> DEFINE call == webCall[c]
  <1>1. /\ UNCHANGED <<webMade, accounts, webKeys, resetPast, auditTable, webGone, resetSets,
                       resetRaced, auditRaced>>
        /\ call.step = "mark" /\ Go(c, "readLast")
        /\ resets' = [resets EXCEPT ![call.reset].used = TRUE]
    BY DEF MarkUsed, At
  <1>2. call \in WebCallRecord /\ Flow(call) /\ ~call.barred /\ call.op # "delete_api_key"
    BY <1>1, Acting DEF Flow
  <1>3. /\ resets' \in ResetTable
        /\ \A s \in Reset : resets'[s].user = resets[s].user
    BY <1>1 DEF WebInv, WebTypeOK, ResetTable
  <1>4. TablesTyped
    BY <1>1, <1>3 DEF WebInv, WebTypeOK, TablesTyped, UserTable, KeyTable
  <1>5. Flow([call EXCEPT !.step = "readLast"]) BY <1>1, <1>2 DEF Flow, WebCallRecord
  <1>6. "readLast" \in WebStep BY DEF WebStep
  <1> QED BY <1>1, <1>2, <1>3, <1>4, <1>5, <1>6, ResetsMove

(* To set a password keeps the state of its account.                           *)
LEMMA SetPasswordKeeps ==
  ASSUME WebInv, NEW c \in WebClient, SetPassword(c)
  PROVE  WebInv' /\ TablesGrow
  <1> DEFINE call == webCall[c]
             confirms == call.op = "reset_password_confirm"
             next == IF confirms /\ call.step = "set" THEN "mark" ELSE "readLast"
  <1>1. /\ UNCHANGED <<webMade, webKeys, resets, resetPast, auditTable, webGone, resetRaced,
                       auditRaced>>
        /\ call.step \in {"set", "setLegacy"} /\ Go(c, next)
        /\ accounts' = IF call.step = "setLegacy"
                       THEN [accounts EXCEPT ![call.user].reset = None] ELSE accounts
        /\ resetSets' = IF confirms
                        THEN [resetSets EXCEPT ![call.reset] = Once(@)] ELSE resetSets
    BY DEF SetPassword, At
  <1>2. call \in WebCallRecord /\ Flow(call) /\ ~call.barred /\ call.op # "delete_api_key"
    BY <1>1, Acting DEF Flow
  <1>3. /\ accounts' \in UserTable
        /\ \A v \in Account : accounts'[v].state = accounts[v].state
    BY <1>1 DEF WebInv, WebTypeOK, UserTable
  <1>4. resetSets' \in [Reset -> 0 .. 2]
    <2>1. resetSets \in [Reset -> 0 .. 2] BY DEF WebInv, WebTypeOK
    <2>2. \A n \in 0 .. 2 : Once(n) \in 0 .. 2 BY DEF Once
    <2>3. \A t \in Reset : resetSets[t] \in 0 .. 2 BY <2>1
    <2> QED BY <1>1, <2>1, <2>2, <2>3
  <1>5. TablesTyped
    BY <1>1, <1>3, <1>4 DEF WebInv, WebTypeOK, TablesTyped, KeyTable, ResetTable
  <1>6. Flow([call EXCEPT !.step = next]) BY <1>1, <1>2 DEF Flow, WebCallRecord
  <1>7. next \in WebStep BY DEF WebStep
  <1> HIDE DEF next
  <1> QED BY <1>1, <1>2, <1>3, <1>5, <1>6, <1>7, ResetsMove

(* Both ways to find a reset: the call that goes on stands for account u.      *)
LEMMA FoundKeeps ==
  ASSUME WebInv, NEW c \in WebClient, webCall[c].step \in {"findReset", "findLegacy"},
         UNCHANGED <<webMade, accounts, webKeys, resets, resetPast, auditTable, webGone, resetSets,
                     auditRaced>>,
         NEW u \in Account, accounts[u].state # "none", NEW step \in {"set", "setLegacy"},
         Found(c, step, u)
  PROVE  WebInv' /\ TablesGrow
  <1> DEFINE call == webCall[c]
             q == [call EXCEPT !.step = step, !.user = u]
  <1>1. call \in WebCallRecord /\ Flow(call) /\ Grounded(call, accounts, webKeys, webGone)
        /\ ~call.barred /\ call.reset # None /\ call.reset \in Reset
    BY Acting DEF Flow
  <1>2. Move(c, q) /\ resetRaced' \in {resetRaced, resetRaced \cup {call.reset}} BY DEF Found
  <1>3. resetRaced' \subseteq Reset BY <1>1, <1>2 DEF WebInv, WebTypeOK
  <1>4. TablesTyped
    BY <1>3 DEF WebInv, WebTypeOK, TablesTyped, UserTable, KeyTable, ResetTable
  <1>5. u # None BY WebBounds DEF Account, None
  <1>6. /\ q \in WebCallRecord
        /\ q.step = step /\ q.user = u /\ q.op = call.op /\ q.key = call.key
        /\ q.reset = call.reset /\ q.barred = call.barred
    BY <1>1 DEF WebCallRecord, WebStep
  <1>7. Flow(q) BY <1>1, <1>5, <1>6 DEF Flow
  <1>8. Grounded(q, accounts', webKeys', webGone') BY <1>1, <1>6 DEF Grounded
  <1>9. TablesGrow /\ RowsInv' BY TablesStay
  <1> HIDE DEF q
  <1> QED BY <1>2, <1>4, <1>6, <1>7, <1>8, <1>9, OneMoves

(* The account of a reset in the table was registered.                         *)
LEMMA FindResetKeeps ==
  ASSUME WebInv, NEW c \in WebClient, FindReset(c)
  PROVE  WebInv' /\ TablesGrow
  <1> DEFINE call == webCall[c]
  <1>1. /\ UNCHANGED <<webMade, accounts, webKeys, resets, resetPast, auditTable, webGone,
                       resetSets, auditRaced>>
        /\ call.step = "findReset"
    BY DEF FindReset, At
  <1>2. call \in WebCallRecord /\ Flow(call) /\ ~call.barred /\ call.reset \in Reset
        /\ call.op # "delete_api_key"
    BY <1>1, Acting DEF Flow
  <1>3. CASE resets[call.reset].user # None /\ Found(c, "set", resets[call.reset].user)
    <2>1. /\ resets[call.reset].user \in Account
          /\ accounts[resets[call.reset].user].state # "none"
      BY <1>2, <1>3 DEF WebInv, WebTypeOK, RowsInv
    <2> QED BY <1>1, <1>3, <2>1, FoundKeeps
  <1>4. CASE Go(c, "findLegacy") /\ UNCHANGED resetRaced
    <2>1. OnlyReads BY <1>1, <1>4 DEF OnlyReads
    <2>2. Flow([call EXCEPT !.step = "findLegacy"]) BY <1>1, <1>2 DEF Flow, WebCallRecord
    <2>3. "findLegacy" \in WebStep BY DEF WebStep
    <2> QED BY <1>1, <1>2, <1>4, <2>1, <2>2, <2>3, Goes, ReadsKeep DEF Go
  <1> QED BY <1>3, <1>4 DEF FindReset

(* So was that of a reset in the columns of an account.                        *)
LEMMA FindLegacyKeeps ==
  ASSUME WebInv, NEW c \in WebClient, FindLegacy(c)
  PROVE  WebInv' /\ TablesGrow
  <1>1. /\ UNCHANGED <<webMade, accounts, webKeys, resets, resetPast, auditTable, webGone,
                       resetSets, auditRaced>>
        /\ webCall[c].step = "findLegacy"
    BY DEF FindLegacy, At
  <1>2. CASE Answer(c) /\ UNCHANGED resetRaced
    <2>1. OnlyReads BY <1>1, <1>2 DEF OnlyReads
    <2> QED BY <1>2, <2>1, Answered, ReadsKeep DEF Answer
  <1>3. ASSUME NEW u \in Account, accounts[u].state = "open", Found(c, "setLegacy", u)
        PROVE  WebInv' /\ TablesGrow
    BY <1>1, <1>3, FoundKeeps
  <1> QED BY <1>2, <1>3 DEF FindLegacy, OpenAccounts, Open

(* The rows of the audit table.                                                *)
LEMMA AuditRows ==
  ASSUME WebTypeOK
  PROVE  /\ auditTable \in Seq([previous: Nat, hash: Nat])
         /\ Len(auditTable) \in Nat /\ DOMAIN auditTable = 1 .. Len(auditTable)
         /\ \A i \in 1 .. Len(auditTable) : auditTable[i] \in [previous: Nat, hash: Nat]
         /\ auditTable # <<>> => Len(auditTable) \in 1 .. Len(auditTable)
         /\ auditTable = <<>> <=> Len(auditTable) = 0
  <1>1. auditTable \in Seq([previous: Nat, hash: Nat]) BY DEF WebTypeOK
  <1>2. Len(auditTable) \in Nat /\ DOMAIN auditTable = 1 .. Len(auditTable)
    BY <1>1, LenProperties
  <1>3. \A i \in 1 .. Len(auditTable) : auditTable[i] \in [previous: Nat, hash: Nat]
    BY <1>1, ElementOfSeq
  <1>4. auditTable = <<>> <=> Len(auditTable) = 0 BY <1>1, EmptySeq
  <1>5. auditTable # <<>> => Len(auditTable) \in 1 .. Len(auditTable) BY <1>2, <1>4
  <1> QED BY <1>1, <1>2, <1>3, <1>4, <1>5

(* To read the last audit row is to read.                                      *)
LEMMA ReadLastKeeps ==
  ASSUME WebInv, NEW c \in WebClient, ReadLast(c)
  PROVE  WebInv' /\ TablesGrow
  <1> DEFINE call == webCall[c]
             q == [call EXCEPT !.step = "addRow", !.last = LastHash]
  <1>1. /\ UNCHANGED <<webMade, accounts, webKeys, resets, resetPast, auditTable, webGone,
                       resetSets, resetRaced>>
        /\ call.step = "readLast" /\ Move(c, q) /\ auditRaced' \in BOOLEAN
    BY DEF ReadLast, At
  <1>2. call \in WebCallRecord /\ Flow(call) /\ Grounded(call, accounts, webKeys, webGone)
        /\ ~call.barred
    BY <1>1, Acting
  <1>3. LastHash \in Nat
    <2>1. WebTypeOK BY DEF WebInv
    <2> QED BY <2>1, AuditRows DEF LastHash
  <1>4. TablesTyped
    BY <1>1 DEF WebInv, WebTypeOK, TablesTyped, UserTable, KeyTable, ResetTable
  <1>5. /\ q \in WebCallRecord
        /\ q.step = "addRow" /\ q.user = call.user /\ q.op = call.op /\ q.key = call.key
        /\ q.reset = call.reset /\ q.barred = call.barred
    BY <1>2, <1>3 DEF WebCallRecord, WebStep
  <1>6. Flow(q) BY <1>1, <1>2, <1>5 DEF Flow
  <1>7. Grounded(q, accounts', webKeys', webGone') BY <1>1, <1>2, <1>5 DEF Grounded
  <1>8. TablesGrow /\ RowsInv' BY <1>1, TablesStay
  <1> HIDE DEF q
  <1> QED BY <1>1, <1>4, <1>5, <1>6, <1>7, <1>8, OneMoves

(* A deletion is answered when the key is no longer there.                     *)
LEMMA AddRowKeeps ==
  ASSUME WebInv, NEW c \in WebClient, AddRow(c)
  PROVE  WebInv' /\ TablesGrow
  <1> DEFINE call == webCall[c]
             removes == call.op = "delete_api_key" /\ webKeys[call.key].user = call.user
  <1>1. /\ UNCHANGED <<webMade, accounts, webKeys, resets, resetPast, resetSets, resetRaced,
                       auditRaced>>
        /\ call.step = "addRow"
        /\ webGone' = IF removes THEN webGone \cup {call.key} ELSE webGone
    BY DEF AddRow, At
  <1>2. call \in WebCallRecord /\ Flow(call) /\ Grounded(call, accounts, webKeys, webGone)
        /\ ~call.barred
    BY <1>1, Acting
  <1>3. removes => /\ call.key \in WebKey
                   /\ webKeys[call.key].user # None /\ ~webKeys[call.key].there
    <2>1. call.op = "delete_api_key" => call.key # None BY <1>1, <1>2 DEF Grounded
    <2> QED BY <1>1, <1>2, <2>1, Acting DEF Grounded
  <1>4. auditTable' \in Seq([previous: Nat, hash: Nat])
    <2>1. WebTypeOK /\ auditTable \in Seq([previous: Nat, hash: Nat]) BY DEF WebInv, WebTypeOK
    <2>2. call.last \in Nat BY <1>2 DEF WebCallRecord
    <2>3. \A i \in DOMAIN auditTable : auditTable[i].hash \in Nat BY <2>1, AuditRows
    <2>4. Len(auditTable) + 1 \in Nat BY <2>1, AuditRows
    <2>5. \E hash \in Nat : auditTable' = Append(auditTable, [previous |-> call.last, hash |-> hash])
      BY <2>3, <2>4 DEF AddRow
    <2> QED BY <2>1, <2>2, <2>5
  <1>5. webGone' \subseteq WebKey BY <1>1, <1>3 DEF WebInv, WebTypeOK
  <1>6. TablesTyped
    BY <1>1, <1>4, <1>5 DEF WebInv, WebTypeOK, TablesTyped, UserTable, KeyTable, ResetTable
  <1>7. TablesGrow BY <1>1 DEF TablesGrow
  <1>8. RowsInv' BY <1>1, <1>3 DEF WebInv, RowsInv
  <1>9. CASE Answer(c)
    BY <1>6, <1>7, <1>8, <1>9, Answered, OneMoves DEF Answer
  <1>10. CASE call.op = "delete_account" /\ Go(c, "removeUser")
    <2> DEFINE q == [call EXCEPT !.step = "removeUser"]
    <2>1. Flow(q) BY <1>1, <1>2, <1>10 DEF Flow, WebCallRecord
    <2>2. "removeUser" \in WebStep BY DEF WebStep
    <2>3. q \in WebCallRecord /\ Grounded(q, accounts, webKeys, webGone)
      BY <1>1, <1>2, <1>10, <2>1, <2>2, Goes
    <2>4. webGone' = webGone BY <1>1, <1>10
    <2>5. Grounded(q, accounts', webKeys', webGone')
      BY <1>1, <2>3, <2>4
    <2>6. Move(c, q) BY <1>10 DEF Go
    <2> HIDE DEF q
    <2> QED BY <1>6, <1>7, <1>8, <2>1, <2>3, <2>5, <2>6, OneMoves DEF q
  <1> QED BY <1>9, <1>10 DEF AddRow

(* No table depends on the time.                                               *)
LEMMA ExpiresKeeps ==
  ASSUME WebInv, NEW t \in Reset, ResetExpires(t)
  PROVE  WebInv' /\ TablesGrow
  <1>1. UNCHANGED <<webMade, accounts, webKeys, resets, auditTable, webCall, webGone, resetSets,
                    resetRaced, auditRaced>>
    BY DEF ResetExpires
  <1>2. resetPast' \subseteq Reset BY DEF ResetExpires, WebInv, WebTypeOK
  <1>3. TablesGrow BY <1>1, TablesStay
  <1>4. WebInv' BY <1>1, <1>2 DEF WebInv, WebTypeOK, RowsInv, CallsInv
  <1> QED BY <1>3, <1>4

(* Every step keeps the invariant, and the tables only grow.                   *)
LEMMA WebStepKeeps == WebInv /\ [WebNext]_webVars => WebInv' /\ TablesGrow
  <1> SUFFICES ASSUME WebInv, [WebNext]_webVars PROVE WebInv' /\ TablesGrow OBVIOUS
  <1>1. CASE UNCHANGED webVars
    <2>1. WebInv' BY <1>1 DEF webVars, WebInv, WebTypeOK, RowsInv, CallsInv
    <2>2. TablesGrow BY <1>1, TablesStay DEF webVars
    <2> QED BY <2>1, <2>2
  <1>2. ASSUME NEW c \in WebClient,
               \/ WebBegin(c) \/ WebFail(c) \/ CheckToken(c) \/ CheckUser(c) \/ FindAccount(c)
               \/ AddUser(c) \/ FindKey(c) \/ AddKey(c) \/ RemoveKey(c) \/ RemoveUser(c)
        PROVE  WebInv' /\ TablesGrow
    BY <1>2, BeginKeeps, FailKeeps, CheckTokenKeeps, CheckUserKeeps, FindAccountKeeps,
       AddUserKeeps, FindKeyKeeps, AddKeyKeeps, RemoveKeyKeeps, RemoveUserKeeps
  <1>3. ASSUME NEW c \in WebClient,
               \/ AddReset(c) \/ FindReset(c) \/ FindLegacy(c) \/ VerifyPassword(c)
               \/ SetPassword(c) \/ MarkUsed(c) \/ ReadLast(c) \/ AddRow(c)
        PROVE  WebInv' /\ TablesGrow
    BY <1>3, AddResetKeeps, FindResetKeeps, FindLegacyKeeps, VerifyKeeps, SetPasswordKeeps,
       MarkUsedKeeps, ReadLastKeeps, AddRowKeeps
  <1>4. ASSUME NEW t \in Reset, ResetExpires(t) PROVE WebInv' /\ TablesGrow BY <1>4, ExpiresKeeps
  <1> QED BY <1>1, <1>2, <1>3, <1>4 DEF WebNext

(* The tables and requests of the web API have their types in every state.     *)
THEOREM WebTypesCorrect == WebSpec => []WebTypeOK
  <1>1. WebInv => WebTypeOK BY DEF WebInv
  <1> QED BY WebInitHolds, WebStepKeeps, <1>1, PTL DEF WebSpec

(* No request is served that began after its key was answered deleted, or the  *)
(* account of its key was deleted: DeletedStaysOut of WebApi, about authUser.  *)
THEOREM DeletedNeverServed == WebSpec => []DeletedStaysOut
  <1>1. WebInv => DeletedStaysOut BY DEF WebInv, CallsInv, Grounded, DeletedStaysOut
  <1> QED BY WebInitHolds, WebStepKeeps, <1>1, PTL DEF WebSpec

-----------------------------------------------------------------------------
(* The audit table.                                                            *)

(* Unless two requests were between their SELECT and INSERT, the rows form one *)
(* chain, and a request that is about to insert knows its end.                 *)
ChainInv ==
  ~auditRaced =>
    /\ \A i \in DOMAIN auditTable : auditTable[i] = [previous |-> i - 1, hash |-> i]
    /\ \A c \in WebClient :
         webCall[c].step = "addRow" => webCall[c].last = Len(auditTable)
    /\ \A c, d \in WebClient :
         webCall[c].step = "addRow" /\ webCall[d].step = "addRow" => c = d

(* There is one chain at first, of one row or none.                            *)
LEMMA ChainInit == WebInit => ChainInv
  <1> SUFFICES ASSUME WebInit PROVE ChainInv OBVIOUS
  <1>1. \A c \in WebClient : webCall[c].step = "idle" BY DEF WebInit, NoWebCall
  <1>2. PICK n \in {0, 1} : auditTable = [i \in 1 .. n |-> [previous |-> 0, hash |-> 1]]
    BY DEF WebInit
  <1>3. \A i \in DOMAIN auditTable : auditTable[i] = [previous |-> i - 1, hash |-> i] BY <1>2
  <1> QED BY <1>1, <1>3 DEF ChainInv

(* A step of request c that neither reads nor extends the chain.               *)
LEMMA ChainKept ==
  ASSUME WebInv, ChainInv, UNCHANGED <<auditTable, auditRaced>>,
         NEW c \in WebClient, NEW call, Move(c, call), call.step # "addRow"
  PROVE  ChainInv'
  BY DEF WebInv, WebTypeOK, ChainInv, Move

(* What such a step does to the call of its request.                           *)
LEMMA StepOf ==
  ASSUME WebInv, NEW c \in WebClient, NEW step, Go(c, step)
  PROVE  \E call : Move(c, call) /\ call.step = step
  <1>1. webCall[c] \in WebCallRecord BY Acting
  <1>2. [webCall[c] EXCEPT !.step = step].step = step BY <1>1 DEF WebCallRecord
  <1> QED BY <1>2 DEF Go

(* A statement on other tables leaves the chain as it is.                      *)
LEMMA ChainQuiet ==
  ASSUME WebInv, ChainInv, NEW c \in WebClient,
         \/ WebBegin(c) \/ WebFail(c) \/ CheckToken(c) \/ CheckUser(c)
         \/ FindAccount(c) \/ AddUser(c) \/ FindKey(c) \/ AddKey(c) \/ RemoveKey(c)
         \/ RemoveUser(c) \/ AddReset(c) \/ FindReset(c) \/ FindLegacy(c)
         \/ VerifyPassword(c) \/ SetPassword(c) \/ MarkUsed(c)
  PROVE  ChainInv'
  <1>1. UNCHANGED <<auditTable, auditRaced>>
    BY DEF WebBegin, WebFail, CheckToken, CheckUser, FindAccount, AddUser, FindKey, AddKey,
           RemoveKey, RemoveUser, AddReset, FindReset, FindLegacy, VerifyPassword, SetPassword,
           MarkUsed, OnlyReads
  <1>2. webCall[c] \in WebCallRecord BY Acting
  <1>3. ASSUME \E call : Move(c, call) /\ call.step # "addRow" PROVE ChainInv'
    BY <1>1, <1>3, ChainKept
  <1>4. CASE Answer(c) BY <1>3, <1>4 DEF Answer, NoWebCall
  <1>5. ASSUME NEW step, step # "addRow", Go(c, step) PROVE ChainInv'
    BY <1>3, <1>5, StepOf
  <1>23. ASSUME NEW step, step # "addRow", NEW x,
                \/ Move(c, [webCall[c] EXCEPT !.step = step, !.user = x])
                \/ Move(c, [webCall[c] EXCEPT !.user = x, !.step = step])
                \/ Move(c, [webCall[c] EXCEPT !.step = step, !.key = x])
         PROVE  ChainInv'
    <2>1. /\ [webCall[c] EXCEPT !.step = step, !.user = x].step = step
          /\ [webCall[c] EXCEPT !.user = x, !.step = step].step = step
          /\ [webCall[c] EXCEPT !.step = step, !.key = x].step = step
      BY <1>2 DEF WebCallRecord
    <2> QED BY <1>3, <1>23, <2>1
  <1>6. CASE WebBegin(c)
    <2>1. NoWebCall \in WebCallRecord BY Answered
    <2>5. \A op : [NoWebCall EXCEPT !.step = "account", !.op = op].step = "account"
      BY <2>1 DEF WebCallRecord
    <2>6. \A t : [NoWebCall EXCEPT !.step = "findReset", !.op = "reset_password_confirm",
                                  !.reset = t].step = "findReset"
      BY <2>1 DEF WebCallRecord
    <2>7. \A op, k, b : [NoWebCall EXCEPT !.step = "key", !.op = op, !.key = k,
                                         !.barred = b].step = "key"
      BY <2>1 DEF WebCallRecord
    <2>2. CASE \E op : Move(c, [NoWebCall EXCEPT !.step = "account", !.op = op])
      BY <1>3, <2>5, <2>2
    <2>3. CASE \E t : Move(c, [NoWebCall EXCEPT !.step = "findReset",
                                               !.op = "reset_password_confirm", !.reset = t])
      BY <1>3, <2>6, <2>3
    <2>4. CASE \E op, k, b : Move(c, [NoWebCall EXCEPT !.step = "key", !.op = op, !.key = k,
                                                      !.barred = b])
      BY <1>3, <2>7, <2>4
    <2> QED BY <1>6, <2>2, <2>3, <2>4 DEF WebBegin
  <1>7. CASE WebFail(c) BY <1>4, <1>7 DEF WebFail
  <1>8. CASE CheckToken(c) BY <1>4, <1>8, <1>23 DEF CheckToken
  <1>9. CASE CheckUser(c)
    <2>1. webCall[c].op \in NeedsUser BY <1>9, Acting DEF CheckUser, At, Flow
    <2>2. FirstStep(webCall[c].op) # "addRow" BY <2>1 DEF FirstStep, NeedsUser
    <2> QED BY <1>4, <1>5, <1>9, <2>2 DEF CheckUser
  <1>10. CASE FindAccount(c)
    BY <1>4, <1>5, <1>10, <1>23 DEF FindAccount
  <1>11. CASE AddUser(c) BY <1>11, <1>23 DEF AddUser
  <1>12. CASE FindKey(c) BY <1>5, <1>12, <1>23 DEF FindKey
  <1>13. CASE AddKey(c) BY <1>13, <1>23 DEF AddKey
  <1>14. CASE RemoveKey(c) BY <1>14, <1>23 DEF RemoveKey
  <1>15. CASE RemoveUser(c) BY <1>4, <1>15 DEF RemoveUser
  <1>16. CASE AddReset(c) BY <1>5, <1>16 DEF AddReset
  <1>17. ASSUME NEW step \in {"set", "setLegacy"}, NEW u, Found(c, step, u) PROVE ChainInv'
    BY <1>17, <1>23 DEF Found
  <1>18. CASE FindReset(c) BY <1>5, <1>17, <1>18 DEF FindReset
  <1>19. CASE FindLegacy(c) BY <1>4, <1>17, <1>19 DEF FindLegacy
  <1>20. CASE VerifyPassword(c) BY <1>4, <1>5, <1>20 DEF VerifyPassword
  <1>21. CASE SetPassword(c) BY <1>5, <1>21 DEF SetPassword
  <1>22. CASE MarkUsed(c) BY <1>5, <1>22 DEF MarkUsed
  <1> QED BY <1>6, <1>7, <1>8, <1>9, <1>10, <1>11, <1>12, <1>13, <1>14, <1>15, <1>16, <1>18,
             <1>19, <1>20, <1>21, <1>22

(* A request that reads the last hash knows the end of the chain.              *)
LEMMA ChainRead == ASSUME WebInv, ChainInv, NEW c \in WebClient, ReadLast(c) PROVE ChainInv'
  <1> SUFFICES ASSUME ~auditRaced' PROVE ChainInv' BY DEF ChainInv
  <1> DEFINE q == [webCall[c] EXCEPT !.step = "addRow", !.last = LastHash]
  <1>1. /\ UNCHANGED auditTable /\ Move(c, q)
        /\ ~auditRaced /\ \A d \in WebClient : webCall[d].step # "addRow"
    BY DEF ReadLast, At
  <1>2. webCall[c] \in WebCallRecord /\ WebTypeOK BY Acting DEF WebInv
  <1>3. LastHash = Len(auditTable)
    <2>1. CASE auditTable = <<>> BY <1>2, <2>1, AuditRows DEF LastHash
    <2>2. CASE auditTable # <<>> BY <1>1, <1>2, <2>2, AuditRows DEF LastHash, ChainInv
    <2> QED BY <2>1, <2>2
  <1>4. q.last = Len(auditTable) BY <1>2, <1>3 DEF WebCallRecord
  <1>5. webCall'[c] = q /\ \A d \in WebClient \ {c} : webCall'[d] = webCall[d]
    BY <1>1, <1>2 DEF WebTypeOK, Move
  <1> HIDE DEF q
  <1> QED BY <1>1, <1>4, <1>5 DEF ChainInv

(* A row that is added links to the one before it, if nobody was between.      *)
LEMMA ChainAdd == ASSUME WebInv, ChainInv, NEW c \in WebClient, AddRow(c) PROVE ChainInv'
  <1> DEFINE call == webCall[c]
             n == Len(auditTable)
  <1>1. call.step = "addRow" /\ UNCHANGED auditRaced BY DEF AddRow, At
  <1> SUFFICES ASSUME ~auditRaced PROVE ChainInv' BY <1>1 DEF ChainInv
  <1>2. /\ call.last = n
        /\ \A d \in WebClient \ {c} : webCall[d].step # "addRow"
        /\ \A i \in DOMAIN auditTable : auditTable[i] = [previous |-> i - 1, hash |-> i]
    BY <1>1 DEF ChainInv
  <1>3. WebTypeOK /\ webCall[c] \in WebCallRecord BY Acting DEF WebInv
  <1>4. n \in Nat /\ DOMAIN auditTable = 1 .. n
        /\ auditTable \in Seq([previous: Nat, hash: Nat])
    BY <1>3, AuditRows
  <1>5. \A i \in DOMAIN auditTable : auditTable[i].previous # n
    <2>1. \A i \in DOMAIN auditTable : auditTable[i].previous = i - 1 BY <1>2
    <2> QED BY <1>4, <2>1
  <1> DEFINE row == [previous |-> n, hash |-> n + 1]
  <1>6. auditTable' = Append(auditTable, row)
    <2>1. {auditTable[i].hash : i \in {j \in DOMAIN auditTable :
                                         auditTable[j].previous = call.last}} = {}
      BY <1>2, <1>5
    <2> QED BY <1>2, <2>1 DEF AddRow
  <1>7. row \in [previous: Nat, hash: Nat] BY <1>4
  <1>8. /\ DOMAIN auditTable' = 1 .. n + 1
        /\ \A i \in 1 .. n : auditTable'[i] = auditTable[i]
        /\ auditTable'[n + 1] = row
    BY <1>4, <1>6, <1>7, AppendProperties, LenProperties
  <1>9. \A i \in DOMAIN auditTable' : auditTable'[i] = [previous |-> i - 1, hash |-> i]
    <2> SUFFICES ASSUME NEW i \in 1 .. n + 1
                 PROVE  auditTable'[i] = [previous |-> i - 1, hash |-> i]
      BY <1>8
    <2>1. CASE i \in 1 .. n BY <1>2, <1>4, <1>8, <2>1
    <2>2. CASE i = n + 1
      <3>1. i - 1 = n BY <1>4, <2>2
      <3> QED BY <1>8, <2>2, <3>1
    <2> QED BY <1>4, <2>1, <2>2
  <1>10. \E q : Move(c, q) /\ q.step # "addRow"
    <2>1. CASE Answer(c) BY <2>1 DEF Answer, NoWebCall
    <2>2. CASE Go(c, "removeUser") BY <2>2, StepOf
    <2> QED BY <2>1, <2>2 DEF AddRow
  <1>11. \A d \in WebClient : webCall'[d].step # "addRow"
    BY <1>2, <1>3, <1>10 DEF WebTypeOK, Move
  <1> QED BY <1>9, <1>11 DEF ChainInv

(* Every step keeps the chain.                                                 *)
LEMMA ChainStep == WebInv /\ ChainInv /\ [WebNext]_webVars => ChainInv'
  <1> SUFFICES ASSUME WebInv, ChainInv, [WebNext]_webVars PROVE ChainInv' OBVIOUS
  <1>1. CASE UNCHANGED webVars BY <1>1 DEF webVars, ChainInv
  <1>2. ASSUME NEW c \in WebClient, ReadLast(c) \/ AddRow(c) PROVE ChainInv'
    BY <1>2, ChainRead, ChainAdd
  <1>3. ASSUME NEW t \in Reset, ResetExpires(t) PROVE ChainInv'
    BY <1>3 DEF ResetExpires, ChainInv
  <1> QED BY <1>1, <1>2, <1>3, ChainQuiet DEF WebNext

(* While no two requests were between their SELECT and INSERT at once, each    *)
(* row links to the one before it: TableForksNeedOverlap of WebApi, about      *)
(* auditLog and push_audit.                                                    *)
THEOREM TableForksNeedTwo == WebSpec => []TableForksNeedOverlap
  <1>1. WebInit => WebInv /\ ChainInv BY WebInitHolds, ChainInit
  <1>2. WebInv /\ ChainInv /\ [WebNext]_webVars => WebInv' /\ ChainInv'
    BY WebStepKeeps, ChainStep
  <1>3. ChainInv => TableForksNeedOverlap BY DEF ChainInv, TableForksNeedOverlap
  <1> QED BY <1>1, <1>2, <1>3, PTL DEF WebSpec

-----------------------------------------------------------------------------
(* Resets of passwords.                                                        *)

(* A request has found reset t, and is about to set a password or mark it.     *)
Holds(c, t) == webCall[c].reset = t /\ webCall[c].step \in {"set", "setLegacy", "mark"}
\* It is about to set a password with reset t.
Sets(c, t) == webCall[c].reset = t /\ webCall[c].step \in {"set", "setLegacy"}

(* A reset that was drawn is either in its table or in the columns of at most  *)
(* one account, and a request that found it agrees with where it is.           *)
ResetPlaces ==
  /\ \A t \in Reset : ~resets[t].drawn =>
       /\ resets[t].user = None /\ resetSets[t] = 0
       /\ \A c \in WebClient : webCall[c].reset # t
  /\ \A u \in Account : accounts[u].reset # None =>
       resets[accounts[u].reset].drawn /\ resets[accounts[u].reset].user = None
  /\ \A u, v \in Account :
       accounts[u].reset # None /\ accounts[u].reset = accounts[v].reset => u = v
  /\ \A c \in WebClient, t \in Reset : webCall[c].reset = t =>
       /\ webCall[c].step \in {"set", "mark"} => resets[t].user # None
       /\ webCall[c].step = "setLegacy" =>
            /\ resets[t].user = None
            /\ \A u \in Account : accounts[u].reset = t => u = webCall[c].user

(* A reset that has set a password will not be found again.                    *)
Spent(t) ==
  /\ resetSets[t] = 1
  /\ \A u \in Account : accounts[u].reset # t
  /\ \A c \in WebClient : ~Sets(c, t)
  /\ \/ resets[t].user = None
     \/ resets[t].used
     \/ \E c \in WebClient : webCall[c].reset = t /\ webCall[c].step = "mark"

ResetInv ==
  /\ ResetPlaces
  /\ \A t \in Reset \ resetRaced :
       /\ \A c, d \in WebClient : Holds(c, t) /\ Holds(d, t) => c = d
       /\ resetSets[t] = 0 \/ Spent(t)

(* At first there are no resets.                                               *)
LEMMA ResetInit == WebInit => ResetInv
  <1> SUFFICES ASSUME WebInit PROVE ResetInv OBVIOUS
  <1>1. \A c \in WebClient : webCall[c].step = "idle" /\ webCall[c].reset = None
    BY DEF WebInit, NoWebCall
  <1>2. \A u \in Account : accounts[u].reset = None BY DEF WebInit
  <1>3. \A t \in Reset : ~resets[t].drawn /\ resets[t].user = None /\ resetSets[t] = 0 /\ t # None
    BY DEF WebInit, Reset, None
  <1> QED BY <1>1, <1>2, <1>3 DEF ResetInv, ResetPlaces, Holds

(* A step of one request that leaves every reset where it is, and neither      *)
(* finds one nor drops one that it would have to mark.                         *)
ResetsStay(c) ==
  /\ UNCHANGED <<resets, resetSets, resetRaced>>
  /\ \A u \in Account : accounts'[u].reset \in {accounts[u].reset, None}
  /\ \A d \in WebClient \ {c} : webCall'[d] = webCall[d]
  /\ webCall[c].step # "mark"
  /\ \/ webCall'[c].step \notin {"set", "setLegacy", "mark"}
     \/ webCall'[c].reset = None
  /\ \/ webCall'[c].reset \in {webCall[c].reset, None}
     \/ resets[webCall'[c].reset].drawn

(* A step that touches no reset and no confirmation keeps all of it.           *)
LEMMA ResetStays == ASSUME WebInv, ResetInv, NEW c \in WebClient, ResetsStay(c) PROVE ResetInv'
  <1>1. \A u \in Account : accounts[u].reset \in Reset \cup {None} BY DEF WebInv, WebTypeOK
  <1>2. \A t \in Reset : t # None BY DEF Reset, None
  <1>3. ASSUME NEW t \in Reset, NEW d \in WebClient, webCall'[d].reset = t,
               webCall'[d].step \in {"set", "setLegacy", "mark"}
        PROVE  d # c /\ webCall'[d] = webCall[d]
    BY <1>2, <1>3 DEF ResetsStay
  <1>4. ResetPlaces'
    <2>1. ASSUME NEW t \in Reset, ~resets'[t].drawn
          PROVE  /\ resets'[t].user = None /\ resetSets'[t] = 0
                 /\ \A d \in WebClient : webCall'[d].reset # t
      BY <1>2, <2>1 DEF ResetsStay, ResetInv, ResetPlaces
    <2>2. ASSUME NEW u \in Account, accounts'[u].reset # None
          PROVE  resets'[accounts'[u].reset].drawn /\ resets'[accounts'[u].reset].user = None
      BY <2>2 DEF ResetsStay, ResetInv, ResetPlaces
    <2>3. ASSUME NEW u \in Account, NEW v \in Account, accounts'[u].reset # None,
                 accounts'[u].reset = accounts'[v].reset
          PROVE  u = v
      BY <2>3 DEF ResetsStay, ResetInv, ResetPlaces
    <2>4. ASSUME NEW d \in WebClient, NEW t \in Reset, webCall'[d].reset = t
          PROVE  /\ webCall'[d].step \in {"set", "mark"} => resets'[t].user # None
                 /\ webCall'[d].step = "setLegacy" =>
                      /\ resets'[t].user = None
                      /\ \A u \in Account : accounts'[u].reset = t => u = webCall'[d].user
      BY <1>2, <1>3, <2>4 DEF ResetsStay, ResetInv, ResetPlaces
    <2> QED BY <2>1, <2>2, <2>3, <2>4 DEF ResetPlaces
  <1>5. ASSUME NEW t \in Reset \ resetRaced'
        PROVE  /\ \A d, e \in WebClient : Holds(d, t)' /\ Holds(e, t)' => d = e
               /\ resetSets'[t] = 0 \/ Spent(t)'
    <2>1. t \in Reset \ resetRaced BY <1>5 DEF ResetsStay
    <2>2. ASSUME NEW d \in WebClient, Holds(d, t)' PROVE Holds(d, t) /\ d # c
      BY <1>3, <2>2 DEF Holds
    <2>3. ASSUME resetSets[t] # 0 PROVE Spent(t)'
      <3>1. Spent(t) BY <2>1, <2>3 DEF ResetInv
      <3>2. \A u \in Account : accounts'[u].reset # t
        BY <1>2, <3>1 DEF Spent, ResetsStay
      <3>3. \A d \in WebClient : ~Sets(d, t)'
        BY <1>3, <3>1 DEF Spent, Sets
      <3>4. ASSUME NEW d \in WebClient, webCall[d].reset = t, webCall[d].step = "mark"
            PROVE  webCall'[d].reset = t /\ webCall'[d].step = "mark"
        BY <3>4 DEF ResetsStay
      <3> QED BY <3>1, <3>2, <3>3, <3>4 DEF Spent, ResetsStay
    <2> QED BY <2>1, <2>2, <2>3 DEF ResetInv, ResetsStay
  <1> QED BY <1>4, <1>5 DEF ResetInv

(* The actions that leave resets where they are.                               *)
LEMMA ResetQuiet ==
  ASSUME WebInv, ResetInv, NEW c \in WebClient,
         \/ WebBegin(c) \/ CheckToken(c) \/ CheckUser(c) \/ FindAccount(c) \/ AddUser(c)
         \/ FindKey(c) \/ AddKey(c) \/ RemoveKey(c) \/ RemoveUser(c) \/ VerifyPassword(c)
         \/ ReadLast(c) \/ AddRow(c) \/ (WebFail(c) /\ ~At(c, "mark"))
  PROVE  ResetInv'
  <1>1. UNCHANGED <<resets, resetSets, resetRaced>>
    BY DEF WebBegin, WebFail, CheckToken, CheckUser, FindAccount, AddUser, FindKey, AddKey,
           RemoveKey, RemoveUser, VerifyPassword, ReadLast, AddRow, OnlyReads
  <1>2. \A u \in Account : accounts'[u].reset \in {accounts[u].reset, None}
    <2>1. accounts \in UserTable BY DEF WebInv, WebTypeOK, UserTable
    <2>2. CASE UNCHANGED accounts BY <2>2
    <2>3. CASE AddUser(c)
      <3>1. PICK u \in Account : accounts' = [accounts EXCEPT ![u].state = "open"]
        BY <2>3 DEF AddUser
      <3> QED BY <2>1, <3>1 DEF UserTable
    <2>4. CASE RemoveUser(c) BY <2>1, <2>4 DEF RemoveUser, UserTable
    <2> QED
      BY <2>2, <2>3, <2>4
      DEF WebBegin, WebFail, CheckToken, CheckUser, FindAccount, FindKey, AddKey, RemoveKey,
          VerifyPassword, ReadLast, AddRow, OnlyReads
  <1>3. webCall[c].step # "mark"
    BY DEF WebBegin, WebFail, CheckToken, CheckUser, FindAccount, AddUser, FindKey, AddKey,
           RemoveKey, RemoveUser, VerifyPassword, ReadLast, AddRow, At
  <1>4. webCall[c] \in WebCallRecord /\ Flow(webCall[c]) BY Acting
  <1>5. ASSUME \E q : /\ Move(c, q)
                      /\ (q.step # "set" /\ q.step # "setLegacy" /\ q.step # "mark")
                         \/ q.reset = None
                      /\ \/ q.reset = webCall[c].reset \/ q.reset = None
                         \/ resets[q.reset].drawn
        PROVE  ResetInv'
    <2>1. \A q : Move(c, q) =>
            webCall'[c] = q /\ \A d \in WebClient \ {c} : webCall'[d] = webCall[d]
      BY DEF Move, WebInv, WebTypeOK
    <2>2. ResetsStay(c) BY <1>1, <1>2, <1>3, <1>5, <2>1 DEF ResetsStay
    <2> QED BY <2>2, ResetStays
  <1>6. CASE Answer(c) BY <1>5, <1>6 DEF Answer, NoWebCall
  <1>7. ASSUME NEW step, step # "setLegacy", step # "mark",
               webCall[c].reset = None \/ step # "set", Go(c, step)
        PROVE  ResetInv'
    <2>1. /\ [webCall[c] EXCEPT !.step = step].step = step
          /\ [webCall[c] EXCEPT !.step = step].reset = webCall[c].reset
      BY <1>4 DEF WebCallRecord
    <2> QED BY <1>5, <1>7, <2>1 DEF Go
  <1>21. ASSUME NEW step, step # "set", step # "setLegacy", step # "mark", NEW x,
                \/ Move(c, [webCall[c] EXCEPT !.step = step, !.user = x])
                \/ Move(c, [webCall[c] EXCEPT !.user = x, !.step = step])
                \/ Move(c, [webCall[c] EXCEPT !.step = step, !.key = x])
                \/ Move(c, [webCall[c] EXCEPT !.step = step, !.last = x])
         PROVE  ResetInv'
    <2>1. /\ [webCall[c] EXCEPT !.step = step, !.user = x].step = step
          /\ [webCall[c] EXCEPT !.step = step, !.user = x].reset = webCall[c].reset
      BY <1>4 DEF WebCallRecord
    <2>2. /\ [webCall[c] EXCEPT !.user = x, !.step = step].step = step
          /\ [webCall[c] EXCEPT !.user = x, !.step = step].reset = webCall[c].reset
      BY <1>4 DEF WebCallRecord
    <2>3. /\ [webCall[c] EXCEPT !.step = step, !.key = x].step = step
          /\ [webCall[c] EXCEPT !.step = step, !.key = x].reset = webCall[c].reset
      BY <1>4 DEF WebCallRecord
    <2>4. /\ [webCall[c] EXCEPT !.step = step, !.last = x].step = step
          /\ [webCall[c] EXCEPT !.step = step, !.last = x].reset = webCall[c].reset
      BY <1>4 DEF WebCallRecord
    <2> QED BY <1>5, <1>21, <2>1, <2>2, <2>3, <2>4
  <1>8. CASE WebBegin(c)
    <2>1. NoWebCall \in WebCallRecord /\ NoWebCall.reset = None BY Answered DEF NoWebCall
    <2>2. \A op : /\ [NoWebCall EXCEPT !.step = "account", !.op = op].step = "account"
                  /\ [NoWebCall EXCEPT !.step = "account", !.op = op].reset = None
      BY <2>1 DEF WebCallRecord
    <2>3. \A t : /\ [NoWebCall EXCEPT !.step = "findReset", !.op = "reset_password_confirm",
                                     !.reset = t].step = "findReset"
                 /\ [NoWebCall EXCEPT !.step = "findReset", !.op = "reset_password_confirm",
                                     !.reset = t].reset = t
      BY <2>1 DEF WebCallRecord
    <2>4. \A op, k, b :
            /\ [NoWebCall EXCEPT !.step = "key", !.op = op, !.key = k, !.barred = b].step = "key"
            /\ [NoWebCall EXCEPT !.step = "key", !.op = op, !.key = k, !.barred = b].reset = None
      BY <2>1 DEF WebCallRecord
    <2>5. CASE \E op : Move(c, [NoWebCall EXCEPT !.step = "account", !.op = op])
      BY <1>5, <2>2, <2>5
    <2>6. CASE \E t \in Reset :
                 /\ resets[t].drawn
                 /\ Move(c, [NoWebCall EXCEPT !.step = "findReset",
                                              !.op = "reset_password_confirm", !.reset = t])
      BY <1>5, <2>3, <2>6
    <2>7. CASE \E op, k, b : Move(c, [NoWebCall EXCEPT !.step = "key", !.op = op, !.key = k,
                                                      !.barred = b])
      <3>1. PICK op, k, b : Move(c, [NoWebCall EXCEPT !.step = "key", !.op = op, !.key = k,
                                                     !.barred = b])
        BY <2>7
      <3> DEFINE q == [NoWebCall EXCEPT !.step = "key", !.op = op, !.key = k, !.barred = b]
      <3>2. Move(c, q) /\ q.step = "key" /\ q.reset = None BY <2>4, <3>1
      <3> HIDE DEF q
      <3> QED BY <1>5, <3>2
    <2> QED BY <1>8, <2>5, <2>6, <2>7 DEF WebBegin
  <1>9. CASE WebFail(c) BY <1>6, <1>9 DEF WebFail
  <1>10. CASE CheckToken(c) BY <1>6, <1>10, <1>21 DEF CheckToken
  <1>11. CASE CheckUser(c)
    <2>1. webCall[c].op \in NeedsUser BY <1>4, <1>11 DEF CheckUser, At, Flow
    <2>2. FirstStep(webCall[c].op) \in {"verify", "addKey", "removeKey", "readLast"}
      BY <2>1 DEF FirstStep, NeedsUser
    <2> QED BY <1>6, <1>7, <1>11, <2>2 DEF CheckUser
  <1>12. CASE FindAccount(c) BY <1>6, <1>7, <1>12, <1>21 DEF FindAccount
  <1>13. CASE AddUser(c) BY <1>13, <1>21 DEF AddUser
  <1>14. CASE FindKey(c) BY <1>7, <1>14, <1>21 DEF FindKey
  <1>15. CASE AddKey(c) BY <1>15, <1>21 DEF AddKey
  <1>16. CASE RemoveKey(c) BY <1>16, <1>21 DEF RemoveKey
  <1>17. CASE RemoveUser(c) BY <1>6, <1>17 DEF RemoveUser
  <1>18. CASE VerifyPassword(c)
    <2>1. webCall[c].reset = None BY <1>4, <1>18 DEF VerifyPassword, At, Flow
    <2> QED BY <1>6, <1>7, <1>18, <2>1 DEF VerifyPassword
  <1>19. CASE ReadLast(c) BY <1>19, <1>21 DEF ReadLast
  <1>20. CASE AddRow(c) BY <1>6, <1>7, <1>20 DEF AddRow
  <1> QED BY <1>8, <1>9, <1>10, <1>11, <1>12, <1>13, <1>14, <1>15, <1>16, <1>17, <1>18, <1>19, <1>20

(* The call of a request that finds, sets or marks, and the calls of others.   *)
LEMMA ResetCall ==
  ASSUME WebInv, NEW c \in WebClient, NEW step
  PROVE  /\ Go(c, step) =>
              /\ webCall'[c].step = step /\ webCall'[c].reset = webCall[c].reset
              /\ webCall'[c].user = webCall[c].user
              /\ \A d \in WebClient \ {c} : webCall'[d] = webCall[d]
         /\ Answer(c) =>
              /\ webCall'[c] = NoWebCall
              /\ \A d \in WebClient \ {c} : webCall'[d] = webCall[d]
         /\ \A u : Found(c, step, u) =>
              /\ webCall'[c].step = step /\ webCall'[c].reset = webCall[c].reset
              /\ webCall'[c].user = u
              /\ \A d \in WebClient \ {c} : webCall'[d] = webCall[d]
  <1> DEFINE call == webCall[c]
  <1>1. call \in WebCallRecord /\ webCall \in [WebClient -> WebCallRecord]
    BY Acting DEF WebInv, WebTypeOK
  <1>2. ASSUME NEW q, Move(c, q)
        PROVE  webCall'[c] = q /\ \A d \in WebClient \ {c} : webCall'[d] = webCall[d]
    BY <1>1, <1>2 DEF Move
  <1>3. /\ [call EXCEPT !.step = step].step = step
        /\ [call EXCEPT !.step = step].reset = call.reset
        /\ [call EXCEPT !.step = step].user = call.user
    BY <1>1 DEF WebCallRecord
  <1>4. \A u : /\ [call EXCEPT !.step = step, !.user = u].step = step
               /\ [call EXCEPT !.step = step, !.user = u].reset = call.reset
               /\ [call EXCEPT !.step = step, !.user = u].user = u
    BY <1>1 DEF WebCallRecord
  <1>5. ASSUME Go(c, step)
        PROVE  /\ webCall'[c].step = step /\ webCall'[c].reset = webCall[c].reset
               /\ webCall'[c].user = webCall[c].user
               /\ \A d \in WebClient \ {c} : webCall'[d] = webCall[d]
    BY <1>2, <1>3, <1>5 DEF Go
  <1>6. ASSUME NEW u, Found(c, step, u)
        PROVE  /\ webCall'[c].step = step /\ webCall'[c].reset = webCall[c].reset
               /\ webCall'[c].user = u
               /\ \A d \in WebClient \ {c} : webCall'[d] = webCall[d]
    BY <1>2, <1>4, <1>6 DEF Found
  <1> QED BY <1>2, <1>5, <1>6 DEF Answer

(* A request that ends between setting a password and marking the reset: the   *)
(* reset counts as raced from then on.                                         *)
LEMMA ResetCut ==
  ASSUME WebInv, ResetInv, NEW c \in WebClient, WebFail(c), At(c, "mark")
  PROVE  ResetInv'
  <1> DEFINE r == webCall[c].reset
  <1>1. /\ UNCHANGED <<accounts, resets, resetSets>>
        /\ resetRaced' = resetRaced \cup {r}
        /\ webCall'[c] = NoWebCall
        /\ \A d \in WebClient \ {c} : webCall'[d] = webCall[d]
    BY ResetCall DEF WebFail
  <1>2. \A t \in Reset : t # None BY DEF Reset, None
  <1>3. NoWebCall.step = "idle" /\ NoWebCall.reset = None BY DEF NoWebCall
  <1>4. ResetPlaces' BY <1>1, <1>2, <1>3 DEF ResetInv, ResetPlaces
  <1>5. ASSUME NEW t \in Reset \ resetRaced'
        PROVE  /\ \A d, e \in WebClient : Holds(d, t)' /\ Holds(e, t)' => d = e
               /\ resetSets'[t] = 0 \/ Spent(t)'
    <2>1. t \in Reset \ resetRaced /\ t # r BY <1>1
    <2>2. ASSUME NEW d \in WebClient, webCall'[d].reset = t PROVE d # c /\ webCall'[d] = webCall[d]
      BY <1>1, <1>2, <1>3, <2>2
    <2>3. ASSUME Spent(t) PROVE Spent(t)'
      <3>1. \A d \in WebClient : ~Sets(d, t)' BY <2>2, <2>3 DEF Spent, Sets
      <3>2. ASSUME NEW d \in WebClient, webCall[d].reset = t
            PROVE  webCall'[d].reset = t /\ webCall'[d].step = webCall[d].step
        BY <1>1, <2>1, <3>2
      <3> QED BY <1>1, <2>3, <3>1, <3>2 DEF Spent
    <2>4. ASSUME NEW d \in WebClient, Holds(d, t)' PROVE Holds(d, t)
      BY <2>2, <2>4 DEF Holds
    <2> QED BY <1>1, <2>1, <2>3, <2>4 DEF ResetInv
  <1> QED BY <1>4, <1>5 DEF ResetInv

(* A reset that was never drawn before goes into one place.                    *)
LEMMA ResetAdd ==
  ASSUME WebInv, ResetInv, NEW c \in WebClient, AddReset(c)
  PROVE  ResetInv'
  <1> DEFINE u == webCall[c].user
  <1>1. PICK t \in Reset, inTable \in BOOLEAN :
          /\ ~resets[t].drawn
          /\ resets' = [resets EXCEPT ![t] = [drawn |-> TRUE, used |-> FALSE,
                                              user |-> IF inTable THEN u ELSE None]]
          /\ accounts' = IF ~inTable /\ Open(u)
                         THEN [accounts EXCEPT ![u].reset = t] ELSE accounts
    BY DEF AddReset, IsNew
  <1>2. /\ UNCHANGED <<resetSets, resetRaced>>
        /\ webCall[c].step = "addReset" /\ webCall'[c].step = "readLast"
        /\ webCall'[c].reset = webCall[c].reset
        /\ \A d \in WebClient \ {c} : webCall'[d] = webCall[d]
    BY ResetCall DEF AddReset, At
  <1>3. u \in Account BY <1>2, Acting DEF Flow
  <1>4. /\ \A s \in Reset \ {t} : resets'[s] = resets[s]
        /\ resets'[t].drawn
        /\ inTable <=> resets'[t].user # None
    <2>1. resets \in ResetTable BY DEF WebInv, WebTypeOK, ResetTable
    <2>2. u # None BY <1>2, Acting DEF Flow
    <2> QED BY <1>1, <2>1, <2>2 DEF ResetTable
  <1>5. \A v \in Account :
          accounts'[v].reset = accounts[v].reset \/ (v = u /\ accounts'[v].reset = t /\ ~inTable)
    BY <1>1, <1>3 DEF WebInv, WebTypeOK
  <1>6. /\ \A d \in WebClient : webCall[d].reset # t
        /\ \A v \in Account : accounts[v].reset # t
        /\ resetSets[t] = 0 /\ t # None
    BY <1>1 DEF ResetInv, ResetPlaces, Reset, None
  <1>7. \A d \in WebClient : webCall'[d].reset = webCall[d].reset /\ webCall'[d].reset # t
    BY <1>2, <1>6
  <1>8. ResetPlaces'
    <2>1. ASSUME NEW s \in Reset, ~resets'[s].drawn
          PROVE  /\ resets'[s].user = None /\ resetSets'[s] = 0
                 /\ \A d \in WebClient : webCall'[d].reset # s
      <3>1. s # t BY <1>4, <2>1
      <3> QED BY <1>2, <1>4, <1>7, <2>1, <3>1 DEF ResetInv, ResetPlaces
    <2>2. ASSUME NEW v \in Account, accounts'[v].reset # None
          PROVE  resets'[accounts'[v].reset].drawn /\ resets'[accounts'[v].reset].user = None
      <3>1. CASE accounts'[v].reset = t
        <4>1. ~inTable BY <1>5, <1>6, <3>1
        <4> QED BY <1>4, <3>1, <4>1
      <3>2. CASE accounts'[v].reset # t
        <4>1. accounts'[v].reset = accounts[v].reset BY <1>5, <3>2
        <4>2. accounts[v].reset \in Reset BY <2>2, <4>1 DEF WebInv, WebTypeOK
        <4> QED BY <1>4, <2>2, <3>2, <4>1, <4>2 DEF ResetInv, ResetPlaces
      <3> QED BY <3>1, <3>2
    <2>3. ASSUME NEW v \in Account, NEW w \in Account, accounts'[v].reset # None,
                 accounts'[v].reset = accounts'[w].reset
          PROVE  v = w
      BY <1>5, <1>6, <2>3 DEF ResetInv, ResetPlaces
    <2>4. ASSUME NEW d \in WebClient, NEW s \in Reset, webCall'[d].reset = s
          PROVE  /\ webCall'[d].step \in {"set", "mark"} => resets'[s].user # None
                 /\ webCall'[d].step = "setLegacy" =>
                      /\ resets'[s].user = None
                      /\ \A v \in Account : accounts'[v].reset = s => v = webCall'[d].user
      <3>1. s # t /\ webCall[d].reset = s BY <1>7, <2>4
      <3>2. CASE d = c BY <1>2, <3>2
      <3>3. CASE d # c
        <4>1. resets'[s] = resets[s] /\ webCall'[d] = webCall[d]
              /\ \A v \in Account : accounts'[v].reset = s => accounts[v].reset = s
          BY <1>2, <1>4, <1>5, <3>1, <3>3
        <4> QED BY <3>1, <4>1 DEF ResetInv, ResetPlaces
      <3> QED BY <3>2, <3>3
    <2> QED BY <2>1, <2>2, <2>3, <2>4 DEF ResetPlaces
  <1>9. ASSUME NEW s \in Reset \ resetRaced'
        PROVE  /\ \A d, e \in WebClient : Holds(d, s)' /\ Holds(e, s)' => d = e
               /\ resetSets'[s] = 0 \/ Spent(s)'
    <2>1. ASSUME NEW d \in WebClient, Holds(d, s)' PROVE Holds(d, s)
      BY <1>2, <2>1 DEF Holds
    <2>2. ASSUME resetSets[s] # 0 PROVE Spent(s)'
      <3>1. s # t /\ Spent(s) BY <1>2, <1>6, <2>2 DEF ResetInv
      <3>2. \A v \in Account : accounts'[v].reset # s BY <1>5, <3>1 DEF Spent
      <3>3. \A d \in WebClient : ~Sets(d, s)' BY <1>2, <3>1 DEF Spent, Sets
      <3>4. ASSUME NEW d \in WebClient, webCall[d].reset = s, webCall[d].step = "mark"
            PROVE  webCall'[d].reset = s /\ webCall'[d].step = "mark"
        BY <1>2, <3>4
      <3> QED BY <1>2, <1>4, <3>1, <3>2, <3>3, <3>4 DEF Spent
    <2> QED BY <1>2, <2>1, <2>2 DEF ResetInv
  <1> QED BY <1>8, <1>9 DEF ResetInv

(* A request that finds a reset: no other has it in hand, or it is raced.      *)
LEMMA ResetFound ==
  ASSUME WebInv, ResetInv, NEW c \in WebClient, webCall[c].step \in {"findReset", "findLegacy"},
         UNCHANGED <<accounts, resets, resetSets>>,
         NEW u \in Account, NEW step \in {"set", "setLegacy"}, Found(c, step, u),
         step = "set" => /\ resets[webCall[c].reset].user # None
                         /\ ~resets[webCall[c].reset].used,
         step = "setLegacy" => accounts[u].reset = webCall[c].reset
  PROVE  ResetInv'
  <1> DEFINE r == webCall[c].reset
  <1>1. /\ webCall'[c].step = step /\ webCall'[c].reset = r /\ webCall'[c].user = u
        /\ \A d \in WebClient \ {c} : webCall'[d] = webCall[d]
    BY ResetCall
  <1>2. r \in Reset /\ r # None BY Acting DEF Flow
  <1>3. step = "setLegacy" =>
          /\ resets[r].user = None
          /\ \A v \in Account : accounts[v].reset = r => v = u
    BY <1>2 DEF ResetInv, ResetPlaces
  <1>4. ResetPlaces'
    <2>1. \A t \in Reset : ~resets'[t].drawn =>
            /\ resets'[t].user = None /\ resetSets'[t] = 0
            /\ \A d \in WebClient : webCall'[d].reset # t
      BY <1>1 DEF ResetInv, ResetPlaces
    <2>2. ASSUME NEW d \in WebClient, NEW t \in Reset, webCall'[d].reset = t
          PROVE  /\ webCall'[d].step \in {"set", "mark"} => resets'[t].user # None
                 /\ webCall'[d].step = "setLegacy" =>
                      /\ resets'[t].user = None
                      /\ \A v \in Account : accounts'[v].reset = t => v = webCall'[d].user
      <3>1. CASE d = c BY <1>1, <1>3, <2>2, <3>1
      <3>2. CASE d # c BY <1>1, <2>2, <3>2 DEF ResetInv, ResetPlaces
      <3> QED BY <3>1, <3>2
    <2> QED BY <2>1, <2>2 DEF ResetInv, ResetPlaces
  <1>5. /\ resetRaced \subseteq resetRaced'
        /\ r \notin resetRaced' => \A d \in WebClient \ {c} : ~Holds(d, r)
    BY DEF Found, Confirming, Holds
  <1>6. ASSUME NEW t \in Reset \ resetRaced'
        PROVE  /\ \A d, e \in WebClient : Holds(d, t)' /\ Holds(e, t)' => d = e
               /\ resetSets'[t] = 0 \/ Spent(t)'
    <2>1. t \notin resetRaced BY <1>5
    <2>2. CASE t = r
      <3>1. \A d \in WebClient \ {c} : ~Holds(d, t)' BY <1>1, <1>5, <2>2 DEF Holds
      <3>2. resetSets[t] = 0
        <4>1. ASSUME Spent(t) PROVE FALSE
          <5>1. CASE step = "setLegacy" BY <2>2, <4>1, <5>1 DEF Spent
          <5>2. CASE step = "set"
            <6>1. PICK d \in WebClient : webCall[d].reset = t /\ webCall[d].step = "mark"
              BY <2>2, <4>1, <5>2 DEF Spent
            <6> QED BY <1>5, <2>2, <6>1 DEF Holds
          <5> QED BY <5>1, <5>2
        <4> QED BY <2>1, <4>1 DEF ResetInv
      <3> QED BY <3>1, <3>2
    <2>3. CASE t # r
      <3>1. \A d \in WebClient : webCall'[d].reset = t => d # c /\ webCall'[d] = webCall[d]
        BY <1>1, <2>3
      <3>2. \A d \in WebClient : Holds(d, t)' => Holds(d, t) BY <3>1 DEF Holds
      <3>3. ASSUME Spent(t) PROVE Spent(t)'
        <4>1. \A d \in WebClient : ~Sets(d, t)' BY <3>1, <3>3 DEF Spent, Sets
        <4>2. \A d \in WebClient : webCall[d].reset = t => webCall'[d] = webCall[d]
          BY <1>1, <2>3
        <4> QED BY <3>3, <4>1, <4>2 DEF Spent
      <3> QED BY <2>1, <3>2, <3>3 DEF ResetInv
    <2> QED BY <2>2, <2>3
  <1> QED BY <1>4, <1>6 DEF ResetInv

(* A confirmation finds its reset in the table, or in the columns.             *)
LEMMA ResetFind ==
  ASSUME WebInv, ResetInv, NEW c \in WebClient, FindReset(c) \/ FindLegacy(c)
  PROVE  ResetInv'
  <1> DEFINE r == webCall[c].reset
  <1>1. /\ UNCHANGED <<accounts, resets, resetSets>>
        /\ webCall[c].step \in {"findReset", "findLegacy"}
    BY DEF FindReset, FindLegacy, At
  <1>2. r \in Reset /\ r # None BY <1>1, Acting DEF Flow
  <1>3. CASE FindReset(c) /\ Found(c, "set", resets[r].user) /\ resets[r].user # None
             /\ ~resets[r].used
    <2>1. resets[r].user \in Account BY <1>2, <1>3 DEF WebInv, WebTypeOK
    <2> QED BY <1>1, <1>3, <2>1, ResetFound
  <1>4. ASSUME NEW u \in Account, accounts[u].reset = r, Found(c, "setLegacy", u)
        PROVE  ResetInv'
    BY <1>1, <1>4, ResetFound
  <1>5. CASE (Go(c, "findLegacy") \/ Answer(c)) /\ UNCHANGED resetRaced
    <2>1. /\ webCall'[c].step \in {"findLegacy", "idle"}
          /\ webCall'[c].reset \in {r, None}
          /\ \A d \in WebClient \ {c} : webCall'[d] = webCall[d]
      BY <1>5, ResetCall DEF NoWebCall
    <2>2. ResetsStay(c) BY <1>1, <1>5, <2>1 DEF ResetsStay
    <2> QED BY <2>2, ResetStays
  <1> QED BY <1>3, <1>4, <1>5 DEF FindReset, FindLegacy, OpenAccounts

(* A password is set: by change_password, or once with a reset.                *)
LEMMA ResetSet == ASSUME WebInv, ResetInv, NEW c \in WebClient, SetPassword(c) PROVE ResetInv'
  <1> DEFINE call == webCall[c]
             r == call.reset
  <1>1. /\ UNCHANGED <<resets, resetRaced>>
        /\ call.step \in {"set", "setLegacy"}
        /\ \A u \in Account : accounts'[u].reset \in {accounts[u].reset, None}
    <2>1. call.user \in Account BY Acting DEF SetPassword, At, Flow
    <2>2. accounts \in UserTable BY DEF WebInv, WebTypeOK, UserTable
    <2> QED BY <2>1, <2>2 DEF SetPassword, At, UserTable
  <1>2. Flow(call) BY Acting
  <1>3. CASE call.op # "reset_password_confirm"
    <2>1. r = None BY <1>2, <1>3 DEF Flow
    <2>2. UNCHANGED resetSets BY <1>3 DEF SetPassword
    <2>3. Go(c, "readLast") BY <1>3 DEF SetPassword
    <2>4. ResetsStay(c) BY <1>1, <2>1, <2>2, <2>3, ResetCall DEF ResetsStay
    <2> QED BY <2>4, ResetStays
  <1>4. CASE call.op = "reset_password_confirm"
    <2>1. r # None /\ r \in Reset BY <1>2, <1>4, Acting DEF Flow
    <2>2. resetSets' = [resetSets EXCEPT ![r] = Once(resetSets[r])] BY <1>4 DEF SetPassword
    <2>3. /\ webCall'[c].step = IF call.step = "set" THEN "mark" ELSE "readLast"
          /\ webCall'[c].reset = r
          /\ \A d \in WebClient \ {c} : webCall'[d] = webCall[d]
      BY <1>4, ResetCall DEF SetPassword
    <2>4. /\ resets[r].drawn
          /\ \A t \in Reset \ {r} : resetSets'[t] = resetSets[t]
          /\ resetSets[r] = 0 => resetSets'[r] = 1
      <3>1. resetSets \in [Reset -> 0 .. 2] BY DEF WebInv, WebTypeOK
      <3>2. resets[r].drawn BY <2>1 DEF ResetInv, ResetPlaces
      <3> QED BY <2>1, <2>2, <3>1, <3>2 DEF Once
    <2>5. ResetPlaces'
      <3>1. ASSUME NEW t \in Reset, ~resets'[t].drawn
            PROVE  /\ resets'[t].user = None /\ resetSets'[t] = 0
                   /\ \A d \in WebClient : webCall'[d].reset # t
        BY <1>1, <2>3, <2>4, <3>1 DEF ResetInv, ResetPlaces
      <3>2. ASSUME NEW u \in Account, accounts'[u].reset # None
            PROVE  resets'[accounts'[u].reset].drawn /\ resets'[accounts'[u].reset].user = None
        BY <1>1, <3>2 DEF ResetInv, ResetPlaces
      <3>3. ASSUME NEW u \in Account, NEW v \in Account, accounts'[u].reset # None,
                   accounts'[u].reset = accounts'[v].reset
            PROVE  u = v
        BY <1>1, <3>3 DEF ResetInv, ResetPlaces
      <3>4. ASSUME NEW d \in WebClient, NEW t \in Reset, webCall'[d].reset = t
            PROVE  /\ webCall'[d].step \in {"set", "mark"} => resets'[t].user # None
                   /\ webCall'[d].step = "setLegacy" =>
                        /\ resets'[t].user = None
                        /\ \A u \in Account : accounts'[u].reset = t => u = webCall'[d].user
        <4>0. t # None BY DEF Reset, None
        <4>1. CASE d = c BY <1>1, <2>3, <3>4, <4>1 DEF ResetInv, ResetPlaces
        <4>2. CASE d # c BY <1>1, <2>3, <3>4, <4>0, <4>2 DEF ResetInv, ResetPlaces
        <4> QED BY <4>1, <4>2
      <3> QED BY <3>1, <3>2, <3>3, <3>4 DEF ResetPlaces
    <2>6. ASSUME NEW t \in Reset \ resetRaced'
          PROVE  /\ \A d, e \in WebClient : Holds(d, t)' /\ Holds(e, t)' => d = e
                 /\ resetSets'[t] = 0 \/ Spent(t)'
      <3>1. t \in Reset \ resetRaced /\ t # None BY <1>1 DEF Reset, None
      <3>2. \A d \in WebClient : Holds(d, t)' => Holds(d, t)
        BY <1>1, <2>3 DEF Holds
      <3>3. CASE t = r
        <4>1. Holds(c, t) /\ Sets(c, t) BY <1>1, <3>3 DEF Holds, Sets
        <4>2. resetSets'[t] = 1 BY <2>4, <3>1, <3>3, <4>1 DEF ResetInv, Spent
        <4>3. \A d \in WebClient : ~Sets(d, t)'
          <5>1. \A d \in WebClient \ {c} : ~Holds(d, t)
            BY <3>1, <4>1 DEF ResetInv
          <5> QED BY <2>3, <5>1 DEF Sets, Holds
        <4>4. CASE call.step = "set"
          <5>1. resets[t].user # None BY <3>3, <4>4 DEF ResetInv, ResetPlaces
          <5>2. \A u \in Account : accounts[u].reset # t
            BY <3>1, <5>1 DEF ResetInv, ResetPlaces
          <5>3. \A u \in Account : accounts'[u].reset # t BY <1>1, <3>1, <5>2
          <5>4. webCall'[c].reset = t /\ webCall'[c].step = "mark" BY <2>3, <3>3, <4>4
          <5> QED BY <3>1, <3>2, <4>2, <4>3, <5>3, <5>4 DEF Spent, ResetInv
        <4>5. CASE call.step = "setLegacy"
          <5>1. /\ resets[t].user = None
                /\ \A u \in Account : accounts[u].reset = t => u = call.user
            BY <3>1, <3>3, <4>5 DEF ResetInv, ResetPlaces
          <5>2. accounts' = [accounts EXCEPT ![call.user].reset = None]
            BY <4>5 DEF SetPassword
          <5>3. call.user \in Account BY <4>5, Acting DEF Flow
          <5>4. accounts'[call.user].reset = None
            BY <5>2, <5>3 DEF WebInv, WebTypeOK
          <5>5. \A u \in Account : accounts'[u].reset # t BY <1>1, <3>1, <5>1, <5>4
          <5> QED BY <1>1, <3>1, <3>2, <4>2, <4>3, <5>1, <5>5 DEF Spent, ResetInv
        <4> QED BY <1>1, <4>4, <4>5
      <3>4. CASE t # r
        <4>1. resetSets'[t] = resetSets[t] BY <2>4, <3>4
        <4>2. ASSUME Spent(t) PROVE Spent(t)'
          <5>1. \A u \in Account : accounts'[u].reset # t BY <1>1, <3>1, <4>2 DEF Spent
          <5>2. \A d \in WebClient : ~Sets(d, t)' BY <2>3, <3>4, <4>2 DEF Spent, Sets
          <5>3. \A d \in WebClient : webCall[d].reset = t => webCall'[d] = webCall[d]
            BY <2>3, <3>4
          <5> QED BY <1>1, <4>1, <4>2, <5>1, <5>2, <5>3 DEF Spent
        <4> QED BY <3>1, <3>2, <4>1, <4>2 DEF ResetInv
      <3> QED BY <3>3, <3>4
    <2> QED BY <2>5, <2>6 DEF ResetInv
  <1> QED BY <1>3, <1>4

(* A reset that is marked is not found again.                                  *)
LEMMA ResetMark == ASSUME WebInv, ResetInv, NEW c \in WebClient, MarkUsed(c) PROVE ResetInv'
  <1> DEFINE r == webCall[c].reset
  <1>1. /\ UNCHANGED <<accounts, resetSets, resetRaced>>
        /\ webCall[c].step = "mark"
        /\ resets' = [resets EXCEPT ![r].used = TRUE]
        /\ webCall'[c].step = "readLast" /\ webCall'[c].reset = r
        /\ \A d \in WebClient \ {c} : webCall'[d] = webCall[d]
    BY ResetCall DEF MarkUsed, At
  <1>2. r \in Reset BY <1>1, Acting DEF Flow
  <1>3. /\ resets'[r].used
        /\ \A t \in Reset : /\ resets'[t].drawn = resets[t].drawn
                            /\ resets'[t].user = resets[t].user
                            /\ resets[t].used => resets'[t].used
    BY <1>1, <1>2 DEF WebInv, WebTypeOK
  <1>4. ResetPlaces'
    <2>1. ASSUME NEW d \in WebClient, NEW t \in Reset, webCall'[d].reset = t
          PROVE  /\ webCall'[d].step \in {"set", "mark"} => resets'[t].user # None
                 /\ webCall'[d].step = "setLegacy" =>
                      /\ resets'[t].user = None
                      /\ \A v \in Account : accounts'[v].reset = t => v = webCall'[d].user
      <3>1. CASE d = c BY <1>1, <3>1
      <3>2. CASE d # c BY <1>1, <1>3, <2>1, <3>2 DEF ResetInv, ResetPlaces
      <3> QED BY <3>1, <3>2
    <2>2. ASSUME NEW t \in Reset, ~resets'[t].drawn
          PROVE  /\ resets'[t].user = None /\ resetSets'[t] = 0
                 /\ \A d \in WebClient : webCall'[d].reset # t
      BY <1>1, <1>3, <2>2 DEF ResetInv, ResetPlaces
    <2>3. ASSUME NEW u \in Account, accounts'[u].reset # None
          PROVE  resets'[accounts'[u].reset].drawn /\ resets'[accounts'[u].reset].user = None
      <3>1. accounts[u].reset \in Reset BY <1>1, <2>3 DEF WebInv, WebTypeOK
      <3> QED BY <1>1, <1>3, <2>3, <3>1 DEF ResetInv, ResetPlaces
    <2> QED BY <1>1, <2>1, <2>2, <2>3 DEF ResetInv, ResetPlaces
  <1>5. ASSUME NEW t \in Reset \ resetRaced'
        PROVE  /\ \A d, e \in WebClient : Holds(d, t)' /\ Holds(e, t)' => d = e
               /\ resetSets'[t] = 0 \/ Spent(t)'
    <2>1. \A d \in WebClient : Holds(d, t)' => Holds(d, t) BY <1>1 DEF Holds
    <2>2. ASSUME Spent(t) PROVE Spent(t)'
      <3>1. \A d \in WebClient : ~Sets(d, t)' BY <1>1, <2>2 DEF Spent, Sets
      <3>2. ASSUME NEW d \in WebClient, webCall[d].reset = t, webCall[d].step = "mark", t # r
            PROVE  webCall'[d].reset = t /\ webCall'[d].step = "mark"
        BY <1>1, <3>2
      <3> QED BY <1>1, <1>3, <2>2, <3>1, <3>2 DEF Spent
    <2> QED BY <1>1, <2>1, <2>2 DEF ResetInv
  <1> QED BY <1>4, <1>5 DEF ResetInv

(* Every step keeps it.                                                        *)
LEMMA ResetStep == WebInv /\ ResetInv /\ [WebNext]_webVars => ResetInv'
  <1> SUFFICES ASSUME WebInv, ResetInv, [WebNext]_webVars PROVE ResetInv' OBVIOUS
  <1>1. CASE UNCHANGED webVars
    BY <1>1 DEF webVars, ResetInv, ResetPlaces, Holds, Spent, Sets
  <1>2. ASSUME NEW t \in Reset, ResetExpires(t) PROVE ResetInv'
    BY <1>2 DEF ResetExpires, ResetInv, ResetPlaces, Holds, Spent, Sets
  <1>3. ASSUME NEW c \in WebClient,
               \/ AddReset(c) \/ FindReset(c) \/ FindLegacy(c) \/ SetPassword(c) \/ MarkUsed(c)
               \/ WebFail(c) /\ At(c, "mark")
        PROVE  ResetInv'
    BY <1>3, ResetAdd, ResetFind, ResetSet, ResetMark, ResetCut
  <1> QED BY <1>1, <1>2, <1>3, ResetQuiet DEF WebNext

(* A reset sets a password once, unless two requests confirm it at the same    *)
(* time or one ends between its two UPDATEs: ResetSetsOnce of WebApi, about    *)
(* reset_password_confirm.                                                     *)
THEOREM ResetsSetOnce == WebSpec => []ResetSetsOnce
  <1>1. WebInit => WebInv /\ ResetInv BY WebInitHolds, ResetInit
  <1>2. WebInv /\ ResetInv /\ [WebNext]_webVars => WebInv' /\ ResetInv'
    BY WebStepKeeps, ResetStep
  <1>3. ResetInv => ResetSetsOnce
    <2> SUFFICES ASSUME ResetInv, NEW t \in Reset \ resetRaced PROVE resetSets[t] < 2
      BY DEF ResetSetsOnce
    <2>1. resetSets[t] = 0 \/ resetSets[t] = 1 BY DEF ResetInv, Spent
    <2> QED BY <2>1
  <1> QED BY <1>1, <1>2, <1>3, PTL DEF WebSpec

-----------------------------------------------------------------------------
(* The ledger of keys.                                                         *)

\* What a step may do to a request beside issuing and withdrawing keys.
Lapses(old, new) ==
  \/ new \in {old, WebLedger!Idle}
  \/ old.phase = "assured" /\ new = WebLedger!Asking

(* A request that shows its key, one whose key was found, one that is served,  *)
(* and those that need none.                                                   *)
LEMMA RequestIs ==
  ASSUME NEW call \in WebCallRecord
  PROVE  /\ call.op \notin NeedsUser => WebRequest(call) = WebLedger!Idle
         /\ call.op \in NeedsUser /\ call.step = "key" => WebRequest(call) = WebLedger!Asking
         /\ call.op \in NeedsUser /\ call.step = "user" =>
              WebRequest(call) = IF Open(call.user) THEN WebLedger!In("assured", call.user)
                                 ELSE WebLedger!Asking
         /\ call.op \in NeedsUser /\ call.step \notin {"key", "user"} =>
              WebRequest(call) = WebLedger!In("served", call.user)
  BY DEF WebRequest, WebLedger!Idle, WebLedger!Asking, WebLedger!In

\* What requests and keys are mapped to is in the types of the ledger.
LedgerTypes ==
  /\ \A c \in WebClient : WebRequest(webCall[c]) \in WebLedger!Request
  /\ WebKeysOnRecord \in [WebKey -> WebLedger!Entry]

(* So it is in every state that has its own types.                             *)
LEMMA LedgerTyped == WebTypeOK => LedgerTypes
  <1> SUFFICES ASSUME WebTypeOK PROVE LedgerTypes OBVIOUS
  <1>1. ASSUME NEW c \in WebClient PROVE WebRequest(webCall[c]) \in WebLedger!Request
    <2> DEFINE call == webCall[c]
    <2>1. call \in WebCallRecord /\ call.user \in Account \cup {None}
      BY DEF WebTypeOK, WebCallRecord
    <2>2. /\ WebLedger!Idle \in WebLedger!Request /\ WebLedger!Asking \in WebLedger!Request
          /\ \A u \in Account \cup {None} : /\ WebLedger!In("assured", u) \in WebLedger!Request
                                            /\ WebLedger!In("served", u) \in WebLedger!Request
      BY DEF WebLedger!Idle, WebLedger!Asking, WebLedger!In, WebLedger!Request
    <2>3. WebRequest(call) \in {WebLedger!Idle, WebLedger!Asking,
                                WebLedger!In("assured", call.user),
                                WebLedger!In("served", call.user)}
      BY <2>1, RequestIs
    <2> QED BY <2>1, <2>2, <2>3
  <1>2. ASSUME NEW k \in WebKey
        PROVE  [state |-> WebKeyState(webKeys[k]), owner |-> webKeys[k].user] \in WebLedger!Entry
    <2>1. WebKeyState(webKeys[k]) \in {"unissued", "valid", "withdrawn"} BY DEF WebKeyState
    <2>2. webKeys[k].user \in Account \cup {None} BY DEF WebTypeOK
    <2> QED BY <2>1, <2>2 DEF WebLedger!Entry
  <1> QED BY <1>1, <1>2 DEF WebKeysOnRecord, LedgerTypes

(* While the tables only grow, no account that is not open becomes open again. *)
LEMMA NoneReopens ==
  ASSUME WebInv, WebInv', TablesGrow, NEW u \in Account, accounts[u].state # "none", Open(u)'
  PROVE  Open(u)
  <1>1. accounts[u].state \in {"none", "open", "deleted"} BY DEF WebInv, WebTypeOK
  <1> QED BY <1>1 DEF TablesGrow, Open

(* So keys go forward, with the owner that they have.                          *)
LEMMA KeysForward ==
  ASSUME WebInv, WebInv', TablesGrow, NEW k \in WebKey
  PROVE  WebLedger!Forward(WebKeysOnRecord[k], WebKeysOnRecord'[k])
  <1> DEFINE key == webKeys[k]
             before == [state |-> WebKeyState(key), owner |-> key.user]
             after == [state |-> WebKeyState(key)', owner |-> key'.user]
  <1>1. WebKeysOnRecord[k] = before /\ WebKeysOnRecord'[k] = after BY DEF WebKeysOnRecord
  <1>2. CASE key.user = None
    <2>1. before.state = "unissued" BY <1>2 DEF WebKeyState
    <2>2. key'.user = None => after = before BY <1>2 DEF WebKeyState
    <2>3. key'.user # None => after.state \in {"valid", "withdrawn"} BY DEF WebKeyState
    <2> HIDE DEF before, after
    <2> QED BY <1>1, <2>1, <2>2, <2>3 DEF WebLedger!Forward
  <1>3. CASE key.user # None
    <2>1. /\ key'.user = key.user
          /\ key'.there => key.there
          /\ key.user \in Account /\ accounts[key.user].state # "none"
      BY <1>3 DEF TablesGrow, WebInv, WebTypeOK, RowsInv
    <2>2. Open(key.user)' => Open(key.user) BY <2>1, NoneReopens DEF Open
    <2>3. /\ WebKeyState(key) = IF key.there /\ Open(key.user) THEN "valid" ELSE "withdrawn"
          /\ WebKeyState(key)' = IF key'.there /\ Open(key.user)' THEN "valid" ELSE "withdrawn"
      BY <1>3, <2>1 DEF WebKeyState
    <2>4. \/ WebKeyState(key)' = WebKeyState(key)
          \/ WebKeyState(key) = "valid" /\ WebKeyState(key)' = "withdrawn"
      BY <2>1, <2>2, <2>3
    <2>5. \/ after = before
          \/ before.state = "valid" /\ after.state = "withdrawn"
      <3>1. CASE WebKeyState(key)' = WebKeyState(key)
        <4>1. key'.user = key.user BY <2>1
        <4> QED BY <3>1, <4>1
      <3>2. CASE WebKeyState(key) = "valid" /\ WebKeyState(key)' = "withdrawn"
        BY <3>2
      <3> QED BY <2>4, <3>1, <3>2
    <2>6. after.owner = before.owner BY <2>1
    <2> HIDE DEF before, after
    <2> QED BY <1>1, <2>5, <2>6 DEF WebLedger!Forward
  <1> QED BY <1>2, <1>3

(* A request that takes no step lapses at most: its account may be removed.    *)
LEMMA Stands ==
  ASSUME WebInv, WebInv', TablesGrow, NEW c \in WebClient, webCall'[c] = webCall[c]
  PROVE  Lapses(WebRequest(webCall[c]), WebRequest(webCall[c])')
  <1> DEFINE call == webCall[c]
  <1>1. /\ call \in WebCallRecord /\ Flow(call) /\ Grounded(call, accounts, webKeys, webGone)
        /\ call.user # None => call.user \in Account
    BY Acting
  <1>2. CASE call.op \in NeedsUser /\ call.step = "user"
    <2>1. /\ WebRequest(call) = IF Open(call.user) THEN WebLedger!In("assured", call.user)
                                ELSE WebLedger!Asking
          /\ WebRequest(call)' = IF Open(call.user)' THEN WebLedger!In("assured", call.user)
                                 ELSE WebLedger!Asking
      BY <1>2 DEF WebRequest, WebLedger!In, WebLedger!Asking
    <2>2. call.user # None BY <1>1, <1>2 DEF Flow
    <2>3. Open(call.user)' => Open(call.user)
      BY <1>1, <2>2, NoneReopens DEF Open, Grounded
    <2> QED BY <2>1, <2>3 DEF Lapses, WebLedger!In
  <1>3. CASE ~(call.op \in NeedsUser /\ call.step = "user")
    <2>1. WebRequest(call)' = WebRequest(call) BY <1>3 DEF WebRequest
    <2> QED BY <2>1 DEF Lapses
  <1> QED BY <1>2, <1>3

(* A step that lets requests lapse at most is one of managing keys.            *)
LEMMA WebManaged ==
  ASSUME WebInv, WebInv', TablesGrow,
         \A c \in WebClient : Lapses(WebRequest(webCall[c]), WebRequest(webCall[c])')
  PROVE  WebLedger!Next
  <1>1. LedgerTypes'
    <2>1. WebTypeOK' BY DEF WebInv
    <2> QED BY <2>1, LedgerTyped, PTL
  <1>2. /\ WebRequests = [c \in WebClient |-> WebRequest(webCall[c])]
        /\ WebRequests' = [c \in WebClient |-> WebRequest(webCall[c])']
    BY DEF WebRequests
  <1>3. WebRequests' \in [WebClient -> WebLedger!Request] BY <1>1, <1>2 DEF LedgerTypes
  <1>4. \A k \in WebKey : WebLedger!Forward(WebKeysOnRecord[k], WebKeysOnRecord'[k])
    BY KeysForward
  <1>5. \A c \in WebClient :
           \/ WebRequests'[c] \in {WebRequests[c], WebLedger!Idle}
           \/ WebRequests[c].phase = "assured" /\ WebRequests'[c] = WebLedger!Asking
    BY <1>2 DEF Lapses
  <1> QED BY <1>1, <1>3, <1>4, <1>5 DEF LedgerTypes, WebLedger!Next, WebLedger!Manage

(* A step of a client that changes neither accounts nor keys.                  *)
LEMMA RequestMoves ==
  ASSUME WebInv, NEW c \in WebClient, NEW q, Move(c, q), UNCHANGED <<accounts, webKeys>>
  PROVE  /\ WebKeysOnRecord' = WebKeysOnRecord
         /\ WebRequests' = [WebRequests EXCEPT ![c] = WebRequest(q)]
         /\ WebRequests[c] = WebRequest(webCall[c])
  <1>1. webCall' = [webCall EXCEPT ![c] = q] /\ webCall \in [WebClient -> WebCallRecord]
    BY DEF Move, WebInv, WebTypeOK
  <1>2. WebKeysOnRecord' = WebKeysOnRecord BY DEF WebKeysOnRecord, WebKeyState, Open
  <1>3. \A d \in WebClient :
          WebRequest(webCall[d])' = IF d = c THEN WebRequest(q) ELSE WebRequest(webCall[d])
    BY <1>1 DEF WebRequest, Open
  <1> QED BY <1>2, <1>3 DEF WebRequests

\* A request that needs no user goes on, or one goes on that is served.
PassesOn(old, new) ==
  \/ new.op \notin NeedsUser
  \/ /\ new.op = old.op /\ new.user = old.user
     /\ {old.step, new.step} \cap {"key", "user"} = {}

(* Such a step, and any answer, is one of managing keys.                       *)
LEMMA PassingManages ==
  ASSUME WebInv, WebInv', TablesGrow, NEW c \in WebClient, NEW q,
         Move(c, q), PassesOn(webCall[c], q)
  PROVE  WebLedger!Next
  <1>1. /\ webCall \in [WebClient -> WebCallRecord] /\ webCall' \in [WebClient -> WebCallRecord]
        /\ webCall'[c] = q
        /\ \A d \in WebClient \ {c} : webCall'[d] = webCall[d]
    BY DEF Move, WebInv, WebTypeOK
  <1>2. Lapses(WebRequest(webCall[c]), WebRequest(webCall[c])')
    <2>1. CASE q.op \notin NeedsUser
      <3>1. WebRequest(webCall[c])' = WebLedger!Idle
        BY <1>1, <2>1 DEF WebRequest, WebLedger!Idle, WebLedger!In
      <3> QED BY <3>1 DEF Lapses
    <2>2. CASE q.op \in NeedsUser
      <3>1. /\ q.op = webCall[c].op /\ q.user = webCall[c].user
            /\ webCall[c].step \notin {"key", "user"} /\ q.step \notin {"key", "user"}
        BY <2>2 DEF PassesOn
      <3>2. WebRequest(webCall[c])' = WebRequest(webCall[c])
        BY <1>1, <2>2, <3>1 DEF WebRequest
      <3> QED BY <3>2 DEF Lapses
    <2> QED BY <2>1, <2>2
  <1>3. \A d \in WebClient \ {c} : Lapses(WebRequest(webCall[d]), WebRequest(webCall[d])')
    BY <1>1, Stands
  <1> QED BY <1>2, <1>3, WebManaged

(* An answer, a step to another statement, and one of a request that needs no  *)
(* user pass a request on.                                                     *)
LEMMA Passing ==
  ASSUME WebInv, WebInv', TablesGrow, NEW c \in WebClient
  PROVE  /\ Answer(c) => WebLedger!Next
         /\ \A step \in WebStep \ {"key", "user"} :
              webCall[c].step \notin {"key", "user"} /\ Go(c, step) => WebLedger!Next
         /\ \A q \in WebCallRecord :
              Move(c, q) /\ q.op \notin NeedsUser => WebLedger!Next
  <1>1. webCall[c] \in WebCallRecord BY Acting
  <1>2. PassesOn(webCall[c], NoWebCall) BY DEF PassesOn, NoWebCall, NeedsUser
  <1>3. ASSUME NEW step \in WebStep \ {"key", "user"}, webCall[c].step \notin {"key", "user"}
        PROVE  PassesOn(webCall[c], [webCall[c] EXCEPT !.step = step])
    BY <1>1, <1>3 DEF PassesOn, WebCallRecord
  <1>4. \A q \in WebCallRecord : q.op \notin NeedsUser => PassesOn(webCall[c], q)
    BY DEF PassesOn
  <1> QED BY <1>2, <1>3, <1>4, PassingManages DEF Answer, Go

(* To show a key is to ask.                                                    *)
LEMMA BeginIsAsking ==
  ASSUME WebInv, WebInv', TablesGrow, NEW c \in WebClient, WebBegin(c)
  PROVE  WebLedger!Next
  <1>1. PICK q : Move(c, q) /\ (q.op \in NeedsUser => q.step = "key")
    <2> DEFINE asks(op) == [NoWebCall EXCEPT !.step = "account", !.op = op]
               confirms(t) == [NoWebCall EXCEPT !.step = "findReset",
                                                !.op = "reset_password_confirm", !.reset = t]
               late(k) == k \in webGone \/ ~Open(webKeys[k].user)
               shows(op, k, b) == [NoWebCall EXCEPT !.step = "key", !.op = op, !.key = k,
                                                    !.barred = b]
    <2>1. \A op \in {"register", "login", "reset_password"} : asks(op).op \notin NeedsUser
      BY DEF NoWebCall, NeedsUser
    <2>2. \A t : confirms(t).op \notin NeedsUser BY DEF NoWebCall, NeedsUser
    <2>3. \A op, k, b : shows(op, k, b).step = "key" BY DEF NoWebCall
    <2>4. \/ \E op \in {"register", "login", "reset_password"} : Move(c, asks(op))
          \/ \E t : Move(c, confirms(t))
          \/ \E op, k : Move(c, shows(op, k, late(k)))
      BY DEF WebBegin
    <2> HIDE DEF asks, confirms, shows, late
    <2> QED BY <2>1, <2>2, <2>3, <2>4
  <1>2. /\ UNCHANGED <<accounts, webKeys>> /\ webCall[c].step = "idle"
        /\ webCall[c] \in WebCallRecord
        /\ webCall'[c] = q /\ webCall'[c] \in WebCallRecord
    BY <1>1 DEF WebBegin, At, Move, WebInv, WebTypeOK
  <1>3. CASE q.op \notin NeedsUser BY <1>1, <1>2, <1>3, Passing
  <1>4. CASE q.op \in NeedsUser /\ q.step = "key"
    <2>1. WebRequest(q) = WebLedger!Asking BY <1>2, <1>4, RequestIs
    <2>2. WebRequest(webCall[c]) \in {WebLedger!Idle, WebLedger!In("served", webCall[c].user)}
      BY <1>2, RequestIs
    <2>3. /\ WebKeysOnRecord' = WebKeysOnRecord
          /\ WebRequests' = [WebRequests EXCEPT ![c] = WebRequest(q)]
          /\ WebRequests[c] = WebRequest(webCall[c])
      BY <1>1, <1>2, RequestMoves
    <2>4. WebRequests[c].phase \in {"idle", "served"}
      BY <2>2, <2>3 DEF WebLedger!Idle, WebLedger!In
    <2>5. WebLedger!Ask(c)
      BY <2>1, <2>3, <2>4 DEF WebLedger!Ask, WebLedger!Free, WebLedger!Becomes
    <2> QED BY <2>5 DEF WebLedger!Next
  <1> QED BY <1>1, <1>3, <1>4

(* To find the row of a key whose account is there is to be assured of it.     *)
LEMMA TokenIsAssurance ==
  ASSUME WebInv, WebInv', TablesGrow, NEW c \in WebClient, CheckToken(c)
  PROVE  WebLedger!Next \/ UNCHANGED <<WebKeysOnRecord, WebRequests>>
  <1> DEFINE call == webCall[c]
             k == call.key
             key == webKeys[k]
             q == [call EXCEPT !.step = "user", !.user = key.user]
  <1>1. OnlyReads /\ call.step = "key" BY DEF CheckToken, At
  <1>2. /\ call \in WebCallRecord /\ Flow(call) /\ call.op \in NeedsUser /\ k \in WebKey
        /\ UNCHANGED <<accounts, webKeys>>
    BY <1>1, Acting DEF Flow, OnlyReads
  <1>3. CASE ~key.there BY <1>3, Passing DEF CheckToken
  <1>4. CASE key.there
    <2>1. Move(c, q) BY <1>4 DEF CheckToken
    <2>2. /\ key.user \in Account /\ key.user # None
      BY <1>2, <1>4 DEF WebInv, WebTypeOK, RowsInv
    <2>3. /\ q \in WebCallRecord /\ q.step = "user" /\ q.user = key.user /\ q.op = call.op
      BY <1>2, <2>2 DEF WebCallRecord, WebStep
    <2>4. /\ WebRequest(call) = WebLedger!Asking
          /\ WebRequest(q) = IF Open(key.user) THEN WebLedger!In("assured", key.user)
                             ELSE WebLedger!Asking
      BY <1>1, <1>2, <2>3, RequestIs
    <2> HIDE DEF q
    <2>5. /\ WebKeysOnRecord' = WebKeysOnRecord
          /\ WebRequests' = [WebRequests EXCEPT ![c] = WebRequest(q)]
          /\ WebRequests[c] = WebRequest(call)
      BY <1>2, <2>1, RequestMoves
    <2>6. CASE Open(key.user)
      <3>1. WebKeysOnRecord[k] = [state |-> "valid", owner |-> key.user]
        BY <1>2, <1>4, <2>2, <2>6 DEF WebKeysOnRecord, WebKeyState
      <3>2. WebLedger!Assure(c, k)
        BY <2>4, <2>5, <2>6, <3>1 DEF WebLedger!Assure, WebLedger!Becomes
      <3> QED BY <1>2, <3>2 DEF WebLedger!Next
    <2>7. CASE ~Open(key.user)
      <3>1. WebRequests' = WebRequests BY <2>4, <2>5, <2>7 DEF WebRequests
      <3> QED BY <2>5, <3>1
    <2> QED BY <2>6, <2>7
  <1> QED BY <1>3, <1>4

(* To find the row of the account is to be served.                             *)
LEMMA UserIsService ==
  ASSUME WebInv, WebInv', TablesGrow, NEW c \in WebClient, CheckUser(c)
  PROVE  WebLedger!Next
  <1> DEFINE call == webCall[c]
             q == [call EXCEPT !.step = FirstStep(call.op)]
  <1>1. OnlyReads /\ call.step = "user" BY DEF CheckUser, At
  <1>2. /\ call \in WebCallRecord /\ Flow(call) /\ call.op \in NeedsUser
        /\ UNCHANGED <<accounts, webKeys>>
    BY <1>1, Acting DEF Flow, OnlyReads
  <1>3. CASE ~Open(call.user) BY <1>3, Passing DEF CheckUser
  <1>4. CASE Open(call.user)
    <2>1. Move(c, q) BY <1>4 DEF CheckUser, Go
    <2>2. FirstStep(call.op) \in WebStep \ {"key", "user"}
      BY <1>2 DEF FirstStep, NeedsUser, WebStep
    <2>3. /\ q \in WebCallRecord /\ q.step \notin {"key", "user"}
          /\ q.op = call.op /\ q.user = call.user
      BY <1>2, <2>2 DEF WebCallRecord
    <2>4. /\ WebRequest(call) = WebLedger!In("assured", call.user)
          /\ WebRequest(q) = WebLedger!In("served", call.user)
      BY <1>1, <1>2, <1>4, <2>3, RequestIs
    <2> HIDE DEF q
    <2>5. /\ WebKeysOnRecord' = WebKeysOnRecord
          /\ WebRequests' = [WebRequests EXCEPT ![c] = WebRequest(q)]
          /\ WebRequests[c] = WebRequest(call)
      BY <1>2, <2>1, RequestMoves
    <2>6. WebLedger!Serve(c)
      BY <2>4, <2>5 DEF WebLedger!Serve, WebLedger!Becomes, WebLedger!In
    <2> QED BY <2>6 DEF WebLedger!Next
  <1> QED BY <1>3, <1>4

(* The other statements of a request serve nobody.                             *)
LEMMA StatementsPass ==
  ASSUME WebInv, WebInv', TablesGrow, NEW c \in WebClient,
         \/ WebFail(c) \/ FindAccount(c) \/ AddUser(c) \/ FindKey(c) \/ AddKey(c)
         \/ RemoveKey(c) \/ RemoveUser(c) \/ AddReset(c) \/ FindReset(c) \/ FindLegacy(c)
         \/ VerifyPassword(c) \/ SetPassword(c) \/ MarkUsed(c) \/ ReadLast(c) \/ AddRow(c)
  PROVE  WebLedger!Next
  <1> DEFINE call == webCall[c]
  <1>1. call \in WebCallRecord /\ Flow(call) BY Acting
  <1>2. webCall' \in [WebClient -> WebCallRecord] /\ webCall \in [WebClient -> WebCallRecord]
    BY DEF WebInv, WebTypeOK
  <1>3. ASSUME NEW q, Move(c, q), q.op \notin NeedsUser PROVE WebLedger!Next
    <2>1. q \in WebCallRecord BY <1>2, <1>3 DEF Move
    <2> QED BY <1>3, <2>1, Passing
  <1>4. ASSUME call.step \notin {"key", "user"}, NEW step \in WebStep \ {"key", "user"}, NEW k,
               Move(c, [call EXCEPT !.step = step, !.key = k])
        PROVE  WebLedger!Next
    <2>1. PassesOn(call, [call EXCEPT !.step = step, !.key = k])
      BY <1>1, <1>4 DEF PassesOn, WebCallRecord
    <2> QED BY <1>4, <2>1, PassingManages
  <1>5. CASE WebFail(c) BY <1>5, Passing DEF WebFail
  <1>6. CASE FindAccount(c)
    <2>1. call.step = "account" /\ call.op \notin NeedsUser
      BY <1>1, <1>6 DEF FindAccount, At, Flow
    <2>2. ASSUME NEW u, NEW step, Move(c, [call EXCEPT !.user = u, !.step = step])
          PROVE  WebLedger!Next
      <3>1. [call EXCEPT !.user = u, !.step = step].op \notin NeedsUser
        BY <1>1, <2>1 DEF WebCallRecord
      <3> QED BY <1>3, <2>2, <3>1
    <2>3. Go(c, "addUser") => WebLedger!Next BY <2>1, Passing DEF WebStep
    <2> QED BY <1>6, <2>2, <2>3, Passing DEF FindAccount
  <1>7. CASE AddUser(c)
    <2>1. call.step = "addUser" /\ call.op \notin NeedsUser
      BY <1>1, <1>7 DEF AddUser, At, Flow
    <2>2. PICK u \in Account : Move(c, [call EXCEPT !.step = "addKey", !.user = u])
      BY <1>7 DEF AddUser
    <2>3. [call EXCEPT !.step = "addKey", !.user = u].op \notin NeedsUser
      BY <1>1, <2>1 DEF WebCallRecord
    <2> QED BY <1>3, <2>2, <2>3
  <1>8. CASE FindKey(c)
    <2>1. call.step = "findKey" BY <1>8 DEF FindKey, At
    <2>2. Go(c, "addKey") \/ \E k : Move(c, [call EXCEPT !.step = "readLast", !.key = k])
      BY <1>8 DEF FindKey
    <2> QED BY <1>4, <2>1, <2>2, Passing DEF WebStep
  <1>9. CASE AddKey(c) \/ RemoveKey(c)
    <2>1. call.step \in {"addKey", "removeKey"} BY <1>9 DEF AddKey, RemoveKey, At
    <2>2. \E k : Move(c, [call EXCEPT !.step = "readLast", !.key = k])
      BY <1>9 DEF AddKey, RemoveKey
    <2> QED BY <1>4, <2>1, <2>2 DEF WebStep
  <1>10. CASE RemoveUser(c) BY <1>10, Passing DEF RemoveUser
  <1>11. CASE AddReset(c)
    <2>1. call.step = "addReset" /\ Go(c, "readLast") BY <1>11 DEF AddReset, At
    <2> QED BY <2>1, Passing DEF WebStep
  <1>12. CASE FindReset(c) \/ FindLegacy(c)
    <2>1. call.step \in {"findReset", "findLegacy"} BY <1>12 DEF FindReset, FindLegacy, At
    <2>2. call.op \notin NeedsUser BY <1>1, <2>1 DEF Flow, NeedsUser
    <2>3. ASSUME NEW u, NEW step, Move(c, [call EXCEPT !.step = step, !.user = u])
          PROVE  WebLedger!Next
      <3>1. [call EXCEPT !.step = step, !.user = u].op \notin NeedsUser
        BY <1>1, <2>2 DEF WebCallRecord
      <3> QED BY <1>3, <2>3, <3>1
    <2>4. \/ Answer(c) \/ Go(c, "findLegacy")
          \/ \E u, step : Move(c, [call EXCEPT !.step = step, !.user = u])
      BY <1>12 DEF FindReset, FindLegacy, Found
    <2> QED BY <2>1, <2>3, <2>4, Passing DEF WebStep
  <1>13. CASE VerifyPassword(c)
    <2>1. call.step = "verify" /\ (Go(c, "set") \/ Answer(c)) BY <1>13 DEF VerifyPassword, At
    <2> QED BY <2>1, Passing DEF WebStep
  <1>14. CASE SetPassword(c) \/ MarkUsed(c)
    <2>1. /\ call.step \in {"set", "setLegacy", "mark"}
          /\ Go(c, "mark") \/ Go(c, "readLast")
      BY <1>14 DEF SetPassword, MarkUsed, At
    <2> QED BY <2>1, Passing DEF WebStep
  <1>15. CASE ReadLast(c)
    <2>1. call.step = "readLast" BY <1>15 DEF ReadLast, At
    <2>2. Move(c, [call EXCEPT !.step = "addRow", !.last = LastHash]) BY <1>15 DEF ReadLast
    <2>3. PassesOn(call, [call EXCEPT !.step = "addRow", !.last = LastHash])
      BY <1>1, <2>1 DEF PassesOn, WebCallRecord
    <2> QED BY <2>2, <2>3, PassingManages
  <1>16. CASE AddRow(c)
    <2>1. call.step = "addRow" /\ (Go(c, "removeUser") \/ Answer(c)) BY <1>16 DEF AddRow, At
    <2> QED BY <2>1, Passing DEF WebStep
  <1> QED BY <1>5, <1>6, <1>7, <1>8, <1>9, <1>10, <1>11, <1>12, <1>13, <1>14, <1>15, <1>16

(* Every step is one of the ledger, or none.                                   *)
LEMMA WebLedgerStep ==
  ASSUME WebInv, WebInv', TablesGrow, [WebNext]_webVars
  PROVE  [WebLedger!Next]_<<WebKeysOnRecord, WebRequests>>
  <1>1. CASE \E c \in WebClient : WebBegin(c) BY <1>1, BeginIsAsking
  <1>2. CASE \E c \in WebClient : CheckToken(c) BY <1>2, TokenIsAssurance
  <1>3. CASE \E c \in WebClient : CheckUser(c) BY <1>3, UserIsService
  <1>4. CASE \E c \in WebClient :
               \/ WebFail(c) \/ FindAccount(c) \/ AddUser(c) \/ FindKey(c) \/ AddKey(c)
               \/ RemoveKey(c) \/ RemoveUser(c) \/ AddReset(c) \/ FindReset(c) \/ FindLegacy(c)
               \/ VerifyPassword(c) \/ SetPassword(c) \/ MarkUsed(c) \/ ReadLast(c) \/ AddRow(c)
    BY <1>4, StatementsPass
  <1>5. CASE (\E t \in Reset : ResetExpires(t)) \/ UNCHANGED webVars
    <2>1. UNCHANGED <<accounts, webKeys, webCall>> BY <1>5 DEF ResetExpires, webVars
    <2>2. WebKeysOnRecord' = WebKeysOnRecord BY <2>1 DEF WebKeysOnRecord, WebKeyState, Open
    <2>3. WebRequests' = WebRequests BY <2>1 DEF WebRequests, WebRequest, Open
    <2> QED BY <2>2, <2>3
  <1> QED BY <1>1, <1>2, <1>3, <1>4, <1>5 DEF WebNext

(* In the beginning no key is withdrawn, and nobody has asked.                 *)
LEMMA WebLedgerInit == WebInit => WebLedger!Init
  <1> SUFFICES ASSUME WebInit PROVE WebLedger!Init OBVIOUS
  <1>1. LedgerTypes BY WebInitHolds, LedgerTyped DEF WebInv
  <1>2. ASSUME NEW k \in WebKey PROVE WebKeysOnRecord[k].state # "withdrawn"
    <2>1. PICK n \in {0, 1} :
         /\ accounts = [u \in Account |->
                          [state |-> IF u <= n THEN "open" ELSE "none", reset |-> None]]
         /\ webKeys = [l \in WebKey |-> [user |-> IF l <= n THEN 1 ELSE None,
                                         web |-> l <= n, there |-> l <= n]]
      BY DEF WebInit
    <2>2. 1 \in Account /\ 1 # None BY WebBounds DEF Account, None
    <2>3. CASE k <= n
      <3>1. 1 <= n BY <2>3, WebBounds DEF WebKey
      <3>2. webKeys[k].user = 1 /\ webKeys[k].there /\ accounts[1].state = "open"
        BY <2>1, <2>2, <2>3, <3>1
      <3> QED BY <2>2, <3>2 DEF WebKeysOnRecord, WebKeyState, Open
    <2>4. CASE ~(k <= n)
      <3>1. webKeys[k].user = None BY <2>1, <2>4
      <3> QED BY <3>1 DEF WebKeysOnRecord, WebKeyState
    <2> QED BY <2>3, <2>4
  <1>3. WebRequests = [c \in WebClient |-> WebLedger!Idle]
    <2>1. NoWebCall.op \notin NeedsUser /\ NoWebCall \in WebCallRecord
      BY Answered DEF NoWebCall, NeedsUser
    <2>2. \A c \in WebClient : WebRequest(webCall[c]) = WebLedger!Idle
      BY <2>1, RequestIs DEF WebInit
    <2> QED BY <2>2 DEF WebRequests
  <1> QED BY <1>1, <1>2, <1>3 DEF LedgerTypes, WebLedger!Init

(* A request that authUser lets through acts for an account of which a key was *)
(* valid, and the account open, after the request had begun: although the two  *)
(* rows are read by two statements, whatever others do between them.           *)
THEOREM WebKeysAreLedger == WebSpec => WebKeysImplementAccess
  <1>1. WebInv /\ WebInv' /\ [WebNext]_webVars
        => [WebLedger!Next]_<<WebKeysOnRecord, WebRequests>>
    BY WebStepKeeps, WebLedgerStep
  <1>2. WebSpec => []WebInv BY WebInitHolds, WebStepKeeps, PTL DEF WebSpec
  <1> QED BY <1>1, <1>2, WebLedgerInit, PTL
          DEF WebSpec, WebKeysImplementAccess, WebLedger!Spec
=============================================================================
