---------------------------- MODULE LLMProxyProofs ----------------------------
(***************************************************************************)
(* Theorems about LLMProxy, for every number of requests, budget, range of *)
(* costs and depth of tool rounds.                                         *)
(*                                                                         *)
(* None of the invariants is inductive.  The types need that what a        *)
(* request has used is paid for by its rounds so far, and the bound on the *)
(* calls without consent that there was none before the first (RoundsInv); *)
(* the bound on the spending needs room for what the calls under way can   *)
(* still add (Headroom).                                                   *)
(***************************************************************************)
EXTENDS LLMProxy, FiniteSetTheorems, TLAPS

Paid(q) ==
  q.step \in {"idle", "guardian", "meta", "worker"} => q.used <= MaxCost * q.depth

\* No call without consent before a request's first one, and in process() no more
\* of them than rounds of tools.
Covered(q) ==
  /\ q.step \in {"idle", "guardian", "meta"} => q.bare = 0
  /\ q.step = "meta" => q.kind = "stream"
  /\ q.bare <= IF q.kind = "process" THEN q.depth ELSE 1

RoundsInv == \A r \in Req : Paid(req[r]) /\ Covered(req[r])

Headroom ==
  spent + MaxCost * Cardinality(InFlight) <= budget + MaxCost * Cardinality(Req)

-----------------------------------------------------------------------------
(* A multiple of a natural number is one, and distributes over one more.       *)
LEMMA Multiple ==
  ASSUME NEW c \in Nat, NEW d \in Nat
  PROVE  c * d \in Nat /\ c * (d + 1) = c * d + c /\ c * (d + 1) \in Nat
  OBVIOUS

(* More factors make no smaller multiple.                                      *)
LEMMA Monotone ==
  ASSUME NEW c \in Nat, NEW d \in Nat, NEW e \in Nat, d <= e
  PROVE  c * d <= c * e
  <1>1. PICK k \in Nat : e = d + k
    <2>1. e - d \in Nat /\ e = d + (e - d) OBVIOUS
    <2> QED BY <2>1
  <1>2. c * e = c * d + c * k BY <1>1
  <1>3. c * k \in Nat BY Multiple
  <1>4. c * d \in Nat BY Multiple
  <1> QED BY <1>2, <1>3, <1>4

(* The requests in flight are finitely many, and no more than all.             *)
LEMMA InFlightSize ==
  /\ IsFiniteSet(InFlight)
  /\ Cardinality(InFlight) \in Nat
  /\ Cardinality(Req) \in Nat
  /\ Cardinality(InFlight) <= Cardinality(Req)
  <1>1. InFlight \subseteq Req BY DEF InFlight
  <1>2. IsFiniteSet(InFlight) BY <1>1, FS_Subset, ReqAssumption
  <1>3. Cardinality(InFlight) <= Cardinality(Req) BY <1>1, FS_Subset, ReqAssumption
  <1> QED BY <1>2, <1>3, FS_CardinalityType, ReqAssumption

-----------------------------------------------------------------------------
TypeInv == TypeOK /\ RoundsInv

(* The types hold at the start.                                                *)
LEMMA TypeInit == Init => TypeInv
  <1> SUFFICES ASSUME Init PROVE TypeInv OBVIOUS
  <1>1. MaxCost * (MaxDepth + 1) \in Nat BY Multiple, MoneyAssumption, DepthAssumption
  <1>2. MaxCost * 0 = 0 BY MoneyAssumption
  <1>3. Idle \in Request BY <1>1, DepthAssumption DEF Idle, Request
  <1>4. Paid(Idle) /\ Covered(Idle)
    <2>1. /\ Idle.used = 0 /\ Idle.depth = 0 /\ Idle.bare = 0
          /\ Idle.step = "idle" /\ Idle.kind = "process"
      BY DEF Idle
    <2> QED BY <1>2, <2>1 DEF Paid, Covered
  <1>5. \A r \in Req : req[r] = Idle BY DEF Init
  <1>6. RoundsInv BY <1>4, <1>5 DEF RoundsInv
  <1> QED BY <1>3, <1>6 DEF Init, TypeInv, TypeOK

(* A request that stays a request within its rounds keeps the types.           *)
LEMMA Replaced ==
  ASSUME TypeInv, NEW r \in Req, NEW q \in Request, req' = [req EXCEPT ![r] = q],
         Paid(q) /\ Covered(q)
  PROVE  req' \in [Req -> Request] /\ RoundsInv'
  <1>1. \A u \in Req : req'[u] = IF u = r THEN q ELSE req[u] BY DEF TypeInv, TypeOK
  <1> QED BY <1>1 DEF TypeInv, TypeOK, RoundsInv

(* Every step keeps the types.                                                 *)
LEMMA TypeNext == TypeInv /\ [Next]_vars => TypeInv'
  <1> SUFFICES ASSUME TypeInv, [Next]_vars PROVE TypeInv' OBVIOUS
  <1> USE MoneyAssumption, DepthAssumption
  <1>0. /\ MaxCost * (MaxDepth + 1) \in Nat
        /\ MaxCost * 0 = 0
    BY Multiple
  <1>i. Idle \in Request /\ Paid(Idle) /\ Covered(Idle)
    <2>1. /\ Idle \in Request /\ Idle.used = 0 /\ Idle.depth = 0 /\ Idle.bare = 0
          /\ Idle.step = "idle" /\ Idle.kind = "process"
      BY <1>0 DEF Idle, Request
    <2> QED BY <2>1, <1>0 DEF Paid, Covered
  <1>r. ASSUME NEW r \in Req
        PROVE  req[r] \in Request /\ Paid(req[r]) /\ Covered(req[r]) /\ Bare(r) \in 0 .. 1
    BY DEF TypeInv, TypeOK, RoundsInv, Bare
  <1>g. ASSUME NEW r \in Req, req' = [req EXCEPT ![r] = Idle]
        PROVE  req' \in [Req -> Request] /\ RoundsInv'
    BY <1>g, <1>i, Replaced
  <1>1. ASSUME NEW r \in Req, NEW kind \in {"process", "stream"}, NEW needs \in BOOLEAN,
               NEW estimate \in Estimate, Arrive(r, kind, needs, estimate)
        PROVE  TypeInv'
    <2> DEFINE q == [Idle EXCEPT !.step = "guardian", !.kind = kind,
                                 !.needs = needs, !.estimate = estimate]
    <2>0. q \in Request BY <1>i DEF Request
    <2>1. /\ q \in Request /\ q.used = 0 /\ q.depth = 0 /\ q.bare = 0
          /\ q.step = "guardian" /\ q.kind = kind
      BY <2>0 DEF Idle
    <2>2. req' = [req EXCEPT ![r] = q] BY <1>1 DEF Arrive
    <2> HIDE DEF q
    <2>3. Paid(q) /\ Covered(q) BY <2>1, <1>0 DEF Paid, Covered
    <2>4. req' \in [Req -> Request] /\ RoundsInv' BY <2>1, <2>2, <2>3, Replaced
    <2> QED BY <1>1, <2>4 DEF Arrive, TypeInv, TypeOK
  <1>2. ASSUME NEW r \in Req, Admit(r) PROVE TypeInv'
    <2>0. req[r].step = "guardian" /\ req[r].bare = 0 /\ Bare(r) = 0
      BY <1>2, <1>r DEF Admit, Covered, Consented, Bare, TypeInv, TypeOK, Request
    <2>1. CASE req[r].kind = "process"
      <3> DEFINE q == [req[r] EXCEPT !.step = "worker", !.bare = @ + Bare(r)]
      <3>a. req[r].bare + Bare(r) = 0 /\ 0 \in 0 .. MaxDepth + 1 BY <2>0
      <3>b. req[r].depth \in Nat BY <1>r DEF Request
      <3>c. /\ q.step = "worker" /\ q.kind = "process" /\ q.bare = req[r].bare + Bare(r)
            /\ q.used = req[r].used /\ q.depth = req[r].depth
        BY <2>1, <1>r DEF Request
      <3>d. q \in Request BY <3>a, <1>r DEF Request
      <3>0. /\ q \in Request /\ q.step = "worker" /\ q.kind = "process" /\ q.bare = 0
            /\ q.used = req[r].used /\ q.depth = req[r].depth /\ q.depth \in Nat
        BY <3>a, <3>b, <3>c, <3>d
      <3>1. Paid(q) /\ Covered(q)
        BY <3>0, <2>0, <1>r DEF Paid, Covered
      <3>2. req' = [req EXCEPT ![r] = q] BY <1>2, <2>1 DEF Admit
      <3> HIDE DEF q
      <3>3. req' \in [Req -> Request] /\ RoundsInv' BY <3>0, <3>1, <3>2, Replaced
      <3> QED BY <1>2, <3>3 DEF Admit, TypeInv, TypeOK
    <2>2. CASE req[r].kind # "process"
      <3> DEFINE q == [req[r] EXCEPT !.step = "meta"]
      <3>1. q \in Request /\ Paid(q) /\ Covered(q)
        BY <2>0, <2>2, <1>r DEF Request, Paid, Covered
      <3>2. req' = [req EXCEPT ![r] = q] BY <1>2, <2>2 DEF Admit
      <3> HIDE DEF q
      <3>3. req' \in [Req -> Request] /\ RoundsInv' BY <3>1, <3>2, Replaced
      <3> QED BY <1>2, <3>3 DEF Admit, TypeInv, TypeOK
    <2> QED BY <2>1, <2>2
  <1>12. ASSUME NEW r \in Req, StreamCall(r) PROVE TypeInv'
    <2> DEFINE q == [req[r] EXCEPT !.step = "worker", !.bare = @ + Bare(r)]
    <2>0. req[r].step = "meta" /\ req[r].bare = 0 /\ req[r].kind = "stream"
      BY <1>12, <1>r DEF StreamCall, Covered
    <2>a. /\ req[r].bare + Bare(r) \in 0 .. 1
          /\ req[r].bare + Bare(r) \in 0 .. MaxDepth + 1
      BY <2>0, <1>r
    <2>1. /\ q \in Request /\ q.step = "worker" /\ q.kind = "stream" /\ q.bare \in 0 .. 1
          /\ q.used = req[r].used /\ q.depth = req[r].depth
      BY <2>a, <2>0, <1>r DEF Request
    <2>2. Paid(q) /\ Covered(q) BY <2>0, <2>1, <1>r DEF Paid, Covered
    <2>3. req' = [req EXCEPT ![r] = q] BY <1>12 DEF StreamCall
    <2> HIDE DEF q
    <2>4. req' \in [Req -> Request] /\ RoundsInv' BY <2>1, <2>2, <2>3, Replaced
    <2> QED BY <1>12, <2>4 DEF StreamCall, TypeInv, TypeOK
  <1>3. ASSUME NEW r \in Req, Reject(r) PROVE TypeInv'
    BY <1>3, <1>g DEF Reject, TypeInv, TypeOK
  <1>u. ASSUME NEW r \in Req, NEW cost \in Cost, req[r].step = "worker"
        PROVE  /\ req[r].used + cost \in Nat
               /\ req[r].used + cost <= MaxCost * (req[r].depth + 1)
               /\ req[r].depth \in 0 .. MaxDepth
               /\ req[r].used + cost \in 0 .. MaxCost * (MaxDepth + 1)
    <2>1. /\ req[r].used \in Nat
          /\ req[r].depth \in 0 .. MaxDepth
          /\ req[r].used <= MaxCost * req[r].depth
      BY <1>u, <1>0, <1>r DEF Paid, Request
    <2>2. MaxCost * (req[r].depth + 1) = MaxCost * req[r].depth + MaxCost
      BY <2>1, Multiple
    <2>3. MaxCost * req[r].depth \in Nat BY <2>1, Multiple
    <2>4. cost \in Nat /\ cost <= MaxCost BY DEF Cost
    <2>5. MaxCost * (req[r].depth + 1) <= MaxCost * (MaxDepth + 1)
      BY <2>1, Monotone
    <2>6. MaxCost * (req[r].depth + 1) \in Nat BY <2>1, Multiple
    <2>7. req[r].used + cost <= MaxCost * (req[r].depth + 1) BY <2>1, <2>2, <2>3, <2>4
    <2> QED BY <2>1, <2>4, <2>5, <2>6, <2>7, <1>0
  <1>o. ASSUME NEW r \in Req, NEW cost \in Cost, req[r].step = "worker",
               req' = [req EXCEPT ![r].step = "output", ![r].used = @ + cost]
        PROVE  req' \in [Req -> Request] /\ RoundsInv'
    <2> DEFINE q == [req[r] EXCEPT !.step = "output", !.used = @ + cost]
    <2>1. q \in Request BY <1>o, <1>u, <1>r DEF Request
    <2>2. Paid(q) /\ Covered(q) BY <1>o, <1>r DEF Paid, Covered, Request
    <2>3. req' = [req EXCEPT ![r] = q] BY <1>o
    <2> HIDE DEF q
    <2> QED BY <2>1, <2>2, <2>3, Replaced
  <1>4. ASSUME NEW r \in Req, NEW cost \in Cost, ToolRound(r, cost) PROVE TypeInv'
    <2>1. CASE req[r].depth < MaxDepth
      <3> DEFINE q == [req[r] EXCEPT !.depth = @ + 1, !.used = @ + cost,
                                     !.bare = @ + Bare(r)]
      <3>0. req[r].step = "worker" /\ req[r].kind = "process" BY <1>4 DEF ToolRound
      <3>1. req[r].depth + 1 \in 0 .. MaxDepth BY <2>1, <3>0, <1>u
      <3>2. req[r].bare \in Nat /\ req[r].bare <= req[r].depth
        BY <3>0, <1>r DEF Request, Covered
      <3>5. req[r].bare + Bare(r) \in 0 .. MaxDepth + 1
        BY <3>1, <3>2, <3>0, <1>r, <1>u
      <3>6. q \in Request BY <3>0, <3>1, <3>5, <1>u, <1>r DEF Request
      <3>7. q.used <= MaxCost * q.depth BY <3>0, <1>u, <1>r DEF Request
      <3>8. q.step = "worker" /\ q.kind = "process" /\ q.bare <= q.depth
        BY <3>0, <3>2, <1>u, <1>r DEF Request
      <3>3. Paid(q) /\ Covered(q) BY <3>7, <3>8 DEF Paid, Covered
      <3>4. req' = [req EXCEPT ![r] = q] BY <1>4, <2>1 DEF ToolRound
      <3> HIDE DEF q
      <3>9. req' \in [Req -> Request] /\ RoundsInv' BY <3>3, <3>4, <3>6, Replaced
      <3> QED BY <1>4, <3>9 DEF ToolRound, TypeInv, TypeOK
    <2>2. CASE ~(req[r].depth < MaxDepth)
      BY <1>4, <2>2, <1>o DEF ToolRound, TypeInv, TypeOK
    <2> QED BY <2>1, <2>2
  <1>5. ASSUME NEW r \in Req, NEW cost \in Cost, WorkerAnswers(r, cost) PROVE TypeInv'
    <2>1. spent' \in Nat BY <1>5 DEF WorkerAnswers, Recorded, Cost, TypeInv, TypeOK
    <2> QED BY <1>5, <2>1, <1>o DEF WorkerAnswers, TypeInv, TypeOK
  <1>6. ASSUME NEW r \in Req, WorkerFails(r) PROVE TypeInv'
    BY <1>6, <1>g DEF WorkerFails, TypeInv, TypeOK
  <1>7. ASSUME NEW r \in Req, CheckOutput(r) PROVE TypeInv'
    <2>1. CASE req' = [req EXCEPT ![r] = Idle]
      BY <1>7, <2>1, <1>g DEF CheckOutput, TypeInv, TypeOK
    <2>2. CASE req' = [req EXCEPT ![r].step = "report"]
      <3> DEFINE q == [req[r] EXCEPT !.step = "report"]
      <3>1. q \in Request /\ Paid(q) /\ Covered(q)
        BY <1>r DEF Request, Paid, Covered
      <3>2. req' = [req EXCEPT ![r] = q] BY <2>2
      <3> HIDE DEF q
      <3>3. req' \in [Req -> Request] /\ RoundsInv' BY <3>1, <3>2, Replaced
      <3> QED BY <1>7, <3>3 DEF CheckOutput, TypeInv, TypeOK
    <2> QED BY <1>7, <2>1, <2>2 DEF CheckOutput
  <1>8. ASSUME NEW r \in Req, Return(r) PROVE TypeInv'
    BY <1>8, <1>g DEF Return, TypeInv, TypeOK
  <1>9. CASE SetConsent BY <1>9 DEF SetConsent, TypeInv, TypeOK, RoundsInv
  <1>10. CASE CreateLimiter BY <1>10 DEF CreateLimiter, TypeInv, TypeOK, RoundsInv
  <1>11. CASE UNCHANGED vars BY <1>11 DEF vars, TypeInv, TypeOK, RoundsInv
  <1> QED BY <1>1, <1>2, <1>3, <1>4, <1>5, <1>6, <1>7, <1>8, <1>9, <1>10, <1>11, <1>12
      DEF Next, Step

(* Every request is in one of the shapes of the pipeline, and no loop of tool   *)
(* rounds gets deeper than _callLLMWithTools allows.                            *)
THEOREM TypeCorrect == Spec => []TypeOK
  <1>1. TypeInv => TypeOK BY DEF TypeInv
  <1> QED BY <1>1, TypeInit, TypeNext, PTL DEF Spec

-----------------------------------------------------------------------------
(* A step that leaves the spending alone, or resets it, and puts no request in  *)
(* flight keeps the room.                                                       *)
LEMMA HeadroomKept ==
  ASSUME TypeInv, Headroom, InFlight' \subseteq InFlight, spent' \in Nat, budget' \in Nat,
         (spent' <= spent /\ budget' = budget) \/ spent' = 0
  PROVE  Headroom'
  <1> USE MoneyAssumption
  <1> DEFINE k == Cardinality(InFlight)
             l == Cardinality(InFlight')
             n == Cardinality(Req)
  <1>1. k \in Nat /\ n \in Nat BY InFlightSize
  <1>2. l \in Nat /\ l <= k BY InFlightSize, FS_Subset, FS_CardinalityType
  <1>3. spent + MaxCost * k <= budget + MaxCost * n BY DEF Headroom
  <1>4. MaxCost * l <= MaxCost * k BY <1>1, <1>2, Monotone
  <1>5. MaxCost * l \in Nat /\ MaxCost * k \in Nat /\ MaxCost * n \in Nat
    BY <1>1, <1>2, Multiple
  <1>6. spent \in Nat /\ budget \in Nat BY DEF TypeInv, TypeOK
  <1> HIDE DEF k, l, n
  <1>7. spent' + MaxCost * l <= budget' + MaxCost * n
    <2>1. CASE spent' <= spent /\ budget' = budget BY <1>3, <1>4, <1>5, <1>6, <2>1
    <2>2. CASE spent' = 0
      <3>1. MaxCost * l <= MaxCost * n BY <1>1, <1>2, Monotone, InFlightSize DEF k, n
      <3> QED BY <1>5, <2>2, <3>1
    <2> QED BY <2>1, <2>2
  <1> QED BY <1>7 DEF Headroom, k, l, n

(* Admission asks for the budget, so that there is room for every other request *)
(* in flight and this one.                                                      *)
LEMMA HeadroomAdmit ==
  ASSUME TypeInv, NEW r \in Req, Admit(r)
  PROVE  Headroom'
  <1> USE MoneyAssumption
  <1> DEFINE l == Cardinality(InFlight')
             n == Cardinality(Req)
  <1>1. InFlight' \subseteq Req BY DEF InFlight
  <1>2. l \in Nat /\ n \in Nat /\ l <= n
    BY <1>1, FS_Subset, FS_CardinalityType, ReqAssumption
  <1>3. spent' <= budget' /\ budget' \in Nat /\ spent' \in Nat
    BY DEF Admit, WithinBudget, TypeInv, TypeOK, Request
  <1>4. MaxCost * l <= MaxCost * n BY <1>2, Monotone
  <1>5. MaxCost * l \in Nat /\ MaxCost * n \in Nat BY <1>2, Multiple
  <1> HIDE DEF l, n
  <1>6. spent' + MaxCost * l <= budget' + MaxCost * n BY <1>3, <1>4, <1>5
  <1> QED BY <1>6 DEF Headroom, l, n

(* The answer of a worker uses the room that was kept for its request.          *)
LEMMA HeadroomAnswer ==
  ASSUME TypeInv, Headroom, NEW r \in Req, NEW cost \in Cost, WorkerAnswers(r, cost),
         req[r].kind = "process"
  PROVE  Headroom'
  <1> USE MoneyAssumption
  <1> DEFINE k == Cardinality(InFlight)
             l == Cardinality(InFlight')
             n == Cardinality(Req)
  <1>1. r \in InFlight BY DEF WorkerAnswers, InFlight
  <1>2. InFlight' = InFlight \ {r}
    BY DEF WorkerAnswers, InFlight, TypeInv, TypeOK
  <1>3. k \in Nat /\ n \in Nat /\ l \in Nat /\ k = l + 1
    <2>1. Cardinality(InFlight \ {r}) = Cardinality(InFlight) - 1
      BY <1>1, InFlightSize, FS_RemoveElement
    <2>2. IsFiniteSet(InFlight \ {r}) BY InFlightSize, FS_Subset
    <2> QED BY <1>2, <2>1, <2>2, InFlightSize, FS_CardinalityType
  <1>4. MaxCost * k = MaxCost * l + MaxCost BY <1>3, Multiple
  <1>5. MaxCost * l \in Nat /\ MaxCost * n \in Nat BY <1>3, Multiple
  <1>6. spent \in Nat /\ spent' \in Nat /\ spent' <= spent + MaxCost
    BY DEF WorkerAnswers, Recorded, Cost, TypeInv, TypeOK
  <1>b. budget' = budget /\ budget \in Nat BY DEF WorkerAnswers, TypeInv, TypeOK
  <1>7. spent + MaxCost * k <= budget + MaxCost * n BY DEF Headroom
  <1> HIDE DEF k, l, n
  <1>8. spent' + MaxCost * l <= budget' + MaxCost * n BY <1>4, <1>5, <1>6, <1>7, <1>b
  <1> QED BY <1>8 DEF Headroom, k, l, n

(* Every step keeps the room.                                                   *)
LEMMA HeadroomNext == TypeInv /\ Headroom /\ [Next]_vars => Headroom'
  <1> SUFFICES ASSUME TypeInv, Headroom, [Next]_vars PROVE Headroom' OBVIOUS
  <1> USE DEF InFlight
  <1>0. spent \in Nat /\ budget \in Nat BY MoneyAssumption DEF TypeInv, TypeOK
  <1>g. ASSUME NEW r \in Req, req' = [req EXCEPT ![r] = Idle] PROVE InFlight' \subseteq InFlight
    BY <1>g DEF Idle, TypeInv, TypeOK
  <1>1. ASSUME NEW r \in Req, NEW kind \in {"process", "stream"}, NEW needs \in BOOLEAN,
               NEW estimate \in Estimate, Arrive(r, kind, needs, estimate)
        PROVE  Headroom'
    <2>1. InFlight' \subseteq InFlight BY <1>1 DEF Arrive, Idle, TypeInv, TypeOK
    <2> QED BY <1>0, <1>1, <2>1, HeadroomKept DEF Arrive
  <1>2. ASSUME NEW r \in Req, Admit(r) PROVE Headroom'
    BY <1>2, HeadroomAdmit
  <1>3. ASSUME NEW r \in Req, Reject(r) PROVE Headroom'
    <2>1. InFlight' \subseteq InFlight
      <3> HIDE DEF InFlight
      <3> QED BY <1>3, <1>g DEF Reject
    <2> QED BY <1>0, <1>3, <2>1, HeadroomKept DEF Reject
  <1>4. ASSUME NEW r \in Req, NEW cost \in Cost, ToolRound(r, cost) PROVE Headroom'
    <2>1. InFlight' \subseteq InFlight BY <1>4 DEF ToolRound, TypeInv, TypeOK, Request
    <2> QED BY <1>0, <1>4, <2>1, HeadroomKept DEF ToolRound
  <1>5. ASSUME NEW r \in Req, NEW cost \in Cost, WorkerAnswers(r, cost) PROVE Headroom'
    <2>1. CASE req[r].kind = "process"
      BY <1>5, <2>1, HeadroomAnswer
    <2>2. CASE req[r].kind # "process"
      <3>1. InFlight' \subseteq InFlight BY <1>5 DEF WorkerAnswers, TypeInv, TypeOK, Request
      <3>2. spent' = spent BY <1>0, <1>5, <2>2 DEF WorkerAnswers, Recorded
      <3> HIDE DEF InFlight
      <3> QED BY <1>0, <1>5, <3>1, <3>2, HeadroomKept DEF WorkerAnswers
    <2> QED BY <2>1, <2>2
  <1>6. ASSUME NEW r \in Req, WorkerFails(r) PROVE Headroom'
    <2>1. InFlight' \subseteq InFlight
      <3> HIDE DEF InFlight
      <3> QED BY <1>6, <1>g DEF WorkerFails
    <2> QED BY <1>0, <1>6, <2>1, HeadroomKept DEF WorkerFails
  <1>7. ASSUME NEW r \in Req, CheckOutput(r) PROVE Headroom'
    <2>1. InFlight' \subseteq InFlight
      BY <1>7, <1>g DEF CheckOutput, TypeInv, TypeOK, Request
    <2> QED BY <1>0, <1>7, <2>1, HeadroomKept DEF CheckOutput
  <1>8. ASSUME NEW r \in Req, Return(r) PROVE Headroom'
    <2>1. InFlight' \subseteq InFlight
      <3> HIDE DEF InFlight
      <3> QED BY <1>8, <1>g DEF Return
    <2> QED BY <1>0, <1>8, <2>1, HeadroomKept DEF Return
  <1>12. ASSUME NEW r \in Req, StreamCall(r) PROVE Headroom'
    <2>1. req[r].kind # "process" BY <1>12 DEF StreamCall, TypeInv, RoundsInv, Covered
    <2>2. InFlight' \subseteq InFlight BY <1>12, <2>1 DEF StreamCall, TypeInv, TypeOK, Request
    <2> HIDE DEF InFlight
    <2> QED BY <1>0, <1>12, <2>2, HeadroomKept DEF StreamCall
  <1>9. CASE SetConsent
    BY <1>0, <1>9, HeadroomKept DEF SetConsent
  <1>10. CASE CreateLimiter
    BY <1>0, <1>10, HeadroomKept, MoneyAssumption DEF CreateLimiter
  <1>11. CASE UNCHANGED vars
    BY <1>0, <1>11, HeadroomKept DEF vars
  <1> QED BY <1>1, <1>2, <1>3, <1>4, <1>5, <1>6, <1>7, <1>8, <1>9, <1>10, <1>11, <1>12
      DEF Next, Step

(* Concurrent requests overspend the budget by no more than one call each: the  *)
(* check before the call and the charge after it bound the spending although    *)
(* nothing is reserved in between.                                              *)
THEOREM OverspendIsBounded == Spec => []OverspendBounded
  <1>1. Init => Headroom
    <2> SUFFICES ASSUME Init PROVE Headroom OBVIOUS
    <2>1. InFlight = {} BY DEF Init, InFlight, Idle
    <2>2. Cardinality(InFlight) = 0 BY <2>1, FS_EmptySet
    <2>3. MaxCost * Cardinality(Req) \in Nat BY InFlightSize, Multiple, MoneyAssumption
    <2>4. MaxCost * 0 = 0 BY MoneyAssumption
    <2> QED BY <2>2, <2>3, <2>4, MoneyAssumption DEF Headroom, Init
  <1>2. TypeInv /\ Headroom => OverspendBounded
    <2> SUFFICES ASSUME TypeInv, Headroom PROVE OverspendBounded OBVIOUS
    <2>1. MaxCost * Cardinality(InFlight) \in Nat /\ MaxCost * Cardinality(Req) \in Nat
      BY InFlightSize, Multiple, MoneyAssumption
    <2> QED BY <2>1, MoneyAssumption DEF Headroom, OverspendBounded, TypeInv, TypeOK
  <1> QED BY <1>1, <1>2, TypeInit, TypeNext, HeadroomNext, PTL DEF Spec

(* A consent that is missing is missing at no other calls of the worker than    *)
(* those of later tool rounds and the one of a stream, however it is given and  *)
(* withdrawn while the guardian, the worker and the tools take their time.      *)
THEOREM RevocationIsHonoured == Spec => []RevocationHonoured
  <1>1. TypeInv => RevocationHonoured
    BY DEF TypeInv, RoundsInv, Covered, RevocationHonoured
  <1> QED BY <1>1, TypeInit, TypeNext, PTL DEF Spec
===============================================================================
