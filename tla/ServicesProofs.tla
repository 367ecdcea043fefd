---------------------------- MODULE ServicesProofs ----------------------------
(***************************************************************************)
(* What holds of five parts of the servers and of the page: of the built-  *)
(* in agents for every set of them, of starts and of checks                *)
(* (BuiltinAgents), of the safety pipeline for every table of requests and *)
(* of leaks that RequestAssumption allows (SafetyPipeline), of the streams *)
(* for every number of clients and of records (EventStream), of the        *)
(* dashboard for every number of rows, polls and rows of a page            *)
(* (DashboardPage), and of the limit on requests for every limit and       *)
(* window (RequestLimit).                                                  *)
(***************************************************************************)
EXTENDS BuiltinAgents, SafetyPipeline, EventStream, DashboardPage,
        RequestLimit, FiniteSetTheorems, SequenceTheorems, FunctionTheorems, TLAPS

-----------------------------------------------------------------------------
(* BuiltinAgents: the agents in the dashboard.                                 *)

\* Every interval began a tick, and every start under way will begin one.
TicksInv ==
  /\ \A a \in Builtin : timers[a] <= tickCount[a] /\ ticking[a] <= tickCount[a]
  /\ tickCount[Sentinel] + Cardinality(Starting) <= MaxTicks

\* The intervals that are alive and the handle; and, as long as no start of the
\* sentinel began during another, that it is not running while one is under way.
IntervalInv ==
  /\ \A a \in Builtin : handle[a] => timers[a] > 0
  /\ \A a \in Plain : timers[a] = IF handle[a] THEN 1 ELSE 0
  /\ ~doubled => /\ timers[Sentinel] = IF handle[Sentinel] THEN 1 ELSE 0
                 /\ Starting # {} => ~handle[Sentinel]
                 /\ \A s, t \in Starting : s = t

\* What the shutdown left.
StoppedInv ==
  ~up => /\ \A a \in Plain : ~handle[a]
         /\ ~missed => Starting = {} /\ ~handle[Sentinel]

BuiltinInv == BuiltinTypeOK /\ TicksInv /\ IntervalInv /\ StoppedInv

(* Starts under way are finitely many.                                         *)
LEMMA StartingFinite ==
  /\ IsFiniteSet(Starting)
  /\ Cardinality(Starting) \in Nat
  /\ Starting = {} => Cardinality(Starting) = 0
<1>1. IsFiniteSet(Starting)
  BY BuiltinAssumption, FS_Subset DEF Starting
<1> QED
  BY <1>1, FS_CardinalityType, FS_EmptySet

(* Nothing runs.                                                               *)
LEMMA BuiltinInitially == BuiltinInit => BuiltinInv
<1> SUFFICES ASSUME BuiltinInit PROVE BuiltinInv
  OBVIOUS
<1>1. BuiltinTypeOK
  <2>1. 0 \in 0 .. MaxTicks
    BY BuiltinAssumption
  <2> QED
    BY <2>1 DEF BuiltinInit, BuiltinTypeOK
<1>2. Starting = {} /\ Cardinality(Starting) = 0
  BY StartingFinite DEF BuiltinInit, Starting
<1> QED
  BY <1>1, <1>2, BuiltinAssumption
  DEF BuiltinInit, BuiltinInv, TicksInv, IntervalInv, StoppedInv, Builtin

(* A tick begins or ends.                                                      *)
LEMMA TickKeeps ==
  ASSUME BuiltinInv, NEW a \in Builtin, Fire(a) \/ EndTick(a) PROVE BuiltinInv'
<1>0. BuiltinTypeOK /\ TicksInv
  BY DEF BuiltinInv
<1>1. Starting' = Starting /\ Cardinality(Starting) \in Nat
  BY <1>0, StartingFinite DEF Fire, EndTick, Starting, BuiltinTypeOK
<1>2. BuiltinTypeOK' /\ TicksInv'
  <2>1. CASE Fire(a)
    BY <1>0, <1>1, <2>1, BuiltinAssumption
    DEF Fire, MayTick, BeginTick, BuiltinTypeOK, TicksInv, Builtin
  <2>2. CASE EndTick(a)
    BY <1>0, <1>1, <2>2, BuiltinAssumption DEF EndTick, BuiltinTypeOK, TicksInv, Builtin
  <2> QED
    BY <2>1, <2>2
<1>3. UNCHANGED <<up, handle, timers, doubled, missed>>
  BY DEF Fire, EndTick
<1> QED
  BY <1>1, <1>2, <1>3 DEF BuiltinInv, IntervalInv, StoppedInv

(* The heartbeat or the boss starts.                                           *)
LEMMA StartPlainKeeps ==
  ASSUME BuiltinInv, NEW a \in Plain, StartPlain(a) PROVE BuiltinInv'
<1>0. BuiltinTypeOK /\ TicksInv /\ IntervalInv /\ a \in Builtin /\ a # Sentinel
  BY BuiltinAssumption DEF BuiltinInv, Builtin
<1>1. Starting' = Starting /\ Cardinality(Starting) \in Nat
  BY <1>0, StartingFinite DEF StartPlain, Starting, BuiltinTypeOK
<1>2. BuiltinTypeOK' /\ TicksInv'
  BY <1>0, <1>1, BuiltinAssumption
  DEF StartPlain, SetInterval, MayTick, BeginTick, BuiltinTypeOK, TicksInv, Builtin
<1>3. IntervalInv'
  BY <1>0, <1>1, BuiltinAssumption
  DEF StartPlain, SetInterval, BuiltinTypeOK, IntervalInv, Builtin
<1> QED
  BY <1>2, <1>3 DEF BuiltinInv, StoppedInv, StartPlain

(* The sentinel begins to start.                                               *)
LEMMA BeginStartKeeps ==
  ASSUME BuiltinInv, NEW s \in Start, BeginStart(s) PROVE BuiltinInv'
<1>0. BuiltinTypeOK /\ TicksInv /\ IntervalInv
  BY DEF BuiltinInv
<1>1. /\ Starting' = Starting \cup {s}
      /\ Cardinality(Starting) \in Nat /\ Cardinality(Starting') = Cardinality(Starting) + 1
  <2>1. s \notin Starting /\ Starting' = Starting \cup {s}
    BY <1>0 DEF BeginStart, Starting, BuiltinTypeOK
  <2>2. Cardinality(Starting \cup {s}) = Cardinality(Starting) + 1
    BY <2>1, StartingFinite, FS_AddElement
  <2> QED
    BY <2>1, <2>2, StartingFinite
<1>2. BuiltinTypeOK'
  BY <1>0 DEF BeginStart, BuiltinTypeOK
<1>3. TicksInv'
  BY <1>0, <1>1, BuiltinAssumption DEF BeginStart, MayTick, BuiltinTypeOK, TicksInv, Builtin
<1>4. IntervalInv'
  BY <1>0, <1>1 DEF BeginStart, IntervalInv
<1> QED
  BY <1>2, <1>3, <1>4 DEF BuiltinInv, StoppedInv, BeginStart

(* It has started, whatever the token.                                         *)
LEMMA FinishStartKeeps ==
  ASSUME BuiltinInv, NEW s \in Start, s \in Starting, FinishStart(s),
         token' \in {"none", "fresh", "expired"}
  PROVE  BuiltinInv'
<1>0. BuiltinTypeOK /\ TicksInv /\ IntervalInv /\ StoppedInv /\ Sentinel \in Builtin
  BY DEF BuiltinInv, Builtin
<1>1. /\ Starting' = Starting \ {s}
      /\ Cardinality(Starting) \in Nat /\ Cardinality(Starting') = Cardinality(Starting) - 1
      /\ Cardinality(Starting') \in Nat
  <2>1. Starting' = Starting \ {s}
    BY <1>0 DEF FinishStart, Starting, BuiltinTypeOK
  <2>2. Cardinality(Starting \ {s}) = Cardinality(Starting) - 1
    BY StartingFinite, FS_RemoveElement
  <2>3. Cardinality(Starting \ {s}) \in Nat
    BY StartingFinite, FS_RemoveElement, FS_CardinalityType
  <2> QED
    BY <2>1, <2>2, <2>3, StartingFinite
<1>2. /\ timers' = [timers EXCEPT ![Sentinel] = @ + 1]
      /\ handle' = [handle EXCEPT ![Sentinel] = TRUE]
      /\ tickCount' = [tickCount EXCEPT ![Sentinel] = @ + 1]
      /\ ticking' = [ticking EXCEPT ![Sentinel] = @ + 1]
      /\ UNCHANGED <<up, checking, doubled, missed>>
  BY DEF FinishStart, SetInterval, BeginTick
<1>3. starting' \in [Start -> {"none", "env", "session"}]
  BY <1>0 DEF FinishStart, BuiltinTypeOK
<1>4. TicksInv'
  BY <1>0, <1>1, <1>2, BuiltinAssumption DEF BuiltinTypeOK, TicksInv, Builtin
<1>5. BuiltinTypeOK'
  BY <1>0, <1>1, <1>2, <1>3, BuiltinAssumption DEF BuiltinTypeOK, TicksInv, Builtin
<1>6. IntervalInv'
  BY <1>0, <1>1, <1>2, BuiltinAssumption DEF BuiltinTypeOK, IntervalInv, Builtin
<1>7. StoppedInv'
  BY <1>0, <1>1, <1>2, BuiltinAssumption DEF BuiltinTypeOK, StoppedInv, Builtin
<1> QED
  BY <1>4, <1>5, <1>6, <1>7 DEF BuiltinInv

(* Its environment is prepared; the gateway answers, or does not.              *)
LEMMA StartStepKeeps ==
  ASSUME BuiltinInv, NEW s \in Start,
         EnvDone(s) \/ (\E outcome \in BOOLEAN : SessionAnswer(s, outcome)) \/ SessionTimeout(s)
  PROVE  BuiltinInv'
<1>0. BuiltinTypeOK
  BY DEF BuiltinInv
<1>1. CASE EnvDone(s) /\ token = "fresh"
  BY <1>1, FinishStartKeeps DEF EnvDone, Starting
<1>2. CASE EnvDone(s) /\ token # "fresh"
  <2>1. /\ s \in Starting /\ starting' = [starting EXCEPT ![s] = "session"]
        /\ UNCHANGED <<up, handle, timers, checking, token, tickCount, ticking, doubled, missed>>
    BY <1>2 DEF EnvDone, Starting
  <2>2. Starting' = Starting /\ starting' \in [Start -> {"none", "env", "session"}]
    BY <1>0, <2>1 DEF Starting, BuiltinTypeOK
  <2> QED
    BY <2>1, <2>2 DEF BuiltinInv, BuiltinTypeOK, TicksInv, IntervalInv, StoppedInv
<1>3. CASE (\E outcome \in BOOLEAN : SessionAnswer(s, outcome)) \/ SessionTimeout(s)
  BY <1>3, FinishStartKeeps DEF SessionAnswer, SessionTimeout, Acquired, Starting
<1> QED
  BY <1>1, <1>2, <1>3

(* Agents are stopped: on demand, or all of them in the end.                   *)
LEMMA StopKeeps ==
  ASSUME BuiltinInv, (\E a \in Builtin : StopBuiltin(a)) \/ BuiltinShutdown PROVE BuiltinInv'
<1>0. BuiltinTypeOK /\ TicksInv /\ IntervalInv
  BY DEF BuiltinInv
<1>1. PICK agents \in SUBSET Builtin :
        StopAll(agents) /\ up /\ (up' = up \/ (up' = FALSE /\ agents = Builtin))
  BY DEF StopBuiltin, BuiltinShutdown
<1>2. Starting' = Starting
  BY <1>1 DEF StopAll, Starting
<1>3. /\ handle' \in [Builtin -> BOOLEAN]
      /\ timers' \in [Builtin -> 0 .. MaxTicks]
      /\ token' \in {"none", "fresh", "expired"}
      /\ missed' \in BOOLEAN
  <2>1. ASSUME NEW a \in Builtin
        PROVE  (IF a \in agents /\ handle[a] THEN timers[a] - 1 ELSE timers[a])
                 \in 0 .. MaxTicks
    BY <1>0, BuiltinAssumption DEF BuiltinTypeOK, IntervalInv
  <2> QED
    BY <1>0, <1>1, <2>1 DEF StopAll, BuiltinTypeOK
<1>4. BuiltinTypeOK'
  BY <1>0, <1>1, <1>3 DEF StopAll, BuiltinTypeOK
<1>5. TicksInv'
  BY <1>0, <1>1, <1>2, BuiltinAssumption DEF StopAll, BuiltinTypeOK, TicksInv
<1>6. IntervalInv'
  <2>1. ASSUME NEW a \in Builtin
        PROVE  /\ a \in agents => handle'[a] = FALSE
               /\ a \notin agents => handle'[a] = handle[a]
               /\ a \in agents /\ handle[a] => timers'[a] = timers[a] - 1
               /\ ~(a \in agents /\ handle[a]) => timers'[a] = timers[a]
    BY <1>1 DEF StopAll
  <2>2. ASSUME NEW a \in Builtin
        PROVE  handle[a] \in BOOLEAN /\ timers[a] \in Nat /\ (handle[a] => timers[a] > 0)
    BY <1>0, BuiltinAssumption DEF BuiltinTypeOK, IntervalInv
  <2>3. ASSUME NEW a \in Builtin PROVE handle'[a] => timers'[a] > 0
    BY <2>1, <2>2
  <2>4. ASSUME NEW a \in Builtin, timers[a] = IF handle[a] THEN 1 ELSE 0
        PROVE  timers'[a] = IF handle'[a] THEN 1 ELSE 0
    <3>1. CASE handle[a]
      <4>1. timers[a] = 1
        BY <2>4, <3>1
      <4>2. CASE a \in agents
        <5>0. timers'[a] = timers[a] - 1
          BY <2>1, <3>1, <4>2, Zenon
        <5>1. timers'[a] = 0
          BY <5>0, <4>1
        <5>2. ~handle'[a]
          BY <2>1, <4>2
        <5> QED
          BY <5>1, <5>2
      <4>3. CASE a \notin agents
        BY <2>1, <2>2, <3>1, <4>1, <4>3
      <4> QED
        BY <4>2, <4>3
    <3>2. CASE ~handle[a]
      <4>1. timers'[a] = 0
        BY <2>1, <2>4, <3>2
      <4>2. ~handle'[a]
        BY <2>1, <3>2
      <4> QED
        BY <4>1, <4>2
    <3> QED
      BY <3>1, <3>2
  <2>5. doubled' = doubled /\ (handle'[Sentinel] => handle[Sentinel])
    BY <1>1, <2>1 DEF StopAll, Builtin
  <2> QED
    BY <1>0, <1>2, <2>3, <2>4, <2>5 DEF IntervalInv, Builtin
<1>7. StoppedInv'
  BY <1>0, <1>1, <1>2 DEF StopAll, StoppedInv, BuiltinInv, Builtin
<1> QED
  BY <1>4, <1>5, <1>6, <1>7 DEF BuiltinInv

(* A check of the gateway goes on, or a session expires.                       *)
LEMMA CheckKeeps ==
  ASSUME BuiltinInv,
         \/ \E c \in Check : \/ BeginCheck(c)
                             \/ \E outcome \in BOOLEAN : CheckSession(c, outcome)
                             \/ EndCheck(c)
         \/ ExpireSession
  PROVE  BuiltinInv'
<1>1. UNCHANGED <<up, handle, timers, starting, tickCount, ticking, doubled, missed>>
  BY DEF BeginCheck, CheckSession, EndCheck, ExpireSession
<1>2. checking' \in [Check -> {"none", "session", "health"}]
  BY DEF BuiltinInv, BuiltinTypeOK, BeginCheck, CheckSession, EndCheck, ExpireSession
<1>3. token' \in {"none", "fresh", "expired"}
  BY DEF BuiltinInv, BuiltinTypeOK, BeginCheck, CheckSession, EndCheck, ExpireSession, Acquired
<1>4. Starting' = Starting
  BY <1>1 DEF Starting
<1> QED
  BY <1>1, <1>2, <1>3, <1>4 DEF BuiltinInv, BuiltinTypeOK, TicksInv, IntervalInv, StoppedInv

(* No step of the agents breaks the invariant.                                 *)
LEMMA BuiltinInductive == BuiltinInv /\ [BuiltinNext]_agentVars => BuiltinInv'
<1> SUFFICES ASSUME BuiltinInv, [BuiltinNext]_agentVars PROVE BuiltinInv'
  OBVIOUS
<1>1. CASE UNCHANGED agentVars
  BY <1>1 DEF agentVars, BuiltinInv, BuiltinTypeOK, TicksInv, IntervalInv, StoppedInv, Starting
<1>2. CASE BuiltinNext
  BY <1>2, TickKeeps, StopKeeps, StartPlainKeeps, BeginStartKeeps, StartStepKeeps, CheckKeeps
  DEF BuiltinNext
<1> QED
  BY <1>1, <1>2

(* The invariant holds for any agents, starts and checks.                      *)
LEMMA BuiltinInvariant == BuiltinSpec => []BuiltinInv
BY BuiltinInitially, BuiltinInductive, PTL DEF BuiltinSpec

(* The variables of the agents have their types.                               *)
THEOREM BuiltinTypes == BuiltinSpec => []BuiltinTypeOK
<1>1. BuiltinInv => BuiltinTypeOK
  BY DEF BuiltinInv
<1> QED
  BY <1>1, BuiltinInvariant, PTL

(* An agent has the one interval its handle names, unless two starts of the    *)
(* sentinel overlapped.                                                        *)
THEOREM OneIntervalEach == BuiltinSpec => []OneInterval
<1>1. BuiltinInv => OneInterval
  BY DEF BuiltinInv, IntervalInv, OneInterval, Builtin
<1> QED
  BY <1>1, BuiltinInvariant, PTL

(* After the shutdown no interval is alive, unless a start was suspended at a  *)
(* stop, or two had overlapped.                                                *)
THEOREM ShutdownStops == BuiltinSpec => []ShutdownStopsAgents
<1>1. BuiltinInv => ShutdownStopsAgents
  BY BuiltinAssumption
  DEF BuiltinInv, BuiltinTypeOK, IntervalInv, StoppedInv, ShutdownStopsAgents, Builtin
<1> QED
  BY <1>1, BuiltinInvariant, PTL

-----------------------------------------------------------------------------
(* SafetyPipeline: verdicts.                                                   *)

\* For the same text, request a asks for at least what b asks for, with no more
\* clearance, in a mode that is not laxer.
Asks(a, b) ==
  /\ a.text = b.text
  /\ Multiplier(a.mode) <= Multiplier(b.mode)
  /\ Len(a.tools) \in Nat /\ Len(b.tools) \in Nat /\ Len(b.tools) <= Len(a.tools)
  /\ ToSet(b.tools) \subseteq ToSet(a.tools)
  /\ a.confirmed \subseteq b.confirmed
  /\ a.dryRun \subseteq b.dryRun
  /\ a.permitted \subseteq b.permitted

(* The points of any set of rules are a number.                                *)
LEMMA RulePointsNat == \A rules : RulePoints(rules) \in Nat
BY DEF RulePoints, RuleWeight

(* More tools, no lower score.                                                 *)
LEMMA ScoreGrows ==
  ASSUME NEW a, NEW b, Asks(a, b)
  PROVE  RiskScore(a) \in Nat /\ RiskScore(b) \in Nat /\ RiskScore(b) <= RiskScore(a)
<1>1. /\ a.text = b.text
      /\ Len(a.tools) \in Nat /\ Len(b.tools) \in Nat /\ Len(b.tools) <= Len(a.tools)
  BY DEF Asks
<1>2. RulePoints(a.text.rules) \in Nat
  BY RulePointsNat
<1> QED
  BY <1>1, <1>2 DEF RiskScore, AtMost

(* Neither a higher score nor a stricter mode makes the rules' decision laxer. *)
LEMMA SafetyDecisionGrows ==
  ASSUME NEW a, NEW b, Asks(a, b)
  PROVE  /\ SafetyDecision(a) \in VerdictName /\ SafetyDecision(b) \in VerdictName
         /\ Severity(SafetyDecision(a)) >= Severity(SafetyDecision(b))
<1> DEFINE reached(r, threshold) == 100 * RiskScore(r) >= threshold * Multiplier(r.mode)
<1>1. /\ Multiplier(a.mode) \in {82, 100, 115} /\ Multiplier(b.mode) \in {82, 100, 115}
      /\ Multiplier(a.mode) <= Multiplier(b.mode)
  BY DEF Multiplier, Asks
<1>2. reached(b, 60) => reached(a, 60)
  BY <1>1, ScoreGrows
<1>3. reached(b, 28) => reached(a, 28)
  BY <1>1, ScoreGrows
<1>4. reached(b, 12) => reached(a, 12)
  BY <1>1, ScoreGrows
<1>5. \A r : SafetyDecision(r) = IF reached(r, 60) THEN "block"
                                 ELSE IF reached(r, 28) THEN "review"
                                 ELSE IF reached(r, 12) THEN "allow_with_controls"
                                 ELSE "allow"
  BY DEF SafetyDecision
<1> HIDE DEF reached
<1> QED
  BY <1>2, <1>3, <1>4, <1>5 DEF Severity, VerdictName

(* The injection guard keeps the order of two decisions.                       *)
LEMMA GuardedGrows ==
  ASSUME NEW a \in VerdictName, NEW b \in VerdictName, Severity(a) >= Severity(b), NEW input
  PROVE  /\ Guarded(a, input) \in VerdictName /\ Guarded(b, input) \in VerdictName
         /\ Severity(Guarded(a, input)) >= Severity(Guarded(b, input))
BY DEF Guarded, Severity, VerdictName

(* Less clearance never makes the decision on a tool laxer.                    *)
LEMMA ToolDecisionGrows ==
  ASSUME NEW a, NEW b, Asks(a, b), NEW tool
  PROVE  /\ ToolDecision(tool, b) = "block" => ToolDecision(tool, a) = "block"
         /\ ToolDecision(tool, b) = "review" => ToolDecision(tool, a) \in {"review", "block"}
BY DEF ToolDecision, Asks

(* Nobody gets a laxer verdict by asking for more with less clearance.         *)
LEMMA VerdictGrows ==
  ASSUME NEW a, NEW b, Asks(a, b)
  PROVE  AsStrict(a, b)
<1> DEFINE of(r, decision) == \E t \in ToSet(r.tools) : ToolDecision(t, r) = decision
           guarded(r) == Guarded(SafetyDecision(r), InputDecision(r.text))
<1>1. a.text = b.text
  BY DEF Asks
<1>2. /\ guarded(a) \in VerdictName /\ guarded(b) \in VerdictName
      /\ Severity(guarded(a)) >= Severity(guarded(b))
  BY <1>1, SafetyDecisionGrows, GuardedGrows
<1>3. of(b, "block") => of(a, "block")
  BY ToolDecisionGrows DEF Asks
<1>4. of(b, "review") => of(a, "review") \/ of(a, "block")
  BY ToolDecisionGrows DEF Asks
<1>5. \A r : Verdict(r) = IF of(r, "block") THEN "block"
                          ELSE IF of(r, "review") /\ guarded(r) # "block" THEN "review"
                          ELSE guarded(r)
  BY DEF Verdict
<1> HIDE DEF of, guarded
<1> QED
  BY <1>2, <1>3, <1>4, <1>5 DEF AsStrict, Severity, VerdictName

(* A verdict is one of the four.                                               *)
LEMMA VerdictType == \A request : Verdict(request) \in VerdictName
BY DEF Verdict, Guarded, SafetyDecision, VerdictName

(* A request's verdict does not soften in any of the six ways.                 *)
LEMMA RequestMonotone ==
  ASSUME NEW request \in ActionRequest
  PROVE  LET in(mode) == [request EXCEPT !.mode = mode]
         IN  /\ AsStrict(in("strict"), in("balanced"))
             /\ AsStrict(in("balanced"), in("exploratory"))
             /\ \A t \in DOMAIN ToolRisk :
                  /\ AsStrict([request EXCEPT !.tools = Append(@, t)], request)
                  /\ AsStrict([request EXCEPT !.confirmed = @ \ {t}], request)
                  /\ AsStrict([request EXCEPT !.dryRun = @ \ {t}], request)
                  /\ AsStrict([request EXCEPT !.permitted = @ \ {t}], request)
<1> DEFINE in(mode) == [request EXCEPT !.mode = mode]
<1>1. /\ DOMAIN request = {"text", "mode", "tools", "confirmed", "dryRun", "permitted"}
      /\ request = [field \in DOMAIN request |-> request[field]]
      /\ request.tools \in Seq(ToSet(request.tools))
      /\ Len(request.tools) \in Nat
  BY RequestAssumption, LenProperties
<1>2. Multiplier(request.mode) \in {82, 100, 115}
  BY DEF Multiplier
<1>3. AsStrict(in("strict"), in("balanced")) /\ AsStrict(in("balanced"), in("exploratory"))
  <2>1. ASSUME NEW mode
        PROVE  /\ in(mode).text = request.text /\ in(mode).mode = mode
               /\ in(mode).tools = request.tools /\ in(mode).confirmed = request.confirmed
               /\ in(mode).dryRun = request.dryRun /\ in(mode).permitted = request.permitted
    BY <1>1
  <2>2. /\ Multiplier("strict") = 82 /\ Multiplier("balanced") = 100
        /\ Multiplier("exploratory") = 115
    BY DEF Multiplier
  <2> HIDE DEF in
  <2>3. Asks(in("strict"), in("balanced"))
    BY <1>1, <2>1, <2>2 DEF Asks
  <2>4. Asks(in("balanced"), in("exploratory"))
    BY <1>1, <2>1, <2>2 DEF Asks
  <2> QED
    BY <2>3, <2>4, VerdictGrows
<1>4. ASSUME NEW t
      PROVE  /\ AsStrict([request EXCEPT !.tools = Append(@, t)], request)
             /\ AsStrict([request EXCEPT !.confirmed = @ \ {t}], request)
             /\ AsStrict([request EXCEPT !.dryRun = @ \ {t}], request)
             /\ AsStrict([request EXCEPT !.permitted = @ \ {t}], request)
  <2>1. AsStrict([request EXCEPT !.tools = Append(@, t)], request)
    <3> DEFINE a == [request EXCEPT !.tools = Append(@, t)]
               S == ToSet(request.tools) \cup {t}
    <3>1. /\ Len(Append(request.tools, t)) = Len(request.tools) + 1
          /\ ToSet(request.tools) \subseteq ToSet(Append(request.tools, t))
      <4>1. request.tools \in Seq(S) /\ t \in S
        BY <1>1
      <4>2. /\ Append(request.tools, t) \in Seq(S)
            /\ Len(Append(request.tools, t)) = Len(request.tools) + 1
            /\ \A i \in 1 .. Len(request.tools) :
                 Append(request.tools, t)[i] = request.tools[i]
        BY <4>1, AppendProperties
      <4>3. /\ DOMAIN request.tools = 1 .. Len(request.tools)
            /\ DOMAIN Append(request.tools, t) = 1 .. Len(Append(request.tools, t))
        BY <4>1, <4>2, LenProperties
      <4> QED
        BY <1>1, <4>2, <4>3 DEF ToSet
    <3>2. /\ a.text = request.text /\ a.tools = Append(request.tools, t)
          /\ a.mode = request.mode /\ a.confirmed = request.confirmed
          /\ a.dryRun = request.dryRun /\ a.permitted = request.permitted
      BY <1>1
    <3> HIDE DEF a
    <3>3. Asks(a, request)
      BY <1>1, <1>2, <3>1, <3>2 DEF Asks
    <3>4. AsStrict(a, request)
      BY <3>3, VerdictGrows
    <3> QED
      BY <3>4 DEF a
  <2>2. AsStrict([request EXCEPT !.confirmed = @ \ {t}], request)
    <3> DEFINE a == [request EXCEPT !.confirmed = @ \ {t}]
    <3>1. /\ a.text = request.text /\ a.tools = request.tools /\ a.mode = request.mode
          /\ a.confirmed \subseteq request.confirmed
          /\ a.dryRun = request.dryRun /\ a.permitted = request.permitted
      BY <1>1
    <3> HIDE DEF a
    <3>2. Asks(a, request)
      BY <1>1, <1>2, <3>1 DEF Asks
    <3>3. AsStrict(a, request)
      BY <3>2, VerdictGrows
    <3> QED
      BY <3>3 DEF a
  <2>3. AsStrict([request EXCEPT !.dryRun = @ \ {t}], request)
    <3> DEFINE a == [request EXCEPT !.dryRun = @ \ {t}]
    <3>1. /\ a.text = request.text /\ a.tools = request.tools /\ a.mode = request.mode
          /\ a.dryRun \subseteq request.dryRun
          /\ a.confirmed = request.confirmed /\ a.permitted = request.permitted
      BY <1>1
    <3> HIDE DEF a
    <3>2. Asks(a, request)
      BY <1>1, <1>2, <3>1 DEF Asks
    <3>3. AsStrict(a, request)
      BY <3>2, VerdictGrows
    <3> QED
      BY <3>3 DEF a
  <2>4. AsStrict([request EXCEPT !.permitted = @ \ {t}], request)
    <3> DEFINE a == [request EXCEPT !.permitted = @ \ {t}]
    <3>1. /\ a.text = request.text /\ a.tools = request.tools /\ a.mode = request.mode
          /\ a.permitted \subseteq request.permitted
          /\ a.confirmed = request.confirmed /\ a.dryRun = request.dryRun
      BY <1>1
    <3> HIDE DEF a
    <3>2. Asks(a, request)
      BY <1>1, <1>2, <3>1 DEF Asks
    <3>3. AsStrict(a, request)
      BY <3>2, VerdictGrows
    <3> QED
      BY <3>3 DEF a
  <2> QED
    BY <2>1, <2>2, <2>3, <2>4
<1> QED
  BY <1>3, <1>4

-----------------------------------------------------------------------------
(* SafetyPipeline: the list of breaches.                                       *)

\* Blocked requests are numbered as they come.
BlockedInv ==
  /\ Len(blockedLog) <= MaxBlocked
  /\ \A i \in DOMAIN blockedLog : blockedLog[i] = i

PipelineInv == PipelineTypeOK /\ BlockedInv /\ BreachesLatest

(* One more breach becomes the first, and the oldest goes if there are too     *)
(* many.                                                                       *)
LEMMA LogBreachFacts ==
  ASSUME NEW S, breaches \in Seq(S), NEW id \in S
  PROVE  /\ LogBreach(id) \in Seq(S)
         /\ Len(LogBreach(id)) = AtMost(Len(breaches) + 1, MaxBreaches)
         /\ \A i \in 1 .. Len(LogBreach(id)) :
              LogBreach(id)[i] = IF i = 1 THEN id ELSE breaches[i - 1]
<1> DEFINE longer == <<id>> \o breaches
           size == AtMost(Len(breaches) + 1, MaxBreaches)
<1>1. Len(breaches) \in Nat /\ size \in 0 .. Len(breaches) + 1
  BY LenProperties, BreachesAssumption DEF AtMost
<1>2. <<id>> \in Seq(S) /\ Len(<<id>>) = 1 /\ <<id>>[1] = id
  OBVIOUS
<1>3. /\ longer \in Seq(S) /\ Len(longer) = Len(breaches) + 1
      /\ \A i \in 1 .. Len(longer) : longer[i] = IF i = 1 THEN id ELSE breaches[i - 1]
  BY <1>1, <1>2, ConcatProperties
<1> HIDE DEF longer, size
<1>4. /\ SubSeq(longer, 1, size) \in Seq(S) /\ Len(SubSeq(longer, 1, size)) = size
      /\ \A i \in 1 .. size : SubSeq(longer, 1, size)[i] = longer[i]
  BY <1>1, <1>3, SubSeqProperties
<1> QED
  BY <1>1, <1>3, <1>4 DEF LogBreach, longer, size

(* No call is under way, and nothing has been blocked.                         *)
LEMMA PipelineInitially == PipelineInit => PipelineInv
<1> SUFFICES ASSUME PipelineInit PROVE PipelineInv
  OBVIOUS
<1>1. breaches = <<>> /\ blockedLog = <<>> /\ breachFile = {} /\ Len(<<>>) = 0
  BY DEF PipelineInit
<1>2. PipelineTypeOK
  BY <1>1 DEF PipelineInit, PipelineTypeOK
<1> QED
  BY <1>1, <1>2, BreachesAssumption
  DEF PipelineInv, BlockedInv, BreachesLatest, AtMost

(* A call is wrapped; if its input is blocked, it is listed.                   *)
LEMMA WrapActionKeeps ==
  ASSUME PipelineInv, NEW c \in Wrapped, NEW request \in ActionRequest, NEW writes \in BOOLEAN,
         WrapAction(c, request, writes)
  PROVE  PipelineInv'
<1> DEFINE id == Len(blockedLog) + 1
           breach == InputDecision(request.text) = "block"
           call == [step |-> IF Verdict(request) = "allow" THEN "acting" ELSE "refused",
                    request |-> request, verdict |-> Verdict(request)]
<1>0. PipelineTypeOK /\ BlockedInv /\ BreachesLatest
  BY DEF PipelineInv
<1>1. /\ wrapped' = [wrapped EXCEPT ![c] = call]
      /\ breach => id <= MaxBlocked
      /\ breaches' = IF breach THEN LogBreach(id) ELSE breaches
      /\ writes => breach
      /\ breachFile' = IF writes THEN breachFile \cup {id} ELSE breachFile
      /\ blockedLog' = IF breach THEN Append(blockedLog, id) ELSE blockedLog
  BY DEF WrapAction
<1>2. wrapped' \in [Wrapped -> WrappedCall \cup {NoCall}]
  <2>1. call \in WrappedCall
    BY VerdictType DEF WrappedCall
  <2> HIDE DEF call
  <2> QED
    BY <1>0, <1>1, <2>1 DEF PipelineTypeOK
<1>3. Len(blockedLog) \in Nat /\ Len(breaches) \in Nat
  BY <1>0, LenProperties DEF PipelineTypeOK
<1>4. CASE breach
  <2>1. id \in 1 .. MaxBlocked
    BY <1>1, <1>3, <1>4, BreachesAssumption
  <2>2. /\ Append(blockedLog, id) \in Seq(1 .. MaxBlocked)
        /\ Len(Append(blockedLog, id)) = id
        /\ \A i \in 1 .. Len(blockedLog) : Append(blockedLog, id)[i] = blockedLog[i]
        /\ Append(blockedLog, id)[id] = id
        /\ DOMAIN Append(blockedLog, id) = 1 .. id
    BY <1>0, <2>1, AppendProperties, LenProperties DEF PipelineTypeOK
  <2>3. /\ LogBreach(id) \in Seq(1 .. MaxBlocked)
        /\ Len(LogBreach(id)) = AtMost(Len(breaches) + 1, MaxBreaches)
        /\ \A i \in 1 .. Len(LogBreach(id)) :
             LogBreach(id)[i] = IF i = 1 THEN id ELSE breaches[i - 1]
        /\ DOMAIN LogBreach(id) = 1 .. Len(LogBreach(id))
    BY <1>0, <2>1, LogBreachFacts, LenProperties DEF PipelineTypeOK
  <2>4. blockedLog' = Append(blockedLog, id) /\ breaches' = LogBreach(id)
    BY <1>1, <1>4
  <2>5. PipelineTypeOK'
    BY <1>0, <1>1, <1>2, <2>1, <2>2, <2>3, <2>4 DEF PipelineTypeOK
  <2>6. DOMAIN blockedLog = 1 .. Len(blockedLog) /\ DOMAIN breaches = 1 .. Len(breaches)
    BY <1>0, LenProperties DEF PipelineTypeOK
  <2>7. BlockedInv'
    BY <1>0, <1>3, <2>1, <2>2, <2>4, <2>6 DEF BlockedInv
  <2>8. Len(breaches') = AtMost(Len(blockedLog'), MaxBreaches)
    BY <1>0, <1>3, <2>2, <2>3, <2>4, BreachesAssumption DEF BreachesLatest, AtMost
  <2>9. ASSUME NEW i \in DOMAIN breaches'
        PROVE  breaches'[i] = blockedLog'[Len(blockedLog') + 1 - i]
    <3>1. /\ i \in 1 .. AtMost(Len(breaches) + 1, MaxBreaches)
          /\ breaches'[i] = IF i = 1 THEN id ELSE breaches[i - 1]
      BY <2>3, <2>4
    <3>2. i \in Nat /\ 1 <= i /\ i <= Len(breaches) + 1
      BY <3>1, <1>3, BreachesAssumption DEF AtMost
    <3>3. Len(breaches) <= Len(blockedLog)
      BY <1>0, <1>3, BreachesAssumption DEF BreachesLatest, AtMost
    <3>4. CASE i = 1
      BY <3>1, <3>4, <2>2, <2>4, <1>3
    <3>5. CASE i # 1
      <4>1. i - 1 \in DOMAIN breaches
        BY <3>2, <3>5, <2>6, <1>3
      <4>2. breaches[i - 1] = blockedLog[Len(blockedLog) + 1 - (i - 1)]
        BY <4>1, <1>0 DEF BreachesLatest
      <4>3. id + 1 - i \in 1 .. Len(blockedLog) /\ Len(blockedLog) + 1 - (i - 1) = id + 1 - i
        BY <1>3, <3>2, <3>3, <3>5
      <4> QED
        BY <3>1, <3>5, <4>2, <4>3, <2>2, <2>4
    <3> QED
      BY <3>4, <3>5
  <2>10. BreachesLatest'
    BY <2>8, <2>9 DEF BreachesLatest
  <2> QED
    BY <2>5, <2>7, <2>10 DEF PipelineInv
<1>5. CASE ~breach
  <2>1. UNCHANGED <<breaches, breachFile, blockedLog>>
    BY <1>1, <1>5
  <2> QED
    BY <1>0, <1>2, <2>1 DEF PipelineInv, PipelineTypeOK, BlockedInv, BreachesLatest
<1> QED
  BY <1>4, <1>5

(* The action ends, well or not, or the caller has its answer.                 *)
LEMMA CallKeeps ==
  ASSUME PipelineInv, NEW c \in Wrapped,
         (\E leaks \in Leaks : ActionEnds(c, leaks)) \/ ActionThrows(c) \/ Return(c)
  PROVE  PipelineInv'
<1>1. wrapped \in [Wrapped -> WrappedCall \cup {NoCall}]
  BY DEF PipelineInv, PipelineTypeOK
<1>2. CASE Return(c)
  BY <1>1, <1>2 DEF Return, PipelineInv, PipelineTypeOK, BlockedInv, BreachesLatest
<1>3. CASE (\E leaks \in Leaks : ActionEnds(c, leaks)) \/ ActionThrows(c)
  <2>1. PICK step \in {"withheld", "answered", "threw"} :
          /\ wrapped[c].step = "acting"
          /\ wrapped' = [wrapped EXCEPT ![c].step = step]
          /\ UNCHANGED <<breaches, breachFile, blockedLog>>
    BY <1>3 DEF ActionEnds, ActionThrows
  <2>2. wrapped[c] \in WrappedCall
    BY <1>1, <2>1 DEF NoCall
  <2>3. wrapped' \in [Wrapped -> WrappedCall \cup {NoCall}]
    BY <1>1, <2>1, <2>2 DEF WrappedCall
  <2> QED
    BY <2>1, <2>3 DEF PipelineInv, PipelineTypeOK, BlockedInv, BreachesLatest
<1> QED
  BY <1>2, <1>3

(* No step of the pipeline breaks the invariant.                               *)
LEMMA PipelineInductive == PipelineInv /\ [PipelineNext]_pipelineVars => PipelineInv'
<1> SUFFICES ASSUME PipelineInv, [PipelineNext]_pipelineVars PROVE PipelineInv'
  OBVIOUS
<1>1. CASE UNCHANGED pipelineVars
  BY <1>1 DEF pipelineVars, PipelineInv, PipelineTypeOK, BlockedInv, BreachesLatest
<1>2. CASE PipelineNext
  BY <1>2, WrapActionKeeps, CallKeeps DEF PipelineNext
<1> QED
  BY <1>1, <1>2

(* The invariant holds whatever is asked for.                                  *)
LEMMA PipelineInvariant == PipelineSpec => []PipelineInv
BY PipelineInitially, PipelineInductive, PTL DEF PipelineSpec

(* The variables of the pipeline have their types.                             *)
THEOREM PipelineTypes == PipelineSpec => []PipelineTypeOK
<1>1. PipelineInv => PipelineTypeOK
  BY DEF PipelineInv
<1> QED
  BY <1>1, PipelineInvariant, PTL

(* The list has the latest blocked requests, the newest first.                 *)
THEOREM BreachesAreLatest == PipelineSpec => []BreachesLatest
<1>1. PipelineInv => BreachesLatest
  BY DEF PipelineInv
<1> QED
  BY <1>1, PipelineInvariant, PTL

(* The verdict on no request softens when its mode becomes stricter, a tool is *)
(* added, or a clearance withdrawn.                                            *)
THEOREM VerdictsAreMonotone == PipelineSpec => []VerdictMonotone
<1>1. PipelineInv => VerdictMonotone
  <2>1. ASSUME PipelineInv, NEW c \in Wrapped, wrapped[c] # NoCall
        PROVE  wrapped[c].request \in ActionRequest
    BY <2>1 DEF PipelineInv, PipelineTypeOK, WrappedCall
  <2> QED
    BY <2>1, RequestMonotone DEF VerdictMonotone
<1> QED
  BY <1>1, PipelineInvariant, PTL

-----------------------------------------------------------------------------
(* EventStream: the audit stream of a client.                                  *)

\* Records are announced at most once, in whatever order.
RecordsInv ==
  /\ said \subseteq 1 .. logged
  /\ \A s \in AuditSlot : unsaid[s] # NoRecord => unsaid[s] <= logged /\ unsaid[s] \notin said
  /\ \A s, t \in AuditSlot : unsaid[s] # NoRecord /\ unsaid[s] = unsaid[t] => s = t

\* What a client of the audit stream has read, and what it was sent since.
SnapshotInv(state) ==
  state.kind = "audit" /\ state.step \in {"read", "open"} =>
    /\ state.top <= logged
    /\ state.seen = IF state.blind THEN {}
                    ELSE {n \in 1 .. state.top : n > state.top - SnapshotSize}
    /\ \A s \in AuditSlot :
         unsaid[s] # NoRecord /\ unsaid[s] <= state.top => unsaid[s] \in state.pending
    /\ state.step = "read" =>
         /\ \A n \in said : n > state.top \/ n \in state.pending => n \in state.missed
         /\ state.twice = {}
    /\ state.joined =>
         /\ state.seen \subseteq state.once
         /\ \A n \in said : Due(state, n) => n \in state.once \/ n \in state.missed
         /\ state.once \subseteq state.seen \cup said
         /\ state.twice \subseteq state.pending \cap state.seen

\* Where a client is, and whether its closing was heard.
ClosingInv(state) ==
  /\ state.step = "none" => state = Absent
  /\ state.step \in {"reading", "importing", "read"} => ~state.joined /\ ~state.beating
  /\ state.step = "reading" => state.twice = {} /\ state.seen = {} /\ ~state.blind
  /\ state.step \in {"reading", "read"} => state.kind = "audit"
  /\ state.step = "importing" => state.kind = "live"
  /\ state.emitted /\ ~state.early => state.step = "open" /\ ~state.joined /\ ~state.beating

StreamInv ==
  /\ StreamTypeOK
  /\ RecordsInv
  /\ \A c \in Client : SnapshotInv(client[c]) /\ ClosingInv(client[c])

-----------------------------------------------------------------------------
(* What a client of the right type becomes when a record is announced.         *)
LEMMA ReceiveFacts ==
  ASSUME NEW state \in ClientState, NEW n \in Logged
  PROVE  LET next == Receive(state, n)
         IN  /\ next \in ClientState
             /\ next.step = state.step /\ next.kind = state.kind /\ next.joined = state.joined
             /\ next.beating = state.beating /\ next.emitted = state.emitted
             /\ next.early = state.early /\ next.seen = state.seen /\ next.top = state.top
             /\ next.pending = state.pending /\ next.blind = state.blind
             /\ state.joined /\ state.kind # "live" =>
                  /\ next.once = state.once \cup {n}
                  /\ next.missed = state.missed
                  /\ next.twice = state.twice \cup (state.once \cap {n})
             /\ ~state.joined => next.once = state.once /\ next.twice = state.twice
             /\ ~state.joined /\ state.step = "read" => next.missed = state.missed \cup {n}
             /\ state.step = "none" /\ ~state.joined => next = state
<1>1. CASE state.joined /\ state.kind # "live"
  <2> DEFINE once == [state EXCEPT !.once = @ \cup {n}]
             next == [once EXCEPT !.twice = @ \cup (state.once \cap {n})]
  <2>1. Receive(state, n) = next
    BY <1>1 DEF Receive
  <2>2. /\ once \in ClientState
        /\ once.step = state.step /\ once.kind = state.kind /\ once.joined = state.joined
        /\ once.beating = state.beating /\ once.emitted = state.emitted
        /\ once.early = state.early /\ once.seen = state.seen /\ once.top = state.top
        /\ once.pending = state.pending /\ once.blind = state.blind /\ once.missed = state.missed
        /\ once.once = state.once \cup {n} /\ once.twice = state.twice
    BY DEF ClientState
  <2>3. state.once \subseteq Logged
    BY DEF ClientState
  <2> HIDE DEF once
  <2>4. /\ next \in ClientState
        /\ next.step = once.step /\ next.kind = once.kind /\ next.joined = once.joined
        /\ next.beating = once.beating /\ next.emitted = once.emitted
        /\ next.early = once.early /\ next.seen = once.seen /\ next.top = once.top
        /\ next.pending = once.pending /\ next.blind = once.blind /\ next.missed = once.missed
        /\ next.once = once.once /\ next.twice = once.twice \cup (state.once \cap {n})
    BY <2>2, <2>3 DEF ClientState
  <2> HIDE DEF next
  <2> QED
    BY <1>1, <2>1, <2>2, <2>4
<1>2. CASE ~(state.joined /\ state.kind # "live") /\ state.step = "read"
  <2>1. Receive(state, n) = [state EXCEPT !.missed = @ \cup {n}]
    BY <1>2 DEF Receive
  <2> QED
    BY <1>2, <2>1 DEF ClientState, Logged
<1>3. CASE ~(state.joined /\ state.kind # "live") /\ state.step # "read"
  <2>1. Receive(state, n) = state
    BY <1>3 DEF Receive
  <2> QED
    BY <1>3, <2>1 DEF ClientState, Logged
<1> QED
  BY <1>1, <1>2, <1>3

(* Nobody has connected, nothing is logged.                                    *)
LEMMA StreamInitially == StreamInit => StreamInv
<1> SUFFICES ASSUME StreamInit PROVE StreamInv
  OBVIOUS
<1>1. Absent \in ClientState
  BY SnapshotAssumption DEF Absent, ClientState, Logged
<1>2. StreamTypeOK
  BY <1>1, SnapshotAssumption DEF StreamInit, StreamTypeOK, Logged, NoRecord
<1>3. RecordsInv
  BY SnapshotAssumption DEF StreamInit, RecordsInv, NoRecord
<1>4. SnapshotInv(Absent) /\ ClosingInv(Absent)
  BY DEF SnapshotInv, ClosingInv, Absent
<1> QED
  BY <1>2, <1>3, <1>4 DEF StreamInit, StreamInv

(* One client changes, to a state that keeps its part, and no record does.     *)
LEMMA OneClientChanges ==
  ASSUME StreamInv, NEW c \in Client, NEW state \in ClientState, Change(c, state),
         UNCHANGED <<logged, unsaid, said, streaming>>, SnapshotInv(state), ClosingInv(state)
  PROVE  StreamInv'
<1>1. StreamTypeOK'
  BY DEF StreamInv, StreamTypeOK, Change
<1>2. RecordsInv'
  BY DEF StreamInv, RecordsInv
<1>3. ASSUME NEW d \in Client PROVE SnapshotInv(client[d])' /\ ClosingInv(client[d])'
  <2>1. client'[d] = IF d = c THEN state ELSE client[d]
    BY DEF Change, StreamInv, StreamTypeOK
  <2>2. SnapshotInv(client'[d]) /\ ClosingInv(client'[d])
    BY <2>1 DEF StreamInv
  <2> QED
    BY <2>2 DEF SnapshotInv, ClosingInv
<1> QED
  BY <1>1, <1>2, <1>3 DEF StreamInv

(* The part of a client is kept when the file grows and a slot holds its end.  *)
LEMMA FileGrows ==
  ASSUME StreamInv, logged < MaxLogged, logged' = logged + 1,
         unsaid' \in [AuditSlot -> Logged \cup {NoRecord}],
         \A s \in AuditSlot : unsaid'[s] = unsaid[s] \/ unsaid'[s] = logged + 1,
         \A s, t \in AuditSlot : unsaid'[s] = logged + 1 /\ unsaid'[t] = logged + 1 => s = t,
         UNCHANGED <<said, client, streaming>>
  PROVE  StreamInv'
<1>0. StreamTypeOK /\ RecordsInv
  BY DEF StreamInv
<1>1. StreamTypeOK'
  BY <1>0, SnapshotAssumption DEF StreamTypeOK
<1>2. RecordsInv'
  BY <1>0, SnapshotAssumption DEF StreamTypeOK, RecordsInv, NoRecord, Logged
<1>3. ASSUME NEW c \in Client PROVE SnapshotInv(client[c])' /\ ClosingInv(client[c])'
  <2>1. client[c] \in ClientState /\ SnapshotInv(client[c]) /\ ClosingInv(client[c])
    BY <1>0 DEF StreamInv, StreamTypeOK
  <2>2. ClosingInv(client[c])'
    BY <2>1 DEF ClosingInv
  <2>3. SnapshotInv(client[c])'
    BY <2>1, <1>0, SnapshotAssumption DEF SnapshotInv, ClientState, StreamTypeOK
  <2> QED
    BY <2>2, <2>3
<1> QED
  BY <1>1, <1>2, <1>3 DEF StreamInv

(* audit() appends a record.                                                   *)
LEMMA AppendRecordKeeps ==
  ASSUME StreamInv, NEW s \in AuditSlot, AppendRecord(s) PROVE StreamInv'
<1>1. StreamTypeOK /\ RecordsInv
  BY DEF StreamInv
<1>2. unsaid' \in [AuditSlot -> Logged \cup {NoRecord}]
  BY <1>1, SnapshotAssumption DEF AppendRecord, StreamTypeOK, Logged
<1>3. \A t \in AuditSlot : unsaid'[t] = IF t = s THEN logged + 1 ELSE unsaid[t]
  BY <1>1 DEF AppendRecord, StreamTypeOK
<1>4. \A t \in AuditSlot : unsaid[t] # logged + 1
  BY <1>1, SnapshotAssumption DEF RecordsInv, StreamTypeOK, NoRecord, Logged
<1> QED
  BY <1>2, <1>3, <1>4, FileGrows DEF AppendRecord

(* A record is announced to the clients that have joined.                      *)
LEMMA AnnounceKeeps ==
  ASSUME StreamInv, NEW s \in AuditSlot, Announce(s) PROVE StreamInv'
<1> DEFINE n == unsaid[s]
<1>0. StreamTypeOK /\ RecordsInv
  BY DEF StreamInv
<1>1. n \in Logged /\ n <= logged /\ n \notin said
  BY <1>0 DEF Announce, StreamTypeOK, RecordsInv
<1>2. \A t \in AuditSlot : unsaid'[t] = IF t = s THEN NoRecord ELSE unsaid[t]
  BY <1>0 DEF Announce, StreamTypeOK
<1>3. said' = said \cup {n} /\ logged' = logged /\ streaming' = streaming
  BY DEF Announce
<1>4. ASSUME NEW c \in Client PROVE client'[c] = Receive(client[c], n)
  BY DEF Announce
<1>5. ASSUME NEW c \in Client PROVE client[c] \in ClientState
  BY <1>0 DEF StreamTypeOK
<1>6. StreamTypeOK'
  <2>1. client' \in [Client -> ClientState]
    BY <1>1, <1>5, ReceiveFacts DEF Announce
  <2>2. unsaid' \in [AuditSlot -> Logged \cup {NoRecord}]
    BY <1>0 DEF Announce, StreamTypeOK
  <2> QED
    BY <1>0, <1>1, <1>3, <2>1, <2>2 DEF StreamTypeOK
<1>7. RecordsInv'
  <2>1. said' \subseteq 1 .. logged'
    <3>1. n \in 1 .. logged
      BY <1>0, <1>1 DEF StreamTypeOK, Logged
    <3> QED
      BY <3>1, <1>0, <1>3 DEF RecordsInv
  <2>2. ASSUME NEW t \in AuditSlot, unsaid'[t] # NoRecord
        PROVE  t # s /\ unsaid'[t] = unsaid[t] /\ unsaid[t] <= logged /\ unsaid[t] \notin said'
    BY <1>0, <1>2, <1>3, <2>2 DEF RecordsInv, Announce
  <2> QED
    BY <2>1, <2>2, <1>0, <1>3 DEF RecordsInv
<1>8. ASSUME NEW c \in Client PROVE SnapshotInv(client[c])' /\ ClosingInv(client[c])'
  <2> DEFINE old == client[c]
             next == client'[c]
  <2>0. old \in ClientState /\ SnapshotInv(old) /\ ClosingInv(old)
    BY <1>5 DEF StreamInv
  <2>1. /\ next \in ClientState
        /\ next.step = old.step /\ next.kind = old.kind /\ next.joined = old.joined
        /\ next.beating = old.beating /\ next.emitted = old.emitted
        /\ next.early = old.early /\ next.seen = old.seen /\ next.top = old.top
        /\ next.pending = old.pending /\ next.blind = old.blind
        /\ old.joined /\ old.kind # "live" =>
             /\ next.once = old.once \cup {n}
             /\ next.missed = old.missed
             /\ next.twice = old.twice \cup (old.once \cap {n})
        /\ ~old.joined => next.once = old.once /\ next.twice = old.twice
        /\ ~old.joined /\ old.step = "read" => next.missed = old.missed \cup {n}
        /\ old.step = "none" /\ ~old.joined => next = old
    <3>1. old \in ClientState /\ n \in Logged /\ next = Receive(old, n)
      BY <1>1, <1>4, <2>0
    <3> HIDE DEF old, next, n
    <3> QED
      BY <3>1, ReceiveFacts, Zenon
  <2>2. ClosingInv(client[c])'
    <3>1. old.step = "none" => old = Absent /\ ~old.joined
      BY <2>0 DEF ClosingInv, Absent
    <3>2. old.step = "none" => next = Absent
      BY <2>1, <3>1
    <3> HIDE DEF next, old
    <3>3. ClosingInv(next)
      BY <2>0, <2>1, <3>1, <3>2 DEF ClosingInv
    <3> QED
      BY <3>3 DEF ClosingInv, next
  <2>3. SnapshotInv(client[c])'
    <3>1. SUFFICES ASSUME next.kind = "audit", next.step \in {"read", "open"}
                   PROVE  /\ next.top <= logged'
                          /\ next.seen = IF next.blind THEN {}
                                         ELSE {m \in 1 .. next.top : m > next.top - SnapshotSize}
                          /\ \A t \in AuditSlot : unsaid'[t] # NoRecord /\ unsaid'[t] <= next.top
                               => unsaid'[t] \in next.pending
                          /\ next.step = "read" =>
                               /\ \A m \in said' : m > next.top \/ m \in next.pending
                                    => m \in next.missed
                               /\ next.twice = {}
                          /\ next.joined =>
                               /\ next.seen \subseteq next.once
                               /\ \A m \in said' : Due(next, m) =>
                                    m \in next.once \/ m \in next.missed
                               /\ next.once \subseteq next.seen \cup said'
                               /\ next.twice \subseteq next.pending \cap next.seen
      BY DEF SnapshotInv
    <3>2. /\ old.top <= logged
          /\ old.seen = IF old.blind THEN {}
                        ELSE {m \in 1 .. old.top : m > old.top - SnapshotSize}
          /\ \A t \in AuditSlot : unsaid[t] # NoRecord /\ unsaid[t] <= old.top
               => unsaid[t] \in old.pending
          /\ old.step = "read" =>
               /\ \A m \in said : m > old.top \/ m \in old.pending => m \in old.missed
               /\ old.twice = {}
          /\ old.joined =>
               /\ old.seen \subseteq old.once
               /\ \A m \in said : Due(old, m) => m \in old.once \/ m \in old.missed
               /\ old.once \subseteq old.seen \cup said
               /\ old.twice \subseteq old.pending \cap old.seen
      BY <3>1, <2>0, <2>1 DEF SnapshotInv
    <3>3. old.step = "read" => ~old.joined
      BY <2>0 DEF ClosingInv
    <3>4. n \in old.once /\ old.joined => n \in old.pending \cap old.seen
      <4>1. SUFFICES ASSUME n \in old.once, old.joined PROVE n \in old.pending \cap old.seen
        OBVIOUS
      <4>2. n \in old.seen
        BY <4>1, <3>2, <1>1
      <4>3. n <= old.top
        BY <4>2, <3>2
      <4> QED
        BY <4>2, <4>3, <3>2 DEF Announce
    <3>5. unsaid[s] = n /\ n # NoRecord
      BY DEF Announce
    <3>7. \A m : Due(next, m) <=> Due(old, m)
      BY <2>1 DEF Due
    <3> HIDE DEF next, old, n
    <3>6. old.kind = "audit" /\ old.kind # "live"
      BY <3>1, <2>1
    <3> QED
      BY <3>1, <3>2, <3>3, <3>4, <3>5, <3>6, <3>7, <2>1, <1>2, <1>3 DEF NoRecord
  <2> QED
    BY <2>2, <2>3
<1> QED
  BY <1>6, <1>7, <1>8 DEF StreamInv

(* A client connects.                                                          *)
LEMMA ConnectKeeps ==
  ASSUME StreamInv, NEW c \in Client, NEW kind \in {"audit", "breach", "live"}, Connect(c, kind)
  PROVE  StreamInv'
<1> DEFINE state == CASE kind = "audit" -> [Absent EXCEPT !.step = "reading"]
                      [] kind = "live" -> [Absent EXCEPT !.step = "importing", !.kind = "live"]
                      [] kind = "breach" -> Joined([Absent EXCEPT !.kind = "breach"])
<1>1. state \in ClientState /\ SnapshotInv(state) /\ ClosingInv(state)
  <2>0. 0 \in 0 .. MaxLogged
    BY SnapshotAssumption
  <2>1. CASE kind = "audit"
    <3>1. state = [Absent EXCEPT !.step = "reading"]
      BY <2>1
    <3> HIDE DEF state
    <3> QED
      BY <3>1, <2>0 DEF Absent, ClientState, SnapshotInv, ClosingInv
  <2>2. CASE kind = "live"
    <3>1. state = [Absent EXCEPT !.step = "importing", !.kind = "live"]
      BY <2>2
    <3> HIDE DEF state
    <3> QED
      BY <3>1, <2>0 DEF Absent, ClientState, SnapshotInv, ClosingInv
  <2>3. CASE kind = "breach"
    <3>1. state = Joined([Absent EXCEPT !.kind = "breach"])
      BY <2>3
    <3> HIDE DEF state
    <3> QED
      BY <3>1, <2>0 DEF Absent, ClientState, SnapshotInv, ClosingInv, Joined
  <2> QED
    BY <2>1, <2>2, <2>3
<1>2. Change(c, state) /\ UNCHANGED <<logged, unsaid, said, streaming>>
  BY DEF Connect
<1> QED
  BY <1>1, <1>2, OneClientChanges

(* A client reads the snapshot of the file, or fails to.                       *)
LEMMA SnapshotKeeps ==
  ASSUME StreamInv, NEW c \in Client, ReadSnapshot(c) \/ SnapshotFails(c)
  PROVE  StreamInv'
<1> DEFINE old == client[c]
           read == [old EXCEPT !.step = "read", !.top = logged, !.pending = Unannounced,
                      !.seen = {n \in 1 .. logged : n > logged - SnapshotSize}]
           failed == [old EXCEPT !.step = "read", !.top = logged, !.pending = Unannounced,
                        !.blind = TRUE]
<1>0. /\ StreamTypeOK /\ RecordsInv /\ old \in ClientState
      /\ ClosingInv(old) /\ old.step = "reading"
  BY DEF StreamInv, StreamTypeOK, ReadSnapshot, SnapshotFails
<1>1. {n \in 1 .. logged : n > logged - SnapshotSize} \subseteq Logged
  BY <1>0, SnapshotAssumption DEF StreamTypeOK, Logged
<1>2. Unannounced \subseteq Logged
  BY <1>0 DEF StreamTypeOK, Unannounced
<1>3. ~old.joined /\ old.twice = {} /\ old.seen = {} /\ ~old.blind /\ old.blind \in BOOLEAN
  BY <1>0 DEF ClosingInv, ClientState
<1>4. ASSUME NEW state \in ClientState, state \in {read, failed}
      PROVE  SnapshotInv(state) /\ ClosingInv(state)
  <2>1. /\ state.step = "read" /\ state.kind = old.kind /\ ~state.joined
        /\ state.beating = old.beating /\ state.emitted = old.emitted
        /\ state.early = old.early /\ state.twice = {} /\ state.top = logged
        /\ state.pending = Unannounced
        /\ state.seen = IF state.blind THEN {}
                        ELSE {n \in 1 .. logged : n > logged - SnapshotSize}
    <3>1. CASE state = read
      BY <3>1, <1>0, <1>3 DEF ClientState
    <3>2. CASE state = failed
      BY <3>2, <1>0, <1>3 DEF ClientState
    <3> QED
      BY <3>1, <3>2, <1>4
  <2>2. ClosingInv(state)
    BY <1>0, <2>1 DEF ClosingInv
  <2>3. \A n \in said : ~(n > logged) /\ n \notin Unannounced
    BY <1>0, SnapshotAssumption DEF RecordsInv, StreamTypeOK, Unannounced
  <2>4. \A s \in AuditSlot : unsaid[s] # NoRecord => unsaid[s] \in Unannounced
    BY DEF Unannounced
  <2>5. logged \in Nat
    BY <1>0, SnapshotAssumption DEF StreamTypeOK
  <2> HIDE DEF old
  <2> QED
    BY <2>1, <2>2, <2>3, <2>4, <2>5 DEF SnapshotInv
<1>5. read \in ClientState /\ failed \in ClientState
  BY <1>0, <1>1, <1>2 DEF ClientState, StreamTypeOK
<1>6. PICK state \in {read, failed} : Change(c, state)
  BY DEF ReadSnapshot, SnapshotFails
<1>7. state \in ClientState
  BY <1>5
<1>8. SnapshotInv(state) /\ ClosingInv(state)
  BY <1>4, <1>7
<1>9. UNCHANGED <<logged, unsaid, said, streaming>>
  BY DEF ReadSnapshot, SnapshotFails
<1> QED
  BY <1>6, <1>7, <1>8, <1>9, OneClientChanges

(* The client joins, with the snapshot it read.                                *)
LEMMA JoinKeeps ==
  ASSUME StreamInv, NEW c \in Client, Join(c) PROVE StreamInv'
<1> DEFINE old == client[c]
           state == Joined(old)
<1>0. /\ StreamTypeOK /\ RecordsInv /\ old \in ClientState
      /\ ClosingInv(old) /\ SnapshotInv(old)
      /\ old.step \in {"read", "importing"}
  BY DEF StreamInv, StreamTypeOK, Join
<1>1. state \in ClientState
  BY <1>0 DEF ClientState, Joined
<1>2. /\ state.step = "open" /\ state.kind = old.kind /\ state.joined = TRUE
      /\ state.emitted = old.emitted /\ state.early = old.early
      /\ state.twice = old.twice /\ state.top = old.top /\ state.seen = old.seen
      /\ state.pending = old.pending /\ state.once = old.seen /\ state.missed = old.missed
      /\ state.blind = old.blind
  BY <1>0 DEF ClientState, Joined
<1>3. ClosingInv(state)
  BY <1>0, <1>2 DEF ClosingInv
<1>4. SnapshotInv(state)
  <2>1. SUFFICES ASSUME old.kind = "audit" PROVE SnapshotInv(state)
    BY <1>2 DEF SnapshotInv
  <2>2. old.step = "read"
    BY <2>1, <1>0 DEF ClosingInv
  <2>3. \A n \in said : Due(old, n) => n \in old.seen \/ n \in old.missed
    <3>1. \A n \in said : n \in Nat /\ n >= 1
      BY <1>0 DEF StreamTypeOK, Logged
    <3>2. old.top \in Nat
      BY <1>0 DEF ClientState
    <3> QED
      BY <3>1, <3>2, <2>1, <2>2, <1>0, SnapshotAssumption DEF SnapshotInv, Due
  <2>4. \A n : Due(state, n) <=> Due(old, n)
    BY <1>2 DEF Due
  <2> HIDE DEF state, old
  <2> QED
    BY <2>1, <2>2, <2>3, <2>4, <1>0, <1>2 DEF SnapshotInv
<1>5. Change(c, state) /\ UNCHANGED <<logged, unsaid, said, streaming>>
  BY DEF Join
<1> QED
  BY <1>1, <1>3, <1>4, <1>5, OneClientChanges

(* The socket closes; or the closing is emitted, and heard by a joined client. *)
LEMMA ClosingKeeps ==
  ASSUME StreamInv, NEW c \in Client, SocketCloses(c) \/ CloseEvent(c) PROVE StreamInv'
<1> DEFINE old == client[c]
<1>0. old \in ClientState /\ ClosingInv(old) /\ SnapshotInv(old)
  BY DEF StreamInv, StreamTypeOK
<1>1. CASE SocketCloses(c)
  <2> DEFINE state == [old EXCEPT !.closed = TRUE]
  <2>1. state \in ClientState /\ ClosingInv(state)
    BY <1>0, <1>1 DEF SocketCloses, ClientState, ClosingInv
  <2>2. SnapshotInv(state)
    <3>1. /\ state.kind = old.kind /\ state.step = old.step /\ state.top = old.top
          /\ state.seen = old.seen /\ state.blind = old.blind /\ state.pending = old.pending
          /\ state.missed = old.missed /\ state.twice = old.twice /\ state.once = old.once
          /\ state.joined = old.joined
      BY <1>0 DEF ClientState
    <3>2. \A n : Due(state, n) <=> Due(old, n)
      BY <3>1 DEF Due
    <3> HIDE DEF state, old
    <3> QED
      BY <1>0, <3>1, <3>2 DEF SnapshotInv
  <2> QED
    BY <2>1, <2>2, <1>1, OneClientChanges DEF SocketCloses
<1>2. CASE CloseEvent(c)
  <2> DEFINE state == [old EXCEPT !.emitted = TRUE, !.joined = FALSE, !.beating = FALSE,
                                  !.early = old.step # "open"]
  <2>1. old.step # "none"
    BY <1>0, <1>2 DEF CloseEvent, ClosingInv, Absent
  <2>2. state \in ClientState /\ ClosingInv(state)
    BY <1>0, <2>1 DEF ClientState, ClosingInv
  <2>3. SnapshotInv(state)
    BY <1>0 DEF ClientState, SnapshotInv
  <2> QED
    BY <2>2, <2>3, <1>2, OneClientChanges DEF CloseEvent
<1> QED
  BY <1>1, <1>2

(* The clients that have joined are ended.                                     *)
LEMMA StreamShutdownKeeps ==
  ASSUME StreamInv, StreamShutdown PROVE StreamInv'
<1>1. ASSUME NEW c \in Client
      PROVE  client'[c] \in ClientState /\ SnapshotInv(client'[c]) /\ ClosingInv(client'[c])
  <2> DEFINE old == client[c]
  <2>0. old \in ClientState /\ SnapshotInv(old) /\ ClosingInv(old)
    BY DEF StreamInv, StreamTypeOK
  <2>1. CASE old.joined /\ old.kind # "live"
    <3>1. client'[c] = [old EXCEPT !.joined = FALSE, !.closed = TRUE]
      BY <2>1 DEF StreamShutdown
    <3>2. old.step # "none"
      BY <2>0, <2>1 DEF ClosingInv, Absent
    <3> QED
      BY <2>0, <3>1, <3>2 DEF ClientState, SnapshotInv, ClosingInv
  <2>2. CASE ~(old.joined /\ old.kind # "live")
    BY <2>0, <2>2 DEF StreamShutdown
  <2> QED
    BY <2>1, <2>2
<1>2. client' \in [Client -> ClientState]
  BY <1>1 DEF StreamShutdown
<1>3. StreamTypeOK' /\ RecordsInv'
  BY <1>2 DEF StreamShutdown, StreamInv, StreamTypeOK, RecordsInv
<1>4. \A c \in Client : SnapshotInv(client[c])' /\ ClosingInv(client[c])'
  BY <1>1 DEF StreamShutdown, SnapshotInv, ClosingInv
<1> QED
  BY <1>3, <1>4 DEF StreamInv

(* No step of the streams breaks the invariant.                                *)
LEMMA StreamInductive == StreamInv /\ [StreamNext]_streamVars => StreamInv'
<1> SUFFICES ASSUME StreamInv, [StreamNext]_streamVars PROVE StreamInv'
  OBVIOUS
<1>1. CASE UNCHANGED streamVars
  BY <1>1 DEF streamVars, StreamInv, StreamTypeOK, RecordsInv, SnapshotInv, ClosingInv
<1>2. CASE \E s \in AuditSlot : AppendRecord(s) \/ Announce(s)
  BY <1>2, AppendRecordKeeps, AnnounceKeeps
<1>3. CASE AppendElsewhere
  <2>1. \A s \in AuditSlot : unsaid[s] # logged + 1
    BY SnapshotAssumption DEF StreamInv, RecordsInv, StreamTypeOK, NoRecord, Logged
  <2> QED
    BY <1>3, <2>1, FileGrows DEF AppendElsewhere, StreamInv, StreamTypeOK
<1>4. CASE \E c \in Client : \/ \E kind \in {"audit", "breach", "live"} : Connect(c, kind)
                             \/ ReadSnapshot(c) \/ SnapshotFails(c)
                             \/ Join(c) \/ SocketCloses(c) \/ CloseEvent(c)
  BY <1>4, ConnectKeeps, SnapshotKeeps, JoinKeeps, ClosingKeeps
<1>5. CASE StreamShutdown
  BY <1>5, StreamShutdownKeeps
<1> QED
  BY <1>1, <1>2, <1>3, <1>4, <1>5 DEF StreamNext

(* The invariant holds of the streams, for any number of clients and records.  *)
LEMMA StreamInvariant == StreamSpec => []StreamInv
BY StreamInitially, StreamInductive, PTL DEF StreamSpec

(* The variables of the streams have their types.                              *)
THEOREM StreamTypes == StreamSpec => []StreamTypeOK
<1>1. StreamInv => StreamTypeOK
  BY DEF StreamInv
<1> QED
  BY <1>1, StreamInvariant, PTL

(* A client of the audit stream has every record announced, as far back as its *)
(* snapshot goes, and all later ones when that could not be read, but for      *)
(* those announced between its reading and its joining; and twice only those   *)
(* that were in the snapshot and not yet announced.                            *)
THEOREM StreamDelivers == StreamSpec => []DeliveredOnce
<1>1. StreamInv => DeliveredOnce
  <2> SUFFICES ASSUME StreamInv, NEW c \in Client, Listening(c)
               PROVE  /\ \A n \in said : Due(client[c], n) =>
                           \/ n \in client[c].once
                           \/ n \in client[c].missed /\ n \notin client[c].seen
                      /\ client[c].twice \subseteq client[c].pending \cap client[c].seen
    BY DEF DeliveredOnce
  <2>1. client[c] \in ClientState /\ SnapshotInv(client[c]) /\ ClosingInv(client[c])
    BY DEF StreamInv, StreamTypeOK
  <2>2. client[c].step \in {"read", "open"}
    BY <2>1 DEF Listening, ClosingInv, Absent, ClientState
  <2> QED
    BY <2>1, <2>2 DEF SnapshotInv, Listening
<1> QED
  BY <1>1, StreamInvariant, PTL

(* A closed connection leaves an entry or an interval behind only if it closed *)
(* before the client had joined.                                               *)
THEOREM ClosedMeansGone == StreamSpec => []LeftoversNeedEarlyClose
<1>1. StreamInv => LeftoversNeedEarlyClose
  BY DEF StreamInv, StreamTypeOK, ClientState, ClosingInv, LeftoversNeedEarlyClose
<1> QED
  BY <1>1, StreamInvariant, PTL

-----------------------------------------------------------------------------
(* DashboardPage: the list of the audit tab.  It is told from the seconds of   *)
(* the records: a place of the answer belongs to a second, whichever record of *)
(* that second the query puts there.                                           *)

FoundIn(r, q) == {k \in 1 .. Len(r) : q = "all" \/ (q = "some" /\ k % 2 = 1)}

\* Of the records found in r, those of a second, and those of later ones.
Group(r, q, s) == {k \in FoundIn(r, q) : r[k] = s}
Above(r, q, s) == {k \in FoundIn(r, q) : r[k] > s}

\* The entries of the list e that are of a second.
Listed(r, e, s) == {i \in DOMAIN e : r[e[i]] = s}

\* The list has as many entries of the second as there are records; it has at
\* least one for each place of that second that it has come to.
Passed(r, q, e, s) == Cardinality(Group(r, q, s)) <= Cardinality(Listed(r, e, s))
Reached(r, q, e, s) ==
  Passed(r, q, e, s) \/ Len(e) <= Cardinality(Above(r, q, s)) + Cardinality(Listed(r, e, s))

ListInv(r, q, e, all) ==
  /\ \A i \in DOMAIN e : e[i] \in FoundIn(r, q)
  /\ e # <<>> =>
       \A s \in Nat : s < r[e[1]] =>
         /\ Reached(r, q, e, s)
         /\ all \/ r[e[Len(e)]] < s => Passed(r, q, e, s)

\* What is being loaded.
LoadInv ==
  /\ audit.offset = Len(audit.entries)
  /\ Loading => audit.request.offset = audit.offset
  /\ Loading /\ ~audit.request.append => audit.entries = <<>>
  /\ ~Loading => answer = NoAnswer

\* The list is one of the records there are, and will be with the answer.
AuditInv ==
  ~dropped =>
    /\ Loading => audit.request.q = audit.q /\ ~audit.allLoaded
    /\ ListInv(rows, audit.q, audit.entries, audit.allLoaded)
    /\ answer # NoAnswer =>
         ListInv(rows, audit.q, audit.entries \o answer, Len(answer) < PageSize)

\* The seconds of the records.
RowsInv == \A j, k \in Records : j <= k => rows[j] <= rows[k]

\* E is what a poll can be answered when there are n records.
IsLatest(r, E, n) ==
  /\ E \subseteq 1 .. n /\ Cardinality(E) <= LiveSize
  /\ \A k \in 1 .. n : k \notin E => Cardinality(E) = LiveSize /\ \A j \in E : r[k] <= r[j]

\* Every answer was one; without an overtaken one, the entries shown were counted
\* when no fewer records were there than at any time before.
LiveInv ==
  /\ liveTop <= Len(rows)
  /\ \A p \in Poll : poll[p].step = "answered" =>
       poll[p].top <= Len(rows) /\ IsLatest(rows, poll[p].entries, poll[p].top)
  /\ ~reordered =>
       /\ IsLatest(rows, live, liveTop)
       /\ live \subseteq counted /\ counted \subseteq 1 .. liveTop
       /\ \A k \in recounted : \E other \in counted : other # k /\ rows[other] = rows[k]

PageInv == PageTypeOK /\ RowsInv /\ LoadInv /\ AuditInv /\ LiveInv

(* Sets of records are finite.                                                 *)
LEMMA RecordSets ==
  ASSUME NEW r \in Seq(Nat), NEW q, NEW s \in Nat
  PROVE  /\ Len(r) \in Nat /\ FoundIn(r, q) \subseteq 1 .. Len(r)
         /\ \A k \in FoundIn(r, q) : r[k] \in Nat
         /\ IsFiniteSet(FoundIn(r, q))
         /\ IsFiniteSet(Group(r, q, s)) /\ Cardinality(Group(r, q, s)) \in Nat
         /\ IsFiniteSet(Above(r, q, s)) /\ Cardinality(Above(r, q, s)) \in Nat
         /\ Cardinality(Above(r, q, s)) + Cardinality(Group(r, q, s)) <= Cardinality(FoundIn(r, q))
         /\ Cardinality({k \in FoundIn(r, q) : r[k] >= s})
              = Cardinality(Above(r, q, s)) + Cardinality(Group(r, q, s))
<1> DEFINE F == FoundIn(r, q)
           A == Above(r, q, s)
           G == Group(r, q, s)
<1>1. Len(r) \in Nat /\ F \subseteq 1 .. Len(r) /\ \A k \in 1 .. Len(r) : r[k] \in Nat
  BY LenProperties, ElementOfSeq DEF FoundIn
<1>2. IsFiniteSet(1 .. Len(r))
  BY <1>1, FS_Interval
<1>3. IsFiniteSet(F) /\ Cardinality(F) \in Nat
  BY <1>1, <1>2, FS_Subset, FS_CardinalityType
<1>4. /\ IsFiniteSet(A) /\ Cardinality(A) \in Nat
      /\ IsFiniteSet(G) /\ Cardinality(G) \in Nat
  <2>1. A \in SUBSET F /\ G \in SUBSET F
    BY DEF Above, Group
  <2> HIDE DEF A, G, F
  <2> QED
    BY <1>3, <2>1, FS_Subset, FS_CardinalityType
<1>5. A \cap G = {} /\ A \cup G = {k \in F : r[k] >= s}
  <2>1. \A k \in F : r[k] \in Nat
    BY <1>1
  <2> QED
    BY <2>1 DEF Above, Group
<1> HIDE DEF A, G, F
<1>6. Cardinality(A \cup G) = Cardinality(A) + Cardinality(G)
  <2>1. Cardinality(A \cup G) = Cardinality(A) + Cardinality(G) - Cardinality(A \cap G)
    BY <1>4, FS_Union
  <2>2. Cardinality(A \cap G) = 0
    BY <1>5, FS_EmptySet
  <2> QED
    BY <1>4, <2>1, <2>2
<1>7. Cardinality(A \cup G) <= Cardinality(F)
  <2>1. A \cup G \in SUBSET F
    BY <1>5
  <2> QED
    BY <1>3, <2>1, FS_Subset
<1> QED
  BY <1>1, <1>3, <1>4, <1>5, <1>6, <1>7 DEF F, A, G

(* A place of an answer belongs to a second.                                   *)
LEMMA PlaceOfSecond ==
  ASSUME rows \in Seq(Nat), NEW found \in SUBSET Records, NEW k \in found,
         NEW place \in Places(found, k), NEW s \in Nat
  PROVE  LET above == Cardinality({j \in found : rows[j] > s})
             with == Cardinality({j \in found : rows[j] >= s})
         IN  /\ rows[k] = s <=> above < place /\ place <= with
             /\ rows[k] > s <=> place <= above
             /\ rows[k] < s <=> place > with
<1> DEFINE A == {j \in found : rows[j] > s}
           W == {j \in found : rows[j] >= s}
<1>1. Len(rows) \in Nat /\ \A j \in found : rows[j] \in Nat
  BY LenProperties, ElementOfSeq DEF Records
<1>2. IsFiniteSet(found)
  <2>1. IsFiniteSet(1 .. Len(rows))
    BY <1>1, FS_Interval
  <2> QED
    BY <2>1, FS_Subset DEF Records
<1>3. \A S \in SUBSET found : IsFiniteSet(S) /\ Cardinality(S) \in Nat
  BY <1>2, FS_Subset, FS_CardinalityType
<1>4. \A S, T \in SUBSET found : S \subseteq T => Cardinality(S) <= Cardinality(T)
  <2> SUFFICES ASSUME NEW S \in SUBSET found, NEW T \in SUBSET found, S \subseteq T
               PROVE  Cardinality(S) <= Cardinality(T)
    OBVIOUS
  <2> QED
    BY <1>3, FS_Subset
<1>5. /\ A \in SUBSET found /\ W \in SUBSET found /\ A \subseteq W
      /\ Later(found, k) \in SUBSET found /\ NotEarlier(found, k) \in SUBSET found
  BY <1>1 DEF Later, NotEarlier
<1>6. /\ Cardinality(Later(found, k)) < place /\ place <= Cardinality(NotEarlier(found, k))
      /\ place \in Int
  BY <1>3, <1>5 DEF Places
<1>7. CASE rows[k] = s
  <2>1. Later(found, k) = A /\ NotEarlier(found, k) = W
    BY <1>7 DEF Later, NotEarlier
  <2> HIDE DEF A, W
  <2>2. Cardinality(A) < place /\ place <= Cardinality(W)
    BY <1>6, <2>1
  <2> QED
    BY <1>1, <1>3, <1>5, <1>6, <1>7, <2>2 DEF A, W
<1>8. CASE rows[k] > s
  <2>1. NotEarlier(found, k) \subseteq A
    BY <1>1, <1>8 DEF NotEarlier
  <2> HIDE DEF A, W
  <2>2. Cardinality(NotEarlier(found, k)) <= Cardinality(A) /\ Cardinality(A) <= Cardinality(W)
    BY <1>4, <1>5, <2>1
  <2>3. Cardinality(A) \in Nat /\ Cardinality(W) \in Nat /\ Cardinality(NotEarlier(found, k)) \in Nat
    BY <1>3, <1>5
  <2>4. place <= Cardinality(A) /\ place <= Cardinality(W)
    BY <1>6, <2>2, <2>3
  <2> QED
    BY <1>1, <1>6, <1>8, <2>3, <2>4 DEF A, W
<1>9. CASE rows[k] < s
  <2>1. W \subseteq Later(found, k)
    BY <1>1, <1>9 DEF Later
  <2> HIDE DEF A, W
  <2>2. Cardinality(W) <= Cardinality(Later(found, k)) /\ Cardinality(A) <= Cardinality(W)
    BY <1>4, <1>5, <2>1
  <2>3. Cardinality(A) \in Nat /\ Cardinality(W) \in Nat /\ Cardinality(Later(found, k)) \in Nat
    BY <1>3, <1>5
  <2>4. place > Cardinality(A) /\ place > Cardinality(W)
    BY <1>6, <2>2, <2>3
  <2> QED
    BY <1>1, <1>6, <1>9, <2>3, <2>4 DEF A, W
<1> QED
  BY <1>1, <1>7, <1>8, <1>9

(* An answer has so many records, all of them found and no one twice.          *)
LEMMA PageFacts ==
  ASSUME rows \in Seq(Nat), NEW found \in SUBSET Records, NEW o \in Nat, NEW size \in Nat,
         NEW page \in Pages(found, o, size)
  PROVE  /\ IsFiniteSet(found) /\ Cardinality(found) \in Nat
         /\ page \in Seq(found) /\ Len(page) \in Nat /\ DOMAIN page = 1 .. Len(page)
         /\ Len(page) = IF Cardinality(found) < o THEN 0
                        ELSE IF Cardinality(found) - o < size THEN Cardinality(found) - o ELSE size
         /\ \A i, j \in 1 .. Len(page) : page[i] = page[j] => i = j
         /\ \A i \in 1 .. Len(page) : page[i] \in found /\ o + i \in Places(found, page[i])
<1>1. IsFiniteSet(found) /\ Cardinality(found) \in Nat
  <2>1. IsFiniteSet(1 .. Len(rows))
    BY LenProperties, FS_Interval
  <2> QED
    BY <2>1, FS_Subset, FS_CardinalityType DEF Records
<1> DEFINE rest == Cardinality(found) - o
           length == IF rest < 0 THEN 0 ELSE IF rest < size THEN rest ELSE size
<1>2. length \in Nat
  BY <1>1
<1>3. /\ page \in [1 .. length -> found]
      /\ \A i, j \in 1 .. length : page[i] = page[j] => i = j
      /\ \A i \in 1 .. length : o + i \in Places(found, page[i])
  BY DEF Pages
<1>4. length = IF Cardinality(found) < o THEN 0
               ELSE IF Cardinality(found) - o < size THEN Cardinality(found) - o ELSE size
  BY <1>1
<1> HIDE DEF length
<1>5. page \in Seq(found) /\ Len(page) = length
  BY <1>2, <1>3, SeqDef, LenProperties
<1> QED
  BY <1>1, <1>2, <1>3, <1>4, <1>5

(* More records, written since: a list stays one.                              *)
LEMMA ListGrows ==
  ASSUME NEW r \in Seq(Nat), NEW q, NEW e \in Seq(Nat), NEW all, ListInv(r, q, e, all),
         NEW x \in Nat, \A k \in 1 .. Len(r) : r[k] <= x
  PROVE  ListInv(Append(r, x), q, e, all)
<1> DEFINE next == Append(r, x)
           n == Len(r)
<1>1. /\ next \in Seq(Nat) /\ Len(next) = n + 1 /\ n \in Nat
      /\ \A k \in 1 .. n : next[k] = r[k] /\ r[k] \in Nat
      /\ next[n + 1] = x
  BY AppendProperties, LenProperties, ElementOfSeq
<1> HIDE DEF next
<1>2. /\ FoundIn(r, q) \subseteq FoundIn(next, q) /\ FoundIn(r, q) \subseteq 1 .. n
      /\ \A k \in FoundIn(next, q) : k \in FoundIn(r, q) \/ k = n + 1
  BY <1>1 DEF FoundIn
<1>3. DOMAIN e = 1 .. Len(e) /\ Len(e) \in Nat
  BY LenProperties
<1>4. \A i \in DOMAIN e : e[i] \in FoundIn(r, q) /\ next[e[i]] = r[e[i]] /\ r[e[i]] \in Nat
  BY <1>1, <1>2 DEF ListInv
<1>5. ASSUME e # <<>>, NEW s \in Nat, s < next[e[1]]
      PROVE  /\ Reached(next, q, e, s)
             /\ all \/ next[e[Len(e)]] < s => Passed(next, q, e, s)
  <2>1. 1 \in DOMAIN e /\ Len(e) \in DOMAIN e
    <3>1. Len(e) # 0
      BY <1>3, <1>5, EmptySeq
    <3> QED
      BY <1>3, <3>1
  <2>2. s < r[e[1]] /\ r[e[1]] <= x /\ next[e[Len(e)]] = r[e[Len(e)]]
    <3>1. e[1] \in 1 .. n
      BY <1>2, <1>4, <2>1
    <3> QED
      BY <1>1, <1>4, <1>5, <2>1, <3>1
  <2>3. s < x /\ r[e[1]] \in Nat
    BY <1>4, <2>1, <2>2
  <2>4. Group(next, q, s) = Group(r, q, s)
    <3>1. \A k \in FoundIn(next, q) : next[k] = s => k \in FoundIn(r, q) /\ r[k] = s
      BY <1>1, <1>2, <2>3
    <3>2. \A k \in FoundIn(r, q) : r[k] = s => k \in FoundIn(next, q) /\ next[k] = s
      BY <1>1, <1>2
    <3> QED
      BY <3>1, <3>2 DEF Group
  <2>5. Above(r, q, s) \subseteq Above(next, q, s)
    BY <1>1, <1>2 DEF Above
  <2>6. Listed(next, e, s) = Listed(r, e, s)
    BY <1>4 DEF Listed
  <2>7. /\ Cardinality(Above(r, q, s)) \in Nat /\ Cardinality(Above(next, q, s)) \in Nat
        /\ Cardinality(Above(r, q, s)) <= Cardinality(Above(next, q, s))
    <3>1. IsFiniteSet(Above(next, q, s)) /\ Cardinality(Above(next, q, s)) \in Nat
      BY <1>1, RecordSets
    <3> QED
      BY <2>5, <3>1, FS_Subset, RecordSets
  <2>8. IsFiniteSet(Listed(r, e, s)) /\ Cardinality(Listed(r, e, s)) \in Nat
    <3>1. Listed(r, e, s) \in SUBSET (1 .. Len(e)) /\ IsFiniteSet(1 .. Len(e))
      BY <1>3, FS_Interval DEF Listed
    <3> QED
      BY <3>1, FS_Subset, FS_CardinalityType
  <2>9. Reached(r, q, e, s) /\ (all \/ r[e[Len(e)]] < s => Passed(r, q, e, s))
    BY <1>5, <2>2 DEF ListInv
  <2>10. Passed(next, q, e, s) <=> Passed(r, q, e, s)
    BY <2>4, <2>6 DEF Passed
  <2>11. Reached(next, q, e, s)
    BY <1>3, <2>6, <2>7, <2>8, <2>9, <2>10 DEF Reached
  <2> QED
    BY <2>2, <2>9, <2>10, <2>11
<1>6. \A i \in DOMAIN e : e[i] \in FoundIn(next, q)
  BY <1>2, <1>4
<1> QED
  BY <1>5, <1>6 DEF ListInv, next

\* Of the entries of a page from the offset o on, those at places between a and b.
Between(o, l, a, b) == {i \in 1 .. l : a < o + i /\ o + i <= b}

(* How many these are.                                                         *)
LEMMA PlacesBetween ==
  ASSUME NEW o \in Nat, NEW l \in Nat, NEW a \in Nat, NEW b \in Nat
  PROVE  LET m == Cardinality(Between(o, l, a, b))
         IN  /\ a <= b /\ b <= o + l /\ o <= a => m = b - a
             /\ b <= o + l /\ a <= o /\ o <= b => m = b - o
             /\ o + l <= b /\ o <= a /\ a <= o + l => m = o + l - a
             /\ o + l <= b /\ a <= o => m = l
<1> DEFINE between == {i \in 1 .. l : a < o + i /\ o + i <= b}
           from == IF o <= a THEN a - o + 1 ELSE 1
           upto == IF o + l <= b THEN l ELSE b - o
<1>1. from \in Int /\ upto \in Int
  OBVIOUS
<1>2. between = from .. upto
  OBVIOUS
<1>3. /\ IsFiniteSet(between)
      /\ Cardinality(between) = IF from > upto THEN 0 ELSE upto - from + 1
  <2> HIDE DEF from, upto, between
  <2> QED
    BY <1>1, <1>2, FS_Interval
<1> HIDE DEF between
<1> QED
  BY <1>3 DEF between, Between

(* A list with the next page is a list.                                        *)
LEMMA NextPageListed ==
  ASSUME rows \in Seq(Nat), NEW q \in Search, NEW e \in Seq(Nat), ListInv(rows, q, e, FALSE),
         NEW page \in Pages(FoundBy(q), Len(e), PageSize)
  PROVE  ListInv(rows, q, e \o page, Len(page) < PageSize)
<1> DEFINE F == FoundIn(rows, q)
           o == Len(e)
           l == Len(page)
           both == e \o page
<1>1. FoundBy(q) = F /\ F \in SUBSET Records
  BY DEF FoundBy, FoundIn, Records
<1>2. o \in Nat /\ e \in [1 .. o -> Nat] /\ DOMAIN e = 1 .. o /\ PageSize \in Nat \ {0}
  BY LenProperties, PageAssumption
<1>3. /\ Cardinality(F) \in Nat
      /\ page \in Seq(F) /\ l \in Nat /\ DOMAIN page = 1 .. l
      /\ l < PageSize => o + l >= Cardinality(F)
      /\ \A i \in 1 .. l : page[i] \in F /\ o + i \in Places(F, page[i])
  <2>1. /\ Cardinality(F) \in Nat
        /\ page \in Seq(F) /\ Len(page) \in Nat /\ DOMAIN page = 1 .. Len(page)
        /\ Len(page) = IF Cardinality(F) < Len(e) THEN 0
                       ELSE IF Cardinality(F) - Len(e) < PageSize THEN Cardinality(F) - Len(e)
                       ELSE PageSize
        /\ \A i \in 1 .. Len(page) : page[i] \in F /\ Len(e) + i \in Places(F, page[i])
    <3>1. page \in Pages(F, Len(e), PageSize)
      BY <1>1
    <3>2. Len(e) \in Nat /\ PageSize \in Nat /\ F \in SUBSET Records /\ rows \in Seq(Nat)
      BY <1>1, <1>2
    <3> HIDE DEF F
    <3>3. /\ IsFiniteSet(F) /\ Cardinality(F) \in Nat
          /\ page \in Seq(F) /\ Len(page) \in Nat /\ DOMAIN page = 1 .. Len(page)
          /\ Len(page) = IF Cardinality(F) < Len(e) THEN 0
                         ELSE IF Cardinality(F) - Len(e) < PageSize THEN Cardinality(F) - Len(e)
                         ELSE PageSize
          /\ \A i, j \in 1 .. Len(page) : page[i] = page[j] => i = j
          /\ \A i \in 1 .. Len(page) : page[i] \in F /\ Len(e) + i \in Places(F, page[i])
      BY <3>1, <3>2, PageFacts, Zenon
    <3> QED
      BY <3>3
  <2> HIDE DEF F
  <2> QED
    BY <1>2, <2>1
<1>4. F \subseteq Nat /\ \A k \in F : rows[k] \in Nat
  BY RecordSets DEF FoundIn
<1> HIDE DEF F
<1>5. /\ both \in Seq(Nat) /\ Len(both) = o + l /\ DOMAIN both = 1 .. o + l
      /\ \A i \in 1 .. o : both[i] = e[i]
      /\ \A i \in 1 .. l : both[o + i] = page[i]
  <2>1. page \in Seq(Nat)
    BY <1>3, <1>4, SeqMonotonic
  <2>2. /\ both \in Seq(Nat) /\ Len(both) = o + l
        /\ \A i \in 1 .. o + l : both[i] = IF i <= o THEN e[i] ELSE page[i - o]
    BY <2>1, ConcatProperties
  <2> HIDE DEF both, o, l
  <2>3. \A i \in 1 .. l : o + i \in 1 .. o + l /\ ~(o + i <= o) /\ o + i - o = i
    BY <1>2, <1>3
  <2>4. \A i \in 1 .. o : i \in 1 .. o + l /\ i <= o
    BY <1>2, <1>3
  <2>5. DOMAIN both = 1 .. o + l
    BY <2>2, LenProperties
  <2>6. \A i \in 1 .. o : both[i] = e[i]
    BY <2>2, <2>4
  <2>7. \A i \in 1 .. l : both[o + i] = page[i]
    BY <1>2, <1>3, <2>2, <2>3
  <2> QED
    BY <2>2, <2>5, <2>6, <2>7
<1>6. \A i \in DOMAIN both : both[i] \in F
  <2>1. \A i \in DOMAIN e : e[i] \in F
    BY DEF ListInv, F
  <2>2. \A i \in 1 .. o + l : i \in 1 .. o \/ \E j \in 1 .. l : i = o + j
    <3>1. \A i \in 1 .. o + l : i \in 1 .. o \/ (i - o \in 1 .. l /\ i = o + (i - o))
      BY <1>2, <1>3
    <3> QED
      BY <3>1
  <2>3. \A i \in 1 .. o : e[i] \in F
    BY <1>2, <2>1
  <2> HIDE DEF both, o, l
  <2>4. \A i \in 1 .. o : both[i] \in F
    BY <1>5, <2>3
  <2>5. \A j \in 1 .. l : both[o + j] \in F
    BY <1>3, <1>5
  <2> QED
    BY <1>5, <2>2, <2>4, <2>5
<1>7. ASSUME both # <<>>, NEW s \in Nat, s < rows[both[1]]
      PROVE  /\ Reached(rows, q, both, s)
             /\ l < PageSize \/ rows[both[Len(both)]] < s => Passed(rows, q, both, s)
  <2> DEFINE a == Cardinality(Above(rows, q, s))
             g == Cardinality(Group(rows, q, s))
             between == {i \in 1 .. l : a < o + i /\ o + i <= a + g}
             old == Listed(rows, e, s)
             new == Listed(rows, both, s)
             c == Cardinality(old)
             d == Cardinality(new)
             m == Cardinality(between)
  <2>1. a \in Nat /\ g \in Nat /\ a + g <= Cardinality(F)
    BY RecordSets DEF F
  <2>2. \A i \in 1 .. l : /\ rows[page[i]] = s <=> a < o + i /\ o + i <= a + g
                          /\ rows[page[i]] < s => o + i > a + g
    <3>1. /\ Above(rows, q, s) = {j \in F : rows[j] > s}
          /\ Cardinality({j \in F : rows[j] >= s}) = a + g
      BY RecordSets DEF Above, F
    <3> HIDE DEF o, l
    <3>2. SUFFICES ASSUME NEW i \in 1 .. l
                   PROVE  /\ rows[page[i]] = s <=> a < o + i /\ o + i <= a + g
                          /\ rows[page[i]] < s => o + i > a + g
      OBVIOUS
    <3>3. page[i] \in F /\ o + i \in Places(F, page[i])
      BY <1>3
    <3>4. LET above == Cardinality({j \in F : rows[j] > s})
              with == Cardinality({j \in F : rows[j] >= s})
          IN  /\ rows[page[i]] = s <=> above < o + i /\ o + i <= with
              /\ rows[page[i]] > s <=> o + i <= above
              /\ rows[page[i]] < s <=> o + i > with
      BY <1>1, <3>3, PlaceOfSecond
    <3> QED
      BY <3>1, <3>4
  <2>3. /\ IsFiniteSet(old) /\ c \in Nat /\ old \subseteq 1 .. o
        /\ IsFiniteSet(between) /\ m \in Nat
    <3>1. old \in SUBSET (1 .. o) /\ IsFiniteSet(1 .. o)
      BY <1>2, FS_Interval DEF Listed
    <3>2. IsFiniteSet(old) /\ c \in Nat
      <4> HIDE DEF old
      <4> QED
        BY <3>1, FS_Subset, FS_CardinalityType
    <3>3. IsFiniteSet(between) /\ m \in Nat
      <4>1. between \in SUBSET (1 .. l) /\ IsFiniteSet(1 .. l)
        BY <1>3, FS_Interval
      <4> HIDE DEF between
      <4> QED
        BY <4>1, FS_Subset, FS_CardinalityType
    <3> QED
      BY <3>1, <3>2, <3>3
  <2>4. d = c + m /\ d \in Nat
    <3> DEFINE shifted == {o + i : i \in between}
    <3>1. new = old \cup shifted
      <4>1. ASSUME NEW i \in 1 .. o + l
            PROVE  i \in new <=> i \in old \/ i \in shifted
        <5>1. CASE i \in 1 .. o
          <6>1. both[i] = e[i]
            BY <1>5, <5>1
          <6>2. i \notin shifted
            BY <1>2, <1>3, <5>1
          <6> QED
            BY <1>2, <1>5, <4>1, <5>1, <6>1, <6>2 DEF Listed
        <5>2. CASE i \notin 1 .. o
          <6>1. PICK j \in 1 .. l : i = o + j
            <7>1. i - o \in 1 .. l /\ i = o + (i - o)
              BY <1>2, <1>3, <4>1, <5>2
            <7> QED
              BY <7>1
          <6>2. both[i] = page[j] /\ i \notin old
            BY <1>5, <2>3, <5>2, <6>1
          <6>3. i \in shifted <=> j \in between
            <7>1. \A k \in 1 .. l : o + k = o + j => k = j
              BY <1>2, <1>3
            <7> QED
              BY <6>1, <7>1
          <6>4. j \in between <=> rows[page[j]] = s
            BY <2>2
          <6>5. i \in new <=> rows[both[i]] = s
            BY <1>5, <4>1 DEF Listed
          <6> QED
            BY <6>2, <6>3, <6>4, <6>5
        <5> QED
          BY <5>1, <5>2
      <4>2. new \subseteq 1 .. o + l /\ old \subseteq 1 .. o + l /\ shifted \subseteq 1 .. o + l
        <5>1. new \subseteq 1 .. o + l
          BY <1>5 DEF Listed
        <5>2. 1 .. o \subseteq 1 .. o + l
          BY <1>2, <1>3
        <5>3. \A i \in 1 .. l : o + i \in 1 .. o + l
          BY <1>2, <1>3
        <5> QED
          BY <2>3, <5>1, <5>2, <5>3
      <4> HIDE DEF new, old, shifted
      <4> QED
        BY <4>1, <4>2
    <3>2. IsFiniteSet(shifted) /\ Cardinality(shifted) = m
      <4> DEFINE f == [i \in between |-> o + i]
      <4>1. f \in Bijection(between, shifted)
        <5>1. between \subseteq Int
          OBVIOUS
        <5> HIDE DEF between
        <5>2. f \in [between -> shifted]
          OBVIOUS
        <5>3. \A i, j \in between : f[i] = f[j] => i = j
          BY <1>2, <5>1
        <5>4. \A k \in shifted : \E i \in between : f[i] = k
          OBVIOUS
        <5> QED
          BY <5>2, <5>3, <5>4, Fun_IsBij
      <4> HIDE DEF f, shifted, between
      <4>2. ExistsBijection(between, shifted)
        BY <4>1 DEF ExistsBijection
      <4> QED
        BY <2>3, <4>2, FS_Bijection
    <3>3. old \cap shifted = {}
      <4>1. \A i \in 1 .. l : o + i \notin 1 .. o
        BY <1>2, <1>3
      <4> HIDE DEF old
      <4> QED
        BY <2>3, <4>1
    <3> HIDE DEF new, old, shifted, between
    <3>4. Cardinality(old \cup shifted) = c + m - Cardinality(old \cap shifted)
      BY <2>3, <3>2, FS_Union
    <3>5. Cardinality(old \cap shifted) = 0
      BY <3>3, FS_EmptySet
    <3> QED
      BY <2>3, <3>1, <3>4, <3>5
  <2>5. Reached(rows, q, e, s)
    <3>1. CASE e = <<>>
      <4>1. o = 0
        BY <3>1
      <4> QED
        BY <2>1, <2>3, <4>1 DEF Reached
    <3>2. CASE e # <<>>
      <4>1. 1 \in 1 .. o
        BY <1>2, <3>2, EmptySeq
      <4>2. both[1] = e[1]
        BY <1>5, <4>1
      <4> QED
        BY <1>7, <3>2, <4>2 DEF ListInv
    <3> QED
      BY <3>1, <3>2
  <2>6. g <= c \/ o <= a + c
    BY <2>5 DEF Reached, Passed
  <2>7. /\ a <= a + g /\ a + g <= o + l /\ o <= a => m = (a + g) - a
        /\ a + g <= o + l /\ a <= o /\ o <= a + g => m = (a + g) - o
        /\ o + l <= a + g /\ o <= a /\ a <= o + l => m = o + l - a
        /\ o + l <= a + g /\ a <= o => m = l
    <3> DEFINE b == a + g
    <3>1. b \in Nat /\ a \in Nat /\ o \in Nat /\ l \in Nat
      BY <1>2, <1>3, <2>1
    <3>2. m = Cardinality(Between(o, l, a, b))
      BY DEF Between
    <3> HIDE DEF o, l, a, g, m, b
    <3>3. LET n == Cardinality(Between(o, l, a, b))
          IN  /\ a <= b /\ b <= o + l /\ o <= a => n = b - a
              /\ b <= o + l /\ a <= o /\ o <= b => n = b - o
              /\ o + l <= b /\ o <= a /\ a <= o + l => n = o + l - a
              /\ o + l <= b /\ a <= o => n = l
      BY <3>1, PlacesBetween
    <3>4. /\ a <= b /\ b <= o + l /\ o <= a => m = b - a
          /\ b <= o + l /\ a <= o /\ o <= b => m = b - o
          /\ o + l <= b /\ o <= a /\ a <= o + l => m = o + l - a
          /\ o + l <= b /\ a <= o => m = l
      BY <3>2, <3>3
    <3> QED
      BY <2>1, <3>1, <3>4 DEF b
  <2> HIDE DEF o, l, a, g, m, c, d, both, old, new, between
  <2>8. a + g <= o + l => g <= d
    BY <1>2, <1>3, <2>1, <2>3, <2>4, <2>6, <2>7
  <2>9. o + l < a + g => o + l <= a + d \/ g <= d
    BY <1>2, <1>3, <2>1, <2>3, <2>4, <2>6, <2>7
  <2>10. l < PageSize \/ rows[both[Len(both)]] < s => a + g <= o + l \/ g <= d
    <3>1. CASE l < PageSize
      BY <1>2, <1>3, <2>1, <3>1
    <3>2. CASE l >= PageSize /\ rows[both[Len(both)]] < s
      <4>1. l \in 1 .. l /\ both[o + l] = page[l]
        BY <1>2, <1>3, <1>5, <3>2
      <4>2. o + l > a + g
        BY <1>5, <2>2, <3>2, <4>1
      <4> QED
        BY <1>2, <1>3, <2>1, <4>2
    <3> QED
      BY <1>2, <1>3, <3>1, <3>2
  <2>11. Passed(rows, q, both, s) <=> g <= d
    BY DEF Passed, g, d, new
  <2>12. Reached(rows, q, both, s) <=> g <= d \/ o + l <= a + d
    BY <1>5, <2>11 DEF Reached, a, d, new
  <2> QED
    BY <1>2, <1>3, <2>1, <2>4, <2>8, <2>9, <2>10, <2>11, <2>12
<1> QED
  BY <1>6, <1>7 DEF ListInv, F

(* A request of a page is one.                                                 *)
LEMMA RequestIsOne == \A r \in PageRequest : r # NoRequest
<1> SUFFICES ASSUME NEW r \in PageRequest, r = NoRequest PROVE FALSE
  OBVIOUS
<1>1. "append" \in DOMAIN r
  BY DEF PageRequest
<1>2. "append" \notin DOMAIN NoRequest
  BY DEF NoRequest
<1> QED
  BY <1>1, <1>2

(* An empty list is one, whatever the records.                                 *)
LEMMA EmptyListed == \A r, q, all : ListInv(r, q, <<>>, all)
BY DEF ListInv

(* Nothing was written, asked or shown.                                        *)
LEMMA PageInitially == PageInit => PageInv
<1> SUFFICES ASSUME PageInit PROVE PageInv
  OBVIOUS
<1>1. 0 \in 0 .. MaxRows /\ 0 \in Nat /\ <<>> \in Seq(Row) /\ "" \in Search
  BY PageAssumption DEF Search
<1>2. audit \in AuditState
  BY <1>1 DEF PageInit, AuditState
<1>3. PageTypeOK
  <2>1. <<>> \in Seq(Nat) /\ Len(<<>>) <= MaxRows
    BY PageAssumption
  <2> QED
    BY <1>1, <1>2, <2>1 DEF PageInit, PageTypeOK, NoPoll
<1>4. /\ audit.request = NoRequest /\ audit.offset = 0 /\ answer = NoAnswer
      /\ audit.entries = <<>>
  BY DEF PageInit
<1>5. RowsInv
  <2>1. Len(rows) = 0
    BY DEF PageInit
  <2>2. 1 .. 0 = {}
    OBVIOUS
  <2> QED
    BY <2>1, <2>2 DEF RowsInv, Records
<1>6. LoadInv
  BY <1>4 DEF LoadInv, Loading
<1>7. AuditInv
  BY <1>4, EmptyListed DEF AuditInv, Loading
<1>8. LiveInv
  <2>1. Len(rows) = 0 /\ live = {} /\ liveTop = 0 /\ counted = {} /\ recounted = {}
    BY DEF PageInit
  <2>2. \A p \in Poll : poll[p].step # "answered"
    BY DEF PageInit, NoPoll
  <2>3. IsLatest(rows, live, liveTop)
    <3>1. Cardinality({}) = 0
      BY FS_EmptySet
    <3>2. 0 <= LiveSize
      BY PageAssumption
    <3> QED
      BY <2>1, <3>1, <3>2 DEF IsLatest
  <2> QED
    BY <2>1, <2>2, <2>3 DEF LiveInv
<1> QED
  BY <1>3, <1>5, <1>6, <1>7, <1>8 DEF PageInv

(* A step of the audit tab.                                                    *)
LEMMA AuditStep ==
  ASSUME PageInv, UNCHANGED <<rows, liveVars>>, audit' \in AuditState,
         answer' = NoAnswer \/ answer' \in Seq(Row), dropped' \in BOOLEAN, LoadInv', AuditInv'
  PROVE  PageInv'
BY DEF PageInv, PageTypeOK, RowsInv, Records, LiveInv, liveVars

(* What the variables of the audit tab are.                                    *)
LEMMA AuditTypes ==
  ASSUME PageInv
  PROVE  /\ audit \in AuditState /\ audit.entries \in Seq(Row) /\ audit.entries \in Seq(Nat)
         /\ audit.offset \in Nat /\ audit.q \in Search /\ audit.allLoaded \in BOOLEAN
         /\ answer = NoAnswer \/ answer \in Seq(Row)
         /\ rows \in Seq(Nat) /\ Len(rows) \in Nat /\ Len(rows) <= MaxRows
         /\ Records \subseteq Row /\ Row \subseteq Nat
<1>1. /\ audit \in AuditState /\ rows \in Seq(Nat) /\ Len(rows) \in Nat /\ Len(rows) <= MaxRows
      /\ answer = NoAnswer \/ answer \in Seq(Row)
  BY LenProperties DEF PageInv, PageTypeOK
<1>2. Records \subseteq Row /\ Row \subseteq Nat
  BY <1>1, PageAssumption DEF Records, Row
<1>3. /\ audit.entries \in Seq(Row) /\ audit.offset \in Nat /\ audit.q \in Search
      /\ audit.allLoaded \in BOOLEAN
  BY <1>1 DEF AuditState
<1> QED
  BY <1>1, <1>2, <1>3, SeqMonotonic

(* A record is written.                                                        *)
LEMMA WriteRowKeeps ==
  ASSUME PageInv, WriteRow PROVE PageInv'
<1> DEFINE n == Len(rows)
<1>1. /\ n < MaxRows /\ UNCHANGED <<auditVars, liveVars>>
      /\ rows \in Seq(Nat) /\ n \in Nat /\ \A k \in 1 .. n : rows[k] \in Nat
  BY LenProperties, ElementOfSeq DEF WriteRow, PageInv, PageTypeOK
<1>2. PICK x \in Nat : /\ rows' = Append(rows, x)
                       /\ \A k \in 1 .. n : rows[k] <= x
  <2> DEFINE last == IF rows = <<>> THEN 1 ELSE rows[n]
  <2>1. last \in Nat /\ \A k \in 1 .. n : rows[k] <= last
    <3>1. CASE rows = <<>>
      BY <1>1, <3>1
    <3>2. CASE rows # <<>>
      <4>1. n \in 1 .. n
        BY <1>1, <3>2, EmptySeq
      <4> QED
        BY <1>1, <3>2, <4>1 DEF PageInv, RowsInv, Records
    <3> QED
      BY <3>1, <3>2
  <2>2. rows' \in {Append(rows, last), Append(rows, last + 1)}
    BY DEF WriteRow
  <2> HIDE DEF last, n
  <2>3. last + 1 \in Nat /\ \A k \in 1 .. n : rows[k] <= last + 1
    BY <1>1, <2>1
  <2> QED
    BY <2>1, <2>2, <2>3
<1>3. /\ rows' \in Seq(Nat) /\ Len(rows') = n + 1
      /\ \A k \in 1 .. n : rows'[k] = rows[k]
      /\ rows'[n + 1] = x
  BY <1>1, <1>2, AppendProperties
<1>4. PageTypeOK'
  <2>1. Len(rows') <= MaxRows
    BY <1>1, <1>3, PageAssumption
  <2>2. UNCHANGED <<audit, answer, dropped, timer, live, poll, counted, recounted, liveTop,
                    reordered>>
    BY <1>1 DEF auditVars, liveVars
  <2> QED
    BY <1>3, <2>1, <2>2 DEF PageInv, PageTypeOK
<1>5. LoadInv'
  BY <1>1 DEF PageInv, LoadInv, auditVars, Loading
<1>6. RowsInv'
  <2>1. \A j, k \in 1 .. n : j <= k => rows[j] <= rows[k]
    BY DEF PageInv, RowsInv, Records
  <2> SUFFICES ASSUME NEW j \in 1 .. n + 1, NEW k \in 1 .. n + 1, j <= k
               PROVE  rows'[j] <= rows'[k]
    BY <1>3 DEF RowsInv, Records
  <2> QED
    BY <1>1, <1>2, <1>3, <2>1
<1>7. ASSUME NEW e \in Seq(Nat), NEW all, ListInv(rows, audit.q, e, all)
      PROVE  ListInv(rows', audit.q, e, all)
  BY <1>1, <1>2, <1>7, ListGrows
<1>8. AuditInv'
  <2>1. audit.entries \in Seq(Nat) /\ (answer # NoAnswer => audit.entries \o answer \in Seq(Nat))
    <3>1. answer # NoAnswer => answer \in Seq(Nat)
      BY AuditTypes, SeqMonotonic
    <3> QED
      BY <3>1, AuditTypes, ConcatProperties
  <2>2. audit' = audit /\ answer' = answer /\ dropped' = dropped
    BY <1>1 DEF auditVars
  <2> QED
    BY <1>7, <2>1, <2>2 DEF PageInv, AuditInv, Loading
<1>9. ASSUME NEW E, NEW m \in Nat, m <= n, IsLatest(rows, E, m)
      PROVE  IsLatest(rows', E, m)
  <2>1. \A k \in 1 .. m : rows'[k] = rows[k]
    BY <1>1, <1>3, <1>9
  <2> QED
    BY <1>9, <2>1 DEF IsLatest
<1>10. LiveInv'
  <2>1. /\ UNCHANGED <<live, poll, counted, recounted, liveTop, reordered>>
        /\ liveTop \in Nat /\ \A p \in Poll : poll[p].top \in Nat
        /\ counted \subseteq Row /\ recounted \subseteq counted
    BY <1>1, PageAssumption DEF liveVars, PageInv, PageTypeOK
  <2>2. /\ liveTop <= n
        /\ \A p \in Poll : poll[p].step = "answered" =>
             poll[p].top <= n /\ IsLatest(rows, poll[p].entries, poll[p].top)
    BY DEF PageInv, LiveInv
  <2>3. ASSUME NEW p \in Poll, poll[p].step = "answered"
        PROVE  poll[p].top <= n + 1 /\ IsLatest(rows', poll[p].entries, poll[p].top)
    <3>1. poll[p].top \in Nat /\ poll[p].top <= n /\ IsLatest(rows, poll[p].entries, poll[p].top)
      BY <2>1, <2>2, <2>3
    <3> QED
      BY <1>1, <1>9, <3>1
  <2>4. ASSUME ~reordered
        PROVE  /\ IsLatest(rows', live, liveTop)
               /\ \A k \in recounted : \E other \in counted : other # k /\ rows'[other] = rows'[k]
    <3>1. /\ IsLatest(rows, live, liveTop) /\ counted \subseteq 1 .. liveTop
          /\ \A k \in recounted : \E other \in counted : other # k /\ rows[other] = rows[k]
      BY <2>4 DEF PageInv, LiveInv
    <3>2. \A k \in counted : rows'[k] = rows[k]
      <4>1. 1 .. liveTop \subseteq 1 .. n
        BY <1>1, <2>1, <2>2
      <4> QED
        BY <1>3, <3>1, <4>1
    <3> QED
      BY <1>9, <2>1, <2>2, <3>1, <3>2
  <2>5. ~reordered => live \subseteq counted /\ counted \subseteq 1 .. liveTop
    BY DEF PageInv, LiveInv
  <2>6. liveTop <= n + 1
    BY <1>1, <2>1, <2>2
  <2> QED
    BY <1>3, <2>1, <2>3, <2>4, <2>5, <2>6 DEF LiveInv
<1> QED
  BY <1>4, <1>5, <1>6, <1>8, <1>10 DEF PageInv

(* The first page of a search is asked for, and the list cleared.              *)
LEMMA FirstPageFacts ==
  ASSUME NEW state \in AuditState
  PROVE  LET next == FirstPage(state)
         IN  /\ next \in AuditState
             /\ next.q = state.q /\ next.entries = <<>> /\ next.offset = 0
             /\ next.allLoaded = FALSE
             /\ next.request = [q |-> state.q, offset |-> 0, append |-> FALSE]
             /\ next.request \in PageRequest
<1> DEFINE request == [q |-> state.q, offset |-> 0, append |-> FALSE]
           next == [q |-> state.q, entries |-> <<>>, offset |-> 0, allLoaded |-> FALSE,
                    request |-> request]
<1>1. state.q \in Search /\ 0 \in Nat /\ <<>> \in Seq(Row)
  BY DEF AuditState
<1>2. request \in PageRequest
  BY <1>1 DEF PageRequest
<1>3. FirstPage(state) = next
  <2> HIDE DEF request
  <2>1. FirstPage(state) = [state EXCEPT !.offset = 0, !.entries = <<>>, !.allLoaded = FALSE,
                                         !.request = request]
    BY DEF FirstPage, request
  <2> QED
    BY <2>1 DEF AuditState
<1> HIDE DEF request
<1>4. next \in AuditState
  BY <1>1, <1>2 DEF AuditState
<1> QED
  BY <1>2, <1>3, <1>4 DEF request

(* The audit tab is shown, or a search typed while nothing is loaded.          *)
LEMMA FirstPageKeeps ==
  ASSUME PageInv, ~Loading, NEW state \in AuditState,
         audit' = FirstPage(state), dropped' = FALSE,
         UNCHANGED <<rows, answer, liveVars>>
  PROVE  PageInv'
<1>1. /\ audit' \in AuditState
      /\ audit'.q = state.q /\ audit'.entries = <<>> /\ audit'.offset = 0
      /\ audit'.allLoaded = FALSE
      /\ audit'.request = [q |-> state.q, offset |-> 0, append |-> FALSE]
      /\ audit'.request \in PageRequest
  BY FirstPageFacts
<1>2. audit'.request.q = state.q /\ audit'.request.offset = 0 /\ ~audit'.request.append
  BY <1>1
<1>3. answer' = NoAnswer
  BY DEF PageInv, LoadInv
<1>4. LoadInv'
  BY <1>1, <1>2, <1>3 DEF LoadInv
<1>5. AuditInv'
  BY <1>1, <1>2, <1>3, EmptyListed DEF AuditInv
<1> QED
  BY <1>1, <1>3, <1>4, <1>5, AuditStep

(* A search is typed.                                                          *)
LEMMA SearchAuditKeeps ==
  ASSUME PageInv, NEW q \in Search, SearchAudit(q) PROVE PageInv'
<1> DEFINE typed == [audit EXCEPT !.q = q]
<1>1. /\ typed \in AuditState /\ typed.q = q /\ typed.entries = audit.entries
      /\ typed.offset = audit.offset /\ typed.allLoaded = audit.allLoaded
      /\ typed.request = audit.request
  BY DEF PageInv, PageTypeOK, AuditState
<1> HIDE DEF typed
<1>2. CASE ~Loading
  BY <1>1, <1>2, FirstPageKeeps DEF SearchAudit, typed
<1>3. CASE Loading
  <2>1. /\ audit' = typed /\ dropped' = (dropped \/ q # audit.q)
        /\ UNCHANGED <<rows, answer, liveVars>>
    BY <1>3 DEF SearchAudit, typed
  <2>2. LoadInv'
    BY <1>1, <2>1 DEF PageInv, LoadInv, Loading
  <2>3. AuditInv'
    <3>1. CASE dropped \/ q # audit.q
      BY <2>1, <3>1 DEF AuditInv
    <3>2. CASE ~dropped /\ q = audit.q
      BY <1>1, <2>1, <3>2 DEF PageInv, AuditInv, Loading
    <3> QED
      BY <3>1, <3>2
  <2>4. answer' = NoAnswer \/ answer' \in Seq(Row)
    BY <2>1 DEF PageInv, PageTypeOK
  <2> QED
    BY <1>1, <2>1, <2>2, <2>3, <2>4, AuditStep
<1> QED
  BY <1>2, <1>3

(* More of the list is asked for.                                              *)
LEMMA LoadMoreKeeps ==
  ASSUME PageInv, LoadMore PROVE PageInv'
<1> DEFINE request == [q |-> audit.q, offset |-> audit.offset, append |-> TRUE]
<1>1. /\ ~Loading /\ audit.entries # <<>> /\ ~audit.allLoaded
      /\ audit' = [audit EXCEPT !.request = request]
      /\ UNCHANGED <<rows, answer, dropped, liveVars>>
  BY DEF LoadMore
<1>2. audit \in AuditState /\ audit.offset = Len(audit.entries) /\ answer = NoAnswer
  BY <1>1 DEF PageInv, PageTypeOK, LoadInv
<1>3. request \in PageRequest
  BY <1>2 DEF AuditState, PageRequest
<1> HIDE DEF request
<1>4. /\ audit' \in AuditState /\ audit'.q = audit.q /\ audit'.entries = audit.entries
      /\ audit'.offset = audit.offset /\ audit'.allLoaded = audit.allLoaded
      /\ audit'.request = request
  BY <1>1, <1>2, <1>3 DEF AuditState
<1>5. request.q = audit.q /\ request.offset = audit.offset /\ request.append
  BY DEF request
<1>6. LoadInv'
  BY <1>1, <1>2, <1>4, <1>5 DEF LoadInv
<1>7. AuditInv'
  BY <1>1, <1>2, <1>4, <1>5 DEF PageInv, AuditInv
<1> QED
  BY <1>1, <1>2, <1>4, <1>6, <1>7, AuditStep DEF PageInv, PageTypeOK

(* The search is run.                                                          *)
LEMMA AnswerAuditKeeps ==
  ASSUME PageInv, AnswerAudit PROVE PageInv'
<1> DEFINE e == audit.entries
<1>1. /\ Loading /\ answer' \in Pages(FoundBy(audit.request.q), audit.request.offset, PageSize)
      /\ UNCHANGED <<rows, audit, dropped, liveVars>>
  BY DEF AnswerAudit
<1>2. /\ audit.request.offset = Len(e) /\ audit.offset = Len(e) /\ Len(e) \in Nat
      /\ rows \in Seq(Nat) /\ e \in Seq(Nat) /\ PageSize \in Nat /\ audit \in AuditState
  BY <1>1, AuditTypes, PageAssumption DEF PageInv, LoadInv
<1>3. answer' \in Seq(Row)
  <2>1. FoundBy(audit.request.q) \in SUBSET Records /\ FoundBy(audit.request.q) \subseteq Row
    BY AuditTypes DEF FoundBy
  <2> DEFINE found == FoundBy(audit.request.q)
  <2> HIDE DEF found
  <2>2. found \in SUBSET Records /\ answer' \in Pages(found, Len(e), PageSize)
    BY <1>1, <1>2, <2>1 DEF found
  <2>3. answer' \in Seq(found)
    BY <1>2, <2>2, PageFacts
  <2> QED
    BY <2>1, <2>3, SeqMonotonic DEF found
<1>4. LoadInv'
  BY <1>1, <1>2 DEF PageInv, LoadInv, Loading
<1>5. AuditInv'
  <2>1. SUFFICES ASSUME ~dropped
                 PROVE  /\ audit.request.q = audit.q /\ ~audit.allLoaded
                        /\ ListInv(rows, audit.q, e, audit.allLoaded)
                        /\ ListInv(rows, audit.q, e \o answer', Len(answer') < PageSize)
    BY <1>1 DEF AuditInv, Loading
  <2>2. /\ audit.request.q = audit.q /\ ~audit.allLoaded
        /\ ListInv(rows, audit.q, e, audit.allLoaded)
    BY <1>1, <2>1 DEF PageInv, AuditInv
  <2>3. audit.allLoaded = FALSE /\ audit.q \in Search
    BY <2>2, AuditTypes
  <2>4. ListInv(rows, audit.q, e, FALSE) /\ answer' \in Pages(FoundBy(audit.q), Len(e), PageSize)
    BY <1>1, <1>2, <2>2, <2>3
  <2> HIDE DEF e
  <2> QED
    BY <1>2, <2>2, <2>3, <2>4, NextPageListed
<1> QED
  BY <1>1, <1>2, <1>3, <1>4, <1>5, AuditStep DEF PageInv, PageTypeOK

(* The answer arrives.                                                         *)
LEMMA AuditLoadedKeeps ==
  ASSUME PageInv, AuditLoaded PROVE PageInv'
<1> DEFINE e == audit.entries
           both == IF audit.request.append THEN e \o answer ELSE answer
           sum == audit.offset + Len(answer)
           all == audit.allLoaded \/ Len(answer) < PageSize
<1>1. /\ answer # NoAnswer /\ answer' = NoAnswer
      /\ audit' = [audit EXCEPT !.request = NoRequest,
                     !.entries = IF audit.request.append THEN @ \o answer ELSE answer,
                     !.offset = @ + Len(answer),
                     !.allLoaded = @ \/ Len(answer) < PageSize]
      /\ UNCHANGED <<rows, dropped, liveVars>>
  BY DEF AuditLoaded
<1>2. /\ audit \in AuditState /\ Loading /\ answer \in Seq(Row) /\ Len(answer) \in Nat
      /\ e \in Seq(Row) /\ audit.offset = Len(e) /\ audit.q \in Search
      /\ audit.allLoaded \in BOOLEAN /\ Len(e) \in Nat
  BY <1>1, AuditTypes, LenProperties DEF PageInv, LoadInv
<1>3. both = e \o answer
  BY <1>2, ConcatEmptySeq DEF PageInv, LoadInv
<1>4. both \in Seq(Row) /\ all \in BOOLEAN /\ sum \in Nat /\ sum = Len(both)
  <2>1. e \o answer \in Seq(Row) /\ Len(e \o answer) = Len(e) + Len(answer)
    BY <1>2, ConcatProperties
  <2> QED
    BY <1>2, <1>3, <2>1
<1>5. /\ audit'.q = audit.q /\ audit'.entries = both /\ audit'.offset = sum
      /\ audit'.allLoaded = all /\ audit'.request = NoRequest
      /\ audit' \in AuditState
  <2>1. audit' = [q |-> audit.q, entries |-> both, offset |-> sum, allLoaded |-> all,
                  request |-> NoRequest]
    BY <1>1, <1>2 DEF AuditState
  <2> HIDE DEF both, sum, all
  <2> QED
    BY <1>2, <1>4, <2>1 DEF AuditState
<1>6. LoadInv'
  BY <1>1, <1>2, <1>4, <1>5 DEF LoadInv, Loading
<1>7. AuditInv'
  <2>1. SUFFICES ASSUME ~dropped PROVE ListInv(rows, audit.q, both, all)
    BY <1>1, <1>5 DEF AuditInv, Loading
  <2>2. /\ ~audit.allLoaded
        /\ ListInv(rows, audit.q, e \o answer, Len(answer) < PageSize)
    BY <1>1, <1>2, <2>1 DEF PageInv, AuditInv
  <2>3. all = (Len(answer) < PageSize)
    BY <1>2, <2>2
  <2> HIDE DEF both, all
  <2> QED
    BY <1>3, <2>2, <2>3
<1> QED
  BY <1>1, <1>5, <1>6, <1>7, AuditStep DEF PageInv, PageTypeOK

(* No answer comes.                                                            *)
LEMMA AuditFailsKeeps ==
  ASSUME PageInv, AuditFails PROVE PageInv'
<1>1. /\ audit' = [audit EXCEPT !.request = NoRequest] /\ answer' = NoAnswer
      /\ UNCHANGED <<rows, dropped, liveVars>>
  BY DEF AuditFails
<1>2. /\ audit'.q = audit.q /\ audit'.entries = audit.entries /\ audit'.offset = audit.offset
      /\ audit'.allLoaded = audit.allLoaded /\ audit'.request = NoRequest
      /\ audit' \in AuditState
  BY <1>1 DEF PageInv, PageTypeOK, AuditState
<1>3. LoadInv'
  BY <1>1, <1>2 DEF PageInv, LoadInv, Loading
<1>4. AuditInv'
  BY <1>1, <1>2 DEF PageInv, AuditInv, Loading
<1> QED
  BY <1>1, <1>2, <1>3, <1>4, AuditStep DEF PageInv, PageTypeOK

(* A run of numbers from one is as long as its last.                           *)
LEMMA UpTo == ASSUME NEW n \in Nat PROVE IsFiniteSet(1 .. n) /\ Cardinality(1 .. n) = n
<1>1. 1 \in Int /\ n \in Int
  OBVIOUS
<1>2. IsFiniteSet(1 .. n) /\ Cardinality(1 .. n) = IF 1 > n THEN 0 ELSE n - 1 + 1
  BY <1>1, FS_Interval
<1> QED
  BY <1>2

(* What a poll is answered.                                                    *)
LEMMA PollAnswer ==
  ASSUME rows \in Seq(Nat), NEW page \in Pages(Records, 0, LiveSize)
  PROVE  IsLatest(rows, ToSet(page), Len(rows))
<1> DEFINE n == Len(rows)
           l == Len(page)
           E == ToSet(page)
<1>1. LiveSize \in Nat \ {0} /\ n \in Nat /\ Records = 1 .. n /\ Cardinality(Records) = n
  <2>1. LiveSize \in Nat \ {0} /\ n \in Nat /\ Records = 1 .. n
    BY LenProperties, PageAssumption DEF Records
  <2> QED
    BY <2>1, UpTo
<1>2. /\ page \in Seq(Records) /\ l \in Nat /\ DOMAIN page = 1 .. l
      /\ l = IF n < 0 THEN 0 ELSE IF n - 0 < LiveSize THEN n - 0 ELSE LiveSize
      /\ \A i, j \in 1 .. l : page[i] = page[j] => i = j
      /\ \A i \in 1 .. l : page[i] \in Records /\ 0 + i \in Places(Records, page[i])
  <2>1. 0 \in Nat /\ LiveSize \in Nat /\ Records \in SUBSET Records
    BY <1>1
  <2>2. /\ IsFiniteSet(Records) /\ Cardinality(Records) \in Nat
        /\ page \in Seq(Records) /\ Len(page) \in Nat /\ DOMAIN page = 1 .. Len(page)
        /\ Len(page) = IF Cardinality(Records) < 0 THEN 0
                       ELSE IF Cardinality(Records) - 0 < LiveSize
                            THEN Cardinality(Records) - 0 ELSE LiveSize
        /\ \A i, j \in 1 .. Len(page) : page[i] = page[j] => i = j
        /\ \A i \in 1 .. Len(page) : page[i] \in Records /\ 0 + i \in Places(Records, page[i])
    BY <2>1, PageFacts, Zenon
  <2> QED
    BY <1>1, <2>2
<1>3. l = IF n < LiveSize THEN n ELSE LiveSize
  BY <1>1, <1>2
<1>4. E = {page[i] : i \in 1 .. l} /\ E \subseteq 1 .. n
  BY <1>1, <1>2 DEF ToSet
<1> HIDE DEF E, l
<1>5. IsFiniteSet(E) /\ Cardinality(E) = l
  <2>1. IsFiniteSet(1 .. l) /\ Cardinality(1 .. l) = l
    <3>1. l \in Nat
      BY <1>2
    <3> QED
      BY <3>1, UpTo
  <2> DEFINE f == [i \in 1 .. l |-> page[i]]
  <2>2. f \in [1 .. l -> E] /\ (\A i, j \in 1 .. l : f[i] = f[j] => i = j)
        /\ \A k \in E : \E i \in 1 .. l : f[i] = k
    BY <1>2, <1>4
  <2> HIDE DEF f
  <2>3. f \in Bijection(1 .. l, E)
    BY <2>2, Fun_IsBij
  <2>4. ExistsBijection(1 .. l, E)
    BY <2>3 DEF ExistsBijection
  <2> QED
    BY <2>1, <2>4, FS_Bijection
<1>6. ASSUME NEW k \in 1 .. n, k \notin E
      PROVE  Cardinality(E) = LiveSize
  <2>1. E # 1 .. n /\ E \in SUBSET (1 .. n) /\ IsFiniteSet(1 .. n) /\ Cardinality(1 .. n) = n
    <3>1. IsFiniteSet(1 .. n) /\ Cardinality(1 .. n) = n
      BY <1>1, UpTo
    <3> QED
      BY <1>4, <1>6, <3>1
  <2>2. Cardinality(E) # n
    BY <2>1, FS_Subset
  <2> QED
    BY <1>1, <1>3, <1>5, <2>2
<1>7. ASSUME NEW k \in 1 .. n, k \notin E, NEW i \in 1 .. l
      PROVE  rows[k] <= rows[page[i]]
  <2> DEFINE s == rows[page[i]]
             A == {j \in Records : rows[j] > s}
             a == Cardinality(A)
  <2>1. page[i] \in Records /\ s \in Nat /\ rows[k] \in Nat
    BY <1>1, <1>2, <1>7, ElementOfSeq DEF Records
  <2>2. SUFFICES ASSUME rows[k] > s PROVE FALSE
    BY <2>1
  <2>3. IsFiniteSet(A) /\ a \in Nat
    <3>1. A \in SUBSET (1 .. n) /\ IsFiniteSet(1 .. n)
      BY <1>1, UpTo
    <3> HIDE DEF A
    <3> QED
      BY <3>1, FS_Subset, FS_CardinalityType
  <2>4. \A j \in 1 .. l : rows[page[j]] > s <=> j <= a
    <3>1. SUFFICES ASSUME NEW j \in 1 .. l PROVE rows[page[j]] > s <=> j <= a
      OBVIOUS
    <3>2. /\ page[j] \in Records /\ j \in Places(Records, page[j])
          /\ Records \in SUBSET Records
      BY <1>2
    <3> HIDE DEF s, a, A
    <3>3. LET above == Cardinality({m \in Records : rows[m] > s})
              with == Cardinality({m \in Records : rows[m] >= s})
          IN  /\ rows[page[j]] = s <=> above < j /\ j <= with
              /\ rows[page[j]] > s <=> j <= above
              /\ rows[page[j]] < s <=> j > with
      BY <2>1, <3>2, PlaceOfSecond
    <3> QED
      BY <3>3 DEF a, A
  <2>5. i > a
    BY <1>2, <2>1, <2>3, <2>4
  <2>6. \A j \in 1 .. a : j \in 1 .. l /\ page[j] \in A \ {k}
    <3>1. \A j \in 1 .. a : j \in 1 .. l
      BY <1>2, <2>3, <2>5
    <3>2. \A j \in 1 .. l : page[j] # k /\ page[j] \in Records
      BY <1>2, <1>4, <1>7
    <3>3. \A j \in 1 .. a : j <= a
      BY <2>3
    <3> QED
      BY <2>4, <3>1, <3>2, <3>3
  <2>7. k \in A
    BY <1>1, <1>7, <2>2
  <2> HIDE DEF s, A
  <2>8. IsFiniteSet(A \ {k}) /\ Cardinality(A \ {k}) = a - 1
    BY <2>3, <2>7, FS_RemoveElement
  <2> HIDE DEF a
  <2>9. IsFiniteSet(1 .. a) /\ Cardinality(1 .. a) = a
    BY <2>3, UpTo
  <2> DEFINE f == [j \in 1 .. a |-> page[j]]
  <2>10. f \in [1 .. a -> A \ {k}]
    BY <2>6
  <2> HIDE DEF f
  <2>11. \E x, y \in 1 .. a : x # y /\ f[x] = f[y]
    <3>1. Cardinality(A \ {k}) < Cardinality(1 .. a)
      BY <2>3, <2>8, <2>9
    <3> QED
      BY <2>8, <2>9, <2>10, <3>1, FS_PigeonHole
  <2> QED
    BY <1>2, <2>6, <2>11 DEF f
<1>8. \A k \in 1 .. n : k \notin E => Cardinality(E) = LiveSize /\ \A j \in E : rows[k] <= rows[j]
  BY <1>4, <1>6, <1>7
<1>9. Cardinality(E) <= LiveSize
  BY <1>1, <1>3, <1>5
<1> QED
  BY <1>4, <1>8, <1>9 DEF IsLatest, E

(* A record that a poll has left out, and a later one brings, gave way to one  *)
(* of its second.                                                              *)
LEMMA LeftForAnother ==
  ASSUME rows \in Seq(Nat), NEW m \in Nat, NEW n \in Nat, m <= n, n <= Len(rows),
         NEW D, IsLatest(rows, D, m), NEW E, IsLatest(rows, E, n),
         NEW k \in E, k \notin D, k <= m
  PROVE  \E other \in D : other # k /\ rows[other] = rows[k]
<1>1. /\ D \subseteq 1 .. m /\ E \subseteq 1 .. n /\ Cardinality(E) <= LiveSize
      /\ \A j \in 1 .. n : j \notin E => \A i \in E : rows[j] <= rows[i]
      /\ \A j \in 1 .. m : j \notin D => Cardinality(D) = LiveSize /\ \A i \in D : rows[j] <= rows[i]
  BY DEF IsLatest
<1>2. /\ Len(rows) \in Nat /\ 1 .. m \subseteq 1 .. n /\ k \in 1 .. n /\ k \in 1 .. m
      /\ LiveSize \in Nat
  BY <1>1, LenProperties, PageAssumption
<1>3. \A j \in 1 .. n : rows[j] \in Nat
  <2>1. 1 .. n \subseteq 1 .. Len(rows)
    BY <1>2
  <2> QED
    BY <2>1, ElementOfSeq
<1>4. Cardinality(D) = LiveSize /\ \A i \in D : rows[k] <= rows[i]
  BY <1>1, <1>2
<1>5. SUFFICES ASSUME \A other \in D : rows[other] # rows[k] PROVE FALSE
  OBVIOUS
<1>6. D \cup {k} \in SUBSET E
  <2>1. ASSUME NEW j \in D, j \notin E PROVE FALSE
    <3>1. rows[j] <= rows[k] /\ rows[k] <= rows[j] /\ rows[j] # rows[k]
      BY <1>1, <1>2, <1>4, <1>5, <2>1
    <3>2. rows[j] \in Nat /\ rows[k] \in Nat
      BY <1>1, <1>2, <1>3, <2>1
    <3> QED
      BY <3>1, <3>2
  <2> QED
    BY <2>1
<1>7. IsFiniteSet(E) /\ IsFiniteSet(D) /\ Cardinality(E) \in Nat
  <2>1. IsFiniteSet(1 .. n) /\ D \in SUBSET (1 .. n) /\ E \in SUBSET (1 .. n)
    BY <1>1, <1>2, UpTo
  <2> QED
    BY <2>1, FS_Subset, FS_CardinalityType
<1>8. Cardinality(D \cup {k}) = LiveSize + 1
  BY <1>4, <1>7, FS_AddElement
<1>9. Cardinality(D \cup {k}) <= Cardinality(E)
  BY <1>6, <1>7, FS_Subset
<1> QED
  BY <1>1, <1>2, <1>7, <1>8, <1>9

(* A step of the live tab.                                                     *)
LEMMA LiveKeeps ==
  ASSUME PageInv, NEW p \in Poll,
         ShowLive(p) \/ PollLive(p) \/ AnswerPoll(p) \/ RefreshLive(p) \/ PollFails(p)
  PROVE  PageInv'
<1> DEFINE PollState == [step: {"none", "sent", "answered"}, entries: SUBSET Row, top: 0 .. MaxRows]
           good(state) == state.step = "answered" =>
                            /\ state.top <= Len(rows)
                            /\ IsLatest(rows, state.entries, state.top)
<1>1. UNCHANGED <<rows, auditVars>>
  BY DEF ShowLive, PollLive, AnswerPoll, RefreshLive, PollFails
<1>2. RowsInv' /\ LoadInv' /\ AuditInv'
  BY <1>1 DEF PageInv, RowsInv, Records, LoadInv, AuditInv, auditVars, Loading
<1>3. /\ poll \in [Poll -> PollState] /\ poll[p] \in PollState
      /\ timer \in BOOLEAN /\ live \subseteq Row /\ liveTop \in 0 .. MaxRows /\ liveTop \in Nat
      /\ counted \subseteq Row /\ recounted \subseteq counted /\ reordered \in BOOLEAN
      /\ rows \in Seq(Nat) /\ Len(rows) \in Nat /\ Len(rows) <= MaxRows /\ Records \subseteq Row
      /\ \A s \in Poll : good(poll[s])
  BY AuditTypes, PageAssumption DEF PageInv, PageTypeOK, LiveInv
<1>4. NoPoll \in PollState /\ NoPoll.step = "none"
  BY PageAssumption DEF NoPoll
<1>5. ASSUME NEW state \in PollState, good(state), poll' = [poll EXCEPT ![p] = state],
             timer' \in BOOLEAN, UNCHANGED <<live, counted, recounted, liveTop, reordered>>
      PROVE  PageInv'
  <2> HIDE DEF PollState
  <2>1. poll' \in [Poll -> PollState] /\ \A s \in Poll : poll'[s] = IF s = p THEN state ELSE poll[s]
    BY <1>3, <1>5
  <2>2. PageTypeOK'
    BY <1>1, <1>5, <2>1 DEF PageInv, PageTypeOK, auditVars, PollState
  <2>3. \A s \in Poll : good(poll'[s])
    BY <1>3, <1>5, <2>1
  <2>4. LiveInv'
    BY <1>1, <1>5, <2>3 DEF PageInv, LiveInv
  <2> QED
    BY <1>2, <2>2, <2>4 DEF PageInv
<1>6. CASE ShowLive(p) \/ PollLive(p)
  <2> DEFINE state == [poll[p] EXCEPT !.step = "sent"]
  <2>1. /\ poll' = [poll EXCEPT ![p] = state] /\ timer' \in BOOLEAN
        /\ UNCHANGED <<live, counted, recounted, liveTop, reordered>>
    BY <1>3, <1>6 DEF ShowLive, PollLive, SendPoll
  <2>2. state \in PollState /\ state.step # "answered"
    BY <1>3
  <2> HIDE DEF state, PollState
  <2> QED
    BY <1>5, <2>1, <2>2
<1>7. CASE AnswerPoll(p)
  <2>1. PICK page \in Pages(Records, 0, LiveSize) :
          poll' = [poll EXCEPT ![p] = [step |-> "answered", entries |-> ToSet(page),
                                       top |-> Len(rows)]]
    BY <1>7 DEF AnswerPoll
  <2> DEFINE state == [step |-> "answered", entries |-> ToSet(page), top |-> Len(rows)]
  <2>2. IsLatest(rows, ToSet(page), Len(rows))
    BY <1>3, PollAnswer
  <2>3. ToSet(page) \subseteq Row
    BY <1>3, <2>2 DEF IsLatest, Records
  <2>4. state \in PollState /\ good(state)
    BY <1>3, <2>2, <2>3
  <2>5. timer' \in BOOLEAN /\ UNCHANGED <<live, counted, recounted, liveTop, reordered>>
    BY <1>3, <1>7 DEF AnswerPoll
  <2> HIDE DEF PollState
  <2> QED
    BY <1>5, <2>1, <2>4, <2>5
<1>8. CASE PollFails(p)
  <2>1. /\ poll' = [poll EXCEPT ![p] = NoPoll] /\ timer' \in BOOLEAN
        /\ UNCHANGED <<live, counted, recounted, liveTop, reordered>>
    BY <1>3, <1>8 DEF PollFails
  <2>2. NoPoll.step # "answered"
    BY <1>4
  <2> HIDE DEF PollState
  <2> QED
    BY <1>4, <1>5, <2>1, <2>2
<1>9. CASE RefreshLive(p)
  <2> DEFINE E == poll[p].entries
             top == poll[p].top
             new == E \ live
  <2>1. /\ live' = E /\ liveTop' = top /\ poll' = [poll EXCEPT ![p] = NoPoll]
        /\ counted' = counted \cup new
        /\ recounted' = recounted \cup (new \cap counted)
        /\ reordered' = (reordered \/ top < liveTop) /\ timer' = timer
        /\ poll[p].step = "answered"
    BY <1>9 DEF RefreshLive
  <2>2. top \in 0 .. MaxRows /\ top \in Nat /\ E \subseteq Row
    BY <1>3, PageAssumption
  <2>3. top <= Len(rows) /\ IsLatest(rows, E, top)
    BY <1>3, <2>1
  <2> HIDE DEF E, top, PollState
  <2>4. poll' \in [Poll -> PollState] /\ \A s \in Poll : poll'[s] = IF s = p THEN NoPoll ELSE poll[s]
    BY <1>3, <1>4, <2>1
  <2>5. PageTypeOK'
    BY <1>1, <1>3, <2>1, <2>2, <2>4 DEF PageInv, PageTypeOK, auditVars, PollState
  <2>6. \A s \in Poll : good(poll'[s])
    BY <1>3, <1>4, <2>4
  <2>7. ASSUME ~reordered, ~(top < liveTop)
        PROVE  /\ E \subseteq counted' /\ counted' \subseteq 1 .. top
               /\ \A k \in recounted' :
                    \E other \in counted' : other # k /\ rows[other] = rows[k]
    <3>1. /\ IsLatest(rows, live, liveTop) /\ live \subseteq counted /\ counted \subseteq 1 .. liveTop
          /\ \A k \in recounted : \E other \in counted : other # k /\ rows[other] = rows[k]
      BY <2>7 DEF PageInv, LiveInv
    <3>2. liveTop <= top
      BY <1>3, <2>2, <2>7
    <3>3. ASSUME NEW k \in new, k \in counted
          PROVE  \E other \in live : other # k /\ rows[other] = rows[k]
      <4>1. k \in E /\ k \notin live /\ k <= liveTop
        BY <3>1, <3>3
      <4>2. /\ rows \in Seq(Nat) /\ liveTop \in Nat /\ top \in Nat /\ liveTop <= top
            /\ top <= Len(rows) /\ IsLatest(rows, live, liveTop) /\ IsLatest(rows, E, top)
        BY <1>3, <2>2, <2>3, <3>1, <3>2
      <4> HIDE DEF new
      <4> QED
        BY <4>1, <4>2, LeftForAnother
    <3>4. 1 .. liveTop \subseteq 1 .. top /\ E \subseteq 1 .. top
      BY <1>3, <2>2, <2>3, <3>2 DEF IsLatest
    <3> QED
      BY <2>1, <3>1, <3>3, <3>4
  <2>8. LiveInv'
    BY <1>1, <2>1, <2>3, <2>6, <2>7 DEF LiveInv
  <2> QED
    BY <1>2, <2>5, <2>8 DEF PageInv
<1> QED
  BY <1>6, <1>7, <1>8, <1>9

(* No step of the page breaks the invariant.                                   *)
LEMMA PageInductive == PageInv /\ [PageNext]_pageVars => PageInv'
<1> SUFFICES ASSUME PageInv, [PageNext]_pageVars PROVE PageInv'
  OBVIOUS
<1>1. CASE UNCHANGED pageVars
  BY <1>1 DEF pageVars, auditVars, liveVars, PageInv, PageTypeOK, RowsInv, Records, LoadInv,
              AuditInv, LiveInv, Loading
<1>2. CASE ShowAudit
  <2>1. audit \in AuditState
    BY DEF PageInv, PageTypeOK
  <2> QED
    BY <1>2, <2>1, FirstPageKeeps DEF ShowAudit
<1>3. CASE PageNext /\ ~ShowAudit
  BY <1>3, WriteRowKeeps, SearchAuditKeeps, LoadMoreKeeps, AnswerAuditKeeps, AuditLoadedKeeps,
     AuditFailsKeeps, LiveKeeps DEF PageNext, AuditTabNext, LiveTabNext
<1> QED
  BY <1>1, <1>2, <1>3

(* The invariant holds whatever the sizes of a page and a poll.                *)
LEMMA PageInvariant == PageSpec => []PageInv
BY PageInitially, PageInductive, PTL DEF PageSpec

(* The variables of the page have their types.                                 *)
THEOREM PageTypes == PageSpec => []PageTypeOK
<1>1. PageInv => PageTypeOK
  BY DEF PageInv
<1> QED
  BY <1>1, PageInvariant, PTL

(* Entries fewer than the places they fill: one of them is twice there.        *)
LEMMA TwiceListed ==
  ASSUME rows \in Seq(Nat), NEW q, NEW e \in Seq(Nat), NEW k \in FoundIn(rows, q),
         \A i \in DOMAIN e : e[i] \in FoundIn(rows, q) /\ e[i] # k,
         Passed(rows, q, e, rows[k])
  PROVE  \E i, j \in DOMAIN e : i # j /\ e[i] = e[j] /\ rows[e[i]] = rows[k]
<1> DEFINE s == rows[k]
           S == Listed(rows, e, s)
           G == Group(rows, q, s)
<1>1. Len(e) \in Nat /\ DOMAIN e = 1 .. Len(e) /\ s \in Nat
  BY LenProperties, RecordSets
<1>2. S \in SUBSET (1 .. Len(e)) /\ IsFiniteSet(1 .. Len(e))
  BY <1>1, UpTo DEF Listed
<1>3. k \in G /\ IsFiniteSet(G) /\ Cardinality(G) \in Nat
  BY <1>1, RecordSets DEF Group
<1>4. \A i \in S : e[i] \in G \ {k} /\ i \in DOMAIN e /\ rows[e[i]] = s
  BY DEF Listed, Group
<1>5. Cardinality(G) <= Cardinality(S)
  BY DEF Passed
<1> HIDE DEF S, G
<1>6. IsFiniteSet(S) /\ Cardinality(S) \in Nat
  BY <1>2, FS_Subset, FS_CardinalityType
<1>7. IsFiniteSet(G \ {k}) /\ Cardinality(G \ {k}) < Cardinality(S)
  <2>1. IsFiniteSet(G \ {k}) /\ Cardinality(G \ {k}) = Cardinality(G) - 1
    BY <1>3, FS_RemoveElement
  <2> QED
    BY <1>3, <1>5, <1>6, <2>1
<1> DEFINE f == [i \in S |-> e[i]]
<1>8. f \in [S -> G \ {k}]
  BY <1>4
<1> HIDE DEF f
<1>9. PICK i, j \in S : i # j /\ f[i] = f[j]
  BY <1>6, <1>7, <1>8, FS_PigeonHole
<1> QED
  BY <1>4, <1>9 DEF f

(* The list of the audit tab skips no record but for another of its second.    *)
THEOREM ListSkipsNothing == PageSpec => []NoRowSkipped
<1>1. PageInv => NoRowSkipped
  <2> DEFINE list == audit.entries
             twice(k) == \E i, j \in DOMAIN list : i # j /\ list[i] = k /\ list[j] = k
  <2> SUFFICES ASSUME PageInv, ~dropped
               PROVE  /\ ToSet(list) \subseteq FoundBy(audit.q)
                      /\ list # <<>> =>
                           \A k \in FoundBy(audit.q) \ ToSet(list) :
                             /\ rows[k] < rows[list[1]]
                             /\ audit.allLoaded \/ rows[list[Len(list)]] < rows[k]
                             => \E other \in ToSet(list) : rows[other] = rows[k] /\ twice(other)
    BY DEF NoRowSkipped
  <2>1. /\ ListInv(rows, audit.q, list, audit.allLoaded)
        /\ rows \in Seq(Nat) /\ list \in Seq(Nat)
        /\ FoundBy(audit.q) = FoundIn(rows, audit.q)
    BY AuditTypes DEF PageInv, AuditInv, FoundBy, FoundIn, Records
  <2>2. ToSet(list) = {list[i] : i \in DOMAIN list}
    BY DEF ToSet
  <2> HIDE DEF list
  <2>3. \A i \in DOMAIN list : list[i] \in FoundIn(rows, audit.q)
    BY <2>1 DEF ListInv
  <2>4. ASSUME list # <<>>, NEW k \in FoundIn(rows, audit.q), k \notin ToSet(list),
               rows[k] < rows[list[1]],
               audit.allLoaded \/ rows[list[Len(list)]] < rows[k]
        PROVE  \E other \in ToSet(list) : rows[other] = rows[k] /\ twice(other)
    <3>1. rows[k] \in Nat
      BY <2>1, RecordSets, 0 \in Nat
    <3>2. Passed(rows, audit.q, list, rows[k])
      BY <2>1, <2>4, <3>1 DEF ListInv
    <3>3. \A i \in DOMAIN list : list[i] \in FoundIn(rows, audit.q) /\ list[i] # k
      BY <2>2, <2>3, <2>4
    <3>4. PICK i, j \in DOMAIN list : i # j /\ list[i] = list[j] /\ rows[list[i]] = rows[k]
      BY <2>1, <3>2, <3>3, TwiceListed
    <3> QED
      BY <2>2, <3>4
  <2> QED
    BY <2>1, <2>2, <2>3, <2>4
<1> QED
  BY <1>1, PageInvariant, PTL

(* The live tab counts no record twice unless an answer was overtaken, or      *)
(* another record of its second counted.                                       *)
THEOREM CountsOnce == PageSpec => []RecountNeedsReorder
<1>1. PageInv => RecountNeedsReorder
  BY DEF PageInv, LiveInv, RecountNeedsReorder
<1> QED
  BY <1>1, PageInvariant, PTL

-----------------------------------------------------------------------------
(* RequestLimit: requests that come one after the other.                       *)

\* The admissions a, in the windows they were counted in: a window has at most
\* RateLimit, comes after the one before it has ended, and begins with its first.
Windows(a) ==
  /\ \A i \in DOMAIN a : a[i].at <= a[i].reset /\ a[i].reset <= a[i].at + RateWindow
  /\ \A i, j \in DOMAIN a :
       i < j => /\ a[i].reset = a[j].reset => j < i + RateLimit
                /\ a[i].reset # a[j].reset => a[i].reset + RateWindow < a[j].reset
  /\ \A i \in DOMAIN a :
       (i = 1 \/ a[i - 1].reset # a[i].reset) => a[i].reset = a[i].at + RateWindow

\* What the file says of the admissions a: the last of them are of its window, as
\* many as it counts, up to the limit.
Tells(data, a) ==
  /\ ~data.text => a = <<>>
  /\ data.text =>
       /\ data.count > 0
       /\ \A i \in DOMAIN a :
            /\ a[i].reset <= data.reset
            /\ a[i].reset = data.reset => Len(a) < i + data.count
            /\ a[i].reset # data.reset => a[i].reset + RateWindow < data.reset
       /\ data.count <= RateLimit => a # <<>> /\ a[Len(a)].reset = data.reset

\* Requests come one after the other; their clock does not run ahead.
SecondsInv ==
  /\ \A i \in DOMAIN admitted : admitted[i].at <= second
  /\ \A r \in RateRequest : rateCall[r].at <= second
  /\ ~rateRaced =>
       /\ \A q, r \in RateRequest :
            rateCall[q].step # "idle" /\ rateCall[r].step # "idle" => q = r
       /\ \A r \in RateRequest :
            rateCall[r].step # "idle" => \A i \in DOMAIN admitted : admitted[i].at <= rateCall[r].at

\* The file tells of the admissions; a request that has counted itself is about to
\* make it tell of its own.
CountInv ==
  ~rateRaced =>
    /\ Windows(admitted)
    /\ (\A r \in RateRequest : rateCall[r].step \in {"idle", "look", "decode"}) =>
         Tells(rateFile, admitted)
    /\ \A r \in RateRequest :
         rateCall[r].step \in {"lock", "write"} =>
           /\ Windows(Answered(rateCall[r].data, rateCall[r].at))
           /\ Tells(rateCall[r].data, Answered(rateCall[r].data, rateCall[r].at))

RateInv == RateTypeOK /\ SecondsInv /\ CountInv

(* Of 2 * RateLimit admissions in a row the first and the last are of windows  *)
(* with one in between; or the first begins its window, and the last is of the *)
(* next one.                                                                   *)
LEMMA SpanOfWindows ==
  ASSUME NEW a \in Seq(Admission), Windows(a),
         NEW i \in DOMAIN a, NEW j \in DOMAIN a, j = i + 2 * RateLimit - 1
  PROVE  a[j].at > a[i].at + RateWindow
<1> DEFINE k == i + RateLimit
           m == i + RateLimit - 1
           at(x) == a[x].at
           end(x) == a[x].reset
<1>1. /\ RateLimit \in Nat \ {0} /\ RateWindow \in Nat
      /\ i \in Nat \ {0} /\ j \in Nat
      /\ k \in DOMAIN a /\ m \in DOMAIN a /\ i < k /\ i <= m /\ k <= j /\ m < j
      /\ m = k - 1 /\ j = m + RateLimit
      /\ i # 1 => i - 1 \in DOMAIN a
  BY RateAssumption
<1>2. \A x \in DOMAIN a : at(x) \in Nat /\ end(x) \in Nat
  <2>1. \A x \in DOMAIN a : a[x] \in Admission
    OBVIOUS
  <2> QED
    BY <2>1, RateAssumption DEF Admission, Second
<1>3. /\ \A x \in DOMAIN a : at(x) <= end(x) /\ end(x) <= at(x) + RateWindow
      /\ \A x, y \in DOMAIN a :
           x < y => /\ end(x) = end(y) => y < x + RateLimit
                    /\ end(x) # end(y) => end(x) + RateWindow < end(y)
      /\ \A x \in DOMAIN a :
           (x = 1 \/ end(x - 1) # end(x)) => end(x) = at(x) + RateWindow
  BY DEF Windows
<1> HIDE DEF k, m, at, end
<1>4. end(i) + RateWindow < end(k) /\ end(m) + RateWindow < end(j)
  <2>1. end(i) # end(k)
    BY <1>1, <1>3 DEF k
  <2>2. end(m) # end(j)
    BY <1>1, <1>3
  <2> QED
    BY <1>1, <1>3, <2>1, <2>2
<1>5. /\ at(i) \in Nat /\ at(j) \in Nat
      /\ end(i) \in Nat /\ end(j) \in Nat /\ end(k) \in Nat /\ end(m) \in Nat
      /\ at(i) <= end(i) /\ end(j) <= at(j) + RateWindow
  BY <1>1, <1>2, <1>3
<1>6. at(j) > at(i) + RateWindow
  <2>1. CASE end(j) # end(k)
    <3>1. end(k) + RateWindow < end(j)
      BY <1>1, <1>3, <2>1
    <3> QED
      BY <1>1, <1>4, <1>5, <3>1
  <2>2. CASE end(m) # end(i)
    <3>1. end(i) + RateWindow < end(m)
      BY <1>1, <1>3, <2>2
    <3> QED
      BY <1>1, <1>4, <1>5, <3>1
  <2>3. CASE end(m) = end(i)
    <3>1. i = 1 \/ end(i - 1) # end(i)
      <4> SUFFICES ASSUME i # 1, end(i - 1) = end(i) PROVE FALSE
        OBVIOUS
      <4>1. i - 1 < m /\ i - 1 \in DOMAIN a /\ ~(m < i - 1 + RateLimit)
        BY <1>1 DEF m
      <4> QED
        BY <1>1, <1>3, <2>3, <4>1
    <3>2. end(i) = at(i) + RateWindow
      BY <1>3, <3>1
    <3> QED
      BY <1>1, <1>4, <1>5, <2>3, <3>2
  <2> QED
    BY <2>1, <2>2, <2>3
<1> QED
  BY <1>6 DEF at

(* A request that comes when all is answered is counted in its window.         *)
LEMMA Counting ==
  ASSUME RateTypeOK, NEW file \in RateData, NEW at \in Second,
         Windows(admitted), Tells(file, admitted),
         \A i \in DOMAIN admitted : admitted[i].at <= at
  PROVE  LET data == Counted(file, at)
         IN  /\ Windows(Answered(data, at))
             /\ Tells(data, Answered(data, at))
<1> DEFINE data == Counted(file, at)
           n == Len(admitted)
           new == [at |-> at, reset |-> data.reset]
           b == Append(admitted, new)
<1>1. /\ RateLimit \in Nat \ {0} /\ RateWindow \in Nat /\ at \in Nat
      /\ file.count \in Nat /\ file.reset \in Nat /\ file.text \in BOOLEAN
      /\ n \in Nat /\ DOMAIN admitted = 1 .. n
      /\ \A i \in 1 .. n : admitted[i].at \in Nat /\ admitted[i].reset \in Nat
  <2>1. admitted \in Seq(Admission) /\ \A i \in DOMAIN admitted : admitted[i] \in Admission
    BY DEF RateTypeOK
  <2> QED
    BY <2>1, RateAssumption DEF RateData, Admission, Second
<1>2. /\ DOMAIN b = 1 .. n + 1 /\ Len(b) = n + 1 /\ b[n + 1] = new /\ b # <<>>
      /\ \A i \in 1 .. n : b[i] = admitted[i]
  BY DEF RateTypeOK
<1>3. /\ data.text = TRUE /\ data.count \in Nat \ {0} /\ data.reset \in Nat
      /\ Answered(data, at) = IF data.count <= RateLimit THEN b ELSE admitted
      /\ new.at = at /\ new.reset = data.reset
  BY <1>1 DEF Counted, Answered, RateData
<1>4. /\ \A i \in 1 .. n :
           admitted[i].at <= admitted[i].reset /\ admitted[i].reset <= admitted[i].at + RateWindow
      /\ \A i, j \in 1 .. n :
           i < j => /\ admitted[i].reset = admitted[j].reset => j < i + RateLimit
                    /\ admitted[i].reset # admitted[j].reset =>
                         admitted[i].reset + RateWindow < admitted[j].reset
      /\ \A i \in 1 .. n :
           (i = 1 \/ admitted[i - 1].reset # admitted[i].reset) =>
             admitted[i].reset = admitted[i].at + RateWindow
  BY <1>1 DEF Windows
<1>5. \A i \in 1 .. n + 1 : i \in 1 .. n \/ i = n + 1
  BY <1>1
<1>6. CASE file.text /\ file.reset >= at
  <2>1. data.count = file.count + 1 /\ data.reset = file.reset
    BY <1>6 DEF Counted, RateData
  <2>2. /\ file.count > 0
        /\ \A i \in 1 .. n :
             /\ admitted[i].reset <= file.reset
             /\ admitted[i].reset = file.reset => n < i + file.count
             /\ admitted[i].reset # file.reset => admitted[i].reset + RateWindow < file.reset
        /\ file.count <= RateLimit => admitted # <<>> /\ admitted[n].reset = file.reset
    BY <1>1, <1>6 DEF Tells
  <2>3. CASE data.count <= RateLimit
    <3>1. n \in 1 .. n /\ admitted[n].reset = file.reset
      BY <1>1, <2>1, <2>2, <2>3 DEF RateTypeOK
    <3>2. at <= data.reset /\ data.reset <= at + RateWindow
      BY <1>1, <1>4, <1>6, <2>1, <3>1
    <3> HIDE DEF b, data, n, new
    <3>3. Windows(b)
      <4>1. \A i \in 1 .. n + 1 : b[i].at <= b[i].reset /\ b[i].reset <= b[i].at + RateWindow
        BY <1>1, <1>2, <1>3, <1>4, <3>2
      <4>2. \A i, j \in 1 .. n + 1 :
              i < j => /\ b[i].reset = b[j].reset => j < i + RateLimit
                       /\ b[i].reset # b[j].reset => b[i].reset + RateWindow < b[j].reset
        <5> SUFFICES ASSUME NEW i \in 1 .. n, NEW j \in 1 .. n + 1, i < j
                     PROVE  /\ b[i].reset = b[j].reset => j < i + RateLimit
                            /\ b[i].reset # b[j].reset => b[i].reset + RateWindow < b[j].reset
          BY <1>1
        <5>1. CASE j \in 1 .. n
          BY <1>2, <1>4, <5>1
        <5>2. CASE j = n + 1
          BY <1>1, <1>2, <1>3, <2>1, <2>2, <2>3, <5>2
        <5> QED
          BY <1>1, <5>1, <5>2
      <4>3. \A i \in 1 .. n + 1 :
              (i = 1 \/ b[i - 1].reset # b[i].reset) => b[i].reset = b[i].at + RateWindow
        <5>1. ASSUME NEW i \in 1 .. n, i = 1 \/ b[i - 1].reset # b[i].reset
              PROVE  b[i].reset = b[i].at + RateWindow
          <6>1. i = 1 \/ i - 1 \in 1 .. n
            BY <1>1
          <6> QED
            BY <1>2, <1>4, <5>1, <6>1
        <5>2. ASSUME NEW i \in 1 .. n + 1, i = n + 1
              PROVE  ~(i = 1 \/ b[i - 1].reset # b[i].reset)
          <6>1. i - 1 = n /\ i # 1
            BY <1>1, <3>1, <5>2
          <6> QED
            BY <1>2, <1>3, <2>1, <3>1, <5>2, <6>1
        <5> QED
          BY <1>5, <5>1, <5>2
      <4> QED
        BY <1>2, <4>1, <4>2, <4>3 DEF Windows
    <3>4. Tells(data, b)
      <4>1. \A i \in 1 .. n + 1 :
              /\ b[i].reset <= data.reset
              /\ b[i].reset = data.reset => n + 1 < i + data.count
              /\ b[i].reset # data.reset => b[i].reset + RateWindow < data.reset
        <5>1. ASSUME NEW i \in 1 .. n
              PROVE  /\ b[i].reset <= data.reset
                     /\ b[i].reset = data.reset => n + 1 < i + data.count
                     /\ b[i].reset # data.reset => b[i].reset + RateWindow < data.reset
          BY <1>1, <1>2, <2>1, <2>2
        <5>2. ASSUME NEW i \in 1 .. n + 1, i = n + 1
              PROVE  b[i].reset = data.reset /\ n + 1 < i + data.count
          BY <1>1, <1>2, <1>3, <5>2
        <5> QED
          BY <1>3, <1>5, <5>1, <5>2
      <4>2. Len(b) = n + 1 /\ b # <<>> /\ b[Len(b)].reset = data.reset
        BY <1>2, <1>3, Zenon
      <4>3. \A i \in DOMAIN b :
              /\ b[i].reset <= data.reset
              /\ b[i].reset = data.reset => Len(b) < i + data.count
              /\ b[i].reset # data.reset => b[i].reset + RateWindow < data.reset
        BY <1>2, <4>1, Zenon
      <4>4. data.text = TRUE /\ data.count > 0
        BY <1>3
      <4> QED
        BY <4>2, <4>3, <4>4, Zenon DEF Tells
    <3> QED
      BY <1>3, <2>3, <3>3, <3>4 DEF data
  <2>4. CASE ~(data.count <= RateLimit)
    <3>1. Answered(data, at) = admitted
      BY <1>3, <2>4
    <3> HIDE DEF data, n
    <3>2. Tells(data, admitted)
      BY <1>1, <1>3, <2>1, <2>2, <2>4 DEF Tells, n
    <3> QED
      BY <3>1, <3>2 DEF data
  <2> QED
    BY <2>3, <2>4
<1>7. CASE ~(file.text /\ file.reset >= at)
  <2>1. data.count = 1 /\ data.reset = at + RateWindow
    BY <1>7 DEF Counted
  <2>2. \A i \in 1 .. n : admitted[i].reset < at
    <3>1. CASE file.text
      BY <1>1, <1>7, <3>1 DEF Tells
    <3>2. CASE ~file.text
      BY <1>1, <3>2 DEF Tells
    <3> QED
      BY <3>1, <3>2
  <2> HIDE DEF b, data, n, new
  <2>3. Windows(b)
    <3>1. \A i \in 1 .. n + 1 : b[i].at <= b[i].reset /\ b[i].reset <= b[i].at + RateWindow
      BY <1>1, <1>2, <1>3, <1>4, <2>1
    <3>2. \A i, j \in 1 .. n + 1 :
            i < j => /\ b[i].reset = b[j].reset => j < i + RateLimit
                     /\ b[i].reset # b[j].reset => b[i].reset + RateWindow < b[j].reset
      <4> SUFFICES ASSUME NEW i \in 1 .. n, NEW j \in 1 .. n + 1, i < j
                   PROVE  /\ b[i].reset = b[j].reset => j < i + RateLimit
                          /\ b[i].reset # b[j].reset => b[i].reset + RateWindow < b[j].reset
        BY <1>1
      <4>1. CASE j \in 1 .. n
        BY <1>2, <1>4, <4>1
      <4>2. CASE j = n + 1
        BY <1>1, <1>2, <1>3, <2>1, <2>2, <4>2
      <4> QED
        BY <1>1, <4>1, <4>2
    <3>3. \A i \in 1 .. n + 1 :
            (i = 1 \/ b[i - 1].reset # b[i].reset) => b[i].reset = b[i].at + RateWindow
      <4>1. ASSUME NEW i \in 1 .. n, i = 1 \/ b[i - 1].reset # b[i].reset
            PROVE  b[i].reset = b[i].at + RateWindow
        <5>1. i = 1 \/ i - 1 \in 1 .. n
          BY <1>1
        <5> QED
          BY <1>2, <1>4, <4>1, <5>1
      <4>2. ASSUME NEW i \in 1 .. n + 1, i = n + 1
            PROVE  b[i].reset = b[i].at + RateWindow
        BY <1>2, <1>3, <2>1, <4>2
      <4> QED
        BY <1>5, <4>1, <4>2
    <3> QED
      BY <1>2, <3>1, <3>2, <3>3 DEF Windows
  <2>4. Tells(data, b)
    <3>1. \A i \in 1 .. n : b[i].reset + RateWindow < data.reset
      BY <1>1, <1>2, <2>1, <2>2
    <3>2. b[n + 1].reset = data.reset
      BY <1>2, <1>3
    <3>3. \A i \in 1 .. n + 1 :
            /\ b[i].reset <= data.reset
            /\ b[i].reset = data.reset => n + 1 < i + data.count
            /\ b[i].reset # data.reset => b[i].reset + RateWindow < data.reset
      <4>1. \A i \in 1 .. n : b[i].reset \in Nat /\ b[i].reset < data.reset
        BY <1>1, <1>2, <1>3, <3>1
      <4> QED
        BY <1>1, <1>3, <2>1, <3>1, <3>2, <4>1
    <3> QED
      BY <1>2, <1>3, <3>2, <3>3 DEF Tells
  <2> QED
    BY <1>1, <1>3, <2>1, <2>3, <2>4 DEF data
<1> QED
  BY <1>6, <1>7

(* What a request writes is a text of the file, and what it adds an admission. *)
LEMMA CountedTypes ==
  ASSUME RateTypeOK, NEW file \in RateData, NEW at \in Second
  PROVE  /\ Counted(file, at) \in RateData
         /\ Answered(file, at) \in Seq(Admission)
         /\ Empty \in RateData
<1>1. /\ at \in 0 .. MaxSecond /\ RateWindow \in Nat /\ MaxSecond \in Nat
      /\ file.count \in Nat /\ file.reset \in 0 .. MaxSecond + RateWindow
  BY RateAssumption DEF Second, RateData
<1>2. at + RateWindow \in 0 .. MaxSecond + RateWindow /\ file.count + 1 \in Nat
      /\ 0 \in 0 .. MaxSecond + RateWindow
  BY <1>1
<1>3. Counted(file, at) \in RateData /\ Empty \in RateData
  BY <1>2 DEF Counted, RateData, Empty
<1>4. [at |-> at, reset |-> file.reset] \in Admission
  BY <1>1 DEF Admission
<1>5. Answered(file, at) \in Seq(Admission)
  BY <1>4 DEF Answered, RateTypeOK
<1> QED
  BY <1>3, <1>5

(* The types.                                                                  *)
LEMMA RateTypesStep == RateTypeOK /\ [RateNext]_rateVars => RateTypeOK'
<1> SUFFICES ASSUME RateTypeOK, [RateNext]_rateVars PROVE RateTypeOK'
  OBVIOUS
<1> DEFINE Call == [step: RateStep, at: Second, data: RateData]
<1>1. /\ rateCall \in [RateRequest -> Call] /\ rateFile \in RateData /\ second \in Second
      /\ second \in 0 .. MaxSecond /\ MaxSecond \in Nat /\ MaxRequests \in Nat
      /\ 0 \in Second
  BY RateAssumption DEF RateTypeOK, Second
<1>2. Empty \in RateData /\ NoRateCall \in Call
  BY <1>1, CountedTypes DEF NoRateCall, RateStep
<1>3. ASSUME NEW r \in RateRequest, NEW from, NEW to \in Call, Advance(r, from, to)
      PROVE  rateCall' \in [RateRequest -> Call]
  BY <1>1, <1>3 DEF Advance
<1>4. CASE RateTick
  BY <1>1, <1>4 DEF RateTick, RateTypeOK, Second
<1>5. ASSUME NEW r \in RateRequest, RateBegin(r) PROVE RateTypeOK'
  <2>1. [NoRateCall EXCEPT !.step = "look", !.at = second] \in Call
    BY <1>1, <1>2 DEF RateStep, NoRateCall
  <2>2. rateMade' \in 0 .. MaxRequests
    BY <1>1, <1>5 DEF RateBegin, RateTypeOK
  <2>3. rateRaced' \in BOOLEAN
    BY <1>5 DEF RateBegin, RateTypeOK
  <2>4. rateCall' \in [RateRequest -> Call]
    BY <1>3, <1>5, <2>1 DEF RateBegin
  <2> QED
    BY <1>5, <2>2, <2>3, <2>4 DEF RateBegin, RateTypeOK
<1>6. ASSUME NEW r \in RateRequest, RateLook(r) PROVE RateTypeOK'
  <2>1. rateCall[r] \in Call /\ rateCall[r].at \in Second
    BY <1>1
  <2>2. Counted(Empty, rateCall[r].at) \in RateData
    BY <1>2, <2>1, CountedTypes
  <2>3. /\ [rateCall[r] EXCEPT !.step = "decode"] \in Call
        /\ [rateCall[r] EXCEPT !.step = "lock", !.data = Counted(Empty, rateCall[r].at)] \in Call
    BY <2>1, <2>2 DEF RateStep
  <2> QED
    BY <1>3, <1>6, <2>3 DEF RateLook, RateTypeOK
<1>7. ASSUME NEW r \in RateRequest, RateDecode(r) PROVE RateTypeOK'
  <2>1. rateCall[r] \in Call /\ rateCall[r].at \in Second
    BY <1>1
  <2>2. Counted(rateFile, rateCall[r].at) \in RateData
    BY <1>1, <2>1, CountedTypes
  <2>3. [rateCall[r] EXCEPT !.step = "lock", !.data = Counted(rateFile, rateCall[r].at)] \in Call
    BY <2>1, <2>2 DEF RateStep
  <2> QED
    BY <1>3, <1>7, <2>3 DEF RateDecode, RateTypeOK
<1>8. ASSUME NEW r \in RateRequest, RateTruncate(r) PROVE RateTypeOK'
  <2>1. [rateCall[r] EXCEPT !.step = "write"] \in Call
    BY <1>1 DEF RateStep
  <2> QED
    BY <1>2, <1>3, <1>8, <2>1 DEF RateTruncate, RateTypeOK
<1>9. ASSUME NEW r \in RateRequest, RateWrite(r) PROVE RateTypeOK'
  <2>1. rateCall[r].data \in RateData /\ rateCall[r].at \in Second
    BY <1>1
  <2>2. admitted' \in Seq(Admission)
    BY <1>9, <2>1, CountedTypes DEF RateWrite
  <2> QED
    BY <1>2, <1>3, <1>9, <2>1, <2>2 DEF RateWrite, RateTypeOK
<1>10. ASSUME NEW r \in RateRequest, RateCut(r) PROVE RateTypeOK'
  BY <1>2, <1>3, <1>10 DEF RateCut, RateTypeOK
<1>11. CASE UNCHANGED rateVars
  BY <1>11 DEF rateVars, RateTypeOK
<1> QED
  BY <1>4, <1>5, <1>6, <1>7, <1>8, <1>9, <1>10, <1>11 DEF RateNext

(* The clock, and requests that do not overlap.                                *)
LEMMA SecondsStep == RateInv /\ [RateNext]_rateVars => SecondsInv'
<1> SUFFICES ASSUME RateInv, [RateNext]_rateVars PROVE SecondsInv'
  OBVIOUS
<1> DEFINE seconds == {admitted[i].at : i \in DOMAIN admitted}
<1>1. /\ second \in Nat /\ \A r \in RateRequest : rateCall[r].at \in Nat
      /\ admitted \in Seq(Admission) /\ Len(admitted) \in Nat
      /\ \A i \in DOMAIN admitted : admitted[i].at \in Nat
      /\ DOMAIN rateCall = RateRequest
  <2>1. admitted \in Seq(Admission) /\ \A i \in DOMAIN admitted : admitted[i] \in Admission
    BY DEF RateInv, RateTypeOK
  <2>2. Second \subseteq Nat
    BY DEF Second
  <2>3. second \in Second /\ rateCall \in [RateRequest -> [step: RateStep, at: Second, data: RateData]]
    BY DEF RateInv, RateTypeOK
  <2>4. \A i \in DOMAIN admitted : admitted[i].at \in Nat
    BY <2>1, <2>2 DEF Admission
  <2>5. DOMAIN rateCall = RateRequest /\ \A r \in RateRequest : rateCall[r].at \in Nat
    BY <2>2, <2>3
  <2> QED
    BY <2>1, <2>2, <2>3, <2>4, <2>5
<1>2. SecondsInv
  BY DEF RateInv
<1>3. CASE RateTick
  <2>1. second' = second + 1 /\ UNCHANGED <<rateCall, admitted, rateRaced>>
    BY <1>3 DEF RateTick
  <2> QED
    BY <1>1, <1>2, <2>1 DEF SecondsInv
<1>4. ASSUME NEW r \in RateRequest, RateBegin(r) PROVE SecondsInv'
  <2> DEFINE call == [NoRateCall EXCEPT !.step = "look", !.at = second]
  <2>1. call.at = second /\ second <= second
    BY <1>1 DEF NoRateCall
  <2>2. rateCall' = [rateCall EXCEPT ![r] = call]
    BY <1>4 DEF RateBegin, Advance
  <2> HIDE DEF call
  <2>3. \A q \in RateRequest : rateCall'[q] = IF q = r THEN call ELSE rateCall[q]
    BY <1>1, <2>2
  <2>4. /\ rateRaced' = (rateRaced \/ \E q \in RateRequest : rateCall[q].step # "idle")
        /\ UNCHANGED <<second, admitted>>
    BY <1>4 DEF RateBegin
  <2> QED
    BY <1>2, <2>1, <2>3, <2>4 DEF SecondsInv
<1>5. ASSUME NEW r \in RateRequest, RateLook(r) \/ RateDecode(r) \/ RateTruncate(r)
      PROVE  SecondsInv'
  <2>1. /\ rateCall[r].step # "idle"
        /\ \A q \in RateRequest : q # r => rateCall'[q] = rateCall[q]
        /\ rateCall'[r].at = rateCall[r].at
        /\ UNCHANGED <<second, admitted, rateRaced>>
    <3>1. rateCall[r] \in [step: RateStep, at: Second, data: RateData]
      BY DEF RateInv, RateTypeOK
    <3>2. /\ rateCall[r].step # "idle"
          /\ \E call : rateCall' = [rateCall EXCEPT ![r] = call] /\ call.at = rateCall[r].at
      <4>1. CASE RateLook(r)
        <5> DEFINE call == IF rateFile.text
                          THEN [rateCall[r] EXCEPT !.step = "decode"]
                          ELSE [rateCall[r] EXCEPT !.step = "lock",
                                                   !.data = Counted(Empty, rateCall[r].at)]
        <5>1. rateCall' = [rateCall EXCEPT ![r] = call] /\ rateCall[r].step # "idle"
          BY <4>1 DEF RateLook, Advance
        <5>2. call.at = rateCall[r].at
          BY <3>1
        <5> HIDE DEF call
        <5> QED
          BY <5>1, <5>2
      <4>2. CASE RateDecode(r)
        <5> DEFINE call == [rateCall[r] EXCEPT !.step = "lock",
                                              !.data = Counted(rateFile, rateCall[r].at)]
        <5>1. rateCall' = [rateCall EXCEPT ![r] = call] /\ rateCall[r].step # "idle"
          BY <4>2 DEF RateDecode, Advance
        <5>2. call.at = rateCall[r].at
          BY <3>1
        <5> HIDE DEF call
        <5> QED
          BY <5>1, <5>2
      <4>3. CASE RateTruncate(r)
        <5> DEFINE call == [rateCall[r] EXCEPT !.step = "write"]
        <5>1. rateCall' = [rateCall EXCEPT ![r] = call] /\ rateCall[r].step # "idle"
          BY <4>3 DEF RateTruncate, Advance
        <5>2. call.at = rateCall[r].at
          BY <3>1
        <5> HIDE DEF call
        <5> QED
          BY <5>1, <5>2
      <4> QED
        BY <1>5, <4>1, <4>2, <4>3
    <3> QED
      BY <1>1, <1>5, <3>2 DEF RateLook, RateDecode, RateTruncate
  <2> QED
    BY <1>2, <2>1 DEF SecondsInv
<1>6. ASSUME NEW r \in RateRequest, RateWrite(r) PROVE SecondsInv'
  <2>1. /\ rateCall[r].step = "write"
        /\ \A q \in RateRequest : rateCall'[q] = IF q = r THEN NoRateCall ELSE rateCall[q]
        /\ admitted' = Answered(rateCall[r].data, rateCall[r].at)
        /\ UNCHANGED <<second, rateRaced>>
    BY <1>1, <1>6 DEF RateWrite, Advance
  <2>2. \A i \in DOMAIN admitted' : \/ i \in DOMAIN admitted /\ admitted'[i] = admitted[i]
                                    \/ admitted'[i].at = rateCall[r].at
    BY <1>1, <2>1 DEF Answered
  <2>3. \A i \in DOMAIN admitted' : admitted'[i].at <= second
    BY <1>2, <2>2 DEF SecondsInv
  <2>4. \A q \in RateRequest : rateCall'[q].at <= second
    BY <1>1, <1>2, <2>1 DEF SecondsInv, NoRateCall
  <2>5. ~rateRaced => \A q \in RateRequest : rateCall'[q].step = "idle"
    BY <1>2, <2>1 DEF SecondsInv, NoRateCall
  <2> QED
    BY <2>1, <2>3, <2>4, <2>5 DEF SecondsInv
<1>7. ASSUME NEW r \in RateRequest, RateCut(r) PROVE SecondsInv'
  <2>1. /\ \A q \in RateRequest : rateCall'[q] = IF q = r THEN NoRateCall ELSE rateCall[q]
        /\ rateRaced' = TRUE /\ UNCHANGED <<second, admitted>>
    BY <1>1, <1>7 DEF RateCut, Advance
  <2> QED
    BY <1>1, <1>2, <2>1 DEF SecondsInv, NoRateCall
<1>8. CASE UNCHANGED rateVars
  BY <1>2, <1>8 DEF rateVars, SecondsInv
<1> QED
  BY <1>3, <1>4, <1>5, <1>6, <1>7, <1>8 DEF RateNext

(* The count of the file.                                                      *)
LEMMA CountStep == RateInv /\ [RateNext]_rateVars => CountInv'
<1> SUFFICES ASSUME RateInv, [RateNext]_rateVars, ~rateRaced' PROVE CountInv'
  BY DEF CountInv
<1> DEFINE Call == [step: RateStep, at: Second, data: RateData]
           ready(data, at) == Windows(Answered(data, at)) /\ Tells(data, Answered(data, at))
           early == {"idle", "look", "decode"}
<1>1. /\ RateTypeOK /\ SecondsInv /\ CountInv
      /\ rateCall \in [RateRequest -> Call] /\ rateFile \in RateData
  BY DEF RateInv, RateTypeOK
<1>2. Empty \in RateData
  BY RateAssumption DEF Empty, RateData
<1>3. CASE RateTick \/ UNCHANGED rateVars
  <2>1. UNCHANGED <<rateFile, rateCall, admitted, rateRaced>>
    BY <1>3 DEF RateTick, rateVars
  <2> QED
    BY <1>1, <2>1 DEF CountInv, Answered
<1>4. ASSUME NEW r \in RateRequest, rateCall[r].step \in early,
             Windows(admitted), Tells(rateFile, admitted), NEW call \in Call,
             rateCall' = [rateCall EXCEPT ![r] = call],
             \A q \in RateRequest \ {r} : rateCall[q].step = "idle",
             call.step \notin early => ready(call.data, call.at),
             UNCHANGED <<rateFile, admitted>>
      PROVE  CountInv'
  <2>1. \A q \in RateRequest : rateCall'[q] = IF q = r THEN call ELSE rateCall[q]
    BY <1>1, <1>4
  <2>2. \A q \in RateRequest : rateCall'[q].step \in {"lock", "write"} => q = r
    BY <1>4, <2>1
  <2>3. "lock" \notin early /\ "write" \notin early
    OBVIOUS
  <2> QED
    BY <1>4, <2>1, <2>2, <2>3 DEF CountInv, Answered
<1>5. ASSUME NEW r \in RateRequest, rateCall[r].step \in {"look", "decode"}, ~rateRaced
      PROVE  /\ \A q \in RateRequest \ {r} : rateCall[q].step = "idle"
             /\ Windows(admitted) /\ Tells(rateFile, admitted)
             /\ \A i \in DOMAIN admitted : admitted[i].at <= rateCall[r].at
             /\ rateCall[r] \in Call /\ rateCall[r].at \in Second
  <2>1. \A q \in RateRequest \ {r} : rateCall[q].step = "idle"
    BY <1>1, <1>5 DEF SecondsInv
  <2>2. \A q \in RateRequest : rateCall[q].step \in early
    BY <1>5, <2>1
  <2>3. \A i \in DOMAIN admitted : admitted[i].at <= rateCall[r].at
    BY <1>1, <1>5 DEF SecondsInv
  <2> QED
    BY <1>1, <1>5, <2>1, <2>2, <2>3 DEF CountInv
<1>6. ASSUME NEW r \in RateRequest, RateBegin(r) PROVE CountInv'
  <2>1. ~rateRaced /\ \A q \in RateRequest : rateCall[q].step = "idle"
    BY <1>6 DEF RateBegin
  <2> DEFINE call == [NoRateCall EXCEPT !.step = "look", !.at = second]
  <2>2. call \in Call /\ call.step = "look"
    BY <1>1, <1>2, RateAssumption DEF NoRateCall, RateStep, RateTypeOK, Second
  <2>3. Windows(admitted) /\ Tells(rateFile, admitted)
    BY <1>1, <2>1 DEF CountInv
  <2>4. rateCall' = [rateCall EXCEPT ![r] = call] /\ UNCHANGED <<rateFile, admitted>>
    BY <1>6 DEF RateBegin, Advance
  <2> HIDE DEF call
  <2> QED
    BY <1>4, <2>1, <2>2, <2>3, <2>4
<1>7. ASSUME NEW r \in RateRequest, RateLook(r) PROVE CountInv'
  <2>1. ~rateRaced /\ rateCall[r].step = "look" /\ UNCHANGED <<rateFile, admitted>>
    BY <1>7 DEF RateLook, Advance
  <2>2. CASE rateFile.text
    <3> DEFINE call == [rateCall[r] EXCEPT !.step = "decode"]
    <3>1. rateCall' = [rateCall EXCEPT ![r] = call]
      BY <1>7, <2>2 DEF RateLook, Advance
    <3>2. call \in Call /\ call.step = "decode"
      BY <1>5, <2>1 DEF RateStep
    <3> HIDE DEF call
    <3> QED
      BY <1>4, <1>5, <2>1, <3>1, <3>2
  <2>3. CASE ~rateFile.text
    <3> DEFINE at == rateCall[r].at
               call == [rateCall[r] EXCEPT !.step = "lock", !.data = Counted(Empty, at)]
    <3>1. rateCall' = [rateCall EXCEPT ![r] = call]
      BY <1>7, <2>3 DEF RateLook, Advance
    <3>2. Counted(Empty, at) \in RateData
      BY <1>1, <1>2, <1>5, <2>1, CountedTypes
    <3>3. call \in Call /\ call.data = Counted(Empty, at) /\ call.at = at
      BY <1>5, <2>1, <3>2 DEF RateStep
    <3>4. Tells(Empty, admitted)
      BY <1>5, <2>1, <2>3 DEF Tells, Empty
    <3>5. ready(Counted(Empty, at), at)
      BY <1>1, <1>2, <1>5, <2>1, <3>4, Counting
    <3> HIDE DEF call, at
    <3> QED
      BY <1>4, <1>5, <2>1, <3>1, <3>3, <3>5
  <2> QED
    BY <2>2, <2>3
<1>8. ASSUME NEW r \in RateRequest, RateDecode(r) PROVE CountInv'
  <2>1. ~rateRaced /\ rateCall[r].step = "decode" /\ UNCHANGED <<rateFile, admitted>>
    BY <1>8 DEF RateDecode, Advance
  <2> DEFINE at == rateCall[r].at
             call == [rateCall[r] EXCEPT !.step = "lock", !.data = Counted(rateFile, at)]
  <2>2. rateCall' = [rateCall EXCEPT ![r] = call]
    BY <1>8 DEF RateDecode, Advance
  <2>3. Counted(rateFile, at) \in RateData
    BY <1>1, <1>5, <2>1, CountedTypes
  <2>4. call \in Call /\ call.data = Counted(rateFile, at) /\ call.at = at
    BY <1>5, <2>1, <2>3 DEF RateStep
  <2>5. ready(Counted(rateFile, at), at)
    BY <1>1, <1>5, <2>1, Counting
  <2> HIDE DEF call, at
  <2> QED
    BY <1>4, <1>5, <2>1, <2>2, <2>4, <2>5
<1>9. ASSUME NEW r \in RateRequest, RateTruncate(r) PROVE CountInv'
  <2>1. /\ ~rateRaced /\ rateCall[r].step = "lock" /\ UNCHANGED admitted
        /\ rateCall' = [rateCall EXCEPT ![r] = [rateCall[r] EXCEPT !.step = "write"]]
    BY <1>9 DEF RateTruncate, Advance
  <2>2. \A q \in RateRequest :
          /\ rateCall'[q].data = rateCall[q].data /\ rateCall'[q].at = rateCall[q].at
          /\ q # r => rateCall'[q].step = rateCall[q].step
          /\ rateCall'[r].step = "write"
    BY <1>1, <2>1
  <2> QED
    BY <1>1, <2>1, <2>2 DEF CountInv, Answered
<1>10. ASSUME NEW r \in RateRequest, RateWrite(r) PROVE CountInv'
  <2>1. /\ ~rateRaced /\ rateCall[r].step = "write" /\ rateFile' = rateCall[r].data
        /\ admitted' = Answered(rateCall[r].data, rateCall[r].at)
        /\ rateCall' = [rateCall EXCEPT ![r] = NoRateCall]
    BY <1>10 DEF RateWrite, Advance
  <2>2. \A q \in RateRequest : rateCall'[q].step = "idle"
    BY <1>1, <2>1 DEF SecondsInv, NoRateCall
  <2>3. ready(rateCall[r].data, rateCall[r].at)
    BY <1>1, <2>1 DEF CountInv
  <2> QED
    BY <2>1, <2>2, <2>3 DEF CountInv
<1>11. ASSUME NEW r \in RateRequest, RateCut(r) PROVE CountInv'
  BY <1>11 DEF RateCut
<1> QED
  BY <1>3, <1>6, <1>7, <1>8, <1>9, <1>10, <1>11 DEF RateNext

(* The invariant holds for any limit, window and number of requests.           *)
LEMMA RateInvariant == RateSpec => []RateInv
<1>1. RateInit => RateInv
  <2> SUFFICES ASSUME RateInit PROVE RateInv
    OBVIOUS
  <2>1. Empty \in RateData /\ 0 \in Second
    BY RateAssumption DEF Empty, RateData, Second
  <2>2. RateTypeOK
    <3>1. NoRateCall \in [step: RateStep, at: Second, data: RateData]
      BY <2>1 DEF NoRateCall, RateStep
    <3>2. rateCall \in [RateRequest -> [step: RateStep, at: Second, data: RateData]]
      BY <3>1 DEF RateInit
    <3>3. rateMade \in 0 .. MaxRequests /\ admitted \in Seq(Admission)
      BY RateAssumption DEF RateInit
    <3> QED
      BY <2>1, <3>2, <3>3 DEF RateInit, RateTypeOK
  <2>3. SecondsInv
    BY DEF RateInit, SecondsInv, NoRateCall
  <2>4. CountInv
    BY DEF RateInit, CountInv, Windows, Tells, NoRateCall, Empty
  <2> QED
    BY <2>2, <2>3, <2>4 DEF RateInv
<1>2. RateInv /\ [RateNext]_rateVars => RateInv'
  BY RateTypesStep, SecondsStep, CountStep DEF RateInv
<1> QED
  BY <1>1, <1>2, PTL DEF RateSpec

(* The file of the limit and the requests have their types.                    *)
THEOREM RateTypes == RateSpec => []RateTypeOK
<1>1. RateInv => RateTypeOK
  BY DEF RateInv
<1> QED
  BY <1>1, RateInvariant, PTL

(* One after the other, at most twice the limit less one requests are admitted *)
(* in any time as long as a window.                                            *)
THEOREM WindowsAdmit == RateSpec => []AdmittedPerWindow
<1>1. RateInv => AdmittedPerWindow
  BY SpanOfWindows DEF RateInv, RateTypeOK, CountInv, AdmittedPerWindow
<1> QED
  BY <1>1, RateInvariant, PTL
=============================================================================
