---------------------------- MODULE SafetyPipeline ----------------------------
(***************************************************************************)
(* wrapAction and secureAction of src/security-layer.js, with what they    *)
(* combine: the rules of src/safety-engine.js, the guards of               *)
(* src/injection-guard.js over the decodings of src/decoder.js, the policy *)
(* of src/tool-registry.js, and the list of recent breaches.               *)
(*                                                                         *)
(* A text is what the patterns find in it: the rules it triggers and the   *)
(* hits of the injection guard, with their scores.  Left out: the patterns *)
(* themselves, redaction, the controls and reasons of an answer, and the   *)
(* events that tell of it.                                                 *)
(***************************************************************************)
EXTENDS Naturals, Sequences, SequencesExt, FiniteSetsExt

CONSTANTS
  Wrapped,       \* calls of wrapAction
  ActionRequest, \* the requests they come with
  Leaks,         \* sets of leakage patterns that an output matches
  MaxBreaches,   \* breaches kept in memory: 1000 in the code
  MaxBlocked     \* bound: requests that the injection guard blocks

ASSUME BreachesAssumption == MaxBreaches \in Nat /\ MaxBlocked \in Nat

\* A request has these fields; its tools are a list.
ASSUME RequestAssumption ==
  \A request \in ActionRequest :
    /\ DOMAIN request = {"text", "mode", "tools", "confirmed", "dryRun", "permitted"}
    /\ request = [field \in DOMAIN request |-> request[field]]
    /\ request.tools \in Seq(ToSet(request.tools))

VARIABLES
  wrapped,     \* per call: its step, its request, and what was answered
  breaches,    \* breachHistory
  breachFile,  \* the log on disk
  blockedLog   \* history: the blocked requests of this process, in order

pipelineVars == <<wrapped, breaches, breachFile, blockedLog>>

-----------------------------------------------------------------------------
(* safety-engine.js                                                            *)

RuleWeight ==
  [pii |-> 18, credential |-> 28, jailbreak |-> 22, data_exfiltration |-> 30,
   self_harm |-> 38, violence |-> 34, cyber_abuse |-> 32, high_stakes |-> 16,
   fraud_illegal |-> 36, tool_risk |-> 24, destructive_system_command |-> 60]

\* In hundredths; a mode that is not known counts as balanced.
Multiplier(mode) == IF mode = "strict" THEN 82 ELSE IF mode = "exploratory" THEN 115 ELSE 100

AtMost(n, limit) == IF n <= limit THEN n ELSE limit

\* A rule counts once, however often it matches.
RulePoints(rules) ==
  LET points(rule) == IF rule \in rules THEN RuleWeight[rule] ELSE 0
  IN  points("pii") + points("credential") + points("jailbreak") + points("data_exfiltration")
        + points("self_harm") + points("violence") + points("cyber_abuse") + points("high_stakes")
        + points("fraud_illegal") + points("tool_risk") + points("destructive_system_command")

RiskScore(request) ==
  AtMost(RulePoints(request.text.rules) + AtMost(4 * Len(request.tools), 20), 100)

\* Slip: the score is multiplied where it should be divided.
SafetyDecision_Times(request) ==
  LET reached(threshold) == RiskScore(request) * Multiplier(request.mode) >= 100 * threshold
  IN  IF reached(60) THEN "block"
      ELSE IF reached(28) THEN "review"
      ELSE IF reached(12) THEN "allow_with_controls"
      ELSE "allow"

SafetyDecision(request) ==
  LET reached(threshold) == 100 * RiskScore(request) >= threshold * Multiplier(request.mode)
  IN  IF reached(60) THEN "block"
      ELSE IF reached(28) THEN "review"
      ELSE IF reached(12) THEN "allow_with_controls"
      ELSE "allow"

-----------------------------------------------------------------------------
(* injection-guard.js                                                          *)

\* Hits in a decoded text count 1.2 times, rounded, unless the pattern has hit
\* the text as it is.  One hit per pattern and kind of decoding counts.
InjectionScore(text) ==
  LET decoded == {h \in text.decoded : \A g \in text.plain : g.pattern # h.pattern}
  IN  MapThenSumSet(LAMBDA h : h.score, text.plain)
        + MapThenSumSet(LAMBDA h : AtMost((12 * h.score + 5) \div 10, 100), decoded)

InputDecision(text) ==
  IF InjectionScore(text) >= 80 THEN "block"
  ELSE IF InjectionScore(text) >= 40 THEN "review"
  ELSE "allow"

LeakWeight ==
  [system_config_leak |-> 20, credential_reflection |-> 25, pii_reflection |-> 22,
   blocked_content_leak |-> 24]

OutputBlocked(leaks) == \E leak \in leaks : LeakWeight[leak] >= 25

\* Slip: breaches are kept in the order in which they came.
LogBreach_Oldest(id) == SubSeq(Append(breaches, id), 1, AtMost(Len(breaches) + 1, MaxBreaches))

\* The history with one more breach, the newest first.
LogBreach(id) == SubSeq(<<id>> \o breaches, 1, AtMost(Len(breaches) + 1, MaxBreaches))

-----------------------------------------------------------------------------
(* tool-registry.js                                                            *)

ToolRisk ==
  [read_file |-> "low", web_search |-> "low", write_file |-> "medium",
   shell |-> "high", send_email |-> "high", delete_file |-> "critical"]

Policy(risk) ==
  [block |-> risk = "critical",
   confirm |-> risk # "low",
   dryRun |-> risk \in {"high", "critical"}]

\* permitted: tools whose permissions are allowed, all if nothing was said.
\* dryRun: tools to be run dry, or that have been.
ToolDecision(tool, request) ==
  IF tool \notin DOMAIN ToolRisk THEN "block"
  ELSE LET policy == Policy(ToolRisk[tool])
       IN  IF policy.block \/ tool \notin request.permitted THEN "block"
           ELSE IF policy.confirm /\ tool \notin request.confirmed THEN "review"
           ELSE IF policy.dryRun /\ tool \notin request.dryRun THEN "review"
           ELSE "allow"

-----------------------------------------------------------------------------
(* security-layer.js                                                           *)

\* The injection guard's decision on the input, over that of the rules.
Guarded(base, input) ==
  IF input = "block" THEN "block"
  ELSE IF input = "review" /\ base # "block" THEN "review"
  ELSE base

\* Slip: a tool that needs a review overrides whatever was decided before.
Verdict_ToolLast(request) ==
  LET of(decision) == \E t \in ToSet(request.tools) : ToolDecision(t, request) = decision
      guarded == Guarded(SafetyDecision(request), InputDecision(request.text))
  IN  IF of("block") THEN "block" ELSE IF of("review") THEN "review" ELSE guarded

\* secureAction: the rules decide, the injection guard may override them, and
\* the tools both.
Verdict(request) ==
  LET of(decision) == \E t \in ToSet(request.tools) : ToolDecision(t, request) = decision
      guarded == Guarded(SafetyDecision(request), InputDecision(request.text))
  IN  IF of("block") THEN "block"
      ELSE IF of("review") /\ guarded # "block" THEN "review"
      ELSE guarded

VerdictName == {"allow", "allow_with_controls", "review", "block"}
NoCall == [step |-> "none"]

WrappedCall ==
  [step: {"acting", "refused", "answered", "withheld", "threw"}, request: ActionRequest,
   verdict: VerdictName]

PipelineTypeOK ==
  /\ wrapped \in [Wrapped -> WrappedCall \cup {NoCall}]
  /\ breaches \in Seq(1 .. MaxBlocked)
  /\ breachFile \subseteq 1 .. MaxBlocked
  /\ blockedLog \in Seq(1 .. MaxBlocked)

PipelineInit ==
  /\ wrapped = [c \in Wrapped |-> NoCall]
  /\ breaches = <<>>
  /\ breachFile = {}
  /\ blockedLog = <<>>

\* One turn, up to the action.  Only "allow" lets it run.  A breach is put into
\* the list; its line is written if that succeeds.
WrapAction(c, request, writes) ==
  LET id == Len(blockedLog) + 1
      breach == InputDecision(request.text) = "block"
  IN  /\ wrapped[c] = NoCall
      /\ wrapped' = [wrapped EXCEPT ![c] =
           [step |-> IF Verdict(request) = "allow" THEN "acting" ELSE "refused",
            request |-> request, verdict |-> Verdict(request)]]
      /\ breach => id <= MaxBlocked
      /\ breaches' = IF breach THEN LogBreach(id) ELSE breaches
      /\ writes => breach
      /\ breachFile' = IF writes THEN breachFile \cup {id} ELSE breachFile
      /\ blockedLog' = IF breach THEN Append(blockedLog, id) ELSE blockedLog

\* An action that has run is answered as not executed if its output is blocked.
ActionEnds(c, leaks) ==
  /\ wrapped[c].step = "acting"
  /\ wrapped' = [wrapped EXCEPT ![c].step = IF OutputBlocked(leaks) THEN "withheld" ELSE "answered"]
  /\ UNCHANGED <<breaches, breachFile, blockedLog>>

ActionThrows(c) ==
  /\ wrapped[c].step = "acting"
  /\ wrapped' = [wrapped EXCEPT ![c].step = "threw"]
  /\ UNCHANGED <<breaches, breachFile, blockedLog>>

\* The caller has its answer.
Return(c) ==
  /\ wrapped[c] # NoCall /\ wrapped[c].step # "acting"
  /\ wrapped' = [wrapped EXCEPT ![c] = NoCall]
  /\ UNCHANGED <<breaches, breachFile, blockedLog>>

PipelineNext ==
  \E c \in Wrapped :
    \/ \E request \in ActionRequest, writes \in BOOLEAN : WrapAction(c, request, writes)
    \/ \E leaks \in Leaks : ActionEnds(c, leaks)
    \/ ActionThrows(c)
    \/ Return(c)

PipelineSpec == PipelineInit /\ [][PipelineNext]_pipelineVars

-----------------------------------------------------------------------------
Severity(verdict) ==
  CASE verdict = "allow" -> 0
    [] verdict = "allow_with_controls" -> 1
    [] verdict = "review" -> 2
    [] verdict = "block" -> 3

\* The verdict on a is no laxer than that on b.
AsStrict(a, b) == Severity(Verdict(a)) >= Severity(Verdict(b))

(* A verdict does not become laxer when the mode becomes stricter, when one    *)
(* more tool is asked for, or when a confirmation, a dry run or a permission   *)
(* is withdrawn.                                                               *)
VerdictMonotone ==
  \A c \in Wrapped : wrapped[c] # NoCall =>
    LET request == wrapped[c].request
        in(mode) == [request EXCEPT !.mode = mode]
    IN  /\ AsStrict(in("strict"), in("balanced"))
        /\ AsStrict(in("balanced"), in("exploratory"))
        /\ \A t \in DOMAIN ToolRisk :
             /\ AsStrict([request EXCEPT !.tools = Append(@, t)], request)
             /\ AsStrict([request EXCEPT !.confirmed = @ \ {t}], request)
             /\ AsStrict([request EXCEPT !.dryRun = @ \ {t}], request)
             /\ AsStrict([request EXCEPT !.permitted = @ \ {t}], request)

(* The list of breaches, which the stream and the sentinel read, has the       *)
(* latest blocked requests of the process, the newest first, also once it is   *)
(* full and if lines could not be written.                                     *)
BreachesLatest ==
  /\ Len(breaches) = AtMost(Len(blockedLog), MaxBreaches)
  /\ \A i \in DOMAIN breaches : breaches[i] = blockedLog[Len(blockedLog) + 1 - i]
=============================================================================
