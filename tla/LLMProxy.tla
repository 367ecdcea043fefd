------------------------------- MODULE LLMProxy -------------------------------
(***************************************************************************)
(* src/llm-proxy.js with the limiter of src/rate-limiter.js: one proxy     *)
(* serves all requests of a server, each an asynchronous pipeline, and     *)
(* they share one budget, that of the limiter under the proxy's key.       *)
(*                                                                         *)
(* Between two awaits or yields a pipeline runs alone.  In process() the   *)
(* consent check, the budget check and the first call of the worker are in *)
(* one such turn; processStream() yields between the checks and its call;  *)
(* the calls of later tool rounds check nothing.  The cost is recorded     *)
(* turns after the call, when the worker has answered.                     *)
(*                                                                         *)
(* Money is counted in units: an estimate is what checkRateLimit is asked  *)
(* for, a cost what the tokens of one call of the worker come to.          *)
(* spentThisMonth always equals spentToday (neither is ever reset) and the *)
(* monthly budget of every plan is the greater one, so that its check      *)
(* never decides.  Left out: verdicts of the guards other than whether a   *)
(* request goes on (a guardian that fails lets it pass); a proxy without   *)
(* an endpoint (dry run), which calls nobody and records nothing.          *)
(*                                                                         *)
(* Definitions commented "Slip" are not part of the model: each is a way   *)
(* the definition after it could have been coded wrongly.                  *)
(***************************************************************************)
EXTENDS Naturals, FiniteSets

CONSTANTS
  Req,        \* requests that can be in flight at once
  Budgets,    \* dailyUsd of the plans (DEFAULT_BUDGETS)
  Estimate,   \* estimated costs
  MaxCost,    \* the most one call of the worker can cost
  MaxDepth    \* the depth at which _callLLMWithTools calls for the last time (5)

ASSUME ReqAssumption == IsFiniteSet(Req)
ASSUME MoneyAssumption == Budgets \subseteq Nat /\ MaxCost \in Nat /\ Estimate \subseteq Nat
ASSUME DepthAssumption == MaxDepth \in Nat

VARIABLES
  req,       \* each request: where its pipeline waits, and what it carries
  budget,    \* budget.dailyUsd of the limiter
  spent,     \* and its spentToday
  consent    \* whether checkConsent allows the proxy's user

vars == <<req, budget, spent, consent>>

Cost == 0 .. MaxCost

Idle == [step |-> "idle", kind |-> "process", needs |-> FALSE,
         estimate |-> 0, depth |-> 0, used |-> 0, bare |-> 0]

(* kind: process() or processStream(); needs: requireConsent; depth: tool       *)
(* rounds so far; used: what the calls of the worker have cost (history); bare: *)
(* how many were made while the consent it needs was not there (history).       *)
Request == [step: {"idle", "guardian", "meta", "worker", "output", "report"},
            kind: {"process", "stream"}, needs: BOOLEAN,
            estimate: Estimate \cup {0}, depth: 0 .. MaxDepth,
            used: 0 .. MaxCost * (MaxDepth + 1), bare: 0 .. MaxDepth + 1]

TypeOK ==
  /\ req \in [Req -> Request]
  /\ budget \in Budgets
  /\ spent \in Nat
  /\ consent \in BOOLEAN

Init ==
  /\ req = [r \in Req |-> Idle]
  /\ budget \in Budgets
  /\ spent = 0
  /\ consent = FALSE

-----------------------------------------------------------------------------
(* Guards before the worker. *)

\* A request that the pattern guard lets pass waits for the guardian.
Arrive(r, kind, needs, estimate) ==
  /\ req[r] = Idle
  /\ req' = [req EXCEPT ![r] = [Idle EXCEPT !.step = "guardian", !.kind = kind,
                                            !.needs = needs, !.estimate = estimate]]
  /\ UNCHANGED <<budget, spent, consent>>

\* Slip: only the estimate is compared with the budget.
WithinBudget_Single(r) == req[r].estimate <= budget

\* checkRateLimit
WithinBudget(r) == spent + req[r].estimate <= budget

Consented(r) == consent \/ ~req[r].needs

\* What a call of the worker adds to the calls without consent.
Bare(r) == IF req[r].needs /\ ~consent THEN 1 ELSE 0

\* Safety engine, consent and budget; process() then calls the worker, while
\* processStream() first yields its "meta" event.
Admit(r) ==
  /\ req[r].step = "guardian"
  /\ Consented(r)
  /\ WithinBudget(r)
  /\ req' = IF req[r].kind = "process"
              THEN [req EXCEPT ![r].step = "worker", ![r].bare = @ + Bare(r)]
              ELSE [req EXCEPT ![r].step = "meta"]
  /\ UNCHANGED <<budget, spent, consent>>

\* One of the guards says no.
Reject(r) ==
  /\ req[r].step = "guardian"
  /\ req' = [req EXCEPT ![r] = Idle]
  /\ UNCHANGED <<budget, spent, consent>>

-----------------------------------------------------------------------------
(* The worker. *)

\* The consumer of a stream asks for the event after "meta".
StreamCall(r) ==
  /\ req[r].step = "meta"
  /\ req' = [req EXCEPT ![r].step = "worker", ![r].bare = @ + Bare(r)]
  /\ UNCHANGED <<budget, spent, consent>>

\* The cost that recordCost gets: that of the result the tool rounds end with,
\* and nothing for a stream.
Recorded(r, cost) == IF req[r].kind = "process" THEN cost ELSE 0

\* Slip: the depth is not passed on (the costs of two rounds stand for all).
ToolRound_Forever(r, cost) ==
  /\ req[r].step = "worker"
  /\ req[r].kind = "process"
  /\ req' = [req EXCEPT ![r].used = (@ + cost) % (MaxCost + 1)]
  /\ UNCHANGED <<budget, spent, consent>>

\* The worker asks for tools: they run, and it is called again, unless this was
\* the last call allowed; then the result is a text of zero tokens.
ToolRound(r, cost) ==
  /\ req[r].step = "worker"
  /\ req[r].kind = "process"
  /\ IF req[r].depth < MaxDepth
       THEN req' = [req EXCEPT ![r].depth = @ + 1, ![r].used = @ + cost,
                               ![r].bare = @ + Bare(r)]
       ELSE req' = [req EXCEPT ![r].step = "output", ![r].used = @ + cost]
  /\ UNCHANGED <<budget, spent, consent>>

\* The worker answers with text.
WorkerAnswers(r, cost) ==
  /\ req[r].step = "worker"
  /\ req' = [req EXCEPT ![r].step = "output", ![r].used = @ + cost]
  /\ spent' = spent + Recorded(r, cost)
  /\ UNCHANGED <<budget, consent>>

\* Slip: a call that fails is made again, as the first one was let in.
WorkerFails_Retries(r) ==
  /\ req[r].step = "worker"
  /\ req' = [req EXCEPT ![r].bare = @ + Bare(r)]
  /\ UNCHANGED <<budget, spent, consent>>

\* A call of the worker fails: WORKER_CALL_FAILED, nothing recorded.
WorkerFails(r) ==
  /\ req[r].step = "worker"
  /\ req' = [req EXCEPT ![r] = Idle]
  /\ UNCHANGED <<budget, spent, consent>>

-----------------------------------------------------------------------------
(* After the worker. *)

\* Output guard and guardian: the answer is rejected, or (process only) is
\* reported to the audit log before it is returned.
CheckOutput(r) ==
  /\ req[r].step = "output"
  /\ \/ req' = [req EXCEPT ![r] = Idle]
     \/ req[r].kind = "process" /\ req' = [req EXCEPT ![r].step = "report"]
  /\ UNCHANGED <<budget, spent, consent>>

\* The report is written, or its failure makes process() throw.
Return(r) ==
  /\ req[r].step = "report"
  /\ req' = [req EXCEPT ![r] = Idle]
  /\ UNCHANGED <<budget, spent, consent>>

-----------------------------------------------------------------------------
(* Other calls. *)

\* recordConsent and revokeConsent.
SetConsent ==
  /\ consent' = ~consent
  /\ UNCHANGED <<req, budget, spent>>

\* POST /api/cost create-limiter replaces the limiter of the key, under any plan.
CreateLimiter ==
  /\ budget' \in Budgets
  /\ spent' = 0
  /\ UNCHANGED <<req, consent>>

Step(r) ==
  \/ Admit(r)
  \/ Reject(r)
  \/ StreamCall(r)
  \/ \E cost \in Cost : ToolRound(r, cost) \/ WorkerAnswers(r, cost)
  \/ WorkerFails(r)
  \/ CheckOutput(r)
  \/ Return(r)

Next ==
  \/ \E r \in Req :
       \/ \E kind \in {"process", "stream"}, needs \in BOOLEAN, estimate \in Estimate :
            Arrive(r, kind, needs, estimate)
       \/ Step(r)
  \/ SetConsent
  \/ CreateLimiter

Spec == Init /\ [][Next]_vars

(* Every call of a model settles, and the pipeline goes on when it does.       *)
FairSpec == Spec /\ \A r \in Req : WF_vars(Step(r))

-----------------------------------------------------------------------------
(* Requests whose worker call is still to be recorded. *)
InFlight == {r \in Req : req[r].step = "worker" /\ req[r].kind = "process"}

(* The budget is checked when a call starts and charged when it ends, with no   *)
(* reservation in between: it is overspent, but by no more than one call for    *)
(* each request that can be in flight, whatever estimates they were let in on   *)
(* and whatever plan's limiter replaced the one they were let in by.            *)
OverspendBounded == spent <= budget + MaxCost * Cardinality(Req)

(* A consent that is withdrawn, while the guardian thinks, a stream yields, a   *)
(* tool runs or the worker answers, and given or not in between, is missing at   *)
(* no other calls of the worker than those of a request's later tool rounds and *)
(* the one call of a stream: the first call of process() always has it.         *)
RevocationHonoured ==
  \A r \in Req :
    req[r].bare <= IF req[r].kind = "process" THEN req[r].depth ELSE 1

(* Every request is answered: the rounds of tools come to an end.               *)
RequestsAnswered == \A r \in Req : req[r].step = "worker" ~> req[r].step = "idle"

(* "Record actual cost with real token counts": what a request adds to the      *)
(* spending, when its worker is done, is what its calls of the worker cost.     *)
CostRecorded ==
  [][\A r \in Req :
       (req[r].step = "worker" /\ req'[r].step = "output" /\ req[r].kind = "process")
         => spent' = spent + req'[r].used]_vars
=============================================================================
