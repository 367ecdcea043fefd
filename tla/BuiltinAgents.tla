----------------------------- MODULE BuiltinAgents -----------------------------
(***************************************************************************)
(* The agents that run inside the dashboard: agents/heartbeat.js,          *)
(* agents/boss.js and agents/sentinel.js, with their start in server.js    *)
(* and its shutdown.  Each has an interval and a tick that suspends.       *)
(* Heartbeat and boss start in one turn; the sentinel first prepares its   *)
(* directory and asks the gateway for a session, and only then sets its    *)
(* interval.                                                               *)
(*                                                                         *)
(* Left out: what a tick looks at and the alerts it sends.                 *)
(***************************************************************************)
EXTENDS Naturals, FiniteSets

CONSTANTS
  Plain,     \* the agents that start in one turn: heartbeat, boss
  Sentinel,  \* the other one
  Start,     \* calls of startSentinel
  Check,     \* calls of checkMysqlViaGateway, checkFtpViaGateway
  MaxTicks   \* bound: ticks of an agent

Builtin == Plain \cup {Sentinel}

ASSUME BuiltinAssumption == Sentinel \notin Plain /\ IsFiniteSet(Start) /\ MaxTicks \in Nat

VARIABLES
  up,         \* no signal has come
  handle,     \* intervalHandle is set
  timers,     \* intervals that are alive
  starting,   \* the step of each startSentinel
  checking,   \* the step of each check
  token,      \* session.token, and whether it is past tokenExpiresAt
  tickCount,
  ticking,    \* ticks under way
  doubled,    \* history: a startSentinel began during another
  missed      \* history: a stop came while a start was under way

agentVars == <<up, handle, timers, starting, checking, token, tickCount, ticking, doubled, missed>>

BuiltinTypeOK ==
  /\ up \in BOOLEAN
  /\ handle \in [Builtin -> BOOLEAN]
  /\ timers \in [Builtin -> 0 .. MaxTicks]
  /\ starting \in [Start -> {"none", "env", "session"}]
  /\ checking \in [Check -> {"none", "session", "health"}]
  /\ token \in {"none", "fresh", "expired"}
  /\ tickCount \in [Builtin -> 0 .. MaxTicks]
  /\ ticking \in [Builtin -> 0 .. MaxTicks]
  /\ doubled \in BOOLEAN
  /\ missed \in BOOLEAN

BuiltinInit ==
  /\ up = TRUE
  /\ handle = [a \in Builtin |-> FALSE]
  /\ timers = [a \in Builtin |-> 0]
  /\ starting = [s \in Start |-> "none"]
  /\ checking = [c \in Check |-> "none"]
  /\ token = "none"
  /\ tickCount = [a \in Builtin |-> 0]
  /\ ticking = [a \in Builtin |-> 0]
  /\ doubled = FALSE
  /\ missed = FALSE

-----------------------------------------------------------------------------
(* Ticks.                                                                      *)

Starting == {s \in Start : starting[s] # "none"}

\* Bound: room for another tick, besides those of the starts under way.
MayTick(a) == tickCount[a] + (IF a = Sentinel THEN Cardinality(Starting) ELSE 0) < MaxTicks

\* The turn in which a tick begins; it numbers itself.
BeginTick(a) ==
  /\ tickCount' = [tickCount EXCEPT ![a] = @ + 1]
  /\ ticking' = [ticking EXCEPT ![a] = @ + 1]

Fire(a) ==
  /\ timers[a] > 0
  /\ MayTick(a)
  /\ BeginTick(a)
  /\ UNCHANGED <<up, handle, timers, starting, checking, token, doubled, missed>>

EndTick(a) ==
  /\ ticking[a] > 0
  /\ ticking' = [ticking EXCEPT ![a] = @ - 1]
  /\ UNCHANGED <<up, handle, timers, starting, checking, token, tickCount, doubled, missed>>

-----------------------------------------------------------------------------
(* Starting.                                                                   *)

SetInterval(a) ==
  /\ handle' = [handle EXCEPT ![a] = TRUE]
  /\ timers' = [timers EXCEPT ![a] = @ + 1]
  /\ BeginTick(a)

\* startHeartbeat, startBoss.
StartPlain(a) ==
  /\ up
  /\ ~handle[a]
  /\ MayTick(a)
  /\ SetInterval(a)
  /\ UNCHANGED <<up, starting, checking, token, doubled, missed>>

\* Slip: a start does not ask whether the agent is running.
BeginStart_Unchecked(s) ==
  /\ up
  /\ starting[s] = "none"
  /\ MayTick(Sentinel)
  /\ starting' = [starting EXCEPT ![s] = "env"]
  /\ doubled' = (doubled \/ Starting # {})
  /\ UNCHANGED <<up, handle, timers, checking, token, tickCount, ticking, missed>>

\* startSentinel as far as createSafeEnv.
BeginStart(s) ==
  /\ up
  /\ starting[s] = "none"
  /\ ~handle[Sentinel]
  /\ MayTick(Sentinel)
  /\ starting' = [starting EXCEPT ![s] = "env"]
  /\ doubled' = (doubled \/ Starting # {})
  /\ UNCHANGED <<up, handle, timers, checking, token, tickCount, ticking, missed>>

\* The rest of startSentinel, which does not ask again.
FinishStart(s) ==
  /\ starting' = [starting EXCEPT ![s] = "none"]
  /\ SetInterval(Sentinel)
  /\ UNCHANGED <<up, checking, doubled, missed>>

\* createSafeEnv has answered, well or not.  A session that lasts is kept.
EnvDone(s) ==
  /\ starting[s] = "env"
  /\ IF token = "fresh"
       THEN FinishStart(s) /\ UNCHANGED token
       ELSE /\ starting' = [starting EXCEPT ![s] = "session"]
            /\ UNCHANGED <<up, handle, timers, checking, token, tickCount, ticking, doubled, missed>>

\* What acquireSession makes of an answer, or of none.
Acquired(answer) == token' = IF answer THEN "fresh" ELSE "none"

SessionAnswer(s, answer) ==
  /\ starting[s] = "session"
  /\ Acquired(answer)
  /\ FinishStart(s)

\* Slip: the request has no time limit, and waits for its answer.
SessionTimeout_None(s) == starting[s] = "session" /\ UNCHANGED agentVars

\* The time limit of gatewayRequest aborts it.
SessionTimeout(s) == SessionAnswer(s, FALSE)

-----------------------------------------------------------------------------
(* Checks through the gateway; anybody can ask for one at any time.            *)

BeginCheck(c) ==
  /\ up
  /\ checking[c] = "none"
  /\ checking' = [checking EXCEPT ![c] = IF token = "fresh" THEN "health" ELSE "session"]
  /\ UNCHANGED <<up, handle, timers, starting, token, tickCount, ticking, doubled, missed>>

CheckSession(c, answer) ==
  /\ checking[c] = "session"
  /\ Acquired(answer)
  /\ checking' = [checking EXCEPT ![c] = "health"]
  /\ UNCHANGED <<up, handle, timers, starting, tickCount, ticking, doubled, missed>>

\* The check is answered, or aborted.
EndCheck(c) ==
  /\ checking[c] = "health"
  /\ checking' = [checking EXCEPT ![c] = "none"]
  /\ UNCHANGED <<up, handle, timers, starting, token, tickCount, ticking, doubled, missed>>

ExpireSession ==
  /\ token = "fresh"
  /\ token' = "expired"
  /\ UNCHANGED <<up, handle, timers, starting, checking, tickCount, ticking, doubled, missed>>

-----------------------------------------------------------------------------
(* Stopping.                                                                   *)

\* Slip: the handle is forgotten, its interval not cleared.
StopAll_Unclear(agents) ==
  /\ handle' = [a \in Builtin |-> IF a \in agents THEN FALSE ELSE handle[a]]
  /\ token' = IF Sentinel \in agents /\ handle[Sentinel] THEN "none" ELSE token
  /\ missed' = (missed \/ (Sentinel \in agents /\ Starting # {}))
  /\ UNCHANGED <<timers, starting, checking, tickCount, ticking, doubled>>

\* stopHeartbeat, stopBoss, stopSentinel: the interval that the handle names is
\* cleared.  Without one nothing is done.
StopAll(agents) ==
  /\ handle' = [a \in Builtin |-> IF a \in agents THEN FALSE ELSE handle[a]]
  /\ timers' = [a \in Builtin |-> IF a \in agents /\ handle[a] THEN timers[a] - 1 ELSE timers[a]]
  /\ token' = IF Sentinel \in agents /\ handle[Sentinel] THEN "none" ELSE token
  /\ missed' = (missed \/ (Sentinel \in agents /\ Starting # {}))
  /\ UNCHANGED <<starting, checking, tickCount, ticking, doubled>>

StopBuiltin(a) == up /\ StopAll({a}) /\ UNCHANGED up

\* shutdown() stops all three; until the process ends, what is suspended goes on.
BuiltinShutdown == up /\ StopAll(Builtin) /\ up' = FALSE

BuiltinNext ==
  \/ \E a \in Builtin : Fire(a) \/ EndTick(a) \/ StopBuiltin(a)
  \/ \E a \in Plain : StartPlain(a)
  \/ \E s \in Start :
       \/ BeginStart(s)
       \/ EnvDone(s)
       \/ \E answer \in BOOLEAN : SessionAnswer(s, answer)
       \/ SessionTimeout(s)
  \/ \E c \in Check :
       \/ BeginCheck(c)
       \/ \E answer \in BOOLEAN : CheckSession(c, answer)
       \/ EndCheck(c)
  \/ ExpireSession
  \/ BuiltinShutdown

BuiltinSpec == BuiltinInit /\ [][BuiltinNext]_agentVars

(* The file system settles, and timers run: gatewayRequest's is not unref'ed.  *)
(* That the gateway answers is not assumed.                                    *)
BuiltinFairness == \A s \in Start : WF_agentVars(EnvDone(s)) /\ WF_agentVars(SessionTimeout(s))

-----------------------------------------------------------------------------
(* An agent has the one interval that its handle names, and none without: a    *)
(* second one, which no stop would clear, needs two starts under way at once.  *)
OneInterval ==
  \A a \in Builtin : timers[a] = (IF handle[a] THEN 1 ELSE 0) \/ (a = Sentinel /\ doubled)

(* After the shutdown's stops no agent goes on ticking, unless a start was     *)
(* suspended at that time, or two had overlapped before.                       *)
ShutdownStopsAgents ==
  ~up /\ (\E a \in Builtin : timers[a] > 0) => missed \/ doubled

(* A start ends whether or not the gateway ever answers.                       *)
StartSettles == \A s \in Start : starting[s] # "none" ~> starting[s] = "none"
=============================================================================
