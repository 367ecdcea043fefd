---------------------------- MODULE RequestLimit ----------------------------
(***************************************************************************)
(* The limit on requests at the top of server/web/api.php, for one client  *)
(* address: a file holds the requests counted in the current window and    *)
(* the second in which it ends.  Every request is a PHP process of its     *)
(* own, which reads the file twice without the lock it then writes it      *)
(* with.  file_put_contents truncates the file once it holds the lock, so  *)
(* that a reader may find it empty.                                        *)
(***************************************************************************)
EXTENDS Naturals, Sequences

CONSTANTS
  RateLimit,    \* requests per window: 60 in the code
  RateWindow,   \* its length in seconds: 60 in the code
  RateRequest,  \* slots for requests in flight
  MaxSecond,    \* bound: seconds that pass
  MaxRequests   \* bound: requests made

ASSUME RateAssumption ==
  RateLimit \in Nat \ {0} /\ RateWindow \in Nat /\ MaxSecond \in Nat /\ MaxRequests \in Nat

Second == 0 .. MaxSecond

VARIABLES
  second,       \* the clock
  rateFile,     \* its contents; a missing file reads like an empty one
  rateCall,     \* the request each slot has in flight
  rateMade,     \* how many requests were made
  admitted,     \* history: admitted requests, with the second they came in and
                \* the end of the window they were counted in
  rateRaced     \* history: requests overlapped, or a write was cut off

rateVars == <<second, rateFile, rateCall, rateMade, admitted, rateRaced>>

Empty == [count |-> 0, reset |-> 0, text |-> FALSE]
RateData == [count: Nat, reset: 0 .. MaxSecond + RateWindow, text: BOOLEAN]
Admission == [at: Second, reset: 0 .. MaxSecond + RateWindow]
RateStep == {"idle", "look", "decode", "lock", "write"}
NoRateCall == [step |-> "idle", at |-> 0, data |-> Empty]

RateTypeOK ==
  /\ second \in Second
  /\ rateFile \in RateData
  /\ rateCall \in [RateRequest -> [step: RateStep, at: Second, data: RateData]]
  /\ rateMade \in 0 .. MaxRequests
  /\ admitted \in Seq(Admission)
  /\ rateRaced \in BOOLEAN

RateInit ==
  /\ second = 0
  /\ rateFile = Empty
  /\ rateCall = [r \in RateRequest |-> NoRateCall]
  /\ rateMade = 0
  /\ admitted = <<>>
  /\ rateRaced = FALSE

-----------------------------------------------------------------------------
\* Slip: a window ends a second early.
Counted_Early(data, at) ==
  IF data.text /\ data.reset > at
  THEN [data EXCEPT !.count = @ + 1]
  ELSE [count |-> 1, reset |-> at + RateWindow, text |-> TRUE]

\* What a request that came in at a second writes after it read data: a window
\* that has passed, or no text, which decodes to null, opens a new one.
Counted(data, at) ==
  IF data.text /\ data.reset >= at
  THEN [data EXCEPT !.count = @ + 1]
  ELSE [count |-> 1, reset |-> at + RateWindow, text |-> TRUE]

Advance(r, from, to) ==
  /\ rateCall[r].step = from
  /\ rateCall' = [rateCall EXCEPT ![r] = to]

RateBegin(r) ==
  /\ rateMade < MaxRequests
  /\ Advance(r, "idle", [NoRateCall EXCEPT !.step = "look", !.at = second])
  /\ rateMade' = rateMade + 1
  /\ rateRaced' = (rateRaced \/ \E q \in RateRequest : rateCall[q].step # "idle")
  /\ UNCHANGED <<second, rateFile, admitted>>

\* The first reading decides whether there is a second one.
RateLook(r) ==
  /\ Advance(r, "look",
             IF rateFile.text
             THEN [rateCall[r] EXCEPT !.step = "decode"]
             ELSE [rateCall[r] EXCEPT !.step = "lock", !.data = Counted(Empty, rateCall[r].at)])
  /\ UNCHANGED <<second, rateFile, rateMade, admitted, rateRaced>>

RateDecode(r) ==
  /\ Advance(r, "decode",
             [rateCall[r] EXCEPT !.step = "lock", !.data = Counted(rateFile, rateCall[r].at)])
  /\ UNCHANGED <<second, rateFile, rateMade, admitted, rateRaced>>

\* file_put_contents: the lock, then the truncation.
RateTruncate(r) ==
  /\ \A q \in RateRequest : rateCall[q].step # "write"
  /\ Advance(r, "lock", [rateCall[r] EXCEPT !.step = "write"])
  /\ rateFile' = Empty
  /\ UNCHANGED <<second, rateMade, admitted, rateRaced>>

\* The requests admitted once one that came in at a second has written its data.
Answered(data, at) ==
  IF data.count <= RateLimit
  THEN Append(admitted, [at |-> at, reset |-> data.reset]) ELSE admitted

\* Then the text, and the decision.
RateWrite(r) ==
  LET call == rateCall[r]
  IN  /\ Advance(r, "write", NoRateCall)
      /\ rateFile' = call.data
      /\ admitted' = Answered(call.data, call.at)
      /\ UNCHANGED <<second, rateMade, rateRaced>>

\* A process ends, or a write fails, with the file truncated.
RateCut(r) ==
  /\ Advance(r, "write", NoRateCall)
  /\ rateRaced' = TRUE
  /\ UNCHANGED <<second, rateFile, rateMade, admitted>>

RateTick ==
  /\ second < MaxSecond
  /\ second' = second + 1
  /\ UNCHANGED <<rateFile, rateCall, rateMade, admitted, rateRaced>>

RateNext ==
  \/ RateTick
  \/ \E r \in RateRequest :
       RateBegin(r) \/ RateLook(r) \/ RateDecode(r) \/ RateTruncate(r) \/ RateWrite(r) \/ RateCut(r)

RateSpec == RateInit /\ [][RateNext]_rateVars

-----------------------------------------------------------------------------
(* Fixed windows let a client have the end of one and the beginning of the     *)
(* next: in no time as long as a window are more than twice the limit, less    *)
(* one, of its requests admitted, as long as they come one after the other.    *)
(* That is, of any 2 * RateLimit admitted in a row the last comes later than   *)
(* a window after the first.                                                   *)
AdmittedPerWindow ==
  ~rateRaced =>
    \A i, j \in DOMAIN admitted :
      j = i + 2 * RateLimit - 1 => admitted[j].at > admitted[i].at + RateWindow
=============================================================================
