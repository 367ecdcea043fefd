----------------------------- MODULE DashboardPage -----------------------------
(***************************************************************************)
(* The audit and live tabs of src/public/dashboard.js.  The audit tab      *)
(* lists the records that match a search, page by page; the live tab polls *)
(* for the latest ones and counts those it had not seen.  A request is     *)
(* answered by the web API at some time and its answer arrives at a later  *)
(* one, when the search, the list and the log may have changed.            *)
(*                                                                         *)
(* The records of the user are numbered in the order in which they were    *)
(* written, which the table does not keep: it has the second in which each *)
(* was written, sorts by that, and gives those of one second in any order, *)
(* another one at the next query.  Which tab is shown only limits what can *)
(* be clicked, and any can be visited between two steps.  Left out: the    *)
(* other tabs, dates and types (which the page asks for and never sends),  *)
(* and the layout.                                                         *)
(***************************************************************************)
EXTENDS Integers, Sequences, SequencesExt, FiniteSets

CONSTANTS
  PageSize,  \* rows of a page: 100 in the code
  LiveSize,  \* records of a poll: 30 in the code
  Poll,      \* polls that can be in flight
  MaxRows    \* bound: records in the log

ASSUME PageAssumption == PageSize \in Nat \ {0} /\ LiveSize \in Nat \ {0} /\ MaxRows \in Nat

VARIABLES
  rows,        \* audit_log: per record, the second of its created_at
  audit,       \* state.audit, with the request of loadAudit under way
  answer,      \* the answer to it that is under way
  timer,       \* state.live.timer is set, as it is once the tab was visited
  live,        \* state.live.entries
  poll,        \* per poll: its step, its answer, how many records there were
  dropped,     \* history: the search changed while a page was being loaded
  counted,     \* history: records that the live tab has counted
  recounted,   \* history: ... more than once
  liveTop,     \* history: how many there were when live was answered
  reordered    \* history: a poll was overtaken by the answer of a later one

auditVars == <<audit, answer, dropped>>
liveVars == <<timer, live, poll, counted, recounted, liveTop, reordered>>
pageVars == <<rows, auditVars, liveVars>>

Row == 1 .. MaxRows
Search == {"", "all", "some"}

Records == 1 .. Len(rows)

\* An empty search finds nothing; the others every record, or every second.
FoundBy(q) == {k \in Records : q = "all" \/ (q = "some" /\ k % 2 = 1)}

Later(found, k) == {j \in found : rows[j] > rows[k]}
NotEarlier(found, k) == {j \in found : rows[j] >= rows[k]}

\* ORDER BY created_at DESC: the places that a record can come to.
Places(found, k) == Cardinality(Later(found, k)) + 1 .. Cardinality(NotEarlier(found, k))

\* LIMIT size OFFSET offset: what the query can answer.
Pages(found, offset, size) ==
  LET rest == Cardinality(found) - offset
      length == IF rest < 0 THEN 0 ELSE IF rest < size THEN rest ELSE size
  IN  {page \in [1 .. length -> found] :
         /\ \A i, j \in 1 .. length : page[i] = page[j] => i = j
         /\ \A i \in 1 .. length : offset + i \in Places(found, page[i])}

PageRequest == [q: Search, offset: Nat, append: BOOLEAN]
NoRequest == [q |-> "", offset |-> 0]
NoAnswer == <<0>>

\* loading, in the code, while there is a request.
AuditState ==
  [q: Search, entries: Seq(Row), offset: Nat, allLoaded: BOOLEAN,
   request: PageRequest \cup {NoRequest}]

PageTypeOK ==
  /\ rows \in Seq(Nat) /\ Len(rows) <= MaxRows
  /\ audit \in AuditState
  /\ answer = NoAnswer \/ answer \in Seq(Row)
  /\ timer \in BOOLEAN
  /\ live \subseteq Row
  /\ poll \in [Poll -> [step: {"none", "sent", "answered"}, entries: SUBSET Row,
                       top: 0 .. MaxRows]]
  /\ dropped \in BOOLEAN
  /\ counted \subseteq Row
  /\ recounted \subseteq counted
  /\ liveTop \in 0 .. MaxRows
  /\ reordered \in BOOLEAN

NoPoll == [step |-> "none", entries |-> {}, top |-> 0]

PageInit ==
  /\ rows = <<>>
  /\ audit = [q |-> "", entries |-> <<>>, offset |-> 0, allLoaded |-> FALSE,
              request |-> NoRequest]
  /\ answer = NoAnswer
  /\ timer = FALSE
  /\ live = {}
  /\ poll = [p \in Poll |-> NoPoll]
  /\ dropped = FALSE
  /\ counted = {}
  /\ recounted = {}
  /\ liveTop = 0
  /\ reordered = FALSE

\* In the second of the one before, or in a later one.
WriteRow ==
  /\ Len(rows) < MaxRows
  /\ LET last == IF rows = <<>> THEN 1 ELSE rows[Len(rows)]
     IN  rows' \in {Append(rows, last), Append(rows, last + 1)}
  /\ UNCHANGED <<auditVars, liveVars>>

-----------------------------------------------------------------------------
(* The audit tab.                                                              *)

Loading == audit.request # NoRequest

\* Slip: the list stays until the answer replaces it.
FirstPage_Keeping(state) ==
  [state EXCEPT !.offset = 0, !.allLoaded = FALSE,
                !.request = [q |-> state.q, offset |-> 0, append |-> FALSE]]

\* loadAudit(false) up to its await.
FirstPage(state) ==
  [state EXCEPT !.offset = 0, !.entries = <<>>, !.allLoaded = FALSE,
                !.request = [q |-> state.q, offset |-> 0, append |-> FALSE]]

\* doSearch.  The load of a search during another one is dropped; the search is
\* set all the same.
SearchAudit(q) ==
  /\ audit' = IF Loading THEN [audit EXCEPT !.q = q] ELSE FirstPage([audit EXCEPT !.q = q])
  /\ dropped' = (Loading /\ (dropped \/ q # audit.q))
  /\ UNCHANGED <<rows, answer, liveVars>>

\* A click on the button that the list has if there may be more, or scrolling
\* to it.
LoadMore ==
  /\ ~Loading
  /\ audit.entries # <<>> /\ ~audit.allLoaded
  /\ audit' = [audit EXCEPT !.request = [q |-> audit.q, offset |-> audit.offset, append |-> TRUE]]
  /\ UNCHANGED <<rows, answer, dropped, liveVars>>

\* switchTab and renderAudit, by a click or by the timer of a minute.  The first
\* visit renders twice: the second finds the page of the first still loading.
ShowAudit ==
  /\ ~Loading
  /\ audit' = FirstPage(audit)
  /\ dropped' = FALSE
  /\ UNCHANGED <<rows, answer, liveVars>>

\* The API runs the search of the request.
AnswerAudit ==
  /\ Loading /\ answer = NoAnswer
  /\ answer' \in Pages(FoundBy(audit.request.q), audit.request.offset, PageSize)
  /\ UNCHANGED <<rows, audit, dropped, liveVars>>

\* loadAudit after its await.
AuditLoaded ==
  /\ answer # NoAnswer
  /\ audit' = [audit EXCEPT !.request = NoRequest,
                            !.entries = IF audit.request.append THEN @ \o answer ELSE answer,
                            !.offset = @ + Len(answer),
                            !.allLoaded = @ \/ Len(answer) < PageSize]
  /\ answer' = NoAnswer
  /\ UNCHANGED <<rows, dropped, liveVars>>

\* Slip: the offset moves on whether or not the page has come.
AuditFails_Advanced ==
  /\ Loading
  /\ audit' = [audit EXCEPT !.request = NoRequest, !.offset = @ + PageSize]
  /\ answer' = NoAnswer
  /\ UNCHANGED <<rows, dropped, liveVars>>

\* No answer, or one that is not "ok": nothing is said, and nothing changes.
AuditFails ==
  /\ Loading
  /\ audit' = [audit EXCEPT !.request = NoRequest]
  /\ answer' = NoAnswer
  /\ UNCHANGED <<rows, dropped, liveVars>>

-----------------------------------------------------------------------------
(* The live tab.                                                               *)

SendPoll(p) ==
  /\ poll[p].step = "none"
  /\ poll' = [poll EXCEPT ![p].step = "sent"]

\* initLive, on the first visit.
ShowLive(p) ==
  /\ ~timer
  /\ timer' = TRUE
  /\ SendPoll(p)
  /\ UNCHANGED <<rows, auditVars, live, counted, recounted, liveTop, reordered>>

\* The interval of five seconds, which stays: no tab's cleanup is ever called.
PollLive(p) ==
  /\ timer
  /\ SendPoll(p)
  /\ UNCHANGED <<rows, auditVars, timer, live, counted, recounted, liveTop, reordered>>

AnswerPoll(p) ==
  /\ poll[p].step = "sent"
  /\ \E page \in Pages(Records, 0, LiveSize) :
       poll' = [poll EXCEPT ![p] = [step |-> "answered", entries |-> ToSet(page),
                                    top |-> Len(rows)]]
  /\ UNCHANGED <<rows, auditVars, timer, live, counted, recounted, liveTop, reordered>>

\* Slip: entries are compared with those of the first poll.
RefreshLive_First(p) ==
  LET new == poll[p].entries \ live
  IN  /\ poll[p].step = "answered"
      /\ live' = IF live = {} THEN poll[p].entries ELSE live
      /\ poll' = [poll EXCEPT ![p] = NoPoll]
      /\ counted' = counted \cup new
      /\ recounted' = recounted \cup (new \cap counted)
      /\ liveTop' = poll[p].top
      /\ reordered' = (reordered \/ poll[p].top < liveTop)
      /\ UNCHANGED <<rows, auditVars, timer>>

\* refreshLive after all its answers have settled.
RefreshLive(p) ==
  LET new == poll[p].entries \ live
  IN  /\ poll[p].step = "answered"
      /\ live' = poll[p].entries
      /\ poll' = [poll EXCEPT ![p] = NoPoll]
      /\ counted' = counted \cup new
      /\ recounted' = recounted \cup (new \cap counted)
      /\ liveTop' = poll[p].top
      /\ reordered' = (reordered \/ poll[p].top < liveTop)
      /\ UNCHANGED <<rows, auditVars, timer>>

PollFails(p) ==
  /\ poll[p].step # "none"
  /\ poll' = [poll EXCEPT ![p] = NoPoll]
  /\ UNCHANGED <<rows, auditVars, timer, live, counted, recounted, liveTop, reordered>>

AuditTabNext ==
  \/ WriteRow
  \/ \E q \in Search : SearchAudit(q)
  \/ LoadMore
  \/ ShowAudit
  \/ AnswerAudit
  \/ AuditLoaded
  \/ AuditFails

LiveTabNext ==
  \/ WriteRow
  \/ \E p \in Poll : ShowLive(p) \/ PollLive(p) \/ AnswerPoll(p) \/ RefreshLive(p) \/ PollFails(p)

PageNext == AuditTabNext \/ LiveTabNext

PageSpec == PageInit /\ [][PageNext]_pageVars

-----------------------------------------------------------------------------
(* Unless the search was changed while a page was being loaded (its own load   *)
(* is then dropped), the entries are of the search that is set, and of the     *)
(* records of a second after the last entry's (of any second, once all are     *)
(* loaded) and before the first's none is missing, or another one of the same  *)
(* second is listed twice, in its place: the query sorts by the second alone.  *)
(* Loads that fail, and records written between two pages, however many, make  *)
(* a page overlap the one before, and skip nothing.                            *)
NoRowSkipped ==
  LET list == audit.entries
      twice(k) == \E i, j \in DOMAIN list : i # j /\ list[i] = k /\ list[j] = k
  IN  ~dropped =>
        /\ ToSet(list) \subseteq FoundBy(audit.q)
        /\ list # <<>> =>
             \A k \in FoundBy(audit.q) \ ToSet(list) :
               /\ rows[k] < rows[list[1]]
               /\ audit.allLoaded \/ rows[list[Len(list)]] < rows[k]
               => \E other \in ToSet(list) : rows[other] = rows[k] /\ twice(other)

(* The counter of new entries counts a record twice only if two polls were     *)
(* under way and the answer of the earlier one came last, or if another one of *)
(* its second was counted: the query may take either of them.                  *)
RecountNeedsReorder ==
  ~reordered =>
    \A k \in recounted : \E other \in counted : other # k /\ rows[other] = rows[k]
=============================================================================
