------------------------------ MODULE TenantStore ------------------------------
(***************************************************************************)
(* src/tenant-isolation.js: tenants and their use of tokens, in a map in   *)
(* memory and, if there is a database, in a table.  The map is loaded when *)
(* the module is imported, and nobody waits for that: requests come before *)
(* and during the load.                                                    *)
(*                                                                         *)
(* A plan stands for everything that registerTenant derives from it; a     *)
(* row keeps limits and models apart from its plan.  Left out: names, the  *)
(* encryption key, and isolateSession, which answers with a copy of the    *)
(* tenant and counts a session: the count is listed, and nothing else      *)
(* depends on it.  The module has one process; wrapper-server.js has a map *)
(* of its own, and its writes to the same table are not here.              *)
(*                                                                         *)
(* The tokens of a report come from the body of a request, unchecked.      *)
(* Text stands for whatever makes the count a string, which it then stays, *)
(* each report put behind it; Missing for what makes it NaN, which the     *)
(* next reading, and JSON, take for none.                                  *)
(***************************************************************************)
EXTENDS Integers, FiniteSets

CONSTANTS
  TenantId,     \* tenants that requests register
  DemoTenant,   \* stands for the four that are seeded
  Plan,
  TokensPerDay, \* per plan
  FreePlan,     \* the plan of the demo tenant
  Text,         \* a count, or tokens, that is a string
  Missing,      \* tokens that are not there
  Uncounted,    \* of the history of a tenant: not to be told
  MaxCredit,    \* bound: how far below zero a count goes
  MaxSent       \* bound: statements on their way

AllTenants == TenantId \cup {DemoTenant}

\* One of the plans has the most tokens.
ASSUME TenantAssumption ==
  /\ FreePlan \in Plan /\ TokensPerDay \in [Plan -> Nat]
  /\ \E p \in Plan : \A q \in Plan : TokensPerDay[q] <= TokensPerDay[p]
ASSUME NotNumbers == Text \notin Int /\ Missing \notin Int /\ Uncounted \notin Int
ASSUME TenantBounds == MaxCredit \in Nat /\ MaxSent \in Nat

VARIABLES
  tenants,     \* the map
  tenantTable, \* the table
  tenantMysql, \* mysqlAvailable
  tenantLoad,  \* initializeTenantIsolation: its step, and the rows it found
  tenantSent,  \* statements on their way
  clashed,     \* history: tenants entered beside a row, or replaced by one
  unwritten,   \* history: tenants of this process whose row may be behind
  spent        \* history: the tokens reported for each, as far as can be told

historyVars == <<clashed, unwritten, spent>>
tenantVars == <<tenants, tenantTable, tenantMysql, tenantLoad, tenantSent, historyVars>>

MaxTokens == CHOOSE n \in {TokensPerDay[p] : p \in Plan} : \A p \in Plan : TokensPerDay[p] <= n

\* Counts, and what reports bring.
Usage == (-MaxCredit .. MaxTokens) \cup {Text}
Report == (-MaxCredit .. MaxTokens) \cup {Text, Missing}

TenantRecord == [known: BOOLEAN, plan: Plan, limits: Plan, usage: Usage]
NoTenantRecord == [known |-> FALSE, plan |-> FreePlan, limits |-> FreePlan, usage |-> 0]
TenantMap == [AllTenants -> TenantRecord]
TenantStatement == [op: {"insert", "update"}, tenant: AllTenants, record: TenantRecord]

TenantTypeOK ==
  /\ tenants \in TenantMap
  /\ tenantTable \in TenantMap
  /\ tenantMysql \in BOOLEAN
  /\ tenantLoad \in [step: {"create", "select", "apply", "done"}, rows: TenantMap]
  /\ tenantSent \subseteq TenantStatement
  /\ clashed \subseteq AllTenants
  /\ unwritten \subseteq AllTenants
  /\ spent \in [AllTenants -> Nat \cup {Uncounted}]

NoTenants == [t \in AllTenants |-> NoTenantRecord]
LoadAt(step) == [step |-> step, rows |-> NoTenants]

\* seedDemoTenants, if the map is empty.
Seeded(map) ==
  IF \E t \in AllTenants : map[t].known THEN map
  ELSE [map EXCEPT ![DemoTenant].known = TRUE]

\* Tenants seeded although the table has their row.
SeededBesideRow(map) == {t \in AllTenants : /\ Seeded(map)[t].known /\ ~map[t].known
                                            /\ tenantTable[t].known}

\* From now on nobody knows what these have spent.
LoseCount(T) == spent' = [t \in AllTenants |-> IF t \in T THEN Uncounted ELSE spent[t]]

Clash(T) == clashed' = clashed \cup T /\ LoseCount(T)

\* Without a database the load ends in the turn in which it begins.
TenantStart(connected) ==
  [tenants |-> IF connected THEN NoTenants ELSE Seeded(NoTenants),
   load |-> LoadAt(IF connected THEN "create" ELSE "done")]

TenantInit ==
  /\ tenants = NoTenants
  /\ tenantTable = NoTenants
  /\ tenantMysql = FALSE
  /\ tenantLoad = LoadAt("create")
  /\ tenantSent = {}
  /\ clashed = {}
  /\ unwritten = {}
  /\ spent = [t \in AllTenants |-> 0]

-----------------------------------------------------------------------------
(* initializeTenantIsolation.                                                  *)

TenantTableExists ==
  /\ tenantLoad.step = "create"
  /\ tenantMysql' = TRUE
  /\ tenantLoad' = LoadAt("select")
  /\ UNCHANGED <<tenants, tenantTable, tenantSent, historyVars>>

TenantRows ==
  /\ tenantLoad.step = "select"
  /\ tenantLoad' = [step |-> "apply", rows |-> tenantTable]
  /\ UNCHANGED <<tenants, tenantTable, tenantMysql, tenantSent, historyVars>>

\* A row replaces what the map has under its name.
ApplyRows ==
  /\ tenantLoad.step = "apply"
  /\ tenants' = Seeded([t \in AllTenants |->
                          IF tenantLoad.rows[t].known THEN tenantLoad.rows[t] ELSE tenants[t]])
  /\ tenantLoad' = LoadAt("done")
  /\ Clash({t \in AllTenants : tenants[t].known /\ tenantLoad.rows[t].known})
  /\ UNCHANGED <<tenantTable, tenantMysql, tenantSent, unwritten>>

TenantLoadFails ==
  /\ tenantLoad.step \in {"create", "select"}
  /\ tenantMysql' = FALSE
  /\ tenants' = Seeded(tenants)
  /\ tenantLoad' = LoadAt("done")
  /\ Clash(SeededBesideRow(tenants))
  /\ UNCHANGED <<tenantTable, tenantSent, unwritten>>

-----------------------------------------------------------------------------
(* The requests.                                                               *)

MaySend == Cardinality(tenantSent) < MaxSent

SendTenant(op, t, record) ==
  IF tenantMysql THEN tenantSent \cup {[op |-> op, tenant |-> t, record |-> record]}
  ELSE tenantSent

\* registerTenant: in the map at once; the answer waits for the INSERT, the map
\* does not.  A failed INSERT is logged.
Register(t, plan) ==
  LET record == [known |-> TRUE, plan |-> plan, limits |-> plan, usage |-> 0]
  IN  /\ ~tenants[t].known /\ MaySend
      /\ tenants' = [tenants EXCEPT ![t] = record]
      /\ tenantSent' = SendTenant("insert", t, record)
      /\ Clash({t} \cap {u \in AllTenants : tenantTable[u].known})
      /\ UNCHANGED <<tenantTable, tenantMysql, tenantLoad, unwritten>>

CountAfter(usage, tokens) ==
  CASE usage = Text \/ tokens = Text -> Text
    [] usage # Text /\ tokens = Missing -> 0
    [] OTHER -> usage + tokens

\* Slip: the limit is looked at only before the tokens are added.
Passes_Late(usage, tokens, limit) == usage # Text => usage < limit

\* The count with the report is not found to be above the limit.  A string is if
\* it reads as a higher number: it may pass.
Passes(usage, tokens, limit) ==
  usage # Text /\ tokens \notin {Text, Missing} => usage + tokens <= limit

\* trackTenantTokenUsage; a refusal changes nothing, and so does a day's end.
TrackUsage(t, tokens) ==
  LET count == CountAfter(tenants[t].usage, tokens)
  IN  /\ tenants[t].known /\ MaySend
      /\ Passes(tenants[t].usage, tokens, TokensPerDay[tenants[t].limits])
      /\ count \in Usage
      /\ tenants' = [tenants EXCEPT ![t].usage = count]
      /\ tenantSent' = SendTenant("update", t, tenants'[t])
      /\ unwritten' = IF tenantMysql THEN unwritten ELSE unwritten \cup {t}
      /\ spent' = [spent EXCEPT ![t] =
                     IF @ # Uncounted /\ tokens \in 0 .. MaxTokens THEN @ + tokens ELSE Uncounted]
      /\ UNCHANGED <<tenantTable, tenantMysql, tenantLoad, clashed>>

-----------------------------------------------------------------------------
(* The statements, in any order.                                               *)

\* ON DUPLICATE KEY UPDATE sets the plan and leaves the limits; an UPDATE sets
\* the metadata of a row that is there.
Written(s) ==
  LET row == tenantTable[s.tenant]
  IN  IF s.op = "insert"
        THEN IF row.known THEN [row EXCEPT !.plan = s.record.plan] ELSE s.record
        ELSE IF row.known
               THEN [row EXCEPT !.usage = s.record.usage]
               ELSE row

\* An UPDATE that finds no row, or writes a lower count over a higher one.
Misses(s) ==
  LET row == tenantTable[s.tenant]
  IN  s.op = "update" /\ (~row.known \/ \/ row.usage = Text
                                        \/ s.record.usage # Text /\ s.record.usage < row.usage)

ExecuteTenant(s) ==
  /\ s \in tenantSent
  /\ tenantSent' = tenantSent \ {s}
  /\ tenantTable' = [tenantTable EXCEPT ![s.tenant] = Written(s)]
  /\ unwritten' = IF Misses(s) THEN unwritten \cup {s.tenant} ELSE unwritten
  /\ UNCHANGED <<tenants, tenantMysql, tenantLoad, clashed, spent>>

TenantStatementFails(s) ==
  /\ s \in tenantSent
  /\ tenantSent' = tenantSent \ {s}
  /\ unwritten' = unwritten \cup {s.tenant}
  /\ UNCHANGED <<tenants, tenantTable, tenantMysql, tenantLoad, clashed, spent>>

\* What was not written, or is still on its way, is forgotten.
TenantRestart(connected) ==
  /\ tenants' = TenantStart(connected).tenants
  /\ tenantLoad' = TenantStart(connected).load
  /\ tenantMysql' = FALSE
  /\ tenantSent' = {}
  /\ LET beside == IF connected THEN {} ELSE SeededBesideRow(NoTenants)
     IN  /\ clashed' = clashed \cup beside
         /\ LoseCount(beside \cup unwritten \cup
                      {s.tenant : s \in {u \in tenantSent : u.op = "update"}})
  /\ unwritten' = {}
  /\ UNCHANGED tenantTable

TenantNext ==
  \/ TenantTableExists
  \/ TenantRows
  \/ ApplyRows
  \/ TenantLoadFails
  \/ \E t \in TenantId, plan \in Plan : Register(t, plan)
  \/ \E t \in AllTenants, tokens \in Report : TrackUsage(t, tokens)
  \/ \E s \in tenantSent : ExecuteTenant(s) \/ TenantStatementFails(s)
  \/ \E connected \in BOOLEAN : TenantRestart(connected)

TenantSpec == TenantInit /\ [][TenantNext]_tenantVars

-----------------------------------------------------------------------------
(* The count of a tenant stays within the limits on record for it, whatever is *)
(* reported, also after a load in a later process, unless the tenant was       *)
(* entered beside a row of other limits, or replaced by one.  And the count is *)
(* all that was reported for it, also over restarts, unless a report was not a *)
(* proper number, or a process ended with a statement on its way, or after one *)
(* that failed, found no row, came late, or was not sent.                      *)
UsageWithinLimits ==
  \A t \in AllTenants : tenants[t].known =>
    /\ t \notin clashed /\ tenants[t].usage # Text =>
         tenants[t].usage <= TokensPerDay[tenants[t].limits]
    /\ spent[t] # Uncounted => tenants[t].usage = spent[t]

=============================================================================
