------------------------------ MODULE MCServices ------------------------------
(***************************************************************************)
(* Nine parts that keep their state apart, for TLC in one run: an initial  *)
(* state picks one, and only that one takes steps.  The two tabs of the    *)
(* page share nothing but the log, and are picked one by one.              *)
(***************************************************************************)
EXTENDS KeyStore, ConsentStore, TenantStore, BuiltinAgents, EventStream, SafetyPipeline,
        DashboardPage, WebApi, RequestLimit

VARIABLE component

vars == <<component, keyVars, consentVars, tenantVars, agentVars, streamVars, pipelineVars,
          pageVars, webVars, rateVars>>

Init ==
  /\ component \in {"keys", "consents", "tenants", "agents", "streams", "safety", "list", "live", "web",
                    "limit"}
  /\ KeyInit /\ ConsentInit /\ TenantInit /\ BuiltinInit /\ StreamInit /\ PipelineInit /\ PageInit
  /\ WebInit /\ RateInit
  /\ component # "keys" => keyMode = "mysql"
  /\ component # "web" => auditTable = <<>>

Keys == /\ component = "keys" /\ KeyNext
        /\ UNCHANGED <<component, consentVars, tenantVars, agentVars, streamVars,
                       pipelineVars, pageVars, webVars, rateVars>>
Consents == /\ component = "consents" /\ ConsentNext
            /\ UNCHANGED <<component, keyVars, tenantVars, agentVars, streamVars,
                           pipelineVars, pageVars, webVars, rateVars>>
Tenants == /\ component = "tenants" /\ TenantNext
           /\ UNCHANGED <<component, keyVars, consentVars, agentVars, streamVars,
                          pipelineVars, pageVars, webVars, rateVars>>
Agents == /\ component = "agents" /\ BuiltinNext
          /\ UNCHANGED <<component, keyVars, consentVars, tenantVars, streamVars,
                         pipelineVars, pageVars, webVars, rateVars>>
Streams == /\ component = "streams" /\ StreamNext
           /\ UNCHANGED <<component, keyVars, consentVars, tenantVars, agentVars,
                          pipelineVars, pageVars, webVars, rateVars>>
Safety == /\ component = "safety" /\ PipelineNext
          /\ UNCHANGED <<component, keyVars, consentVars, tenantVars, agentVars, streamVars,
                         pageVars, webVars, rateVars>>
Page == /\ \/ component = "list" /\ AuditTabNext
           \/ component = "live" /\ LiveTabNext
        /\ UNCHANGED <<component, keyVars, consentVars, tenantVars, agentVars, streamVars,
                       pipelineVars, webVars, rateVars>>
Web == /\ component = "web" /\ WebNext
       /\ UNCHANGED <<component, keyVars, consentVars, tenantVars, agentVars, streamVars,
                      pipelineVars, pageVars, rateVars>>
Limit == /\ component = "limit" /\ RateNext
         /\ UNCHANGED <<component, keyVars, consentVars, tenantVars, agentVars, streamVars,
                        pipelineVars, pageVars, webVars>>

Next == Keys \/ Consents \/ Tenants \/ Agents \/ Streams \/ Safety \/ Page \/ Web \/ Limit

Spec == Init /\ [][Next]_vars /\ BuiltinFairness

-----------------------------------------------------------------------------
(* Values of constants.                                                        *)

TwoPlans == [free |-> 1, enterprise |-> 2]

Hit(pattern, score) == [pattern |-> pattern, score |-> score]
HitIn(source, pattern, score) == [pattern |-> pattern, score |-> score, source |-> source]

\* A plain text; one of 50 points, between the thresholds of the modes, whose
\* pattern hits it as it is and decoded; one of 60; and one with two decodings.
FourTexts ==
  {[rules |-> {}, plain |-> {}, decoded |-> {}],
   [rules |-> {"credential", "jailbreak"}, plain |-> {Hit("p", 40)},
    decoded |-> {HitIn("url", "p", 90)}],
   [rules |-> {"fraud_illegal", "tool_risk"}, plain |-> {}, decoded |-> {HitIn("hex", "p", 30)}],
   [rules |-> {}, plain |-> {}, decoded |-> {HitIn("url", "p", 50), HitIn("hex", "p", 50)}]}

SixToolLists ==
  {<<>>, <<"read_file", "web_search">>, <<"read_file", "read_file", "write_file">>,
   <<"shell">>, <<"delete_file">>, <<"format_disk">>}

\* Nothing but reading; everything but the dry run; everything.
ThreeClearances ==
  {[confirmed |-> {}, dryRun |-> {}, permitted |-> {"read_file", "web_search"}],
   [confirmed |-> {"write_file", "shell"}, dryRun |-> {}, permitted |-> DOMAIN ToolRisk],
   [confirmed |-> {"write_file", "shell"}, dryRun |-> {"shell"}, permitted |-> DOMAIN ToolRisk]}

ManyRequests ==
  {[text |-> text, mode |-> mode, tools |-> tools, confirmed |-> clearance.confirmed,
    dryRun |-> clearance.dryRun, permitted |-> clearance.permitted] :
     text \in FourTexts, mode \in {"strict", "balanced", "exploratory"},
     tools \in SixToolLists, clearance \in ThreeClearances}

ThreeOutputs == {{}, {"pii_reflection"}, {"pii_reflection", "credential_reflection"}}
=============================================================================
