----------------------------- MODULE MCServices -----------------------------
(***************************************************************************)
(* Small instances, for TLC, of the components that serve and guard        *)
(* requests.  They share no state: a behaviour belongs to one of them, its *)
(* focus, and leaves the variables of the others at their initial values.  *)
(* One key of the request pipeline is used by a request, its retry and a   *)
(* request with another intent, a second key by a fourth; two readers share *)
(* the settings cache of one process; a change of the source and its       *)
(* reverse leave the metadata of the pipeline state as they were.          *)
(***************************************************************************)
EXTENDS CircuitBreaker, LLMGateway, RateLimiter, RequestPipeline,
        RuntimeSettings, StateServing, AdaptiveThrottle, RequestContext, TLC

VARIABLE focus

servicesVars == <<breakerVars, gatewayVars, limiterVars, pipelineVars,
                  settingsVars, servingVars, throttleVars, contextVars, focus>>

MCKeyOf == ("first" :> "key1") @@ ("retry" :> "key1")
               @@ ("changed" :> "key1") @@ ("other" :> "key2")
MCIntentOf == ("first" :> "post") @@ ("retry" :> "post")
                  @@ ("changed" :> "delete") @@ ("other" :> "post")
MCHome == ("reader1" :> "api") @@ ("reader2" :> "api")
MCMetadata == (0 :> "one") @@ (1 :> "two") @@ (2 :> "one") @@ (3 :> "three")

ServicesInit ==
    /\ Init /\ GatewayInit /\ LimiterInit /\ PipelineInit
    /\ SettingsInit /\ ServingInit /\ ThrottleInit /\ ContextInit
    /\ focus \in {"breaker", "gateway", "limiter", "pipeline", "settings",
                  "serving", "throttle", "context"}
    /\ focus # "context" => row = NoTenant
    /\ focus # "settings" => listening = [p \in Process |-> FALSE]

Only(p) ==
    /\ focus = p /\ focus' = p
    /\ p # "breaker" => UNCHANGED breakerVars
    /\ p # "gateway" => UNCHANGED gatewayVars
    /\ p # "limiter" => UNCHANGED limiterVars
    /\ p # "pipeline" => UNCHANGED pipelineVars
    /\ p # "settings" => UNCHANGED settingsVars
    /\ p # "serving" => UNCHANGED servingVars
    /\ p # "throttle" => UNCHANGED throttleVars
    /\ p # "context" => UNCHANGED contextVars

ServicesNext ==
    \/ Only("breaker") /\ Next
    \/ Only("gateway") /\ GatewayNext
    \/ Only("limiter") /\ LimiterNext
    \/ Only("pipeline") /\ PipelineNext
    \/ Only("settings") /\ SettingsNext
    \/ Only("serving") /\ ServingNext
    \/ Only("throttle") /\ ThrottleNext
    \/ Only("context") /\ ContextNext

\* The fairness of the breaker, of the settings and of the throttle, each in
\* its own part; for the limiter, the clock goes on and EXPIRE ends somehow.
ServicesFairness ==
    /\ WF_breakerVars(focus = "breaker" /\ Tick)
    /\ \A c \in Caller :
          /\ WF_breakerVars(focus = "breaker" /\ (Admit(c) \/ Probe(c)))
          /\ WF_breakerVars(focus = "breaker" /\ Finish(c))
    /\ WF_limiterVars(focus = "limiter" /\ Pass)
    /\ \A a \in Replica : WF_limiterVars(focus = "limiter" /\ LimiterFinish(a))
    /\ \A p \in Process : WF_settingsVars(focus = "settings" /\ Age(p))
    /\ \A r \in Reader :
          /\ WF_settingsVars(focus = "settings" /\ Refresh(r))
          /\ WF_settingsVars(focus = "settings" /\ Return(r))
    /\ \A v \in Visitor :
          /\ WF_throttleVars(focus = "throttle" /\ LetThrough(v))
          /\ WF_throttleVars(focus = "throttle" /\ VisitEnds(v))

ServicesSpec == ServicesInit /\ [][ServicesNext]_servicesVars /\ ServicesFairness
=============================================================================
