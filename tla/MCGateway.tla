------------------------------ MODULE MCGateway ------------------------------
(***************************************************************************)
(* The components around a synchronous gateway call - circuit breaker,     *)
(* instance slots, answers, tenant limits - for TLC.  They share no state, *)
(* so a behaviour is one of any single component: `part` says which, the   *)
(* others stay where they start.                                           *)
(***************************************************************************)
EXTENDS CircuitBreaker, InstanceSlots, GatewayCalls, TenantQuota, TLC

CONSTANTS
    Parts,                  \* components that a run is about
    u1, u2, key, p1, p2     \* users, an idempotency key and payloads

VARIABLE part

mcVars == <<part, breakerVars, slotVars, gwVars, tenantVars>>

Profile(u, k, p, s, caching, alone) ==
    [user |-> u, key |-> k, payload |-> p, server |-> s, caching |-> caching, alone |-> alone]

\* A plain call with a key; one with the same key for something else, that is
\* cached and joins no flight; a cached call of another user without a key.
MCProfiles ==
    {Profile(u1, key, p1, 1, FALSE, FALSE), Profile(u1, key, p2, 2, TRUE, TRUE),
     Profile(u2, NoKey, p1, 1, TRUE, FALSE)}

\* Of two calls, only those with a user or a payload in common can meet.
MCRelated ==
    \A c, d \in GwCalls :
        profile[c].user = profile[d].user \/ profile[c].payload = profile[d].payload

MCInit ==
    /\ part \in Parts
    /\ BreakerInit
    /\ SlotInit
    /\ part # "slots" => limit = [i \in Instances |-> CHOOSE n \in Limits : TRUE]
    /\ GatewayInit
    /\ part = "calls" => MCRelated
    /\ part # "calls" => profile = [c \in GwCalls |-> CHOOSE p \in Profiles : TRUE]
    /\ TenantInit

MCBreaker ==
    /\ part = "breaker" /\ BreakerNext
    /\ UNCHANGED <<part, slotVars, gwVars, tenantVars>>
MCSlots ==
    /\ part = "slots" /\ SlotNext
    /\ UNCHANGED <<part, breakerVars, gwVars, tenantVars>>
MCCalls ==
    /\ part = "calls" /\ GatewayNext
    /\ UNCHANGED <<part, breakerVars, slotVars, tenantVars>>
MCTenant ==
    /\ part = "tenant" /\ TenantNext
    /\ UNCHANGED <<part, breakerVars, slotVars, gwVars>>

MCNext == MCBreaker \/ MCSlots \/ MCCalls \/ MCTenant

MCSpec == MCInit /\ [][MCNext]_mcVars

\* Attempts, calls and time go on; requests for the provider keep coming.
LiveSpec ==
    /\ MCSpec
    /\ BreakerFairness
    /\ SlotFairness
    /\ \A r \in Requests : WF_breakerVars(part = "breaker" /\ Arrive(r))

\* What tells two states apart: the other components are where they started.
Own ==
    <<part, CASE part = "breaker" -> breakerVars
              [] part = "slots" -> slotVars
              [] part = "calls" -> gwVars
              [] part = "tenant" -> tenantVars>>

Symmetry == Permutations(Requests)
=============================================================================
