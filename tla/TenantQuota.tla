----------------------------- MODULE TenantQuota -----------------------------
(***************************************************************************)
(* The daily limits of one tenant: the request counter of                  *)
(* GatewayRateLimitMiddleware (middleware/ratelimit.go), the cost check    *)
(* before a call and the cost counter after it                             *)
(* (service/tenant_billing_hook.go), and the alerts that an administrator  *)
(* or a scheduler asks for (CheckAlerts in service/quota_service.go).      *)
(*                                                                         *)
(* The counters are Redis keys of the day.  A command that fails lets the  *)
(* call through or leaves the cost uncounted.                              *)
(***************************************************************************)
EXTENDS Naturals, FiniteSets

CONSTANTS
    Clients,            \* calls of the tenant, each over and over again
    Checkers,           \* CheckAlerts under way
    RequestLimit,       \* TenantRequestsPerDay
    CostLimit,          \* TenantDailyCostLimit
    Estimate,           \* cost estimated before a call
    MaxCost,            \* most that a call costs in the end
    WarnAt, ExceededAt, \* values of both counters a policy warns at, calls
                        \* exceeded; they are not the limits above
    MaxRequests,        \* bound: what the request counter reaches
    MaxTenantFaults     \* bound: failing commands and statements

ASSUME TenantAssumption ==
    /\ IsFiniteSet(Clients) /\ IsFiniteSet(Checkers)
    /\ RequestLimit \in Nat \ {0}
    /\ CostLimit \in Nat \ {0}
    /\ Estimate \in Nat \ {0}
    /\ MaxCost \in Nat \ {0}
    /\ WarnAt \in Nat /\ ExceededAt \in Nat /\ WarnAt <= ExceededAt
    /\ MaxRequests \in Nat
    /\ MaxTenantFaults \in Nat

VARIABLES
    requests,   \* quota:tenant:daily of today
    spent,      \* billing:tenant:daily:cost of today
    stage,      \* stage[c]: where a call stands
    marks,      \* alert:quota keys of today
    alerts,     \* alerts[m]: rows stored today about m
    job,        \* job[k]: what checker k does next
    usage,      \* usage[k]: the counters it has read
    tenantFaults,
    admissions, \* history: calls the request counter let through today
    waved,      \* history: a failing command let a call through or left its
                \* cost uncounted
    unmarked,   \* history: an alert was stored without its key
    dropped     \* history: the storing of an alert failed after its key was set

Dimensions == {"request", "cost"}
Marks == [dimension : Dimensions, level : {"warning", "critical"}]
Usages == [Dimensions -> Nat]
NoUsage == [d \in Dimensions |-> 0]

counters == <<requests, spent>>
alerting == <<marks, alerts, job, usage>>
tenantHistory == <<admissions, waved, unmarked, dropped>>
tenantVars == <<counters, stage, alerting, tenantFaults, tenantHistory>>

TenantTypeOK ==
    /\ requests \in Nat
    /\ spent \in Nat
    /\ stage \in [Clients -> {"idle", "check", "work"}]
    /\ marks \subseteq Marks
    /\ alerts \in [Marks -> Nat]
    /\ job \in [Checkers ->
        [place : {"idle"}] \union [place : {"key", "store"}, dimension : Dimensions]]
    /\ usage \in [Checkers -> Usages]
    /\ tenantFaults \in Nat
    /\ admissions \in Nat
    /\ {waved, unmarked} \subseteq BOOLEAN
    /\ dropped \subseteq Marks

Idle == [place |-> "idle"]
At(p, d) == [place |-> p, dimension |-> d]

TenantInit ==
    /\ requests = 0
    /\ spent = 0
    /\ stage = [c \in Clients |-> "idle"]
    /\ marks = {}
    /\ alerts = [m \in Marks |-> 0]
    /\ job = [k \in Checkers |-> Idle]
    /\ usage = [k \in Checkers |-> NoUsage]
    /\ tenantFaults = 0
    /\ admissions = 0
    /\ waved = FALSE
    /\ unmarked = FALSE
    /\ dropped = {}

TenantFault == tenantFaults < MaxTenantFaults /\ tenantFaults' = tenantFaults + 1

Become(c, s) == stage' = [stage EXCEPT ![c] = s]
Working == {c \in Clients : stage[c] = "work"}

\* What checker k finds about dimension d.
Level(k, d) == IF usage[k][d] >= ExceededAt THEN "critical" ELSE "warning"
Mark(k, d) == [dimension |-> d, level |-> Level(k, d)]

\* The cost comes after the requests.
NextJob(d) == IF d = "request" THEN At("key", "cost") ELSE Idle

Turn(k, j) ==
    /\ job' = [job EXCEPT ![k] = j]
    /\ usage' = [usage EXCEPT ![k] = IF j = Idle THEN NoUsage ELSE @]

-----------------------------------------------------------------------------
(* Slips: what some definitions would be with a mistake in the code.  They  *)
(* are part of no specification; each shows that a property would notice it. *)

\* What is spent already is compared, without the call to come.
CheckCostPast(c) ==
    /\ stage[c] = "check"
    /\ \/ spent <= CostLimit /\ Become(c, "work") /\ UNCHANGED <<tenantFaults, waved>>
       \/ spent > CostLimit /\ Become(c, "idle") /\ UNCHANGED <<tenantFaults, waved>>
    /\ UNCHANGED <<counters, alerting, admissions, unmarked, dropped>>

\* The reply to SETNX is ignored.
TakeKeyAnyway(k) ==
    /\ job[k].place = "key"
    /\ LET d == job[k].dimension
           m == Mark(k, d)
           due == usage[k][d] >= WarnAt
       IN
        /\ marks' = IF due THEN marks \union {m} ELSE marks
        /\ IF due THEN Turn(k, At("store", d)) ELSE Turn(k, NextJob(d))
    /\ UNCHANGED <<counters, stage, alerts, tenantFaults, tenantHistory>>

-----------------------------------------------------------------------------
(* Calls.                                                                    *)

\* INCR, then the comparison; refused calls stay counted.
CountRequest(c) ==
    /\ stage[c] = "idle"
    /\ requests < MaxRequests
    /\ \/ /\ requests' = requests + 1
          /\ Become(c, IF requests' > RequestLimit THEN "idle" ELSE "check")
          /\ admissions' = IF requests' > RequestLimit THEN admissions ELSE admissions + 1
          /\ UNCHANGED <<tenantFaults, waved>>
       \/ /\ TenantFault
          /\ Become(c, "check")
          /\ waved' = TRUE
          /\ admissions' = admissions + 1
          /\ UNCHANGED requests
    /\ UNCHANGED <<spent, alerting, unmarked, dropped>>

\* CheckQuota reads what the day has cost so far.
CheckCost(c) ==
    /\ stage[c] = "check"
    /\ \/ spent + Estimate <= CostLimit /\ Become(c, "work") /\ UNCHANGED <<tenantFaults, waved>>
       \/ spent + Estimate > CostLimit /\ Become(c, "idle") /\ UNCHANGED <<tenantFaults, waved>>
       \/ TenantFault /\ Become(c, "work") /\ waved' = TRUE
    /\ UNCHANGED <<counters, alerting, admissions, unmarked, dropped>>

\* OnBilled, in the key of the day the call has ended on; a call that failed
\* or was answered for nothing has no cost.
CountCost(c) ==
    /\ stage[c] = "work"
    /\ \/ \E cost \in 0 .. MaxCost : spent' = spent + cost /\ UNCHANGED <<tenantFaults, waved>>
       \/ TenantFault /\ waved' = TRUE /\ UNCHANGED spent
    /\ Become(c, "idle")
    /\ UNCHANGED <<requests, alerting, admissions, unmarked, dropped>>

-----------------------------------------------------------------------------
(* Alerts.                                                                   *)

\* GetDailyUsage.  The two counters only grow, whoever reads one first.
ReadUsage(k) ==
    /\ job[k].place = "idle"
    /\ usage' = [usage EXCEPT ![k] =
            [d \in Dimensions |-> IF d = "request" THEN requests ELSE spent]]
    /\ job' = [job EXCEPT ![k] = At("key", "request")]
    /\ UNCHANGED <<counters, stage, marks, alerts, tenantFaults, tenantHistory>>

\* maybeCreateQuotaAlert: below the threshold nothing is due; allowQuotaAlert
\* sets the key of the level, unless it is there.  Without an answer the alert
\* is allowed.
TakeKey(k) ==
    /\ job[k].place = "key"
    /\ LET d == job[k].dimension
           m == Mark(k, d)
           due == usage[k][d] >= WarnAt
       IN
        \/ /\ due /\ m \notin marks
           /\ marks' = marks \union {m}
           /\ Turn(k, At("store", d))
           /\ UNCHANGED <<tenantFaults, unmarked>>
        \/ /\ ~due \/ m \in marks
           /\ Turn(k, NextJob(d))
           /\ UNCHANGED <<marks, tenantFaults, unmarked>>
        \/ /\ due /\ TenantFault
           /\ Turn(k, At("store", d))
           /\ unmarked' = TRUE
           /\ UNCHANGED marks
    /\ UNCHANGED <<counters, stage, alerts, admissions, waved, dropped>>

\* CreateAlert; its error ends the whole check.
StoreAlert(k) ==
    /\ job[k].place = "store"
    /\ LET m == Mark(k, job[k].dimension) IN
        \/ /\ alerts' = [alerts EXCEPT ![m] = @ + 1]
           /\ Turn(k, NextJob(job[k].dimension))
           /\ UNCHANGED <<tenantFaults, dropped>>
        \/ /\ TenantFault
           /\ dropped' = dropped \union {m}
           /\ Turn(k, Idle)
           /\ UNCHANGED alerts
    /\ UNCHANGED <<counters, stage, marks, admissions, waved, unmarked>>

\* Midnight: every key is another one.  What checkers still do concerns the day
\* before, calls go on.
NewDay ==
    /\ requests' = 0
    /\ spent' = 0
    /\ marks' = {}
    /\ alerts' = [m \in Marks |-> 0]
    /\ job' = [k \in Checkers |-> Idle]
    /\ usage' = [k \in Checkers |-> NoUsage]
    /\ admissions' = 0
    /\ unmarked' = FALSE
    /\ dropped' = {}
    /\ UNCHANGED <<stage, tenantFaults, waved>>

TenantNext ==
    \/ \E c \in Clients : CountRequest(c) \/ CheckCost(c) \/ CountCost(c)
    \/ \E k \in Checkers : ReadUsage(k) \/ TakeKey(k) \/ StoreAlert(k)
    \/ NewDay

TenantSpec == TenantInit /\ [][TenantNext]_tenantVars

-----------------------------------------------------------------------------
(* Properties.                                                               *)

\* However the checks before the calls and the counts after them interleave,
\* and whatever goes on from yesterday, a tenant's day costs no more than the
\* limit, less one estimate, and what all calls under way at a time can cost;
\* and no more calls pass the request counter than its limit.  Both as long as
\* no command failed.
OverspendBounded ==
    waved \/
        /\ spent = 0 \/ spent + Estimate <= CostLimit + Cardinality(Clients) * MaxCost
        /\ admissions <= RequestLimit

\* An alert whose key is set is stored or about to be, exactly once, unless its
\* storing failed: then nobody tries again on that day.  More than one is stored
\* only when Redis did not answer.
AlertNotLost ==
    \A m \in marks \ dropped : unmarked \/
        alerts[m] + Cardinality({k \in Checkers :
            job[k].place = "store" /\ Mark(k, job[k].dimension) = m}) = 1
=============================================================================
