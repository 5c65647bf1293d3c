------------------------- MODULE TenantQuota_proofs -------------------------
(***************************************************************************)
(* What TenantQuota guarantees for any finite number of calls and checkers *)
(* and for all limits, estimates and costs.                                *)
(***************************************************************************)
EXTENDS TenantQuota, FiniteSetTheorems, TLAPS

USE DEF counters, alerting, tenantHistory

Jobs == [place : {"idle"}] \union [place : {"key", "store"}, dimension : Dimensions]

LEMMA JobTypes ==
    /\ Idle \in Jobs
    /\ \A p \in {"key", "store"}, d \in Dimensions :
          At(p, d) \in Jobs /\ At(p, d) # Idle /\ At(p, d).place = p /\ At(p, d).dimension = d
    /\ \A d \in Dimensions : NextJob(d) \in Jobs /\ NextJob(d).place # "store"
<1>1. Idle \in Jobs /\ Idle.place = "idle"
  BY DEF Idle, Jobs
<1>2. \A p \in {"key", "store"}, d \in Dimensions :
          At(p, d) \in Jobs /\ At(p, d).place = p /\ At(p, d).dimension = d
  BY DEF At, Jobs
<1>3. \A p \in {"key", "store"}, d \in Dimensions : At(p, d) # Idle
  BY <1>1, <1>2
<1>4. \A d \in Dimensions : NextJob(d) \in Jobs /\ NextJob(d).place # "store"
  BY <1>1, <1>2 DEF NextJob, Dimensions
<1> QED
  BY <1>1, <1>2, <1>3, <1>4

LEMMA TurnType ==
    ASSUME job \in [Checkers -> Jobs], usage \in [Checkers -> Usages],
           NEW k \in Checkers, NEW j \in Jobs, Turn(k, j)
    PROVE  job' \in [Checkers -> Jobs] /\ usage' \in [Checkers -> Usages]
<1>1. NoUsage \in Usages
  BY DEF NoUsage, Usages
<1> QED
  BY <1>1 DEF Turn

LEMMA AtKey ==
    ASSUME job \in [Checkers -> Jobs], NEW k \in Checkers, job[k].place \in {"key", "store"}
    PROVE  job[k].dimension \in Dimensions
<1>1. job[k] \in Jobs
  OBVIOUS
<1>2. CASE job[k] \in [place : {"idle"}]
  BY <1>2
<1>3. CASE job[k] \in [place : {"key", "store"}, dimension : Dimensions]
  BY <1>3
<1> QED
  BY <1>1, <1>2, <1>3 DEF Jobs

LEMMA MarkType ==
    ASSUME NEW k \in Checkers, NEW d \in Dimensions
    PROVE  Mark(k, d) \in Marks
BY DEF Mark, Level, Marks

\* The type invariant of the tenant's counters, calls and checkers.
THEOREM TypeInvariant == TenantSpec => []TenantTypeOK
<1> USE DEF TenantTypeOK
<1>1. TenantInit => TenantTypeOK
  <2>1. NoUsage \in Usages
    BY DEF NoUsage, Usages
  <2>2. TenantInit => {waved, unmarked} \subseteq BOOLEAN
    BY DEF TenantInit
  <2>3. TenantInit => job \in [Checkers -> Jobs] /\ usage \in [Checkers -> Usages]
    BY <2>1, JobTypes DEF TenantInit
  <2> QED
    BY <2>2, <2>3 DEF TenantInit, Jobs
<1>2. TenantTypeOK /\ [TenantNext]_tenantVars => TenantTypeOK'
  <2> SUFFICES ASSUME TenantTypeOK, [TenantNext]_tenantVars
               PROVE  TenantTypeOK'
    OBVIOUS
  <2>0. job \in [Checkers -> Jobs]
    BY DEF Jobs
  <2>1. ASSUME NEW c \in Clients, CountRequest(c) \/ CheckCost(c) \/ CountCost(c)
        PROVE  TenantTypeOK'
    <3>1. requests' \in Nat /\ admissions' \in Nat /\ tenantFaults' \in Nat
      BY <2>1 DEF CountRequest, CheckCost, CountCost, TenantFault
    <3>2. spent' \in Nat
      BY <2>1, TenantAssumption DEF CountRequest, CheckCost, CountCost
    <3>3. stage' \in [Clients -> {"idle", "check", "work"}]
      BY <2>1 DEF CountRequest, CheckCost, CountCost, Become
    <3>4. waved' \in BOOLEAN
      BY <2>1 DEF CountRequest, CheckCost, CountCost
    <3>5. UNCHANGED alerting /\ unmarked' = unmarked /\ dropped' = dropped
      BY <2>1 DEF CountRequest, CheckCost, CountCost
    <3> QED
      BY <3>1, <3>2, <3>3, <3>4, <3>5
  <2>2. ASSUME NEW k \in Checkers, ReadUsage(k)
        PROVE  TenantTypeOK'
    <3>1. [d \in Dimensions |-> IF d = "request" THEN requests ELSE spent] \in Usages
      BY DEF Usages
    <3>2. usage' \in [Checkers -> Usages]
      BY <2>2, <3>1 DEF ReadUsage
    <3>3. job' \in [Checkers -> Jobs]
      BY <2>0, <2>2, JobTypes DEF ReadUsage, Dimensions
    <3> QED
      BY <2>2, <3>2, <3>3 DEF ReadUsage, Jobs
  <2>3. ASSUME NEW k \in Checkers, TakeKey(k)
        PROVE  TenantTypeOK'
    <3>1. job[k].dimension \in Dimensions
      BY <2>0, <2>3, AtKey DEF TakeKey
    <3>2. \E j \in Jobs : Turn(k, j)
      BY <2>3, <3>1, JobTypes DEF TakeKey
    <3>3. job' \in [Checkers -> Jobs] /\ usage' \in [Checkers -> Usages]
      BY <2>0, <3>2, TurnType
    <3>4. marks' \subseteq Marks
      BY <2>3, <3>1, MarkType DEF TakeKey
    <3>5. unmarked' \in BOOLEAN
      BY <2>3 DEF TakeKey
    <3>6. tenantFaults' \in Nat
      BY <2>3 DEF TakeKey, TenantFault
    <3> QED
      BY <2>3, <3>3, <3>4, <3>5, <3>6 DEF TakeKey, Jobs
  <2>4. ASSUME NEW k \in Checkers, StoreAlert(k)
        PROVE  TenantTypeOK'
    <3>1. job[k].dimension \in Dimensions
      BY <2>0, <2>4, AtKey DEF StoreAlert
    <3>2. \E j \in Jobs : Turn(k, j)
      BY <2>4, <3>1, JobTypes DEF StoreAlert
    <3>3. job' \in [Checkers -> Jobs] /\ usage' \in [Checkers -> Usages]
      BY <2>0, <3>2, TurnType
    <3>4. alerts' \in [Marks -> Nat] /\ dropped' \subseteq Marks /\ tenantFaults' \in Nat
      BY <2>4, <3>1, MarkType DEF StoreAlert, TenantFault
    <3> QED
      BY <2>4, <3>3, <3>4 DEF StoreAlert, Jobs
  <2>5. CASE NewDay
    <3>1. NoUsage \in Usages
      BY DEF NoUsage, Usages
    <3> QED
      BY <2>5, <3>1, JobTypes DEF NewDay, Jobs
  <2>6. CASE UNCHANGED tenantVars
    BY <2>6 DEF tenantVars
  <2> QED
    BY <2>1, <2>2, <2>3, <2>4, <2>5, <2>6 DEF TenantNext
<1> QED
  BY <1>1, <1>2, PTL DEF TenantSpec

(***************************************************************************)
(* The bound on a day's cost.  A call at work has a place among the        *)
(* clients reserved: what it may still cost is part of the bound.          *)
(***************************************************************************)
N == Cardinality(Clients)
W == Cardinality(Working)

IOverspend ==
    \/ waved
    \/ /\ Working # {} \/ spent > 0 =>
            spent + Estimate + W * MaxCost <= CostLimit + N * MaxCost
       /\ admissions <= requests
       /\ admissions <= RequestLimit

LEMMA Counts ==
    /\ W \in Nat /\ N \in Nat
    /\ W <= N
BY FS_Subset, FS_CardinalityType, TenantAssumption DEF W, N, Working

LEMMA StartCounts ==
    ASSUME TenantTypeOK, NEW c \in Clients, c \notin Working, Become(c, "work")
    PROVE  W' = W + 1 /\ W' <= N
<1>1. Working' = Working \union {c} /\ Working' \subseteq Clients
  BY DEF TenantTypeOK, Become, Working
<1>2. IsFiniteSet(Working)
  BY FS_Subset, TenantAssumption DEF Working
<1>3. W' = W + 1
  BY <1>1, <1>2, FS_AddElement DEF W
<1>4. W' <= N
  BY <1>1, FS_Subset, TenantAssumption DEF W, N
<1> QED
  BY <1>3, <1>4

LEMMA EndCounts ==
    ASSUME TenantTypeOK, NEW c \in Clients, c \in Working, Become(c, "idle")
    PROVE  W' = W - 1
<1>1. Working' = Working \ {c}
  BY DEF TenantTypeOK, Become, Working
<1>2. IsFiniteSet(Working)
  BY FS_Subset, TenantAssumption DEF Working
<1> QED
  BY <1>1, <1>2, FS_RemoveElement DEF W

LEMMA SameCounts ==
    ASSUME Working' = Working
    PROVE  W' = W
BY DEF W

\* Arithmetic: one more call reserves one more share of the bound.
LEMMA Shares ==
    ASSUME NEW m \in Nat, NEW i \in Nat, NEW n \in Nat
    PROVE  /\ (i + 1) * m = i * m + m
           /\ i <= n => i * m <= n * m
           /\ i * m \in Nat /\ n * m \in Nat
OBVIOUS

\* Without failing commands a day costs at most the limit, less an estimate,
\* and what all calls under way can cost; and the request limit holds.
THEOREM OverspendIsBounded == TenantSpec => []OverspendBounded
<1>1. TenantInit => IOverspend
  <2> SUFFICES ASSUME TenantInit
               PROVE  Working = {} /\ spent = 0 /\ admissions = 0 /\ requests = 0
    BY TenantAssumption DEF IOverspend
  <2> QED
    BY DEF TenantInit, Working
<1>2. TenantTypeOK /\ IOverspend /\ [TenantNext]_tenantVars => IOverspend'
  <2> SUFFICES ASSUME TenantTypeOK, IOverspend, [TenantNext]_tenantVars, ~waved'
               PROVE  IOverspend'
    BY DEF IOverspend
  <2>0. MaxCost \in Nat /\ Estimate \in Nat /\ CostLimit \in Nat /\ RequestLimit \in Nat
    BY TenantAssumption
  <2>00. spent \in Nat /\ requests \in Nat /\ admissions \in Nat /\ waved \in BOOLEAN
    BY DEF TenantTypeOK
  <2>1. ASSUME NEW c \in Clients, CountRequest(c)
        PROVE  IOverspend'
    <3>1. Working' = Working /\ spent' = spent
      BY <2>1 DEF CountRequest, Become, Working, TenantTypeOK
    <3>2. ~waved
      BY <2>1 DEF CountRequest
    <3>3. requests' = requests + 1 /\ admissions' = IF requests' > RequestLimit THEN admissions
                                                    ELSE admissions + 1
      BY <2>1 DEF CountRequest
    <3>4. admissions' <= requests' /\ admissions' <= RequestLimit
      BY <2>0, <2>00, <3>2, <3>3 DEF IOverspend
    <3> QED
      BY <3>1, <3>2, <3>4, SameCounts DEF IOverspend
  <2>2. ASSUME NEW c \in Clients, CheckCost(c)
        PROVE  IOverspend'
    <3>1. ~waved /\ spent' = spent /\ requests' = requests /\ admissions' = admissions
      BY <2>2 DEF CheckCost
    <3>2. c \notin Working
      BY <2>2 DEF CheckCost, Working
    <3>3. CASE Become(c, "idle")
      <4>1. Working' = Working
        BY <3>2, <3>3 DEF Become, Working, TenantTypeOK
      <4> QED
        BY <3>1, <4>1, SameCounts DEF IOverspend
    <3>4. CASE Become(c, "work") /\ spent + Estimate <= CostLimit
      <4>1. W' = W + 1 /\ W' <= N /\ W \in Nat /\ N \in Nat
        BY <3>2, <3>4, StartCounts, Counts
      <4>2. W' * MaxCost <= N * MaxCost /\ W' * MaxCost \in Nat /\ N * MaxCost \in Nat
        BY <2>0, <4>1, Shares
      <4>3. spent + Estimate + W' * MaxCost <= CostLimit + N * MaxCost
        BY <2>0, <2>00, <3>4, <4>2
      <4> QED
        BY <3>1, <4>3 DEF IOverspend
    <3> QED
      BY <2>2, <3>3, <3>4 DEF CheckCost
  <2>3. ASSUME NEW c \in Clients, CountCost(c)
        PROVE  IOverspend'
    <3>1. ~waved /\ requests' = requests /\ admissions' = admissions
      BY <2>3 DEF CountCost
    <3>2. PICK cost \in 0 .. MaxCost : spent' = spent + cost
      BY <2>3 DEF CountCost
    <3>3. c \in Working
      BY <2>3 DEF CountCost, Working
    <3>4. W' = W - 1 /\ W \in Nat /\ N \in Nat
      BY <2>3, <3>3, EndCounts, Counts DEF CountCost
    <3>5. Cardinality(Working) # 0
      BY <3>3, FS_EmptySet, FS_Subset, TenantAssumption DEF Working
    <3>6. W' \in Nat /\ W = W' + 1
      BY <3>4, <3>5 DEF W
    <3>7. W * MaxCost = W' * MaxCost + MaxCost /\ W' * MaxCost \in Nat /\ N * MaxCost \in Nat
      BY <2>0, <3>4, <3>6, Shares
    <3>8. spent + Estimate + W * MaxCost <= CostLimit + N * MaxCost
      BY <3>1, <3>3 DEF IOverspend
    <3>9. spent' + Estimate + W' * MaxCost <= CostLimit + N * MaxCost
      BY <2>0, <2>00, <3>2, <3>7, <3>8
    <3> QED
      BY <3>1, <3>9 DEF IOverspend
  <2>4. ASSUME NEW k \in Checkers, ReadUsage(k) \/ TakeKey(k) \/ StoreAlert(k)
        PROVE  IOverspend'
    <3>1. UNCHANGED <<requests, spent, stage>> /\ admissions' = admissions /\ waved' = waved
      BY <2>4 DEF ReadUsage, TakeKey, StoreAlert
    <3>2. Working' = Working
      BY <3>1 DEF Working
    <3> QED
      BY <3>1, <3>2, SameCounts DEF IOverspend
  <2>5. CASE NewDay
    <3>1. Working' = Working /\ spent' = 0 /\ requests' = 0 /\ admissions' = 0 /\ ~waved
      BY <2>5 DEF NewDay, Working
    <3>2. W * MaxCost \in Nat /\ N * MaxCost \in Nat
      BY <2>0, Counts, Shares
    <3>3. Working # {} => 0 + Estimate + W * MaxCost <= CostLimit + N * MaxCost
      BY <2>0, <2>00, <3>1, <3>2 DEF IOverspend
    <3> QED
      BY <2>0, <3>1, <3>3, SameCounts DEF IOverspend
  <2>6. CASE UNCHANGED tenantVars
    <3>1. Working' = Working
      BY <2>6 DEF tenantVars, Working
    <3>2. UNCHANGED <<requests, spent>> /\ admissions' = admissions /\ waved' = waved
      BY <2>6 DEF tenantVars
    <3> QED
      BY <3>1, <3>2, SameCounts DEF IOverspend
  <2> QED
    BY <2>1, <2>2, <2>3, <2>4, <2>5, <2>6 DEF TenantNext
<1>3. TenantTypeOK /\ IOverspend => OverspendBounded
  <2>1. ASSUME TenantTypeOK, IOverspend, ~waved, spent # 0
        PROVE  spent + Estimate <= CostLimit + N * MaxCost
    <3>1. W * MaxCost \in Nat /\ N * MaxCost \in Nat
      BY Counts, Shares, TenantAssumption
    <3>2. spent + Estimate + W * MaxCost <= CostLimit + N * MaxCost
      BY <2>1 DEF IOverspend, TenantTypeOK
    <3> QED
      BY <2>1, <3>1, <3>2, TenantAssumption DEF TenantTypeOK
  <2> QED
    BY <2>1 DEF OverspendBounded, IOverspend, N
<1> QED
  BY <1>1, <1>2, <1>3, TypeInvariant, PTL DEF TenantSpec

(***************************************************************************)
(* Alerts: a key belongs to one alert, stored or about to be; without a    *)
(* key there is neither.                                                   *)
(***************************************************************************)
Storing(m) == {k \in Checkers : job[k].place = "store" /\ Mark(k, job[k].dimension) = m}

IAlerts ==
    \/ unmarked
    \/ /\ \A m \in Marks \ marks : alerts[m] = 0 /\ Storing(m) = {}
       /\ \A m \in marks \ dropped : alerts[m] + Cardinality(Storing(m)) = 1

\* What checker k is about to store is all that a turn of k changes.
LEMMA OthersStoring ==
    ASSUME TenantTypeOK, NEW k \in Checkers, NEW j \in Jobs, Turn(k, j), NEW m \in Marks
    PROVE  Storing(m)' \ {k} = Storing(m) \ {k}
<1>1. \A i \in Checkers \ {k} : job'[i] = job[i] /\ usage'[i] = usage[i]
  BY DEF TenantTypeOK, Turn
<1> QED
  BY <1>1 DEF Storing, Mark, Level

LEMMA StoringFinite ==
    ASSUME NEW m \in Marks
    PROVE  IsFiniteSet(Storing(m)) /\ Cardinality(Storing(m)) \in Nat
BY FS_Subset, FS_CardinalityType, TenantAssumption DEF Storing

\* A turn that leaves k nowhere near storing.
LEMMA TurnAway ==
    ASSUME TenantTypeOK, NEW k \in Checkers, NEW j \in Jobs, Turn(k, j), j.place # "store",
           job[k].place # "store", NEW m \in Marks
    PROVE  Storing(m)' = Storing(m)
<1>1. k \notin Storing(m) /\ k \notin Storing(m)'
  BY DEF TenantTypeOK, Turn, Storing
<1> QED
  BY <1>1, OthersStoring

\* As long as Redis answers and storing does not fail, the alert of a key is
\* stored exactly once.
THEOREM AlertsAreNotLost == TenantSpec => []AlertNotLost
<1>1. TenantInit => IAlerts
  BY DEF TenantInit, IAlerts, Storing, Idle
<1>2. TenantTypeOK /\ IAlerts /\ [TenantNext]_tenantVars => IAlerts'
  <2> SUFFICES ASSUME TenantTypeOK, IAlerts, [TenantNext]_tenantVars, ~unmarked'
               PROVE  IAlerts'
    BY DEF IAlerts
  <2>0. job \in [Checkers -> Jobs] /\ usage \in [Checkers -> Usages]
    BY DEF TenantTypeOK, Jobs
  <2>1. ASSUME NEW c \in Clients, CountRequest(c) \/ CheckCost(c) \/ CountCost(c)
        PROVE  IAlerts'
    BY <2>1 DEF CountRequest, CheckCost, CountCost, IAlerts, Storing, Mark, Level
  <2>2. ASSUME NEW k \in Checkers, ReadUsage(k)
        PROVE  IAlerts'
    <3>1. job'[k].place = "key" /\ job[k].place = "idle"
      BY <2>0, <2>2, JobTypes DEF ReadUsage, Dimensions
    <3>2. \A i \in Checkers \ {k} : job'[i] = job[i] /\ usage'[i] = usage[i]
      BY <2>0, <2>2 DEF ReadUsage
    <3>3. \A m \in Marks : Storing(m)' = Storing(m)
      BY <3>1, <3>2 DEF Storing, Mark, Level
    <3>4. UNCHANGED <<marks, alerts>> /\ unmarked' = unmarked /\ dropped' = dropped
      BY <2>2 DEF ReadUsage
    <3> QED
      BY <3>3, <3>4 DEF IAlerts, TenantTypeOK
  <2>3. ASSUME NEW k \in Checkers, TakeKey(k)
        PROVE  IAlerts'
    <3>0. job[k].dimension \in Dimensions /\ Mark(k, job[k].dimension) \in Marks
      BY <2>0, <2>3, AtKey, MarkType DEF TakeKey
    <3>1. PICK d \in Dimensions, m \in Marks : d = job[k].dimension /\ m = Mark(k, d)
      BY <3>0
    <3>2. job[k].place = "key"
      BY <2>3 DEF TakeKey
    <3>3. ~unmarked /\ alerts' = alerts /\ dropped' = dropped
      BY <2>3 DEF TakeKey
    <3>4. CASE marks' = marks /\ Turn(k, NextJob(d))
      <4>1. \A n \in Marks : Storing(n)' = Storing(n)
        BY <3>1, <3>2, <3>4, JobTypes, TurnAway
      <4> QED
        BY <3>3, <3>4, <4>1 DEF IAlerts, TenantTypeOK
    <3>5. CASE m \notin marks /\ marks' = marks \union {m} /\ Turn(k, At("store", d))
      <4>1. job'[k] = At("store", d) /\ usage'[k] = usage[k]
        BY <2>0, <3>1, <3>5, JobTypes DEF Turn
      <4>2. \A n \in Marks : Storing(n)' = IF n = m THEN Storing(n) \union {k} ELSE Storing(n)
        <5> SUFFICES ASSUME NEW n \in Marks
                     PROVE  Storing(n)' = IF n = m THEN Storing(n) \union {k} ELSE Storing(n)
          OBVIOUS
        <5>1. Storing(n)' \ {k} = Storing(n) \ {k}
          BY <3>1, <3>5, JobTypes, OthersStoring
        <5>2. k \in Storing(n)' <=> n = m
          BY <3>1, <4>1, JobTypes DEF Storing, Mark, Level
        <5>3. k \notin Storing(n)
          BY <3>2 DEF Storing
        <5> QED
          BY <5>1, <5>2, <5>3
      <4>3. alerts[m] = 0 /\ Storing(m) = {}
        BY <3>1, <3>3, <3>5 DEF IAlerts
      <4>4. Storing(m)' = {k}
        BY <3>1, <4>2, <4>3
      <4>5. Cardinality(Storing(m)') = 1
        BY <4>4, FS_Singleton
      <4>6. \A n \in Marks \ marks' : alerts'[n] = 0 /\ Storing(n)' = {}
        BY <3>3, <3>5, <4>2 DEF IAlerts
      <4>7. \A n \in marks' \ dropped' : alerts'[n] + Cardinality(Storing(n)') = 1
        BY <3>3, <3>5, <4>2, <4>3, <4>5 DEF IAlerts, TenantTypeOK
      <4> QED
        BY <4>6, <4>7 DEF IAlerts
    <3> QED
      BY <2>3, <3>1, <3>4, <3>5 DEF TakeKey
  <2>4. ASSUME NEW k \in Checkers, StoreAlert(k)
        PROVE  IAlerts'
    <3>0. job[k].dimension \in Dimensions /\ Mark(k, job[k].dimension) \in Marks
      BY <2>0, <2>4, AtKey, MarkType DEF StoreAlert
    <3>1. PICK d \in Dimensions, m \in Marks : d = job[k].dimension /\ m = Mark(k, d)
      BY <3>0
    <3>2. PICK j \in Jobs : Turn(k, j) /\ j.place # "store"
      <4>1. Idle \in Jobs /\ Idle.place # "store"
        BY JobTypes DEF Idle
      <4> QED
        BY <2>4, <3>1, <4>1, JobTypes DEF StoreAlert
    <3>3. \A n \in Marks : Storing(n)' = Storing(n) \ {k}
      <4>1. \A n \in Marks : k \notin Storing(n)'
        BY <2>0, <3>2 DEF Turn, Storing
      <4> QED
        BY <3>2, <4>1, OthersStoring
    <3>4. k \in Storing(m) /\ \A n \in Marks : k \in Storing(n) => n = m
      BY <2>4, <3>1 DEF StoreAlert, Storing
    <3>5. ~unmarked /\ marks' = marks
      BY <2>4 DEF StoreAlert
    <3>6. m \in marks
      BY <3>1, <3>4, <3>5 DEF IAlerts
    <3>7. \A n \in Marks : n # m => Storing(n)' = Storing(n) /\ alerts'[n] = alerts[n]
      <4>1. \A n \in Marks : n # m => alerts'[n] = alerts[n]
        BY <2>4, <3>1 DEF StoreAlert, TenantTypeOK
      <4>2. \A n \in Marks : n # m => k \notin Storing(n)
        BY <3>4
      <4> QED
        BY <3>3, <4>1, <4>2
    <3>8. \A n \in Marks \ marks' : alerts'[n] = 0 /\ Storing(n)' = {}
      BY <3>5, <3>6, <3>7 DEF IAlerts
    <3>9. ASSUME NEW n \in marks' \ dropped'
          PROVE  alerts'[n] + Cardinality(Storing(n)') = 1
      <4>1. n \in Marks /\ n \in marks \ dropped
        BY <2>4, <3>5, <3>9 DEF StoreAlert, TenantTypeOK
      <4>2. alerts[n] + Cardinality(Storing(n)) = 1
        BY <3>5, <4>1 DEF IAlerts
      <4>3. CASE n # m
        BY <3>7, <4>1, <4>2, <4>3
      <4>4. CASE n = m
        <5>1. alerts'[m] = alerts[m] + 1
          BY <2>4, <3>1, <3>9, <4>4 DEF StoreAlert, TenantTypeOK
        <5>2. Cardinality(Storing(m) \ {k}) = Cardinality(Storing(m)) - 1
          BY <3>1, <3>4, StoringFinite, FS_RemoveElement
        <5>3. Storing(m)' = Storing(m) \ {k}
          BY <3>1, <3>3
        <5>4. alerts[m] \in Nat /\ Cardinality(Storing(m)) \in Nat
          BY <3>1, StoringFinite DEF TenantTypeOK
        <5> QED
          BY <4>2, <4>4, <5>1, <5>2, <5>3, <5>4
      <4> QED
        BY <4>3, <4>4
    <3> QED
      BY <3>8, <3>9 DEF IAlerts
  <2>5. CASE NewDay
    <3>1. \A m \in Marks : Storing(m)' = {} /\ alerts'[m] = 0
      BY <2>5 DEF NewDay, Storing, Idle
    <3>2. marks' = {}
      BY <2>5 DEF NewDay
    <3> QED
      BY <3>1, <3>2 DEF IAlerts
  <2>6. CASE UNCHANGED tenantVars
    BY <2>6 DEF tenantVars, IAlerts, Storing, Mark, Level
  <2> QED
    BY <2>1, <2>2, <2>3, <2>4, <2>5, <2>6 DEF TenantNext
<1>3. IAlerts => AlertNotLost
  BY DEF IAlerts, AlertNotLost, Storing
<1> QED
  BY <1>1, <1>2, <1>3, TypeInvariant, PTL DEF TenantSpec

=============================================================================
