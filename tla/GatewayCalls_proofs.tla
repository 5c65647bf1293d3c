------------------------ MODULE GatewayCalls_proofs ------------------------
(***************************************************************************)
(* What GatewayCalls guarantees for any calls, profiles, keys and payloads *)
(* and any number of lost commands and crashes.                            *)
(***************************************************************************)
EXTENDS GatewayCalls, TLAPS

USE DEF callLocals, stores, money, gwHistory

Answers == GwCalls \union {NoCall}

\* What a call knows; and what its next step relies on: a version has been
\* read, there is a key, the flight exists.
LocalsOK ==
    /\ profile \in [GwCalls -> Profiles]
    /\ step \in [GwCalls -> Steps]
    /\ seen \in [GwCalls -> 0 .. MaxVersion]
    /\ flight \in [GwCalls -> Answers]
    /\ left \in [GwCalls -> BOOLEAN]
    /\ answer \in [GwCalls -> Answers]

Prepared ==
    \A c \in GwCalls :
        /\ step[c] \in {"cache", "storeCache"} => seen[c] # 0
        /\ step[c] = "lookup" => profile[c].key # NoKey
        /\ step[c] = "wait" => flight[c] \in GwCalls

StoresOK ==
    /\ version \in 0 .. MaxVersion
    /\ snapshot \in [Users -> [IdemKeys -> Answers]]
    /\ cached \in [1 .. MaxVersion -> [Payloads -> Answers]]
    /\ wallet \in [Users -> Nat]
    /\ quota \in [Users -> Nat]
    /\ gwFaults \in Nat

HistoryOK ==
    /\ {paid, unmetered, hits} \subseteq SUBSET GwCalls
    /\ before \in [GwCalls -> SUBSET GwCalls]
    /\ bumps \in Nat
    /\ asOf \in [GwCalls -> Nat]
    /\ {forgotten, reset} \subseteq BOOLEAN

LEMMA Parts == GatewayTypeOK <=> LocalsOK /\ StoresOK /\ HistoryOK
BY DEF GatewayTypeOK, LocalsOK, StoresOK, HistoryOK, Answers

LEMMA ProfileType ==
    ASSUME LocalsOK, NEW c \in GwCalls
    PROVE  /\ profile[c].user \in Users
           /\ profile[c].key # NoKey => profile[c].key \in IdemKeys
           /\ profile[c].payload \in Payloads
           /\ profile[c].caching \in BOOLEAN
<1>1. profile[c] \in Profiles
  BY DEF LocalsOK
<1> QED
  BY <1>1, GatewayAssumption

\* What a call that moves or is answered keeps.
LEMMA MoveType ==
    ASSUME LocalsOK, NEW c \in GwCalls, NEW s \in Steps, Move(c, s)
    PROVE  LocalsOK'
BY DEF LocalsOK, Move

LEMMA MovePrepared ==
    ASSUME LocalsOK, Prepared, NEW c \in GwCalls, NEW s \in Steps, Move(c, s),
           s \in {"cache", "storeCache"} => seen[c] # 0,
           s = "lookup" => profile[c].key # NoKey,
           s # "wait"
    PROVE  Prepared'
BY DEF LocalsOK, Move, Prepared

LEMMA AnswerType ==
    ASSUME LocalsOK, Prepared, NEW c \in GwCalls, NEW x \in Answers, AnswerWith(c, x)
    PROVE  LocalsOK' /\ Prepared'
<1>1. LocalsOK'
  BY DEF LocalsOK, AnswerWith, Steps, Ended
<1>2. Prepared'
  BY DEF LocalsOK, Prepared, AnswerWith
<1> QED
  BY <1>1, <1>2

LEMMA After ==
    ASSUME LocalsOK, NEW c \in GwCalls
    PROVE  /\ AfterLookup(c) \in {"version", "join"}
           /\ AfterCharge(c) \in {"storeCache", "storeSnapshot"}
           /\ AfterCharge(c) = "storeCache" => seen[c] # 0
BY ProfileType DEF AfterLookup, AfterCharge

LEMMA FaultType ==
    ASSUME gwFaults \in Nat
    PROVE  /\ GwFault => gwFaults' \in Nat
           /\ \A lost \in BOOLEAN : MaybeGwFault(lost) => gwFaults' \in Nat
BY DEF GwFault, MaybeGwFault

\* What the stores and the other calls hand over.
LEMMA Found ==
    ASSUME LocalsOK, Prepared, StoresOK, NEW c \in GwCalls
    PROVE  /\ step[c] = "lookup" => snapshot[profile[c].user][profile[c].key] \in Answers
           /\ step[c] = "cache" => /\ seen[c] \in 1 .. MaxVersion
                                   /\ cached[seen[c]][profile[c].payload] \in Answers
           /\ step[c] = "wait" => answer[flight[c]] \in Answers
<1>1. step[c] = "lookup" => snapshot[profile[c].user][profile[c].key] \in Answers
  BY ProfileType DEF Prepared, StoresOK
<1>2. step[c] = "cache" => seen[c] \in 1 .. MaxVersion
  BY GatewayAssumption DEF Prepared, LocalsOK
<1>3. step[c] = "cache" => cached[seen[c]][profile[c].payload] \in Answers
  BY <1>2, ProfileType DEF StoresOK
<1>4. step[c] = "wait" => answer[flight[c]] \in Answers
  BY DEF Prepared, LocalsOK
<1> QED
  BY <1>1, <1>2, <1>3, <1>4

\* The type invariant, with what the next step of each call relies on.
THEOREM TypeInvariant == GatewaySpec => [](GatewayTypeOK /\ Prepared)
<1>1. GatewayInit => GatewayTypeOK /\ Prepared
  <2> SUFFICES ASSUME GatewayInit
               PROVE  LocalsOK /\ Prepared /\ StoresOK /\ HistoryOK
    BY Parts
  <2>1. LocalsOK
    <3>1. 0 \in 0 .. MaxVersion
      BY GatewayAssumption
    <3> QED
      BY <3>1 DEF GatewayInit, LocalsOK, Answers, Steps
  <2>2. Prepared
    BY DEF GatewayInit, Prepared
  <2>3. StoresOK
    <3>1. 0 \in 0 .. MaxVersion
      BY GatewayAssumption
    <3> QED
      BY <3>1, GatewayAssumption DEF GatewayInit, StoresOK, Answers
  <2>4. HistoryOK
    BY DEF GatewayInit, HistoryOK
  <2> QED
    BY <2>1, <2>2, <2>3, <2>4
<1>2. GatewayTypeOK /\ Prepared /\ [GatewayNext]_gwVars => GatewayTypeOK' /\ Prepared'
  <2> SUFFICES ASSUME LocalsOK, Prepared, StoresOK, HistoryOK, [GatewayNext]_gwVars
               PROVE  LocalsOK' /\ Prepared' /\ StoresOK' /\ HistoryOK'
    BY Parts DEF GatewayTypeOK, LocalsOK, StoresOK, HistoryOK, Answers
  <2>1. ASSUME NEW c \in GwCalls, Enter(c)
        PROVE  LocalsOK' /\ Prepared' /\ StoresOK' /\ HistoryOK'
    <3>1. LocalsOK' /\ Prepared'
      BY <2>1, After, MoveType, MovePrepared DEF Enter, Steps
    <3> QED
      BY <2>1, <3>1 DEF Enter, StoresOK, HistoryOK
  <2>2. ASSUME NEW c \in GwCalls, LookupSnapshot(c)
        PROVE  LocalsOK' /\ Prepared' /\ StoresOK' /\ HistoryOK'
    <3>1. LocalsOK' /\ Prepared'
      <4>1. \/ Move(c, AfterLookup(c)) \/ Move(c, "failed")
            \/ AnswerWith(c, snapshot[profile[c].user][profile[c].key])
        BY <2>2 DEF LookupSnapshot
      <4>2. CASE Move(c, AfterLookup(c)) \/ Move(c, "failed")
        BY <4>2, After, MoveType, MovePrepared DEF Steps, Ended
      <4>3. CASE AnswerWith(c, snapshot[profile[c].user][profile[c].key])
        BY <2>2, <4>3, Found, AnswerType DEF LookupSnapshot
      <4> QED
        BY <4>1, <4>2, <4>3
    <3>2. gwFaults' \in Nat
      BY <2>2, FaultType DEF LookupSnapshot, StoresOK
    <3>3. before' \in [GwCalls -> SUBSET GwCalls]
      BY <2>2 DEF LookupSnapshot, HistoryOK
    <3>4. forgotten' \in BOOLEAN
      BY <2>2 DEF LookupSnapshot
    <3> QED
      BY <2>2, <3>1, <3>2, <3>3, <3>4 DEF LookupSnapshot, StoresOK, HistoryOK
  <2>3. ASSUME NEW c \in GwCalls, ReadVersion(c)
        PROVE  LocalsOK' /\ Prepared' /\ StoresOK' /\ HistoryOK'
    <3>1. 1 \in 0 .. MaxVersion /\ 1 # 0
      BY GatewayAssumption
    <3>2. version' \in 0 .. MaxVersion
      BY <2>3, <3>1 DEF ReadVersion, StoresOK
    <3>3. seen' \in [GwCalls -> 0 .. MaxVersion]
      BY <2>3, <3>1 DEF ReadVersion, LocalsOK, StoresOK
    <3>4. LocalsOK'
      BY <2>3, <3>3 DEF ReadVersion, LocalsOK, Steps
    <3>5. seen'[c] # 0
      BY <2>3, <3>1 DEF ReadVersion, LocalsOK, StoresOK
    <3>6. Prepared'
      BY <2>3, <3>5 DEF ReadVersion, LocalsOK, Prepared
    <3>7. gwFaults' \in Nat
      BY <2>3, FaultType DEF ReadVersion, StoresOK
    <3>8. reset' \in BOOLEAN
      BY <2>3 DEF ReadVersion
    <3>9. asOf' \in [GwCalls -> Nat]
      BY <2>3 DEF ReadVersion, HistoryOK
    <3> QED
      BY <2>3, <3>2, <3>4, <3>6, <3>7, <3>8, <3>9 DEF ReadVersion, StoresOK, HistoryOK
  <2>4. ASSUME NEW c \in GwCalls, LookupCache(c)
        PROVE  LocalsOK' /\ Prepared' /\ StoresOK' /\ HistoryOK'
    <3>1. LocalsOK' /\ Prepared'
      <4>1. CASE Move(c, "join")
        BY <4>1, MoveType, MovePrepared DEF Steps
      <4>2. CASE AnswerWith(c, cached[seen[c]][profile[c].payload])
        BY <2>4, <4>2, Found, AnswerType DEF LookupCache
      <4> QED
        BY <2>4, <4>1, <4>2 DEF LookupCache
    <3>2. gwFaults' \in Nat
      BY <2>4, FaultType DEF LookupCache, StoresOK
    <3>3. hits' \subseteq GwCalls
      BY <2>4 DEF LookupCache, HistoryOK
    <3> QED
      BY <2>4, <3>1, <3>2, <3>3 DEF LookupCache, StoresOK, HistoryOK
  <2>5. ASSUME NEW c \in GwCalls, Join(c)
        PROVE  LocalsOK' /\ Prepared' /\ StoresOK' /\ HistoryOK'
    <3>1. \E l \in GwCalls, s \in {"execute", "wait"} :
             flight' = [flight EXCEPT ![c] = l] /\ step' = [step EXCEPT ![c] = s]
      BY <2>5 DEF Join, Flights
    <3>2. LocalsOK'
      BY <2>5, <3>1 DEF Join, LocalsOK, Answers, Steps, Executing
    <3>3. Prepared'
      BY <2>5, <3>1 DEF Join, LocalsOK, Prepared
    <3> QED
      BY <2>5, <3>2, <3>3 DEF Join, StoresOK, HistoryOK
  <2>6. ASSUME NEW c \in GwCalls, Follow(c)
        PROVE  LocalsOK' /\ Prepared' /\ StoresOK' /\ HistoryOK'
    <3>1. LocalsOK' /\ Prepared'
      BY <2>6, Found, AnswerType, MoveType, MovePrepared DEF Follow, Steps, Ended
    <3> QED
      BY <2>6, <3>1 DEF Follow, StoresOK, HistoryOK
  <2>7. ASSUME NEW c \in GwCalls, Execute(c)
        PROVE  LocalsOK' /\ Prepared' /\ StoresOK' /\ HistoryOK'
    <3>1. LocalsOK' /\ Prepared'
      BY <2>7, After, MoveType, MovePrepared DEF Execute, Steps, Executing, Ended
    <3>2. unmetered' \subseteq GwCalls
      BY <2>7 DEF Execute, HistoryOK
    <3> QED
      BY <2>7, <3>1, <3>2 DEF Execute, StoresOK, HistoryOK
  <2>8. ASSUME NEW c \in GwCalls, Charge(c)
        PROVE  LocalsOK' /\ Prepared' /\ StoresOK' /\ HistoryOK'
    <3>1. LocalsOK' /\ Prepared'
      BY <2>8, MoveType, MovePrepared DEF Charge, Steps, Executing, Ended
    <3>2. wallet' \in [Users -> Nat]
      BY <2>8, GatewayAssumption DEF Charge, StoresOK
    <3>3. gwFaults' \in Nat
      BY <2>8, FaultType DEF Charge, StoresOK
    <3>4. paid' \subseteq GwCalls
      BY <2>8 DEF Charge, HistoryOK
    <3> QED
      BY <2>8, <3>1, <3>2, <3>3, <3>4 DEF Charge, StoresOK, HistoryOK
  <2>9. ASSUME NEW c \in GwCalls, DeductQuota(c)
        PROVE  LocalsOK' /\ Prepared' /\ StoresOK' /\ HistoryOK'
    <3>1. LocalsOK' /\ Prepared'
      BY <2>9, After, MoveType, MovePrepared DEF DeductQuota, Steps, Executing, Ended
    <3>2. quota' \in [Users -> Nat]
      <4>1. PICK u \in Users : u = profile[c].user
        BY ProfileType
      <4>2. CASE quota[u] >= Cost /\ quota' = [quota EXCEPT ![u] = @ - Cost]
        BY <4>2, GatewayAssumption DEF StoresOK
      <4>3. CASE UNCHANGED quota
        BY <4>3 DEF StoresOK
      <4> QED
        BY <2>9, <4>1, <4>2, <4>3 DEF DeductQuota
    <3>3. gwFaults' \in Nat
      BY <2>9, FaultType DEF DeductQuota, StoresOK
    <3> QED
      BY <2>9, <3>1, <3>2, <3>3 DEF DeductQuota, StoresOK, HistoryOK
  <2>10. ASSUME NEW c \in GwCalls, StoreCache(c)
         PROVE  LocalsOK' /\ Prepared' /\ StoresOK' /\ HistoryOK'
    <3>1. LocalsOK' /\ Prepared'
      BY <2>10, MoveType, MovePrepared DEF StoreCache, Steps, Executing
    <3>2. cached' \in [1 .. MaxVersion -> [Payloads -> Answers]]
      <4>1. CASE cached' = cached
        BY <4>1 DEF StoresOK
      <4>2. CASE cached' = [cached EXCEPT ![seen[c]][profile[c].payload] = c]
        <5>1. c \in Answers
          BY DEF Answers
        <5> QED
          BY <4>2, <5>1 DEF StoresOK
      <4> QED
        BY <2>10, <4>1, <4>2 DEF StoreCache
    <3>3. gwFaults' \in Nat
      BY <2>10, FaultType DEF StoreCache, StoresOK
    <3> QED
      BY <2>10, <3>1, <3>2, <3>3 DEF StoreCache, StoresOK, HistoryOK
  <2>11. ASSUME NEW c \in GwCalls, StoreSnapshot(c)
         PROVE  LocalsOK' /\ Prepared' /\ StoresOK' /\ HistoryOK'
    <3>1. LocalsOK' /\ Prepared'
      BY <2>11, AnswerType DEF StoreSnapshot, Answers
    <3>2. snapshot' \in [Users -> [IdemKeys -> Answers]]
      BY <2>11, ProfileType DEF StoreSnapshot, StoresOK, Answers
    <3>3. gwFaults' \in Nat
      BY <2>11, FaultType DEF StoreSnapshot, StoresOK
    <3>4. forgotten' \in BOOLEAN
      BY <2>11 DEF StoreSnapshot
    <3> QED
      BY <2>11, <3>1, <3>2, <3>3, <3>4 DEF StoreSnapshot, StoresOK, HistoryOK
  <2>12. ASSUME NEW c \in GwCalls, Leave(c)
         PROVE  LocalsOK' /\ Prepared' /\ StoresOK' /\ HistoryOK'
    BY <2>12 DEF Leave, LocalsOK, Prepared, StoresOK, HistoryOK
  <2>13. ASSUME NEW s \in {1, 2}, Crash(s)
         PROVE  LocalsOK' /\ Prepared' /\ StoresOK' /\ HistoryOK'
    <3>1. LocalsOK' /\ Prepared'
      BY <2>13 DEF Crash, LocalsOK, Prepared, Steps, Ended
    <3> QED
      BY <2>13, <3>1, FaultType DEF Crash, StoresOK, HistoryOK
  <2>14. ASSUME UNCHANGED callLocals
         PROVE  LocalsOK' /\ Prepared'
    BY <2>14 DEF LocalsOK, Prepared
  <2>15. ASSUME NEW u \in Users, NEW k \in IdemKeys, SnapshotExpires(u, k)
         PROVE  LocalsOK' /\ Prepared' /\ StoresOK' /\ HistoryOK'
    <3>1. snapshot' \in [Users -> [IdemKeys -> Answers]]
      BY <2>15 DEF SnapshotExpires, StoresOK, Answers
    <3> QED
      BY <2>14, <2>15, <3>1 DEF SnapshotExpires, StoresOK, HistoryOK
  <2>16. ASSUME NEW v \in 1 .. MaxVersion, NEW p \in Payloads, ResponseExpires(v, p)
         PROVE  LocalsOK' /\ Prepared' /\ StoresOK' /\ HistoryOK'
    <3>1. cached' \in [1 .. MaxVersion -> [Payloads -> Answers]]
      BY <2>16 DEF ResponseExpires, StoresOK, Answers
    <3> QED
      BY <2>14, <2>16, <3>1 DEF ResponseExpires, StoresOK, HistoryOK
  <2>17. CASE VersionExpires
    <3>1. version' \in 0 .. MaxVersion
      BY <2>17, GatewayAssumption DEF VersionExpires
    <3> QED
      BY <2>14, <2>17, <3>1 DEF VersionExpires, StoresOK, HistoryOK
  <2>18. CASE Invalidate
    <3>1. version' \in 0 .. MaxVersion /\ bumps' \in Nat
      BY <2>18, GatewayAssumption DEF Invalidate, StoresOK, HistoryOK
    <3> QED
      BY <2>14, <2>18, <3>1 DEF Invalidate, StoresOK, HistoryOK
  <2>19. CASE UNCHANGED gwVars
    BY <2>14, <2>19 DEF gwVars, StoresOK, HistoryOK
  <2> QED
    BY <2>1, <2>2, <2>3, <2>4, <2>5, <2>6, <2>7, <2>8, <2>9, <2>10, <2>11, <2>12, <2>13,
       <2>15, <2>16, <2>17, <2>18, <2>19
    DEF GatewayNext, GwStep
<1> QED
  BY <1>1, <1>2, PTL DEF GatewaySpec

(***************************************************************************)
(* Every answer belongs to the request.                                    *)
(***************************************************************************)

\* The answers that calls have, the flights they wait for and the cached
\* answers belong to the payload they are used for.
IOwn ==
    /\ \A c \in GwCalls : answer[c] # NoCall =>
            profile[answer[c]].payload = profile[c].payload
    /\ \A c \in GwCalls : step[c] = "wait" =>
            profile[flight[c]].payload = profile[c].payload
    /\ \A v \in 1 .. MaxVersion, p \in Payloads : cached[v][p] # NoCall =>
            profile[cached[v][p]].payload = p

\* Entries may disappear from the cache, calls may end or go on alone.
LEMMA OwnKeeps ==
    ASSUME IOwn, UNCHANGED <<profile, answer>>,
           \A d \in GwCalls : step'[d] = "wait" => step[d] = "wait" /\ flight'[d] = flight[d],
           \A v \in 1 .. MaxVersion, p \in Payloads : cached'[v][p] \in {NoCall, cached[v][p]}
    PROVE  IOwn'
BY DEF IOwn

LEMMA OwnMoves ==
    ASSUME LocalsOK, IOwn, NEW c \in GwCalls, NEW s \in Steps \ {"wait"}, Move(c, s),
           UNCHANGED cached
    PROVE  IOwn'
BY OwnKeeps DEF Move, LocalsOK

LEMMA OwnAnswers ==
    ASSUME LocalsOK, IOwn, NEW c \in GwCalls, NEW x \in Answers, AnswerWith(c, x),
           UNCHANGED cached,
           x # NoCall => profile[x].payload = profile[c].payload
    PROVE  IOwn'
<1>1. \A d \in GwCalls : answer'[d] # NoCall => profile'[answer'[d]].payload = profile'[d].payload
  BY DEF AnswerWith, IOwn, LocalsOK
<1>2. \A d \in GwCalls : step'[d] = "wait" => profile'[flight'[d]].payload = profile'[d].payload
  BY DEF AnswerWith, IOwn, LocalsOK
<1>3. UNCHANGED profile
  BY DEF AnswerWith
<1> QED
  BY <1>1, <1>2, <1>3 DEF IOwn

\* Whatever a call is answered from, it is the answer to its own payload.
THEOREM AnswersAreOwn == GatewaySpec => []AnswersOwnRequest
<1>1. GatewayInit => IOwn
  BY DEF GatewayInit, IOwn
<1>2. GatewayTypeOK /\ Prepared /\ IOwn /\ [GatewayNext]_gwVars => IOwn'
  <2> SUFFICES ASSUME LocalsOK, Prepared, StoresOK, IOwn, [GatewayNext]_gwVars
               PROVE  IOwn'
    BY Parts
  <2>1. ASSUME NEW c \in GwCalls, Enter(c) \/ Execute(c) \/ Charge(c) \/ DeductQuota(c)
        PROVE  IOwn'
    <3>1. UNCHANGED cached
      BY <2>1 DEF Enter, Execute, Charge, DeductQuota
    <3>2. \E s \in Steps \ {"wait"} : Move(c, s)
      BY <2>1, After DEF Enter, Execute, Charge, DeductQuota, Steps, Executing, Ended
    <3> QED
      BY <3>1, <3>2, OwnMoves
  <2>2. ASSUME NEW c \in GwCalls, LookupSnapshot(c)
        PROVE  IOwn'
    <3>1. UNCHANGED cached
      BY <2>2 DEF LookupSnapshot
    <3>2. CASE Move(c, AfterLookup(c)) \/ Move(c, "failed")
      BY <3>1, <3>2, After, OwnMoves DEF Steps, Ended
    <3>3. CASE \E x \in Answers : profile[x].payload = profile[c].payload /\ AnswerWith(c, x)
      BY <3>1, <3>3, OwnAnswers
    <3>4. snapshot[profile[c].user][profile[c].key] \in Answers
      BY <2>2, Found DEF LookupSnapshot
    <3> QED
      BY <2>2, <3>2, <3>3, <3>4 DEF LookupSnapshot
  <2>3. ASSUME NEW c \in GwCalls, ReadVersion(c)
        PROVE  IOwn'
    BY <2>3, OwnKeeps DEF ReadVersion, LocalsOK
  <2>4. ASSUME NEW c \in GwCalls, LookupCache(c)
        PROVE  IOwn'
    <3>1. UNCHANGED cached
      BY <2>4 DEF LookupCache
    <3>2. CASE Move(c, "join")
      BY <3>1, <3>2, OwnMoves DEF Steps
    <3>3. CASE AnswerWith(c, cached[seen[c]][profile[c].payload])
      <4>1. PICK x \in Answers : x = cached[seen[c]][profile[c].payload]
        BY <2>4, Found DEF LookupCache
      <4>2. x # NoCall => profile[x].payload = profile[c].payload
        BY <2>4, <4>1, Found, ProfileType DEF LookupCache, IOwn
      <4> QED
        BY <3>1, <3>3, <4>1, <4>2, OwnAnswers
    <3> QED
      BY <2>4, <3>2, <3>3 DEF LookupCache
  <2>5. ASSUME NEW c \in GwCalls, Join(c)
        PROVE  IOwn'
    <3>1. UNCHANGED <<profile, answer, cached>>
      BY <2>5 DEF Join
    <3>2. \A d \in GwCalls \ {c} : step'[d] = step[d] /\ flight'[d] = flight[d]
      BY <2>5 DEF Join, LocalsOK
    <3>3. step'[c] = "wait" => profile[flight'[c]].payload = profile[c].payload
      BY <2>5 DEF Join, Flights, LocalsOK
    <3> QED
      BY <3>1, <3>2, <3>3 DEF IOwn
  <2>6. ASSUME NEW c \in GwCalls, Follow(c)
        PROVE  IOwn'
    <3>1. UNCHANGED cached
      BY <2>6 DEF Follow
    <3>2. CASE Move(c, "failed")
      BY <3>1, <3>2, OwnMoves DEF Steps, Ended
    <3>3. CASE AnswerWith(c, answer[flight[c]])
      <4>1. flight[c] \in GwCalls /\ profile[flight[c]].payload = profile[c].payload
        BY <2>6 DEF Follow, Prepared, IOwn
      <4>2. PICK x \in Answers : x = answer[flight[c]]
        BY <2>6, Found DEF Follow
      <4>3. x # NoCall => profile[x].payload = profile[c].payload
        BY <4>1, <4>2 DEF IOwn
      <4> QED
        BY <3>1, <3>3, <4>2, <4>3, OwnAnswers
    <3> QED
      BY <2>6, <3>2, <3>3 DEF Follow
  <2>7. ASSUME NEW c \in GwCalls, StoreCache(c)
        PROVE  IOwn'
    <3>1. UNCHANGED <<profile, answer, flight>>
      BY <2>7 DEF StoreCache, Move
    <3>2. \A d \in GwCalls : step'[d] = "wait" => step[d] = "wait"
      BY <2>7 DEF StoreCache, Move, LocalsOK
    <3>3. ASSUME NEW v \in 1 .. MaxVersion, NEW p \in Payloads, cached'[v][p] # NoCall
          PROVE  profile[cached'[v][p]].payload = p
      <4>1. cached'[v][p] = cached[v][p] \/ (cached'[v][p] = c /\ p = profile[c].payload)
        BY <2>7 DEF StoreCache, StoresOK
      <4> QED
        BY <3>3, <4>1 DEF IOwn
    <3> QED
      BY <3>1, <3>2, <3>3 DEF IOwn
  <2>8. ASSUME NEW c \in GwCalls, StoreSnapshot(c)
        PROVE  IOwn'
    <3>1. c \in Answers
      BY DEF Answers
    <3> QED
      BY <2>8, <3>1, OwnAnswers DEF StoreSnapshot
  <2>9. ASSUME NEW c \in GwCalls, Leave(c)
        PROVE  IOwn'
    BY <2>9, OwnKeeps DEF Leave
  <2>10. ASSUME NEW s \in {1, 2}, Crash(s)
         PROVE  IOwn'
    BY <2>10, OwnKeeps DEF Crash
  <2>11. ASSUME UNCHANGED callLocals, UNCHANGED cached
         PROVE  IOwn'
    BY <2>11, OwnKeeps
  <2>12. ASSUME NEW u \in Users, NEW k \in IdemKeys, SnapshotExpires(u, k)
         PROVE  IOwn'
    BY <2>11, <2>12 DEF SnapshotExpires
  <2>13. ASSUME NEW v \in 1 .. MaxVersion, NEW p \in Payloads, ResponseExpires(v, p)
         PROVE  IOwn'
    <3>1. \A w \in 1 .. MaxVersion, q \in Payloads : cached'[w][q] \in {NoCall, cached[w][q]}
      BY <2>13 DEF ResponseExpires, StoresOK
    <3> QED
      BY <2>13, <3>1, OwnKeeps DEF ResponseExpires
  <2>14. CASE VersionExpires \/ Invalidate
    BY <2>11, <2>14 DEF VersionExpires, Invalidate
  <2>15. CASE UNCHANGED gwVars
    BY <2>11, <2>15 DEF gwVars
  <2> QED
    BY <2>1, <2>2, <2>3, <2>4, <2>5, <2>6, <2>7, <2>8, <2>9, <2>10, <2>12, <2>13, <2>14, <2>15
    DEF GatewayNext, GwStep
<1>3. IOwn => AnswersOwnRequest
  BY DEF IOwn, AnswersOwnRequest
<1> QED
  BY <1>1, <1>2, <1>3, TypeInvariant, PTL DEF GatewaySpec

(***************************************************************************)
(* Every answer was paid for once, or its upstream reported no usage.      *)
(***************************************************************************)
Backed == paid \union unmetered

\* Whatever can still become an answer is backed: what is stored, and what is
\* on its way to be.
IBacked ==
    /\ \A c \in GwCalls : answer[c] # NoCall => answer[c] \in Backed
    /\ \A c \in GwCalls : step[c] \in {"storeCache", "storeSnapshot"} => c \in Backed
    /\ \A c \in GwCalls : step[c] = "deduct" => c \in paid
    /\ \A u \in Users, k \in IdemKeys : snapshot[u][k] # NoCall => snapshot[u][k] \in Backed
    /\ \A v \in 1 .. MaxVersion, p \in Payloads : cached[v][p] # NoCall => cached[v][p] \in Backed

LEMMA BackedMoves ==
    ASSUME LocalsOK, IBacked, NEW c \in GwCalls,
           NEW s \in Steps \ {"deduct", "storeCache", "storeSnapshot"}, Move(c, s),
           UNCHANGED <<snapshot, cached, paid, unmetered>>
    PROVE  IBacked'
BY DEF Move, LocalsOK, IBacked, Backed

LEMMA BackedAnswers ==
    ASSUME LocalsOK, IBacked, NEW c \in GwCalls, NEW x \in Answers, AnswerWith(c, x),
           UNCHANGED <<snapshot, cached, paid, unmetered>>,
           x # NoCall => x \in Backed
    PROVE  IBacked'
BY DEF AnswerWith, LocalsOK, IBacked, Backed

\* No answer is given that nobody paid for.
THEOREM AnswersAreBacked == GatewaySpec => []FreeAnswersBacked
<1>1. GatewayInit => IBacked
  BY DEF GatewayInit, IBacked
<1>2. GatewayTypeOK /\ Prepared /\ IBacked /\ [GatewayNext]_gwVars => IBacked'
  <2> SUFFICES ASSUME LocalsOK, Prepared, StoresOK, IBacked, [GatewayNext]_gwVars
               PROVE  IBacked'
    BY Parts
  <2>1. ASSUME NEW c \in GwCalls, Enter(c)
        PROVE  IBacked'
    BY <2>1, After, BackedMoves DEF Enter, Steps
  <2>2. ASSUME NEW c \in GwCalls, LookupSnapshot(c)
        PROVE  IBacked'
    <3>1. UNCHANGED <<snapshot, cached, paid, unmetered>>
      BY <2>2 DEF LookupSnapshot
    <3>2. CASE Move(c, AfterLookup(c)) \/ Move(c, "failed")
      BY <3>1, <3>2, After, BackedMoves DEF Steps, Ended
    <3>3. CASE AnswerWith(c, snapshot[profile[c].user][profile[c].key])
      <4>1. PICK x \in Answers : x = snapshot[profile[c].user][profile[c].key]
        BY <2>2, Found DEF LookupSnapshot
      <4>2. x # NoCall => x \in Backed
        BY <2>2, <4>1, ProfileType DEF LookupSnapshot, Prepared, IBacked
      <4> QED
        BY <3>1, <3>3, <4>1, <4>2, BackedAnswers
    <3> QED
      BY <2>2, <3>2, <3>3 DEF LookupSnapshot
  <2>3. ASSUME NEW c \in GwCalls, ReadVersion(c)
        PROVE  IBacked'
    BY <2>3 DEF ReadVersion, LocalsOK, IBacked, Backed
  <2>4. ASSUME NEW c \in GwCalls, LookupCache(c)
        PROVE  IBacked'
    <3>1. UNCHANGED <<snapshot, cached, paid, unmetered>>
      BY <2>4 DEF LookupCache
    <3>2. CASE Move(c, "join")
      BY <3>1, <3>2, BackedMoves DEF Steps
    <3>3. CASE AnswerWith(c, cached[seen[c]][profile[c].payload])
      <4>1. PICK x \in Answers : x = cached[seen[c]][profile[c].payload]
        BY <2>4, Found DEF LookupCache
      <4>2. x # NoCall => x \in Backed
        BY <2>4, <4>1, Found, ProfileType DEF LookupCache, IBacked
      <4> QED
        BY <3>1, <3>3, <4>1, <4>2, BackedAnswers
    <3> QED
      BY <2>4, <3>2, <3>3 DEF LookupCache
  <2>5. ASSUME NEW c \in GwCalls, Join(c)
        PROVE  IBacked'
    BY <2>5 DEF Join, LocalsOK, IBacked, Backed
  <2>6. ASSUME NEW c \in GwCalls, Follow(c)
        PROVE  IBacked'
    <3>1. UNCHANGED <<snapshot, cached, paid, unmetered>>
      BY <2>6 DEF Follow
    <3>2. CASE Move(c, "failed")
      BY <3>1, <3>2, BackedMoves DEF Steps, Ended
    <3>3. CASE AnswerWith(c, answer[flight[c]])
      <4>1. PICK x \in Answers : x = answer[flight[c]]
        BY <2>6, Found DEF Follow
      <4>2. x # NoCall => x \in Backed
        BY <2>6, <4>1 DEF Follow, Prepared, IBacked
      <4> QED
        BY <3>1, <3>3, <4>1, <4>2, BackedAnswers
    <3> QED
      BY <2>6, <3>2, <3>3 DEF Follow
  <2>7. ASSUME NEW c \in GwCalls, Execute(c)
        PROVE  IBacked'
    <3>1. UNCHANGED <<snapshot, cached, paid>>
      BY <2>7 DEF Execute
    <3>2. CASE (Move(c, "failed") \/ Move(c, "charge")) /\ UNCHANGED unmetered
      BY <3>1, <3>2, BackedMoves DEF Steps, Executing, Ended
    <3>3. CASE Move(c, AfterCharge(c)) /\ unmetered' = unmetered \union {c}
      <4>1. \A d \in GwCalls \ {c} : step'[d] = step[d]
        BY <3>3 DEF Move, LocalsOK
      <4>2. step'[c] # "deduct" /\ answer' = answer
        BY <3>3, After DEF Move, LocalsOK
      <4> QED
        BY <3>1, <3>3, <4>1, <4>2 DEF IBacked, Backed
    <3> QED
      BY <2>7, <3>2, <3>3 DEF Execute
  <2>8. ASSUME NEW c \in GwCalls, Charge(c)
        PROVE  IBacked'
    <3>1. UNCHANGED <<snapshot, cached, unmetered>>
      BY <2>8 DEF Charge
    <3>2. CASE Move(c, "failed") /\ UNCHANGED paid
      BY <3>1, <3>2, BackedMoves DEF Steps, Ended
    <3>3. CASE Move(c, "deduct") /\ paid' = paid \union {c}
      BY <3>1, <3>3 DEF Move, LocalsOK, IBacked, Backed
    <3> QED
      BY <2>8, <3>2, <3>3 DEF Charge
  <2>9. ASSUME NEW c \in GwCalls, DeductQuota(c)
        PROVE  IBacked'
    <3>1. UNCHANGED <<snapshot, cached, paid, unmetered>> /\ c \in paid
      BY <2>9 DEF DeductQuota, IBacked
    <3>2. \E s \in Steps \ {"deduct"} : Move(c, s)
      BY <2>9, After DEF DeductQuota, Steps, Executing, Ended
    <3> QED
      BY <3>1, <3>2 DEF Move, LocalsOK, IBacked, Backed
  <2>10. ASSUME NEW c \in GwCalls, StoreCache(c)
         PROVE  IBacked'
    <3>1. UNCHANGED <<snapshot, answer, paid, unmetered>> /\ c \in Backed
      BY <2>10 DEF StoreCache, Move, IBacked
    <3>2. Backed' = Backed
      BY <3>1 DEF Backed
    <3>3. \A v \in 1 .. MaxVersion, p \in Payloads : cached'[v][p] \in {cached[v][p], c}
      BY <2>10 DEF StoreCache, StoresOK
    <3>4. \A d \in GwCalls : step'[d] = step[d] \/ (d = c /\ step'[d] = "storeSnapshot")
      BY <2>10 DEF StoreCache, Move, LocalsOK
    <3> QED
      BY <3>1, <3>2, <3>3, <3>4 DEF IBacked
  <2>11. ASSUME NEW c \in GwCalls, StoreSnapshot(c)
         PROVE  IBacked'
    <3>1. UNCHANGED <<cached, paid, unmetered>> /\ c \in Backed
      BY <2>11 DEF StoreSnapshot, IBacked
    <3>2. Backed' = Backed
      BY <3>1 DEF Backed
    <3>3. \A u \in Users, k \in IdemKeys : snapshot'[u][k] \in {snapshot[u][k], c}
      BY <2>11 DEF StoreSnapshot, StoresOK
    <3>4. \A d \in GwCalls : /\ step'[d] = step[d] \/ step'[d] = "answered"
                             /\ answer'[d] \in {answer[d], c}
      BY <2>11 DEF StoreSnapshot, AnswerWith, LocalsOK
    <3> QED
      BY <3>1, <3>2, <3>3, <3>4 DEF IBacked
  <2>12. ASSUME UNCHANGED <<answer, snapshot, cached, paid, unmetered>>,
                \A d \in GwCalls : step'[d] = step[d] \/ step'[d] = "failed"
         PROVE  IBacked'
    BY <2>12 DEF IBacked, Backed
  <2>13. ASSUME NEW c \in GwCalls, Leave(c)
         PROVE  IBacked'
    BY <2>12, <2>13 DEF Leave
  <2>14. ASSUME NEW s \in {1, 2}, Crash(s)
         PROVE  IBacked'
    BY <2>12, <2>14 DEF Crash
  <2>15. ASSUME NEW u \in Users, NEW k \in IdemKeys, SnapshotExpires(u, k)
         PROVE  IBacked'
    <3>1. \A w \in Users, j \in IdemKeys : snapshot'[w][j] \in {NoCall, snapshot[w][j]}
      BY <2>15 DEF SnapshotExpires, StoresOK
    <3>2. UNCHANGED <<step, answer, cached, paid, unmetered>>
      BY <2>15 DEF SnapshotExpires
    <3> QED
      BY <3>1, <3>2 DEF IBacked, Backed
  <2>16. ASSUME NEW v \in 1 .. MaxVersion, NEW p \in Payloads, ResponseExpires(v, p)
         PROVE  IBacked'
    <3>1. \A w \in 1 .. MaxVersion, q \in Payloads : cached'[w][q] \in {NoCall, cached[w][q]}
      BY <2>16 DEF ResponseExpires, StoresOK
    <3>2. UNCHANGED <<step, answer, snapshot, paid, unmetered>>
      BY <2>16 DEF ResponseExpires
    <3> QED
      BY <3>1, <3>2 DEF IBacked, Backed
  <2>17. CASE VersionExpires \/ Invalidate
    BY <2>12, <2>17 DEF VersionExpires, Invalidate
  <2>18. CASE UNCHANGED gwVars
    BY <2>12, <2>18 DEF gwVars
  <2> QED
    BY <2>1, <2>2, <2>3, <2>4, <2>5, <2>6, <2>7, <2>8, <2>9, <2>10, <2>11, <2>13, <2>14,
       <2>15, <2>16, <2>17, <2>18
    DEF GatewayNext, GwStep
<1>3. IBacked => FreeAnswersBacked
  BY DEF IBacked, FreeAnswersBacked, Backed
<1> QED
  BY <1>1, <1>2, <1>3, TypeInvariant, PTL DEF GatewaySpec

(***************************************************************************)
(* Invalidations of the response cache.                                    *)
(***************************************************************************)

\* As long as the version key lives, every version read is as far from the
\* number of invalidations as the present one; an answer is cached under the
\* version its call has read, and a hit has the version of its answer.
IVersion ==
    /\ \A c \in GwCalls : step[c] \in {"new", "lookup", "version"} => seen[c] = 0
    /\ reset \/ \A c \in GwCalls : seen[c] # 0 =>
            version # 0 /\ version + asOf[c] = seen[c] + bumps
    /\ \A c \in hits : /\ step[c] = "answered" /\ seen[c] # 0
                       /\ answer[c] \in GwCalls /\ seen[answer[c]] = seen[c]
    /\ \A v \in 1 .. MaxVersion, p \in Payloads :
            cached[v][p] # NoCall => seen[cached[v][p]] = v

\* Calls move on, are answered otherwise or end; entries may disappear.
LEMMA VersionKeeps ==
    ASSUME IVersion, UNCHANGED <<seen, version, bumps, asOf, hits>>, reset' = reset,
           \A d \in GwCalls : step'[d] \in {"new", "lookup", "version"} =>
                                step[d] \in {"new", "lookup", "version"},
           \A d \in GwCalls : step[d] = "answered" => /\ step'[d] = "answered"
                                                      /\ answer'[d] = answer[d],
           \A v \in 1 .. MaxVersion, p \in Payloads : cached'[v][p] \in {NoCall, cached[v][p]},
           hits \subseteq GwCalls
    PROVE  IVersion'
<1>1. \A c \in GwCalls : step'[c] \in {"new", "lookup", "version"} => seen'[c] = 0
  BY DEF IVersion
<1>2. reset' \/ \A c \in GwCalls : seen'[c] # 0 =>
            version' # 0 /\ version' + asOf'[c] = seen'[c] + bumps'
  BY DEF IVersion
<1>3. \A c \in hits' : /\ step'[c] = "answered" /\ seen'[c] # 0
                       /\ answer'[c] \in GwCalls /\ seen'[answer'[c]] = seen'[c]
  BY DEF IVersion
<1>4. \A v \in 1 .. MaxVersion, p \in Payloads :
            cached'[v][p] # NoCall => seen'[cached'[v][p]] = v
  BY DEF IVersion
<1> QED
  BY <1>1, <1>2, <1>3, <1>4 DEF IVersion

LEMMA VersionMoves ==
    ASSUME LocalsOK, IVersion, hits \subseteq GwCalls, NEW c \in GwCalls, NEW s \in Steps,
           Move(c, s), step[c] # "answered",
           s \in {"new", "lookup", "version"} => step[c] \in {"new", "lookup", "version"},
           UNCHANGED <<cached, version, bumps, asOf, hits>>, reset' = reset
    PROVE  IVersion'
BY VersionKeeps DEF Move, LocalsOK

LEMMA VersionAnswers ==
    ASSUME LocalsOK, IVersion, hits \subseteq GwCalls, NEW c \in GwCalls, NEW x \in Answers,
           AnswerWith(c, x), step[c] # "answered",
           UNCHANGED <<cached, version, bumps, asOf, hits>>, reset' = reset
    PROVE  IVersion'
BY VersionKeeps DEF AnswerWith, LocalsOK

\* A cached answer is no older than the last invalidation before the lookup,
\* until the version key expires or cannot be read.
THEOREM InvalidationsHold == GatewaySpec => []InvalidationHolds
<1>1. GatewayInit => IVersion
  BY DEF GatewayInit, IVersion
<1>2. GatewayTypeOK /\ Prepared /\ IVersion /\ [GatewayNext]_gwVars => IVersion'
  <2> SUFFICES ASSUME LocalsOK, Prepared, StoresOK, HistoryOK, IVersion, [GatewayNext]_gwVars
               PROVE  IVersion'
    BY Parts
  <2>0. hits \subseteq GwCalls
    BY DEF HistoryOK
  <2>1. ASSUME NEW c \in GwCalls, Enter(c)
        PROVE  IVersion'
    BY <2>0, <2>1, After, VersionMoves DEF Enter, Steps
  <2>2. ASSUME NEW c \in GwCalls, LookupSnapshot(c)
        PROVE  IVersion'
    <3>1. UNCHANGED <<cached, version, bumps, asOf, hits>> /\ reset' = reset
          /\ step[c] = "lookup"
      BY <2>2 DEF LookupSnapshot
    <3>2. CASE Move(c, AfterLookup(c)) \/ Move(c, "failed")
      BY <2>0, <3>1, <3>2, After, VersionMoves DEF Steps, Ended
    <3>3. CASE AnswerWith(c, snapshot[profile[c].user][profile[c].key])
      BY <2>0, <3>1, <3>3, Found, VersionAnswers
    <3> QED
      BY <2>2, <3>2, <3>3 DEF LookupSnapshot
  <2>3. ASSUME NEW c \in GwCalls, ReadVersion(c)
        PROVE  IVersion'
    <3>1. UNCHANGED <<cached, bumps, hits, answer>> /\ step[c] = "version"
      BY <2>3 DEF ReadVersion
    <3>2. \A d \in GwCalls \ {c} : step'[d] = step[d] /\ seen'[d] = seen[d] /\ asOf'[d] = asOf[d]
      BY <2>3 DEF ReadVersion, LocalsOK, HistoryOK
    <3>3. step'[c] = "cache" /\ asOf'[c] = bumps /\ seen[c] = 0 /\ c \notin hits
      BY <2>3, <3>1 DEF ReadVersion, LocalsOK, HistoryOK, IVersion
    <3>4. ASSUME ~reset'
          PROVE  /\ ~reset
                 /\ seen'[c] = version' /\ version' # 0
                 /\ version' = IF version = 0 THEN 1 ELSE version
      <4>1. PICK lost \in BOOLEAN :
              /\ seen' = [seen EXCEPT ![c] = IF lost \/ left[c] \/ version = 0 THEN 1 ELSE version]
              /\ version' = IF version = 0 /\ ~lost /\ ~left[c] THEN 1 ELSE version
              /\ reset' = (reset \/ lost \/ left[c])
        BY <2>3 DEF ReadVersion
      <4>2. ~reset /\ ~lost /\ ~left[c]
        BY <3>4, <4>1
      <4> QED
        BY <4>1, <4>2 DEF LocalsOK
    <3>5. ASSUME ~reset', NEW d \in GwCalls, seen'[d] # 0
          PROVE  version' # 0 /\ version' + asOf'[d] = seen'[d] + bumps'
      <4>1. CASE d = c
        BY <3>1, <3>3, <3>4, <3>5, <4>1
      <4>2. CASE d # c
        <5>1. version # 0 /\ version + asOf[d] = seen[d] + bumps
          BY <3>2, <3>4, <3>5, <4>2 DEF IVersion
        <5> QED
          BY <3>1, <3>2, <3>4, <3>5, <4>2, <5>1
      <4> QED
        BY <4>1, <4>2
    <3>6. \A d \in hits' : /\ step'[d] = "answered" /\ seen'[d] # 0
                           /\ answer'[d] \in GwCalls /\ seen'[answer'[d]] = seen'[d]
      <4> SUFFICES ASSUME NEW d \in hits
                   PROVE  /\ step'[d] = "answered" /\ seen'[d] # 0
                          /\ answer[d] \in GwCalls /\ seen'[answer[d]] = seen'[d]
        BY <3>1
      <4>1. /\ d \in GwCalls \ {c} /\ step[d] = "answered" /\ seen[d] # 0
            /\ answer[d] \in GwCalls /\ seen[answer[d]] = seen[d]
        BY <2>0, <3>3 DEF IVersion
      <4>2. answer[d] # c
        BY <3>3, <4>1
      <4> QED
        BY <3>2, <4>1, <4>2
    <3>7. ASSUME NEW v \in 1 .. MaxVersion, NEW p \in Payloads, cached[v][p] # NoCall
          PROVE  seen'[cached[v][p]] = v
      <4>1. cached[v][p] \in GwCalls /\ seen[cached[v][p]] = v
        BY <3>7 DEF StoresOK, Answers, IVersion
      <4>2. cached[v][p] # c
        BY <3>3, <4>1
      <4> QED
        BY <3>2, <4>1, <4>2
    <3>8. \A d \in GwCalls : step'[d] \in {"new", "lookup", "version"} => seen'[d] = 0
      BY <3>2, <3>3 DEF IVersion
    <3> QED
      BY <3>1, <3>5, <3>6, <3>7, <3>8 DEF IVersion
  <2>4. ASSUME NEW c \in GwCalls, LookupCache(c)
        PROVE  IVersion'
    <3>1. UNCHANGED <<cached, version, bumps, asOf>> /\ reset' = reset /\ step[c] = "cache"
      BY <2>4 DEF LookupCache
    <3>2. CASE Move(c, "join") /\ UNCHANGED hits
      BY <2>0, <3>1, <3>2, VersionMoves DEF Steps
    <3>3. CASE /\ AnswerWith(c, cached[seen[c]][profile[c].payload])
               /\ cached[seen[c]][profile[c].payload] # NoCall
               /\ hits' = hits \union {c}
      <4>1. PICK x \in GwCalls : x = cached[seen[c]][profile[c].payload]
        BY <3>1, <3>3, Found DEF Answers
      <4>2. seen[x] = seen[c] /\ seen[c] # 0
        BY <3>1, <3>3, <4>1, Found, ProfileType DEF IVersion, Prepared
      <4>3. /\ step'[c] = "answered" /\ answer'[c] = x /\ seen' = seen
            /\ \A d \in GwCalls \ {c} : step'[d] = step[d] /\ answer'[d] = answer[d]
        BY <3>3, <4>1 DEF AnswerWith, LocalsOK
      <4>4. \A d \in hits' : /\ step'[d] = "answered" /\ seen'[d] # 0
                             /\ answer'[d] \in GwCalls /\ seen'[answer'[d]] = seen'[d]
        BY <2>0, <3>3, <4>2, <4>3 DEF IVersion
      <4> QED
        BY <3>1, <4>3, <4>4 DEF IVersion
    <3> QED
      BY <2>4, <3>2, <3>3 DEF LookupCache
  <2>5. ASSUME NEW c \in GwCalls, Join(c)
        PROVE  IVersion'
    BY <2>0, <2>5, VersionKeeps DEF Join, LocalsOK
  <2>6. ASSUME NEW c \in GwCalls, Follow(c)
        PROVE  IVersion'
    <3>1. UNCHANGED <<cached, version, bumps, asOf, hits>> /\ reset' = reset /\ step[c] = "wait"
      BY <2>6 DEF Follow
    <3>2. CASE Move(c, "failed")
      BY <2>0, <3>1, <3>2, VersionMoves DEF Steps, Ended
    <3>3. CASE AnswerWith(c, answer[flight[c]])
      BY <2>0, <3>1, <3>3, Found, VersionAnswers
    <3> QED
      BY <2>6, <3>2, <3>3 DEF Follow
  <2>7. ASSUME NEW c \in GwCalls, Execute(c) \/ Charge(c) \/ DeductQuota(c)
        PROVE  IVersion'
    <3>1. UNCHANGED <<cached, version, bumps, asOf, hits>> /\ reset' = reset
          /\ step[c] \in Executing
      BY <2>7 DEF Execute, Charge, DeductQuota, Executing
    <3>2. \E s \in Steps \ {"new", "lookup", "version"} : Move(c, s)
      BY <2>7, After DEF Execute, Charge, DeductQuota, Steps, Executing, Ended
    <3> QED
      BY <2>0, <3>1, <3>2, VersionMoves DEF Executing
  <2>8. ASSUME NEW c \in GwCalls, StoreCache(c)
        PROVE  IVersion'
    <3>1. UNCHANGED <<seen, answer, version, bumps, asOf, hits>> /\ reset' = reset
          /\ step[c] = "storeCache"
      BY <2>8 DEF StoreCache, Move
    <3>2. \A d \in GwCalls : step'[d] = step[d] \/ (d = c /\ step'[d] = "storeSnapshot")
      BY <2>8 DEF StoreCache, Move, LocalsOK
    <3>3. ASSUME NEW v \in 1 .. MaxVersion, NEW p \in Payloads, cached'[v][p] # NoCall
          PROVE  seen[cached'[v][p]] = v
      <4>1. cached'[v][p] = cached[v][p] \/ (cached'[v][p] = c /\ v = seen[c])
        BY <2>8 DEF StoreCache, StoresOK
      <4> QED
        BY <3>3, <4>1 DEF IVersion
    <3>4. \A d \in hits : step'[d] = "answered"
      BY <2>0, <3>1, <3>2 DEF IVersion
    <3> QED
      BY <3>1, <3>2, <3>3, <3>4 DEF IVersion
  <2>9. ASSUME NEW c \in GwCalls, StoreSnapshot(c)
        PROVE  IVersion'
    <3>1. c \in Answers
      BY DEF Answers
    <3> QED
      BY <2>0, <2>9, <3>1, VersionAnswers DEF StoreSnapshot
  <2>10. ASSUME NEW c \in GwCalls, Leave(c)
         PROVE  IVersion'
    BY <2>0, <2>10, VersionKeeps DEF Leave
  <2>11. ASSUME NEW s \in {1, 2}, Crash(s)
         PROVE  IVersion'
    BY <2>0, <2>11, VersionKeeps DEF Crash, Ended
  <2>12. ASSUME NEW u \in Users, NEW k \in IdemKeys, SnapshotExpires(u, k)
         PROVE  IVersion'
    BY <2>0, <2>12, VersionKeeps DEF SnapshotExpires
  <2>13. ASSUME NEW v \in 1 .. MaxVersion, NEW p \in Payloads, ResponseExpires(v, p)
         PROVE  IVersion'
    <3>1. \A w \in 1 .. MaxVersion, q \in Payloads : cached'[w][q] \in {NoCall, cached[w][q]}
      BY <2>13 DEF ResponseExpires, StoresOK
    <3> QED
      BY <2>0, <2>13, <3>1, VersionKeeps DEF ResponseExpires
  <2>14. CASE VersionExpires
    BY <2>14 DEF VersionExpires, IVersion
  <2>15. CASE Invalidate
    <3>1. /\ UNCHANGED <<callLocals, cached, asOf, hits>> /\ reset' = reset
          /\ version' = version + 1 /\ bumps' = bumps + 1
      BY <2>15 DEF Invalidate
    <3>2. version \in Nat /\ bumps \in Nat /\ \A d \in GwCalls : seen[d] \in Nat /\ asOf[d] \in Nat
      BY DEF StoresOK, HistoryOK, LocalsOK
    <3>3. ASSUME ~reset, NEW d \in GwCalls, seen[d] # 0
          PROVE  version' # 0 /\ version' + asOf[d] = seen[d] + bumps'
      <4>1. version + asOf[d] = seen[d] + bumps
        BY <3>3 DEF IVersion
      <4> QED
        BY <3>1, <3>2, <4>1
    <3> QED
      BY <3>1, <3>3 DEF IVersion
  <2>16. CASE UNCHANGED gwVars
    BY <2>0, <2>16, VersionKeeps DEF gwVars
  <2> QED
    BY <2>1, <2>2, <2>3, <2>4, <2>5, <2>6, <2>7, <2>8, <2>9, <2>10, <2>11, <2>12, <2>13,
       <2>14, <2>15, <2>16
    DEF GatewayNext, GwStep
<1>3. GatewayTypeOK /\ IVersion => InvalidationHolds
  <2> SUFFICES ASSUME LocalsOK, StoresOK, HistoryOK, IVersion, ~reset, NEW c \in hits
               PROVE  asOf[answer[c]] = asOf[c]
    BY Parts DEF InvalidationHolds
  <2>1. /\ c \in GwCalls /\ answer[c] \in GwCalls
        /\ seen[c] # 0 /\ seen[answer[c]] = seen[c]
    BY DEF HistoryOK, IVersion
  <2>2. version + asOf[c] = seen[c] + bumps /\ version + asOf[answer[c]] = seen[c] + bumps
    BY <2>1 DEF IVersion
  <2>3. version \in Nat /\ bumps \in Nat /\ asOf[c] \in Nat /\ asOf[answer[c]] \in Nat
    BY <2>1 DEF StoresOK, HistoryOK
  <2> QED
    BY <2>2, <2>3
<1> QED
  BY <1>1, <1>2, <1>3, TypeInvariant, PTL DEF GatewaySpec

(***************************************************************************)
(* One charge per idempotency key.                                         *)
(***************************************************************************)
Charged == {"deduct", "storeCache", "storeSnapshot"} \union Ended
Produced == {"storeSnapshot"} \union Ended

\* Calls only go forward.
Forward ==
    \A d \in GwCalls :
        /\ step[d] \in Ended => step'[d] = step[d]
        /\ step[d] \in Charged => step'[d] \in Charged
        /\ step[d] \in Produced => step'[d] \in Produced
        /\ step'[d] \in {"new", "lookup"} => step[d] \in {"new", "lookup"}

LEMMA ForwardMove ==
    ASSUME LocalsOK, NEW c \in GwCalls, NEW s \in Steps, Move(c, s),
           step[c] \notin Ended,
           step[c] \in Charged => s \in Charged,
           step[c] \in Produced => s \in Produced,
           s \in {"new", "lookup"} => step[c] = "new"
    PROVE  Forward
BY DEF Move, LocalsOK, Forward

LEMMA ForwardAnswer ==
    ASSUME LocalsOK, NEW c \in GwCalls, NEW x \in Answers, AnswerWith(c, x),
           step[c] \notin Ended
    PROVE  Forward
BY DEF AnswerWith, LocalsOK, Forward, Charged, Produced, Ended

\* The retry c comes under the key of the charged call d.
Match(c, d) ==
    /\ profile[c].key # NoKey
    /\ profile[c].key = profile[d].key
    /\ profile[c].user = profile[d].user
    /\ profile[c].payload = profile[d].payload

\* A call with an answer has ended, and the answer's call has come to storing
\* it; so a call is its own answer only when it has stored its snapshot.
IAnswered ==
    /\ \A c \in GwCalls : answer[c] # NoCall =>
            step[c] = "answered" /\ step[answer[c]] \in Produced
    /\ \A u \in Users, k \in IdemKeys : snapshot[u][k] # NoCall =>
            step[snapshot[u][k]] \in Produced
    /\ \A v \in 1 .. MaxVersion, p \in Payloads : cached[v][p] # NoCall =>
            step[cached[v][p]] \in Produced
IStored ==
    forgotten \/ \A d \in GwCalls :
        (answer[d] = d /\ profile[d].key # NoKey /\ ~left[d]) =>
            snapshot[profile[d].user][profile[d].key] # NoCall
IPaid ==
    \A c \in GwCalls : c \in paid => step[c] \in Charged
IBefore ==
    \A c \in GwCalls :
        /\ step[c] \in {"new", "lookup"} => before[c] = {}
        /\ \A d \in before[c] : d \in GwCalls /\ step[d] = "answered" /\ ~left[d]
IRetry ==
    \A c, d \in GwCalls :
        (d \in before[c] /\ Match(c, d) /\ answer[d] = d) =>
            forgotten \/ left[c] \/ (c \notin paid /\ step[c] \in Ended)

IKeys == IAnswered /\ IStored /\ IPaid /\ IBefore /\ IRetry

\* A step that pays nobody, gives no answer, stores nothing and looks for no
\* snapshot.
LEMMA KeysKeep ==
    ASSUME IKeys, Forward, UNCHANGED <<profile, answer, before>>,
           paid' \subseteq paid, forgotten => forgotten',
           \A d \in GwCalls : left[d] => left'[d],
           \A d \in GwCalls : left'[d] # left[d] => step[d] # "answered",
           \A u \in Users, k \in IdemKeys :
              \/ snapshot'[u][k] = snapshot[u][k]
              \/ snapshot'[u][k] = NoCall /\ forgotten',
           \A v \in 1 .. MaxVersion, p \in Payloads : cached'[v][p] \in {NoCall, cached[v][p]},
           StoresOK, LocalsOK, HistoryOK
    PROVE  IKeys'
<1>1. IAnswered'
  <2>1. \A c \in GwCalls : answer'[c] # NoCall =>
            step'[c] = "answered" /\ step'[answer'[c]] \in Produced
    BY DEF IKeys, IAnswered, Forward, LocalsOK, Answers, Ended
  <2>2. \A u \in Users, k \in IdemKeys : snapshot'[u][k] # NoCall =>
            step'[snapshot'[u][k]] \in Produced
    BY DEF IKeys, IAnswered, Forward, StoresOK, Answers
  <2>3. \A v \in 1 .. MaxVersion, p \in Payloads : cached'[v][p] # NoCall =>
            step'[cached'[v][p]] \in Produced
    BY DEF IKeys, IAnswered, Forward, StoresOK, Answers
  <2> QED
    BY <2>1, <2>2, <2>3 DEF IAnswered
<1>2. IStored'
  BY ProfileType DEF IKeys, IStored
<1>3. IPaid'
  BY DEF IKeys, IPaid, Forward
<1>4. IBefore'
  BY DEF IKeys, IBefore, Forward, Ended
<1>5. IRetry'
  BY DEF IKeys, IRetry, Match, Forward
<1> QED
  BY <1>1, <1>2, <1>3, <1>4, <1>5 DEF IKeys

\* The call is answered from elsewhere: it is not its own answer.
LEMMA KeysAnswered ==
    ASSUME IKeys, StoresOK, LocalsOK, HistoryOK, NEW c \in GwCalls, NEW x \in Answers,
           AnswerWith(c, x), step[c] \notin Produced,
           x # NoCall => step[x] \in Produced,
           UNCHANGED <<before, paid, snapshot, cached>>, forgotten => forgotten'
    PROVE  IKeys'
<1>1. Forward
  BY ForwardAnswer DEF Produced
<1>2. /\ step'[c] = "answered" /\ answer'[c] = x /\ UNCHANGED <<profile, left>>
      /\ \A d \in GwCalls \ {c} : step'[d] = step[d] /\ answer'[d] = answer[d]
  BY DEF AnswerWith, LocalsOK
<1>3. x # c
  BY GatewayAssumption DEF Answers
<1>4. IAnswered'
  <2>1. \A d \in GwCalls : answer'[d] # NoCall =>
            step'[d] = "answered" /\ step'[answer'[d]] \in Produced
    BY <1>1, <1>2 DEF IKeys, IAnswered, Forward, LocalsOK, Answers
  <2>2. \A u \in Users, k \in IdemKeys : snapshot'[u][k] # NoCall =>
            step'[snapshot'[u][k]] \in Produced
    BY <1>1 DEF IKeys, IAnswered, Forward, StoresOK, Answers
  <2>3. ASSUME NEW v \in 1 .. MaxVersion, NEW p \in Payloads, cached[v][p] # NoCall
        PROVE  step'[cached[v][p]] \in Produced
    <3>1. cached[v][p] \in GwCalls /\ step[cached[v][p]] \in Produced
      BY <2>3 DEF IKeys, IAnswered, StoresOK, Answers
    <3> QED
      BY <1>1, <3>1 DEF Forward
  <2> QED
    BY <2>1, <2>2, <2>3 DEF IAnswered
<1>5. IStored'
  BY <1>2, <1>3 DEF IKeys, IStored
<1>6. IPaid'
  BY <1>1 DEF IKeys, IPaid, Forward
<1>7. IBefore'
  BY <1>1, <1>2 DEF IKeys, IBefore, Forward, Ended
<1>8. IRetry'
  <2>1. c \notin paid => step'[c] \in Ended
    BY <1>2 DEF Ended
  <2> QED
    BY <1>1, <1>2, <1>3 DEF IKeys, IRetry, Match, Forward
<1> QED
  BY <1>4, <1>5, <1>6, <1>7, <1>8 DEF IKeys

\* A retry pays again only when its snapshot was lost, or its own client left.
THEOREM KeysChargeOnce == GatewaySpec => []ChargedOncePerKey
<1>1. GatewayInit => IKeys
  <2> SUFFICES ASSUME GatewayInit
               PROVE  IAnswered /\ IStored /\ IPaid /\ IBefore /\ IRetry
    BY DEF IKeys
  <2>1. IAnswered
    BY DEF GatewayInit, IAnswered
  <2>2. IStored
    BY GatewayAssumption DEF GatewayInit, IStored
  <2>3. IPaid /\ IBefore /\ IRetry
    BY DEF GatewayInit, IPaid, IBefore, IRetry
  <2> QED
    BY <2>1, <2>2, <2>3
<1>2. GatewayTypeOK /\ Prepared /\ IKeys /\ [GatewayNext]_gwVars => IKeys'
  <2> SUFFICES ASSUME LocalsOK, Prepared, StoresOK, HistoryOK, IKeys, [GatewayNext]_gwVars
               PROVE  IKeys'
    BY Parts
  <2> USE DEF Charged, Produced, Ended
  <2>1. ASSUME NEW c \in GwCalls, NEW s \in Steps, Move(c, s), step[c] \notin Ended,
               step[c] \in Charged => s \in Charged,
               step[c] \in Produced => s \in Produced,
               s \in {"new", "lookup"} => step[c] = "new",
               UNCHANGED <<before, paid, snapshot, cached>>, forgotten => forgotten'
        PROVE  IKeys'
    BY <2>1, ForwardMove, KeysKeep DEF Move
  <2>2. ASSUME NEW c \in GwCalls, Enter(c)
        PROVE  IKeys'
    <3>1. PICK s \in {"lookup", "version", "join"} : Move(c, s)
      BY <2>2, After DEF Enter
    <3>2. UNCHANGED <<before, paid, snapshot, cached>> /\ step[c] = "new"
      BY <2>2 DEF Enter
    <3>3. forgotten' = forgotten
      BY <2>2 DEF Enter
    <3> QED
      BY <2>1, <3>1, <3>2, <3>3 DEF Steps
  <2>3. ASSUME NEW c \in GwCalls, LookupSnapshot(c)
        PROVE  IKeys'
    <3>1. step[c] = "lookup" /\ UNCHANGED <<paid, snapshot, cached>>
      BY <2>3 DEF LookupSnapshot
    <3>2. before' = [before EXCEPT ![c] = {d \in GwCalls : step[d] = "answered" /\ ~left[d]}]
      BY <2>3 DEF LookupSnapshot
    <3>3. PICK x \in Answers : x = snapshot[profile[c].user][profile[c].key]
      BY <3>1, Found
    <3>4. x # NoCall => step[x] \in Produced
      BY <3>1, <3>3, ProfileType DEF Prepared, IKeys, IAnswered
    <3>5. forgotten => forgotten'
      BY <2>3 DEF LookupSnapshot
    <3>6. /\ UNCHANGED <<profile, left>>
          /\ \A d \in GwCalls \ {c} : step'[d] = step[d] /\ answer'[d] = answer[d]
          /\ step'[c] \in {"version", "join"} \union Ended
          /\ \/ answer'[c] = answer[c]
             \/ answer'[c] = x /\ step'[c] = "answered"
      BY <2>3, <3>3, After DEF LookupSnapshot, Move, AnswerWith, LocalsOK
    <3>7. forgotten' \/ left[c] \/ x = NoCall \/ step'[c] \in Ended
      BY <2>3, <3>3 DEF LookupSnapshot, Move, AnswerWith, LocalsOK
    <3>8. answer[c] = NoCall /\ answer'[c] # c
      BY <3>1, <3>4, <3>6, GatewayAssumption DEF IKeys, IAnswered, LocalsOK, Answers
    <3>9. Forward
      BY <3>1, <3>6 DEF Forward
    <3>10. IAnswered'
      <4>1. \A d \in GwCalls : answer'[d] # NoCall =>
                step'[d] = "answered" /\ step'[answer'[d]] \in Produced
        BY <3>4, <3>6, <3>8, <3>9 DEF IKeys, IAnswered, Forward, LocalsOK, Answers
      <4>2. ASSUME NEW u \in Users, NEW k \in IdemKeys, snapshot[u][k] # NoCall
            PROVE  step'[snapshot[u][k]] \in Produced
        <5>1. snapshot[u][k] \in GwCalls /\ step[snapshot[u][k]] \in Produced
          BY <4>2 DEF IKeys, IAnswered, StoresOK, Answers
        <5> QED
          BY <3>9, <5>1 DEF Forward
      <4>3. ASSUME NEW v \in 1 .. MaxVersion, NEW p \in Payloads, cached[v][p] # NoCall
            PROVE  step'[cached[v][p]] \in Produced
        <5>1. cached[v][p] \in GwCalls /\ step[cached[v][p]] \in Produced
          BY <4>3 DEF IKeys, IAnswered, StoresOK, Answers
        <5> QED
          BY <3>9, <5>1 DEF Forward
      <4> QED
        BY <3>1, <4>1, <4>2, <4>3 DEF IAnswered
    <3>11. IStored'
      BY <3>1, <3>5, <3>6, <3>8 DEF IKeys, IStored
    <3>12. IPaid'
      BY <3>1, <3>9 DEF IKeys, IPaid, Forward
    <3>13. IBefore'
      <4>1. step'[c] \notin {"new", "lookup"}
        BY <3>6
      <4>2. before'[c] = {d \in GwCalls : step[d] = "answered" /\ ~left[d]}
        BY <3>2 DEF HistoryOK
      <4>3. \A d \in GwCalls \ {c} : before'[d] = before[d]
        BY <3>2 DEF HistoryOK
      <4>4. \A d \in GwCalls : step[d] = "answered" => step'[d] = "answered"
        BY <3>9 DEF Forward
      <4>5. \A d \in before'[c] : d \in GwCalls /\ step'[d] = "answered" /\ ~left'[d]
        BY <3>6, <4>2, <4>4
      <4>6. ASSUME NEW e \in GwCalls \ {c}
            PROVE  /\ step'[e] \in {"new", "lookup"} => before'[e] = {}
                   /\ \A d \in before'[e] : d \in GwCalls /\ step'[d] = "answered" /\ ~left'[d]
        BY <3>6, <4>3, <4>4 DEF IKeys, IBefore
      <4> QED
        BY <4>1, <4>5, <4>6 DEF IBefore
    <3>14. IRetry'
      <4> SUFFICES ASSUME NEW e \in GwCalls, NEW d \in GwCalls, d \in before'[e],
                          Match(e, d)', answer'[d] = d, ~forgotten', ~left'[e]
                   PROVE  e \notin paid' /\ step'[e] \in Ended
        BY DEF IRetry
      <4>1. Match(e, d) /\ answer[d] = d /\ ~forgotten /\ ~left[e]
        BY <3>5, <3>6, <3>8 DEF Match
      <4>2. CASE e # c
        <5>1. d \in before[e]
          BY <3>2, <4>2 DEF HistoryOK
        <5>2. e \notin paid /\ step[e] \in Ended
          BY <4>1, <5>1 DEF IKeys, IRetry
        <5> QED
          BY <3>1, <3>9, <5>2 DEF Forward
      <4>3. CASE e = c
        <5>1. step[d] = "answered" /\ ~left[d]
          BY <3>2, <4>3 DEF HistoryOK
        <5>2. snapshot[profile[d].user][profile[d].key] # NoCall
          BY <4>1, <5>1 DEF IKeys, IStored, Match
        <5>3. x # NoCall
          BY <3>3, <4>1, <4>3, <5>2 DEF Match
        <5>4. step'[c] \in Ended
          BY <3>7, <4>1, <4>3, <5>3
        <5>5. c \notin paid
          BY <3>1 DEF IKeys, IPaid
        <5> QED
          BY <3>1, <4>3, <5>4, <5>5
      <4> QED
        BY <4>2, <4>3
    <3> QED
      BY <3>10, <3>11, <3>12, <3>13, <3>14 DEF IKeys
  <2>4. ASSUME NEW c \in GwCalls, ReadVersion(c)
        PROVE  IKeys'
    <3>1. Forward
      BY <2>4 DEF ReadVersion, LocalsOK, Forward
    <3> QED
      BY <2>4, <3>1, KeysKeep DEF ReadVersion
  <2>5. ASSUME NEW c \in GwCalls, LookupCache(c)
        PROVE  IKeys'
    <3>1. UNCHANGED <<before, paid, snapshot, cached>> /\ step[c] = "cache"
      BY <2>5 DEF LookupCache
    <3>2. forgotten' = forgotten
      BY <2>5 DEF LookupCache
    <3>3. CASE Move(c, "join")
      BY <2>1, <3>1, <3>2, <3>3 DEF Steps
    <3>4. CASE AnswerWith(c, cached[seen[c]][profile[c].payload])
      <4>1. PICK x \in Answers : x = cached[seen[c]][profile[c].payload]
        BY <3>1, Found
      <4>2. x # NoCall => step[x] \in Produced
        BY <3>1, <4>1, Found, ProfileType DEF IKeys, IAnswered
      <4> QED
        BY <3>1, <3>2, <3>4, <4>1, <4>2, KeysAnswered
    <3> QED
      BY <2>5, <3>3, <3>4 DEF LookupCache
  <2>6. ASSUME NEW c \in GwCalls, Join(c)
        PROVE  IKeys'
    <3>1. Forward
      BY <2>6 DEF Join, LocalsOK, Forward
    <3> QED
      BY <2>6, <3>1, KeysKeep DEF Join
  <2>7. ASSUME NEW c \in GwCalls, Follow(c)
        PROVE  IKeys'
    <3>1. UNCHANGED <<before, paid, snapshot, cached>> /\ step[c] = "wait"
      BY <2>7 DEF Follow
    <3>2. forgotten' = forgotten
      BY <2>7 DEF Follow
    <3>3. CASE Move(c, "failed")
      BY <2>1, <3>1, <3>2, <3>3 DEF Steps
    <3>4. CASE AnswerWith(c, answer[flight[c]])
      <4>1. PICK x \in Answers : x = answer[flight[c]]
        BY <3>1, Found
      <4>2. x # NoCall => step[x] \in Produced
        BY <3>1, <4>1 DEF Prepared, IKeys, IAnswered
      <4> QED
        BY <3>1, <3>2, <3>4, <4>1, <4>2, KeysAnswered
    <3> QED
      BY <2>7, <3>3, <3>4 DEF Follow
  <2>8. ASSUME NEW c \in GwCalls, Execute(c) \/ DeductQuota(c)
        PROVE  IKeys'
    <3>1. UNCHANGED <<before, paid, snapshot, cached>> /\ step[c] \in {"execute", "deduct"}
      BY <2>8 DEF Execute, DeductQuota
    <3>2. forgotten' = forgotten
      BY <2>8 DEF Execute, DeductQuota
    <3>3. \E s \in Charged \union {"charge"} : Move(c, s) /\ (s = "charge" => step[c] = "execute")
      BY <2>8, After DEF Execute, DeductQuota
    <3> QED
      BY <2>1, <3>1, <3>2, <3>3 DEF Steps, Executing
  <2>9. ASSUME NEW c \in GwCalls, Charge(c)
        PROVE  IKeys'
    <3>1. UNCHANGED <<before, snapshot, cached>> /\ step[c] = "charge"
      BY <2>9 DEF Charge
    <3>2. forgotten' = forgotten
      BY <2>9 DEF Charge
    <3>3. CASE Move(c, "failed") /\ UNCHANGED paid
      BY <2>1, <3>1, <3>2, <3>3 DEF Steps
    <3>4. CASE Move(c, "deduct") /\ paid' = paid \union {c}
      <4>1. Forward
        BY <3>1, <3>4, ForwardMove DEF Steps, Executing
      <4>2. UNCHANGED <<profile, answer, left>>
        BY <3>4 DEF Move
      <4>3. IAnswered'
        <5>1. \A d \in GwCalls : answer'[d] # NoCall =>
                  step'[d] = "answered" /\ step'[answer'[d]] \in Produced
          BY <4>1, <4>2 DEF IKeys, IAnswered, Forward, LocalsOK, Answers
        <5>2. ASSUME NEW u \in Users, NEW k \in IdemKeys, snapshot[u][k] # NoCall
              PROVE  step'[snapshot[u][k]] \in Produced
          BY <4>1, <5>2 DEF IKeys, IAnswered, StoresOK, Answers, Forward
        <5>3. ASSUME NEW v \in 1 .. MaxVersion, NEW p \in Payloads, cached[v][p] # NoCall
              PROVE  step'[cached[v][p]] \in Produced
          <6>1. cached[v][p] \in GwCalls /\ step[cached[v][p]] \in Produced
            BY <5>3 DEF IKeys, IAnswered, StoresOK, Answers
          <6> QED
            BY <4>1, <6>1 DEF Forward
        <5> QED
          BY <3>1, <5>1, <5>2, <5>3 DEF IAnswered
      <4>4. IStored'
        BY <3>1, <3>2, <4>2 DEF IKeys, IStored
      <4>5. IPaid'
        BY <3>4, <4>1 DEF IKeys, IPaid, Forward, Move, LocalsOK
      <4>6. IBefore'
        BY <3>1, <4>1, <4>2 DEF IKeys, IBefore, Forward
      <4>7. IRetry'
        BY <3>1, <3>2, <3>4, <4>1, <4>2 DEF IKeys, IRetry, Match, Forward
      <4> QED
        BY <4>3, <4>4, <4>5, <4>6, <4>7 DEF IKeys
    <3> QED
      BY <2>9, <3>3, <3>4 DEF Charge
  <2>10. ASSUME NEW c \in GwCalls, StoreCache(c)
         PROVE  IKeys'
    <3>1. UNCHANGED <<before, paid, snapshot, profile, answer, left>> /\ step[c] = "storeCache"
      BY <2>10 DEF StoreCache, Move
    <3>2. forgotten' = forgotten
      BY <2>10 DEF StoreCache
    <3>3. Forward /\ step'[c] = "storeSnapshot"
      BY <2>10, ForwardMove DEF StoreCache, Move, LocalsOK, Steps, Executing
    <3>4. IAnswered'
      <4>1. \A d \in GwCalls : answer'[d] # NoCall =>
                step'[d] = "answered" /\ step'[answer'[d]] \in Produced
        BY <3>1, <3>3 DEF IKeys, IAnswered, Forward, LocalsOK, Answers
      <4>2. ASSUME NEW u \in Users, NEW k \in IdemKeys, snapshot[u][k] # NoCall
            PROVE  step'[snapshot[u][k]] \in Produced
        BY <3>3, <4>2 DEF IKeys, IAnswered, StoresOK, Answers, Forward
      <4>3. ASSUME NEW v \in 1 .. MaxVersion, NEW p \in Payloads, cached'[v][p] # NoCall
            PROVE  step'[cached'[v][p]] \in Produced
        <5>1. cached'[v][p] \in {cached[v][p], c}
          BY <2>10 DEF StoreCache, StoresOK
        <5>2. CASE cached'[v][p] = c
          BY <3>3, <5>2
        <5>3. CASE cached'[v][p] = cached[v][p]
          <6>1. cached[v][p] \in GwCalls /\ step[cached[v][p]] \in Produced
            BY <4>3, <5>3 DEF IKeys, IAnswered, StoresOK, Answers
          <6> QED
            BY <3>3, <5>3, <6>1 DEF Forward
        <5> QED
          BY <5>1, <5>2, <5>3
      <4> QED
        BY <3>1, <4>1, <4>2, <4>3 DEF IAnswered
    <3>5. IStored'
      BY <3>1, <3>2 DEF IKeys, IStored
    <3>6. IPaid' /\ IBefore'
      BY <3>1, <3>3 DEF IKeys, IPaid, IBefore, Forward
    <3>7. IRetry'
      BY <3>1, <3>2, <3>3 DEF IKeys, IRetry, Match, Forward
    <3> QED
      BY <3>4, <3>5, <3>6, <3>7 DEF IKeys
  <2>11. ASSUME NEW c \in GwCalls, StoreSnapshot(c)
         PROVE  IKeys'
    <3>1. UNCHANGED <<before, paid, cached, profile, left>> /\ step[c] = "storeSnapshot"
      BY <2>11 DEF StoreSnapshot, AnswerWith
    <3>2. forgotten => forgotten'
      BY <2>11 DEF StoreSnapshot
    <3>3. c \in Answers
      BY DEF Answers
    <3>4. /\ step'[c] = "answered" /\ answer'[c] = c
          /\ \A d \in GwCalls \ {c} : step'[d] = step[d] /\ answer'[d] = answer[d]
      BY <2>11 DEF StoreSnapshot, AnswerWith, LocalsOK
    <3>5. Forward
      BY <2>11, <3>1, <3>3, ForwardAnswer DEF StoreSnapshot
    <3>6. \A u \in Users, k \in IdemKeys : snapshot'[u][k] \in {snapshot[u][k], c}
      BY <2>11 DEF StoreSnapshot, StoresOK
    <3>7. c # NoCall
      BY GatewayAssumption
    <3>8. forgotten' \/ left[c] \/ profile[c].key = NoKey \/
             snapshot'[profile[c].user][profile[c].key] = c
      BY <2>11, ProfileType DEF StoreSnapshot, StoresOK
    <3>9. IAnswered'
      <4>1. \A d \in GwCalls : answer'[d] # NoCall =>
                step'[d] = "answered" /\ step'[answer'[d]] \in Produced
        BY <3>4, <3>5 DEF IKeys, IAnswered, Forward, LocalsOK, Answers
      <4>2. ASSUME NEW u \in Users, NEW k \in IdemKeys, snapshot'[u][k] # NoCall
            PROVE  step'[snapshot'[u][k]] \in Produced
        <5>1. CASE snapshot'[u][k] = c
          BY <3>4, <5>1
        <5>2. CASE snapshot'[u][k] = snapshot[u][k]
          BY <3>5, <4>2, <5>2 DEF IKeys, IAnswered, StoresOK, Answers, Forward
        <5> QED
          BY <3>6, <5>1, <5>2
      <4>3. ASSUME NEW v \in 1 .. MaxVersion, NEW p \in Payloads, cached[v][p] # NoCall
            PROVE  step'[cached[v][p]] \in Produced
        <5>1. cached[v][p] \in GwCalls /\ step[cached[v][p]] \in Produced
          BY <4>3 DEF IKeys, IAnswered, StoresOK, Answers
        <5> QED
          BY <3>5, <5>1 DEF Forward
      <4> QED
        BY <3>1, <4>1, <4>2, <4>3 DEF IAnswered
    <3>10. IStored'
      <4> SUFFICES ASSUME ~forgotten', NEW d \in GwCalls, answer'[d] = d,
                          profile[d].key # NoKey, ~left[d]
                   PROVE  snapshot'[profile[d].user][profile[d].key] # NoCall
        BY <3>1 DEF IStored
      <4>1. CASE d = c
        BY <3>7, <3>8, <4>1
      <4>2. CASE d # c
        <5>1. snapshot[profile[d].user][profile[d].key] # NoCall
          BY <3>2, <3>4, <4>2 DEF IKeys, IStored
        <5> QED
          BY <3>6, <3>7, <5>1, ProfileType
      <4> QED
        BY <4>1, <4>2
    <3>11. IPaid' /\ IBefore'
      BY <3>1, <3>5 DEF IKeys, IPaid, IBefore, Forward
    <3>12. IRetry'
      <4> SUFFICES ASSUME NEW e \in GwCalls, NEW d \in GwCalls, d \in before[e],
                          Match(e, d), answer'[d] = d, ~forgotten', ~left[e]
                   PROVE  e \notin paid /\ step'[e] \in Ended
        BY <3>1 DEF IRetry, Match
      <4>1. d # c
        BY <3>1 DEF IKeys, IBefore
      <4>2. e \notin paid /\ step[e] \in Ended
        BY <3>2, <3>4, <4>1 DEF IKeys, IRetry
      <4> QED
        BY <3>5, <4>2 DEF Forward
    <3> QED
      BY <3>9, <3>10, <3>11, <3>12 DEF IKeys
  <2>12. ASSUME NEW c \in GwCalls, Leave(c)
         PROVE  IKeys'
    <3>1. Forward
      BY <2>12 DEF Leave, Forward
    <3>2. \A d \in GwCalls : left[d] => left'[d]
      BY <2>12 DEF Leave, LocalsOK
    <3>3. \A d \in GwCalls : left'[d] # left[d] => step[d] # "answered"
      BY <2>12 DEF Leave, LocalsOK
    <3>4. UNCHANGED <<profile, answer, before, paid, snapshot, cached>>
      BY <2>12 DEF Leave
    <3>5. forgotten' = forgotten
      BY <2>12 DEF Leave
    <3> QED
      BY <3>1, <3>2, <3>3, <3>4, <3>5, KeysKeep
  <2>13. ASSUME NEW s \in {1, 2}, Crash(s)
         PROVE  IKeys'
    <3>1. Forward
      BY <2>13 DEF Crash, Forward
    <3> QED
      BY <2>13, <3>1, KeysKeep DEF Crash
  <2>14. ASSUME NEW u \in Users, NEW k \in IdemKeys, SnapshotExpires(u, k)
         PROVE  IKeys'
    <3>1. Forward
      BY <2>14 DEF SnapshotExpires, Forward
    <3>2. forgotten' = TRUE
      BY <2>14 DEF SnapshotExpires
    <3>3. \A w \in Users, j \in IdemKeys : snapshot'[w][j] \in {NoCall, snapshot[w][j]}
      BY <2>14 DEF SnapshotExpires, StoresOK
    <3>4. UNCHANGED <<profile, answer, left, before, paid, cached>>
      BY <2>14 DEF SnapshotExpires
    <3> QED
      BY <3>1, <3>2, <3>3, <3>4, KeysKeep
  <2>15. ASSUME NEW v \in 1 .. MaxVersion, NEW p \in Payloads, ResponseExpires(v, p)
         PROVE  IKeys'
    <3>1. Forward
      BY <2>15 DEF ResponseExpires, Forward
    <3>2. \A w \in 1 .. MaxVersion, q \in Payloads : cached'[w][q] \in {NoCall, cached[w][q]}
      BY <2>15 DEF ResponseExpires, StoresOK
    <3>3. UNCHANGED <<profile, answer, left, before, paid, snapshot>>
      BY <2>15 DEF ResponseExpires
    <3>4. forgotten' = forgotten
      BY <2>15 DEF ResponseExpires
    <3> QED
      BY <3>1, <3>2, <3>3, <3>4, KeysKeep
  <2>16. ASSUME UNCHANGED <<callLocals, before, paid, snapshot, cached>>, forgotten' = forgotten
         PROVE  IKeys'
    <3>1. Forward
      BY <2>16 DEF Forward
    <3> QED
      BY <2>16, <3>1, KeysKeep
  <2>17. CASE VersionExpires \/ Invalidate
    BY <2>16, <2>17 DEF VersionExpires, Invalidate
  <2>18. CASE UNCHANGED gwVars
    BY <2>16, <2>18 DEF gwVars
  <2> QED
    BY <2>2, <2>3, <2>4, <2>5, <2>6, <2>7, <2>8, <2>9, <2>10, <2>11, <2>12, <2>13, <2>14,
       <2>15, <2>17, <2>18
    DEF GatewayNext, GwStep
<1>3. GatewayTypeOK /\ IKeys => ChargedOncePerKey
  <2> SUFFICES ASSUME HistoryOK, IKeys, NEW c \in GwCalls, NEW d \in GwCalls,
                      c \in paid, d \in before[c], answer[d] = d, Match(c, d)
               PROVE  forgotten \/ left[c]
    BY Parts DEF ChargedOncePerKey, Match
  <2> QED
    BY DEF IKeys, IRetry
<1> QED
  BY <1>1, <1>2, <1>3, TypeInvariant, PTL DEF GatewaySpec

=============================================================================
