---------------------------- MODULE GatewayCalls ----------------------------
(***************************************************************************)
(* Calls that are answered in one piece - chat completions without         *)
(* streaming, completions, embeddings - from the idempotency snapshot, the *)
(* response cache, another call's flight or an execution of their own that *)
(* is charged to the wallet and the token                                  *)
(* (service/gateway_traffic_optimizer.go, service/gateway_service_v2.go).  *)
(*                                                                         *)
(* A call is described by its profile: the user (with one token), the      *)
(* idempotency key, the payload (operation, model and body, what the       *)
(* request hash is taken of), the API process and the control flags.       *)
(***************************************************************************)
EXTENDS Naturals

CONSTANTS
    GwCalls,
    Profiles,       \* what calls can be like
    Users,
    IdemKeys,       \* idempotency keys
    NoKey,
    Payloads,
    NoCall,
    Cost,           \* price of an answer
    Funds,          \* what each wallet holds
    Quota,          \* remaining quota of each token
    MaxVersion,     \* bound: versions of the response cache
    MaxGwFaults     \* bound: failing commands and statements, dying processes

ASSUME GatewayAssumption ==
    /\ Profiles \subseteq
        [user : Users, key : IdemKeys \union {NoKey}, payload : Payloads,
         server : {1, 2}, caching : BOOLEAN, alone : BOOLEAN]
    /\ NoKey \notin IdemKeys
    /\ NoCall \notin GwCalls
    /\ Cost \in Nat /\ Funds \in Nat /\ Quota \in Nat
    /\ MaxVersion \in Nat \ {0}
    /\ MaxGwFaults \in Nat

VARIABLES
    profile,    \* profile[c]: what call c asks for
    step,       \* step[c]: where it stands
    version,    \* the cache version in Redis, zero without a key
    seen,       \* seen[c]: the version c has read, zero when it does not cache
    flight,     \* flight[c]: whose execution c waits for or is
    left,       \* left[c]: its client has closed the connection
    answer,     \* answer[c]: the call whose execution answers c
    snapshot,   \* snapshot[u][k]: the call that stored one under the key
    cached,     \* cached[v][p]: the call that stored p's answer under version v
    wallet,
    quota,
    gwFaults,
    paid,       \* history: calls charged to the wallet
    unmetered,  \* history: calls whose upstream reported no usage
    before,     \* history: before[c]: calls answered when c looked for a snapshot
    forgotten,  \* history: a snapshot expired or was not stored or read
    bumps,      \* history: invalidations of the response cache
    asOf,       \* history: asOf[c]: their number when c read the version
    hits,       \* history: calls answered by the response cache
    reset       \* history: the version expired or could not be read

callLocals == <<profile, step, seen, flight, left, answer>>
stores == <<version, snapshot, cached>>
money == <<wallet, quota>>
gwHistory == <<paid, unmetered, before, forgotten, bumps, asOf, hits, reset>>
gwVars == <<callLocals, stores, money, gwFaults, gwHistory>>

Executing == {"execute", "charge", "deduct", "storeCache", "storeSnapshot"}
Ended == {"answered", "failed"}
Steps == {"new", "lookup", "version", "cache", "join", "wait"} \union Executing \union Ended

GatewayTypeOK ==
    /\ profile \in [GwCalls -> Profiles]
    /\ step \in [GwCalls -> Steps]
    /\ version \in 0 .. MaxVersion
    /\ seen \in [GwCalls -> 0 .. MaxVersion]
    /\ flight \in [GwCalls -> GwCalls \union {NoCall}]
    /\ left \in [GwCalls -> BOOLEAN]
    /\ answer \in [GwCalls -> GwCalls \union {NoCall}]
    /\ snapshot \in [Users -> [IdemKeys -> GwCalls \union {NoCall}]]
    /\ cached \in [1 .. MaxVersion -> [Payloads -> GwCalls \union {NoCall}]]
    /\ wallet \in [Users -> Nat]
    /\ quota \in [Users -> Nat]
    /\ gwFaults \in Nat
    /\ {paid, unmetered, hits} \subseteq SUBSET GwCalls
    /\ before \in [GwCalls -> SUBSET GwCalls]
    /\ bumps \in Nat
    /\ asOf \in [GwCalls -> Nat]
    /\ {forgotten, reset} \subseteq BOOLEAN

GatewayInit ==
    /\ profile \in [GwCalls -> Profiles]
    /\ step = [c \in GwCalls |-> "new"]
    /\ version = 0
    /\ seen = [c \in GwCalls |-> 0]
    /\ flight = [c \in GwCalls |-> NoCall]
    /\ left = [c \in GwCalls |-> FALSE]
    /\ answer = [c \in GwCalls |-> NoCall]
    /\ snapshot = [u \in Users |-> [k \in IdemKeys |-> NoCall]]
    /\ cached = [v \in 1 .. MaxVersion |-> [p \in Payloads |-> NoCall]]
    /\ wallet = [u \in Users |-> Funds]
    /\ quota = [u \in Users |-> Quota]
    /\ gwFaults = 0
    /\ paid = {}
    /\ unmetered = {}
    /\ before = [c \in GwCalls |-> {}]
    /\ forgotten = FALSE
    /\ bumps = 0
    /\ asOf = [c \in GwCalls |-> 0]
    /\ hits = {}
    /\ reset = FALSE

GwFault == gwFaults < MaxGwFaults /\ gwFaults' = gwFaults + 1
MaybeGwFault(lost) == IF lost THEN GwFault ELSE UNCHANGED gwFaults

Move(c, s) ==
    /\ step' = [step EXCEPT ![c] = s]
    /\ UNCHANGED <<profile, seen, flight, left, answer>>

\* The call ends with the answer of call x.
AnswerWith(c, x) ==
    /\ step' = [step EXCEPT ![c] = "answered"]
    /\ answer' = [answer EXCEPT ![c] = x]
    /\ UNCHANGED <<profile, seen, flight, left>>

\* What comes after the snapshot and the response cache were of no help.
AfterLookup(c) == IF profile[c].caching THEN "version" ELSE "join"
AfterCharge(c) == IF seen[c] # 0 THEN "storeCache" ELSE "storeSnapshot"

\* The flights that c could join: same process, same payload, whoever asks.
Flights(c) ==
    {l \in GwCalls :
        /\ flight[l] = l /\ step[l] \in Executing
        /\ ~profile[l].alone
        /\ profile[l].server = profile[c].server
        /\ profile[l].payload = profile[c].payload}

-----------------------------------------------------------------------------
(* Slips: what some definitions would be with a mistake in the code.  They  *)
(* are part of no specification; each shows that a property would notice it. *)

\* The request hash of a snapshot is not compared.
LookupSnapshotBlind(c) ==
    /\ step[c] = "lookup"
    /\ LET x == snapshot[profile[c].user][profile[c].key] IN
        IF x = NoCall THEN Move(c, AfterLookup(c)) ELSE AnswerWith(c, x)
    /\ before' = [before EXCEPT ![c] = {d \in GwCalls : step[d] = "answered" /\ ~left[d]}]
    /\ UNCHANGED <<stores, money, gwFaults, paid, unmetered, forgotten, bumps, asOf, hits, reset>>

\* Only the first storage of an answer happens.
StoreCacheOnly(c) ==
    /\ step[c] = "storeCache"
    /\ cached' = [cached EXCEPT ![seen[c]][profile[c].payload] = c]
    /\ AnswerWith(c, c)
    /\ UNCHANGED <<version, snapshot, money, gwFaults, gwHistory>>

\* The answer is stored under the version of the moment.
StoreCacheLate(c) ==
    /\ step[c] = "storeCache"
    /\ cached' = IF version = 0 THEN cached
                 ELSE [cached EXCEPT ![version][profile[c].payload] = c]
    /\ Move(c, "storeSnapshot")
    /\ UNCHANGED <<version, snapshot, money, gwFaults, gwHistory>>

\* An error of the wallet is dropped, the way some other charges drop it.
ChargeLenient(c) ==
    /\ step[c] = "charge"
    /\ LET u == profile[c].user IN
        \/ /\ wallet[u] >= Cost
           /\ wallet' = [wallet EXCEPT ![u] = @ - Cost]
           /\ paid' = paid \union {c}
           /\ UNCHANGED gwFaults
        \/ /\ IF wallet[u] < Cost THEN UNCHANGED gwFaults ELSE GwFault
           /\ UNCHANGED <<wallet, paid>>
    /\ Move(c, "deduct")
    /\ UNCHANGED <<quota, stores>>
    /\ UNCHANGED <<unmetered, before, forgotten, bumps, asOf, hits, reset>>

-----------------------------------------------------------------------------
(* The way to an answer.                                                     *)

\* The checks before the call read the token's cached copy, which can be older
\* than the rows, and completions and embeddings check no balance at all: any
\* call may get past them.
Enter(c) ==
    /\ step[c] = "new"
    /\ Move(c, IF profile[c].key # NoKey THEN "lookup" ELSE AfterLookup(c))
    /\ UNCHANGED <<stores, money, gwFaults, gwHistory>>

\* loadGatewayIdempotencySnapshot: a snapshot of another request is a
\* conflict.  Redis calls carry the request's context.
LookupSnapshot(c) ==
    /\ step[c] = "lookup"
    /\ \E lost \in BOOLEAN :
        LET x == IF lost \/ left[c] THEN NoCall ELSE snapshot[profile[c].user][profile[c].key] IN
        /\ CASE x = NoCall -> Move(c, AfterLookup(c))
             [] x # NoCall /\ profile[x].payload = profile[c].payload -> AnswerWith(c, x)
             [] OTHER -> Move(c, "failed")
        /\ forgotten' = (forgotten \/ lost)
        /\ MaybeGwFault(lost)
    /\ before' = [before EXCEPT ![c] = {d \in GwCalls : step[d] = "answered" /\ ~left[d]}]
    /\ UNCHANGED <<stores, money, paid, unmetered, bumps, asOf, hits, reset>>

\* readGatewayCacheVersion: without a version the first one is set.  One that
\* cannot be read is taken for the first.
ReadVersion(c) ==
    /\ step[c] = "version"
    /\ \E lost \in BOOLEAN :
        /\ seen' = [seen EXCEPT ![c] = IF lost \/ left[c] \/ version = 0 THEN 1 ELSE version]
        /\ version' = IF version = 0 /\ ~lost /\ ~left[c] THEN 1 ELSE version
        /\ reset' = (reset \/ lost \/ left[c])
        /\ MaybeGwFault(lost)
    /\ step' = [step EXCEPT ![c] = "cache"]
    /\ asOf' = [asOf EXCEPT ![c] = bumps]
    /\ UNCHANGED <<profile, flight, left, answer, snapshot, cached, money>>
    /\ UNCHANGED <<paid, unmetered, before, forgotten, bumps, hits>>

LookupCache(c) ==
    /\ step[c] = "cache"
    /\ \E lost \in BOOLEAN :
        LET x == IF lost \/ left[c] THEN NoCall ELSE cached[seen[c]][profile[c].payload] IN
        /\ IF x = NoCall
           THEN Move(c, "join") /\ UNCHANGED hits
           ELSE AnswerWith(c, x) /\ hits' = hits \union {c}
        /\ MaybeGwFault(lost)
    /\ UNCHANGED <<stores, money, paid, unmetered, before, forgotten, bumps, asOf, reset>>

\* singleflight.Do: wait for the flight under way or start one.
Join(c) ==
    /\ step[c] = "join"
    /\ IF profile[c].alone \/ Flights(c) = {}
       THEN /\ flight' = [flight EXCEPT ![c] = c]
            /\ step' = [step EXCEPT ![c] = "execute"]
       ELSE /\ \E l \in Flights(c) : flight' = [flight EXCEPT ![c] = l]
            /\ step' = [step EXCEPT ![c] = "wait"]
    /\ UNCHANGED <<profile, seen, left, answer, stores, money, gwFaults, gwHistory>>

\* A follower gets what the flight got, an error included.
Follow(c) ==
    /\ step[c] = "wait"
    /\ LET l == flight[c] IN
        \/ step[l] = "answered" /\ AnswerWith(c, answer[l])
        \/ step[l] = "failed" /\ Move(c, "failed")
    /\ UNCHANGED <<stores, money, gwFaults, gwHistory>>

-----------------------------------------------------------------------------
(* The execution and its charge.                                             *)

\* The cascade answers or fails; without a client it fails.  An answer without
\* usage is charged nothing.
Execute(c) ==
    /\ step[c] = "execute"
    /\ \/ Move(c, "failed") /\ UNCHANGED unmetered
       \/ ~left[c] /\ Move(c, "charge") /\ UNCHANGED unmetered
       \/ ~left[c] /\ Move(c, AfterCharge(c)) /\ unmetered' = unmetered \union {c}
    /\ UNCHANGED <<stores, money, gwFaults, paid, before, forgotten, bumps, asOf, hits, reset>>

\* DeductUserBalance: an error withholds the answer.
Charge(c) ==
    /\ step[c] = "charge"
    /\ LET u == profile[c].user IN
        \/ /\ wallet[u] >= Cost
           /\ wallet' = [wallet EXCEPT ![u] = @ - Cost]
           /\ paid' = paid \union {c}
           /\ Move(c, "deduct")
           /\ UNCHANGED gwFaults
        \/ /\ IF wallet[u] < Cost THEN UNCHANGED gwFaults ELSE GwFault
           /\ Move(c, "failed")
           /\ UNCHANGED <<wallet, paid>>
    /\ UNCHANGED <<quota, stores, unmetered, before, forgotten, bumps, asOf, hits, reset>>

\* DeductQuota: an error withholds an answer the wallet has paid for.
DeductQuota(c) ==
    /\ step[c] = "deduct"
    /\ LET u == profile[c].user IN
        \/ /\ quota[u] >= Cost
           /\ quota' = [quota EXCEPT ![u] = @ - Cost]
           /\ Move(c, AfterCharge(c))
           /\ UNCHANGED gwFaults
        \/ /\ IF quota[u] < Cost THEN UNCHANGED gwFaults ELSE GwFault
           /\ Move(c, "failed")
           /\ UNCHANGED quota
    /\ UNCHANGED <<wallet, stores, gwHistory>>

\* doExecute stores the answer under the version read before the call, then
\* under the caller's key; with the caller's context, errors dropped.
StoreCache(c) ==
    /\ step[c] = "storeCache"
    /\ \E lost \in BOOLEAN :
        /\ cached' = IF lost \/ left[c] THEN cached
                     ELSE [cached EXCEPT ![seen[c]][profile[c].payload] = c]
        /\ MaybeGwFault(lost)
    /\ Move(c, "storeSnapshot")
    /\ UNCHANGED <<version, snapshot, money, gwHistory>>

StoreSnapshot(c) ==
    /\ step[c] = "storeSnapshot"
    /\ \E lost \in BOOLEAN :
        LET kept == profile[c].key # NoKey /\ ~lost /\ ~left[c] IN
        /\ snapshot' = IF kept
                       THEN [snapshot EXCEPT ![profile[c].user][profile[c].key] = c]
                       ELSE snapshot
        /\ forgotten' = (forgotten \/ lost)
        /\ MaybeGwFault(lost)
    /\ AnswerWith(c, c)
    /\ UNCHANGED <<version, cached, money, paid, unmetered, before, bumps, asOf, hits, reset>>

-----------------------------------------------------------------------------
(* Time, administrators, clients and processes.                              *)

SnapshotExpires(u, k) ==
    /\ snapshot[u][k] # NoCall
    /\ snapshot' = [snapshot EXCEPT ![u][k] = NoCall]
    /\ forgotten' = TRUE
    /\ UNCHANGED <<callLocals, version, cached, money, gwFaults>>
    /\ UNCHANGED <<paid, unmetered, before, bumps, asOf, hits, reset>>

ResponseExpires(v, p) ==
    /\ cached[v][p] # NoCall
    /\ cached' = [cached EXCEPT ![v][p] = NoCall]
    /\ UNCHANGED <<callLocals, version, snapshot, money, gwFaults, gwHistory>>

\* The version lives for 24 hours after it was set or raised.
VersionExpires ==
    /\ version # 0
    /\ version' = 0
    /\ reset' = TRUE
    /\ UNCHANGED <<callLocals, snapshot, cached, money, gwFaults>>
    /\ UNCHANGED <<paid, unmetered, before, forgotten, bumps, asOf, hits>>

\* InvalidateGatewayResponseCache: providers or routes of the model changed.
Invalidate ==
    /\ version < MaxVersion /\ bumps < MaxVersion
    /\ version' = version + 1
    /\ bumps' = bumps + 1
    /\ UNCHANGED <<callLocals, snapshot, cached, money, gwFaults>>
    /\ UNCHANGED <<paid, unmetered, before, forgotten, asOf, hits, reset>>

\* Only some steps look at the context: leaving before the next of them is
\* leaving right before it.
Leave(c) ==
    /\ step[c] \in {"lookup", "version", "cache", "execute", "storeCache", "storeSnapshot"}
    /\ ~left[c]
    /\ left' = [left EXCEPT ![c] = TRUE]
    /\ UNCHANGED <<profile, step, seen, flight, answer, stores, money, gwFaults, gwHistory>>

\* An API process dies with the calls it serves.
Crash(s) ==
    /\ GwFault
    /\ step' = [c \in GwCalls |->
                    IF profile[c].server = s /\ step[c] \notin Ended \union {"new"}
                    THEN "failed" ELSE step[c]]
    /\ UNCHANGED <<profile, seen, flight, left, answer, stores, money, gwHistory>>

-----------------------------------------------------------------------------
GwStep(c) ==
    \/ Enter(c) \/ LookupSnapshot(c) \/ ReadVersion(c) \/ LookupCache(c)
    \/ Join(c) \/ Follow(c) \/ Execute(c) \/ Charge(c) \/ DeductQuota(c)
    \/ StoreCache(c) \/ StoreSnapshot(c)

GatewayNext ==
    \/ \E c \in GwCalls : GwStep(c) \/ Leave(c)
    \/ \E u \in Users, k \in IdemKeys : SnapshotExpires(u, k)
    \/ \E v \in 1 .. MaxVersion, p \in Payloads : ResponseExpires(v, p)
    \/ VersionExpires
    \/ Invalidate
    \/ \E s \in {1, 2} : Crash(s)

GatewaySpec == GatewayInit /\ [][GatewayNext]_gwVars

-----------------------------------------------------------------------------
(* Properties.                                                               *)

\* Whatever store or flight a call is answered from, the answer was produced
\* for the same operation, model and body.
AnswersOwnRequest ==
    \A c \in GwCalls : answer[c] # NoCall =>
        profile[answer[c]].payload = profile[c].payload

\* Answers from a snapshot, the cache or another call's flight cost nothing;
\* each goes back to an execution somebody's wallet was charged for, unless its
\* upstream had reported no usage.
FreeAnswersBacked ==
    \A c \in GwCalls : answer[c] # NoCall => answer[c] \in paid \union unmetered

\* A retry under the same key is not charged when an earlier call with that key
\* and payload was charged and had answered its client, as long as no snapshot
\* expired or was lost and the retry's own client stays.  Calls that overlap are
\* both charged: the key is not reserved while the first executes.
ChargedOncePerKey ==
    \A c, d \in GwCalls :
        (/\ c \in paid /\ d \in paid /\ d \in before[c] /\ answer[d] = d
         /\ profile[c].key # NoKey
         /\ profile[c].key = profile[d].key
         /\ profile[c].user = profile[d].user
         /\ profile[c].payload = profile[d].payload)
            => forgotten \/ left[c]

\* The response cache never answers with an execution that began before an
\* invalidation the caller's lookup came after, as long as the version key
\* lives and is read.
InvalidationHolds ==
    \A c \in hits : asOf[answer[c]] = asOf[c] \/ reset
=============================================================================
