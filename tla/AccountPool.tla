---------------------------- MODULE AccountPool ----------------------------
(***************************************************************************)
(* The account pool of the resource pool service: how a generation gets    *)
(* the pool, reserves one of its accounts and gives it back, and how the   *)
(* pool is rebuilt when the accounts change (adapters/jimeng.py,           *)
(* providers/jimeng/pool.py and store.py).                                 *)
(*                                                                         *)
(* An account is used by one generation at a time: it has a lock.  The     *)
(* locks belong to the pool object, so a new pool has new ones.  A pool    *)
(* nobody refers to any more stands for the next that is built.            *)
(*                                                                         *)
(* Accounts are tried in any order, which includes the round robin of the  *)
(* code.  Whether one cools down after a failure (unhealthy_until) and     *)
(* whether it has credit enough are left open each time it is asked.       *)
(* Settings that name another database, meant for debugging, are left out. *)
(***************************************************************************)
EXTENDS Naturals, FiniteSets, FiniteSetsExt

CONSTANTS
    Threads,        \* requests to the service, each over and over again
    Nobody,
    Accounts,
    NoAccount,
    Sessions,       \* values of the unique column sessionid
    NoSession,      \* the session of an account that does not exist
    Pools,          \* pool objects
    NoPool,
    Stored,         \* the sessions of the accounts there are to begin with
    MaxClock,       \* bound: seconds, the resolution of updated_at
    MaxEdits        \* bound: statements that change an account

ASSUME PoolAssumption ==
    /\ Nobody \notin Threads
    /\ IsFiniteSet(Accounts) /\ NoAccount \notin Accounts
    /\ NoSession \notin Sessions
    /\ NoPool \notin Pools
    /\ Stored \in [Accounts -> Sessions \union {NoSession}]
    /\ \A a, b \in Accounts : Stored[a] = Stored[b] => a = b \/ Stored[a] = NoSession
    /\ MaxClock \in Nat
    /\ MaxEdits \in Nat

VARIABLES
    table,      \* table[a]: the row of account a
    clock,      \* the second of time.time()
    edits,      \* statements so far
    pool,       \* _JimengPoolManager._pool
    sig,        \* its _enabled_sig
    manager,    \* the thread that holds its _lock
    members,    \* members[p][a]: the session of a in pool p, if it is in it
    locks,      \* locks[p]: accounts whose lock is held
    doing,      \* doing[t]: what thread t is at
    mine,       \* mine[t]: the pool get_pool gave it
    noted,      \* noted[t]: the signature it has read
    todo,       \* todo[t]: accounts it has yet to look at
    account,    \* account[t]: the one it is about
    overlooked, \* history: an account changed since the signature of `pool' was
                \* read, with a second that is no later than that
    edited,     \* history: an account changed since the manager's read
    torn,       \* history: ... before the accounts of `pool' were listed
    slipped     \* history: slipped[t]: it reserved from a pool that was
                \* replaced, or after the scan for idleness had passed

poolObjects == <<members, locks>>
threadVars == <<doing, mine, noted, todo, account>>
poolHistory == <<overlooked, edited, torn, slipped>>
poolVars ==
    <<table, clock, edits, pool, sig, manager, poolObjects, threadVars, poolHistory>>

Signatures == [count : Nat, newest : Nat]
Doings ==
    {"idle", "scan", "peek", "rescan", "repeek", "reserve", "look", "acquire", "use"}
Managing == {"scan", "peek", "rescan", "repeek"}

PoolTypeOK ==
    /\ table \in [Accounts ->
            [session : Sessions \union {NoSession}, enabled : BOOLEAN, stamp : Nat]]
    /\ clock \in Nat /\ edits \in Nat
    /\ pool \in Pools \union {NoPool}
    /\ sig \in Signatures
    /\ manager \in Threads \union {Nobody}
    /\ members \in [Pools -> [Accounts -> Sessions \union {NoSession}]]
    /\ locks \in [Pools -> SUBSET Accounts]
    /\ doing \in [Threads -> Doings]
    /\ mine \in [Threads -> Pools \union {NoPool}]
    /\ noted \in [Threads -> Signatures]
    /\ todo \in [Threads -> SUBSET Accounts]
    /\ account \in [Threads -> Accounts \union {NoAccount}]
    /\ overlooked \in BOOLEAN /\ edited \in BOOLEAN /\ torn \in BOOLEAN
    /\ slipped \in [Threads -> BOOLEAN]

NoSignature == [count |-> 0, newest |-> 0]
Empty == [a \in Accounts |-> NoSession]

\* The service starts, with accounts that were changed in this very second.
PoolInit ==
    /\ table = [a \in Accounts |->
            [session |-> Stored[a], enabled |-> Stored[a] # NoSession, stamp |-> 0]]
    /\ clock = 0
    /\ edits = 0
    /\ pool = NoPool
    /\ sig = NoSignature
    /\ manager = Nobody
    /\ members = [p \in Pools |-> Empty]
    /\ locks = [p \in Pools |-> {}]
    /\ doing = [t \in Threads |-> "idle"]
    /\ mine = [t \in Threads |-> NoPool]
    /\ noted = [t \in Threads |-> NoSignature]
    /\ todo = [t \in Threads |-> {}]
    /\ account = [t \in Threads |-> NoAccount]
    /\ overlooked = FALSE
    /\ edited = FALSE
    /\ torn = FALSE
    /\ slipped = [t \in Threads |-> FALSE]

Enabled == {a \in Accounts : table[a].enabled}
Serving == [a \in Accounts |-> IF a \in Enabled THEN table[a].session ELSE NoSession]

\* enabled_signature: how many are enabled, and the latest updated_at of them.
Signature ==
    [count |-> Cardinality(Enabled),
     newest |-> IF Enabled = {} THEN 0 ELSE Max({table[a].stamp : a \in Enabled})]

In(p) == {a \in Accounts : members[p][a] # NoSession}

\* The pools that threads other than t refer to.
Others(t) == {mine[u] : u \in Threads \ {t}}

\* What is left of the pools when only those in P are referred to.
Collect(P) == members' = [p \in Pools |-> IF p \in P THEN members[p] ELSE Empty]

\* A thread that is to replace the pool, if it is idle, has passed a.
Passed(a) == \E t \in Threads : doing[t] \in Managing /\ a \notin todo[t]

Depart(t) ==
    /\ doing' = [doing EXCEPT ![t] = "idle"]
    /\ mine' = [mine EXCEPT ![t] = NoPool]
    /\ noted' = [noted EXCEPT ![t] = NoSignature]
    /\ todo' = [todo EXCEPT ![t] = {}]
    /\ account' = [account EXCEPT ![t] = NoAccount]
    /\ slipped' = [slipped EXCEPT ![t] = FALSE]

\* get_pool returns p and gives the manager's lock back.
GetPool(t, p) ==
    /\ doing' = [doing EXCEPT ![t] = "reserve"]
    /\ mine' = [mine EXCEPT ![t] = p]
    /\ noted' = [noted EXCEPT ![t] = NoSignature]
    /\ todo' = [todo EXCEPT ![t] = {}]
    /\ manager' = Nobody
    /\ UNCHANGED <<account, slipped>>

PassOver(t, a, next) ==
    /\ doing' = [doing EXCEPT ![t] = next]
    /\ todo' = [todo EXCEPT ![t] = @ \ {a}]
    /\ account' = [account EXCEPT ![t] = NoAccount]

TurnTo(t, a, next) ==
    /\ doing' = [doing EXCEPT ![t] = next]
    /\ account' = [account EXCEPT ![t] = a]
    /\ UNCHANGED todo

Lock(p, a) == locks' = [locks EXCEPT ![p] = @ \union {a}]
Unlock(p, a) == locks' = [locks EXCEPT ![p] = @ \ {a}]

-----------------------------------------------------------------------------
(* Slips: what some definitions would be with a mistake in the code.  They  *)
(* are part of no specification; each shows that a property would notice it. *)

\* A busy pool is invalidated all the same.
FindBusyAnyway(t) ==
    /\ doing[t] \in {"scan", "rescan"}
    /\ \E a \in todo[t] : a \in locks[pool]
    /\ todo' = [todo EXCEPT ![t] = {}]
    /\ UNCHANGED <<table, clock, edits, pool, sig, manager, poolObjects, doing,
                   mine, noted, account, poolHistory>>

\* The signature is remembered although the pool was kept.
FindBusySigned(t) ==
    /\ doing[t] = "scan"
    /\ \E a \in todo[t] : a \in locks[pool]
    /\ sig' = noted[t]
    /\ GetPool(t, pool)
    /\ UNCHANGED <<table, clock, edits, pool, poolObjects, overlooked, edited, torn>>

-----------------------------------------------------------------------------
(* The manager.                                                             *)

\* get_pool reads the signature under the manager's lock.  A pool that is up to
\* date is returned ...
FindCurrent(t) ==
    /\ doing[t] = "idle" /\ manager = Nobody
    /\ pool # NoPool /\ sig = Signature
    /\ doing' = [doing EXCEPT ![t] = "reserve"]
    /\ mine' = [mine EXCEPT ![t] = pool]
    /\ UNCHANGED <<table, clock, edits, pool, sig, manager, poolObjects, noted, todo,
                   account, poolHistory>>

\* ... another, or one that was built with other settings than those of the
\* request, is scanned for idleness, if there is one.
FindOutdated(t) ==
    /\ doing[t] = "idle" /\ manager = Nobody
    /\ doing' = [doing EXCEPT ![t] = "scan"]
    /\ manager' = t
    /\ noted' = [noted EXCEPT ![t] = Signature]
    /\ todo' = [todo EXCEPT ![t] = IF pool = NoPool THEN {} ELSE In(pool)]
    /\ edited' = FALSE
    /\ UNCHANGED <<table, clock, edits, pool, sig, poolObjects, mine, account, overlooked,
                   torn, slipped>>

\* POST /pool/reload, invalidate_if_idle.  Without a pool there is nothing to do.
ReloadPool(t) ==
    /\ doing[t] = "idle" /\ manager = Nobody /\ pool # NoPool
    /\ doing' = [doing EXCEPT ![t] = "rescan"]
    /\ manager' = t
    /\ todo' = [todo EXCEPT ![t] = In(pool)]
    /\ UNCHANGED <<table, clock, edits, pool, sig, poolObjects, mine, noted,
                   account, poolHistory>>

\* is_idle takes the lock of each account in turn ...
TryIdle(t) ==
    /\ doing[t] \in {"scan", "rescan"}
    /\ \E a \in todo[t] :
        /\ a \notin locks[pool]
        /\ Lock(pool, a)
        /\ TurnTo(t, a, IF doing[t] = "scan" THEN "peek" ELSE "repeek")
    /\ UNCHANGED <<table, clock, edits, pool, sig, manager, members, mine, noted,
                   poolHistory>>

\* ... and gives it back at once.
LetIdle(t) ==
    /\ doing[t] \in {"peek", "repeek"}
    /\ Unlock(pool, account[t])
    /\ PassOver(t, account[t], IF doing[t] = "peek" THEN "scan" ELSE "rescan")
    /\ UNCHANGED <<table, clock, edits, pool, sig, manager, members, mine, noted,
                   poolHistory>>

\* One that is held: the pool is kept and, by get_pool, returned.
FindBusy(t) ==
    /\ doing[t] \in {"scan", "rescan"}
    /\ \E a \in todo[t] : a \in locks[pool]
    /\ IF doing[t] = "scan" THEN GetPool(t, pool) ELSE Depart(t) /\ manager' = Nobody
    /\ UNCHANGED <<table, clock, edits, pool, sig, poolObjects, overlooked, edited,
                   torn>>

\* No account was held: the pool is dropped.
InvalidateIdle(t) ==
    /\ doing[t] = "rescan" /\ todo[t] = {}
    /\ pool' = NoPool
    /\ sig' = NoSignature
    /\ manager' = Nobody
    /\ Depart(t)
    /\ Collect(Others(t))
    /\ overlooked' = FALSE
    /\ UNCHANGED <<table, clock, edits, locks, edited, torn>>

\* ... or replaced.  _build_pool lists the accounts that are enabled now; the
\* signature is the one read before.
Build(t) ==
    /\ doing[t] = "scan" /\ todo[t] = {} /\ Enabled # {}
    /\ LET free == Pools \ (Others(t) \union {pool})
           new == CHOOSE p \in free : TRUE
       IN  /\ free # {}
           /\ pool' = new
           /\ GetPool(t, new)
           /\ members' = [p \in Pools |->
                    IF p = new THEN Serving
                    ELSE IF p \in Others(t) THEN members[p] ELSE Empty]
           /\ locks' = [locks EXCEPT ![new] = {}]
    /\ sig' = noted[t]
    /\ overlooked' = FALSE
    /\ torn' = edited
    /\ edited' = FALSE
    /\ UNCHANGED <<table, clock, edits>>

\* With none enabled it raises, and the pool stays.
BuildFails(t) ==
    /\ doing[t] = "scan" /\ todo[t] = {} /\ Enabled = {}
    /\ manager' = Nobody
    /\ Depart(t)
    /\ UNCHANGED <<table, clock, edits, pool, sig, poolObjects, overlooked, edited,
                   torn>>

-----------------------------------------------------------------------------
(* A generation.                                                            *)

\* reserve_account tries all accounts of the pool, or the preferred one.
Reserve(t) ==
    /\ doing[t] = "reserve"
    /\ doing' = [doing EXCEPT ![t] = "look"]
    /\ \E S \in {In(mine[t])} \union {{a} : a \in In(mine[t])} :
            todo' = [todo EXCEPT ![t] = S]
    /\ UNCHANGED <<table, clock, edits, pool, sig, manager, poolObjects, mine,
                   noted, account, poolHistory>>

\* An account that failed a short while ago is passed over, without its lock.
Look(t) ==
    /\ doing[t] = "look"
    /\ \E a \in todo[t] : PassOver(t, a, "look") \/ TurnTo(t, a, "acquire")
    /\ UNCHANGED <<table, clock, edits, pool, sig, manager, poolObjects, mine,
                   noted, poolHistory>>

\* acquire(blocking=False): an account in use is passed over.
AcquireAccount(t) ==
    /\ doing[t] = "acquire"
    /\ IF account[t] \in locks[mine[t]]
       THEN /\ PassOver(t, account[t], "look")
            /\ UNCHANGED <<locks, slipped>>
       ELSE /\ Lock(mine[t], account[t])
            /\ TurnTo(t, account[t], "use")
            /\ slipped' = [slipped EXCEPT ![t] = mine[t] # pool \/ Passed(account[t])]
    /\ UNCHANGED <<table, clock, edits, pool, sig, manager, members, mine, noted,
                   overlooked, edited, torn>>

\* The credit, remembered or asked for, is too little: the account is let go.
LetGo(t) ==
    /\ doing[t] = "use"
    /\ Unlock(mine[t], account[t])
    /\ PassOver(t, account[t], "look")
    /\ slipped' = [slipped EXCEPT ![t] = FALSE]
    /\ UNCHANGED <<table, clock, edits, pool, sig, manager, members, mine, noted,
                   overlooked, edited, torn>>

\* No account is left, or the pool has none with the preferred number.
Refuse(t) ==
    /\ doing[t] = "reserve" \/ (doing[t] = "look" /\ todo[t] = {})
    /\ Depart(t)
    /\ Collect(Others(t) \union {pool})
    /\ UNCHANGED <<table, clock, edits, pool, sig, manager, locks, overlooked, edited,
                   torn>>

\* The images have come, or an error did.
GiveBack(t) ==
    /\ doing[t] = "use"
    /\ Unlock(mine[t], account[t])
    /\ Depart(t)
    /\ Collect(Others(t) \union {pool})
    /\ UNCHANGED <<table, clock, edits, pool, sig, manager, overlooked, edited, torn>>

-----------------------------------------------------------------------------
(* The administrators and the clock.                                        *)

\* create_account and update_account, one statement each.  The second is read
\* off the clock before the store's lock is waited for: the row may be stamped
\* with any that has passed.  A session belongs to one account at most; a new
\* account is enabled, and disabled by a second statement if it is to be so.
Edit(a, s, e) ==
    /\ edits < MaxEdits
    /\ \A b \in Accounts \ {a} : table[b].session # s
    /\ table[a].session = NoSession => e
    /\ \E stamp \in 0 .. clock :
        /\ table' = [table EXCEPT ![a] = [session |-> s, enabled |-> e, stamp |-> stamp]]
        /\ overlooked' = (overlooked \/ (pool # NoPool /\ stamp <= sig.newest))
    /\ edits' = edits + 1
    /\ edited' = (manager # Nobody)
    /\ UNCHANGED <<clock, pool, sig, manager, poolObjects, threadVars, torn,
                   slipped>>

Tick ==
    /\ clock < MaxClock
    /\ clock' = clock + 1
    /\ UNCHANGED <<table, edits, pool, sig, manager, poolObjects, threadVars,
                   poolHistory>>

ThreadStep(t) ==
    \/ FindCurrent(t) \/ FindOutdated(t) \/ ReloadPool(t)
    \/ TryIdle(t) \/ LetIdle(t) \/ FindBusy(t)
    \/ InvalidateIdle(t) \/ Build(t) \/ BuildFails(t)
    \/ Reserve(t) \/ Look(t) \/ AcquireAccount(t) \/ LetGo(t)
    \/ Refuse(t) \/ GiveBack(t)

PoolNext ==
    \/ \E t \in Threads : ThreadStep(t)
    \/ \E a \in Accounts, s \in Sessions, e \in BOOLEAN : Edit(a, s, e)
    \/ Tick

PoolSpec == PoolInit /\ [][PoolNext]_poolVars

-----------------------------------------------------------------------------
(* Properties.                                                              *)

\* The session of an account is used by one generation at a time, although each
\* pool has locks of its own.  It takes a generation that was given a pool
\* before that was replaced, or reserved behind the back of the scan for
\* idleness, to break this.
SoleUse ==
    \A t, u \in Threads :
        (/\ t # u /\ doing[t] = "use" /\ doing[u] = "use"
         /\ members[mine[t]][account[t]] = members[mine[u]][account[u]])
            => slipped[t] \/ slipped[u]

\* When the manager takes its pool to be up to date, its accounts are those
\* enabled in the database with their sessions, unless an account was edited
\* between the signature and the list of accounts, or later with a second that
\* does not raise the signature: in the same second, or by a statement that
\* read the clock early and waited for the store's lock.
PoolIsCurrent ==
    (pool # NoPool /\ sig = Signature) =>
        members[pool] = Serving \/ overlooked \/ torn
=============================================================================
