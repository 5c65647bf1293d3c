------------------------------ MODULE ApiTokens ------------------------------
(***************************************************************************)
(* The API tokens of one user: creating them up to a limit, editing and    *)
(* deleting them, charging their quota, and the authentication of gateway  *)
(* calls from the cached copy of a token (service/token_service.go,        *)
(* repository/token_repo.go, GatewayAuthMiddleware in middleware/auth.go). *)
(*                                                                         *)
(* An edit reads the row, changes some fields and saves all of them; a     *)
(* charge is one guarded UPDATE; every writer then deletes the cached copy *)
(* with a command of its own.  Tokens without a quota are charged nothing  *)
(* and are left out; an expiry date acts on authentication as the status   *)
(* does.                                                                   *)
(***************************************************************************)
EXTENDS Integers, FiniteSets

CONSTANTS
    Tokens,         \* keys that can be generated
    Actors,         \* requests about the tokens, each over and over again
    NoToken,
    NoCopy,
    TokenLimit,     \* tokens a user may have
    Grants,         \* quotas a token is given, which nobody checks
    Fee,            \* what a call is charged
    MaxMishaps      \* bound: lost evictions, saves of old fields, overlapping
                    \* creations

ASSUME TokenAssumption ==
    /\ IsFiniteSet(Tokens)
    /\ NoToken \notin Tokens
    /\ TokenLimit \in Nat
    /\ Grants \subseteq Int
    /\ Fee \in Nat \ {0}
    /\ NoCopy \notin [live : BOOLEAN, active : BOOLEAN, quota : Int]
    /\ MaxMishaps \in Nat

VARIABLES
    rows,       \* rows[t]: the token's row in the database, if it is live
    entry,      \* entry[t]: the copy in Redis, made for five minutes
    place,      \* place[a]: what actor a does next
    target,     \* target[a]: the token it does that to
    copy,       \* copy[a]: the row it has read
    mishaps,
    issued,     \* history: keys that have been generated
    ledger,     \* history: ledger[t]: quota granted, less the charges since, as
                \* long as t is not raced
    grant,      \* history: grant[t]: the latest of these grants
    deleted,    \* history: tokens that were deleted
    raced,      \* history: tokens whose row a save replaced with fields older
                \* than the row
    lagging,    \* history: tokens a reader of an older row or entry was about to
                \* cache, or whose eviction was lost, since nobody was
    crowded     \* history: two creations counted the tokens before either
                \* stored its own

tokenLocals == <<place, target, copy>>
tokenHistory == <<issued, ledger, grant, deleted, raced, lagging, crowded>>
tokenVars == <<rows, entry, tokenLocals, mishaps, tokenHistory>>

Row == [live : BOOLEAN, active : BOOLEAN, quota : Int]
NoRow == [live |-> FALSE, active |-> FALSE, quota |-> 0]
TokenPlaces ==
    {"idle", "insert", "save", "delete", "deduct", "evict", "lookup", "fill", "refill"}

TokenTypeOK ==
    /\ rows \in [Tokens -> Row]
    /\ entry \in [Tokens -> Row \union {NoCopy}]
    /\ place \in [Actors -> TokenPlaces]
    /\ target \in [Actors -> Tokens \union {NoToken}]
    /\ \A a \in Actors : place[a] \notin {"idle", "insert"} => target[a] \in Tokens
    /\ copy \in [Actors -> Row \union {NoCopy}]
    /\ \A a \in Actors : place[a] \in {"save", "fill", "refill"} => copy[a] \in Row
    /\ mishaps \in Nat
    /\ ledger \in [Tokens -> Int]
    /\ grant \in [Tokens -> Int]
    /\ {issued, deleted, raced, lagging} \subseteq SUBSET Tokens
    /\ crowded \in BOOLEAN

TokenInit ==
    /\ rows = [t \in Tokens |-> NoRow]
    /\ entry = [t \in Tokens |-> NoCopy]
    /\ place = [a \in Actors |-> "idle"]
    /\ target = [a \in Actors |-> NoToken]
    /\ copy = [a \in Actors |-> NoCopy]
    /\ mishaps = 0
    /\ issued = {}
    /\ ledger = [t \in Tokens |-> 0]
    /\ grant = [t \in Tokens |-> 0]
    /\ deleted = {}
    /\ raced = {}
    /\ lagging = {}
    /\ crowded = FALSE

LiveTokens == {t \in Tokens : rows[t].live}
Usable(t) == rows[t].live /\ rows[t].active

\* Actors that hold a copy of t on its way to the cache.
Caching(t) == {a \in Actors : place[a] \in {"fill", "refill"} /\ target[a] = t}
Evicting(t) == {a \in Actors : place[a] = "evict" /\ target[a] = t}

Mishap(happens) ==
    /\ happens => mishaps < MaxMishaps
    /\ mishaps' = IF happens THEN mishaps + 1 ELSE mishaps

\* The actor goes on with token t and copy r.
Proceed(a, p, t, r) ==
    /\ place' = [place EXCEPT ![a] = p]
    /\ target' = [target EXCEPT ![a] = t]
    /\ copy' = [copy EXCEPT ![a] = r]

Quit(a) == Proceed(a, "idle", NoToken, NoCopy)
GoEvict(a) == Proceed(a, "evict", target[a], NoCopy)

\* Whoever passes touches the row, at most once a minute; UpdateLastUsed evicts
\* the cached copy of a row it finds.
Pass(a, t) == Quit(a) \/ (rows[t].live /\ Proceed(a, "evict", t, NoCopy))

\* A grant of q or a charge leaves the ledger of t at q.
Book(t, q) == ledger' = [ledger EXCEPT ![t] = IF t \in raced' THEN 0 ELSE q]

\* The latest quota granted to t is q.
Grant(t, q) == grant' = [grant EXCEPT ![t] = IF t \in raced' THEN 0 ELSE q]

\* After a write to t the copies under way are old.
Overtake(t) == lagging' = IF Caching(t) = {} THEN lagging ELSE lagging \union {t}

\* Once the entry is gone and nobody is about to store another, the past does
\* not matter.
Settled(t) == lagging' = IF Caching(t) = {} THEN lagging \ {t} ELSE lagging

-----------------------------------------------------------------------------
(* Slips: what some definitions would be with a mistake in the code.  They  *)
(* are part of no specification; each shows that a property would notice it. *)

\* One token more than the limit.
CountTokensLate(a) ==
    /\ place[a] = "idle"
    /\ Cardinality(LiveTokens) <= TokenLimit
    /\ Proceed(a, "insert", NoToken, NoCopy)
    /\ LET overlap == \E b \in Actors : place[b] = "insert" IN
        Mishap(overlap) /\ crowded' = (crowded \/ overlap)
    /\ UNCHANGED <<rows, entry, issued, ledger, grant, deleted, raced, lagging>>

\* The UPDATE has no condition: what was read is enough.
DeductAnyway(a) ==
    LET t == target[a] IN
    /\ place[a] = "deduct"
    /\ rows' = [rows EXCEPT ![t].quota = @ - Fee]
    /\ UNCHANGED raced
    /\ Book(t, ledger[t] - Fee)
    /\ GoEvict(a)
    /\ UNCHANGED <<entry, mishaps, issued, grant, deleted, lagging, crowded>>

\* A deletion leaves the cached copy where it is.
DeleteRowOnly(a) ==
    LET t == target[a] IN
    /\ place[a] = "delete"
    /\ rows' = [rows EXCEPT ![t] = NoRow]
    /\ deleted' = deleted \union ({t} \ raced)
    /\ UNCHANGED raced
    /\ Book(t, 0)
    /\ Grant(t, 0)
    /\ Overtake(t)
    /\ Quit(a)
    /\ UNCHANGED <<entry, mishaps, issued, crowded>>

-----------------------------------------------------------------------------
(* Creating, editing, deleting.                                              *)

\* Create counts the user's tokens, then inserts.
CountTokens(a) ==
    /\ place[a] = "idle"
    /\ Cardinality(LiveTokens) < TokenLimit
    /\ Proceed(a, "insert", NoToken, NoCopy)
    /\ LET overlap == \E b \in Actors : place[b] = "insert" IN
        Mishap(overlap) /\ crowded' = (crowded \/ overlap)
    /\ UNCHANGED <<rows, entry, issued, ledger, grant, deleted, raced, lagging>>

\* The key is a new one.  AdminCreate saves the new row once more when its
\* status is another one.
InsertToken(a) ==
    /\ place[a] = "insert"
    /\ issued # Tokens
    /\ \E q \in Grants :
        LET t == CHOOSE t \in Tokens : t \notin issued
            r == [live |-> TRUE, active |-> TRUE, quota |-> q]
        IN
        /\ rows' = [rows EXCEPT ![t] = r]
        /\ ledger' = [ledger EXCEPT ![t] = q]
        /\ grant' = [grant EXCEPT ![t] = q]
        /\ issued' = issued \union {t}
        /\ Quit(a) \/ Proceed(a, "save", t, r)
    /\ UNCHANGED <<entry, mishaps, deleted, raced, lagging, crowded>>

\* Update and AdminUpdate read the row, not its cached copy.
ReadForEdit(a) ==
    /\ place[a] = "idle"
    /\ \E t \in LiveTokens : Proceed(a, "save", t, rows[t])
    /\ UNCHANGED <<rows, entry, mishaps, tokenHistory>>

\* Save writes every field, the untouched ones as they were read; a row that
\* has been deleted is inserted again.
SaveToken(a) ==
    LET t == target[a] IN
    /\ place[a] = "save"
    /\ \E active \in BOOLEAN, q \in Grants \union {copy[a].quota}, granted \in BOOLEAN :
        /\ q # copy[a].quota => granted
        /\ granted => q \in Grants
        /\ rows' = [rows EXCEPT ![t] = [live |-> TRUE, active |-> active, quota |-> q]]
        /\ Mishap(rows[t] # copy[a])
        /\ raced' = IF rows[t] = copy[a] THEN raced ELSE raced \union {t}
        /\ Book(t, IF granted THEN q ELSE ledger[t])
        /\ Grant(t, IF granted THEN q ELSE grant[t])
    /\ Overtake(t)
    /\ deleted' = deleted \ raced'
    /\ GoEvict(a)
    /\ UNCHANGED <<entry, issued, crowded>>

ReadForDelete(a) ==
    /\ place[a] = "idle"
    /\ \E t \in LiveTokens : Proceed(a, "delete", t, NoCopy)
    /\ UNCHANGED <<rows, entry, mishaps, tokenHistory>>

DeleteRow(a) ==
    LET t == target[a] IN
    /\ place[a] = "delete"
    /\ rows' = [rows EXCEPT ![t] = NoRow]
    /\ deleted' = deleted \union ({t} \ raced)
    /\ UNCHANGED raced
    /\ Book(t, 0)
    /\ Grant(t, 0)
    /\ Overtake(t)
    /\ GoEvict(a)
    /\ UNCHANGED <<entry, mishaps, issued, crowded>>

-----------------------------------------------------------------------------
(* Charging.                                                                 *)

\* DeductQuota refuses by the row it has read ...
ReadForDeduct(a) ==
    /\ place[a] = "idle"
    /\ \E t \in LiveTokens : rows[t].quota >= Fee /\ Proceed(a, "deduct", t, NoCopy)
    /\ UNCHANGED <<rows, entry, mishaps, tokenHistory>>

\* ... and by the condition of its UPDATE.
Deduct(a) ==
    LET t == target[a] IN
    /\ place[a] = "deduct"
    /\ \/ /\ rows[t].live /\ rows[t].quota >= Fee
          /\ rows' = [rows EXCEPT ![t].quota = @ - Fee]
          /\ UNCHANGED raced
          /\ Book(t, ledger[t] - Fee)
          /\ GoEvict(a)
       \/ /\ ~(rows[t].live /\ rows[t].quota >= Fee)
          /\ Quit(a)
          /\ UNCHANGED <<rows, ledger, raced>>
    /\ UNCHANGED <<entry, mishaps, issued, grant, deleted, lagging, crowded>>

-----------------------------------------------------------------------------
(* The cached copy and authentication.                                       *)

\* InvalidateCache, its errors dropped; or the process died before it.
Evict(a) ==
    LET t == target[a] IN
    /\ place[a] = "evict"
    /\ \/ entry' = [entry EXCEPT ![t] = NoCopy] /\ Settled(t) /\ UNCHANGED mishaps
       \/ /\ Mishap(TRUE)
          /\ lagging' = lagging \union {t}
          /\ UNCHANGED entry
    /\ Quit(a)
    /\ UNCHANGED <<rows, issued, ledger, grant, deleted, raced, crowded>>

\* A hit is judged by its status alone, its quota and user are not looked at.
Authenticate(a) ==
    /\ place[a] = "idle"
    /\ \E t \in issued :
        CASE entry[t] = NoCopy -> Proceed(a, "lookup", t, NoCopy)
          [] entry[t] # NoCopy /\ entry[t].active -> Pass(a, t)
          [] OTHER -> Quit(a)
    /\ UNCHANGED <<rows, entry, mishaps, tokenHistory>>

\* A row, or a cached copy, that passes ValidateToken.
Valid(r) == r.active /\ r.quota > 0

\* GetByKeyWithUser asks the cache once more, then the database.
LookupKey(a) ==
    LET t == target[a] IN
    /\ place[a] = "lookup"
    /\ \/ /\ entry[t] # NoCopy
          /\ IF Valid(entry[t]) THEN Proceed(a, "refill", t, entry[t]) ELSE Quit(a)
          /\ lagging' = IF Usable(t) THEN lagging ELSE lagging \union {t}
       \/ /\ entry[t] = NoCopy
          /\ IF rows[t].live THEN Proceed(a, "fill", t, rows[t]) ELSE Quit(a)
          /\ UNCHANGED lagging
    /\ UNCHANGED <<rows, entry, mishaps, issued, ledger, grant, deleted, raced, crowded>>

\* It caches what it has found before anybody validates it; the middleware
\* caches it once more when it is valid.
Fill(a) ==
    LET t == target[a] IN
    /\ place[a] = "fill"
    /\ entry' = [entry EXCEPT ![t] = copy[a]]
    /\ IF Valid(copy[a]) THEN Proceed(a, "refill", t, copy[a]) ELSE Quit(a)
    /\ UNCHANGED <<rows, mishaps, tokenHistory>>

Refill(a) ==
    LET t == target[a] IN
    /\ place[a] = "refill"
    /\ entry' = [entry EXCEPT ![t] = copy[a]]
    /\ Pass(a, t)
    /\ UNCHANGED <<rows, mishaps, tokenHistory>>

EntryExpires(t) ==
    /\ entry[t] # NoCopy
    /\ entry' = [entry EXCEPT ![t] = NoCopy]
    /\ Settled(t)
    /\ UNCHANGED <<rows, tokenLocals, mishaps, issued, ledger, grant, deleted, raced, crowded>>

-----------------------------------------------------------------------------
ActorStep(a) ==
    \/ CountTokens(a) \/ InsertToken(a)
    \/ ReadForEdit(a) \/ SaveToken(a) \/ ReadForDelete(a) \/ DeleteRow(a)
    \/ ReadForDeduct(a) \/ Deduct(a) \/ Evict(a)
    \/ Authenticate(a) \/ LookupKey(a) \/ Fill(a) \/ Refill(a)

TokenNext ==
    \/ \E a \in Actors : ActorStep(a)
    \/ \E t \in Tokens : EntryExpires(t)

TokenSpec == TokenInit /\ [][TokenNext]_tokenVars

-----------------------------------------------------------------------------
(* Properties.                                                               *)

\* A user has no more tokens than the limit, unless two creations overlapped
\* between the count and the insertion, or an edit brought a deleted token
\* back.
LimitKept ==
    Cardinality(LiveTokens) <= TokenLimit \/ crowded \/ raced # {}

\* What is left of a token's quota is the latest grant less every charge
\* accepted since, and a deleted token stays deleted, unless an edit saved the
\* fields of an older row: deductions are made and tested in the database.
\* Charges never take it below nothing; a quota granted as a negative number is
\* charged nothing at all.
TokenLedger ==
    \A t \in Tokens : t \in raced \/
        /\ rows[t].quota = ledger[t]
        /\ ledger[t] >= 0 \/ ledger[t] = grant[t]
        /\ t \in deleted => ~rows[t].live

\* A token that was disabled or deleted passes no authentication from the cache
\* once the eviction that follows has happened, unless that was lost or a reader
\* of the token overlapped with the change: it may store what it has read for
\* another five minutes.
DisabledStaysOut ==
    \A t \in Tokens :
        (entry[t] # NoCopy /\ entry[t].active /\ ~Usable(t))
            => Evicting(t) # {} \/ t \in lagging
=============================================================================
