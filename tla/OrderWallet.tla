---------------------------- MODULE OrderWallet ----------------------------
(***************************************************************************)
(* Recharge orders, the balance they credit and the Redis copy of the user *)
(* row: service/order_service.go, service/user_service.go,                 *)
(* service/billing_deduct.go, repository/order_repo.go and                 *)
(* repository/user_repo.go.                                                *)
(*                                                                         *)
(* Grain of atomicity.  A database statement is one step, and so is the    *)
(* transaction of a payment, which holds the order row FOR UPDATE.  A      *)
(* handler that reads, decides and writes with separate statements is      *)
(* several steps; `req' holds what it remembers between them.  A call to   *)
(* Redis is a step of its own and may be lost, alone or with its process:  *)
(* the code drops every error of cache.Set and cache.Delete.               *)
(***************************************************************************)
EXTENDS Integers, FiniteSets

CONSTANTS
    Users, Orders,
    Requests,       \* request slots: how many handlers run at once
    Owner,          \* Owner[o]: the user who created o
    Amount,         \* Amount[o]: what the order is worth
    FirstBalance,   \* balance of a new user
    AdminBalances,  \* balances an administrator types in, which nobody checks
    Charges,        \* amounts a finished model call costs
    Hashes, NoHash, \* password hashes, and the empty string
    NoRow,          \* no cache entry
    None,           \* "no such thing" for the fields of an idle slot
    MaxOpenings,    \* bound: openings of one order (creation, admin resets)
    MaxCharged      \* bound: total charged to one user

ASSUME OrderWalletAssumption ==
    /\ IsFiniteSet(Orders)
    /\ Owner \in [Orders -> Users]
    /\ Amount \in [Orders -> Nat \ {0}]
    /\ FirstBalance \in Nat
    /\ AdminBalances \subseteq Int
    /\ Charges \subseteq Nat \ {0}
    /\ NoHash \notin Hashes
    /\ Hashes # {}
    /\ NoRow \notin Int
    /\ None \notin Orders \union Users
    /\ MaxOpenings \in Nat \ {0}
    /\ MaxCharged \in Nat

VARIABLES
    orders,     \* orders[o]: the status column
    db,         \* db[u]: the columns of the users row that matter here
    cache,      \* cache[u]: the Redis entry; a hash never gets there
    req,        \* req[r]: the handler in slot r
    openings,   \* history: how often o became pending
    credits,    \* history: how often o's amount was added
    charged,    \* history: total deducted from u
    admin,      \* history: an administrator wrote o's status
    overwritten,\* history: a whole-row save changed u's balance
    floor,      \* history: the least balance an administrator has typed for u,
                \* if that is below zero
    suspect     \* history: a lost delete or a late fill may have left u stale

tables == <<orders, db>>
history == <<openings, credits, charged, admin, overwritten, floor, suspect>>
vars == <<tables, cache, req, history>>

Status == {"none", "pending", "paid", "failed", "refunded", "cancelled"}
Kinds == {"view", "profile", "password", "adminBalance", "adminPassword"}
Rows == [balance : Int, hash : Hashes \union {NoHash}]

(* model.User tags PasswordHash json:"-": the copy read back from Redis    *)
(* has the balance of the row that was stored and an empty hash.           *)
FromCache(b) == [balance |-> b, hash |-> NoHash]

Idle == [pc |-> "idle", order |-> None, user |-> None, kind |-> "view",
         row |-> FromCache(0)]

TypeOK ==
    /\ orders \in [Orders -> Status]
    /\ db \in [Users -> Rows]
    /\ cache \in [Users -> Int \union {NoRow}]
    /\ req \in [Requests ->
                  [pc : {"idle", "cancel", "fill", "save", "evict"},
                   order : Orders \union {None}, user : Users \union {None},
                   kind : Kinds, row : Rows]]
    /\ \A r \in Requests :
         /\ req[r].pc = "cancel" => req[r].order \in Orders
         /\ req[r].pc \in {"fill", "save", "evict"} => req[r].user \in Users
    /\ openings \in [Orders -> Nat]
    /\ credits \in [Orders -> Nat]
    /\ charged \in [Users -> Nat]
    /\ admin \in [Orders -> BOOLEAN]
    /\ overwritten \in [Users -> BOOLEAN]
    /\ floor \in [Users -> Int]
    /\ suspect \in [Users -> BOOLEAN]

Init ==
    /\ orders = [o \in Orders |-> "none"]
    /\ db \in {[u \in Users |-> [balance |-> FirstBalance, hash |-> h]] :
                 h \in Hashes}
    /\ cache = [u \in Users |-> NoRow]
    /\ req = [r \in Requests |-> Idle]
    /\ openings = [o \in Orders |-> 0]
    /\ credits = [o \in Orders |-> 0]
    /\ charged = [u \in Users |-> 0]
    /\ admin = [o \in Orders |-> FALSE]
    /\ overwritten = [u \in Users |-> FALSE]
    /\ floor = [u \in Users |-> 0]
    /\ suspect = [u \in Users |-> FALSE]

\* The handler with nothing left to do but delete the cache entry of u.
Evicting(u) == [Idle EXCEPT !.pc = "evict", !.user = u]

\* The handler that goes on once GetByID has returned `row' to it; changing
\* the password needs a stored hash to compare the old password with.
Proceed(u, k, row) ==
    IF k = "view" \/ (k = "password" /\ row.hash = NoHash)
    THEN Idle
    ELSE [Idle EXCEPT !.pc = "save", !.user = u, !.kind = k, !.row = row]

-----------------------------------------------------------------------------
(* Slips: what these actions would be with a mistake in the code.  They are *)
(* part of no specification; each shows that a property would notice it.    *)

\* A payment that accepts every order it finds, or a cancelled one as well.
PayAnyOf(states, r, o) ==
    /\ req[r] = Idle
    /\ orders[o] \in states
    /\ orders' = [orders EXCEPT ![o] = "paid"]
    /\ db' = [db EXCEPT ![Owner[o]].balance = @ + Amount[o]]
    /\ credits' = [credits EXCEPT ![o] = @ + 1]
    /\ req' = [req EXCEPT ![r] = Idle]
    /\ UNCHANGED <<cache, openings, charged, admin, overwritten, floor, suspect>>

PayAny(r, o) == credits[o] < 5 /\ PayAnyOf({"pending", "paid"}, r, o)
PayCancelled(r, o) == credits[o] < 5 /\ PayAnyOf({"pending", "cancelled"}, r, o)

\* A payment that commits the credit and not the status.
PayHalf(r, o) ==
    /\ req[r] = Idle
    /\ orders[o] = "pending"
    /\ credits[o] < 2
    /\ db' = [db EXCEPT ![Owner[o]].balance = @ + Amount[o]]
    /\ credits' = [credits EXCEPT ![o] = @ + 1]
    /\ UNCHANGED <<orders, cache, req, openings, charged, admin, overwritten, floor, suspect>>

\* A deduction of `c' from `b', which is not what the statement subtracts from.
DeductFrom(b, r, u, c) ==
    /\ req[r] = Idle
    /\ charged[u] + c <= MaxCharged
    /\ db' = [db EXCEPT ![u].balance = b - c]
    /\ charged' = [charged EXCEPT ![u] = @ + c]
    /\ req' = [req EXCEPT ![r] = Evicting(u)]
    /\ UNCHANGED <<orders, cache, openings, credits, admin, overwritten, floor, suspect>>

DeductUnguarded(r, u, c) == DeductFrom(db[u].balance, r, u, c)
DeductCached(r, u, c) ==
    LET b == IF cache[u] = NoRow THEN db[u].balance ELSE cache[u]
    IN  b >= c /\ DeductFrom(b, r, u, c)

\* A save that leaves the cache alone.
SaveQuietly(r) ==
    /\ req[r].pc = "save"
    /\ db' = [db EXCEPT ![req[r].user] = req[r].row]
    /\ req' = [req EXCEPT ![r] = Idle]
    /\ UNCHANGED <<orders, cache, history>>

-----------------------------------------------------------------------------
(* Orders *)

\* Create: the row is inserted as pending.
Create(o) ==
    /\ orders[o] = "none"
    /\ orders' = [orders EXCEPT ![o] = "pending"]
    /\ openings' = [openings EXCEPT ![o] = @ + 1]
    /\ UNCHANGED <<db, cache, req, credits, charged, admin, overwritten, floor, suspect>>

\* Cancel, first statement: read the order without a lock and look at it.
CancelRead(r, o) ==
    /\ req[r] = Idle
    /\ orders[o] = "pending"
    /\ req' = [req EXCEPT ![r] = [Idle EXCEPT !.pc = "cancel", !.order = o]]
    /\ UNCHANGED <<tables, cache, history>>

\* Cancel, second statement: UPDATE ... WHERE id = ?, with no status in it.
CancelWrite(r) ==
    /\ req[r].pc = "cancel"
    /\ orders' = [orders EXCEPT ![req[r].order] = "cancelled"]
    /\ req' = [req EXCEPT ![r] = Idle]
    /\ UNCHANGED <<db, cache, history>>

\* PayByOrderNo and HandlePaymentCallback: lock the order, credit once.
Pay(r, o) ==
    /\ req[r] = Idle
    /\ orders[o] = "pending"
    /\ orders' = [orders EXCEPT ![o] = "paid"]
    /\ db' = [db EXCEPT ![Owner[o]].balance = @ + Amount[o]]
    /\ credits' = [credits EXCEPT ![o] = @ + 1]
    /\ req' = [req EXCEPT ![r] = Evicting(Owner[o])]
    /\ UNCHANGED <<cache, openings, charged, admin, overwritten, floor, suspect>>

\* The same handlers on an order that is already paid: only the cache goes.
PayAgain(r, o) ==
    /\ req[r] = Idle
    /\ orders[o] = "paid"
    /\ req' = [req EXCEPT ![r] = Evicting(Owner[o])]
    /\ UNCHANGED <<tables, cache, history>>

\* UpdateStatus of the admin console: any status over any status.
AdminUpdateStatus(o, s) ==
    /\ orders[o] # "none"
    /\ s # orders[o]
    /\ s = "pending" => openings[o] < MaxOpenings
    /\ orders' = [orders EXCEPT ![o] = s]
    /\ openings' = [openings EXCEPT ![o] = IF s = "pending" THEN @ + 1 ELSE @]
    /\ admin' = [admin EXCEPT ![o] = TRUE]
    /\ UNCHANGED <<db, cache, req, credits, charged, overwritten, floor, suspect>>

-----------------------------------------------------------------------------
(* Balance and user row *)

\* DeductBalance: UPDATE ... WHERE balance >= amount; no row, no charge.
Deduct(r, u, c) ==
    /\ req[r] = Idle
    /\ charged[u] + c <= MaxCharged
    /\ db[u].balance >= c
    /\ db' = [db EXCEPT ![u].balance = @ - c]
    /\ charged' = [charged EXCEPT ![u] = @ + c]
    /\ req' = [req EXCEPT ![r] = Evicting(u)]
    /\ UNCHANGED <<orders, cache, openings, credits, admin, overwritten, floor, suspect>>

\* GetByID served by Redis.
GetCached(r, u, k) ==
    /\ req[r] = Idle
    /\ k # "view"
    /\ cache[u] # NoRow
    /\ req' = [req EXCEPT ![r] = Proceed(u, k, FromCache(cache[u]))]
    /\ UNCHANGED <<tables, cache, history>>

\* GetByID after a miss or a Redis error: read the row ...
GetRow(r, u, k) ==
    /\ req[r] = Idle
    /\ req' = [req EXCEPT ![r] = [Idle EXCEPT !.pc = "fill", !.user = u,
                                              !.kind = k, !.row = db[u]]]
    /\ UNCHANGED <<tables, cache, history>>

\* ... and store it, however old it is by now.
FillCache(r) ==
    /\ req[r].pc = "fill"
    /\ LET u == req[r].user IN
         /\ cache' = [cache EXCEPT ![u] = req[r].row.balance]
         /\ suspect' = [suspect EXCEPT ![u] = @ \/ req[r].row.balance # db[u].balance]
         /\ req' = [req EXCEPT ![r] = Proceed(u, req[r].kind, req[r].row)]
    /\ UNCHANGED <<tables, openings, credits, charged, admin, overwritten, floor>>

\* cache.Set failed: GetByID ignores it and the handler goes on.
FillLost(r) ==
    /\ req[r].pc = "fill"
    /\ req' = [req EXCEPT ![r] = Proceed(req[r].user, req[r].kind, req[r].row)]
    /\ UNCHANGED <<tables, cache, history>>

\* What a handler makes of the row it holds.
Edited(k, row) ==
    CASE k = "adminBalance" -> {[row EXCEPT !.balance = b] : b \in AdminBalances}
      [] k \in {"password", "adminPassword"} -> {[row EXCEPT !.hash = h] : h \in Hashes}
      [] OTHER -> {row}

\* userRepo.Update: gorm's Save writes every column of the row it is given.
SaveRow(r) ==
    /\ req[r].pc = "save"
    /\ LET u == req[r].user IN
         /\ \E row \in Edited(req[r].kind, req[r].row) :
              /\ db' = [db EXCEPT ![u] = row]
              /\ overwritten' =
                   [overwritten EXCEPT ![u] = @ \/ row.balance # db[u].balance]
              /\ floor' = [floor EXCEPT ![u] =
                   IF req[r].kind = "adminBalance" /\ row.balance < @
                   THEN row.balance ELSE @]
         /\ req' = [req EXCEPT ![r] = Evicting(u)]
    /\ UNCHANGED <<orders, cache, openings, credits, charged, admin, suspect>>

\* cache.Delete, after the database statement.
Evict(r) ==
    /\ req[r].pc = "evict"
    /\ cache' = [cache EXCEPT ![req[r].user] = NoRow]
    /\ suspect' = [suspect EXCEPT ![req[r].user] = FALSE]
    /\ req' = [req EXCEPT ![r] = Idle]
    /\ UNCHANGED <<tables, openings, credits, charged, admin, overwritten, floor>>

\* A database error, a lost cache.Delete or the death of the process ends
\* the handler where it stands.
Abandon(r) ==
    /\ req[r] # Idle
    /\ suspect' = [u \in Users |->
                     suspect[u] \/ (req[r].pc = "evict" /\ req[r].user = u)]
    /\ req' = [req EXCEPT ![r] = Idle]
    /\ UNCHANGED <<tables, cache, openings, credits, charged, admin, overwritten, floor>>

\* The entry's ten minutes are over.
Expire(u) ==
    /\ cache[u] # NoRow
    /\ cache' = [cache EXCEPT ![u] = NoRow]
    /\ suspect' = [suspect EXCEPT ![u] = FALSE]
    /\ UNCHANGED <<tables, req, openings, credits, charged, admin, overwritten, floor>>

-----------------------------------------------------------------------------
OrderStep(o) ==
    \/ Create(o)
    \/ \E s \in Status \ {"none"} : AdminUpdateStatus(o, s)
    \/ \E r \in Requests : CancelRead(r, o) \/ Pay(r, o) \/ PayAgain(r, o)

RequestStep(r) ==
    \/ \E u \in Users, c \in Charges : Deduct(r, u, c)
    \/ \E u \in Users, k \in Kinds : GetCached(r, u, k) \/ GetRow(r, u, k)
    \/ CancelWrite(r)
    \/ FillCache(r)
    \/ FillLost(r)
    \/ SaveRow(r)
    \/ Evict(r)
    \/ Abandon(r)

Next ==
    \/ \E o \in Orders : OrderStep(o)
    \/ \E r \in Requests : RequestStep(r)
    \/ \E u \in Users : Expire(u)

Spec == Init /\ [][Next]_vars

-----------------------------------------------------------------------------
(* Properties *)

\* An order's amount reaches the balance at most once for every time the
\* order became payable, whatever payments, callbacks, cancellations and
\* admin writes overlap: the status test under the row lock consumes it.
CreditOncePerOpening ==
    \A o \in Orders :
        credits[o] + (IF orders[o] = "pending" THEN 1 ELSE 0) <= openings[o]

\* Unless an administrator wrote the status, `paid' means the credit happened,
\* and a credited order is paid or was cancelled over: no order is left
\* pending, failed or refunded with its money already in the balance.
StatusTellsCredit ==
    \A o \in Orders : ~admin[o] =>
        /\ orders[o] = "paid" => credits[o] = 1
        /\ credits[o] > 0 => orders[o] \in {"paid", "cancelled"}

\* No balance goes below zero, or below the least that an administrator has
\* typed where that is negative, however deductions interleave with each other
\* and with saves that bring old copies of the row back: DeductBalance tests
\* and subtracts in one statement, and takes nothing from a negative balance.
NoOverdraft == \A u \in Users : db[u].balance >= floor[u]

\* The sum of f over the finite set S.
SumOver(f, S) ==
    LET sum[T \in SUBSET S] ==
          IF T = {} THEN 0
          ELSE LET x == CHOOSE x \in T : TRUE IN f[x] + sum[T \ {x}]
    IN  sum[S]

\* What the payments of u's orders have brought in.
OrdersOf(u) == {o \in Orders : Owner[o] = u}
CreditedTo(u) == SumOver([o \in Orders |-> credits[o] * Amount[o]], OrdersOf(u))

\* Until a whole-row save has changed it, a balance is the first balance
\* plus the paid orders minus the charges: no payment, callback, deduction
\* or cache fill loses or doubles money by itself.
LedgerExact ==
    \A u \in Users : ~overwritten[u] =>
        db[u].balance = FirstBalance + CreditedTo(u) - charged[u]

\* A cached balance that differs from the row has one of three causes: a
\* writer has yet to delete the key, its delete was lost, or a reader stored
\* a row it had read before the write.
StaleCacheHasCause ==
    \A u \in Users :
        cache[u] # NoRow /\ cache[u] # db[u].balance =>
            \/ suspect[u]
            \/ \E r \in Requests : req[r].pc = "evict" /\ req[r].user = u

\* Cancel (order_service.go:207): "only an order waiting for payment can be
\* cancelled", read as a statement about the write, for an order whose status
\* no administrator has typed.
CancelsOnlyPending ==
    [][\A r \in Requests :
         CancelWrite(r) /\ ~admin[req[r].order] => orders[req[r].order] = "pending"]_vars

\* UpdateProfile and UpdateNotifications (user_service.go:194, 241) are said
\* to update the profile and the notification settings: the balance and the
\* password stay what they are.
ProfileSaveKeepsWallet ==
    [][\A r \in Requests :
         SaveRow(r) /\ req[r].kind = "profile" => db' = db]_vars

\* The service implements the promise of Recharge: every step opens an
\* order, closes it, credits an open one and closes it, or does none of these.
Contract == INSTANCE Recharge
              WITH open <- [o \in Orders |-> orders[o] = "pending"],
                   credits <- credits, openings <- openings
Implements == Contract!Spec
=============================================================================
