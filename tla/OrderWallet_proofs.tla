------------------------ MODULE OrderWallet_proofs ------------------------
(***************************************************************************)
(* What OrderWallet guarantees for every number of users, orders and       *)
(* concurrent requests.                                                    *)
(***************************************************************************)
EXTENDS OrderWallet, FiniteSetTheorems, TLAPS

USE DEF tables, history

(***************************************************************************)
(* The rows a handler can go on with.                                      *)
(***************************************************************************)
LEMMA FromCacheType ==
    ASSUME NEW b \in Int
    PROVE  FromCache(b) \in Rows
BY DEF FromCache, Rows

LEMMA IdleType ==
    /\ Idle.pc = "idle"
    /\ Idle.order = None
    /\ Idle.user = None
    /\ Idle.kind \in Kinds
    /\ Idle.row \in Rows
BY DEF Idle, FromCache, Rows, Kinds

\* One slot's record, apart from the function it is in.
SlotOK(x) ==
    /\ x \in [pc : {"idle", "cancel", "fill", "save", "evict"},
              order : Orders \union {None}, user : Users \union {None},
              kind : Kinds, row : Rows]
    /\ x.pc = "cancel" => x.order \in Orders
    /\ x.pc \in {"fill", "save", "evict"} => x.user \in Users

\* Every record a handler can leave in its slot has the type of a slot.
LEMMA Slots ==
    /\ SlotOK(Idle)
    /\ \A o \in Orders : SlotOK([Idle EXCEPT !.pc = "cancel", !.order = o])
    /\ \A u \in Users : SlotOK(Evicting(u))
    /\ \A u \in Users, k \in Kinds, row \in Rows :
         /\ SlotOK(Proceed(u, k, row))
         /\ SlotOK([Idle EXCEPT !.pc = "fill", !.user = u, !.kind = k, !.row = row])
<1>1. FromCache(0) \in Rows
  BY FromCacheType
<1>2. SlotOK(Idle)
  BY <1>1 DEF SlotOK, Idle, Kinds
<1>3. ASSUME NEW o \in Orders
      PROVE  SlotOK([Idle EXCEPT !.pc = "cancel", !.order = o])
  BY <1>1 DEF SlotOK, Idle, Kinds
<1>4. ASSUME NEW u \in Users
      PROVE  SlotOK(Evicting(u))
  BY <1>1 DEF SlotOK, Idle, Evicting, Kinds
<1>5. ASSUME NEW u \in Users, NEW k \in Kinds, NEW row \in Rows
      PROVE  /\ SlotOK(Proceed(u, k, row))
             /\ SlotOK([Idle EXCEPT !.pc = "fill", !.user = u,
                                    !.kind = k, !.row = row])
  <2>1. SlotOK([Idle EXCEPT !.pc = "fill", !.user = u, !.kind = k, !.row = row])
    BY <1>1 DEF SlotOK, Idle
  <2>2. SlotOK([Idle EXCEPT !.pc = "save", !.user = u, !.kind = k, !.row = row])
    BY <1>1 DEF SlotOK, Idle
  <2> QED
    BY <1>2, <2>1, <2>2 DEF Proceed
<1> QED
  BY <1>2, <1>3, <1>4, <1>5

LEMMA EditedType ==
    ASSUME NEW k \in Kinds, NEW row \in Rows
    PROVE  Edited(k, row) \subseteq Rows
<1>1. CASE k = "adminBalance"
  <2>1. \A b \in AdminBalances : [row EXCEPT !.balance = b] \in Rows
    BY OrderWalletAssumption DEF Rows
  <2> QED
    BY <1>1, <2>1 DEF Edited
<1>2. CASE k \in {"password", "adminPassword"}
  <2>1. \A h \in Hashes : [row EXCEPT !.hash = h] \in Rows
    BY DEF Rows
  <2> QED
    BY <1>2, <2>1 DEF Edited
<1>3. CASE k \in {"view", "profile"}
  BY <1>3 DEF Edited
<1> QED
  BY <1>1, <1>2, <1>3 DEF Kinds

(***************************************************************************)
(* Type correctness.                                                       *)
(***************************************************************************)
TablesOK ==
    /\ orders \in [Orders -> Status]
    /\ db \in [Users -> Rows]
    /\ cache \in [Users -> Int \union {NoRow}]
    /\ openings \in [Orders -> Nat]
    /\ credits \in [Orders -> Nat]
    /\ charged \in [Users -> Nat]
    /\ admin \in [Orders -> BOOLEAN]
    /\ overwritten \in [Users -> BOOLEAN]
    /\ floor \in [Users -> Int]
    /\ suspect \in [Users -> BOOLEAN]

SlotsOK == req = [r \in Requests |-> req[r]] /\ \A r \in Requests : SlotOK(req[r])

LEMMA TypeParts == TypeOK <=> TablesOK /\ SlotsOK
BY DEF TypeOK, TablesOK, SlotsOK, SlotOK

\* A step that changes one slot keeps the slots well typed.
LEMMA SlotChange ==
    ASSUME SlotsOK, NEW r \in Requests, NEW x, SlotOK(x),
           req' = [req EXCEPT ![r] = x]
    PROVE  SlotsOK'
BY DEF SlotsOK

LEMMA SlotFields ==
    ASSUME SlotsOK, NEW r \in Requests
    PROVE  /\ req[r].kind \in Kinds
           /\ req[r].row \in Rows
           /\ req[r].pc = "cancel" => req[r].order \in Orders
           /\ req[r].pc \in {"fill", "save", "evict"} => req[r].user \in Users
BY DEF SlotsOK, SlotOK

\* What the repositories and the cache hold keeps its type in every step: a
\* handler writes back only rows it read, edited or had from Redis.
THEOREM TypeInvariant == Spec => []TypeOK
<1>1. Init => TypeOK
  <2> SUFFICES ASSUME Init PROVE TypeOK
    OBVIOUS
  <2>1. TablesOK
    BY OrderWalletAssumption DEF Init, TablesOK, Status, Rows
  <2>2. SlotsOK
    BY Slots DEF Init, SlotsOK
  <2> QED
    BY <2>1, <2>2, TypeParts
<1>2. TypeOK /\ [Next]_vars => TypeOK'
  <2> SUFFICES ASSUME TablesOK, SlotsOK, [Next]_vars
               PROVE  TablesOK' /\ SlotsOK'
    BY TypeParts DEF TypeOK, TablesOK, SlotsOK, SlotOK
  <2>1. CASE \E o \in Orders : Create(o)
    BY <2>1 DEF Create, TablesOK, SlotsOK, Status
  <2>2. CASE \E o \in Orders, s \in Status \ {"none"} : AdminUpdateStatus(o, s)
    BY <2>2 DEF AdminUpdateStatus, TablesOK, SlotsOK
  <2>3. CASE \E r \in Requests, o \in Orders : CancelRead(r, o)
    <3>1. PICK r \in Requests, o \in Orders : CancelRead(r, o)
      BY <2>3
    <3>2. SlotsOK'
      BY <3>1, Slots, SlotChange DEF CancelRead
    <3> QED
      BY <3>1, <3>2 DEF CancelRead, TablesOK
  <2>4. CASE \E r \in Requests, o \in Orders : Pay(r, o)
    <3>1. PICK r \in Requests, o \in Orders : Pay(r, o)
      BY <2>4
    <3>2. Owner[o] \in Users /\ Amount[o] \in Nat
      BY OrderWalletAssumption
    <3>3. SlotsOK'
      BY <3>1, <3>2, Slots, SlotChange DEF Pay
    <3>4. db' \in [Users -> Rows]
      BY <3>1, <3>2 DEF Pay, TablesOK, Rows
    <3> QED
      BY <3>1, <3>3, <3>4 DEF Pay, TablesOK, Status
  <2>5. CASE \E r \in Requests, o \in Orders : PayAgain(r, o)
    <3>1. PICK r \in Requests, o \in Orders : PayAgain(r, o)
      BY <2>5
    <3>2. SlotsOK'
      BY <3>1, Slots, SlotChange, OrderWalletAssumption DEF PayAgain
    <3> QED
      BY <3>1, <3>2 DEF PayAgain, TablesOK
  <2>6. CASE \E r \in Requests, u \in Users, c \in Charges : Deduct(r, u, c)
    <3>1. PICK r \in Requests, u \in Users, c \in Charges : Deduct(r, u, c)
      BY <2>6
    <3>2. c \in Nat
      BY OrderWalletAssumption
    <3>3. SlotsOK'
      BY <3>1, Slots, SlotChange DEF Deduct
    <3>4. db' \in [Users -> Rows]
      BY <3>1, <3>2 DEF Deduct, TablesOK, Rows
    <3> QED
      BY <3>1, <3>2, <3>3, <3>4 DEF Deduct, TablesOK
  <2>7. CASE \E r \in Requests, u \in Users, k \in Kinds : GetCached(r, u, k)
    <3>1. PICK r \in Requests, u \in Users, k \in Kinds : GetCached(r, u, k)
      BY <2>7
    <3>2. FromCache(cache[u]) \in Rows
      BY <3>1, FromCacheType DEF GetCached, TablesOK
    <3>3. SlotsOK'
      BY <3>1, <3>2, Slots, SlotChange DEF GetCached
    <3> QED
      BY <3>1, <3>3 DEF GetCached, TablesOK
  <2>8. CASE \E r \in Requests, u \in Users, k \in Kinds : GetRow(r, u, k)
    <3>1. PICK r \in Requests, u \in Users, k \in Kinds : GetRow(r, u, k)
      BY <2>8
    <3>2. db[u] \in Rows
      BY DEF TablesOK
    <3>3. SlotsOK'
      BY <3>1, <3>2, Slots, SlotChange DEF GetRow
    <3> QED
      BY <3>1, <3>3 DEF GetRow, TablesOK
  <2>9. CASE \E r \in Requests : CancelWrite(r)
    <3>1. PICK r \in Requests : CancelWrite(r)
      BY <2>9
    <3>2. SlotsOK'
      BY <3>1, Slots, SlotChange DEF CancelWrite
    <3> QED
      BY <3>1, <3>2 DEF CancelWrite, TablesOK, Status
  <2>10. CASE \E r \in Requests : FillCache(r) \/ FillLost(r)
    <3>1. PICK r \in Requests : FillCache(r) \/ FillLost(r)
      BY <2>10
    <3>2. req[r].user \in Users /\ req[r].kind \in Kinds /\ req[r].row \in Rows
      BY <3>1, SlotFields DEF FillCache, FillLost
    <3>3. SlotsOK'
      BY <3>1, <3>2, Slots, SlotChange DEF FillCache, FillLost
    <3>4. TablesOK'
      <4>1. CASE FillCache(r)
        BY <4>1, <3>2 DEF FillCache, TablesOK, Rows
      <4>2. CASE FillLost(r)
        BY <4>2 DEF FillLost, TablesOK
      <4> QED
        BY <3>1, <4>1, <4>2
    <3> QED
      BY <3>3, <3>4
  <2>11. CASE \E r \in Requests : SaveRow(r)
    <3>1. PICK r \in Requests : SaveRow(r)
      BY <2>11
    <3>2. req[r].user \in Users /\ req[r].kind \in Kinds /\ req[r].row \in Rows
      BY <3>1, SlotFields DEF SaveRow
    <3>3. SlotsOK'
      BY <3>1, <3>2, Slots, SlotChange DEF SaveRow
    <3>4. PICK row \in Rows :
            /\ db' = [db EXCEPT ![req[r].user] = row]
            /\ overwritten' = [overwritten EXCEPT ![req[r].user] =
                                 @ \/ row.balance # db[req[r].user].balance]
            /\ floor' = [floor EXCEPT ![req[r].user] =
                           IF req[r].kind = "adminBalance" /\ row.balance < @
                           THEN row.balance ELSE @]
      BY <3>1, <3>2, EditedType DEF SaveRow
    <3>5. floor' \in [Users -> Int]
      BY <3>2, <3>4 DEF TablesOK, Rows
    <3> QED
      BY <3>1, <3>2, <3>3, <3>4, <3>5 DEF SaveRow, TablesOK
  <2>12. CASE \E r \in Requests : Evict(r)
    <3>1. PICK r \in Requests : Evict(r)
      BY <2>12
    <3>2. SlotsOK'
      BY <3>1, Slots, SlotChange DEF Evict
    <3> QED
      BY <3>1, <3>2 DEF Evict, TablesOK
  <2>13. CASE \E r \in Requests : Abandon(r)
    <3>1. PICK r \in Requests : Abandon(r)
      BY <2>13
    <3>2. SlotsOK'
      BY <3>1, Slots, SlotChange DEF Abandon
    <3> QED
      BY <3>1, <3>2 DEF Abandon, TablesOK
  <2>14. CASE \E u \in Users : Expire(u)
    BY <2>14 DEF Expire, TablesOK, SlotsOK
  <2>15. CASE UNCHANGED vars
    BY <2>15 DEF vars, TablesOK, SlotsOK
  <2> QED
    BY <2>1, <2>2, <2>3, <2>4, <2>5, <2>6, <2>7, <2>8, <2>9, <2>10, <2>11,
       <2>12, <2>13, <2>14, <2>15 DEF Next, OrderStep, RequestStep
<1> QED
  BY <1>1, <1>2, PTL DEF Spec

(***************************************************************************)
(* Money.                                                                  *)
(***************************************************************************)
\* CreditOncePerOpening is inductive on its own: a credit ends the opening
\* it is given for, and nothing but an opening makes an order pending.
THEOREM CreditsBounded == Spec => []CreditOncePerOpening
<1>1. Init => CreditOncePerOpening
  BY DEF Init, CreditOncePerOpening
<1>2. TypeOK /\ CreditOncePerOpening /\ [Next]_vars => CreditOncePerOpening'
  <2> SUFFICES ASSUME TypeOK, CreditOncePerOpening, [Next]_vars
               PROVE  CreditOncePerOpening'
    OBVIOUS
  <2> USE DEF CreditOncePerOpening, TypeOK
  <2>1. ASSUME NEW o \in Orders, Create(o)
        PROVE  CreditOncePerOpening'
    BY <2>1 DEF Create
  <2>2. ASSUME NEW o \in Orders, NEW s \in Status, AdminUpdateStatus(o, s)
        PROVE  CreditOncePerOpening'
    BY <2>2 DEF AdminUpdateStatus
  <2>3. ASSUME NEW r \in Requests, NEW o \in Orders, Pay(r, o)
        PROVE  CreditOncePerOpening'
    BY <2>3 DEF Pay
  <2>4. ASSUME NEW r \in Requests, CancelWrite(r)
        PROVE  CreditOncePerOpening'
    BY <2>4 DEF CancelWrite
  <2>5. CASE UNCHANGED <<orders, openings, credits>>
    BY <2>5
  <2> QED
    BY <2>1, <2>2, <2>3, <2>4, <2>5
    DEF Next, OrderStep, RequestStep, vars, CancelRead, PayAgain, Deduct,
        GetCached, GetRow, FillCache, FillLost, SaveRow, Evict, Abandon, Expire
<1> QED
  BY <1>1, <1>2, TypeInvariant, PTL DEF Spec

\* As long as no administrator writes the status of an order, its status
\* tells whether its money was credited, except that a cancellation may have
\* overtaken the payment.
StatusInv ==
    \A o \in Orders : ~admin[o] =>
        /\ orders[o] \in {"none", "pending"} => credits[o] = 0
        /\ orders[o] = "paid" => credits[o] = 1
        /\ orders[o] \notin {"failed", "refunded"}

THEOREM StatusReliable == Spec => []StatusTellsCredit
<1>1. Init => StatusInv
  BY DEF Init, StatusInv
<1>2. TypeOK /\ StatusInv /\ [Next]_vars => StatusInv'
  <2> SUFFICES ASSUME TypeOK, StatusInv, [Next]_vars
               PROVE  StatusInv'
    OBVIOUS
  <2> USE DEF StatusInv, TypeOK, Status
  <2>1. ASSUME NEW o \in Orders, Create(o)
        PROVE  StatusInv'
    BY <2>1 DEF Create
  <2>2. ASSUME NEW o \in Orders, NEW s \in Status, AdminUpdateStatus(o, s)
        PROVE  StatusInv'
    BY <2>2 DEF AdminUpdateStatus
  <2>3. ASSUME NEW r \in Requests, NEW o \in Orders, Pay(r, o)
        PROVE  StatusInv'
    BY <2>3 DEF Pay
  <2>4. ASSUME NEW r \in Requests, CancelWrite(r)
        PROVE  StatusInv'
    BY <2>4 DEF CancelWrite
  <2>5. CASE UNCHANGED <<orders, credits, admin>>
    BY <2>5
  <2>6. ASSUME NEW o \in Orders, OrderStep(o)
        PROVE  StatusInv'
    BY <2>1, <2>2, <2>3, <2>5, <2>6 DEF OrderStep, CancelRead, PayAgain
  <2>7. ASSUME NEW r \in Requests, RequestStep(r)
        PROVE  StatusInv'
    BY <2>4, <2>5, <2>7
    DEF RequestStep, Deduct, GetCached, GetRow, FillCache, FillLost, SaveRow, Evict, Abandon
  <2> QED
    BY <2>5, <2>6, <2>7 DEF Next, vars, Expire
<1>3. TypeOK /\ StatusInv => StatusTellsCredit
  BY DEF StatusInv, StatusTellsCredit, TypeOK, Status
<1> QED
  BY <1>1, <1>2, <1>3, TypeInvariant, PTL DEF Spec

\* No balance is below its user's floor, and neither is any copy of one that a
\* handler or Redis still holds: a whole-row save may bring any of them back.
BalanceInv ==
    /\ \A u \in Users : floor[u] <= 0 /\ db[u].balance >= floor[u]
    /\ \A u \in Users : cache[u] # NoRow => cache[u] >= floor[u]
    /\ \A r \in Requests :
         req[r].user \in Users => req[r].row.balance >= floor[req[r].user]

\* What BalanceInv says of the record x in a slot.
Covered(x) == x.user \in Users => x.row.balance >= floor[x.user]

LEMMA RowsHeld ==
    ASSUME TablesOK, NEW u \in Users, floor[u] <= 0, NEW k,
           NEW row \in Rows, row.balance >= floor[u]
    PROVE  /\ Covered(Idle)
           /\ Covered(Evicting(u))
           /\ Covered(Proceed(u, k, row))
<1>1. Idle.row.balance = 0 /\ Idle.user = None
  BY DEF Idle, FromCache
<1>2. Evicting(u).row = Idle.row /\ Evicting(u).user = u
  BY DEF Evicting, Idle
<1>3. \/ Proceed(u, k, row) = Idle
      \/ Proceed(u, k, row).row = row /\ Proceed(u, k, row).user = u
  BY DEF Proceed, Idle
<1>4. None \notin Users
  BY OrderWalletAssumption
<1> QED
  BY <1>1, <1>2, <1>3, <1>4 DEF Covered, TablesOK

\* A handler saves a balance it was given or one an administrator typed.
LEMMA EditedBalance ==
    ASSUME NEW k \in Kinds, NEW row \in Rows, NEW new \in Edited(k, row)
    PROVE  k = "adminBalance" \/ new.balance = row.balance
<1>1. CASE k \in {"password", "adminPassword"}
  <2>1. PICK h \in Hashes : new = [row EXCEPT !.hash = h]
    BY <1>1 DEF Edited
  <2> QED
    BY <2>1 DEF Rows
<1>2. CASE k \in {"view", "profile"}
  BY <1>2 DEF Edited
<1> QED
  BY <1>1, <1>2 DEF Kinds

THEOREM NeverOverdrawn == Spec => []NoOverdraft
<1>n. None \notin Users
  BY OrderWalletAssumption
<1>1. Init => BalanceInv
  BY <1>n, OrderWalletAssumption DEF Init, BalanceInv, Idle, FromCache
<1>2. TypeOK /\ BalanceInv /\ [Next]_vars => BalanceInv'
  <2> SUFFICES ASSUME TypeOK, BalanceInv, [Next]_vars
               PROVE  BalanceInv'
    OBVIOUS
  <2>t. TablesOK /\ SlotsOK
    BY TypeParts
  \* A slot changes, the floors do not.
  <2>0. ASSUME NEW r \in Requests, NEW x, Covered(x),
               req' = [req EXCEPT ![r] = x], floor' = floor
        PROVE  \A q \in Requests :
                 req'[q].user \in Users => req'[q].row.balance >= floor'[req'[q].user]
    BY <2>0 DEF BalanceInv, TypeOK, Covered
  <2>i. Covered(Idle)
    BY <1>n DEF Idle, Covered
  <2>e. \A u \in Users : Covered(Evicting(u))
    BY <2>t DEF Evicting, Idle, FromCache, Covered, BalanceInv, TablesOK
  <2>1. ASSUME NEW r \in Requests, NEW o \in Orders, Pay(r, o)
        PROVE  BalanceInv'
    <3>1. Owner[o] \in Users /\ Amount[o] \in Nat
      BY OrderWalletAssumption
    <3>2. \A q \in Requests :
            req'[q].user \in Users => req'[q].row.balance >= floor'[req'[q].user]
      BY <2>1, <2>0, <2>e, <3>1 DEF Pay
    <3>3. \A u \in Users : db'[u].balance >= floor[u]
      BY <2>1, <3>1, <2>t DEF Pay, BalanceInv, TablesOK, Rows
    <3> QED
      BY <2>1, <3>2, <3>3 DEF Pay, BalanceInv
  <2>2. ASSUME NEW r \in Requests, NEW u \in Users, NEW c \in Charges, Deduct(r, u, c)
        PROVE  BalanceInv'
    <3>1. c \in Nat
      BY OrderWalletAssumption
    <3>2. \A q \in Requests :
            req'[q].user \in Users => req'[q].row.balance >= floor'[req'[q].user]
      BY <2>2, <2>0, <2>e DEF Deduct
    <3>3. \A v \in Users : db'[v].balance >= floor[v]
      BY <2>2, <3>1, <2>t DEF Deduct, BalanceInv, TablesOK, Rows
    <3> QED
      BY <2>2, <3>2, <3>3 DEF Deduct, BalanceInv
  <2>3. ASSUME NEW r \in Requests, NEW u \in Users, NEW k \in Kinds, GetCached(r, u, k)
        PROVE  BalanceInv'
    <3>1. /\ FromCache(cache[u]) \in Rows
          /\ FromCache(cache[u]).balance >= floor[u] /\ floor[u] <= 0
      BY <2>3, <2>t, FromCacheType DEF GetCached, BalanceInv, FromCache, TablesOK
    <3>2. Covered(Proceed(u, k, FromCache(cache[u])))
      BY <2>t, <3>1, RowsHeld
    <3> QED
      BY <2>3, <2>0, <3>2 DEF GetCached, BalanceInv
  <2>4. ASSUME NEW r \in Requests, NEW u \in Users, NEW k \in Kinds, GetRow(r, u, k)
        PROVE  BalanceInv'
    <3> DEFINE x == [Idle EXCEPT !.pc = "fill", !.user = u, !.kind = k, !.row = db[u]]
    <3>1. Covered(x)
      BY DEF BalanceInv, Idle, Covered
    <3> QED
      BY <2>4, <2>0, <3>1 DEF GetRow, BalanceInv
  <2>5. ASSUME NEW r \in Requests, FillCache(r) \/ FillLost(r)
        PROVE  BalanceInv'
    <3> DEFINE u == req[r].user
    <3>1. /\ u \in Users /\ req[r].row \in Rows
          /\ req[r].row.balance >= floor[u] /\ floor[u] <= 0
      BY <2>5, <2>t, SlotFields DEF FillCache, FillLost, BalanceInv
    <3>2. Covered(Proceed(u, req[r].kind, req[r].row))
      BY <2>t, <3>1, RowsHeld
    <3>3. \A q \in Requests :
            req'[q].user \in Users => req'[q].row.balance >= floor'[req'[q].user]
      BY <2>5, <2>0, <3>2 DEF FillCache, FillLost
    <3>4. \A v \in Users : cache'[v] # NoRow => cache'[v] >= floor[v]
      BY <2>5, <2>t, <3>1 DEF FillCache, FillLost, BalanceInv, TablesOK
    <3> QED
      BY <2>5, <3>3, <3>4 DEF FillCache, FillLost, BalanceInv
  \* The floor goes down to the balance that is typed, or stays.
  <2>6. ASSUME NEW r \in Requests, SaveRow(r)
        PROVE  BalanceInv'
    <3> DEFINE u == req[r].user
    <3>1. /\ u \in Users /\ req[r].kind \in Kinds
          /\ req[r].row \in Rows /\ req[r].row.balance >= floor[u]
      BY <2>6, <2>t, SlotFields DEF SaveRow, BalanceInv
    <3>2. PICK row \in Edited(req[r].kind, req[r].row) :
            /\ db' = [db EXCEPT ![u] = row]
            /\ floor' = [floor EXCEPT ![u] =
                           IF req[r].kind = "adminBalance" /\ row.balance < @
                           THEN row.balance ELSE @]
      BY <2>6 DEF SaveRow
    <3>3. row \in Rows /\ (req[r].kind = "adminBalance" \/ row.balance = req[r].row.balance)
      BY <3>1, <3>2, EditedType, EditedBalance
    <3>4. row.balance >= floor'[u]
      BY <2>t, <3>1, <3>2, <3>3 DEF TablesOK, Rows
    <3>5. \A v \in Users : floor'[v] <= floor[v] /\ floor'[v] \in Int
      BY <2>t, <3>2, <3>3 DEF TablesOK, Rows
    <3>6. \A v \in Users : floor'[v] <= 0 /\ db'[v].balance >= floor'[v]
      BY <2>t, <3>1, <3>2, <3>4, <3>5 DEF BalanceInv, TablesOK, Rows
    <3>7. \A v \in Users : cache[v] # NoRow => cache[v] >= floor'[v]
      BY <2>t, <3>5 DEF BalanceInv, TablesOK
    <3>8. ASSUME NEW q \in Requests, req'[q].user \in Users
          PROVE  req'[q].row.balance >= floor'[req'[q].user]
      <4>1. CASE q = r
        <5>1. req'[q] = Evicting(u)
          BY <2>6, <2>t, <4>1 DEF SaveRow, SlotsOK
        <5>2. req'[q].row.balance = 0 /\ req'[q].user = u
          BY <5>1 DEF Evicting, Idle, FromCache
        <5> QED
          BY <3>1, <3>6, <5>2
      <4>2. CASE q # r
        <5>1. req'[q] = req[q]
          BY <2>6, <2>t, <4>2 DEF SaveRow, SlotsOK
        <5>2. req[q].row.balance >= floor[req[q].user] /\ req[q].row.balance \in Int
          BY <2>t, <3>8, <5>1, SlotFields DEF BalanceInv, Rows
        <5> QED
          BY <2>t, <3>5, <3>8, <5>1, <5>2 DEF TablesOK
      <4> QED
        BY <4>1, <4>2
    <3> QED
      BY <2>6, <3>6, <3>7, <3>8 DEF SaveRow, BalanceInv
  <2>7. ASSUME NEW r \in Requests, NEW o \in Orders, CancelRead(r, o) \/ PayAgain(r, o)
        PROVE  BalanceInv'
    <3>1. Covered([Idle EXCEPT !.pc = "cancel", !.order = o])
      BY <1>n DEF Idle, Covered
    <3>2. Owner[o] \in Users
      BY OrderWalletAssumption
    <3> QED
      BY <2>7, <2>0, <2>e, <3>1, <3>2 DEF CancelRead, PayAgain, BalanceInv
  <2>8. ASSUME NEW r \in Requests, CancelWrite(r) \/ Evict(r) \/ Abandon(r)
        PROVE  BalanceInv'
    <3>1. \A q \in Requests :
            req'[q].user \in Users => req'[q].row.balance >= floor'[req'[q].user]
      BY <2>8, <2>0, <2>i DEF CancelWrite, Evict, Abandon
    <3> QED
      BY <2>8, <2>t, <3>1 DEF CancelWrite, Evict, Abandon, BalanceInv, TablesOK
  <2>9. ASSUME NEW u \in Users, Expire(u)
        PROVE  BalanceInv'
    BY <2>9, <2>t DEF Expire, BalanceInv, TablesOK
  <2>10. CASE UNCHANGED <<db, cache, req, floor>>
    BY <2>10 DEF BalanceInv
  <2> QED
    BY <2>1, <2>2, <2>3, <2>4, <2>5, <2>6, <2>7, <2>8, <2>9, <2>10
    DEF Next, OrderStep, RequestStep, vars, Create, AdminUpdateStatus
<1>3. BalanceInv => NoOverdraft
  BY DEF BalanceInv, NoOverdraft
<1> QED
  BY <1>1, <1>2, <1>3, TypeInvariant, PTL DEF Spec

(***************************************************************************)
(* Sums.  The recursion of SumOver is unfolded once and for all: a function *)
(* that satisfies it exists for every finite set, by induction on the size  *)
(* of its arguments, and what changing one term does follows from it.       *)
(***************************************************************************)
\* The smallest of some natural numbers.
LEMMA Least ==
    ASSUME NEW B, B \subseteq Nat, B # {}
    PROVE  \E m \in B : \A k \in B : ~(k < m)
<1>1. PICK m \in B : \A k \in B : <<k, m>> \notin OpToRel(<, Nat)
  BY NatLessThanWellFounded, WFMin
<1>2. OpToRel(<, Nat) = {ss \in Nat \X Nat : ss[1] < ss[2]}
  BY Zenon DEF OpToRel
<1> QED
  BY <1>1, <1>2

\* The element SumOver takes from T next, and what is left.
Taken(T) == CHOOSE x \in T : TRUE
Rest(T) == T \ {Taken(T)}

LEMMA RestOf ==
    ASSUME NEW T, T # {}, IsFiniteSet(T)
    PROVE  /\ Taken(T) \in T
           /\ IsFiniteSet(Rest(T))
           /\ Cardinality(T) \in Nat
           /\ Cardinality(Rest(T)) \in Nat
           /\ Cardinality(Rest(T)) = Cardinality(T) - 1
<1>1. Taken(T) \in T
  BY Zenon DEF Taken
<1> QED
  BY <1>1, FS_RemoveElement, FS_CardinalityType DEF Rest

\* sum adds up f on every set of D.
Sums(f, sum, D) ==
    sum = [T \in D |-> IF T = {} THEN 0 ELSE f[Taken(T)] + sum[Rest(T)]]

\* The subsets of S with at most n elements.
UpTo(S, n) == {T \in SUBSET S : Cardinality(T) <= n}

LEMMA SumsExist ==
    ASSUME NEW f, NEW S, IsFiniteSet(S)
    PROVE  \E sum : Sums(f, sum, SUBSET S)
<1>s. \A T \in SUBSET S : IsFiniteSet(T) /\ Cardinality(T) \in Nat
  BY FS_Subset, FS_CardinalityType
<1>r. \A T \in SUBSET S : T # {} =>
        /\ Rest(T) \in SUBSET S
        /\ Cardinality(Rest(T)) = Cardinality(T) - 1
  BY <1>s, RestOf DEF Rest
<1> DEFINE Bad == {n \in Nat : ~ \E sum : Sums(f, sum, UpTo(S, n))}
<1>1. 0 \notin Bad
  <2> DEFINE sum == [T \in UpTo(S, 0) |-> 0]
  <2>1. \A T \in UpTo(S, 0) : T = {}
    BY <1>s, FS_EmptySet DEF UpTo
  <2>2. Sums(f, sum, UpTo(S, 0))
    BY <2>1 DEF Sums
  <2> QED
    BY <2>2
<1>2. ASSUME NEW n \in Nat, n # 0, n - 1 \notin Bad
      PROVE  n \notin Bad
  <2>1. PICK sum : Sums(f, sum, UpTo(S, n - 1))
    BY <1>2
  <2> DEFINE up == [T \in UpTo(S, n) |->
                      IF T = {} THEN 0 ELSE f[Taken(T)] + sum[Rest(T)]]
  <2>2. ASSUME NEW T \in UpTo(S, n - 1)
        PROVE  up[T] = sum[T]
    <3>1. T \in UpTo(S, n)
      BY <1>s DEF UpTo
    <3> QED
      BY <2>1, <3>1 DEF Sums
  <2>3. ASSUME NEW T \in UpTo(S, n), T # {}
        PROVE  Rest(T) \in UpTo(S, n - 1)
    BY <1>s, <1>r, <2>3 DEF UpTo
  <2>4. Sums(f, up, UpTo(S, n))
    BY <2>2, <2>3 DEF Sums
  <2> QED
    BY <2>4
<1>3. Bad = {}
  <2> SUFFICES ASSUME Bad # {} PROVE FALSE
    OBVIOUS
  <2>1. PICK m \in Bad : \A k \in Bad : ~(k < m)
    BY Least
  <2>2. m # 0 /\ m - 1 \in Nat /\ m - 1 < m
    BY <1>1
  <2> QED
    BY <1>2, <2>1, <2>2
<1>4. UpTo(S, Cardinality(S)) = SUBSET S
  BY FS_Subset DEF UpTo
<1>5. Cardinality(S) \in Nat /\ Cardinality(S) \notin Bad
  BY <1>3, FS_CardinalityType
<1>6. \E sum : Sums(f, sum, UpTo(S, Cardinality(S)))
  BY <1>5
<1> QED
  BY <1>4, <1>6

\* SumOver is the value at S of a function that adds up f on the subsets of S.
LEMMA SumIs ==
    ASSUME NEW f, NEW S, IsFiniteSet(S)
    PROVE  \E sum : Sums(f, sum, SUBSET S) /\ SumOver(f, S) = sum[S]
<1> DEFINE Law(g) == g = [T \in SUBSET S |->
                            IF T = {} THEN 0
                            ELSE f[CHOOSE x \in T : TRUE]
                                 + g[T \ {CHOOSE x \in T : TRUE}]]
<1> DEFINE sum == CHOOSE g : Law(g)
<1>1. PICK h : Sums(f, h, SUBSET S)
  BY SumsExist
<1>2. Law(h)
  BY <1>1 DEF Sums, Taken, Rest
<1>3. Law(sum)
  <2> HIDE DEF Law
  <2> QED
    BY <1>2, Zenon
<1>4. Sums(f, sum, SUBSET S)
  BY <1>3 DEF Sums, Taken, Rest
<1>5. SumOver(f, S) = sum[S]
  BY DEF SumOver
<1> QED
  BY <1>4, <1>5

\* Induction over the subsets of S, one element taken at a time.
LEMMA Peeling ==
    ASSUME NEW S, IsFiniteSet(S), NEW Bad, Bad \subseteq SUBSET S,
           \A T \in SUBSET S : (T # {} => Rest(T) \notin Bad) => T \notin Bad
    PROVE  Bad = {}
<1> SUFFICES ASSUME Bad # {} PROVE FALSE
  OBVIOUS
<1> DEFINE Sizes == {Cardinality(T) : T \in Bad}
<1>1. \A T \in Bad : IsFiniteSet(T) /\ Cardinality(T) \in Nat
  BY FS_Subset, FS_CardinalityType
<1>2. PICK m \in Sizes : \A k \in Sizes : ~(k < m)
  <2>1. Sizes \subseteq Nat /\ Sizes # {}
    BY <1>1
  <2> HIDE DEF Sizes
  <2> QED
    BY <2>1, Least
<1>3. PICK T \in Bad : Cardinality(T) = m
  BY <1>2
<1>4. T # {} /\ Rest(T) \in Bad
  BY <1>3
<1>5. Cardinality(Rest(T)) < m
  BY <1>1, <1>3, <1>4, RestOf
<1> QED
  BY <1>2, <1>4, <1>5

\* A sum of integers, and the sum after one of its terms grew by d.
LEMMA SumGrows ==
    ASSUME NEW S, IsFiniteSet(S), NEW f, NEW g, NEW x, NEW d \in Int,
           \A y \in S : f[y] \in Int,
           \A y \in S : g[y] = IF y = x THEN f[y] + d ELSE f[y]
    PROVE  /\ SumOver(f, S) \in Int
           /\ SumOver(g, S) = IF x \in S THEN SumOver(f, S) + d ELSE SumOver(f, S)
<1>1. PICK sf : Sums(f, sf, SUBSET S) /\ SumOver(f, S) = sf[S]
  BY SumIs
<1>2. PICK sg : Sums(g, sg, SUBSET S) /\ SumOver(g, S) = sg[S]
  BY SumIs
<1> DEFINE Good(T) == /\ sf[T] \in Int
                      /\ sg[T] = IF x \in T THEN sf[T] + d ELSE sf[T]
<1> DEFINE Bad == {T \in SUBSET S : ~Good(T)}
<1>b. Bad \subseteq SUBSET S
  OBVIOUS
<1>3. ASSUME NEW T \in SUBSET S, T # {} => Rest(T) \notin Bad
      PROVE  T \notin Bad
  <2>1. CASE T = {}
    BY <1>1, <1>2, <2>1 DEF Sums
  <2>2. CASE T # {}
    <3>1. Taken(T) \in T /\ Rest(T) \in SUBSET S
      BY <2>2, FS_Subset, RestOf DEF Rest
    <3>2. Good(Rest(T))
      BY <1>3, <2>2, <3>1
    <3>3. /\ sf[T] = f[Taken(T)] + sf[Rest(T)]
          /\ sg[T] = g[Taken(T)] + sg[Rest(T)]
      BY <1>1, <1>2, <2>2 DEF Sums
    <3>4. x \in T <=> x = Taken(T) \/ x \in Rest(T)
      BY <3>1 DEF Rest
    <3>5. Taken(T) \notin Rest(T)
      BY DEF Rest
    <3>6. Taken(T) \in S
      BY <3>1
    <3> HIDE DEF Bad
    <3> QED
      BY <3>2, <3>3, <3>4, <3>5, <3>6 DEF Bad
  <2> QED
    BY <2>1, <2>2
<1>4. Bad = {}
  <2> HIDE DEF Bad
  <2> QED
    BY <1>3, <1>b, Peeling
<1> QED
  BY <1>1, <1>2, <1>4

\* A sum of zeros.
LEMMA SumZero ==
    ASSUME NEW S, IsFiniteSet(S), NEW f, \A y \in S : f[y] = 0
    PROVE  SumOver(f, S) = 0
<1>1. PICK sf : Sums(f, sf, SUBSET S) /\ SumOver(f, S) = sf[S]
  BY SumIs
<1> DEFINE Bad == {T \in SUBSET S : sf[T] # 0}
<1>2. ASSUME NEW T \in SUBSET S, T # {} => Rest(T) \notin Bad
      PROVE  T \notin Bad
  <2>1. CASE T = {}
    BY <1>1, <2>1 DEF Sums
  <2>2. CASE T # {}
    <3>1. Taken(T) \in T /\ Rest(T) \in SUBSET S
      BY <2>2, FS_Subset, RestOf DEF Rest
    <3>2. sf[Rest(T)] = 0 /\ f[Taken(T)] = 0
      BY <1>2, <2>2, <3>1
    <3>3. sf[T] = f[Taken(T)] + sf[Rest(T)]
      BY <1>1, <2>2 DEF Sums
    <3> QED
      BY <3>2, <3>3
  <2> QED
    BY <2>1, <2>2
<1>3. Bad = {}
  <2>1. Bad \subseteq SUBSET S
    OBVIOUS
  <2> HIDE DEF Bad
  <2> QED
    BY <1>2, <2>1, Peeling
<1> QED
  BY <1>1, <1>3

(***************************************************************************)
(* The ledger.                                                             *)
(***************************************************************************)
\* LedgerExact is inductive on its own: a payment adds the amount to the
\* balance and to the credits of the same user, a deduction subtracts what it
\* charges, and every other writer of the row counts as an overwrite.
THEOREM LedgerAddsUp == Spec => []LedgerExact
<1> DEFINE Terms == [o \in Orders |-> credits[o] * Amount[o]]
<1>f. ASSUME NEW u \in Users
      PROVE  IsFiniteSet(OrdersOf(u)) /\ OrdersOf(u) \subseteq Orders
  BY OrderWalletAssumption, FS_Subset DEF OrdersOf
<1>1. ASSUME Init PROVE LedgerExact
  <2>1. \A o \in Orders : Terms[o] = 0
    BY <1>1, OrderWalletAssumption DEF Init
  <2>2. ASSUME NEW u \in Users
        PROVE  CreditedTo(u) = 0
    <3> HIDE DEF Terms
    <3>1. SumOver(Terms, OrdersOf(u)) = 0
      BY <1>f, <2>1, SumZero
    <3> QED
      BY <3>1 DEF CreditedTo, Terms
  <2> QED
    BY <1>1, <2>2, OrderWalletAssumption DEF Init, LedgerExact
<1>2. ASSUME TypeOK, LedgerExact, [Next]_vars
      PROVE  LedgerExact'
  <2>t. TablesOK /\ SlotsOK
    BY <1>2, TypeParts
  <2>a. \A o \in Orders : Amount[o] \in Nat /\ Owner[o] \in Users
    BY OrderWalletAssumption
  <2>i. \A o \in Orders : Terms[o] \in Int
    BY <2>t, <2>a DEF TablesOK
  \* What the step did to the terms of the sums.
  <2>g. ASSUME NEW x, NEW d \in Int, NEW v \in Users,
               \A o \in Orders : Terms'[o] = IF o = x THEN Terms[o] + d ELSE Terms[o]
        PROVE  /\ CreditedTo(v) \in Int
               /\ CreditedTo(v)' = IF x \in OrdersOf(v) THEN CreditedTo(v) + d
                                   ELSE CreditedTo(v)
    <3> DEFINE before == Terms
               after == Terms'
    <3>1. \A o \in OrdersOf(v) :
            /\ before[o] \in Int
            /\ after[o] = IF o = x THEN before[o] + d ELSE before[o]
      BY <1>f, <2>g, <2>i
    <3>2. /\ CreditedTo(v) = SumOver(before, OrdersOf(v))
          /\ CreditedTo(v)' = SumOver(after, OrdersOf(v))
      BY DEF CreditedTo, OrdersOf
    <3> HIDE DEF before, after, Terms
    <3> QED
      BY <1>f, <3>1, <3>2, SumGrows
  <2>c. ASSUME credits' = credits, NEW v \in Users
        PROVE  CreditedTo(v) \in Int /\ CreditedTo(v)' = CreditedTo(v)
    <3>1. \A o \in Orders : Terms'[o] = IF o = None THEN Terms[o] + 0 ELSE Terms[o]
      BY <2>c, <2>i
    <3> HIDE DEF Terms
    <3>2. /\ CreditedTo(v) \in Int
          /\ CreditedTo(v)' = IF None \in OrdersOf(v) THEN CreditedTo(v) + 0
                              ELSE CreditedTo(v)
      <4>1. 0 \in Int
        OBVIOUS
      <4> QED
        BY <2>g, <2>c, <3>1, <4>1, Zenon
    <3> QED
      BY <3>2
  <2>1. ASSUME NEW r \in Requests, NEW o \in Orders, Pay(r, o)
        PROVE  LedgerExact'
    <3>1. \A p \in Orders : Terms'[p] = IF p = o THEN Terms[p] + Amount[o] ELSE Terms[p]
      <4>1. \A p \in Orders : credits'[p] = IF p = o THEN credits[p] + 1 ELSE credits[p]
        BY <2>1, <2>t DEF Pay, TablesOK
      <4>2. \A n \in Nat, a \in Nat : (n + 1) * a = n * a + a
        OBVIOUS
      <4> QED
        BY <4>1, <4>2, <2>t, <2>a DEF TablesOK
    <3>2. ASSUME NEW v \in Users
          PROVE  /\ CreditedTo(v) \in Int
                 /\ CreditedTo(v)' = IF v = Owner[o] THEN CreditedTo(v) + Amount[o]
                                     ELSE CreditedTo(v)
      <4> HIDE DEF Terms
      <4>1. Amount[o] \in Int
        BY <2>a
      <4>2. o \in OrdersOf(v) <=> v = Owner[o]
        BY DEF OrdersOf
      <4> QED
        BY <2>g, <3>1, <4>1, <4>2
    <3>3. ASSUME NEW v \in Users
          PROVE  /\ db'[v].balance = IF v = Owner[o] THEN db[v].balance + Amount[o]
                                     ELSE db[v].balance
                 /\ db[v].balance \in Int /\ charged[v] \in Int
                 /\ charged'[v] = charged[v] /\ overwritten'[v] = overwritten[v]
      BY <2>1, <2>t, <2>a DEF Pay, TablesOK, Rows
    <3> QED
      BY <1>2, <2>a, <3>2, <3>3, OrderWalletAssumption DEF LedgerExact
  <2>2. ASSUME NEW r \in Requests, NEW u \in Users, NEW c \in Charges, Deduct(r, u, c)
        PROVE  LedgerExact'
    <3>1. c \in Int
      BY OrderWalletAssumption
    <3>2. ASSUME NEW v \in Users
          PROVE  /\ db'[v].balance = IF v = u THEN db[v].balance - c ELSE db[v].balance
                 /\ charged'[v] = IF v = u THEN charged[v] + c ELSE charged[v]
                 /\ db[v].balance \in Int /\ charged[v] \in Int
                 /\ overwritten'[v] = overwritten[v]
      BY <2>2, <2>t, <3>1 DEF Deduct, TablesOK, Rows
    <3>3. credits' = credits
      BY <2>2 DEF Deduct
    <3> QED
      BY <1>2, <2>c, <3>1, <3>2, <3>3, OrderWalletAssumption DEF LedgerExact
  <2>3. ASSUME NEW r \in Requests, SaveRow(r)
        PROVE  LedgerExact'
    <3>1. ASSUME NEW v \in Users
          PROVE  /\ charged'[v] = charged[v]
                 /\ overwritten[v] => overwritten'[v]
                 /\ ~overwritten'[v] => db'[v].balance = db[v].balance
      <4>1. PICK row : /\ db' = [db EXCEPT ![req[r].user] = row]
                       /\ overwritten' = [overwritten EXCEPT ![req[r].user] =
                                            @ \/ row.balance # db[req[r].user].balance]
        BY <2>3 DEF SaveRow
      <4>2. charged' = charged
        BY <2>3 DEF SaveRow
      <4> QED
        BY <2>t, <4>1, <4>2 DEF TablesOK
    <3>2. credits' = credits
      BY <2>3 DEF SaveRow
    <3> QED
      BY <1>2, <2>c, <3>1, <3>2 DEF LedgerExact
  <2>4. CASE UNCHANGED <<db, credits, charged, overwritten>>
    BY <1>2, <2>c, <2>4 DEF LedgerExact
  <2> QED
    BY <1>2, <2>1, <2>2, <2>3, <2>4
    DEF Next, OrderStep, RequestStep, vars, Create, AdminUpdateStatus, CancelRead,
        CancelWrite, PayAgain, GetCached, GetRow, FillCache, FillLost, Evict,
        Abandon, Expire
<1> QED
  BY <1>1, <1>2, TypeInvariant, PTL DEF Spec

(***************************************************************************)
(* Redis.                                                                  *)
(***************************************************************************)
\* A slot that is about to delete the cache entry of u.
Evicts(r, u) == req[r].pc = "evict" /\ req[r].user = u

\* Every balance change is followed by a delete of the key; an entry that
\* differs from the row is waiting for it, or lost it, or was filled late.
THEOREM StaleCacheExplained == Spec => []StaleCacheHasCause
<1>1. Init => StaleCacheHasCause
  BY DEF Init, StaleCacheHasCause
<1>2. TypeOK /\ StaleCacheHasCause /\ [Next]_vars => StaleCacheHasCause'
  <2> SUFFICES ASSUME TypeOK, StaleCacheHasCause, [Next]_vars,
                      NEW u \in Users, cache'[u] # NoRow, cache'[u] # db'[u].balance
               PROVE  suspect'[u] \/ \E r \in Requests : Evicts(r, u)'
    BY DEF StaleCacheHasCause, Evicts
  <2> USE DEF Evicts
  <2>t. TablesOK /\ SlotsOK
    BY TypeParts
  <2>a. ASSUME cache'[u] = cache[u], db'[u].balance = db[u].balance
        PROVE  suspect[u] \/ \E r \in Requests : Evicts(r, u)
    BY <2>a DEF StaleCacheHasCause
  <2>e. \A v : Evicting(v).pc = "evict" /\ Evicting(v).user = v
    BY DEF Evicting, Idle
  <2>i. Idle.pc = "idle"
    BY DEF Idle
  <2>1. ASSUME NEW r \in Requests, NEW v \in Users, req' = [req EXCEPT ![r] = Evicting(v)],
               req[r] = Idle \/ req[r].pc = "save",
               cache' = cache, suspect' = suspect,
               \A w \in Users \ {v} : db'[w] = db[w]
        PROVE  suspect'[u] \/ \E q \in Requests : Evicts(q, u)'
    <3>1. CASE u = v
      BY <2>1, <3>1, <2>e, <2>t DEF SlotsOK
    <3>2. CASE u # v
      <4>1. suspect[u] \/ \E q \in Requests : Evicts(q, u)
        BY <2>1, <2>a, <3>2
      <4> QED
        BY <4>1, <2>1, <2>i, <2>t DEF SlotsOK
    <3> QED
      BY <3>1, <3>2
  <2>2. ASSUME NEW r \in Requests, NEW o \in Orders, Pay(r, o)
        PROVE  suspect'[u] \/ \E q \in Requests : Evicts(q, u)'
    <3>1. Owner[o] \in Users
      BY OrderWalletAssumption
    <3>2. \A w \in Users \ {Owner[o]} : db'[w] = db[w]
      BY <2>2, <2>t, <3>1 DEF Pay, TablesOK
    <3> QED
      BY <2>1, <2>2, <3>1, <3>2 DEF Pay
  <2>3. ASSUME NEW r \in Requests, NEW o \in Orders, PayAgain(r, o)
        PROVE  suspect'[u] \/ \E q \in Requests : Evicts(q, u)'
    BY <2>1, <2>3, OrderWalletAssumption DEF PayAgain
  <2>4. ASSUME NEW r \in Requests, NEW v \in Users, NEW c \in Charges, Deduct(r, v, c)
        PROVE  suspect'[u] \/ \E q \in Requests : Evicts(q, u)'
    <3>1. \A w \in Users \ {v} : db'[w] = db[w]
      BY <2>4, <2>t DEF Deduct, TablesOK
    <3> QED
      BY <2>1, <2>4, <3>1 DEF Deduct
  <2>5. ASSUME NEW r \in Requests, SaveRow(r)
        PROVE  suspect'[u] \/ \E q \in Requests : Evicts(q, u)'
    <3>1. req[r].user \in Users
      BY <2>5, <2>t, SlotFields DEF SaveRow
    <3>2. \A w \in Users \ {req[r].user} : db'[w] = db[w]
      BY <2>5, <2>t, <3>1 DEF SaveRow, TablesOK
    <3> QED
      BY <2>1, <2>5, <3>1, <3>2 DEF SaveRow
  <2>6. ASSUME NEW r \in Requests, FillCache(r)
        PROVE  suspect'[u] \/ \E q \in Requests : Evicts(q, u)'
    <3>1. req[r].user \in Users
      BY <2>6, <2>t, SlotFields DEF FillCache
    <3>2. CASE req[r].user = u
      BY <2>6, <2>t, <3>1, <3>2 DEF FillCache, TablesOK
    <3>3. CASE req[r].user # u
      <4>1. cache'[u] = cache[u] /\ db' = db /\ suspect'[u] = suspect[u]
        BY <2>6, <2>t, <3>1, <3>3 DEF FillCache, TablesOK
      <4>2. suspect[u] \/ \E q \in Requests : Evicts(q, u)
        BY <4>1, <2>a
      <4> QED
        BY <2>6, <2>t, <4>1, <4>2 DEF FillCache, SlotsOK
    <3> QED
      BY <3>2, <3>3
  <2>7. ASSUME NEW r \in Requests, Evict(r)
        PROVE  suspect'[u] \/ \E q \in Requests : Evicts(q, u)'
    <3>1. req[r].user \in Users
      BY <2>7, <2>t, SlotFields DEF Evict
    <3>2. req[r].user # u
      BY <2>7, <2>t, <3>1 DEF Evict, TablesOK
    <3>3. cache'[u] = cache[u] /\ db' = db /\ suspect'[u] = suspect[u]
      BY <2>7, <2>t, <3>1, <3>2 DEF Evict, TablesOK
    <3>4. suspect[u] \/ \E q \in Requests : Evicts(q, u)
      BY <3>3, <2>a
    <3> QED
      BY <2>7, <2>t, <3>2, <3>3, <3>4 DEF Evict, SlotsOK
  <2>8. ASSUME NEW r \in Requests, Abandon(r)
        PROVE  suspect'[u] \/ \E q \in Requests : Evicts(q, u)'
    <3>1. suspect[u] \/ \E q \in Requests : Evicts(q, u)
      BY <2>8, <2>a DEF Abandon
    <3> QED
      BY <2>8, <2>t, <3>1 DEF Abandon, SlotsOK
  <2>9. ASSUME NEW v \in Users, Expire(v)
        PROVE  suspect'[u] \/ \E q \in Requests : Evicts(q, u)'
    <3>1. cache'[u] = cache[u] /\ db' = db /\ req' = req /\ suspect'[u] = suspect[u]
      BY <2>9, <2>t DEF Expire, TablesOK
    <3> QED
      BY <3>1, <2>a
  <2>10. ASSUME NEW r \in Requests, req[r].pc # "evict", cache' = cache, db' = db,
                suspect' = suspect, NEW x, req' = [req EXCEPT ![r] = x]
         PROVE  suspect'[u] \/ \E q \in Requests : Evicts(q, u)'
    BY <2>10, <2>a, <2>t DEF SlotsOK
  <2>11. ASSUME NEW r \in Requests, FillLost(r) \/ CancelWrite(r)
         PROVE  suspect'[u] \/ \E q \in Requests : Evicts(q, u)'
    <3>1. CASE FillLost(r)
      BY <3>1, <2>10 DEF FillLost
    <3>2. CASE CancelWrite(r)
      BY <3>2, <2>10 DEF CancelWrite
    <3> QED
      BY <2>11, <3>1, <3>2
  <2>12. ASSUME NEW r \in Requests, NEW o \in Orders, CancelRead(r, o)
         PROVE  suspect'[u] \/ \E q \in Requests : Evicts(q, u)'
    BY <2>12, <2>10, <2>i DEF CancelRead
  <2>13. ASSUME NEW r \in Requests, NEW v \in Users, NEW k \in Kinds,
                GetCached(r, v, k) \/ GetRow(r, v, k)
         PROVE  suspect'[u] \/ \E q \in Requests : Evicts(q, u)'
    <3>1. CASE GetCached(r, v, k)
      BY <3>1, <2>10, <2>i DEF GetCached
    <3>2. CASE GetRow(r, v, k)
      BY <3>2, <2>10, <2>i DEF GetRow
    <3> QED
      BY <2>13, <3>1, <3>2
  <2>14. CASE UNCHANGED <<db, cache, req, suspect>>
    BY <2>14, <2>a
  <2> QED
    BY <2>2, <2>3, <2>4, <2>5, <2>6, <2>7, <2>8, <2>9, <2>11, <2>12, <2>13, <2>14
    DEF Next, OrderStep, RequestStep, vars, Create, AdminUpdateStatus
<1> QED
  BY <1>1, <1>2, TypeInvariant, PTL DEF Spec

(***************************************************************************)
(* Refinement.                                                             *)
(***************************************************************************)
\* The service implements Recharge, whatever users, cache and balances do.
THEOREM ImplementsRecharge == Spec => Implements
<1> DEFINE open == [o \in Orders |-> orders[o] = "pending"]
<1>1. Init => Contract!Init
  BY DEF Init, Contract!Init
<1>2. TypeOK /\ [Next]_vars => [Contract!Next]_Contract!vars
  <2> SUFFICES ASSUME TypeOK, [Next]_vars
               PROVE  Contract!Next \/ UNCHANGED Contract!vars
    OBVIOUS
  <2> USE DEF TypeOK
  <2>1. ASSUME NEW o \in Orders, Create(o)
        PROVE  Contract!Open(o)
    BY <2>1 DEF Create, Contract!Open
  <2>2. ASSUME NEW o \in Orders, NEW s \in Status, AdminUpdateStatus(o, s)
        PROVE  Contract!Open(o) \/ Contract!Close(o) \/ UNCHANGED Contract!vars
    <3>1. CASE s = "pending"
      BY <2>2, <3>1 DEF AdminUpdateStatus, Contract!Open
    <3>2. CASE s # "pending" /\ orders[o] = "pending"
      BY <2>2, <3>2 DEF AdminUpdateStatus, Contract!Close
    <3>3. CASE s # "pending" /\ orders[o] # "pending"
      <4>1. open' = open
        BY <2>2, <3>3 DEF AdminUpdateStatus
      <4> QED
        BY <4>1, <2>2, <3>3 DEF AdminUpdateStatus, Contract!vars
    <3> QED
      BY <3>1, <3>2, <3>3
  <2>3. ASSUME NEW r \in Requests, NEW o \in Orders, Pay(r, o)
        PROVE  Contract!Credit(o)
    BY <2>3 DEF Pay, Contract!Credit
  <2>4. ASSUME NEW r \in Requests, CancelWrite(r)
        PROVE  (\E o \in Orders : Contract!Close(o)) \/ UNCHANGED Contract!vars
    <3> DEFINE o == req[r].order
    <3>0. o \in Orders
      BY <2>4 DEF CancelWrite
    <3>1. CASE orders[o] = "pending"
      BY <2>4, <3>0, <3>1 DEF CancelWrite, Contract!Close
    <3>2. CASE orders[o] # "pending"
      <4>1. open' = open
        BY <2>4, <3>0, <3>2 DEF CancelWrite
      <4> QED
        BY <4>1, <2>4 DEF CancelWrite, Contract!vars
    <3> QED
      BY <3>0, <3>1, <3>2
  <2>5. CASE UNCHANGED <<orders, openings, credits>>
    BY <2>5 DEF Contract!vars
  <2> QED
    BY <2>1, <2>2, <2>3, <2>4, <2>5
    DEF Next, OrderStep, RequestStep, vars, CancelRead, PayAgain, Deduct,
        GetCached, GetRow, FillCache, FillLost, SaveRow, Evict, Abandon, Expire,
        Contract!Next
<1> QED
  BY <1>1, <1>2, TypeInvariant, PTL DEF Spec, Implements, Contract!Spec
===========================================================================
