-------------------------- MODULE ApiTokens_proofs --------------------------
(***************************************************************************)
(* What ApiTokens guarantees for any number of actors, any finite set of   *)
(* keys, any limit, quotas and fee.                                        *)
(***************************************************************************)
EXTENDS ApiTokens, FiniteSetTheorems, TLAPS

USE DEF tokenLocals, tokenHistory

LocalsOK ==
    /\ place \in [Actors -> TokenPlaces]
    /\ target \in [Actors -> Tokens \union {NoToken}]
    /\ \A a \in Actors : place[a] \notin {"idle", "insert"} => target[a] \in Tokens
    /\ copy \in [Actors -> Row \union {NoCopy}]
    /\ \A a \in Actors : place[a] \in {"save", "fill", "refill"} => copy[a] \in Row

StoreOK ==
    /\ rows \in [Tokens -> Row]
    /\ entry \in [Tokens -> Row \union {NoCopy}]
    /\ mishaps \in Nat
    /\ ledger \in [Tokens -> Int]
    /\ grant \in [Tokens -> Int]
    /\ {issued, deleted, raced, lagging} \subseteq SUBSET Tokens
    /\ crowded \in BOOLEAN

LEMMA Parts == TokenTypeOK <=> LocalsOK /\ StoreOK
BY DEF TokenTypeOK, LocalsOK, StoreOK

LEMMA Constants ==
    /\ NoCopy \notin Row
    /\ NoRow \in Row /\ ~NoRow.live
    /\ \A q \in Grants : q \in Int
BY TokenAssumption DEF Row, NoRow

LEMMA ProceedType ==
    ASSUME LocalsOK, NEW a \in Actors, NEW p \in TokenPlaces,
           NEW t \in Tokens \union {NoToken}, p \notin {"idle", "insert"} => t \in Tokens,
           NEW r \in Row \union {NoCopy}, p \in {"save", "fill", "refill"} => r \in Row,
           Proceed(a, p, t, r)
    PROVE  LocalsOK'
<1>1. place' \in [Actors -> TokenPlaces] /\ target' \in [Actors -> Tokens \union {NoToken}]
  BY DEF LocalsOK, Proceed
<1>2. copy' \in [Actors -> Row \union {NoCopy}]
  BY DEF LocalsOK, Proceed
<1>3. ASSUME NEW b \in Actors
      PROVE  /\ place'[b] \notin {"idle", "insert"} => target'[b] \in Tokens
             /\ place'[b] \in {"save", "fill", "refill"} => copy'[b] \in Row
  BY DEF LocalsOK, Proceed
<1> QED
  BY <1>1, <1>2, <1>3 DEF LocalsOK

LEMMA QuitType ==
    ASSUME LocalsOK, NEW a \in Actors, Quit(a)
    PROVE  LocalsOK'
BY ProceedType DEF Quit, TokenPlaces

LEMMA GoEvictType ==
    ASSUME LocalsOK, NEW a \in Actors, place[a] \notin {"idle", "insert"}, GoEvict(a)
    PROVE  LocalsOK'
<1>1. target[a] \in Tokens
  BY DEF LocalsOK
<1> QED
  BY <1>1, ProceedType DEF GoEvict, TokenPlaces

LEMMA PassType ==
    ASSUME LocalsOK, NEW a \in Actors, NEW t \in Tokens, Pass(a, t)
    PROVE  LocalsOK'
<1>1. CASE Quit(a)
  BY <1>1, QuitType
<1>2. CASE Proceed(a, "evict", t, NoCopy)
  BY <1>2, ProceedType DEF TokenPlaces
<1> QED
  BY <1>1, <1>2 DEF Pass

\* An unused key exists as long as not every key has been generated.
LEMMA FreshKey ==
    ASSUME StoreOK, issued # Tokens
    PROVE  /\ (CHOOSE t \in Tokens : t \notin issued) \in Tokens
           /\ (CHOOSE t \in Tokens : t \notin issued) \notin issued
<1>1. \E t \in Tokens : t \notin issued
  BY DEF StoreOK
<1> QED
  BY <1>1

\* An insertion, with its key and quota named.
LEMMA Inserted ==
    ASSUME StoreOK, NEW a \in Actors, InsertToken(a)
    PROVE  \E t \in Tokens, q \in Grants :
            LET r == [live |-> TRUE, active |-> TRUE, quota |-> q] IN
            /\ t \notin issued
            /\ r \in Row
            /\ rows' = [rows EXCEPT ![t] = r]
            /\ ledger' = [ledger EXCEPT ![t] = q]
            /\ grant' = [grant EXCEPT ![t] = q]
            /\ issued' = issued \union {t}
            /\ Quit(a) \/ Proceed(a, "save", t, r)
            /\ UNCHANGED <<entry, mishaps, deleted, raced, lagging, crowded>>
<1> DEFINE key == CHOOSE t \in Tokens : t \notin issued
<1>1. key \in Tokens /\ key \notin issued
  BY FreshKey DEF InsertToken
<1>2. \A q \in Grants : [live |-> TRUE, active |-> TRUE, quota |-> q] \in Row
  BY Constants DEF Row
<1>3. \E q \in Grants :
        LET r == [live |-> TRUE, active |-> TRUE, quota |-> q] IN
        /\ rows' = [rows EXCEPT ![key] = r]
        /\ ledger' = [ledger EXCEPT ![key] = q]
        /\ grant' = [grant EXCEPT ![key] = q]
        /\ issued' = issued \union {key}
        /\ Quit(a) \/ Proceed(a, "save", key, r)
  BY DEF InsertToken
<1>4. UNCHANGED <<entry, mishaps, deleted, raced, lagging, crowded>>
  BY DEF InsertToken
<1> HIDE DEF key
<1> QED
  BY <1>1, <1>2, <1>3, <1>4

\* A save, with the fields it writes named.
LEMMA Saved ==
    ASSUME LocalsOK, StoreOK, NEW a \in Actors, SaveToken(a)
    PROVE  /\ target[a] \in Tokens
           /\ copy[a] \in Row
           /\ \E r \in Row, granted \in BOOLEAN :
                /\ r.live
                /\ granted => r.quota \in Grants
                /\ ~granted => r.quota = copy[a].quota
                /\ rows' = [rows EXCEPT ![target[a]] = r]
                /\ raced' = IF rows[target[a]] = copy[a] THEN raced ELSE raced \union {target[a]}
                /\ Book(target[a], IF granted THEN r.quota ELSE ledger[target[a]])
                /\ Grant(target[a], IF granted THEN r.quota ELSE grant[target[a]])
           /\ mishaps' \in Nat
<1>1. target[a] \in Tokens /\ copy[a] \in Row
  BY DEF SaveToken, LocalsOK
<1>2. copy[a].quota \in Int
  BY <1>1 DEF Row
<1>3. PICK active \in BOOLEAN, q \in Grants \union {copy[a].quota}, granted \in BOOLEAN :
        /\ q # copy[a].quota => granted
        /\ granted => q \in Grants
        /\ rows' = [rows EXCEPT ![target[a]] = [live |-> TRUE, active |-> active, quota |-> q]]
        /\ Mishap(rows[target[a]] # copy[a])
        /\ raced' = IF rows[target[a]] = copy[a] THEN raced ELSE raced \union {target[a]}
        /\ Book(target[a], IF granted THEN q ELSE ledger[target[a]])
        /\ Grant(target[a], IF granted THEN q ELSE grant[target[a]])
  BY DEF SaveToken
<1>4. q \in Int
  BY <1>2, Constants
<1>5. PICK r : r = [live |-> TRUE, active |-> active, quota |-> q]
  OBVIOUS
<1>6. r \in Row /\ r.live /\ r.quota = q
  BY <1>4, <1>5 DEF Row
<1>7. mishaps' \in Nat
  BY <1>3 DEF Mishap, StoreOK
<1> QED
  BY <1>1, <1>3, <1>5, <1>6, <1>7

\* The type invariant of the tokens, their cached copies and the actors.
THEOREM TypeInvariant == TokenSpec => []TokenTypeOK
<1>1. TokenInit => TokenTypeOK
  <2> SUFFICES ASSUME TokenInit PROVE LocalsOK /\ StoreOK
    BY Parts
  <2>1. LocalsOK
    BY DEF TokenInit, LocalsOK, TokenPlaces
  <2>2. rows \in [Tokens -> Row] /\ entry \in [Tokens -> Row \union {NoCopy}]
    BY Constants DEF TokenInit
  <2>3. mishaps \in Nat /\ ledger \in [Tokens -> Int] /\ grant \in [Tokens -> Int]
    BY DEF TokenInit
  <2>5. crowded \in BOOLEAN
    BY DEF TokenInit
  <2>4. {issued, deleted, raced, lagging} \subseteq SUBSET Tokens
    BY DEF TokenInit
  <2> QED
    BY <2>1, <2>2, <2>3, <2>4, <2>5 DEF StoreOK
<1>2. TokenTypeOK /\ [TokenNext]_tokenVars => TokenTypeOK'
  <2> SUFFICES ASSUME LocalsOK, StoreOK, [TokenNext]_tokenVars
               PROVE  LocalsOK' /\ StoreOK'
    BY DEF TokenTypeOK, LocalsOK, StoreOK
  <2>1. ASSUME NEW a \in Actors, CountTokens(a)
        PROVE  LocalsOK' /\ StoreOK'
    <3>1. LocalsOK'
      BY <2>1, ProceedType DEF CountTokens, TokenPlaces
    <3>2. mishaps' \in Nat
      BY <2>1 DEF CountTokens, Mishap, StoreOK
    <3>3. crowded' \in BOOLEAN
      BY <2>1 DEF CountTokens, StoreOK
    <3> QED
      BY <2>1, <3>1, <3>2, <3>3 DEF CountTokens, StoreOK
  <2>2. ASSUME NEW a \in Actors, InsertToken(a)
        PROVE  LocalsOK' /\ StoreOK'
    <3>1. PICK t \in Tokens, q \in Grants, r \in Row :
            /\ rows' = [rows EXCEPT ![t] = r]
            /\ ledger' = [ledger EXCEPT ![t] = q]
            /\ grant' = [grant EXCEPT ![t] = q]
            /\ issued' = issued \union {t}
            /\ Quit(a) \/ Proceed(a, "save", t, r)
            /\ UNCHANGED <<entry, mishaps, deleted, raced, lagging, crowded>>
      BY <2>2, Inserted
    <3>2. LocalsOK'
      BY <3>1, QuitType, ProceedType DEF TokenPlaces
    <3>3. rows' \in [Tokens -> Row] /\ ledger' \in [Tokens -> Int] /\ grant' \in [Tokens -> Int]
      BY <3>1, Constants DEF StoreOK
    <3> QED
      BY <3>1, <3>2, <3>3 DEF StoreOK
  <2>3. ASSUME NEW a \in Actors, ReadForEdit(a)
        PROVE  LocalsOK' /\ StoreOK'
    <3>1. PICK t \in Tokens : Proceed(a, "save", t, rows[t])
      BY <2>3 DEF ReadForEdit, LiveTokens
    <3>2. rows[t] \in Row
      BY DEF StoreOK
    <3> QED
      BY <2>3, <3>1, <3>2, ProceedType DEF ReadForEdit, StoreOK, TokenPlaces
  <2>4. ASSUME NEW a \in Actors, SaveToken(a)
        PROVE  LocalsOK' /\ StoreOK'
    <3>1. LocalsOK'
      BY <2>4, GoEvictType DEF SaveToken
    <3>2. PICK r \in Row, granted \in BOOLEAN :
            /\ granted => r.quota \in Grants
            /\ rows' = [rows EXCEPT ![target[a]] = r]
            /\ raced' = IF rows[target[a]] = copy[a] THEN raced ELSE raced \union {target[a]}
            /\ Book(target[a], IF granted THEN r.quota ELSE ledger[target[a]])
            /\ Grant(target[a], IF granted THEN r.quota ELSE grant[target[a]])
      BY <2>4, Saved
    <3>3. target[a] \in Tokens /\ mishaps' \in Nat
      BY <2>4, Saved
    <3>4. rows' \in [Tokens -> Row] /\ raced' \in SUBSET Tokens
      BY <3>2, <3>3 DEF StoreOK
    <3>5. ledger' \in [Tokens -> Int]
      <4>1. r.quota \in Int /\ ledger[target[a]] \in Int
        BY <3>3 DEF Row, StoreOK
      <4>2. PICK q \in Int : Book(target[a], q)
        BY <3>2, <4>1
      <4>3. (IF target[a] \in raced' THEN 0 ELSE q) \in Int
        OBVIOUS
      <4> QED
        BY <3>3, <4>2, <4>3 DEF Book, StoreOK
    <3>6. grant' \in [Tokens -> Int]
      <4>1. r.quota \in Int /\ grant[target[a]] \in Int
        BY <3>3 DEF Row, StoreOK
      <4>2. PICK q \in Int : Grant(target[a], q)
        BY <3>2, <4>1
      <4>3. (IF target[a] \in raced' THEN 0 ELSE q) \in Int
        OBVIOUS
      <4> QED
        BY <3>3, <4>2, <4>3 DEF Grant, StoreOK
    <3>7. lagging' \in SUBSET Tokens /\ deleted' \in SUBSET Tokens
      BY <2>4, <3>3 DEF SaveToken, Overtake, StoreOK
    <3> QED
      BY <2>4, <3>1, <3>3, <3>4, <3>5, <3>6, <3>7 DEF SaveToken, StoreOK
  <2>5. ASSUME NEW a \in Actors, ReadForDelete(a)
        PROVE  LocalsOK' /\ StoreOK'
    <3>1. PICK t \in Tokens : Proceed(a, "delete", t, NoCopy)
      BY <2>5 DEF ReadForDelete, LiveTokens
    <3> QED
      BY <2>5, <3>1, ProceedType DEF ReadForDelete, StoreOK, TokenPlaces
  <2>6. ASSUME NEW a \in Actors, DeleteRow(a)
        PROVE  LocalsOK' /\ StoreOK'
    <3>1. LocalsOK' /\ target[a] \in Tokens
      BY <2>6, GoEvictType DEF DeleteRow, LocalsOK
    <3>2. rows' \in [Tokens -> Row] /\ ledger' \in [Tokens -> Int] /\ grant' \in [Tokens -> Int]
      BY <2>6, <3>1, Constants DEF DeleteRow, Book, Grant, StoreOK
    <3>3. lagging' \in SUBSET Tokens /\ deleted' \in SUBSET Tokens
      BY <2>6, <3>1 DEF DeleteRow, Overtake, StoreOK
    <3> QED
      BY <2>6, <3>1, <3>2, <3>3 DEF DeleteRow, StoreOK
  <2>7. ASSUME NEW a \in Actors, ReadForDeduct(a)
        PROVE  LocalsOK' /\ StoreOK'
    <3>1. PICK t \in Tokens : Proceed(a, "deduct", t, NoCopy)
      BY <2>7 DEF ReadForDeduct, LiveTokens
    <3> QED
      BY <2>7, <3>1, ProceedType DEF ReadForDeduct, StoreOK, TokenPlaces
  <2>8. ASSUME NEW a \in Actors, Deduct(a)
        PROVE  LocalsOK' /\ StoreOK'
    <3>1. LocalsOK'
      BY <2>8, GoEvictType, QuitType DEF Deduct
    <3>2. target[a] \in Tokens /\ Fee \in Int
      BY <2>8, TokenAssumption DEF Deduct, LocalsOK
    <3>3. rows' \in [Tokens -> Row]
      BY <2>8, <3>2 DEF Deduct, StoreOK, Row
    <3>4. ledger' \in [Tokens -> Int]
      BY <2>8, <3>2 DEF Deduct, Book, StoreOK
    <3> QED
      BY <2>8, <3>1, <3>3, <3>4 DEF Deduct, StoreOK
  <2>9. ASSUME NEW a \in Actors, Evict(a)
        PROVE  LocalsOK' /\ StoreOK'
    <3>1. LocalsOK' /\ target[a] \in Tokens
      BY <2>9, QuitType DEF Evict, LocalsOK
    <3>2. mishaps' \in Nat
      BY <2>9 DEF Evict, Mishap, StoreOK
    <3>3. lagging' \in SUBSET Tokens /\ entry' \in [Tokens -> Row \union {NoCopy}]
      BY <2>9, <3>1 DEF Evict, Settled, StoreOK
    <3> QED
      BY <2>9, <3>1, <3>2, <3>3 DEF Evict, StoreOK
  <2>10. ASSUME NEW a \in Actors, Authenticate(a)
         PROVE  LocalsOK' /\ StoreOK'
    <3>1. PICK t \in Tokens : Proceed(a, "lookup", t, NoCopy) \/ Pass(a, t) \/ Quit(a)
      BY <2>10 DEF Authenticate, StoreOK
    <3>2. LocalsOK'
      BY <3>1, ProceedType, PassType, QuitType DEF TokenPlaces
    <3> QED
      BY <2>10, <3>2 DEF Authenticate, StoreOK
  <2>11. ASSUME NEW a \in Actors, LookupKey(a)
         PROVE  LocalsOK' /\ StoreOK'
    <3>1. target[a] \in Tokens
      BY <2>11 DEF LookupKey, LocalsOK
    <3>2. rows[target[a]] \in Row /\ (entry[target[a]] # NoCopy => entry[target[a]] \in Row)
      BY <3>1 DEF StoreOK
    <3>3. LocalsOK'
      BY <2>11, <3>1, <3>2, ProceedType, QuitType DEF LookupKey, TokenPlaces
    <3>4. lagging' \in SUBSET Tokens
      BY <2>11, <3>1 DEF LookupKey, StoreOK
    <3> QED
      BY <2>11, <3>3, <3>4 DEF LookupKey, StoreOK
  <2>12. ASSUME NEW a \in Actors, Fill(a) \/ Refill(a)
         PROVE  LocalsOK' /\ StoreOK'
    <3>1. target[a] \in Tokens /\ copy[a] \in Row
      BY <2>12 DEF Fill, Refill, LocalsOK
    <3>2. LocalsOK'
      BY <2>12, <3>1, ProceedType, QuitType, PassType DEF Fill, Refill, TokenPlaces
    <3>3. entry' \in [Tokens -> Row \union {NoCopy}]
      BY <2>12, <3>1 DEF Fill, Refill, StoreOK
    <3> QED
      BY <2>12, <3>2, <3>3 DEF Fill, Refill, StoreOK
  <2>13. ASSUME NEW t \in Tokens, EntryExpires(t)
         PROVE  LocalsOK' /\ StoreOK'
    BY <2>13 DEF EntryExpires, Settled, LocalsOK, StoreOK
  <2>14. CASE UNCHANGED tokenVars
    BY <2>14 DEF tokenVars, LocalsOK, StoreOK
  <2> QED
    BY <2>1, <2>2, <2>3, <2>4, <2>5, <2>6, <2>7, <2>8, <2>9, <2>10, <2>11, <2>12,
       <2>13, <2>14 DEF TokenNext, ActorStep
<1> QED
  BY <1>1, <1>2, PTL DEF TokenSpec

-----------------------------------------------------------------------------
(* The ledger.                                                               *)

\* Rows in the database, deleted rows and the rows that are about to be written
\* have keys that were generated, and what is saved was read from a live row.
IIssued ==
    /\ LiveTokens \subseteq issued
    /\ deleted \subseteq issued
    /\ \A a \in Actors : place[a] \in {"save", "delete"} => target[a] \in issued
    /\ \A a \in Actors : place[a] = "save" => copy[a].live

\* The actions that write no row.
Quiet(a) ==
    \/ CountTokens(a) \/ ReadForEdit(a) \/ ReadForDelete(a) \/ ReadForDeduct(a)
    \/ Evict(a) \/ Authenticate(a) \/ LookupKey(a) \/ Fill(a) \/ Refill(a)

LEMMA QuietKeeps ==
    ASSUME NEW a \in Actors, Quiet(a)
    PROVE  UNCHANGED <<rows, issued, ledger, grant, deleted, raced>>
BY DEF Quiet, CountTokens, ReadForEdit, ReadForDelete, ReadForDeduct, Evict,
       Authenticate, LookupKey, Fill, Refill

LEMMA Split ==
    ASSUME NEW a \in Actors, ActorStep(a)
    PROVE  InsertToken(a) \/ SaveToken(a) \/ DeleteRow(a) \/ Deduct(a) \/ Quiet(a)
BY DEF ActorStep, Quiet

\* What an actor turns to.
LEMMA Turns ==
    ASSUME TokenTypeOK, NEW a \in Actors, Quiet(a) \/ DeleteRow(a) \/ Deduct(a) \/ SaveToken(a)
    PROVE  \E p \in TokenPlaces, t \in Tokens \union {NoToken}, r \in Row \union {NoCopy} :
            /\ Proceed(a, p, t, r)
            /\ p \in {"save", "delete"} => t \in LiveTokens
            /\ p = "save" => r.live
<1> DEFINE Fine(p, t, r) ==
        /\ Proceed(a, p, t, r)
        /\ p \in {"save", "delete"} => t \in LiveTokens
        /\ p = "save" => r.live
<1> SUFFICES \E p \in TokenPlaces, t \in Tokens \union {NoToken}, r \in Row \union {NoCopy} :
                Fine(p, t, r)
  OBVIOUS
<1> DEFINE Goal == \E p \in TokenPlaces, t \in Tokens \union {NoToken}, r \in Row \union {NoCopy} :
                Fine(p, t, r)
<1>1. /\ rows \in [Tokens -> Row]
      /\ entry \in [Tokens -> Row \union {NoCopy}]
      /\ target \in [Actors -> Tokens \union {NoToken}]
      /\ copy \in [Actors -> Row \union {NoCopy}]
      /\ issued \subseteq Tokens
  BY DEF TokenTypeOK
<1>2. LiveTokens \subseteq Tokens /\ \A t \in LiveTokens : rows[t].live
  BY DEF LiveTokens
<1>3. ASSUME NEW p \in TokenPlaces \ {"save", "delete"}, NEW t \in Tokens \union {NoToken},
             NEW r \in Row \union {NoCopy}, Proceed(a, p, t, r)
      PROVE  Goal
  BY <1>3
<1>4. Quit(a) => Goal
  BY <1>3 DEF Quit, TokenPlaces
<1>5. \A t \in Tokens : Pass(a, t) => Goal
  BY <1>3, <1>4 DEF Pass, TokenPlaces
<1>6. GoEvict(a) => Goal
  BY <1>1, <1>3 DEF GoEvict, TokenPlaces
<1>7. CASE DeleteRow(a) \/ Deduct(a) \/ SaveToken(a) \/ Evict(a)
  BY <1>4, <1>6, <1>7 DEF DeleteRow, Deduct, SaveToken, Evict
<1>8. CASE CountTokens(a)
  BY <1>3, <1>8 DEF CountTokens, TokenPlaces
<1>9. CASE ReadForEdit(a)
  <2>1. PICK t \in LiveTokens : Proceed(a, "save", t, rows[t])
    BY <1>9 DEF ReadForEdit
  <2>2. rows[t] \in Row /\ rows[t].live /\ t \in Tokens
    BY <1>1, <1>2
  <2> QED
    BY <2>1, <2>2 DEF TokenPlaces
<1>10. CASE ReadForDelete(a)
  <2>1. PICK t \in LiveTokens : Proceed(a, "delete", t, NoCopy)
    BY <1>10 DEF ReadForDelete
  <2> QED
    BY <2>1, <1>2 DEF TokenPlaces
<1>11. CASE ReadForDeduct(a)
  <2>1. PICK t \in LiveTokens : Proceed(a, "deduct", t, NoCopy)
    BY <1>11 DEF ReadForDeduct
  <2> QED
    BY <2>1, <1>2, <1>3 DEF TokenPlaces
<1>12. CASE Authenticate(a)
  <2>1. PICK t \in issued : Proceed(a, "lookup", t, NoCopy) \/ Pass(a, t) \/ Quit(a)
    BY <1>12 DEF Authenticate
  <2>2. t \in Tokens
    BY <1>1
  <2>3. Proceed(a, "lookup", t, NoCopy) => Goal
    BY <2>2, <1>3 DEF TokenPlaces
  <2> QED
    BY <2>1, <2>2, <2>3, <1>4, <1>5
<1>13. CASE LookupKey(a) \/ Fill(a) \/ Refill(a)
  <2>1. target[a] \in Tokens
    BY <1>13 DEF LookupKey, Fill, Refill, TokenTypeOK
  <2>2. PICK p \in {"refill", "fill"}, r \in Row \union {NoCopy} :
            Proceed(a, p, target[a], r) \/ Pass(a, target[a]) \/ Quit(a)
    BY <2>1, <1>1, <1>13 DEF LookupKey, Fill, Refill
  <2>3. Proceed(a, p, target[a], r) => Goal
    BY <2>1, <1>3 DEF TokenPlaces
  <2> QED
    BY <2>1, <2>2, <2>3, <1>4, <1>5
<1> QED
  BY <1>7, <1>8, <1>9, <1>10, <1>11, <1>12, <1>13 DEF Quiet

LEMMA IssuedLocals ==
    ASSUME TokenTypeOK, IIssued, issued \subseteq issued', NEW a \in Actors, NEW p, NEW t, NEW r,
           Proceed(a, p, t, r),
           p \in {"save", "delete"} => t \in issued',
           p = "save" => r.live
    PROVE  /\ \A b \in Actors : place'[b] \in {"save", "delete"} => target'[b] \in issued'
           /\ \A b \in Actors : place'[b] = "save" => copy'[b].live
BY DEF TokenTypeOK, IIssued, Proceed

LEMMA KeysIssued == TokenSpec => [](TokenTypeOK /\ IIssued)
<1>1. TokenInit => IIssued
  BY Constants DEF TokenInit, IIssued, LiveTokens
<1>2. TokenTypeOK /\ IIssued /\ [TokenNext]_tokenVars => IIssued'
  <2> SUFFICES ASSUME TokenTypeOK, IIssued, [TokenNext]_tokenVars
               PROVE  IIssued'
    OBVIOUS
  <2> USE DEF LiveTokens
  <2>0. rows \in [Tokens -> Row] /\ LiveTokens \subseteq issued /\ deleted \subseteq issued
    BY DEF TokenTypeOK, IIssued
  <2>1. ASSUME NEW a \in Actors, InsertToken(a)
        PROVE  IIssued'
    <3>1. PICK t \in Tokens, q \in Grants, r \in Row :
            /\ r.live
            /\ rows' = [rows EXCEPT ![t] = r]
            /\ issued' = issued \union {t}
            /\ Quit(a) \/ Proceed(a, "save", t, r)
            /\ deleted' = deleted
      <4>1. StoreOK
        BY Parts
      <4>2. PICK t \in Tokens, q \in Grants :
              LET r == [live |-> TRUE, active |-> TRUE, quota |-> q] IN
              /\ r \in Row
              /\ rows' = [rows EXCEPT ![t] = r]
              /\ issued' = issued \union {t}
              /\ Quit(a) \/ Proceed(a, "save", t, r)
              /\ UNCHANGED deleted
        BY <2>1, <4>1, Inserted
      <4>3. [live |-> TRUE, active |-> TRUE, quota |-> q].live
        OBVIOUS
      <4> HIDE DEF LiveTokens
      <4> QED
        BY <4>2, <4>3
    <3>2. issued \subseteq issued' /\ t \in issued'
      BY <3>1
    <3>3. LiveTokens' \subseteq issued' /\ deleted' \subseteq issued'
      BY <2>0, <3>1
    <3> QED
      BY <3>1, <3>2, <3>3, IssuedLocals DEF IIssued, Quit
  <2>2. ASSUME NEW a \in Actors, Quiet(a) \/ DeleteRow(a) \/ Deduct(a) \/ SaveToken(a)
        PROVE  IIssued'
    <3>1. issued' = issued
      BY <2>2, QuietKeeps DEF DeleteRow, Deduct, SaveToken
    <3>2. CASE Quiet(a)
      <4>1. LiveTokens' \subseteq issued' /\ deleted' \subseteq issued'
        BY <2>0, <3>2, QuietKeeps
      <4> QED
        BY <2>2, <2>0, <3>1, <4>1, Turns, IssuedLocals DEF IIssued
    <3>3. CASE DeleteRow(a)
      <4>1. target[a] \in issued
        BY <3>3 DEF DeleteRow, IIssued
      <4>2. LiveTokens' \subseteq issued' /\ deleted' \subseteq issued'
        BY <2>0, <3>1, <3>3, <4>1, Constants DEF DeleteRow
      <4> QED
        BY <2>2, <2>0, <3>1, <4>2, Turns, IssuedLocals DEF IIssued
    <3>4. CASE Deduct(a)
      <4>1. LiveTokens' \subseteq issued' /\ deleted' \subseteq issued'
        BY <2>0, <3>1, <3>4 DEF Deduct
      <4> QED
        BY <2>2, <2>0, <3>1, <4>1, Turns, IssuedLocals DEF IIssued
    <3>5. CASE SaveToken(a)
      <4>1. target[a] \in issued
        BY <3>5 DEF SaveToken, IIssued
      <4>2. PICK r \in Row : rows' = [rows EXCEPT ![target[a]] = r]
        BY <3>5, Saved, Parts
      <4>3. LiveTokens' \subseteq issued'
        BY <2>0, <3>1, <4>1, <4>2
      <4>4. deleted' \subseteq issued'
        BY <2>0, <3>1, <3>5 DEF SaveToken
      <4> QED
        BY <2>2, <2>0, <3>1, <4>3, <4>4, Turns, IssuedLocals DEF IIssued
    <3> QED
      BY <2>2, <3>2, <3>3, <3>4, <3>5
  <2>3. ASSUME NEW t \in Tokens, EntryExpires(t)
        PROVE  IIssued'
    BY <2>3 DEF EntryExpires, IIssued
  <2>4. CASE UNCHANGED tokenVars
    BY <2>4 DEF tokenVars, IIssued
  <2> QED
    BY <2>1, <2>2, <2>3, <2>4, Split DEF TokenNext
<1> QED
  BY <1>1, <1>2, TypeInvariant, PTL DEF TokenSpec

LEMMA LedgerStep ==
    ASSUME TokenTypeOK, IIssued, TokenLedger, [TokenNext]_tokenVars
    PROVE  TokenLedger'
<1>0. /\ rows \in [Tokens -> Row] /\ ledger \in [Tokens -> Int]
      /\ grant \in [Tokens -> Int]
      /\ deleted \subseteq issued /\ LocalsOK /\ StoreOK
  BY Parts DEF TokenTypeOK, IIssued
<1>1. ASSUME NEW a \in Actors, InsertToken(a)
      PROVE  TokenLedger'
  <2>1. PICK t \in Tokens, q \in Grants, r \in Row :
          /\ t \notin issued /\ r.quota = q
          /\ rows' = [rows EXCEPT ![t] = r]
          /\ ledger' = [ledger EXCEPT ![t] = q]
          /\ grant' = [grant EXCEPT ![t] = q]
          /\ deleted' = deleted /\ raced' = raced
    BY <1>0, <1>1, Inserted
  <2>2. t \notin deleted
    BY <1>0, <2>1
  <2> QED
    BY <1>0, <2>1, <2>2 DEF TokenLedger
<1>2. ASSUME NEW a \in Actors, SaveToken(a)
      PROVE  TokenLedger'
  <2>1. PICK r \in Row, granted \in BOOLEAN :
          /\ granted => r.quota \in Grants
          /\ ~granted => r.quota = copy[a].quota
          /\ rows' = [rows EXCEPT ![target[a]] = r]
          /\ raced' = IF rows[target[a]] = copy[a] THEN raced ELSE raced \union {target[a]}
          /\ Book(target[a], IF granted THEN r.quota ELSE ledger[target[a]])
          /\ Grant(target[a], IF granted THEN r.quota ELSE grant[target[a]])
    BY <1>0, <1>2, Saved
  <2>2. target[a] \in Tokens /\ copy[a].live /\ deleted' = deleted \ raced'
    BY <1>2, <1>0, Saved DEF SaveToken, IIssued
  <2>3. ASSUME NEW t \in Tokens, t # target[a], t \notin raced'
        PROVE  /\ rows'[t].quota = ledger'[t]
               /\ ledger'[t] >= 0 \/ ledger'[t] = grant'[t]
               /\ t \in deleted' => ~rows'[t].live
    <3>1. t \notin raced /\ rows'[t] = rows[t] /\ ledger'[t] = ledger[t] /\ grant'[t] = grant[t]
      BY <1>0, <2>1, <2>2, <2>3 DEF Book, Grant
    <3> QED
      BY <3>1, <2>2 DEF TokenLedger
  <2>4. ASSUME target[a] \notin raced'
        PROVE  /\ rows'[target[a]].quota = ledger'[target[a]]
               /\ ledger'[target[a]] >= 0 \/ ledger'[target[a]] = grant'[target[a]]
               /\ target[a] \notin deleted'
    <3>1. rows[target[a]] = copy[a] /\ target[a] \notin raced
      BY <2>1, <2>4
    <3>2. /\ rows[target[a]].quota = ledger[target[a]]
          /\ ledger[target[a]] >= 0 \/ ledger[target[a]] = grant[target[a]]
          /\ target[a] \notin deleted
      BY <3>1, <2>2 DEF TokenLedger
    <3>3. rows'[target[a]] = r
      BY <1>0, <2>1, <2>2
    <3>4. /\ ledger'[target[a]] = IF granted THEN r.quota ELSE ledger[target[a]]
          /\ grant'[target[a]] = IF granted THEN r.quota ELSE grant[target[a]]
      BY <1>0, <2>1, <2>2, <2>4 DEF Book, Grant
    <3>5. CASE granted
      BY <2>1, <2>2, <3>2, <3>3, <3>4, <3>5
    <3>6. CASE ~granted
      BY <2>1, <2>2, <3>1, <3>2, <3>3, <3>4, <3>6
    <3> QED
      BY <3>5, <3>6
  <2> QED
    BY <2>3, <2>4 DEF TokenLedger
<1>3. ASSUME NEW a \in Actors, DeleteRow(a)
      PROVE  TokenLedger'
  <2>1. target[a] \in Tokens
    BY <1>3 DEF DeleteRow, TokenTypeOK
  <2>2. /\ rows' = [rows EXCEPT ![target[a]] = NoRow]
        /\ ledger' = [ledger EXCEPT ![target[a]] = 0]
        /\ grant' = [grant EXCEPT ![target[a]] = 0]
        /\ deleted' = deleted \union ({target[a]} \ raced)
        /\ raced' = raced
    BY <1>3 DEF DeleteRow, Book, Grant
  <2> QED
    BY <1>0, <2>1, <2>2 DEF TokenLedger, NoRow
<1>4. ASSUME NEW a \in Actors, Deduct(a)
      PROVE  TokenLedger'
  <2>1. target[a] \in Tokens /\ Fee \in Nat
    BY <1>4, TokenAssumption DEF Deduct, TokenTypeOK
  <2>2. CASE UNCHANGED <<rows, ledger, raced>>
    BY <1>4, <2>2 DEF Deduct, TokenLedger
  <2>3. CASE /\ rows[target[a]].quota >= Fee
             /\ rows' = [rows EXCEPT ![target[a]].quota = @ - Fee]
             /\ raced' = raced
             /\ Book(target[a], ledger[target[a]] - Fee)
    <3>1. deleted' = deleted /\ grant' = grant
      BY <1>4 DEF Deduct
    <3>2. ASSUME NEW t \in Tokens, t # target[a], t \notin raced
          PROVE  /\ rows'[t].quota = ledger'[t]
                 /\ ledger'[t] >= 0 \/ ledger'[t] = grant[t]
                 /\ t \in deleted => ~rows'[t].live
      BY <1>0, <2>1, <2>3, <3>2 DEF Book, TokenLedger
    <3>3. ASSUME target[a] \notin raced
          PROVE  /\ rows'[target[a]].quota = ledger'[target[a]]
                 /\ ledger'[target[a]] >= 0
                 /\ target[a] \in deleted => ~rows'[target[a]].live
      <4>1. /\ rows[target[a]].quota = ledger[target[a]]
            /\ target[a] \in deleted => ~rows[target[a]].live
            /\ rows[target[a]] \in Row /\ ledger[target[a]] \in Int
        BY <1>0, <2>1, <3>3 DEF TokenLedger
      <4>2. ledger'[target[a]] = ledger[target[a]] - Fee
        BY <1>0, <2>1, <2>3, <3>3 DEF Book
      <4>3. rows'[target[a]] = [rows[target[a]] EXCEPT !.quota = rows[target[a]].quota - Fee]
        BY <1>0, <2>1, <2>3
      <4>4. /\ rows'[target[a]].quota = rows[target[a]].quota - Fee
            /\ rows'[target[a]].live = rows[target[a]].live
        BY <4>1, <4>3 DEF Row
      <4> QED
        BY <2>1, <2>3, <4>1, <4>2, <4>4
    <3> QED
      BY <2>3, <3>1, <3>2, <3>3 DEF TokenLedger
  <2> QED
    BY <1>4, <2>2, <2>3 DEF Deduct
<1>5. ASSUME NEW a \in Actors, Quiet(a)
      PROVE  TokenLedger'
  BY <1>5, QuietKeeps DEF TokenLedger
<1>6. ASSUME NEW t \in Tokens, EntryExpires(t)
      PROVE  TokenLedger'
  BY <1>6 DEF EntryExpires, TokenLedger
<1>7. CASE UNCHANGED tokenVars
  BY <1>7 DEF tokenVars, TokenLedger
<1> QED
  BY <1>1, <1>2, <1>3, <1>4, <1>5, <1>6, <1>7, Split DEF TokenNext

\* What is left of a token's quota is what its latest grant and the charges
\* since leave, never less than nothing unless granted so, and a deleted token
\* stays deleted, but for saves of old fields: DeductQuota tests and subtracts in
\* one UPDATE.
THEOREM QuotaIsAccounted == TokenSpec => []TokenLedger
<1>1. TokenInit => TokenLedger
  BY DEF TokenInit, TokenLedger, NoRow
<1>2. TokenTypeOK /\ IIssued /\ TokenLedger /\ [TokenNext]_tokenVars => TokenLedger'
  BY LedgerStep
<1> QED
  BY <1>1, <1>2, KeysIssued, PTL DEF TokenSpec

-----------------------------------------------------------------------------
(* The limit.                                                                *)

Inserting == {a \in Actors : place[a] = "insert"}

\* As long as no two creations overlapped and no save replaced a newer row, at
\* most one actor has counted the tokens, and there is room for its own.
IRoom ==
    crowded \/ raced # {} \/
        /\ Cardinality(LiveTokens) <= TokenLimit
        /\ \A a, b \in Inserting : a = b
        /\ Inserting # {} => Cardinality(LiveTokens) < TokenLimit

LEMMA LiveFinite ==
    ASSUME TokenTypeOK
    PROVE  IsFiniteSet(LiveTokens) /\ Cardinality(LiveTokens) \in Nat
<1>1. LiveTokens \subseteq Tokens
  BY DEF LiveTokens
<1> QED
  BY <1>1, TokenAssumption, FS_Subset, FS_CardinalityType

\* A step that makes no row live and no actor about to insert keeps the room.
LEMMA RoomKept ==
    ASSUME TokenTypeOK, IRoom, LiveTokens' \subseteq LiveTokens, Inserting' \subseteq Inserting,
           crowded' = crowded, raced' = {} => raced = {}
    PROVE  IRoom'
<1>1. IsFiniteSet(LiveTokens) /\ Cardinality(LiveTokens) \in Nat
  BY LiveFinite
<1>2. Cardinality(LiveTokens') <= Cardinality(LiveTokens) /\ Cardinality(LiveTokens') \in Nat
  BY <1>1, FS_Subset, FS_CardinalityType
<1>3. TokenLimit \in Nat
  BY TokenAssumption
<1> QED
  BY <1>1, <1>2, <1>3 DEF IRoom

LEMMA RoomStep ==
    ASSUME TokenTypeOK, IIssued, IRoom, [TokenNext]_tokenVars
    PROVE  IRoom'
<1>0. /\ rows \in [Tokens -> Row] /\ place \in [Actors -> TokenPlaces]
      /\ LocalsOK /\ StoreOK /\ TokenLimit \in Nat
  BY Parts, TokenAssumption DEF TokenTypeOK
<1>1. ASSUME NEW a \in Actors, CountTokens(a)
      PROVE  IRoom'
  <2>1. LiveTokens' = LiveTokens /\ raced' = raced /\ Cardinality(LiveTokens) < TokenLimit
    BY <1>1 DEF CountTokens, LiveTokens
  <2>2. Inserting' = Inserting \union {a}
    BY <1>0, <1>1 DEF CountTokens, Proceed, Inserting
  <2>3. crowded' = (crowded \/ Inserting # {})
    BY <1>1 DEF CountTokens, Inserting
  <2>4. CASE crowded \/ Inserting # {} \/ raced # {}
    BY <2>1, <2>3, <2>4 DEF IRoom
  <2>5. CASE Inserting = {}
    BY <2>1, <2>2, <2>5, <1>0, LiveFinite DEF IRoom
  <2> QED
    BY <2>4, <2>5
<1>2. ASSUME NEW a \in Actors, InsertToken(a)
      PROVE  IRoom'
  <2>0. \E t \in Tokens, q \in Grants :
          LET r == [live |-> TRUE, active |-> TRUE, quota |-> q] IN
          /\ t \notin issued
          /\ r \in Row
          /\ rows' = [rows EXCEPT ![t] = r]
          /\ ledger' = [ledger EXCEPT ![t] = q]
          /\ grant' = [grant EXCEPT ![t] = q]
          /\ issued' = issued \union {t}
          /\ Quit(a) \/ Proceed(a, "save", t, r)
          /\ UNCHANGED <<entry, mishaps, deleted, raced, lagging, crowded>>
    BY <1>0, <1>2, Inserted
  <2>1. PICK t \in Tokens, q \in Grants, r \in Row :
          /\ r.live /\ t \notin issued
          /\ rows' = [rows EXCEPT ![t] = r]
          /\ Quit(a) \/ Proceed(a, "save", t, r)
          /\ raced' = raced
    BY <2>0
  <2>2. crowded' = crowded
    BY <1>2 DEF InsertToken
  <2>3. a \in Inserting /\ Inserting' = Inserting \ {a}
    BY <1>0, <1>2, <2>1 DEF InsertToken, Quit, Proceed, Inserting
  <2>4. t \notin LiveTokens /\ LiveTokens' = LiveTokens \union {t}
    BY <1>0, <2>1 DEF LiveTokens, IIssued
  <2>5. Cardinality(LiveTokens') = Cardinality(LiveTokens) + 1
    BY <2>4, LiveFinite, FS_AddElement
  <2>6. CASE crowded \/ raced # {}
    BY <2>1, <2>2, <2>6 DEF IRoom
  <2>7. CASE ~crowded /\ raced = {}
    <3>1. Cardinality(LiveTokens) < TokenLimit /\ Inserting' = {}
      BY <2>3, <2>7 DEF IRoom
    <3> QED
      BY <3>1, <2>5, <1>0, LiveFinite DEF IRoom
  <2> QED
    BY <2>6, <2>7
<1>3. ASSUME NEW a \in Actors, SaveToken(a)
      PROVE  IRoom'
  <2>1. PICK r \in Row :
          /\ rows' = [rows EXCEPT ![target[a]] = r]
          /\ raced' = IF rows[target[a]] = copy[a] THEN raced ELSE raced \union {target[a]}
    BY <1>0, <1>3, Saved
  <2>2. crowded' = crowded /\ copy[a].live /\ target[a] \in Tokens
    BY <1>0, <1>3, Saved DEF SaveToken, IIssued
  <2>3. Inserting' \subseteq Inserting
    BY <1>0, <1>3 DEF SaveToken, GoEvict, Proceed, Inserting
  <2>4. CASE rows[target[a]] = copy[a]
    <3>1. LiveTokens' \subseteq LiveTokens
      BY <1>0, <2>1, <2>2, <2>4 DEF LiveTokens
    <3>2. raced' = raced
      BY <2>1, <2>4
    <3> QED
      BY <2>2, <2>3, <3>1, <3>2, RoomKept
  <2>5. CASE rows[target[a]] # copy[a]
    BY <2>1, <2>5 DEF IRoom
  <2> QED
    BY <2>4, <2>5
<1>4. ASSUME NEW a \in Actors, DeleteRow(a)
      PROVE  IRoom'
  <2>1. LiveTokens' \subseteq LiveTokens
    BY <1>0, <1>4, Constants DEF DeleteRow, LiveTokens
  <2>2. Inserting' \subseteq Inserting
    BY <1>0, <1>4 DEF DeleteRow, GoEvict, Proceed, Inserting
  <2>3. crowded' = crowded /\ raced' = raced
    BY <1>4 DEF DeleteRow
  <2> QED
    BY <2>1, <2>2, <2>3, RoomKept
<1>5. ASSUME NEW a \in Actors, Deduct(a)
      PROVE  IRoom'
  <2>1. LiveTokens' \subseteq LiveTokens
    BY <1>0, <1>5 DEF Deduct, LiveTokens, Row
  <2>2. Inserting' \subseteq Inserting
    BY <1>0, <1>5 DEF Deduct, GoEvict, Quit, Proceed, Inserting
  <2>3. crowded' = crowded /\ raced' = raced
    BY <1>5 DEF Deduct
  <2> QED
    BY <2>1, <2>2, <2>3, RoomKept
<1>6. ASSUME NEW a \in Actors, Quiet(a), ~CountTokens(a)
      PROVE  IRoom'
  <2>1. LiveTokens' = LiveTokens /\ raced' = raced
    BY <1>6, QuietKeeps DEF LiveTokens
  <2>2. crowded' = crowded
    BY <1>6 DEF Quiet, ReadForEdit, ReadForDelete, ReadForDeduct, Evict,
                Authenticate, LookupKey, Fill, Refill
  <2>3. \E p \in TokenPlaces \ {"insert"} : place' = [place EXCEPT ![a] = p]
    <3>1. ASSUME NEW p \in TokenPlaces \ {"insert"}, NEW t, NEW r, Proceed(a, p, t, r)
          PROVE  \E q \in TokenPlaces \ {"insert"} : place' = [place EXCEPT ![a] = q]
      BY <3>1 DEF Proceed
    <3> QED
      BY <1>6, <3>1 DEF Quiet, ReadForEdit, ReadForDelete, ReadForDeduct, Evict,
                Authenticate, LookupKey, Fill, Refill, Quit, Pass, TokenPlaces
  <2>4. Inserting' \subseteq Inserting
    BY <1>0, <2>3 DEF Inserting
  <2> QED
    BY <2>1, <2>2, <2>4, RoomKept
<1>7. ASSUME NEW t \in Tokens, EntryExpires(t)
      PROVE  IRoom'
  BY <1>7 DEF EntryExpires, IRoom, LiveTokens, Inserting
<1>8. CASE UNCHANGED tokenVars
  BY <1>8 DEF tokenVars, IRoom, LiveTokens, Inserting
<1> QED
  BY <1>1, <1>2, <1>3, <1>4, <1>5, <1>6, <1>7, <1>8, Split DEF TokenNext

\* A user has more tokens than the limit only after two creations overlapped
\* between the count and the insertion, or after an edit stored old fields.
THEOREM LimitIsKept == TokenSpec => []LimitKept
<1>1. TokenInit => IRoom
  <2> SUFFICES ASSUME TokenInit PROVE IRoom
    OBVIOUS
  <2>1. LiveTokens = {} /\ Inserting = {}
    BY Constants DEF TokenInit, LiveTokens, Inserting
  <2> QED
    BY <2>1, FS_EmptySet, TokenAssumption DEF IRoom
<1>2. TokenTypeOK /\ IIssued /\ IRoom /\ [TokenNext]_tokenVars => IRoom'
  BY RoomStep
<1>3. IRoom => LimitKept
  BY DEF IRoom, LimitKept
<1> QED
  BY <1>1, <1>2, <1>3, KeysIssued, PTL DEF TokenSpec

-----------------------------------------------------------------------------
(* The cached copies.                                                        *)

\* A copy of a token that is not usable any more is lagging on its way to the
\* cache; and once there the eviction is due, or it is lagging.
ICopies ==
    /\ DisabledStaysOut
    /\ \A a \in Actors :
        (place[a] \in {"fill", "refill"} /\ copy[a].active /\ ~Usable(target[a]))
            => target[a] \in lagging

\* A step of an actor that evicts nothing, leaves rows and entries as they are
\* and turns to a copy only of a usable or lagging token.
LEMMA CopiesKept ==
    ASSUME TokenTypeOK, ICopies, NEW a \in Actors, NEW p \in TokenPlaces, NEW t, NEW r,
           Proceed(a, p, t, r), place[a] # "evict",
           \A u \in Tokens : Usable(u) => Usable(u)',
           entry' = entry, lagging \subseteq lagging',
           p \in {"fill", "refill"} /\ r.active /\ ~Usable(t)' => t \in lagging'
    PROVE  ICopies'
<1>1. \A u \in Tokens : Evicting(u) \subseteq Evicting(u)'
  BY DEF Proceed, Evicting, TokenTypeOK
<1>2. DisabledStaysOut'
  BY <1>1 DEF ICopies, DisabledStaysOut
<1>3. ASSUME NEW b \in Actors, place'[b] \in {"fill", "refill"}, copy'[b].active,
             ~(rows'[target'[b]].live /\ rows'[target'[b]].active)
      PROVE  target'[b] \in lagging'
  <2>1. CASE b = a
    BY <1>3, <2>1 DEF Proceed, TokenTypeOK, Usable
  <2>2. CASE b # a
    <3>1. place'[b] = place[b] /\ target'[b] = target[b] /\ copy'[b] = copy[b]
      BY <2>2 DEF Proceed, TokenTypeOK
    <3>2. target[b] \in Tokens
      BY <1>3, <3>1 DEF TokenTypeOK
    <3> QED
      BY <1>3, <3>1, <3>2 DEF ICopies, Usable
  <2> QED
    BY <2>1, <2>2
<1> QED
  BY <1>2, <1>3 DEF ICopies, Usable

\* A write to the row of a token that then goes on to evict its copy.
LEMMA CopiesOvertaken ==
    ASSUME TokenTypeOK, ICopies, NEW a \in Actors, target[a] \in Tokens,
           place[a] \in {"save", "delete"}, GoEvict(a), Overtake(target[a]),
           NEW r, rows' = [rows EXCEPT ![target[a]] = r], entry' = entry
    PROVE  ICopies'
<1>1. \A u \in Tokens : Evicting(u) \subseteq Evicting(u)'
  BY DEF GoEvict, Proceed, Evicting, TokenTypeOK
<1>2. \A u \in Tokens : u = target[a] => a \in Evicting(u)'
  BY DEF GoEvict, Proceed, Evicting, TokenTypeOK
<1>3. \A u \in Tokens \ {target[a]} : rows'[u] = rows[u]
  BY DEF TokenTypeOK
<1>4. lagging \subseteq lagging'
  BY DEF Overtake
<1>5. ASSUME NEW u \in Tokens, entry'[u] # NoCopy, entry'[u].active, ~Usable(u)'
      PROVE  Evicting(u)' # {} \/ u \in lagging'
  <2>1. CASE u = target[a]
    BY <1>2, <2>1
  <2>2. CASE u # target[a]
    <3>1. ~Usable(u)
      BY <1>3, <1>5, <2>2 DEF Usable
    <3> QED
      BY <1>1, <1>4, <1>5, <3>1 DEF ICopies, DisabledStaysOut
  <2> QED
    BY <2>1, <2>2
<1>6. ASSUME NEW b \in Actors, place'[b] \in {"fill", "refill"}, copy'[b].active,
             ~(rows'[target'[b]].live /\ rows'[target'[b]].active)
      PROVE  target'[b] \in lagging'
  <2>1. b # a /\ place'[b] = place[b] /\ target'[b] = target[b] /\ copy'[b] = copy[b]
    BY <1>6 DEF GoEvict, Proceed, TokenTypeOK
  <2>2. target[b] \in Tokens
    BY <1>6, <2>1 DEF TokenTypeOK
  <2>3. CASE target[b] = target[a]
    <3>1. b \in Caching(target[a])
      BY <1>6, <2>1, <2>3 DEF Caching
    <3> QED
      BY <2>1, <2>3, <3>1 DEF Overtake
  <2>4. CASE target[b] # target[a]
    <3>1. ~Usable(target[b])
      BY <1>3, <1>6, <2>1, <2>2, <2>4 DEF Usable
    <3> QED
      BY <1>4, <1>6, <2>1, <3>1 DEF ICopies
  <2> QED
    BY <2>3, <2>4
<1>7. DisabledStaysOut'
  BY <1>5 DEF DisabledStaysOut
<1> QED
  BY <1>6, <1>7 DEF ICopies, Usable

\* The entry of a token goes, and with it the past if nobody is about to store
\* another.
LEMMA CopiesSettled ==
    ASSUME TokenTypeOK, ICopies, NEW t \in Tokens, Settled(t),
           entry' = [entry EXCEPT ![t] = NoCopy], rows' = rows,
           \A u \in Tokens \ {t} : Evicting(u) \subseteq Evicting(u)',
           \A b \in Actors : place'[b] \in {"fill", "refill"} =>
                place'[b] = place[b] /\ target'[b] = target[b] /\ copy'[b] = copy[b]
    PROVE  ICopies'
<1>1. ASSUME NEW u \in Tokens, entry'[u] # NoCopy, entry'[u].active, ~Usable(u)'
      PROVE  Evicting(u)' # {} \/ u \in lagging'
  <2>1. u # t /\ entry'[u] = entry[u] /\ ~Usable(u)
    BY <1>1 DEF TokenTypeOK, Usable
  <2>2. u \in lagging => u \in lagging'
    BY <2>1 DEF Settled
  <2> QED
    BY <1>1, <2>1, <2>2 DEF ICopies, DisabledStaysOut
<1>2. ASSUME NEW b \in Actors, place'[b] \in {"fill", "refill"}, copy'[b].active,
             ~(rows'[target'[b]].live /\ rows'[target'[b]].active)
      PROVE  target'[b] \in lagging'
  <2>1. target'[b] = target[b] /\ b \in Caching(target[b]) /\ target[b] \in lagging
    BY <1>2 DEF ICopies, Usable, Caching
  <2> QED
    BY <2>1 DEF Settled
<1>3. DisabledStaysOut'
  BY <1>1 DEF DisabledStaysOut
<1> QED
  BY <1>2, <1>3 DEF ICopies, Usable

\* A copy reaches the cache.
LEMMA CopiesStored ==
    ASSUME TokenTypeOK, ICopies, NEW a \in Actors, place[a] \in {"fill", "refill"},
           entry' = [entry EXCEPT ![target[a]] = copy[a]],
           rows' = rows, lagging' = lagging,
           NEW p \in TokenPlaces, NEW t, NEW r, Proceed(a, p, t, r),
           p = "refill" => t = target[a] /\ r = copy[a], p # "fill"
    PROVE  ICopies'
<1>0. target[a] \in Tokens
  BY DEF TokenTypeOK
<1>1. \A u \in Tokens : Evicting(u) \subseteq Evicting(u)'
  BY DEF Proceed, Evicting, TokenTypeOK
<1>2. ASSUME NEW u \in Tokens, entry'[u] # NoCopy, entry'[u].active, ~Usable(u)'
      PROVE  Evicting(u)' # {} \/ u \in lagging'
  <2>1. ~Usable(u)
    BY <1>2 DEF Usable
  <2>2. CASE u = target[a]
    BY <1>0, <1>2, <2>1, <2>2 DEF ICopies, TokenTypeOK
  <2>3. CASE u # target[a]
    BY <1>0, <1>1, <1>2, <2>1, <2>3 DEF ICopies, DisabledStaysOut, TokenTypeOK
  <2> QED
    BY <2>2, <2>3
<1>3. ASSUME NEW b \in Actors, place'[b] \in {"fill", "refill"}, copy'[b].active,
             ~(rows'[target'[b]].live /\ rows'[target'[b]].active)
      PROVE  target'[b] \in lagging'
  <2>1. place[b] \in {"fill", "refill"} /\ target'[b] = target[b] /\ copy'[b] = copy[b]
    <3>1. CASE b = a
      BY <1>3, <3>1 DEF Proceed, TokenTypeOK
    <3>2. CASE b # a
      BY <1>3, <3>2 DEF Proceed, TokenTypeOK
    <3> QED
      BY <3>1, <3>2
  <2> QED
    BY <1>3, <2>1 DEF ICopies, Usable
<1>4. DisabledStaysOut'
  BY <1>2 DEF DisabledStaysOut
<1> QED
  BY <1>3, <1>4 DEF ICopies, Usable

LEMMA CopiesStep ==
    ASSUME TokenTypeOK, ICopies, [TokenNext]_tokenVars
    PROVE  ICopies'
<1>0. LocalsOK /\ StoreOK /\ rows \in [Tokens -> Row]
  BY Parts DEF TokenTypeOK
<1>1. ASSUME NEW a \in Actors, InsertToken(a)
      PROVE  ICopies'
  <2>0. \E t \in Tokens, q \in Grants :
          LET r == [live |-> TRUE, active |-> TRUE, quota |-> q] IN
          /\ t \notin issued
          /\ r \in Row
          /\ rows' = [rows EXCEPT ![t] = r]
          /\ ledger' = [ledger EXCEPT ![t] = q]
          /\ grant' = [grant EXCEPT ![t] = q]
          /\ issued' = issued \union {t}
          /\ Quit(a) \/ Proceed(a, "save", t, r)
          /\ UNCHANGED <<entry, mishaps, deleted, raced, lagging, crowded>>
    BY <1>0, <1>1, Inserted
  <2>1. PICK u \in Tokens, q \in Grants :
          LET row == [live |-> TRUE, active |-> TRUE, quota |-> q] IN
          /\ rows' = [rows EXCEPT ![u] = row]
          /\ Quit(a) \/ Proceed(a, "save", u, row)
          /\ entry' = entry /\ lagging' = lagging
    BY <2>0
  <2>2. \A v \in Tokens : Usable(v) => Usable(v)'
    BY <1>0, <2>1 DEF Usable
  <2>3. PICK p \in {"idle", "save"} : \E t, r : Proceed(a, p, t, r)
    <3>1. ASSUME NEW p \in {"idle", "save"}, NEW t, NEW r, Proceed(a, p, t, r)
          PROVE  \E p2 \in {"idle", "save"} : \E t2, r2 : Proceed(a, p2, t2, r2)
      BY <3>1
    <3> QED
      BY <2>1, <3>1 DEF Quit
  <2>4. place[a] # "evict" /\ p \in TokenPlaces
    BY <1>1 DEF InsertToken, TokenPlaces
  <2> QED
    BY <2>1, <2>2, <2>3, <2>4, CopiesKept
<1>2. ASSUME NEW a \in Actors, SaveToken(a)
      PROVE  ICopies'
  <2>1. PICK r \in Row : rows' = [rows EXCEPT ![target[a]] = r]
    BY <1>0, <1>2, Saved
  <2>2. target[a] \in Tokens
    BY <1>0, <1>2, Saved
  <2>3. place[a] = "save" /\ GoEvict(a) /\ Overtake(target[a]) /\ entry' = entry
    BY <1>2 DEF SaveToken
  <2> QED
    BY <2>1, <2>2, <2>3, CopiesOvertaken
<1>3. ASSUME NEW a \in Actors, DeleteRow(a)
      PROVE  ICopies'
  <2>1. target[a] \in Tokens
    BY <1>3 DEF DeleteRow, TokenTypeOK
  <2>2. /\ rows' = [rows EXCEPT ![target[a]] = NoRow]
        /\ place[a] = "delete" /\ GoEvict(a) /\ Overtake(target[a]) /\ entry' = entry
    BY <1>3 DEF DeleteRow
  <2> QED
    BY <2>1, <2>2, CopiesOvertaken
<1>4. ASSUME NEW a \in Actors, Deduct(a)
      PROVE  ICopies'
  <2>1. \A u \in Tokens : Usable(u) => Usable(u)'
    BY <1>0, <1>4 DEF Deduct, Usable, Row
  <2>2. PICK p \in {"idle", "evict"} : \E t, r : Proceed(a, p, t, r)
    <3>1. ASSUME NEW p \in {"idle", "evict"}, NEW t, NEW r, Proceed(a, p, t, r)
          PROVE  \E p2 \in {"idle", "evict"} : \E t2, r2 : Proceed(a, p2, t2, r2)
      BY <3>1
    <3> QED
      BY <1>4, <3>1 DEF Deduct, GoEvict, Quit
  <2>3. place[a] = "deduct" /\ entry' = entry /\ lagging' = lagging /\ p \in TokenPlaces
    BY <1>4 DEF Deduct, TokenPlaces
  <2> QED
    BY <2>1, <2>2, <2>3, CopiesKept
<1>5. ASSUME NEW a \in Actors,
             CountTokens(a) \/ ReadForEdit(a) \/ ReadForDelete(a) \/ ReadForDeduct(a)
                \/ Authenticate(a)
      PROVE  ICopies'
  <2>1. PICK p \in TokenPlaces \ {"fill", "refill"} : \E t, r : Proceed(a, p, t, r)
    <3>1. ASSUME NEW p \in TokenPlaces \ {"fill", "refill"}, NEW t, NEW r, Proceed(a, p, t, r)
          PROVE  \E p2 \in TokenPlaces \ {"fill", "refill"} : \E t2, r2 : Proceed(a, p2, t2, r2)
      BY <3>1
    <3> QED
      BY <1>5, <3>1 DEF CountTokens, ReadForEdit, ReadForDelete, ReadForDeduct,
                Authenticate, Quit, Pass, TokenPlaces
  <2>2. place[a] = "idle" /\ rows' = rows /\ entry' = entry /\ lagging' = lagging
    BY <1>5 DEF CountTokens, ReadForEdit, ReadForDelete, ReadForDeduct, Authenticate
  <2>3. \A u \in Tokens : Usable(u) => Usable(u)'
    BY <2>2 DEF Usable
  <2> QED
    BY <2>1, <2>2, <2>3, CopiesKept
<1>6. ASSUME NEW a \in Actors, LookupKey(a)
      PROVE  ICopies'
  <2>1. place[a] = "lookup" /\ target[a] \in Tokens /\ rows' = rows /\ entry' = entry
    BY <1>6 DEF LookupKey, TokenTypeOK
  <2>2. /\ lagging \subseteq lagging'
        /\ \A u \in Tokens : Usable(u)' = Usable(u)
    BY <1>6, <2>1 DEF LookupKey, Usable
  <2>3. CASE Quit(a)
    BY <2>1, <2>2, <2>3, CopiesKept DEF Quit, TokenPlaces
  <2>4. CASE Proceed(a, "refill", target[a], entry[target[a]]) /\ entry[target[a]] # NoCopy
    <3>1. ~Usable(target[a]) => target[a] \in lagging'
      BY <1>6, <2>4 DEF LookupKey
    <3> QED
      BY <2>1, <2>2, <2>4, <3>1, CopiesKept DEF TokenPlaces
  <2>5. CASE Proceed(a, "fill", target[a], rows[target[a]]) /\ rows[target[a]].live
    <3>1. rows[target[a]].active => Usable(target[a])
      BY <2>5 DEF Usable
    <3> QED
      BY <2>1, <2>2, <2>5, <3>1, CopiesKept DEF TokenPlaces
  <2> QED
    BY <1>6, <2>3, <2>4, <2>5 DEF LookupKey
<1>7. ASSUME NEW a \in Actors, Fill(a) \/ Refill(a)
      PROVE  ICopies'
  <2>1. /\ place[a] \in {"fill", "refill"}
        /\ entry' = [entry EXCEPT ![target[a]] = copy[a]]
        /\ rows' = rows /\ lagging' = lagging
    BY <1>7 DEF Fill, Refill
  <2>2. Proceed(a, "refill", target[a], copy[a]) \/ Quit(a) \/ Pass(a, target[a])
    BY <1>7 DEF Fill, Refill
  <2>3. PICK p, t, r :
            /\ p \in {"refill", "idle", "evict"}
            /\ Proceed(a, p, t, r) /\ (p = "refill" => t = target[a] /\ r = copy[a])
    BY <2>2 DEF Quit, Pass
  <2> QED
    BY <2>1, <2>3, CopiesStored DEF TokenPlaces
<1>8. ASSUME NEW a \in Actors, Evict(a)
      PROVE  ICopies'
  <2>1. place[a] = "evict" /\ target[a] \in Tokens /\ rows' = rows /\ Quit(a)
    BY <1>8 DEF Evict, TokenTypeOK
  <2>2. \A u \in Tokens \ {target[a]} : Evicting(u) \subseteq Evicting(u)'
    BY <2>1 DEF Quit, Proceed, Evicting, TokenTypeOK
  <2>3. \A b \in Actors : place'[b] \in {"fill", "refill"} =>
            b # a /\ place'[b] = place[b] /\ target'[b] = target[b] /\ copy'[b] = copy[b]
    BY <2>1 DEF Quit, Proceed, TokenTypeOK
  <2>4. CASE entry' = [entry EXCEPT ![target[a]] = NoCopy] /\ Settled(target[a])
    BY <2>1, <2>2, <2>3, <2>4, CopiesSettled
  <2>5. CASE lagging' = lagging \union {target[a]} /\ entry' = entry
    <3>1. \A u \in Tokens : Usable(u)' = Usable(u)
      BY <2>1 DEF Usable
    <3>2. DisabledStaysOut'
      BY <2>2, <2>5, <3>1 DEF ICopies, DisabledStaysOut
    <3>3. ASSUME NEW b \in Actors, place'[b] \in {"fill", "refill"}, copy'[b].active,
                 ~(rows'[target'[b]].live /\ rows'[target'[b]].active)
          PROVE  target'[b] \in lagging'
      BY <2>1, <2>3, <2>5, <3>3 DEF ICopies, Usable
    <3> QED
      BY <3>2, <3>3 DEF ICopies, Usable
  <2> QED
    BY <1>8, <2>4, <2>5 DEF Evict
<1>9. ASSUME NEW t \in Tokens, EntryExpires(t)
      PROVE  ICopies'
  <2>1. /\ entry' = [entry EXCEPT ![t] = NoCopy] /\ Settled(t) /\ rows' = rows
        /\ place' = place /\ target' = target /\ copy' = copy
    BY <1>9 DEF EntryExpires
  <2>2. \A u \in Tokens : Evicting(u)' = Evicting(u)
    BY <2>1 DEF Evicting
  <2> QED
    BY <2>1, <2>2, CopiesSettled
<1>10. CASE UNCHANGED tokenVars
  BY <1>10 DEF tokenVars, ICopies, DisabledStaysOut, Usable, Evicting
<1> QED
  BY <1>1, <1>2, <1>3, <1>4, <1>5, <1>6, <1>7, <1>8, <1>9, <1>10
  DEF TokenNext, ActorStep

\* A token that was disabled or deleted passes no authentication from the cache
\* once its eviction has happened, unless that was lost or a reader overlapped
\* with the change.
THEOREM DisabledTokensStayOut == TokenSpec => []DisabledStaysOut
<1>1. TokenInit => ICopies
  BY DEF TokenInit, ICopies, DisabledStaysOut
<1>2. TokenTypeOK /\ ICopies /\ [TokenNext]_tokenVars => ICopies'
  BY CopiesStep
<1>3. ICopies => DisabledStaysOut
  BY DEF ICopies
<1> QED
  BY <1>1, <1>2, <1>3, TypeInvariant, PTL DEF TokenSpec
=============================================================================
