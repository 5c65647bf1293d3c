---------------------------- MODULE ProviderChoice ----------------------------
(***************************************************************************)
(* Which source ("provider group") a request is sent to: the candidates    *)
(* and their order, the session that goes on with the source that served   *)
(* it, and the rows of the sources, which administrators edit and every    *)
(* attempt counts in (scheduler/cascade_controller.go, its _traffic.go,    *)
(* repository/model_provider_repo.go, service/model_provider_service.go).  *)
(*                                                                         *)
(* Costs, latencies, health and weights may rank the candidates in any     *)
(* way.  A circuit open in the row, a capability that is missing and a     *)
(* route without the source exclude it for one request or another; the     *)
(* breaker and the rate limit refuse at any time.  New sources are new     *)
(* rows, which change nothing for the others, and are left out.            *)
(***************************************************************************)
EXTENDS Naturals, Sequences, FiniteSets

CONSTANTS
    Dispatches,     \* requests being dispatched, each over and over again
    Admins,         \* administrators editing a source
    Sources,
    NoSource,
    Dialogs,        \* sessions, of one operation and model
    NoDialog,
    Canaries,       \* sources marked as canary
    MaxRetries,
    MaxDispatches,  \* bound: requests
    MaxChanges,     \* bound: edits of the sources
    MaxLapses       \* bound: expired keys, failing Redis commands, deaths

ASSUME ChoiceAssumption ==
    /\ IsFiniteSet(Sources) /\ NoSource \notin Sources
    /\ NoDialog \notin Dialogs
    /\ Canaries \subseteq Sources
    /\ {MaxRetries, MaxDispatches, MaxChanges, MaxLapses} \subseteq Nat
    /\ MaxRetries > 0

VARIABLES
    offers,     \* offers[p]: the row of source p
    affinity,   \* affinity[d]: the source stored for session d
    leg,        \* leg[r]: what dispatch r does next
    dial,       \* dial[r]: its session
    order,      \* order[r]: the sources it will try
    tried,      \* tried[r]: how many of them it has
    desk,       \* desk[e]: the source, row and wish of an edit under way
    used, changes, lapses,
    usable,     \* history: usable[r]: sources that were fit for r, going by what
                \* was decided about them
    last,       \* history: last[d]: the source that answered d last
    adrift,     \* history: sessions whose key may not say so
    meant,      \* history: meant[p]: the row as each writer meant it
    reverted    \* history: sources whose row was replaced with an older one

dispatchLocals == <<leg, dial, order, tried>>
choiceBudgets == <<used, changes, lapses>>
choiceHistory == <<usable, last, adrift, meant, reverted>>
choiceVars == <<offers, affinity, dispatchLocals, desk, choiceBudgets, choiceHistory>>

Offer == [live : BOOLEAN, active : BOOLEAN, uses : Nat]
Wishes == {"enable", "disable", "other"}
Legs == {"idle", "ranked", "try", "tally", "keep", "count"}
NoEdit == [source |-> NoSource, row |-> [live |-> FALSE, active |-> FALSE, uses |-> 0],
           wish |-> "other"]

\* Every variable has values of its type, and a dispatch under way has a source to
\* turn to.
ChoiceTypeOK ==
    /\ offers \in [Sources -> Offer]
    /\ affinity \in [Dialogs -> Sources \union {NoSource}]
    /\ leg \in [Dispatches -> Legs]
    /\ dial \in [Dispatches -> Dialogs \union {NoDialog}]
    /\ order \in [Dispatches -> Seq(Sources)]
    /\ tried \in [Dispatches -> Nat]
    /\ \A r \in Dispatches : leg[r] # "idle" => tried[r] < Len(order[r])
    /\ desk \in [Admins -> [source : Sources \union {NoSource}, row : Offer, wish : Wishes]]
    /\ {used, changes, lapses} \subseteq Nat
    /\ usable \in [Dispatches -> SUBSET Sources]
    /\ last \in [Dialogs -> Sources \union {NoSource}]
    /\ adrift \subseteq Dialogs
    /\ meant \in [Sources -> Offer]
    /\ reverted \subseteq Sources

ChoiceInit ==
    /\ offers = [p \in Sources |-> [live |-> TRUE, active |-> TRUE, uses |-> 0]]
    /\ affinity = [d \in Dialogs |-> NoSource]
    /\ leg = [r \in Dispatches |-> "idle"]
    /\ dial = [r \in Dispatches |-> NoDialog]
    /\ order = [r \in Dispatches |-> <<>>]
    /\ tried = [r \in Dispatches |-> 0]
    /\ desk = [e \in Admins |-> NoEdit]
    /\ used = 0 /\ changes = 0 /\ lapses = 0
    /\ usable = [r \in Dispatches |-> {}]
    /\ last = [d \in Dialogs |-> NoSource]
    /\ adrift = {}
    /\ meant = offers
    /\ reverted = {}

Members(q) == {q[i] : i \in DOMAIN q}

\* Every order of S: rankProviders sorts by one strategy or another, for each
\* model of the route in turn.
Orders(S) == {q \in [1 .. Cardinality(S) -> S] : Members(q) = S}

\* Where q[i] comes when those in S are first and the order is kept otherwise:
\* after as many as these.
Place(S, q, i) ==
    Cardinality({j \in DOMAIN q : \/ q[j] \in S /\ q[i] \notin S
                                  \/ (q[j] \in S <=> q[i] \in S) /\ j <= i})

\* Those in S first, otherwise as before.
Ahead(S, q) == [k \in DOMAIN q |-> q[CHOOSE i \in DOMAIN q : Place(S, q, i) = k]]

Fit(rowsOf) == {p \in Sources : rowsOf[p].live /\ rowsOf[p].active}
Current(r) == order[r][tried[r] + 1]

Lapse(happens) ==
    /\ happens => lapses < MaxLapses
    /\ lapses' = IF happens THEN lapses + 1 ELSE lapses

Change == changes < MaxChanges /\ changes' = changes + 1

\* Another dispatch of d is at one of the legs.
Beside(r, d, legs) == \E u \in Dispatches \ {r} : dial[u] = d /\ leg[u] \in legs

Rest(r) ==
    /\ leg' = [leg EXCEPT ![r] = "idle"]
    /\ dial' = [dial EXCEPT ![r] = NoDialog]
    /\ order' = [order EXCEPT ![r] = <<>>]
    /\ tried' = [tried EXCEPT ![r] = 0]
    /\ usable' = [usable EXCEPT ![r] = {}]

Go(r, l) == leg' = [leg EXCEPT ![r] = l] /\ UNCHANGED <<dial, order, tried, usable>>

Wished(row, w) == IF w = "other" THEN row ELSE [row EXCEPT !.active = (w = "enable")]

Counted(row) == IF row.live THEN [row EXCEPT !.uses = @ + 1] ELSE row

-----------------------------------------------------------------------------
(* Slips: what some definitions would be with a mistake in the code.  They  *)
(* are part of no specification; each shows that a property would notice it. *)

\* Sources outside the experiment are not put last but left out.
ExperimentOnly(q) ==
    {SelectSeq(q, LAMBDA p : p \in S) : S \in SUBSET Members(q) \ {{}}}

\* The session comes before the split by experiment, not after it.
PreferEarly(r) ==
    /\ leg[r] = "ranked"
    /\ LET d == dial[r]
           p == IF d = NoDialog THEN NoSource ELSE affinity[d]
       IN  \E S \in SUBSET Members(order[r]) \ {{}} :
                order' = [order EXCEPT ![r] = Ahead(S, Ahead({p}, @))]
    /\ adrift' = IF Beside(r, dial[r], {"keep"}) /\ dial[r] # NoDialog
                 THEN adrift \union {dial[r]} ELSE adrift
    /\ leg' = [leg EXCEPT ![r] = "try"]
    /\ UNCHANGED <<offers, affinity, dial, tried, desk, choiceBudgets, usable, last,
                   meant, reverted>>

\* The statistics are saved with the row: a deleted source is back.
IncrementBySave(r) ==
    /\ offers' = [offers EXCEPT ![Current(r)] =
                        [@ EXCEPT !.live = TRUE, !.uses = @ + 1]]
    /\ meant' = [meant EXCEPT ![Current(r)] = Counted(@)]

-----------------------------------------------------------------------------
(* applyTrafficGovernance: each rule puts some of the candidates first.     *)

\* Those that carry the request's tag.
TagFilter(q) == {Ahead(S, q) : S \in SUBSET Members(q)}

\* A share of the requests begins with the canaries, the others end with them.
CanaryRouting(q) == {Ahead(Canaries, q), Ahead(Sources \ Canaries, q)}

\* Those of the request's experiment, or without any one that the weights pick.
ExperimentSplit(q) == {Ahead(S, q) : S \in SUBSET Members(q) \ {{}}}

-----------------------------------------------------------------------------
(* A dispatch.                                                              *)

\* buildProvidersForDispatch reads the rows, keeps those that are active and
\* whose circuit is closed, ranks them and applies the rules.
Gather(r, d) ==
    /\ leg[r] = "idle"
    /\ used < MaxDispatches /\ used' = used + 1
    /\ \E shut \in SUBSET Sources :
        /\ Fit(offers) \ shut # {}
        /\ usable' = [usable EXCEPT ![r] = Fit(meant) \ shut]
        /\ \E q \in Orders(Fit(offers) \ shut) :
            \E byTag \in TagFilter(q) : \E byCanary \in CanaryRouting(byTag) :
                order' \in {[order EXCEPT ![r] = s] : s \in ExperimentSplit(byCanary)}
    /\ leg' = [leg EXCEPT ![r] = "ranked"]
    /\ dial' = [dial EXCEPT ![r] = d]
    /\ UNCHANGED <<offers, affinity, tried, desk, changes, lapses, last, adrift, meant,
                   reverted>>

\* applySessionAffinityPriority reads the session's source, and puts that first
\* if it is a candidate.  A failing command reads as none.
Prefer(r) ==
    /\ leg[r] = "ranked"
    /\ \E lost \in BOOLEAN :
        /\ lost => dial[r] # NoDialog
        /\ Lapse(lost)
        /\ LET d == dial[r]
               p == IF d = NoDialog \/ lost THEN NoSource ELSE affinity[d]
           IN  /\ order' = [order EXCEPT ![r] = Ahead({p}, @)]
               /\ adrift' = IF d # NoDialog /\ (lost \/ Beside(r, d, {"keep"}))
                            THEN adrift \union {d} ELSE adrift
    /\ leg' = [leg EXCEPT ![r] = "try"]
    /\ UNCHANGED <<offers, affinity, dial, tried, desk, used, changes, usable, last,
                   meant, reverted>>

\* The next source, if there is one and a retry is left.
TryNext(r) ==
    IF tried[r] + 1 < Len(order[r]) /\ tried[r] + 1 < MaxRetries
    THEN /\ leg' = [leg EXCEPT ![r] = "try"]
         /\ tried' = [tried EXCEPT ![r] = @ + 1]
         /\ UNCHANGED <<dial, order, usable>>
    ELSE Rest(r)

\* The breaker or the rate limit says no.
Rebuff(r) ==
    /\ leg[r] = "try"
    /\ TryNext(r)
    /\ UNCHANGED <<offers, affinity, desk, choiceBudgets, last, adrift, meant, reverted>>

Miss(r) ==
    /\ leg[r] = "try"
    /\ Go(r, "tally")
    /\ UNCHANGED <<offers, affinity, desk, choiceBudgets, last, adrift, meant, reverted>>

\* IncrementStats, one statement.
Increment(r) ==
    /\ offers' = [offers EXCEPT ![Current(r)] = Counted(@)]
    /\ meant' = [meant EXCEPT ![Current(r)] = Counted(@)]

\* The failure is counted, if the statement succeeds, and the next source tried.
TallyMiss(r) ==
    /\ leg[r] = "tally"
    /\ TryNext(r)
    /\ Increment(r) \/ UNCHANGED <<offers, meant>>
    /\ UNCHANGED <<affinity, desk, choiceBudgets, last, adrift, reverted>>

\* The source answers.
Answered(r) ==
    /\ leg[r] = "try"
    /\ Go(r, "keep")
    /\ LET d == dial[r] IN
        IF d = NoDialog THEN UNCHANGED <<last, adrift>>
        ELSE /\ last' = [last EXCEPT ![d] = Current(r)]
             /\ adrift' = IF Beside(r, d, {"try", "tally", "keep"})
                          THEN adrift \union {d} ELSE adrift
    /\ UNCHANGED <<offers, affinity, desk, choiceBudgets, meant, reverted>>

\* persistSessionAffinity.
KeepAffinity(r) ==
    /\ leg[r] = "keep"
    /\ Go(r, "count")
    /\ \E lost \in BOOLEAN :
        /\ lost => dial[r] # NoDialog
        /\ Lapse(lost)
        /\ LET d == dial[r] IN
            IF d = NoDialog THEN UNCHANGED <<affinity, adrift>>
            ELSE /\ affinity' = IF lost THEN affinity ELSE [affinity EXCEPT ![d] = Current(r)]
                 /\ adrift' = IF lost THEN adrift \union {d}
                              ELSE IF last[d] = Current(r)
                                      /\ ~Beside(r, d, {"try", "tally", "keep"})
                              THEN adrift \ {d} ELSE adrift
    /\ UNCHANGED <<offers, desk, used, changes, last, meant, reverted>>

\* The gateway counts the success, unless the answer has no usage or a charge fails.
CountSuccess(r) ==
    /\ leg[r] = "count"
    /\ Rest(r)
    /\ Increment(r) \/ UNCHANGED <<offers, meant>>
    /\ UNCHANGED <<affinity, desk, choiceBudgets, last, adrift, reverted>>

\* The process of r dies.
Perish(r) ==
    /\ leg[r] # "idle"
    /\ Lapse(TRUE)
    /\ Rest(r)
    /\ adrift' = IF leg[r] = "keep" /\ dial[r] # NoDialog
                 THEN adrift \union {dial[r]} ELSE adrift
    /\ UNCHANGED <<offers, affinity, desk, used, changes, last, meant, reverted>>

\* The session's key expires.
SessionExpires(d) ==
    /\ affinity[d] # NoSource
    /\ Lapse(TRUE)
    /\ affinity' = [affinity EXCEPT ![d] = NoSource]
    /\ adrift' = adrift \union {d}
    /\ UNCHANGED <<offers, dispatchLocals, desk, used, changes, usable, last, meant,
                   reverted>>

-----------------------------------------------------------------------------
(* The administrators.                                                      *)

\* Update, Enable and Disable read the whole row ...
ReadOffer(e, p) ==
    /\ desk[e].source = NoSource
    /\ offers[p].live
    /\ Change
    /\ \E w \in Wishes :
            desk' = [desk EXCEPT ![e] = [source |-> p, row |-> offers[p], wish |-> w]]
    /\ UNCHANGED <<offers, affinity, dispatchLocals, used, lapses, choiceHistory>>

\* ... and save the whole row; one that was deleted is inserted again.
SaveOffer(e) ==
    /\ desk[e].source # NoSource
    /\ LET p == desk[e].source
           row == Wished(desk[e].row, desk[e].wish)
       IN  /\ offers' = [offers EXCEPT ![p] = row]
           /\ reverted' = IF offers[p] = desk[e].row THEN reverted ELSE reverted \union {p}
           /\ meant' = [meant EXCEPT ![p] =
                            IF p \in reverted' THEN row ELSE Wished(@, desk[e].wish)]
    /\ desk' = [desk EXCEPT ![e] = NoEdit]
    /\ UNCHANGED <<affinity, dispatchLocals, choiceBudgets, usable, last, adrift>>

\* BatchUpdateStatus, one column in one statement.
BatchStatus(P, active) ==
    /\ P # {}
    /\ Change
    /\ offers' = [p \in Sources |->
            IF p \in P THEN [offers[p] EXCEPT !.active = active] ELSE offers[p]]
    /\ meant' = [p \in Sources |->
            IF p \in P THEN [meant[p] EXCEPT !.active = active] ELSE meant[p]]
    /\ UNCHANGED <<affinity, dispatchLocals, desk, used, lapses, usable, last, adrift,
                   reverted>>

DeleteOffer(p) ==
    /\ offers[p].live
    /\ Change
    /\ offers' = [offers EXCEPT ![p].live = FALSE]
    /\ meant' = [meant EXCEPT ![p].live = FALSE]
    /\ UNCHANGED <<affinity, dispatchLocals, desk, used, lapses, usable, last, adrift,
                   reverted>>

DispatchStep(r) ==
    \/ \E d \in Dialogs \union {NoDialog} : Gather(r, d)
    \/ Prefer(r) \/ Rebuff(r) \/ Miss(r) \/ TallyMiss(r)
    \/ Answered(r) \/ KeepAffinity(r) \/ CountSuccess(r) \/ Perish(r)

ChoiceNext ==
    \/ \E r \in Dispatches : DispatchStep(r)
    \/ \E d \in Dialogs : SessionExpires(d)
    \/ \E e \in Admins, p \in Sources : ReadOffer(e, p)
    \/ \E e \in Admins : SaveOffer(e)
    \/ \E P \in SUBSET Sources, active \in BOOLEAN : BatchStatus(P, active)
    \/ \E p \in Sources : DeleteOffer(p)

ChoiceSpec == ChoiceInit /\ [][ChoiceNext]_choiceVars

-----------------------------------------------------------------------------
(* Properties.                                                              *)

\* Whatever the rules put first, a dispatch has each source that was fit for it
\* in its order exactly once, and no other: none was disabled or deleted before,
\* unless an overlapping save has undone that.
ChainIsWhole ==
    \A r \in Dispatches : leg[r] # "idle" =>
        /\ Len(order[r]) = Cardinality(Members(order[r]))
        /\ Members(order[r]) \ reverted = usable[r] \ reverted

\* A session goes on with the source that answered it last, whatever the tags,
\* canaries and experiments say, if that is a candidate.  The exceptions: its key
\* expired, a command for the key failed, or requests of the session overlapped.
SessionSticks ==
    \A r \in Dispatches :
        (/\ leg[r] = "try" /\ tried[r] = 0 /\ dial[r] # NoDialog
         /\ dial[r] \notin adrift
         /\ last[dial[r]] \in Members(order[r]))
            => Current(r) = last[dial[r]]

\* What administrators decide about a source and what attempts count in its row
\* stays, and a deleted source stays deleted, unless an edit saved a row that had
\* changed since it was read.
DecisionsKept ==
    \A p \in Sources \ reverted : offers[p] = meant[p]
=============================================================================
