---------------------------- MODULE MCGeneration ----------------------------
(***************************************************************************)
(* What comes before an upstream makes something - a request's token, the  *)
(* creation of a task under an idempotency key, the choice of a source,    *)
(* the account of the resource pool - for TLC.  They share no state, so a  *)
(* behaviour is one of any single component: `part` says which, the others *)
(* stay where they start.                                                  *)
(***************************************************************************)
EXTENDS GenerationJobs, ApiTokens, AccountPool, ProviderChoice, TLC

CONSTANTS
    Parts,          \* components that a run is about
    a1, a2, s1      \* accounts and a session

VARIABLE part

\* One account, and one that is to be created.
MCStored == (a1 :> s1) @@ (a2 :> NoSession)

\* A quota of one call, and one that is spent before the first.
MCGrants == {1, -1}

MCInit ==
    /\ part \in Parts
    /\ Init
    /\ TokenInit
    /\ PoolInit
    /\ ChoiceInit

MCKeys ==
    /\ part = "keys" /\ Next
    /\ UNCHANGED <<part, tokenVars, poolVars, choiceVars>>
MCTokens ==
    /\ part = "tokens" /\ TokenNext
    /\ UNCHANGED <<part, vars, poolVars, choiceVars>>
MCPool ==
    /\ part = "pool" /\ PoolNext
    /\ UNCHANGED <<part, vars, tokenVars, choiceVars>>
MCChoice ==
    /\ part = "choice" /\ ChoiceNext
    /\ UNCHANGED <<part, vars, tokenVars, poolVars>>

MCNext == MCKeys \/ MCTokens \/ MCPool \/ MCChoice

MCSpec == MCInit /\ [][MCNext]_<<part, vars, tokenVars, poolVars, choiceVars>>

\* What tells two states apart: the other components are where they started.
Own ==
    <<part, CASE part = "keys" -> vars
              [] part = "tokens" -> tokenVars
              [] part = "pool" -> poolVars
              [] part = "choice" -> choiceVars>>

\* Creators, Actors, Threads and Dispatches are the same model values.
Symmetry == Permutations(Threads)
=============================================================================
