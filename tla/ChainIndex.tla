------------------------------ MODULE ChainIndex ------------------------------
(***************************************************************************)
(* What the block index promises to everything that reads it: the trailing *)
(* passes, the projections and the OData services. It is a chain that      *)
(* grows by one child of its newest block, or loses blocks at its upper    *)
(* end; and nobody loses a block without a new generation, so a reader     *)
(* that finds the generation it began with has seen a growing chain.       *)
(* Crawler implements it.                                                  *)
(***************************************************************************)
EXTENDS Naturals

CONSTANTS
    ParentOf(_),  \* the block below a block
    HeightOf(_),  \* its height
    NoBlock       \* no block

VARIABLES
    index,      \* the stored blocks
    newest,     \* the last of them
    generation  \* number of times blocks were removed

indexVars == <<index, newest, generation>>

IndexInit == index = {} /\ newest = NoBlock /\ generation = 0

\* The first block, or a child of the newest one.
Extend ==
    /\ newest' \notin index
    /\ index = {} \/ ParentOf(newest') = newest
    /\ index' = index \cup {newest'}
    /\ UNCHANGED generation

\* What is above some stored block goes, or everything, or nothing after all.
Truncate ==
    /\ \/ newest' = NoBlock /\ index' = {}
       \/ newest' \in index /\ index' = {b \in index : HeightOf(b) <= HeightOf(newest')}
    /\ generation' = generation + 1

IndexNext == Extend \/ Truncate

IndexSpec == IndexInit /\ [][IndexNext]_indexVars
=============================================================================
