----------------------------- MODULE MCContent -----------------------------
(***************************************************************************)
(* Content on small tables, and beside it the slugs of several tests, each  *)
(* part explored while the other rests: nothing in the groups and items of  *)
(* a paper depends on its slug.                                             *)
(***************************************************************************)
EXTENDS Content, TLC

CONSTANTS
    Tests, Titles, Candidates,  \* for Slugs
    ta, tb, tc                  \* its titles

VARIABLES
    moving,                     \* the part that takes steps
    named, usedTest, titling    \* of Slugs

slugVars == <<named, usedTest, titling>>

\* Two titles of one slug, and a title that is slugified to the second slug of
\* the others.
MCCandidates ==
    (ta :> <<"a", "a-2", "a-3">>) @@ (tb :> <<"a", "a-2", "a-3">>)
        @@ (tc :> <<"a-2", "a-2-2", "a-2-3">>)

Slug == INSTANCE Slugs WITH req <- titling

ASSUME InstancesOK == Slug!ConstantsOK

\* The bodies sent to PATCH /tests.
MCTestPatches ==
    [status: {None, "draft", "published"}, head: {None} \cup BOOLEAN]
        \ {[status |-> None, head |-> None]}

MCMoves == 0..Cardinality(Groups) - 1

\* The bodies sent to PATCH /questions: a place, or a number and a longer span,
\* of which the flush writes what is not as it was loaded.
MCQuestionPatches ==
    [to: 0..Cardinality(Questions) - 1, num: {None}, span: {None}]
        \cup [to: {None}, num: {1}, span: {2}]

MCQuestionBodies ==
    [num: {None, 1}, span: {1}]

Symmetry == Permutations(Groups) \cup Permutations(Questions) \cup Permutations(Reqs)

MCInit ==
    /\ moving \in {"paper", "slugs"}
    /\ test \in IF moving = "paper" THEN TestRow ELSE {[status |-> "draft", head |-> TRUE]}
    /\ Init
    /\ Slug!Init

MCNext ==
    \/ moving = "paper" /\ Next /\ UNCHANGED <<moving, slugVars>>
    \/ moving = "slugs" /\ Slug!Next /\ UNCHANGED <<moving, vars>>

MCSpec == MCInit /\ [][MCNext]_<<moving, vars, slugVars>>

-----------------------------------------------------------------------------
\* The variables of both parts hold what their tables and handlers may hold.
TypesOK == TypeOK /\ Slug!TypeOK

\* An author alone gets the first free address; one that says another title is
\* the work of two (Slugs).
SlugsSettle == Slug!SlugsSettle

=============================================================================
