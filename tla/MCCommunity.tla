---------------------------- MODULE MCCommunity ----------------------------
(***************************************************************************)
(* Five parts of the community: the reactions to a post or comment, posts   *)
(* with their shares and comments, the hashtags of a post, the hashtags of  *)
(* a text, and a scroll through a list.  What one does to another is an     *)
(* action of the other (Remove of Reactions, Leave of Feed), so no step of  *)
(* one part reads or writes the variables of another; one run explores them *)
(* side by side, each while the others rest.                                *)
(***************************************************************************)
EXTENDS Reactions, TLC

CONSTANTS
    Slots,                           \* request slots of PostTags and Threads
    Authors, Posts, Comments,        \* for Threads
    TagNames, TagsOf, Bodies, TagIds,  \* for PostTags
    b0, b1, b12, t1, t2,             \* its texts and tags
    Fold, Digits, Marks, Hash, Slash, OtherCharacters,  \* for HashTags
    MaxTagLength, TagLimits, MaxText,
    Rows, MaxClock, Limits           \* for Feed

VARIABLES
    moving,                                      \* the part that takes steps
    post, comment, thread,                       \* of Threads
    body, postRemoved, tag, tagUsed, editor,     \* of PostTags
    text,                                        \* of HashTags
    clock, newest, stamp, status, cursor, over, left, due, shown  \* of Feed

threadVars == <<post, comment, thread>>
tagVars == <<body, postRemoved, tag, tagUsed, editor>>
textVars == <<text>>
feedVars == <<clock, newest, stamp, status, cursor, over, left, due, shown>>

H == INSTANCE Threads WITH
        Users <- Authors, Moderators <- {}, Reqs <- Slots, req <- thread

T == INSTANCE PostTags WITH
        Tags <- TagNames, Ids <- TagIds, Reqs <- Slots,
        removed <- postRemoved, used <- tagUsed, req <- editor

X == INSTANCE HashTags WITH Others <- OtherCharacters

F == INSTANCE Feed

\* A text without a tag, one with a tag, and one with both.
MCTagsOf == (b0 :> {}) @@ (b1 :> {t1}) @@ (b12 :> {t1, t2})

\* Letters, one of them a capital and one that folds to two.
MCFold == ("s" :> <<"s">>) @@ ("S" :> <<"s">>) @@ ("z" :> <<"s", "s">>)

\* What the constants of the instances have to be.
ASSUME InstancesOK == H!ConstantsOK /\ T!ConstantsOK /\ X!ConstantsOK /\ F!ConstantsOK

\* Parts that never meet share model values, so that few permutations serve
\* them all: Slots are also the users and kinds of Reactions, and the request
\* slots of Reactions are also the posts of Threads.
Symmetry == Permutations(Slots) \cup Permutations(Reqs) \cup Permutations(Comments)

ASSUME SymmetryIsSound ==
    /\ {Users, Kinds} \subseteq {Slots}
    /\ Posts = Reqs
    /\ Cardinality(Targets) = 1 /\ Cardinality(Authors) = 1

MCInit ==
    /\ moving \in {"reactions", "threads", "tags", "text", "feed"}
    /\ Init
    /\ H!Init
    /\ T!Init
    /\ X!Init
    /\ newest \in IF moving = "feed" THEN BOOLEAN ELSE {TRUE}
    /\ F!Init

MCNext ==
    \/ /\ moving = "reactions" /\ Next
       /\ UNCHANGED <<moving, threadVars, tagVars, textVars, feedVars>>
    \/ /\ moving = "threads" /\ H!Next
       /\ UNCHANGED <<moving, vars, tagVars, textVars, feedVars>>
    \/ /\ moving = "tags" /\ T!Next
       /\ UNCHANGED <<moving, vars, threadVars, textVars, feedVars>>
    \/ /\ moving = "text" /\ X!Next
       /\ UNCHANGED <<moving, vars, threadVars, tagVars, feedVars>>
    \/ /\ moving = "feed" /\ F!Next
       /\ UNCHANGED <<moving, vars, threadVars, tagVars, textVars>>

MCSpec == MCInit /\ [][MCNext]_<<moving, vars, threadVars, tagVars, textVars, feedVars>>

-----------------------------------------------------------------------------
\* The variables of every part hold what its tables and handlers may hold.
TypesOK == TypeOK /\ H!TypeOK /\ T!TypeOK /\ X!TypeOK /\ F!TypeOK

\* Shares and replies are counted exactly, comments never too high (Threads).
ConversationExact == H!ConversationExact

\* Once it is removed and what was in flight has ended, a target gains no
\* reaction and a post no comment (Reactions, Threads).
RemovedIsQuiet == RemovedGainsNothing /\ H!RemovedPostIsQuiet

\* A count falls short only by a doubled unreact or a doubled deletion
\* (Reactions, Threads).
OnlyDoubledDrifts == OnlyStaleUnreactDrifts /\ H!OnlyDoubleDeleteDrifts

\* An edit that ran alone repairs the tags of a post (PostTags).
EditRepairs == T!EditRepairs

\* The hashtags of a text are sound, final and found as written (HashTags).
TagsHold == X!TagsHold

\* A scroll shows every row once (Feed).
EveryRowOnce == F!EveryRowOnce

\* A next_cursor leads to another row, unless rows left the list (Feed).
CursorLeadsOn == F!CursorLeadsOn

=============================================================================
