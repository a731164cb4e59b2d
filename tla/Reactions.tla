----------------------------- MODULE Reactions -----------------------------
(***************************************************************************)
(* Reactions to posts and comments: react and unreact of                    *)
(* app/routers/community.py over the community_reactions table and the      *)
(* reaction_count column of the target.  Posts and comments take the same   *)
(* path (target_type only selects the table), so both are a target here.    *)
(*                                                                          *)
(* A reaction row keeps its id: the ORM deletes and updates the row it has  *)
(* loaded, by id, and a user who reacts again after taking a reaction back  *)
(* owns a new row.                                                          *)
(***************************************************************************)
EXTENDS Integers, FiniteSets

CONSTANTS
    Users,
    Targets,   \* posts and comments that can be reacted to
    Kinds,     \* the kinds of reaction
    Ids,       \* ids of reaction rows; finite, which bounds a behaviour
               \* (numbers only to take them in order: they are never compared)
    Reqs,      \* request slots
    None       \* no value

ASSUME IdsAssumption == Ids \subseteq Nat

ASSUME NoneAssumption == None \notin Ids /\ None \notin Users
                         /\ None \notin Targets /\ None \notin Kinds

VARIABLES
    removed,   \* targets whose deleted_at is set
    reaction,  \* the community_reactions table: a function whose domain is its row ids
    used,      \* row ids ever generated
    count,     \* reaction_count of each target
    req        \* what each request slot is doing

vars == <<removed, reaction, used, count, req>>

ReactionRow == [user: Users, target: Targets, kind: Kinds]

Stages == {"idle", "look", "add", "swap", "take"}

\* A handler's locals: who, on what, with which kind, the row it loaded and
\* the kind that row had then.
Request ==
    [pc: Stages, user: Users \cup {None}, target: Targets \cup {None},
     kind: Kinds \cup {None}, row: Ids \cup {None}, seen: Kinds \cup {None}]

Idle == [pc |-> "idle", user |-> None, target |-> None, kind |-> None,
         row |-> None, seen |-> None]

Held(u, t) == {i \in DOMAIN reaction : reaction[i].user = u /\ reaction[i].target = t}

On(t) == {i \in DOMAIN reaction : reaction[i].target = t}

-----------------------------------------------------------------------------
Init ==
    /\ removed = {}
    /\ reaction = [i \in {} |-> 0]
    /\ used = {}
    /\ count = [t \in Targets |-> 0]
    /\ req = [q \in Reqs |-> Idle]

Ends(q) == req' = [req EXCEPT ![q] = Idle]

\* Mutant of Reactable: a removed target is not refused.
AnyTarget(t) == t \in Targets

\* _reaction_target: the target, refused when it has been removed.
Reactable(t) == t \notin removed

(* react: load the target ...                                                *)
ReactTarget(q, u, t, k) ==
    /\ req[q] = Idle
    /\ Reactable(t)
    /\ req' = [req EXCEPT ![q] =
                 [Idle EXCEPT !.pc = "look", !.user = u, !.target = t, !.kind = k]]
    /\ UNCHANGED <<removed, reaction, used, count>>

(* ... look for the user's reaction to it ...                                *)
ReactLook(q) ==
    /\ req[q].pc = "look"
    /\ LET held == Held(req[q].user, req[q].target)
       IN  \/ /\ held = {}
              /\ req' = [req EXCEPT ![q].pc = "add"]
           \/ \E i \in held :
                req' = [req EXCEPT ![q].pc = "swap", ![q].row = i,
                                   ![q].seen = reaction[i].kind]
    /\ UNCHANGED <<removed, reaction, used, count>>

\* The unique constraint uq_reaction_per_target.
Clashes(u, t) == Held(u, t) # {}

\* UPDATE ... SET reaction_count = reaction_count + 1.
Counted(n) == n + 1

\* The next row id.
Fresh(i) == i \in Ids \ used /\ \A j \in Ids \ used : i <= j

(* ... then add one and count it, in one commit, or fail as a whole when the *)
(* unique constraint refuses the row ...                                     *)
AddCommit(q, i) ==
    /\ req[q].pc = "add"
    /\ Fresh(i)
    /\ IF Clashes(req[q].user, req[q].target)
         THEN UNCHANGED <<reaction, used, count>>
         ELSE /\ reaction' = [x \in DOMAIN reaction \cup {i} |->
                                IF x = i THEN [user |-> req[q].user,
                                               target |-> req[q].target,
                                               kind |-> req[q].kind]
                                ELSE reaction[x]]
              /\ used' = used \cup {i}
              /\ count' = [count EXCEPT ![req[q].target] = Counted(@)]
    /\ Ends(q)
    /\ UNCHANGED removed

(* ... or change the kind of the loaded row: nothing to write when it had    *)
(* that kind already, an error when the row is gone by now.                  *)
SwapCommit(q) ==
    /\ req[q].pc = "swap"
    /\ IF req[q].kind # req[q].seen /\ req[q].row \in DOMAIN reaction
         THEN reaction' = [reaction EXCEPT ![req[q].row].kind = req[q].kind]
         ELSE UNCHANGED reaction
    /\ Ends(q)
    /\ UNCHANGED <<removed, used, count>>

(* unreact: look for the row; none is not an error and ends the request.     *)
UnreactLook(q, u, t) ==
    /\ req[q] = Idle
    /\ \E i \in Held(u, t) :
          req' = [req EXCEPT ![q] =
                    [Idle EXCEPT !.pc = "take", !.user = u, !.target = t, !.row = i]]
    /\ UNCHANGED <<removed, reaction, used, count>>

\* Mutants of Decremented: the floor is forgotten; the count is never moved back.
Unfloored(n) == n - 1
NeverUncounted(n) == n

\* ... WHERE reaction_count > 0.
Decremented(n) == IF n > 0 THEN n - 1 ELSE n

(* ... then delete the loaded row and uncount it, in one commit.  A DELETE   *)
(* that finds its row gone only warns: the count moves all the same.         *)
TakeCommit(q) ==
    /\ req[q].pc = "take"
    /\ reaction' = [i \in DOMAIN reaction \ {req[q].row} |-> reaction[i]]
    /\ count' = [count EXCEPT ![req[q].target] = Decremented(@)]
    /\ Ends(q)
    /\ UNCHANGED <<removed, used>>

(* delete_post and delete_comment set deleted_at on a target.                *)
Remove(t) ==
    /\ removed' = removed \cup {t}
    /\ UNCHANGED <<reaction, used, count, req>>

Next ==
    \/ \E q \in Reqs :
          \/ \E u \in Users, t \in Targets, k \in Kinds : ReactTarget(q, u, t, k)
          \/ ReactLook(q)
          \/ \E i \in Ids : AddCommit(q, i)
          \/ SwapCommit(q)
          \/ \E u \in Users, t \in Targets : UnreactLook(q, u, t)
          \/ TakeCommit(q)
    \/ \E t \in Targets : Remove(t)

Spec == Init /\ [][Next]_vars

-----------------------------------------------------------------------------
(* Properties.                                                               *)

\* The variables hold what the tables and the handlers' locals may hold.
TypeOK ==
    /\ removed \subseteq Targets
    /\ used \subseteq Ids
    /\ DOMAIN reaction \subseteq used
    /\ reaction \in [DOMAIN reaction -> ReactionRow]
    /\ count \in [Targets -> Nat]
    /\ req \in [Reqs -> Request]

OnePerTarget ==
    \A i, j \in DOMAIN reaction :
        reaction[i].user = reaction[j].user /\ reaction[i].target = reaction[j].target
            => i = j

NeverOvercounts == \A t \in Targets : count[t] <= Cardinality(On(t))

\* "A double-tap cannot double-count": one account holds at most one reaction
\* to a target and a count never promises more reactions than there are,
\* however requests interleave.
CountedOnce == OnePerTarget /\ NeverOvercounts

Reacting(t) == \E q \in Reqs : req[q].pc \in {"look", "add", "swap"} /\ req[q].target = t

Quiet(t) == t \in removed /\ ~Reacting(t)

\* Once a target is removed and the reactions in flight have ended, no later
\* request adds a reaction to it and its count never grows again.
RemovedGainsNothing ==
    [][\A t \in Targets :
          Quiet(t) =>
              /\ Quiet(t)'
              /\ {i \in DOMAIN reaction' : reaction'[i].target = t} \subseteq On(t)
              /\ count'[t] <= count[t]]_vars

Missing(t) == Cardinality(On(t)) - count[t]

Stale(q) == req[q].pc = "take" /\ req[q].row \notin DOMAIN reaction

\* "Kept honest by updating them in the same transaction": the one step that
\* makes a count fall short is an unreact whose row another unreact of the same
\* user has deleted.  Whatever else overlaps, and however often, does not.
OnlyStaleUnreactDrifts ==
    [][\A t \in Targets :
          Missing(t)' > Missing(t) => \E q \in Reqs : Stale(q) /\ req[q].target = t]_vars

=============================================================================
