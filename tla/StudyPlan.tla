------------------------------ MODULE StudyPlan ------------------------------
(***************************************************************************)
(* One account's study plan: app/routers/study_plan.py over the study_plans *)
(* and study_tasks tables.  Every query filters by the caller's account, so *)
(* accounts do not meet and the plans here are those of one account.  Of a  *)
(* task its plan, its day and its position within the day are kept; the     *)
(* columns that update_task merely overwrites are left out.                 *)
(***************************************************************************)
EXTENDS Integers, FiniteSets, FiniteSetsExt

CONSTANTS
    Plans,     \* ids of study_plans rows; finite, which bounds a behaviour
    Extras,    \* ids of tasks added by hand; likewise
    Days,
    PerDay,    \* how many tasks generate_plan puts on each day
    MaxPos,    \* bound: nothing is appended or moved once a task stands there
    Reqs,      \* request slots
    None       \* no value

ASSUME PlanAssumption == PerDay \in [Days -> Nat] /\ MaxPos \in Nat

ASSUME NoneAssumption == None \notin Plans \cup Extras \cup Days

VARIABLES
    plans,  \* the account's rows of study_plans
    task,   \* the study_tasks table: a function whose domain is its row ids
    used,   \* ids of plans and hand-made tasks ever generated
    req     \* what each request slot is doing

vars == <<plans, task, used, req>>

TaskRow == [plan: Plans, day: Days, pos: Nat]

\* A handler's locals: the plan it loaded, if there was one; the task and its
\* row as loaded; the day asked for; the position to store and the positions of
\* that day it was computed from.
Idle == [pc |-> "idle", plan |-> None, task |-> None, was |-> None, day |-> None,
         pos |-> 0, seen |-> {}]

\* A generated task is named by its plan, its day and its place there.
Generated(p) == UNION {{<<p, d, n>> : n \in 0..(PerDay[d] - 1)} : d \in Days}

On(p, d) == {i \in DOMAIN task : task[i].plan = p /\ task[i].day = d}

Positions(p, d) == {task[i].pos : i \in On(p, d)}

\* The bound: moving tasks to and fro makes positions grow without end.
Bounded == \A i \in DOMAIN task : task[i].pos < MaxPos

-----------------------------------------------------------------------------
Init ==
    /\ plans = {}
    /\ task = [i \in {} |-> 0]
    /\ used = {}
    /\ req = [q \in Reqs |-> Idle]

Goes(q, locals) == req' = [req EXCEPT ![q] = locals]
Ends(q) == Goes(q, Idle)

Keep(ids) == [i \in ids |-> task[i]]

\* ON DELETE CASCADE: the tasks that are left once plan p is deleted.
Left(p) == {i \in DOMAIN task : task[i].plan # p}

(* create_plan: generate, and load the plan there is ...                     *)
CreatePlanRead(q) ==
    /\ req[q] = Idle
    /\ \E p \in IF plans = {} THEN {None} ELSE plans :
          Goes(q, [Idle EXCEPT !.pc = "createPlan", !.plan = p])
    /\ UNCHANGED <<plans, task, used>>

\* Mutant of Clashes: user_id is not unique.
NoConstraint(P) == FALSE

\* The unique user_id, against the plans P that are left.
Clashes(P) == P # {}

(* ... then delete the loaded plan and insert the new one with its tasks, in *)
(* one commit; one that appeared meanwhile makes it fail as a whole.         *)
CreatePlanCommit(q, p) ==
    /\ req[q].pc = "createPlan"
    /\ p \notin used
    /\ LET left == Left(req[q].plan)
       IN  IF Clashes(plans \ {req[q].plan})
             THEN UNCHANGED <<plans, task, used>>
             ELSE /\ plans' = (plans \ {req[q].plan}) \cup {p}
                  /\ used' = used \cup {p}
                  /\ task' = [i \in left \cup Generated(p) |->
                                IF i \in left THEN task[i]
                                ELSE [plan |-> p, day |-> i[2], pos |-> i[3]]]
    /\ Ends(q)

\* Mutant of Appended: the last position itself.
AppendedOver(positions) == IF positions = {} THEN -1 ELSE Max(positions)

\* max(positions, default=-1) + 1.
Appended(positions) == IF positions = {} THEN 0 ELSE Max(positions) + 1

(* create_task: load the plan with its tasks ...                             *)
CreateTaskRead(q, d) ==
    /\ req[q] = Idle /\ Bounded
    /\ \E p \in plans :
          Goes(q, [Idle EXCEPT !.pc = "createTask", !.plan = p, !.day = d,
                               !.pos = Appended(Positions(p, d)),
                               !.seen = Positions(p, d)])
    /\ UNCHANGED <<plans, task, used>>

(* ... then insert behind the last one it saw; the foreign key refuses a     *)
(* task whose plan is gone.                                                  *)
CreateTaskCommit(q, i) ==
    /\ req[q].pc = "createTask"
    /\ i \notin used
    /\ IF req[q].plan \in plans
         THEN /\ task' = [x \in DOMAIN task \cup {i} |->
                           IF x = i THEN [plan |-> req[q].plan, day |-> req[q].day,
                                          pos |-> req[q].pos]
                           ELSE task[x]]
              /\ used' = used \cup {i}
         ELSE UNCHANGED <<task, used>>
    /\ Ends(q)
    /\ UNCHANGED plans

(* update_task to another day: load the task ...                             *)
MoveRead(q, i, d) ==
    /\ req[q] = Idle /\ Bounded
    /\ i \in DOMAIN task
    /\ d # task[i].day
    /\ Goes(q, [Idle EXCEPT !.pc = "moveLook", !.plan = task[i].plan, !.task = i,
                            !.was = task[i], !.day = d])
    /\ UNCHANGED <<plans, task, used>>

\* Mutant of MovedTo: the last position itself.
MovedOver(positions) == IF positions = {} THEN 0 ELSE Max(positions)

\* (max(positions) or -1) + 1: an empty day has no maximum, and 0 is falsy.
MovedTo(positions) ==
    IF positions \subseteq {0} THEN 0 ELSE Max(positions) + 1

(* ... query the last position of the target day ...                         *)
MoveLook(q) ==
    /\ req[q].pc = "moveLook"
    /\ LET there == Positions(req[q].plan, req[q].day)
       IN  Goes(q, [req[q] EXCEPT !.pc = "move", !.pos = MovedTo(there), !.seen = there])
    /\ UNCHANGED <<plans, task, used>>

(* ... then write the day, and the position if it is not the one it loaded.  *)
(* A task that is gone makes the UPDATE fail.                                *)
MoveCommit(q) ==
    /\ req[q].pc = "move"
    /\ LET i == req[q].task
       IN  task' = [x \in DOMAIN task |->
                     IF x # i THEN task[x]
                     ELSE [task[i] EXCEPT
                             !.day = req[q].day,
                             !.pos = IF req[q].pos = req[q].was.pos THEN @
                                     ELSE req[q].pos]]
    /\ Ends(q)
    /\ UNCHANGED <<plans, used>>

(* delete_task: load the task ...                                            *)
DeleteTaskRead(q, i) ==
    /\ req[q] = Idle
    /\ i \in DOMAIN task
    /\ Goes(q, [Idle EXCEPT !.pc = "deleteTask", !.task = i])
    /\ UNCHANGED <<plans, task, used>>

(* ... then delete it; that it is gone already only warns.                   *)
DeleteTaskCommit(q) ==
    /\ req[q].pc = "deleteTask"
    /\ task' = Keep(DOMAIN task \ {req[q].task})
    /\ Ends(q)
    /\ UNCHANGED <<plans, used>>

(* delete_plan: load the plan ...                                            *)
DeletePlanRead(q) ==
    /\ req[q] = Idle
    /\ \E p \in plans : Goes(q, [Idle EXCEPT !.pc = "deletePlan", !.plan = p])
    /\ UNCHANGED <<plans, task, used>>

(* ... then delete it and all its tasks, those added meanwhile included.     *)
DeletePlanCommit(q) ==
    /\ req[q].pc = "deletePlan"
    /\ plans' = plans \ {req[q].plan}
    /\ task' = Keep(Left(req[q].plan))
    /\ Ends(q)
    /\ UNCHANGED used

Next ==
    \E q \in Reqs :
        \/ CreatePlanRead(q)
        \/ \E p \in Plans : CreatePlanCommit(q, p)
        \/ \E d \in Days : CreateTaskRead(q, d)
        \/ \E i \in Extras : CreateTaskCommit(q, i)
        \/ \E i \in DOMAIN task, d \in Days : MoveRead(q, i, d)
        \/ MoveLook(q)
        \/ MoveCommit(q)
        \/ \E i \in DOMAIN task : DeleteTaskRead(q, i)
        \/ DeleteTaskCommit(q)
        \/ DeletePlanRead(q)
        \/ DeletePlanCommit(q)

Spec == Init /\ [][Next]_vars

-----------------------------------------------------------------------------
(* Properties.                                                               *)

\* The variables hold what the tables and the handlers' locals may hold.
TypeOK ==
    /\ plans \subseteq used
    /\ used \subseteq Plans \cup Extras
    /\ task \in [DOMAIN task -> TaskRow]
    /\ \A q \in Reqs :
          /\ req[q].pc \in {"idle", "createPlan", "createTask", "moveLook", "move",
                            "deleteTask", "deletePlan"}
          /\ req[q].plan \in used \cup {None}
          /\ req[q].pos \in Nat

\* "Regenerating must not merge two plans": whatever overlaps, an account has
\* at most one plan, and every task it has belongs to that plan.
OnePlan ==
    /\ Cardinality(plans) <= 1
    /\ \A i \in DOMAIN task : task[i].plan \in plans

\* Two sessions of one day at the same place.
Tied(i, j) ==
    /\ i # j
    /\ task[i].plan = task[j].plan
    /\ task[i].day = task[j].day
    /\ task[i].pos = task[j].pos

\* A handler whose position was computed from a day, or a task, that has
\* changed since.
Overtaken(q) ==
    /\ req[q].pc \in {"createTask", "move"}
    /\ \/ req[q].seen # Positions(req[q].plan, req[q].day)
       \/ /\ req[q].task \in DOMAIN task
          /\ req[q].was # task[req[q].task]

\* Handlers that nothing overtakes between their first read and their commit
\* never give two sessions of a day one place, but for the first place of all.
TiesNeedOverlap ==
    [][\A i, j \in DOMAIN task' :
          Tied(i, j)' /\ task'[i].pos > 0
              => \/ {i, j} \subseteq DOMAIN task /\ Tied(i, j)
                 \/ \E q \in Reqs : Overtaken(q) /\ req'[q] = Idle]_vars

\* "Ordering within a day, so two sessions on the same date stay stable": no
\* two sessions of a day share a position.
PositionsDistinct == \A i, j \in DOMAIN task : ~Tied(i, j)

=============================================================================
