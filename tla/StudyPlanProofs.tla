--------------------------- MODULE StudyPlanProofs ---------------------------
(***************************************************************************)
(* Theorems about StudyPlan for any number of plans, tasks, days and        *)
(* requests in flight: the type invariant, that an account has one plan,    *)
(* and that two sessions get one place only when handlers overlap.  And     *)
(* about MCStudyPlan: what generate_plan makes, for every intake, fits the  *)
(* table of tasks, gives each skill its share of the sessions, fills each   *)
(* week within its minutes, and has every day in order.                     *)
(***************************************************************************)
EXTENDS MCStudyPlan, FiniteSetTheorems, WellFoundedInduction, TLAPS

-----------------------------------------------------------------------------
(* Positions.  A day has finitely many of them, which is said here by a      *)
(* bound, so that it has a last one.                                         *)

UpTo(n, S) == \A x \in S : x <= n

\* A set of positions that has a last one, if it has any.
Places(S) == S \subseteq Nat /\ \E n \in Nat : UpTo(n, S)

\* Every set of numbers has a least one.
LEMMA LeastNumber ==
    ASSUME NEW T \in SUBSET Nat, T # {}
    PROVE  \E x \in T : \A y \in T : x <= y
<1> DEFINE Less == {p \in Nat \X Nat : p[1] < p[2]}
<1>1. IsWellFoundedOn(Less, Nat)
  BY NatLessThanWellFounded, Zenon DEF OpToRel
<1>2. \E x \in T : \A y \in T : ~ (<<y, x>> \in Less)
  <2> HIDE DEF Less
  <2> QED
    BY <1>1, WFMin
<1>3. PICK x \in T : \A y \in T : <<y, x>> \notin Less
  BY <1>2
<1>4. ASSUME NEW y \in T PROVE x <= y
  <2>1. x \in Nat /\ y \in Nat /\ ~ (y < x)
    BY <1>3
  <2> QED
    BY <2>1
<1> QED
  BY <1>4

\* A bounded set of positions that is not empty has a last one.
LEMMA LastPlace ==
    ASSUME NEW S, Places(S), S # {}
    PROVE  Max(S) \in S /\ UpTo(Max(S), S)
<1>1. PICK n \in Nat : UpTo(n, S) /\ \A m \in Nat : UpTo(m, S) => n <= m
  <2> DEFINE T == {m \in Nat : UpTo(m, S)}
  <2>1. \E x \in T : \A y \in T : x <= y
    BY LeastNumber DEF Places
  <2> QED
    BY <2>1
<1>2. n \in S
  <2> SUFFICES ASSUME n \notin S PROVE FALSE
    OBVIOUS
  <2>1. \A x \in S : x \in Nat /\ x < n
    BY <1>1 DEF UpTo, Places
  <2>2. n - 1 \in Nat /\ UpTo(n - 1, S)
    BY <2>1 DEF UpTo
  <2> QED
    BY <1>1, <2>2
<1>3. \E x \in S : \A y \in S : x >= y
  BY <1>1, <1>2 DEF UpTo, Places
<1> QED
  BY <1>3 DEF Max, UpTo, Places

\* create_task appends behind every position it saw.
LEMMA AppendedBehind ==
    ASSUME NEW S, Places(S)
    PROVE  Appended(S) \in Nat /\ \A x \in S : x < Appended(S)
<1>1. CASE S = {}
  BY <1>1 DEF Appended
<1>2. CASE S # {}
  <2>1. S # {} /\ S \subseteq Nat /\ Appended(S) = Max(S) + 1
    BY <1>2 DEF Appended, Places
  <2>2. PICK m \in Nat : m = Max(S) /\ \A x \in S : x <= m
    BY <2>1, LastPlace DEF UpTo
  <2> QED
    BY <2>1, <2>2
<1> QED
  BY <1>1, <1>2

\* update_task moves behind every position it saw, or to the first place of
\* all.
LEMMA MovedBehind ==
    ASSUME NEW S, Places(S)
    PROVE  MovedTo(S) \in Nat /\ (MovedTo(S) > 0 => \A x \in S : x < MovedTo(S))
<1>1. CASE S \subseteq {0}
  BY <1>1 DEF MovedTo
<1>2. CASE ~ (S \subseteq {0})
  <2>1. S # {} /\ S \subseteq Nat /\ MovedTo(S) = Max(S) + 1
    BY <1>2 DEF MovedTo, Places
  <2>2. PICK m \in Nat : m = Max(S) /\ \A x \in S : x <= m
    BY <2>1, LastPlace DEF UpTo
  <2> QED
    BY <2>1, <2>2
<1> QED
  BY <1>1, <1>2

-----------------------------------------------------------------------------
(* The inductive invariant.                                                  *)

TaskIds == Extras \cup (Plans \X Days \X Nat)

Pcs == {"idle", "createPlan", "createTask", "moveLook", "move", "deleteTask", "deletePlan"}

\* A handler's locals.
Request ==
    [pc: Pcs, plan: Plans \cup Extras \cup {None}, task: TaskIds \cup {None},
     was: TaskRow \cup {None}, day: Days \cup {None}, pos: Nat, seen: SUBSET Nat]

\* What a request has loaded: a plan that was generated; the day asked for; the
\* task it moves, with the plan it belongs to; the position it computed.
Loaded(rq) ==
    /\ rq.plan \in used \cup {None}
    /\ rq.pc \in {"createTask", "moveLook", "move"} => rq.plan \in Plans /\ rq.day \in Days
    /\ rq.pc \in {"moveLook", "move"} => rq.was \in TaskRow /\ rq.was.plan = rq.plan
    /\ rq.pc \in {"createTask", "move"} => Places(rq.seen)
    /\ rq.pc = "createTask" => rq.pos = Appended(rq.seen)
    /\ rq.pc = "move" => rq.pos = MovedTo(rq.seen)

HandlersOK == req \in [Reqs -> Request] /\ \A q \in Reqs : Loaded(req[q])

\* The tables: ids that were generated, tasks of a plan that is there, and one
\* plan; the positions of a day are bounded.
TablesOK ==
    /\ plans \subseteq used /\ plans \subseteq Plans
    /\ used \subseteq Plans \cup Extras
    /\ DOMAIN task \subseteq TaskIds
    /\ task \in [DOMAIN task -> TaskRow]
    /\ \A i \in DOMAIN task : task[i].plan \in plans
    /\ \A p, r \in plans : p = r
    /\ \A d \in Days : \E n \in Nat : \A i \in DOMAIN task : task[i].day = d => task[i].pos <= n

IInv == TablesOK /\ HandlersOK

\* An idle request is a request and has loaded nothing.
LEMMA IdleRequest == Idle \in Request /\ Loaded(Idle) /\ Idle.plan = None /\ Idle.pos = 0
BY DEF Idle, Request, Pcs, Loaded

\* The positions of a day have a last one.
LEMMA DayPlaces ==
    ASSUME TablesOK, NEW p, NEW d \in Days
    PROVE  Places(Positions(p, d))
<1>1. PICK n \in Nat : \A i \in DOMAIN task : task[i].day = d => task[i].pos <= n
  BY DEF TablesOK
<1>2. \A i \in DOMAIN task : task[i].pos \in Nat
  BY DEF TablesOK, TaskRow
<1> QED
  BY <1>1, <1>2 DEF Places, UpTo, Positions, On

\* A request that goes on keeps the handlers in order.
LEMMA GoesOn ==
    ASSUME HandlersOK, used \subseteq used', NEW q \in Reqs, NEW locals \in Request,
           Goes(q, locals), Loaded(locals)
    PROVE  HandlersOK'
<1>1. /\ req' \in [Reqs -> Request]
      /\ \A p \in Reqs : req'[p] = IF p = q THEN locals ELSE req[p]
  BY DEF HandlersOK, Goes
<1>2. \A r \in Request : Loaded(r) => r.plan \in used' \cup {None}
  BY DEF Loaded
<1>3. ASSUME NEW p \in Reqs PROVE Loaded(req[p])'
  <2> PICK r \in Request : r = req'[p]
    BY <1>1
  <2>1. Loaded(r)
    BY <1>1 DEF HandlersOK
  <2> QED
    BY <1>2, <2>1 DEF Loaded
<1> QED
  BY <1>1, <1>3 DEF HandlersOK

\* So does one that ends.
LEMMA EndsOK ==
    ASSUME HandlersOK, used \subseteq used', NEW q \in Reqs, Ends(q)
    PROVE  HandlersOK'
BY GoesOn, IdleRequest DEF Ends

\* A step that takes tasks away, together with plans that no task is left in,
\* keeps the tables in order.
LEMMA Fewer ==
    ASSUME TablesOK, NEW ids \in SUBSET DOMAIN task, task' = Keep(ids),
           plans' \subseteq plans, used' = used, \A i \in ids : task[i].plan \in plans'
    PROVE  TablesOK'
<1>1. DOMAIN task' = ids /\ \A i \in ids : task'[i] = task[i]
  BY DEF Keep
<1>2. task' \in [DOMAIN task' -> TaskRow]
  BY <1>1 DEF Keep, TablesOK
<1>3. \A d \in Days : \E n \in Nat : \A i \in DOMAIN task' : task'[i].day = d => task'[i].pos <= n
  BY <1>1 DEF TablesOK
<1> QED
  BY <1>1, <1>2, <1>3 DEF TablesOK

\* A step that gives one task of a plan a row keeps the tables in order.
LEMMA OneRow ==
    ASSUME TablesOK, NEW i \in TaskIds, NEW row \in TaskRow, row.plan \in plans,
           task' = [x \in DOMAIN task \cup {i} |-> IF x = i THEN row ELSE task[x]],
           plans' = plans, used \subseteq used', used' \subseteq Plans \cup Extras
    PROVE  TablesOK'
<1>1. /\ DOMAIN task' = DOMAIN task \cup {i} /\ task'[i] = row
      /\ \A x \in DOMAIN task \ {i} : task'[x] = task[x]
      /\ task' \in [DOMAIN task' -> TaskRow]
  BY DEF TablesOK
<1>2. ASSUME NEW d \in Days
      PROVE  \E n \in Nat : \A x \in DOMAIN task' : task'[x].day = d => task'[x].pos <= n
  <2>1. PICK n \in Nat : \A x \in DOMAIN task : task[x].day = d => task[x].pos <= n
    BY DEF TablesOK
  <2>2. row.pos \in Nat /\ \A x \in DOMAIN task : task[x].pos \in Nat
    BY DEF TablesOK, TaskRow
  <2> DEFINE m == IF row.pos <= n THEN n ELSE row.pos
  <2>3. m \in Nat /\ n <= m /\ row.pos <= m
    BY <2>2
  <2> HIDE DEF m
  <2>4. ASSUME NEW x \in DOMAIN task', task'[x].day = d PROVE task'[x].pos <= m
    <3>1. CASE x = i
      BY <1>1, <2>3, <3>1
    <3>2. CASE x # i
      <4>1. x \in DOMAIN task /\ task'[x] = task[x]
        BY <1>1, <3>2
      <4>2. task[x].pos <= n /\ task[x].pos \in Nat
        BY <2>1, <2>2, <2>4, <4>1
      <4> QED
        BY <2>3, <4>1, <4>2
    <3> QED
      BY <3>1, <3>2
  <2> QED
    BY <2>3, <2>4
<1> QED
  BY <1>1, <1>2 DEF TablesOK

\* A new plan: when it is stored nothing is left of an older one.
LEMMA NewPlan ==
    ASSUME IInv, NEW q \in Reqs, NEW p \in Plans, CreatePlanCommit(q, p),
           ~ UNCHANGED <<plans, task, used>>
    PROVE  /\ TablesOK'
           /\ DOMAIN task' = Generated(p)
           /\ \A i \in Generated(p) : task'[i] = [plan |-> p, day |-> i[2], pos |-> i[3]]
<1> DEFINE old == req[q].plan
           left == Left(old)
<1>1. TablesOK
  BY DEF IInv
<1>2. /\ plans \ {old} = {}
      /\ plans' = (plans \ {old}) \cup {p}
      /\ used' = used \cup {p}
      /\ task' = [i \in left \cup Generated(p) |->
                    IF i \in left THEN task[i] ELSE [plan |-> p, day |-> i[2], pos |-> i[3]]]
  BY DEF CreatePlanCommit, Clashes
<1>3. left = {}
  BY <1>1, <1>2 DEF TablesOK, Left
<1>4. ASSUME NEW i \in Generated(p)
      PROVE  /\ i \in Plans \X Days \X Nat /\ i[2] \in Days /\ i[3] \in Nat
             /\ i[3] <= PerDay[i[2]]
             /\ [plan |-> p, day |-> i[2], pos |-> i[3]] \in TaskRow
  <2>1. PICK d \in Days : \E n \in 0 .. (PerDay[d] - 1) : i = <<p, d, n>>
    BY DEF Generated
  <2>2. PICK n \in 0 .. (PerDay[d] - 1) : i = <<p, d, n>>
    BY <2>1
  <2>3. PerDay[d] \in Nat /\ n \in Nat /\ n <= PerDay[d]
    BY PlanAssumption
  <2> QED
    BY <2>2, <2>3 DEF TaskRow
<1>5. /\ DOMAIN task' = Generated(p)
      /\ \A i \in Generated(p) : task'[i] = [plan |-> p, day |-> i[2], pos |-> i[3]]
      /\ task' = [i \in Generated(p) |-> task'[i]]
  BY <1>2, <1>3
<1>6. /\ plans' = {p} /\ plans' \subseteq used' /\ used' \subseteq Plans \cup Extras
  BY <1>1, <1>2 DEF TablesOK
<1>7. DOMAIN task' \subseteq TaskIds /\ task' \in [DOMAIN task' -> TaskRow]
  BY <1>4, <1>5 DEF TaskIds
<1>8. \A i \in DOMAIN task' : task'[i].plan = p /\ task'[i].day = i[2] /\ task'[i].pos = i[3]
  BY <1>5
<1>9. \A d \in Days : \E n \in Nat : \A i \in DOMAIN task' : task'[i].day = d => task'[i].pos <= n
  <2> SUFFICES ASSUME NEW d \in Days
               PROVE  \A i \in DOMAIN task' : task'[i].day = d => task'[i].pos <= PerDay[d]
    BY PlanAssumption
  <2> QED
    BY <1>4, <1>5, <1>8
<1> QED
  BY <1>5, <1>6, <1>7, <1>8, <1>9 DEF TablesOK

-----------------------------------------------------------------------------
(* Every step keeps the invariant.                                           *)

\* What create_task loads.
LEMMA CreateTaskReadOK ==
    ASSUME IInv, NEW q \in Reqs, NEW d \in Days, CreateTaskRead(q, d)
    PROVE  HandlersOK'
<1>1. PICK p \in plans : Goes(q, [Idle EXCEPT !.pc = "createTask", !.plan = p, !.day = d,
                                              !.pos = Appended(Positions(p, d)),
                                              !.seen = Positions(p, d)])
  BY DEF CreateTaskRead
<1> PICK seen : seen = Positions(p, d)
  OBVIOUS
<1>2. Places(seen) /\ seen \in SUBSET Nat /\ Appended(seen) \in Nat
  BY DayPlaces, AppendedBehind DEF IInv, Places
<1> PICK l : l = [Idle EXCEPT !.pc = "createTask", !.plan = p, !.day = d,
                              !.pos = Appended(seen), !.seen = seen]
  OBVIOUS
<1>3. p \in used /\ p \in Plans
  BY DEF IInv, TablesOK
<1>4. /\ l \in Request /\ l.pc = "createTask" /\ l.plan = p /\ l.day = d
      /\ l.seen = seen /\ l.pos = Appended(seen)
  BY <1>2, <1>3, IdleRequest DEF Request, Pcs
<1>5. Loaded(l)
  BY <1>2, <1>3, <1>4 DEF Loaded
<1> QED
  BY <1>1, <1>4, <1>5, GoesOn DEF IInv, CreateTaskRead

\* What update_task loads first.
LEMMA MoveReadOK ==
    ASSUME IInv, NEW q \in Reqs, NEW i \in DOMAIN task, NEW d \in Days, MoveRead(q, i, d)
    PROVE  HandlersOK'
<1> PICK l : l = [Idle EXCEPT !.pc = "moveLook", !.plan = task[i].plan, !.task = i,
                              !.was = task[i], !.day = d]
  OBVIOUS
<1>1. task[i] \in TaskRow /\ task[i].plan \in used /\ task[i].plan \in Plans /\ i \in TaskIds
  BY DEF IInv, TablesOK
<1>2. /\ l \in Request /\ l.pc = "moveLook" /\ l.plan = task[i].plan /\ l.day = d
      /\ l.was = task[i]
  BY <1>1, IdleRequest DEF Request, Pcs
<1>3. Loaded(l)
  BY <1>1, <1>2 DEF Loaded
<1> QED
  BY <1>2, <1>3, GoesOn DEF IInv, MoveRead

\* The position it computes.
LEMMA MoveLookOK ==
    ASSUME IInv, NEW q \in Reqs, MoveLook(q)
    PROVE  HandlersOK'
<1> PICK seen : seen = Positions(req[q].plan, req[q].day)
  OBVIOUS
<1> PICK r : r = req[q]
  OBVIOUS
<1>1. r \in Request /\ Loaded(r) /\ r.pc = "moveLook" /\ r.day \in Days
  BY DEF IInv, HandlersOK, MoveLook, Loaded
<1>2. Places(seen) /\ seen \in SUBSET Nat /\ MovedTo(seen) \in Nat
  BY <1>1, DayPlaces, MovedBehind DEF IInv, Places
<1> PICK l : l = [r EXCEPT !.pc = "move", !.pos = MovedTo(seen), !.seen = seen]
  OBVIOUS
<1>3. /\ l \in Request /\ l.pc = "move" /\ l.plan = r.plan /\ l.day = r.day
      /\ l.was = r.was /\ l.seen = seen /\ l.pos = MovedTo(seen)
  BY <1>1, <1>2 DEF Request, Pcs
<1>4. Loaded(l)
  BY <1>1, <1>2, <1>3 DEF Loaded
<1>5. Goes(q, l)
  BY DEF MoveLook
<1> QED
  BY <1>3, <1>4, <1>5, GoesOn DEF IInv, MoveLook

\* What the other first reads load.
LEMMA ReadsOK ==
    ASSUME IInv, NEW q \in Reqs,
           \/ CreatePlanRead(q)
           \/ DeletePlanRead(q)
           \/ \E i \in DOMAIN task : DeleteTaskRead(q, i)
    PROVE  HandlersOK' /\ UNCHANGED <<plans, task, used>>
<1>1. plans \subseteq used /\ plans \subseteq Plans /\ DOMAIN task \subseteq TaskIds /\ HandlersOK
  BY DEF IInv, TablesOK
<1>2. CASE CreatePlanRead(q)
  <2> PICK p \in plans \cup {None} : Goes(q, [Idle EXCEPT !.pc = "createPlan", !.plan = p])
    BY <1>2 DEF CreatePlanRead
  <2> PICK l : l = [Idle EXCEPT !.pc = "createPlan", !.plan = p]
    OBVIOUS
  <2>1. l \in Request /\ l.pc = "createPlan" /\ l.plan = p
    BY <1>1, IdleRequest DEF Request, Pcs
  <2> QED
    BY <1>1, <1>2, <2>1, GoesOn DEF Loaded, CreatePlanRead
<1>3. CASE DeletePlanRead(q)
  <2> PICK p \in plans : Goes(q, [Idle EXCEPT !.pc = "deletePlan", !.plan = p])
    BY <1>3 DEF DeletePlanRead
  <2> PICK l : l = [Idle EXCEPT !.pc = "deletePlan", !.plan = p]
    OBVIOUS
  <2>1. l \in Request /\ l.pc = "deletePlan" /\ l.plan = p
    BY <1>1, IdleRequest DEF Request, Pcs
  <2> QED
    BY <1>1, <1>3, <2>1, GoesOn DEF Loaded, DeletePlanRead
<1>4. ASSUME NEW i \in DOMAIN task, DeleteTaskRead(q, i)
      PROVE  HandlersOK' /\ UNCHANGED <<plans, task, used>>
  <2> PICK l : l = [Idle EXCEPT !.pc = "deleteTask", !.task = i]
    OBVIOUS
  <2>1. l \in Request /\ l.pc = "deleteTask" /\ l.plan = None
    BY <1>1, IdleRequest DEF Request, Pcs
  <2> QED
    BY <1>1, <1>4, <2>1, GoesOn DEF Loaded, DeleteTaskRead
<1> QED
  BY <1>2, <1>3, <1>4

\* What create_task stores.
LEMMA CreateTaskRows ==
    ASSUME IInv, NEW q \in Reqs, NEW i \in Extras, CreateTaskCommit(q, i)
    PROVE  TablesOK' /\ HandlersOK'
<1>1. TablesOK /\ HandlersOK /\ Ends(q) /\ plans' = plans /\ used \subseteq used'
  BY DEF IInv, CreateTaskCommit
<1>h. HandlersOK'
  BY <1>1, EndsOK
<1>2. CASE req[q].plan \notin plans
  <2>1. UNCHANGED <<plans, task, used>>
    BY <1>1, <1>2 DEF CreateTaskCommit
  <2> QED
    BY <1>1, <1>h, <2>1 DEF TablesOK
<1>3. CASE req[q].plan \in plans
  <2> DEFINE row == [plan |-> req[q].plan, day |-> req[q].day, pos |-> req[q].pos]
  <2>1. row \in TaskRow /\ row.plan \in plans
    BY <1>1, <1>3 DEF CreateTaskCommit, HandlersOK, Request, Loaded, TaskRow
  <2>2. task' = [x \in DOMAIN task \cup {i} |-> IF x = i THEN row ELSE task[x]]
    BY <1>3 DEF CreateTaskCommit
  <2> HIDE DEF row
  <2>3. used' = used \cup {i} /\ used' \subseteq Plans \cup Extras /\ i \in TaskIds
    BY <1>1, <1>3 DEF CreateTaskCommit, TablesOK, TaskIds
  <2> QED
    BY <1>1, <1>h, <2>1, <2>2, <2>3, OneRow
<1> QED
  BY <1>2, <1>3

\* The row a move writes, when its task is still there.
Moved(q) ==
    [task[req[q].task] EXCEPT
        !.day = req[q].day,
        !.pos = IF req[q].pos = req[q].was.pos THEN @ ELSE req[q].pos]

\* What update_task stores.
LEMMA MoveRows ==
    ASSUME IInv, NEW q \in Reqs, MoveCommit(q)
    PROVE  /\ TablesOK' /\ HandlersOK'
           /\ DOMAIN task' = DOMAIN task
           /\ \A x \in DOMAIN task :
                 IF x # req[q].task THEN task'[x] = task[x]
                 ELSE /\ task'[x].plan = task[x].plan
                      /\ task'[x].day = req[q].day
                      /\ task'[x].pos = IF req[q].pos = req[q].was.pos THEN task[x].pos
                                        ELSE req[q].pos
<1> DEFINE i == req[q].task
           row == Moved(q)
<1>1. /\ TablesOK /\ HandlersOK /\ Ends(q) /\ UNCHANGED <<plans, used>>
      /\ DOMAIN task' = DOMAIN task
      /\ task' = [x \in DOMAIN task |-> IF x # i THEN task[x] ELSE row]
  BY DEF IInv, MoveCommit, Moved
<1>2. HandlersOK'
  BY <1>1, EndsOK
<1>3. CASE i \notin DOMAIN task
  <2>1. task' = task
    BY <1>1, <1>3 DEF TablesOK
  <2> QED
    BY <1>1, <1>2, <1>3, <2>1 DEF TablesOK
<1>4. CASE i \in DOMAIN task
  <2>1. task[i] \in TaskRow /\ req[q].day \in Days /\ req[q].pos \in Nat /\ i \in TaskIds
    BY <1>1, <1>4 DEF TablesOK, HandlersOK, Request, Loaded, MoveCommit
  <2>2. /\ row \in TaskRow /\ row.plan = task[i].plan /\ row.day = req[q].day
        /\ row.pos = IF req[q].pos = req[q].was.pos THEN task[i].pos ELSE req[q].pos
    BY <2>1 DEF Moved, TaskRow
  <2> HIDE DEF row
  <2>3. task' = [x \in DOMAIN task \cup {i} |-> IF x = i THEN row ELSE task[x]]
    BY <1>1, <1>4
  <2>4. row.plan \in plans
    BY <1>1, <1>4, <2>2 DEF TablesOK
  <2>5. TablesOK'
    BY <1>1, <2>1, <2>2, <2>3, <2>4, OneRow DEF TablesOK
  <2> QED
    BY <1>1, <1>2, <1>4, <2>2, <2>5
<1> QED
  BY <1>3, <1>4

\* Every step keeps the invariant.
LEMMA InvStep == IInv /\ [Next]_vars => IInv'
<1> SUFFICES ASSUME IInv, [Next]_vars PROVE IInv'
  OBVIOUS
<1>0. TablesOK /\ HandlersOK
  BY DEF IInv
<1>u. UNCHANGED <<plans, task, used>> => TablesOK'
  BY <1>0 DEF TablesOK
<1>1. ASSUME NEW q \in Reqs,
             CreatePlanRead(q) \/ DeletePlanRead(q) \/ \E i \in DOMAIN task : DeleteTaskRead(q, i)
      PROVE  IInv'
  BY <1>1, <1>u, ReadsOK DEF IInv
<1>2. ASSUME NEW q \in Reqs, NEW p \in Plans, CreatePlanCommit(q, p) PROVE IInv'
  <2>1. used \subseteq used' /\ Ends(q)
    BY <1>2 DEF CreatePlanCommit
  <2>2. TablesOK'
    BY <1>2, <1>u, NewPlan
  <2> QED
    BY <1>0, <2>1, <2>2, EndsOK DEF IInv
<1>3. ASSUME NEW q \in Reqs, NEW d \in Days, CreateTaskRead(q, d) PROVE IInv'
  BY <1>3, <1>u, CreateTaskReadOK DEF IInv, CreateTaskRead
<1>4. ASSUME NEW q \in Reqs, NEW i \in Extras, CreateTaskCommit(q, i) PROVE IInv'
  BY <1>4, CreateTaskRows DEF IInv
<1>5. ASSUME NEW q \in Reqs, NEW i \in DOMAIN task, NEW d \in Days, MoveRead(q, i, d)
      PROVE  IInv'
  BY <1>5, <1>u, MoveReadOK DEF IInv, MoveRead
<1>6. ASSUME NEW q \in Reqs, MoveLook(q) PROVE IInv'
  BY <1>6, <1>u, MoveLookOK DEF IInv, MoveLook
<1>7. ASSUME NEW q \in Reqs, MoveCommit(q) PROVE IInv'
  BY <1>7, MoveRows DEF IInv
<1>8. ASSUME NEW q \in Reqs, DeleteTaskCommit(q) PROVE IInv'
  <2> PICK ids \in SUBSET DOMAIN task : task' = Keep(ids) /\ UNCHANGED <<plans, used>>
    BY <1>8 DEF DeleteTaskCommit
  <2>1. TablesOK'
    <3>1. \A i \in ids : task[i].plan \in plans'
      BY <1>0 DEF TablesOK
    <3> QED
      BY <1>0, <3>1, Fewer
  <2> QED
    BY <1>0, <1>8, <2>1, EndsOK DEF IInv, DeleteTaskCommit
<1>9. ASSUME NEW q \in Reqs, DeletePlanCommit(q) PROVE IInv'
  <2>1. Left(req[q].plan) \in SUBSET DOMAIN task
        /\ \A i \in Left(req[q].plan) : task[i].plan \in plans \ {req[q].plan}
    BY <1>0 DEF Left, TablesOK
  <2>2. TablesOK'
    BY <1>0, <1>9, <2>1, Fewer DEF DeletePlanCommit
  <2> QED
    BY <1>0, <1>9, <2>2, EndsOK DEF IInv, DeletePlanCommit
<1>10. CASE UNCHANGED vars
  BY <1>0, <1>u, <1>10 DEF vars, IInv, HandlersOK, Loaded
<1> QED
  BY <1>1, <1>2, <1>3, <1>4, <1>5, <1>6, <1>7, <1>8, <1>9, <1>10 DEF Next

\* Initially there is no plan.
LEMMA Initially == Init => IInv
<1> SUFFICES ASSUME Init PROVE IInv
  OBVIOUS
<1>1. TablesOK
  BY DEF Init, TablesOK
<1>2. HandlersOK
  BY IdleRequest DEF Init, HandlersOK
<1> QED
  BY <1>1, <1>2 DEF IInv

-----------------------------------------------------------------------------
(* What holds of every behaviour.                                            *)

\* The invariant that the other theorems rest on.
THEOREM Inductive == Spec => []IInv
BY Initially, InvStep, PTL DEF Spec

LEMMA StoreTypes == IInv => TypeOK
BY DEF IInv, TablesOK, HandlersOK, Request, Loaded, Pcs, TypeOK

\* study_plans and study_tasks hold what their columns allow, and so do the
\* handlers' locals.
THEOREM TypeInvariant == Spec => []TypeOK
BY Inductive, StoreTypes, PTL

\* "Regenerating must not merge two plans": however creations, deletions and
\* moves overlap, an account has at most one plan and no task of another.  The
\* plan loaded by create_plan is the only one left to delete, and the unique
\* user_id refuses the commit otherwise.
THEOREM OnePlanTheorem == Spec => []OnePlan
<1>1. ASSUME IInv PROVE OnePlan
  <2>1. Cardinality(plans) <= 1
    <3>1. CASE plans = {}
      BY <3>1, FS_EmptySet
    <3>2. CASE plans # {}
      <4>1. PICK p \in plans : plans = {p}
        BY <1>1, <3>2 DEF IInv, TablesOK
      <4> QED
        BY <4>1, FS_Singleton
    <3> QED
      BY <3>1, <3>2
  <2> QED
    BY <1>1, <2>1 DEF IInv, TablesOK, OnePlan
<1> QED
  BY <1>1, Inductive, PTL

\* The place that a task is appended to is free unless its handler was
\* overtaken.
LEMMA AppendedAlone ==
    ASSUME IInv, NEW q \in Reqs, NEW k \in Extras, CreateTaskCommit(q, k), ~ Overtaken(q),
           NEW i \in DOMAIN task', NEW j \in DOMAIN task', Tied(i, j)'
    PROVE  {i, j} \subseteq DOMAIN task /\ Tied(i, j)
<1>1. CASE req[q].plan \notin plans
  BY <1>1 DEF CreateTaskCommit, Tied
<1>2. CASE req[q].plan \in plans
  <2>1. /\ \A x \in DOMAIN task' : IF x = k THEN /\ task'[x].plan = req[q].plan
                                                 /\ task'[x].day = req[q].day
                                                 /\ task'[x].pos = req[q].pos
                                   ELSE x \in DOMAIN task /\ task'[x] = task[x]
    BY <1>2 DEF CreateTaskCommit
  <2>2. /\ Places(req[q].seen) /\ req[q].pos = Appended(req[q].seen)
        /\ req[q].seen = Positions(req[q].plan, req[q].day)
    BY DEF IInv, HandlersOK, Loaded, CreateTaskCommit, Overtaken
  <2>3. \A p \in req[q].seen : p \in Nat /\ p < req[q].pos /\ req[q].pos \in Nat
    BY <2>2, AppendedBehind DEF Places
  <2>4. \A x \in DOMAIN task : ~ /\ task[x].plan = req[q].plan
                                 /\ task[x].day = req[q].day
                                 /\ task[x].pos = req[q].pos
    <3>1. \A x \in DOMAIN task : /\ task[x].plan = req[q].plan
                                 /\ task[x].day = req[q].day
                                 => task[x].pos \in req[q].seen
      BY <2>2 DEF Positions, On
    <3> QED
      BY <2>3, <3>1
  <2>5. i # k /\ j # k
    BY <2>1, <2>4 DEF Tied
  <2> QED
    BY <2>1, <2>5 DEF Tied
<1> QED
  BY <1>1, <1>2

\* So is the place that a task is moved to, unless it is the first of all.
LEMMA MovedAlone ==
    ASSUME IInv, NEW q \in Reqs, MoveCommit(q), ~ Overtaken(q),
           NEW i \in DOMAIN task', NEW j \in DOMAIN task', Tied(i, j)', task'[i].pos > 0
    PROVE  {i, j} \subseteq DOMAIN task /\ Tied(i, j)
<1> DEFINE k == req[q].task
<1>1. /\ DOMAIN task' = DOMAIN task
      /\ \A x \in DOMAIN task \ {k} : task'[x] = task[x]
      /\ k \in DOMAIN task => /\ task'[k].plan = task[k].plan
                              /\ task'[k].day = req[q].day
                              /\ task'[k].pos = IF req[q].pos = req[q].was.pos THEN task[k].pos
                                                ELSE req[q].pos
  BY MoveRows
<1>2. /\ Places(req[q].seen) /\ req[q].pos = MovedTo(req[q].seen)
      /\ req[q].seen = Positions(req[q].plan, req[q].day)
      /\ req[q].was.plan = req[q].plan
      /\ k \in DOMAIN task => req[q].was = task[k]
  BY DEF IInv, HandlersOK, Loaded, MoveCommit, Overtaken
<1>3. k \in DOMAIN task => /\ task'[k].plan = req[q].plan
                           /\ task'[k].day = req[q].day
                           /\ task'[k].pos = req[q].pos
  BY <1>1, <1>2
<1>4. req[q].pos > 0 => \A p \in req[q].seen : p \in Nat /\ p < req[q].pos /\ req[q].pos \in Nat
  BY <1>2, MovedBehind DEF Places
<1>5. req[q].pos > 0 =>
        \A x \in DOMAIN task : ~ /\ task[x].plan = req[q].plan
                                 /\ task[x].day = req[q].day
                                 /\ task[x].pos = req[q].pos
  <2>1. \A x \in DOMAIN task : /\ task[x].plan = req[q].plan
                               /\ task[x].day = req[q].day
                               => task[x].pos \in req[q].seen
    BY <1>2 DEF Positions, On
  <2> QED
    BY <1>4, <2>1
<1>6. task'[j].pos = task'[i].pos
  BY DEF Tied
<1>7. i # k /\ j # k
  BY <1>1, <1>3, <1>5, <1>6 DEF Tied
<1> QED
  BY <1>1, <1>7 DEF Tied

\* Sessions of a new plan have places of their own.
LEMMA NewPlanAlone ==
    ASSUME IInv, NEW q \in Reqs, NEW p \in Plans, CreatePlanCommit(q, p),
           NEW i \in DOMAIN task', NEW j \in DOMAIN task', Tied(i, j)'
    PROVE  {i, j} \subseteq DOMAIN task /\ Tied(i, j)
<1>1. CASE UNCHANGED task
  BY <1>1 DEF Tied
<1>2. CASE ~ UNCHANGED task
  <2>1. /\ DOMAIN task' = Generated(p)
        /\ \A x \in Generated(p) : task'[x] = [plan |-> p, day |-> x[2], pos |-> x[3]]
    BY <1>2, NewPlan
  <2>2. \A x \in Generated(p) : x = <<p, x[2], x[3]>>
    BY DEF Generated
  <2>3. i[2] = j[2] /\ i[3] = j[3]
    BY <2>1 DEF Tied
  <2> QED
    BY <2>1, <2>2, <2>3 DEF Tied
<1> QED
  BY <1>1, <1>2

\* Handlers that nothing overtakes between their first read and their commit
\* never give two sessions of a day one place, but for the first place of all:
\* both ways of choosing a position go behind all positions that were read.
THEOREM TiesTheorem == Spec => TiesNeedOverlap
<1> DEFINE Alone == \A i, j \in DOMAIN task' :
                       Tied(i, j)' /\ task'[i].pos > 0
                           => \/ {i, j} \subseteq DOMAIN task /\ Tied(i, j)
                              \/ \E q \in Reqs : Overtaken(q) /\ req'[q] = Idle
<1>1. ASSUME IInv, Next PROVE Alone
  <2> SUFFICES ASSUME NEW i \in DOMAIN task', NEW j \in DOMAIN task',
                      Tied(i, j)', task'[i].pos > 0,
                      ~ \E q \in Reqs : Overtaken(q) /\ req'[q] = Idle
               PROVE  {i, j} \subseteq DOMAIN task /\ Tied(i, j)
    OBVIOUS
  <2>0. \A q \in Reqs : Ends(q) => ~ Overtaken(q)
    BY <1>1 DEF Ends, Goes, IInv, HandlersOK
  <2>u. UNCHANGED task => {i, j} \subseteq DOMAIN task /\ Tied(i, j)
    BY DEF Tied
  <2>k. ASSUME NEW ids \in SUBSET DOMAIN task, task' = Keep(ids)
        PROVE  {i, j} \subseteq DOMAIN task /\ Tied(i, j)
    BY <2>k DEF Keep, Tied
  <2>1. ASSUME NEW q \in Reqs, CreatePlanRead(q) \/ DeletePlanRead(q) \/ MoveLook(q)
        PROVE  UNCHANGED task
    BY <2>1 DEF CreatePlanRead, DeletePlanRead, MoveLook
  <2>2. ASSUME NEW q \in Reqs, NEW p \in Plans, CreatePlanCommit(q, p)
        PROVE  {i, j} \subseteq DOMAIN task /\ Tied(i, j)
    BY <1>1, <2>2, NewPlanAlone
  <2>3. ASSUME NEW q \in Reqs, NEW k \in Extras, CreateTaskCommit(q, k)
        PROVE  {i, j} \subseteq DOMAIN task /\ Tied(i, j)
    BY <1>1, <2>0, <2>3, AppendedAlone DEF CreateTaskCommit
  <2>4. ASSUME NEW q \in Reqs, MoveCommit(q)
        PROVE  {i, j} \subseteq DOMAIN task /\ Tied(i, j)
    BY <1>1, <2>0, <2>4, MovedAlone DEF MoveCommit
  <2>5. ASSUME NEW q \in Reqs, DeleteTaskCommit(q)
        PROVE  {i, j} \subseteq DOMAIN task /\ Tied(i, j)
    BY <2>5, <2>k DEF DeleteTaskCommit
  <2>6. ASSUME NEW q \in Reqs, DeletePlanCommit(q)
        PROVE  {i, j} \subseteq DOMAIN task /\ Tied(i, j)
    BY <2>6, <2>k DEF DeletePlanCommit, Left
  <2>7. ASSUME NEW q \in Reqs, NEW d \in Days, CreateTaskRead(q, d) PROVE UNCHANGED task
    BY <2>7 DEF CreateTaskRead
  <2>8. ASSUME NEW q \in Reqs, NEW x \in DOMAIN task, NEW d \in Days, MoveRead(q, x, d)
        PROVE  UNCHANGED task
    BY <2>8 DEF MoveRead
  <2>9. ASSUME NEW q \in Reqs, NEW x \in DOMAIN task, DeleteTaskRead(q, x)
        PROVE  UNCHANGED task
    BY <2>9 DEF DeleteTaskRead
  <2> QED
    BY <1>1, <2>u, <2>1, <2>2, <2>3, <2>4, <2>5, <2>6, <2>7, <2>8, <2>9 DEF Next
<1>2. IInv /\ [Next]_vars => [Alone]_vars
  BY <1>1
<1> QED
  BY <1>2, Inductive, PTL DEF Spec, TiesNeedOverlap

-----------------------------------------------------------------------------
(* Sums, which the generator is full of.                                     *)

\* g adds up f over every part of W, a member at a time.
AddsUp(f, W, g) ==
    g = [d \in SUBSET W |->
            IF d = {} THEN 0
            ELSE f[CHOOSE x \in d : TRUE] + g[d \ {CHOOSE x \in d : TRUE}]]

\* Over a finite set there is such a g: a sum over n members is made from those
\* over fewer.
LEMMA SumExists ==
    ASSUME NEW W, IsFiniteSet(W), NEW f
    PROVE  \E g : AddsUp(f, W, g)
<1> DEFINE one(d) == CHOOSE x \in d : TRUE
           AddsUpTo(n, g) == /\ g = [d \in SUBSET W |-> g[d]]
                         /\ \A d \in SUBSET W : Cardinality(d) <= n =>
                               g[d] = IF d = {} THEN 0 ELSE f[one(d)] + g[d \ {one(d)}]
           T == {n \in Nat : ~ \E g : AddsUpTo(n, g)}
<1>0. \A d \in SUBSET W : IsFiniteSet(d) /\ Cardinality(d) \in Nat
  BY FS_Subset, FS_CardinalityType
<1>a. ASSUME NEW d \in SUBSET W, d # {}
      PROVE  /\ one(d) \in d /\ d \ {one(d)} \in SUBSET W
             /\ Cardinality(d \ {one(d)}) = Cardinality(d) - 1
  <2>1. one(d) \in d
    BY <1>a
  <2> QED
    BY <1>0, <2>1, FS_RemoveElement
<1> HIDE DEF one
<1>1. T = {}
  <2> SUFFICES ASSUME T # {} PROVE FALSE
    OBVIOUS
  <2>1. PICK m \in T : \A y \in T : m <= y
    BY LeastNumber
  <2>2. m # 0
    <3>1. AddsUpTo(0, [d \in SUBSET W |-> 0])
      <4>1. \A d \in SUBSET W : Cardinality(d) <= 0 => d = {}
        <5> SUFFICES ASSUME NEW d \in SUBSET W, Cardinality(d) <= 0, d # {} PROVE FALSE
          OBVIOUS
        <5>1. Cardinality(d \ {one(d)}) \in Nat /\ Cardinality(d) \in Nat
          BY <1>0, <1>a
        <5> QED
          BY <1>a, <5>1
      <4> QED
        BY <4>1
    <3> HIDE DEF AddsUpTo
    <3> QED
      BY <2>1, <3>1
  <2>3. PICK g : AddsUpTo(m - 1, g)
    <3>1. m - 1 \in Nat /\ ~ (m <= m - 1)
      BY <2>1, <2>2
    <3> QED
      BY <2>1, <3>1
  <2> DEFINE h == [d \in SUBSET W |-> IF Cardinality(d) = m THEN f[one(d)] + g[d \ {one(d)}]
                                       ELSE g[d]]
  <2>4. AddsUpTo(m, h)
    <3>1. h = [d \in SUBSET W |-> h[d]]
      OBVIOUS
    <3>2. ASSUME NEW d \in SUBSET W, Cardinality(d) <= m
          PROVE  h[d] = IF d = {} THEN 0 ELSE f[one(d)] + h[d \ {one(d)}]
      <4>1. CASE d = {}
        <5>1. Cardinality(d) = 0
          BY <4>1, FS_EmptySet
        <5>2. h[d] = g[d]
          BY <2>2, <5>1
        <5>3. 0 <= m - 1
          BY <2>1, <2>2
        <5> QED
          BY <2>3, <4>1, <5>1, <5>2, <5>3
      <4>2. CASE d # {}
        <5>1. /\ d \ {one(d)} \in SUBSET W
              /\ Cardinality(d \ {one(d)}) = Cardinality(d) - 1
              /\ Cardinality(d) \in Nat /\ m \in Nat
          BY <1>0, <1>a, <4>2
        <5>2. h[d \ {one(d)}] = g[d \ {one(d)}]
          BY <3>2, <5>1
        <5>3. CASE Cardinality(d) = m
          BY <4>2, <5>2, <5>3
        <5>4. CASE Cardinality(d) <= m - 1
          <6>1. h[d] = g[d]
            BY <5>1, <5>4
          <6> QED
            BY <2>3, <4>2, <5>2, <5>4, <6>1
        <5> QED
          BY <3>2, <5>1, <5>3, <5>4
      <4> QED
        BY <4>1, <4>2
    <3> HIDE DEF h
    <3> QED
      BY <3>1, <3>2
  <2> HIDE DEF h, AddsUpTo
  <2> QED
    BY <2>1, <2>4
<1>2. Cardinality(W) \in Nat /\ \A d \in SUBSET W : Cardinality(d) <= Cardinality(W)
  BY <1>0, FS_Subset
<1>3. PICK g : AddsUpTo(Cardinality(W), g)
  <2> HIDE DEF AddsUpTo
  <2> QED
    BY <1>1, <1>2
<1>4. \A d \in SUBSET W : g[d] = IF d = {} THEN 0 ELSE f[one(d)] + g[d \ {one(d)}]
  BY <1>2, <1>3
<1>5. g = [d \in SUBSET W |-> IF d = {} THEN 0 ELSE f[one(d)] + g[d \ {one(d)}]]
  BY <1>3, <1>4
<1> QED
  BY <1>5 DEF AddsUp, one

\* A sum of integers is an integer, and of numbers a number.
LEMMA SumType ==
    ASSUME NEW W, IsFiniteSet(W), NEW N, N \in {Int, Nat}, NEW f, \A x \in W : f[x] \in N,
           NEW g, AddsUp(f, W, g)
    PROVE  g[W] \in N
<1> DEFINE one(d) == CHOOSE x \in d : TRUE
<1>0. \A d \in SUBSET W : IsFiniteSet(d) /\ Cardinality(d) \in Nat
  BY FS_Subset, FS_CardinalityType
<1>2. \A d \in SUBSET W : g[d] = IF d = {} THEN 0 ELSE f[one(d)] + g[d \ {one(d)}]
  BY DEF AddsUp
<1>a. ASSUME NEW d \in SUBSET W, d # {}
      PROVE  /\ one(d) \in d /\ d \ {one(d)} \in SUBSET W
             /\ Cardinality(d \ {one(d)}) = Cardinality(d) - 1
  <2>1. one(d) \in d
    BY <1>a
  <2> QED
    BY <1>0, <2>1, FS_RemoveElement
<1> HIDE DEF one
<1> DEFINE T == {n \in Nat : \E d \in SUBSET W : Cardinality(d) = n /\ g[d] \notin N}
<1>3. T = {}
  <2> SUFFICES ASSUME T # {} PROVE FALSE
    OBVIOUS
  <2>1. PICK m \in T : \A y \in T : m <= y
    BY LeastNumber
  <2>2. PICK d \in SUBSET W : Cardinality(d) = m /\ g[d] \notin N
    BY <2>1
  <2>3. d # {}
    <3>1. 0 \in N
      OBVIOUS
    <3> QED
      BY <1>2, <2>2, <3>1
  <2> DEFINE e == d \ {one(d)}
  <2>4. /\ e \in SUBSET W /\ Cardinality(e) = m - 1 /\ m - 1 \in Nat /\ ~ (m <= m - 1)
        /\ f[one(d)] \in N
    <3>1. one(d) \in d /\ e \in SUBSET W /\ Cardinality(e) = m - 1
      BY <1>a, <2>2, <2>3
    <3>2. Cardinality(e) \in Nat /\ m \in Nat
      BY <1>0, <2>1, <3>1
    <3> QED
      BY <3>1, <3>2
  <2>5. g[e] \in N
    <3> HIDE DEF e
    <3> QED
      BY <2>1, <2>4
  <2>6. g[d] = f[one(d)] + g[e]
    BY <1>2, <2>3
  <2> HIDE DEF e
  <2> QED
    BY <2>2, <2>4, <2>5, <2>6
<1> QED
  BY <1>0, <1>3

\* A sum lies between the least and the greatest it can be.
LEMMA SumBounds ==
    ASSUME NEW W, IsFiniteSet(W), NEW f, NEW lo \in Int, NEW hi \in Int,
           \A x \in W : f[x] \in lo .. hi, NEW g, AddsUp(f, W, g)
    PROVE  /\ g[W] \in Int
           /\ lo * Cardinality(W) <= g[W] /\ g[W] <= hi * Cardinality(W)
<1> DEFINE one(d) == CHOOSE x \in d : TRUE
<1>0. \A d \in SUBSET W : IsFiniteSet(d) /\ Cardinality(d) \in Nat
  BY FS_Subset, FS_CardinalityType
<1>2. \A d \in SUBSET W : g[d] = IF d = {} THEN 0 ELSE f[one(d)] + g[d \ {one(d)}]
  BY DEF AddsUp
<1>a. ASSUME NEW d \in SUBSET W, d # {}
      PROVE  /\ one(d) \in d /\ d \ {one(d)} \in SUBSET W
             /\ Cardinality(d \ {one(d)}) = Cardinality(d) - 1
  <2>1. one(d) \in d
    BY <1>a
  <2> QED
    BY <1>0, <2>1, FS_RemoveElement
<1> HIDE DEF one
<1> DEFINE Within(d) == /\ g[d] \in Int
                         /\ lo * Cardinality(d) <= g[d] /\ g[d] <= hi * Cardinality(d)
           T == {n \in Nat : \E d \in SUBSET W : Cardinality(d) = n /\ ~ Within(d)}
<1>3. T = {}
  <2> SUFFICES ASSUME T # {} PROVE FALSE
    OBVIOUS
  <2>1. PICK m \in T : \A y \in T : m <= y
    BY LeastNumber
  <2>2. PICK d \in SUBSET W : Cardinality(d) = m /\ ~ Within(d)
    BY <2>1
  <2>3. d # {}
    <3>1. lo * 0 = 0 /\ hi * 0 = 0
      OBVIOUS
    <3>2. d = {} => g[d] = 0 /\ Cardinality(d) = 0
      BY <1>2, FS_EmptySet
    <3> QED
      BY <2>2, <3>1, <3>2
  <2> DEFINE e == d \ {one(d)}
  <2>4. /\ e \in SUBSET W /\ Cardinality(e) = m - 1 /\ m - 1 \in Nat /\ ~ (m <= m - 1)
        /\ f[one(d)] \in lo .. hi
    <3>1. one(d) \in d /\ e \in SUBSET W /\ Cardinality(e) = m - 1
      BY <1>a, <2>2, <2>3
    <3>2. Cardinality(e) \in Nat /\ m \in Nat
      BY <1>0, <2>1, <3>1
    <3> QED
      BY <3>1, <3>2
  <2>5. Within(e)
    <3> HIDE DEF e, Within
    <3> QED
      BY <2>1, <2>4
  <2>6. g[d] = f[one(d)] + g[e]
    BY <1>2, <2>3
  <2> HIDE DEF e
  <2>7. lo * m = lo * (m - 1) + lo /\ hi * m = hi * (m - 1) + hi
    BY <2>4
  <2> QED
    BY <2>2, <2>4, <2>5, <2>6, <2>7
<1>4. Within(W)
  <2> HIDE DEF Within
  <2> QED
    BY <1>0, <1>3
<1> QED
  BY <1>4

\* The sum over a function's values.
LEMMA SumOf ==
    ASSUME NEW W, IsFiniteSet(W), NEW f, DOMAIN f = W
    PROVE  \E g : AddsUp(f, W, g) /\ G!SumFunction(f) = g[W]
<1> DEFINE sum == CHOOSE g : AddsUp(f, W, g)
<1>1. G!SumFunction(f) = sum[W]
  BY DEF G!SumFunction, G!SumFunctionOnSet, G!FoldFunctionOnSet, G!MapThenFoldSet, AddsUp
<1>2. AddsUp(f, W, sum)
  BY SumExists
<1> QED
  BY <1>1, <1>2

-----------------------------------------------------------------------------
(* What generate_plan makes.                                                 *)

LEMMA TwoMembers ==
    ASSUME NEW a \in Int, NEW b \in Int
    PROVE  /\ G!Min({a, b}) = IF a <= b THEN a ELSE b
           /\ G!Max({a, b}) = IF a <= b THEN b ELSE a
<1>1. PICK m : m = IF a <= b THEN a ELSE b
  OBVIOUS
<1>2. PICK n : n = IF a <= b THEN b ELSE a
  OBVIOUS
<1>3. /\ m \in {a, b} /\ \A y \in {a, b} : m <= y
      /\ \A x \in {a, b} : (\A y \in {a, b} : x <= y) => x = m
  BY <1>1
<1>4. /\ n \in {a, b} /\ \A y \in {a, b} : n >= y
      /\ \A x \in {a, b} : (\A y \in {a, b} : x >= y) => x = n
  BY <1>2
<1> QED
  BY <1>1, <1>2, <1>3, <1>4 DEF G!Min, G!Max

LEMMA RoundedType ==
    ASSUME NEW a \in Int, NEW b \in Nat \ {0} PROVE G!Rounded(a, b) \in Int
<1>1. a \div b \in Int
  OBVIOUS
<1> QED
  BY <1>1 DEF G!Rounded

LEMMA SameSize == \A Z : G!Cardinality(Z) = Cardinality(Z)
BY DEF G!Cardinality, Cardinality

LEMMA FourSkills ==
    /\ G!Skills = {"listening", "reading", "writing", "speaking"}
    /\ IsFiniteSet(G!Skills) /\ Cardinality(G!Skills) \in Nat \ {0}
<1>1. G!Skills = {"listening"} \cup ({"reading"} \cup ({"writing"} \cup {"speaking"}))
  BY DEF G!Skills, G!Range
<1>2. IsFiniteSet({"reading"} \cup ({"writing"} \cup {"speaking"}))
  BY FS_Singleton, FS_Union
<1>3. IsFiniteSet(G!Skills)
  BY <1>1, <1>2, FS_Singleton, FS_Union
<1> QED
  BY <1>1, <1>3, FS_CardinalityType, FS_EmptySet

\* The frame of the plan: its last day, and up to three sessions a day.
LEMMA Frame ==
    ASSUME intake \in G!Intake
    PROVE  /\ G!TestDay \in 6 .. 364 /\ G!WeeklyMinutes \in Nat
           /\ G!DailySessions \in 1 .. 3
<1>1. intake.horizon \in 7 .. 365 /\ intake.hours \in 1 .. 40
  BY InstancesOK DEF G!Intake, G!ConstantsOK
<1>2. G!WeeklyMinutes \in Nat
  BY <1>1 DEF G!WeeklyMinutes
<1> DEFINE r == G!Rounded(G!WeeklyMinutes, G!SessionMinutes)
<1>3. r \in Int
  BY <1>2, RoundedType DEF G!SessionMinutes
<1> HIDE DEF r
<1>4. G!Min({21, r}) \in Int /\ G!Min({21, r}) <= 21
  <2>1. 21 \in Int
    OBVIOUS
  <2> QED
    BY <1>3, <2>1, TwoMembers
<1>5. G!SessionsPerWeek \in 2 .. 21
  <2>1. 2 \in Int
    OBVIOUS
  <2>2. G!SessionsPerWeek = IF 2 <= G!Min({21, r}) THEN G!Min({21, r}) ELSE 2
    BY <1>4, <2>1, TwoMembers DEF G!SessionsPerWeek, r
  <2> QED
    BY <1>4, <2>2
<1>6. G!StudyDayCount = IF 7 <= G!SessionsPerWeek THEN 7 ELSE G!SessionsPerWeek
  <2>1. 7 \in Int /\ G!SessionsPerWeek \in Int
    BY <1>5
  <2> QED
    BY <2>1, TwoMembers DEF G!StudyDayCount
<1>7. G!DailySessions \in 1 .. 3
  <2> DEFINE m == G!SessionsPerWeek
  <2> HIDE DEF m
  <2>1. m \in 2 .. 21 /\ G!DailySessions = IF 7 <= m THEN (m + 7 - 1) \div 7
                                             ELSE (m + m - 1) \div m
    BY <1>5, <1>6 DEF G!DailySessions, m
  <2>2. CASE 7 <= m
    <3>1. (m + 7 - 1) \div 7 \in 1 .. 3
      BY <2>1, <2>2
    <3> QED
      BY <2>1, <2>2, <3>1
  <2>3. CASE m < 7
    <3>1. (m + m - 1) \div m = 1
      BY <2>1, <2>3
    <3> QED
      BY <2>1, <2>3, <3>1
  <2> QED
    BY <2>1, <2>2, <2>3
<1> QED
  BY <1>1, <1>2, <1>7 DEF G!TestDay

\* The weights add up to something.
LEMMA WeightsAddUp ==
    ASSUME intake \in G!Intake
    PROVE  /\ intake.weights \in [G!Skills -> 2 .. 20]
           /\ G!TotalWeight \in Nat \ {0}
<1> DEFINE f == intake.weights
<1>1. f \in [G!Skills -> 2 .. 20]
  BY InstancesOK DEF G!Intake, G!ConstantsOK
<1> HIDE DEF f
<1>2. PICK g : AddsUp(f, G!Skills, g) /\ G!SumFunction(f) = g[G!Skills]
  BY <1>1, FourSkills, SumOf
<1>3. g[G!Skills] \in Int /\ 2 * Cardinality(G!Skills) <= g[G!Skills]
  <2>1. 2 \in Int /\ 20 \in Int /\ \A x \in G!Skills : f[x] \in 2 .. 20
    BY <1>1
  <2> QED
    BY <1>2, <2>1, FourSkills, SumBounds
<1> QED
  BY <1>1, <1>2, <1>3, FourSkills DEF G!TotalWeight, f

\* The days of a week are days of the plan.
LEMMA DaysInPlan ==
    ASSUME intake \in G!Intake, NEW w \in Nat
    PROVE  /\ G!StudyDays(w) \subseteq 0 .. G!TestDay
           /\ IsFiniteSet(G!StudyDays(w)) /\ IsFiniteSet(G!DrillDays(w))
<1>1. G!TestDay \in Nat
  BY Frame
<1>2. G!Min({7 * w + 6, G!TestDay}) \in Int /\ G!Min({7 * w + 6, G!TestDay}) <= G!TestDay
  <2>1. 7 * w + 6 \in Int /\ G!TestDay \in Int
    BY <1>1
  <2> QED
    BY <2>1, TwoMembers
<1>3. G!DaysOf(w) \subseteq 0 .. G!TestDay
  BY <1>1, <1>2 DEF G!DaysOf
<1>4. G!StudyDays(w) \subseteq 0 .. G!TestDay
  BY <1>3 DEF G!StudyDays
<1>5. IsFiniteSet(0 .. G!TestDay)
  <2>1. 0 \in Int /\ G!TestDay \in Int
    BY <1>1
  <2> QED
    BY <2>1, FS_Interval
<1> QED
  BY <1>4, <1>5, FS_Subset DEF G!DrillDays

\* A mock is held on a day of the plan.
LEMMA MockInPlan ==
    ASSUME intake \in G!Intake, NEW w \in Nat, G!MockDay(w) # None
    PROVE  G!MockDay(w) \in 0 .. G!TestDay /\ G!MockDay(w) \in G!StudyDays(w)
<1> DEFINE D == G!StudyDays(w)
<1>1. D \subseteq 0 .. G!TestDay /\ IsFiniteSet(D) /\ G!TestDay \in Nat
  BY DaysInPlan, Frame
<1>2. G!MockDay(w) = G!Max(D) /\ Cardinality(D) > 1
  BY SameSize DEF G!MockDay
<1>3. D # {}
  BY <1>2, FS_EmptySet
<1> HIDE DEF D
<1> DEFINE U == {n \in 0 .. G!TestDay : G!TestDay - n \in D}
<1>4. U \in SUBSET Nat /\ U # {}
  <2>1. PICK d \in D : TRUE
    BY <1>3
  <2>2. d \in 0 .. G!TestDay
    BY <1>1
  <2>3. G!TestDay - d \in 0 .. G!TestDay /\ G!TestDay - (G!TestDay - d) = d
    BY <1>1, <2>2
  <2>4. G!TestDay - (G!TestDay - d) \in D
    BY <2>1, <2>3
  <2>5. G!TestDay - d \in U
    BY <2>3, <2>4
  <2>6. U \subseteq Nat
    OBVIOUS
  <2> QED
    BY <2>5, <2>6
<1>5. PICK n \in U : \A m \in U : n <= m
  <2> HIDE DEF U
  <2> QED
    BY <1>4, LeastNumber
<1>6. \A y \in D : G!TestDay - n >= y
  <2> TAKE y \in D
  <2>1. y \in 0 .. G!TestDay
    BY <1>1
  <2>2. G!TestDay - y \in 0 .. G!TestDay /\ G!TestDay - (G!TestDay - y) = y
    BY <1>1, <2>1
  <2>3. G!TestDay - y \in U
    BY <2>2
  <2>4. n \in 0 .. G!TestDay /\ n <= G!TestDay - y
    BY <1>5, <2>3
  <2> HIDE DEF U
  <2> QED
    BY <1>1, <2>1, <2>4
<1>7. G!Max(D) \in D
  BY <1>5, <1>6 DEF G!Max
<1> QED
  BY <1>1, <1>2, <1>7 DEF D

\* int() of a quotient is an integer.
LEMMA WholeType ==
    ASSUME NEW x \in Int, NEW y \in Nat \ {0} PROVE G!Whole(x, y) \in Int
<1>1. (-x) \div y \in Int /\ x \div y \in Int
  OBVIOUS
<1> QED
  BY <1>1 DEF G!Whole

\* A week has a whole number of sessions.
LEMMA SlotsType ==
    ASSUME intake \in G!Intake, NEW w \in Nat PROVE G!Slots(w) \in Int
<1>1. G!WeeklyMinutes \in Int /\ G!DailySessions \in Int
  BY Frame
<1>2. G!DrillMinutes(w) \in Int
  <2>1. 0 \in Int /\ G!WeeklyMinutes - G!MockMinutes \in Int
    BY <1>1 DEF G!MockMinutes
  <2>2. G!Max({0, G!WeeklyMinutes - G!MockMinutes}) \in Int
    BY <2>1, TwoMembers
  <2> QED
    BY <1>1, <2>2 DEF G!DrillMinutes
<1>3. G!Rounded(G!DrillMinutes(w), G!SessionMinutes) \in Int
  BY <1>2, RoundedType DEF G!SessionMinutes
<1>4. Cardinality(G!DrillDays(w)) * G!DailySessions \in Int
  <2>1. Cardinality(G!DrillDays(w)) \in Int
    BY DaysInPlan, FS_CardinalityType
  <2> QED
    BY <1>1, <2>1
<1> QED
  BY <1>3, <1>4, SameSize, TwoMembers DEF G!Slots

\* A share is a whole number of sessions for each skill, and leaves a credit.
LEMMA AllocationsType ==
    ASSUME intake \in G!Intake, credit \in [G!Skills -> Int], NEW n \in Int,
           NEW share \in G!Allocations(n)
    PROVE  share.counts \in [G!Skills -> Int] /\ share.credit \in [G!Skills -> Int]
<1> DEFINE due == G!Due(n)
           counts == [s \in G!Skills |-> G!Whole(due[s], G!TotalWeight)]
           rest == [s \in G!Skills |-> due[s] - counts[s] * G!TotalWeight]
           more(S, s) == IF s \in S THEN 1 ELSE 0
<1>1. intake.weights \in [G!Skills -> 2 .. 20] /\ G!TotalWeight \in Nat \ {0}
  BY WeightsAddUp
<1>2. due \in [G!Skills -> Int]
  BY <1>1 DEF G!Due
<1> HIDE DEF due
<1>3. counts \in [G!Skills -> Int]
  BY <1>1, <1>2, WholeType
<1> HIDE DEF counts
<1>4. rest \in [G!Skills -> Int]
  BY <1>1, <1>2, <1>3
<1> HIDE DEF rest
<1>5. PICK S : share = [counts |-> [s \in G!Skills |-> counts[s] + more(S, s)],
                        credit |-> [s \in G!Skills |-> rest[s] - more(S, s) * G!TotalWeight]]
  BY DEF G!Allocations, due, counts, rest
<1>6. \A s \in G!Skills : more(S, s) \in Int
  OBVIOUS
<1> HIDE DEF more
<1> QED
  BY <1>1, <1>3, <1>4, <1>5, <1>6

\* A session's place in the queue is a number.
LEMMA PlaceType ==
    ASSUME NEW counts \in [G!Skills -> Int], NEW i \in 1 .. 4, NEW n \in Int
    PROVE  G!Place(counts, i, n) \in Nat
<1> DEFINE order == <<"listening", "reading", "writing", "speaking">>
           f == [j \in DOMAIN order |->
                    G!Max({0, counts[order[j]] - (IF j < i THEN n - 1 ELSE n)})]
<1>1. DOMAIN order = 1 .. 4 /\ \A j \in 1 .. 4 : order[j] \in G!Skills
  BY FourSkills
<1>2. \A j \in 1 .. 4 : f[j] \in Nat
  <2> TAKE j \in 1 .. 4
  <2> DEFINE left == counts[order[j]] - (IF j < i THEN n - 1 ELSE n)
  <2>1. 0 \in Int /\ left \in Int
    BY <1>1
  <2>2. f[j] = G!Max({0, left})
    BY <1>1
  <2> HIDE DEF left, f
  <2>3. G!Max({0, left}) = IF 0 <= left THEN left ELSE 0
    BY <2>1, TwoMembers
  <2>4. G!Max({0, left}) \in Nat
    BY <2>1, <2>3
  <2> QED
    BY <2>2, <2>4
<1>3. IsFiniteSet(1 .. 4) /\ DOMAIN f = 1 .. 4
  <2>1. 1 \in Int /\ 4 \in Int
    OBVIOUS
  <2> QED
    BY <1>1, <2>1, FS_Interval
<1>4. G!Place(counts, i, n) = G!SumFunction(f)
  BY DEF G!Place
<1> HIDE DEF f
<1>5. PICK g : AddsUp(f, 1 .. 4, g) /\ G!SumFunction(f) = g[1 .. 4]
  BY <1>3, SumOf
<1> QED
  BY <1>2, <1>3, <1>4, <1>5, SumType

\* What a task of the plan may be.
InPlan(t) ==
    /\ t.day \in 0 .. G!TestDay /\ t.position \in 0 .. 2
    /\ t.skill \in G!Skills \cup {None}

\* The drills of a week are tasks of the plan.
LEMMA DrillsType ==
    ASSUME intake \in G!Intake, NEW w \in Nat, NEW counts \in [G!Skills -> Int],
           NEW t \in G!Drills(w, counts)
    PROVE  InPlan(t)
<1> DEFINE order == <<"listening", "reading", "writing", "speaking">>
           queued == UNION {{<<G!Place(counts, i, n), order[i]>> : n \in 1 .. counts[order[i]]} :
                               i \in DOMAIN order}
<1>1. PICK day \in G!DrillDays(w), x \in queued :
        t = G!Task(day, x[1] % G!DailySessions, x[2], "drill", G!SessionMinutes)
  BY DEF G!Drills
<1>2. x[1] \in Nat /\ x[2] \in G!Skills
  <2>1. DOMAIN order = 1 .. 4 /\ \A j \in 1 .. 4 : order[j] \in G!Skills
    BY FourSkills
  <2>2. PICK i \in DOMAIN order :
          x \in {<<G!Place(counts, i, n), order[i]>> : n \in 1 .. counts[order[i]]}
    OBVIOUS
  <2>3. PICK n \in 1 .. counts[order[i]] : x = <<G!Place(counts, i, n), order[i]>>
    BY <2>2
  <2>4. i \in 1 .. 4 /\ n \in Int
    BY <2>1
  <2> HIDE DEF order
  <2>5. G!Place(counts, i, n) \in Nat
    BY <2>4, PlaceType
  <2> QED
    BY <2>1, <2>3, <2>4, <2>5
<1>3. day \in 0 .. G!TestDay
  BY DaysInPlan DEF G!DrillDays
<1>4. x[1] % G!DailySessions \in 0 .. 2
  <2> DEFINE a == x[1]
             b == G!DailySessions
  <2>1. a \in Nat /\ b \in 1 .. 3
    BY <1>2, Frame
  <2> HIDE DEF a, b
  <2>2. a % b \in 0 .. 2
    BY <2>1
  <2> QED
    BY <2>2 DEF a, b
<1> HIDE DEF queued
<1> QED
  BY <1>1, <1>2, <1>3, <1>4 DEF G!Task, InPlan

\* generate_plan keeps to what the table of tasks may hold.
LEMMA GeneratorStep ==
    ASSUME G!TypeOK, G!Next PROVE G!TypeOK'
<1> USE DEF InPlan
<1>0. /\ intake \in G!Intake /\ week \in 0 .. 53 /\ week \in Nat
      /\ credit \in [G!Skills -> Int] /\ \A t \in tasks : InPlan(t)
  BY DEF G!TypeOK
<1>1. G!TestDay \in 6 .. 364
  BY <1>0, Frame
<1>2. intake' = intake
  BY DEF G!Next, G!Week, G!Taper
<1>3. ASSUME week' \in 0 .. 53, credit' \in [G!Skills -> Int], \A t \in tasks' : InPlan(t)
      PROVE  G!TypeOK'
  BY <1>0, <1>2, <1>3 DEF G!TypeOK, G!TestDay, G!Intake, G!Skills
<1>4. CASE G!Week
  <2>1. 7 * week <= G!TestDay /\ week' = week + 1
    BY <1>4 DEF G!Week
  <2>2. week' \in 0 .. 53
    BY <1>0, <1>1, <2>1
  <2>3. CASE G!StudyDays(week) = {}
    BY <1>0, <1>3, <1>4, <2>2, <2>3 DEF G!Week
  <2>4. CASE G!StudyDays(week) # {}
    <3>1. PICK share \in G!Allocations(G!Slots(week)) :
            /\ credit' = share.credit
            /\ tasks' = tasks \cup G!Drills(week, share.counts) \cup G!Mock(week)
      BY <1>4, <2>4 DEF G!Week
    <3>2. share.counts \in [G!Skills -> Int] /\ share.credit \in [G!Skills -> Int]
      <4>1. G!Slots(week) \in Int
        BY <1>0, SlotsType
      <4> QED
        BY <1>0, <4>1, AllocationsType
    <3>3. \A t \in G!Drills(week, share.counts) : InPlan(t)
      BY <1>0, <3>2, DrillsType
    <3>4. \A t \in G!Mock(week) : InPlan(t)
      BY <1>0, MockInPlan DEF G!Mock, G!Task
    <3> HIDE DEF InPlan
    <3> QED
      BY <1>0, <1>3, <2>2, <3>1, <3>2, <3>3, <3>4
  <2> QED
    BY <2>3, <2>4
<1>5. CASE G!Taper
  <2>1. PICK s1 \in G!Skills, s2 \in G!Skills :
          tasks' = tasks \cup {G!Task(G!TaperStart, 0, s1, "review", 30),
                               G!Task(G!TaperStart + 1, 0, s2, "review", 30),
                               G!Task(G!TestDay, 0, None, "exam", 0)}
    BY <1>5 DEF G!Taper, G!Weakest
  <2>2. /\ G!TaperStart \in 0 .. G!TestDay /\ G!TaperStart + 1 \in 0 .. G!TestDay
        /\ G!TestDay \in 0 .. G!TestDay
    BY <1>1 DEF G!TaperStart, G!TaperDays
  <2>3. \A t \in tasks' : InPlan(t)
    BY <1>0, <2>1, <2>2 DEF G!Task
  <2> QED
    BY <1>0, <1>3, <1>5, <2>3 DEF G!Taper
<1> QED
  BY <1>4, <1>5 DEF G!Next

LEMMA GeneratorStarts == ASSUME G!Init PROVE G!TypeOK
BY DEF G!Init, G!TypeOK

\* The table of tasks and the plan that is being made hold what they may hold:
\* a day of the plan, a place within its sessions, a skill or none.
THEOREM TypesTheorem == MCSpec => []TypesOK
<1> DEFINE PInv == IInv /\ G!TypeOK
<1>1. MCInit => PInv
  BY Initially, GeneratorStarts DEF MCInit, GeneratorInit
<1>2. PInv /\ [MCNext]_<<moving, vars, planVars>> => PInv'
  <2> SUFFICES ASSUME PInv, [MCNext]_<<moving, vars, planVars>> PROVE PInv'
    OBVIOUS
  <2>1. UNCHANGED planVars => G!TypeOK'
    BY DEF planVars, G!TypeOK, G!TestDay, G!Intake
  <2>2. [Next]_vars => IInv'
    BY InvStep
  <2> QED
    BY <2>1, <2>2, GeneratorStep DEF MCNext
<1>3. PInv => TypesOK
  BY StoreTypes DEF TypesOK
<1> QED
  BY <1>1, <1>2, <1>3, PTL DEF MCSpec

-----------------------------------------------------------------------------
(* Sums over the skills.                                                     *)

\* Any member may be added last.
AnyFirst(f, W, g) == \A d \in SUBSET W : \A x \in d : g[d] = f[x] + g[d \ {x}]

\* Any member of the set may be added last.
LEMMA SumSplit ==
    ASSUME NEW W, IsFiniteSet(W), NEW f, \A x \in W : f[x] \in Int,
           NEW g, AddsUp(f, W, g)
    PROVE  AnyFirst(f, W, g)
<1> DEFINE one(d) == CHOOSE x \in d : TRUE
           Splits(d) == g[d] \in Int /\ \A x \in d : g[d] = f[x] + g[d \ {x}]
           T == {n \in Nat : \E d \in SUBSET W : Cardinality(d) = n /\ ~ Splits(d)}
<1>0. \A d \in SUBSET W : IsFiniteSet(d) /\ Cardinality(d) \in Nat
  BY FS_Subset, FS_CardinalityType
<1>1. \A d \in SUBSET W : IF d = {} THEN g[d] = 0
                          ELSE one(d) \in d /\ g[d] = f[one(d)] + g[d \ {one(d)}]
  BY DEF AddsUp
<1> HIDE DEF one
<1>2. T = {}
  <2> SUFFICES ASSUME T # {} PROVE FALSE
    OBVIOUS
  <2>1. PICK m \in T : \A y \in T : m <= y
    BY LeastNumber
  <2>2. PICK d \in SUBSET W : Cardinality(d) = m /\ ~ Splits(d)
    BY <2>1
  <2>s. \A y \in d : /\ d \ {y} \in SUBSET W /\ Cardinality(d \ {y}) = m - 1
                     /\ m - 1 \in Nat /\ Splits(d \ {y})
    <3> SUFFICES ASSUME NEW y \in d
                 PROVE  /\ d \ {y} \in SUBSET W /\ Cardinality(d \ {y}) = m - 1
                        /\ m - 1 \in Nat /\ Splits(d \ {y})
      OBVIOUS
    <3>1. d \ {y} \in SUBSET W /\ Cardinality(d \ {y}) = m - 1
      BY <1>0, <2>2, FS_RemoveElement
    <3>2. m - 1 \in Nat /\ ~ (m <= m - 1)
      BY <1>0, <2>1, <3>1
    <3> HIDE DEF Splits
    <3> QED
      BY <2>1, <3>1, <3>2
  <2>3. g[d] \in Int
    <3>1. CASE d = {}
      BY <1>1, <3>1
    <3>2. CASE d # {}
      <4>1. one(d) \in d /\ g[d] = f[one(d)] + g[d \ {one(d)}]
        BY <1>1, <3>2
      <4>2. f[one(d)] \in Int /\ g[d \ {one(d)}] \in Int
        BY <2>s, <4>1
      <4> QED
        BY <4>1, <4>2
    <3> QED
      BY <3>1, <3>2
  <2>4. PICK x \in d : g[d] # f[x] + g[d \ {x}]
    BY <2>2, <2>3
  <2> DEFINE c == one(d)  e == d \ {c}  u == d \ {x}
  <2>5. c \in d /\ c # x /\ g[d] = f[c] + g[e]
    BY <1>1, <2>4
  <2>6. x \in e /\ c \in u /\ e \ {x} = u \ {c}
    BY <2>5
  <2>7. g[e] = f[x] + g[e \ {x}] /\ g[u] = f[c] + g[u \ {c}]
    BY <2>4, <2>5, <2>6, <2>s
  <2>8. g[e \ {x}] \in Int /\ f[x] \in Int /\ f[c] \in Int /\ g[e] \in Int
    <3>1. e \ {x} \in SUBSET W /\ Cardinality(e \ {x}) = m - 2 /\ Cardinality(e \ {x}) \in Nat
      <4>1. Cardinality(e \ {x}) = Cardinality(e) - 1
        BY <1>0, <2>s, <2>5, <2>6, FS_RemoveElement
      <4>2. e \ {x} \in SUBSET W
        BY <2>2
      <4> QED
        BY <1>0, <2>s, <2>5, <4>1, <4>2
    <3>2. ~ (m <= m - 2) /\ m - 2 \in Nat
      BY <3>1, <2>1
    <3> HIDE DEF Splits, e
    <3>3. Splits(e \ {x})
      BY <2>1, <3>1, <3>2
    <3> QED
      BY <2>s, <2>4, <2>5, <3>3 DEF Splits, e
  <2> HIDE DEF c, e, u
  <2>9. f[c] + (f[x] + g[e \ {x}]) = f[x] + (f[c] + g[e \ {x}])
    BY <2>8
  <2> QED
    BY <2>4, <2>5, <2>6, <2>7, <2>9 DEF u
<1> QED
  <2> HIDE DEF Splits
  <2>1. \A d \in SUBSET W : Splits(d)
    BY <1>0, <1>2
  <2> QED
    BY <2>1 DEF Splits, AnyFirst

\* A set of four is finite.
LEMMA FourFinite == ASSUME NEW a, NEW b, NEW c, NEW d PROVE IsFiniteSet({a, b, c, d})
<1>1. {a, b, c, d} = {a} \cup ({b} \cup ({c} \cup {d}))
  OBVIOUS
<1>2. IsFiniteSet({b} \cup ({c} \cup {d}))
  BY FS_Singleton, FS_Union
<1>3. IsFiniteSet({a} \cup ({b} \cup ({c} \cup {d})))
  BY <1>2, FS_Singleton, FS_Union
<1> QED
  BY <1>1, <1>3

\* D has four members, a to d.
FourOf(D, a, b, c, d) ==
    /\ a # b /\ a # c /\ a # d /\ b # c /\ b # d /\ c # d
    /\ D = {a, b, c, d}

\* The values of f at four places add up to n.
SumIs(f, a, b, c, d, n) == f[a] + f[b] + f[c] + f[d] = n

\* Over four members.
LEMMA FourSum ==
    ASSUME NEW f, NEW D, D = DOMAIN f, \A x \in D : f[x] \in Int,
           NEW a, NEW b, NEW c, NEW d, FourOf(D, a, b, c, d)
    PROVE  SumIs(f, a, b, c, d, G!SumFunction(f))
<1> USE DEF FourOf
<1> DEFINE W == {a, b, c, d}
<1>1. IsFiniteSet(W)
  BY FourFinite
<1>2. PICK g : AddsUp(f, W, g) /\ G!SumFunction(f) = g[W]
  BY <1>1, SumOf
<1>3. AnyFirst(f, W, g)
  BY <1>1, <1>2, SumSplit
<1>4. g[{}] = 0
  BY <1>2 DEF AddsUp
<1>5. g[W] = f[a] + g[{b, c, d}] /\ g[{b, c, d}] = f[b] + g[{c, d}]
      /\ g[{c, d}] = f[c] + g[{d}] /\ g[{d}] = f[d] + g[{}]
  <2>1. /\ {b, c, d} = W \ {a} /\ {c, d} = {b, c, d} \ {b} /\ {d} = {c, d} \ {c}
        /\ {} = {d} \ {d}
    OBVIOUS
  <2>2. \A V \in SUBSET W : \A x \in V : g[V] = f[x] + g[V \ {x}]
    BY <1>3 DEF AnyFirst
  <2>3. {b, c, d} \in SUBSET W /\ {c, d} \in SUBSET W /\ {d} \in SUBSET W /\ W \in SUBSET W
    OBVIOUS
  <2>4. a \in W /\ b \in {b, c, d} /\ c \in {c, d} /\ d \in {d}
    OBVIOUS
  <2> HIDE DEF W
  <2> QED
    BY <2>1, <2>2, <2>3, <2>4, Zenon
<1>6. f[a] \in Int /\ f[b] \in Int /\ f[c] \in Int /\ f[d] \in Int
  OBVIOUS
<1> HIDE DEF W
<1> QED
  BY <1>2, <1>4, <1>5, <1>6 DEF SumIs

-----------------------------------------------------------------------------
(* Two skills.  What they are owed is measured in parts of a session: a      *)
(* session has T of them, the sum of the weights.                            *)

\* A product grows with its factor.
LEMMA ProductMonotone ==
    ASSUME NEW x \in Int, NEW y \in Int, NEW z \in Nat, x <= y PROVE x * z <= y * z
OBVIOUS

\* Of two skills, owed x and y, with the weights a and b: neither is ahead of the
\* other by more than a session, weighed by what they need.
Balanced(x, y, a, b, T) ==
    /\ a <= b => x - y <= T
    /\ a >= b => b * (4 * x - T) <= a * (4 * y + 3 * T)

\* Two weights of 2 to 20 are not far apart against all four.
LEMMA SmallShare ==
    ASSUME NEW a \in 2 .. 20, NEW b \in 2 .. 20, a <= b, NEW T \in Nat, T <= a + b + 40
    PROVE  ~ (2 * ((3 * b + a) * (a + b)) <= T * (b - a))
<1> SUFFICES ASSUME 2 * ((3 * b + a) * (a + b)) <= T * (b - a) PROVE FALSE
  OBVIOUS
<1> DEFINE d == b - a
<1>1. d \in Nat /\ b = a + d
  OBVIOUS
<1> HIDE DEF d
<1>2. T * d <= (a + b + 40) * d
  BY <1>1, ProductMonotone
<1>3. (3 * b + a) * (a + b) = 8 * (a * a) + 10 * (a * d) + 3 * (d * d)
  BY <1>1
<1>4. (a + b + 40) * d = 2 * (a * d) + d * d + 40 * d
  BY <1>1
<1>5. a * a >= 4 /\ a * d >= 2 * d /\ a * a \in Int /\ a * d \in Int
  BY <1>1
<1>6. d * d >= 0 /\ d * d \in Int
  BY <1>1
<1>7. 16 * (a * a) + 18 * (a * d) + 5 * (d * d) <= 40 * d
  BY <1>1, <1>2, <1>3, <1>4, <1>5, <1>6
<1>8. 64 + 5 * (d * d) <= 4 * d
  BY <1>1, <1>5, <1>6, <1>7
<1>9. d * d >= d
  BY <1>1
<1> QED
  BY <1>1, <1>8, <1>9

\* One that is owed less than nothing and the one that gets the slot that is
\* left.
LEMMA PairHeld ==
    ASSUME NEW a \in 2 .. 20, NEW b \in 2 .. 20, NEW T \in Nat, a + b <= T, T <= a + b + 40,
           NEW x \in Int, NEW y \in Int, NEW u \in Int, NEW v \in Int,
           x + y + u + v = T, u <= y, v <= y, x < 0, 4 * x >= -3 * T,
           Balanced(y, x, b, a, T)
    PROVE  x + y + a + b > 0
<1> SUFFICES ASSUME ~ (x + y + a + b > 0) PROVE FALSE
  OBVIOUS
<1> DEFINE R == 4 * x + 3 * T
           e == -(x + y)
           m == 3 * b + a
<1>1. R \in Nat /\ e \in Nat /\ e >= a + b /\ R <= T - 6 * e /\ m \in Nat
  OBVIOUS
<1>2. a < b
  <2> SUFFICES ASSUME b <= a PROVE FALSE
    OBVIOUS
  <2>1. y - x <= T
    BY DEF Balanced
  <2> QED
    BY <1>1, <2>1
<1>3. a * (4 * y - T) <= b * R
  BY <1>2 DEF Balanced
<1>4. 3 * (4 * y - T) >= 4 * T - R
  BY <1>1
<1> DEFINE h == 4 * y - T
<1> HIDE DEF R, e, m, h
<1>5. R \in Int /\ h \in Int /\ 3 * h >= 4 * T - R /\ a * h <= b * R
  BY <1>1, <1>3, <1>4 DEF h
<1>6. a * (4 * T - R) <= 3 * (b * R)
  <2>1. (4 * T - R) * a <= (3 * h) * a
    BY <1>5, ProductMonotone
  <2> QED
    BY <1>5, <2>1
<1>7. 4 * (a * T) <= R * m
  BY <1>5, <1>6 DEF m
<1>8. R * m <= (T - 6 * (a + b)) * m
  <2>1. R <= T - 6 * (a + b)
    BY <1>1
  <2> QED
    BY <1>1, <2>1, ProductMonotone
<1>9. 6 * (m * (a + b)) <= 3 * (T * (b - a))
  <2>1. 4 * (a * T) <= (T - 6 * (a + b)) * m
    <3>1. R * m \in Int /\ a * T \in Int /\ (T - 6 * (a + b)) * m \in Int
      BY <1>1
    <3> QED
      BY <1>7, <1>8, <3>1
  <2>2. (T - 6 * (a + b)) * m = T * m - 6 * (m * (a + b))
    BY <1>1
  <2>3. T * m - 4 * (a * T) = 3 * (T * (b - a))
    BY DEF m
  <2>4. m * (a + b) \in Int /\ T * m \in Int /\ a * T \in Int /\ T * (b - a) \in Int
    BY <1>1
  <2> QED
    BY <2>1, <2>2, <2>3, <2>4
<1>10. 2 * (m * (a + b)) <= T * (b - a)
  <2>1. m * (a + b) \in Int /\ T * (b - a) \in Int
    BY <1>1
  <2> QED
    BY <1>9, <2>1
<1> QED
  BY <1>2, <1>10, SmallShare DEF m

-----------------------------------------------------------------------------
(* Four skills get the slots of a week.                                      *)

\* r is what is left of x when its whole sessions are taken out.
Rest(x, r, T) == IF x < T THEN r = x ELSE 0 <= r /\ r <= x /\ r < T

\* m and k say whether one more is given to each of two, that have p and q left:
\* the first gets it instead of the second only if it has as much left.
Before(p, q, m, k) == m \in {0, 1} /\ k \in {0, 1} /\ (m > k => p >= q)

\* With the shares of n slots the credits stay balanced.
LEMMA DueBalanced ==
    ASSUME NEW x \in Int, NEW y \in Int, NEW a \in 2 .. 20, NEW b \in 2 .. 20, NEW T \in Nat,
           NEW n \in Nat, Balanced(x, y, a, b, T)
    PROVE  Balanced(x + n * a, y + n * b, a, b, T)
<1>1. CASE a <= b
  <2>1. a * n <= b * n
    BY <1>1, ProductMonotone
  <2>2. a >= b => a = b
    BY <1>1
  <2>3. a >= b => b * (4 * (x + n * a) - T) <= a * (4 * (y + n * b) + 3 * T)
    BY <2>2 DEF Balanced
  <2> QED
    BY <1>1, <2>1, <2>3 DEF Balanced
<1>2. CASE a > b
  <2>1. b * (4 * x - T) <= a * (4 * y + 3 * T)
    BY <1>2 DEF Balanced
  <2>2. b * (4 * (x + n * a) - T) = b * (4 * x - T) + 4 * (n * (a * b))
    OBVIOUS
  <2>3. a * (4 * (y + n * b) + 3 * T) = a * (4 * y + 3 * T) + 4 * (n * (a * b))
    OBVIOUS
  <2>4. b * (4 * (x + n * a) - T) <= a * (4 * (y + n * b) + 3 * T)
    BY <2>1, <2>2, <2>3
  <2> QED
    BY <1>2, <2>4 DEF Balanced
<1> QED
  BY <1>1, <1>2

\* What is left of a credit counts less against one that is owed nothing.
LEMMA RestBalanced ==
    ASSUME NEW x \in Int, NEW y \in Int, NEW a \in 2 .. 20, NEW b \in 2 .. 20, NEW T \in Nat,
           NEW r \in Int, r <= x, Balanced(x, y, a, b, T)
    PROVE  Balanced(r, y, a, b, T)
<1>1. (4 * r - T) * b <= (4 * x - T) * b
  <2>1. 4 * r - T <= 4 * x - T
    OBVIOUS
  <2> QED
    BY <2>1, ProductMonotone
<1>2. a >= b => b * (4 * r - T) <= a * (4 * y + 3 * T)
  BY <1>1 DEF Balanced
<1> QED
  BY <1>2 DEF Balanced

\* Products of smaller factors are smaller.
LEMMA ProductsCompared ==
    ASSUME NEW a \in Nat, NEW b \in Nat, b <= a, NEW x \in Int, NEW y \in Int, x <= y, 0 <= y
    PROVE  b * x <= a * y
<1>1. x * b <= y * b
  BY ProductMonotone
<1>2. b * y <= a * y
  BY ProductMonotone
<1> QED
  BY <1>1, <1>2

\* Two skills, owed x and y: r and s are what is left of that, m and k what is
\* handed out.
TwoDealt(x, y, a, b, T, r, s, m, k) ==
    /\ x \in Int /\ y \in Int /\ r \in Int /\ s \in Int /\ m \in {0, 1} /\ k \in {0, 1}
    /\ x > -T /\ y > -T /\ 4 * x >= -3 * T /\ 4 * y >= -3 * T /\ Balanced(x, y, a, b, T)
    /\ Rest(x, r, T) /\ Rest(y, s, T)
    /\ m = 1 => 4 * r >= T
    /\ k = 1 => 4 * s >= T
    /\ Before(r, s, m, k) /\ Before(s, r, k, m)

\* After the slots are handed out two skills are as balanced as before.
LEMMA StaysBalanced ==
    ASSUME NEW a \in 2 .. 20, NEW b \in 2 .. 20, NEW T \in Nat,
           NEW x, NEW y, NEW r, NEW s, NEW m, NEW k, TwoDealt(x, y, a, b, T, r, s, m, k)
    PROVE  Balanced(r - m * T, s - k * T, a, b, T)
<1> USE DEF TwoDealt
<1>1. /\ r < T /\ s < T /\ r <= x /\ r > -T /\ s > -T /\ 4 * s >= -3 * T
      /\ s < 0 => s = y
  BY DEF Rest
<1>2. CASE m = 0 /\ k = 0 /\ s < 0
  <2>1. r - m * T = r /\ s - k * T = y
    BY <1>1, <1>2
  <2>2. Balanced(r, y, a, b, T)
    BY <1>1, RestBalanced
  <2> QED
    BY <2>1, <2>2
<1>3. CASE m = 0 /\ k = 0 /\ s >= 0
  <2>1. a >= b => b * (4 * r - T) <= a * (4 * s + 3 * T)
    BY <1>1, <1>3, ProductsCompared
  <2> QED
    BY <1>1, <1>3, <2>1 DEF Balanced
<1>4. CASE m = 1
  <2> DEFINE p == r - m * T  q == s - k * T
  <2>1. p \in Int /\ q \in Int /\ p < 0 /\ p > -T /\ q > -T /\ 4 * q >= -3 * T /\ p - q <= T
    <3>1. k = 0 \/ k = 1
      OBVIOUS
    <3> QED
      BY <1>1, <1>4, <3>1
  <2> HIDE DEF p, q
  <2>2. a >= b => b * (4 * p - T) <= a * (4 * q + 3 * T)
    <3>1. 4 * p - T <= 4 * q + 3 * T /\ 0 <= 4 * q + 3 * T
      BY <2>1
    <3> QED
      BY <2>1, <3>1, ProductsCompared
  <2>3. Balanced(p, q, a, b, T)
    BY <2>1, <2>2 DEF Balanced
  <2> QED
    BY <2>3 DEF p, q
<1>5. CASE m = 0 /\ k = 1
  <2>1. s >= r /\ 4 * s >= T
    BY <1>5 DEF Before
  <2>2. a >= b => b * (4 * r - T) <= a * (4 * s - T)
    BY <2>1, ProductsCompared
  <2> QED
    BY <1>1, <1>5, <2>1, <2>2 DEF Balanced
<1> QED
  BY <1>1, <1>2, <1>3, <1>4, <1>5

\* The four skills of a week: what each is owed, what remains of that when its
\* whole sessions are taken out, and who gets one of the slots left over.
SlotsOwed(T, L, x1, x2, x3, x4, r1, r2, r3, r4) ==
    /\ r1 + r2 + r3 + r4 = L * T
    /\ Rest(x1, r1, T) /\ Rest(x2, r2, T) /\ Rest(x3, r3, T) /\ Rest(x4, r4, T)
    /\ x1 > -T /\ x2 > -T /\ x3 > -T /\ x4 > -T
    /\ x1 + x2 > -T /\ x1 + x3 > -T /\ x1 + x4 > -T
    /\ x2 + x3 > -T /\ x2 + x4 > -T /\ x3 + x4 > -T
    /\ x1 + x2 + x3 > -T /\ x1 + x2 + x4 > -T /\ x1 + x3 + x4 > -T /\ x2 + x3 + x4 > -T
    /\ x1 + x2 + x3 + x4 >= 0

\* The whole sessions leave none to three slots over.
LEMMA SlotsLeft ==
    ASSUME NEW T \in Nat \ {0}, NEW L \in Int,
           NEW x1 \in Int, NEW x2 \in Int, NEW x3 \in Int, NEW x4 \in Int,
           NEW r1 \in Int, NEW r2 \in Int, NEW r3 \in Int, NEW r4 \in Int,
           SlotsOwed(T, L, x1, x2, x3, x4, r1, r2, r3, r4)
    PROVE  L \in 0 .. 3
<1> DEFINE p == L * T
<1>1. p > -T /\ p < 4 * T /\ p \in Int
  BY DEF Rest, SlotsOwed
<1>2. ~ (L <= -1)
  <2> SUFFICES ASSUME L <= -1 PROVE FALSE
    OBVIOUS
  <2>1. L * T <= (-1) * T
    BY ProductMonotone
  <2> QED
    BY <1>1, <2>1
<1>3. ~ (4 <= L)
  <2> SUFFICES ASSUME 4 <= L PROVE FALSE
    OBVIOUS
  <2>1. 4 * T <= L * T
    BY ProductMonotone
  <2> QED
    BY <1>1, <2>1
<1> QED
  BY <1>2, <1>3

\* Of four skills one gets a slot only if at least a quarter of one is left of
\* what it is owed.
LEMMA LuckyRest ==
    ASSUME NEW T \in Nat \ {0}, NEW L \in 0 .. 3,
           NEW r1 \in Int, NEW r2 \in Int, NEW r3 \in Int, NEW r4 \in Int,
           r1 < T, r2 < T, r3 < T, r4 < T,
           r1 + r2 + r3 + r4 = L * T,
           NEW m1 \in {0, 1}, NEW m2 \in {0, 1}, NEW m3 \in {0, 1}, NEW m4 \in {0, 1},
           m1 + m2 + m3 + m4 = L,
           Before(r1, r2, m1, m2), Before(r1, r3, m1, m3), Before(r1, r4, m1, m4),
           m1 = 1
    PROVE  4 * r1 >= T
<1>1. L = 1 \/ L = 2 \/ L = 3
  OBVIOUS
<1>2. CASE L = 1
  BY <1>2 DEF Before
<1>3. CASE L = 2
  BY <1>3 DEF Before
<1>4. CASE L = 3
  BY <1>4 DEF Before
<1> QED
  BY <1>1, <1>2, <1>3, <1>4

\* Of two skills the second gets a slot.
LEMMA OneOfTwo ==
    ASSUME NEW T \in Nat \ {0}, NEW L \in 1 .. 3,
           NEW a \in 2 .. 20, NEW b \in 2 .. 20, a + b <= T, T <= a + b + 40,
           NEW x \in Int, NEW y \in Int, y > -T, 4 * x >= -3 * T, Balanced(y, x, b, a, T),
           NEW r \in Int, NEW s \in Int, NEW u \in Int, NEW v \in Int,
           Rest(x, r, T), Rest(y, s, T), u < T, v < T, r + s + u + v = L * T,
           L = 1 => s >= u /\ s >= v
    PROVE  r + s + a + b > 0
<1>0. r < T /\ s < T
  BY DEF Rest
<1>l. L = 1 \/ L = 2 \/ L = 3
  OBVIOUS
<1>1. CASE r >= 0 /\ s >= 0
  BY <1>1
<1>2. CASE L = 2 \/ L = 3
  BY <1>0, <1>2
<1>3. CASE L = 1 /\ s < 0
  BY <1>0, <1>3
<1>4. CASE L = 1 /\ r < 0 /\ s >= 0
  <2>1. r = x /\ s <= y
    BY <1>4 DEF Rest
  <2>2. Balanced(s, r, b, a, T)
    BY <2>1, RestBalanced
  <2>3. r + s + u + v = T
    BY <1>4
  <2> QED
    BY <1>4, <2>1, <2>2, <2>3, PairHeld
<1> QED
  BY <1>l, <1>1, <1>2, <1>3, <1>4

\* Two of the four skills of a week, with the weights a and b.
PairDealt(T, L, a, b, x1, x2, r1, r2, r3, r4, m1, m2, m3, m4) ==
    /\ a + b <= T /\ T <= a + b + 40
    /\ x1 \in Int /\ x2 \in Int /\ r1 \in Int /\ r2 \in Int /\ r3 \in Int /\ r4 \in Int
    /\ m1 \in {0, 1} /\ m2 \in {0, 1} /\ m3 \in {0, 1} /\ m4 \in {0, 1}
    /\ x1 > -T /\ x2 > -T /\ x1 + x2 + a + b > -T /\ 4 * x1 >= -3 * T /\ 4 * x2 >= -3 * T
    /\ Balanced(x1, x2, a, b, T) /\ Balanced(x2, x1, b, a, T)
    /\ Rest(x1, r1, T) /\ Rest(x2, r2, T) /\ r3 < T /\ r4 < T
    /\ r1 + r2 + r3 + r4 = L * T /\ m1 + m2 + m3 + m4 = L
    /\ Before(r1, r2, m1, m2) /\ Before(r1, r3, m1, m3) /\ Before(r1, r4, m1, m4)
    /\ Before(r2, r1, m2, m1) /\ Before(r2, r3, m2, m3) /\ Before(r2, r4, m2, m4)

\* Two skills together are not behind by more than a session and their weights.
LEMMA PairStays ==
    ASSUME NEW T \in Nat \ {0}, NEW L \in 0 .. 3, NEW a \in 2 .. 20, NEW b \in 2 .. 20,
           NEW x1, NEW x2, NEW r1, NEW r2, NEW r3, NEW r4, NEW m1, NEW m2, NEW m3, NEW m4,
           PairDealt(T, L, a, b, x1, x2, r1, r2, r3, r4, m1, m2, m3, m4)
    PROVE  (r1 - m1 * T) + (r2 - m2 * T) + a + b > -T
<1> USE DEF PairDealt
<1>r. r1 < T /\ r2 < T /\ r1 > -T /\ r2 > -T
  BY DEF Rest
<1>l. L = 0 \/ L = 1 \/ L = 2 \/ L = 3
  OBVIOUS
<1>0. CASE m1 = 0 /\ m2 = 0
  BY <1>0 DEF Rest
<1>1. CASE m1 = 1 /\ m2 = 1
  <2>1. CASE L = 2
    BY <1>1, <1>r, <2>1 DEF Before
  <2>2. CASE L = 3
    BY <1>1, <1>r, <2>2 DEF Before
  <2> QED
    BY <1>1, <1>l, <2>1, <2>2
<1>3. CASE m1 = 1 /\ m2 = 0
  <2>1. L \in 1 .. 3 /\ (L = 1 => r1 >= r3 /\ r1 >= r4)
    BY <1>3 DEF Before
  <2>2. r2 + r1 + r3 + r4 = L * T /\ b + a <= T /\ T <= b + a + 40
    OBVIOUS
  <2>3. r2 + r1 + b + a > 0
    BY <2>1, <2>2, OneOfTwo
  <2> QED
    BY <1>3, <2>3
<1>4. CASE m1 = 0 /\ m2 = 1
  <2>1. L \in 1 .. 3 /\ (L = 1 => r2 >= r3 /\ r2 >= r4)
    BY <1>4 DEF Before
  <2>2. r1 + r2 + a + b > 0
    BY <2>1, OneOfTwo
  <2> QED
    BY <1>4, <2>2
<1> QED
  BY <1>0, <1>1, <1>3, <1>4

-----------------------------------------------------------------------------
(* The skills by name.                                                       *)

\* i, j, k and l are the four skills.
Four(i, j, k, l) == FourOf(G!Skills, i, j, k, l)

\* The four skills by name.
LEMMA FourNames == Four("listening", "reading", "writing", "speaking")
BY FourSkills DEF Four, FourOf

\* Beside any two skills there are two others.
LEMMA TheOthers ==
    ASSUME NEW i \in G!Skills, NEW j \in G!Skills, i # j
    PROVE  \E k, l \in G!Skills : Four(i, j, k, l)
<1> DEFINE a == "listening" b == "reading" c == "writing" d == "speaking"
<1>1. Four(a, b, c, d)
  BY FourNames
<1> HIDE DEF a, b, c, d
<1>2. i \in {a, b, c, d} /\ j \in {a, b, c, d}
  BY <1>1 DEF Four, FourOf
<1>3. \A p, q, r, s : Four(p, q, r, s) => /\ Four(q, p, r, s) /\ Four(p, r, q, s)
                                           /\ Four(p, q, s, r)
                                           /\ {p, q, r, s} \subseteq G!Skills
  BY DEF Four, FourOf
<1> QED
  BY <1>1, <1>2, <1>3

\* The four skills may be named in any order.
LEMMA FourAnyOrder ==
    ASSUME NEW i, NEW j, NEW k, NEW l, Four(i, j, k, l)
    PROVE  /\ i \in G!Skills /\ j \in G!Skills /\ k \in G!Skills /\ l \in G!Skills
           /\ Four(j, i, k, l)
BY DEF Four, FourOf

\* f adds up to n over the skills.
SumsTo(f, n) == \A i, j, k, l : Four(i, j, k, l) => SumIs(f, i, j, k, l, n)

\* SumFunction adds up the values over the skills.
LEMMA SkillSum ==
    ASSUME NEW f \in [G!Skills -> Int]
    PROVE  SumsTo(f, G!SumFunction(f)) /\ G!SumFunction(f) \in Int
<1>1. ASSUME NEW i, NEW j, NEW k, NEW l, Four(i, j, k, l)
      PROVE  SumIs(f, i, j, k, l, G!SumFunction(f))
  <2>1. DOMAIN f = G!Skills /\ \A x \in G!Skills : f[x] \in Int
    OBVIOUS
  <2> QED
    BY <1>1, <2>1, FourSum DEF Four
<1>2. G!SumFunction(f) \in Int
  <2> DEFINE a == "listening" b == "reading" c == "writing" d == "speaking"
  <2>1. a \in G!Skills /\ b \in G!Skills /\ c \in G!Skills /\ d \in G!Skills
    BY FourSkills
  <2>2. SumIs(f, a, b, c, d, G!SumFunction(f))
    BY <1>1, FourNames
  <2> HIDE DEF a, b, c, d
  <2> QED
    BY <2>1, <2>2 DEF SumIs
<1> QED
  BY <1>1, <1>2 DEF SumsTo

\* int() leaves a rest.
LEMMA WholeRest ==
    ASSUME NEW x \in Int, NEW T \in Nat \ {0}, x > -T
    PROVE  G!Whole(x, T) \in Nat /\ Rest(x, x - G!Whole(x, T) * T, T)
<1>1. CASE x < 0
  <2> DEFINE y == -x
  <2>1. y \in Nat /\ y < T
    BY <1>1
  <2> HIDE DEF y
  <2>2. y \div T = 0
    BY <2>1
  <2>3. G!Whole(x, T) = 0
    BY <1>1, <2>2 DEF G!Whole, y
  <2> QED
    BY <1>1, <2>3 DEF Rest
<1>2. CASE x >= 0
  <2> DEFINE q == x \div T
             r == x % T
  <2>1. q \in Int /\ r \in 0 .. T - 1 /\ x = T * q + r
    OBVIOUS
  <2>q. q >= 0
    BY <1>2
  <2>2. G!Whole(x, T) = q
    BY <1>2 DEF G!Whole
  <2> HIDE DEF q, r
  <2>3. x - q * T = r
    BY <2>1
  <2>4. 0 * T <= q * T
    BY <2>1, <2>q, ProductMonotone
  <2>5. r <= x
    BY <2>1, <2>4
  <2>6. x < T => q = 0
    <3> SUFFICES ASSUME x < T, 1 <= q PROVE FALSE
      BY <2>1, <2>q
    <3>1. 1 * T <= q * T
      BY <2>1, ProductMonotone
    <3> QED
      BY <2>1, <3>1
  <2> QED
    BY <1>2, <2>1, <2>2, <2>3, <2>5, <2>6, <2>q DEF Rest
<1> QED
  BY <1>1, <1>2

\* A set of skills is as large as the skills in it.
LEMMA ChosenSize ==
    ASSUME NEW i, NEW j, NEW k, NEW l, Four(i, j, k, l), NEW S \in SUBSET G!Skills,
           NEW m, m = [s \in G!Skills |-> IF s \in S THEN 1 ELSE 0]
    PROVE  SumIs(m, i, j, k, l, Cardinality(S))
<1> DEFINE A == S \ {i}  B == A \ {j}  C == B \ {k}  D == C \ {l}
<1>1. IsFiniteSet(S) /\ Cardinality(S) \in Nat
  BY FourSkills, FS_Subset, FS_CardinalityType
<1>2. IsFiniteSet(A) /\ Cardinality(A) = Cardinality(S) - m[i]
  BY <1>1, FS_RemoveElement, FourAnyOrder
<1>3. IsFiniteSet(B) /\ Cardinality(B) = Cardinality(A) - m[j]
  <2>1. j \in A <=> j \in S
    BY DEF Four, FourOf
  <2> HIDE DEF A
  <2> QED
    BY <1>2, <2>1, FS_RemoveElement, FS_CardinalityType, FourAnyOrder
<1>4. IsFiniteSet(C) /\ Cardinality(C) = Cardinality(B) - m[k]
  <2>1. k \in B <=> k \in S
    BY DEF Four, FourOf
  <2> HIDE DEF B
  <2> QED
    BY <1>3, <2>1, FS_RemoveElement, FS_CardinalityType, FourAnyOrder
<1>5. IsFiniteSet(D) /\ Cardinality(D) = Cardinality(C) - m[l]
  <2>1. l \in C <=> l \in S
    BY DEF Four, FourOf
  <2> HIDE DEF C
  <2> QED
    BY <1>4, <2>1, FS_RemoveElement, FS_CardinalityType, FourAnyOrder
<1>6. D = {}
  BY DEF Four, FourOf
<1>7. Cardinality(D) = 0
  BY <1>6, FS_EmptySet
<1>8. m[i] \in Int /\ m[j] \in Int /\ m[k] \in Int /\ m[l] \in Int
  BY FourAnyOrder
<1> HIDE DEF A, B, C, D
<1> QED
  BY <1>1, <1>2, <1>3, <1>4, <1>5, <1>7, <1>8 DEF SumIs

-----------------------------------------------------------------------------
(* _allocate.                                                                *)

\* A skill is owed less than a session, and is at most three quarters of one ahead.
Owed(x, T) == x > -T /\ x < T /\ 4 * x >= -3 * T

\* Two skills that are owed x and y, with the weights a and b.
OwedTogether(x, y, a, b, T) == x + y + a + b > -T /\ Balanced(x, y, a, b, T)

\* The credits c of the weights w, whose sum is T, between two weeks.
CreditsOK(c, w, T) ==
    /\ SumsTo(c, 0)
    /\ \A s \in G!Skills : Owed(c[s], T)
    /\ \A s, t \in G!Skills : s # t => OwedTogether(c[s], c[t], w[s], w[t], T)

\* The weights of a profile.
LEMMA WeightSums ==
    ASSUME intake \in G!Intake
    PROVE  /\ intake.weights \in [G!Skills -> 2 .. 20] /\ G!TotalWeight \in Nat \ {0}
           /\ SumsTo(intake.weights, G!TotalWeight)
<1>1. intake.weights \in [G!Skills -> 2 .. 20] /\ G!TotalWeight \in Nat \ {0}
  BY WeightsAddUp
<1>2. intake.weights \in [G!Skills -> Int]
  BY <1>1
<1> QED
  BY <1>1, <1>2, SkillSum DEF G!TotalWeight

\* How n slots are handed out: r is what is left of the skills' dues, and m says
\* who gets one of the L slots that the whole sessions leave over.
Dealt(n, c, w, T, share, r, m, L) ==
    /\ \A s \in G!Skills :
          /\ Rest(c[s] + n * w[s], r[s], T)
          /\ share.credit[s] = r[s] - m[s] * T
          /\ share.counts[s] \in Nat
          /\ share.counts[s] * T = c[s] + n * w[s] - share.credit[s]
    /\ \A s, t \in G!Skills : Before(r[s], r[t], m[s], m[t])
    /\ SumsTo(r, L * T) /\ SumsTo(m, L)
    /\ SumsTo(share.counts, n)

\* The slots that are left over are none to three.
LEMMA LeftOver ==
    ASSUME intake \in G!Intake, credit \in [G!Skills -> Int], NEW n \in Nat, NEW T, T = G!TotalWeight,
           CreditsOK(credit, intake.weights, T),
           NEW r \in [G!Skills -> Int], NEW L \in Int, SumsTo(r, L * T),
           \A s \in G!Skills : Rest(credit[s] + n * intake.weights[s], r[s], T)
    PROVE  L \in 0 .. 3
<1> DEFINE due(s) == credit[s] + n * intake.weights[s]
           i == "listening" j == "reading" k == "writing" l == "speaking"
<1>0. Four(i, j, k, l) /\ i \in G!Skills /\ j \in G!Skills /\ k \in G!Skills /\ l \in G!Skills
      /\ i # j /\ i # k /\ i # l /\ j # k /\ j # l /\ k # l
  BY FourNames, FourAnyOrder
<1> HIDE DEF i, j, k, l
<1>1. T \in Nat \ {0} /\ SumsTo(intake.weights, T)
      /\ \A s \in G!Skills : intake.weights[s] \in 2 .. 20 /\ credit[s] \in Int /\ r[s] \in Int
  BY WeightSums
<1> DEFINE a == intake.weights[i] b == intake.weights[j] c == intake.weights[k] d == intake.weights[l]
           p == credit[i] q == credit[j] u == credit[k] v == credit[l]
<1>2. /\ a \in 2 .. 20 /\ b \in 2 .. 20 /\ c \in 2 .. 20 /\ d \in 2 .. 20
      /\ p \in Int /\ q \in Int /\ u \in Int /\ v \in Int
      /\ r[i] \in Int /\ r[j] \in Int /\ r[k] \in Int /\ r[l] \in Int
  BY <1>0, <1>1
<1>3. a + b + c + d = T /\ p + q + u + v = 0 /\ r[i] + r[j] + r[k] + r[l] = L * T
  BY <1>0, <1>1 DEF SumsTo, SumIs, CreditsOK
<1>4. Owed(p, T) /\ Owed(q, T) /\ Owed(u, T) /\ Owed(v, T)
  BY <1>0 DEF CreditsOK
<1>5. /\ OwedTogether(p, q, a, b, T) /\ OwedTogether(p, u, a, c, T) /\ OwedTogether(p, v, a, d, T)
      /\ OwedTogether(q, u, b, c, T) /\ OwedTogether(q, v, b, d, T) /\ OwedTogether(u, v, c, d, T)
  BY <1>0 DEF CreditsOK
<1>6. /\ Rest(p + n * a, r[i], T) /\ Rest(q + n * b, r[j], T)
      /\ Rest(u + n * c, r[k], T) /\ Rest(v + n * d, r[l], T)
  BY <1>0
<1> PICK ri, rj, rk, rl : ri = r[i] /\ rj = r[j] /\ rk = r[k] /\ rl = r[l]
  OBVIOUS
<1> HIDE DEF a, b, c, d, p, q, u, v
<1>7. CASE n = 0
  <2>1. ri = p /\ rj = q /\ rk = u /\ rl = v
    <3>1. n * a = 0 /\ n * b = 0 /\ n * c = 0 /\ n * d = 0
      BY <1>2, <1>7
    <3> QED
      BY <1>1, <1>2, <1>4, <1>6, <3>1 DEF Rest, Owed
  <2>2. L * T = 0
    BY <1>3, <2>1
  <2>3. (L >= 1 => 1 * T <= L * T) /\ (L <= -1 => L * T <= (-1) * T)
    BY <1>1, ProductMonotone
  <2> QED
    BY <1>1, <2>2, <2>3
<1>8. CASE n # 0
  <2> DEFINE na == n * a nb == n * b nc == n * c nd == n * d
  <2>1. /\ na \in Int /\ nb \in Int /\ nc \in Int /\ nd \in Int
        /\ na >= a /\ nb >= b /\ nc >= c /\ nd >= d
    <3>1. 1 <= n
      BY <1>8
    <3>2. 1 * a <= na /\ 1 * b <= nb /\ 1 * c <= nc /\ 1 * d <= nd
      BY <1>2, <3>1, ProductMonotone
    <3> QED
      BY <1>2, <3>2
  <2> HIDE DEF na, nb, nc, nd
  <2> DEFINE x1 == p + na x2 == q + nb x3 == u + nc x4 == v + nd
  <2>2. Rest(x1, ri, T) /\ Rest(x2, rj, T) /\ Rest(x3, rk, T) /\ Rest(x4, rl, T)
    BY <1>6 DEF na, nb, nc, nd
  <2>3. /\ x1 \in Int /\ x2 \in Int /\ x3 \in Int /\ x4 \in Int
        /\ x1 > -T /\ x2 > -T /\ x3 > -T /\ x4 > -T
        /\ x1 + x2 + x3 + x4 >= 0
    BY <1>1, <1>2, <1>3, <1>4, <2>1 DEF Owed
  <2>4. x1 + x2 > -T /\ x1 + x3 > -T /\ x1 + x4 > -T /\ x2 + x3 > -T /\ x2 + x4 > -T /\ x3 + x4 > -T
    BY <1>1, <1>2, <1>5, <2>1 DEF OwedTogether
  <2>5. x1 + x2 + x3 > -T /\ x1 + x2 + x4 > -T /\ x1 + x3 + x4 > -T /\ x2 + x3 + x4 > -T
    BY <1>1, <1>2, <1>3, <1>4, <2>1 DEF Owed
  <2>6. ri + rj + rk + rl = L * T /\ ri \in Int /\ rj \in Int /\ rk \in Int /\ rl \in Int
    BY <1>2, <1>3
  <2> HIDE DEF x1, x2, x3, x4
  <2>7. SlotsOwed(T, L, x1, x2, x3, x4, ri, rj, rk, rl)
    BY <2>2, <2>3, <2>4, <2>5, <2>6 DEF SlotsOwed
  <2> HIDE DEF x1, x2, x3, x4
  <2> QED
    BY <1>1, <2>3, <2>6, <2>7, SlotsLeft
<1> QED
  BY <1>7, <1>8

\* The credits, weights and whole sessions of four skills, with their sums.
DuesFrom(T, k, c1, c2, c3, c4, w1, w2, w3, w4, q1, q2, q3, q4) ==
    /\ c1 \in Int /\ c2 \in Int /\ c3 \in Int /\ c4 \in Int /\ c1 + c2 + c3 + c4 = 0
    /\ w1 \in Int /\ w2 \in Int /\ w3 \in Int /\ w4 \in Int /\ w1 + w2 + w3 + w4 = T
    /\ q1 \in Int /\ q2 \in Int /\ q3 \in Int /\ q4 \in Int /\ q1 + q2 + q3 + q4 = k

\* What is left of four dues, added up.
LEMMA FourDues ==
    ASSUME NEW n \in Int, NEW T \in Int, NEW k \in Int,
           NEW c1, NEW c2, NEW c3, NEW c4, NEW w1, NEW w2, NEW w3, NEW w4,
           NEW q1, NEW q2, NEW q3, NEW q4,
           DuesFrom(T, k, c1, c2, c3, c4, w1, w2, w3, w4, q1, q2, q3, q4)
    PROVE  (c1 + n * w1 - q1 * T) + (c2 + n * w2 - q2 * T) + (c3 + n * w3 - q3 * T)
             + (c4 + n * w4 - q4 * T) = (n - k) * T
<1> USE DEF DuesFrom
<1>1. n * T = n * w1 + n * w2 + n * w3 + n * w4
  OBVIOUS
<1>2. k * T = q1 * T + q2 * T + q3 * T + q4 * T
  OBVIOUS
<1>3. (n - k) * T = n * T - k * T
  OBVIOUS
<1> QED
  BY <1>1, <1>2, <1>3

\* A week's dues add up to its slots.
LEMMA DuesAddUp ==
    ASSUME NEW c \in [G!Skills -> Int], NEW w \in [G!Skills -> Int], NEW T \in Int, NEW n \in Int,
           SumsTo(c, 0), SumsTo(w, T), NEW q \in [G!Skills -> Int], NEW k \in Int, SumsTo(q, k),
           NEW r, r = [s \in G!Skills |-> c[s] + n * w[s] - q[s] * T]
    PROVE  SumsTo(r, (n - k) * T)
<1> SUFFICES ASSUME NEW g, NEW h, NEW i, NEW j, Four(g, h, i, j)
             PROVE  SumIs(r, g, h, i, j, (n - k) * T)
  BY DEF SumsTo
<1>1. g \in G!Skills /\ h \in G!Skills /\ i \in G!Skills /\ j \in G!Skills
  BY FourAnyOrder
<1>2. /\ c[g] + c[h] + c[i] + c[j] = 0 /\ w[g] + w[h] + w[i] + w[j] = T
      /\ q[g] + q[h] + q[i] + q[j] = k
  BY DEF SumsTo, SumIs
<1>3. /\ r[g] = c[g] + n * w[g] - q[g] * T /\ r[h] = c[h] + n * w[h] - q[h] * T
      /\ r[i] = c[i] + n * w[i] - q[i] * T /\ r[j] = c[j] + n * w[j] - q[j] * T
  BY <1>1
<1>4. /\ c[g] \in Int /\ c[h] \in Int /\ c[i] \in Int /\ c[j] \in Int
      /\ w[g] \in Int /\ w[h] \in Int /\ w[i] \in Int /\ w[j] \in Int
      /\ q[g] \in Int /\ q[h] \in Int /\ q[i] \in Int /\ q[j] \in Int
  BY <1>1
<1>5. (c[g] + n * w[g] - q[g] * T) + (c[h] + n * w[h] - q[h] * T) + (c[i] + n * w[i] - q[i] * T)
        + (c[j] + n * w[j] - q[j] * T) = (n - k) * T
  <2>1. DuesFrom(T, k, c[g], c[h], c[i], c[j], w[g], w[h], w[i], w[j], q[g], q[h], q[i], q[j])
    BY <1>2, <1>4 DEF DuesFrom
  <2> QED
    BY <2>1, FourDues
<1> QED
  BY <1>3, <1>5 DEF SumIs

\* _allocate hands out every slot, one more to those owed most.
LEMMA Deal ==
    ASSUME intake \in G!Intake, credit \in [G!Skills -> Int], NEW n \in Nat, NEW T, T = G!TotalWeight,
           CreditsOK(credit, intake.weights, T), NEW share \in G!Allocations(n)
    PROVE  \E r \in [G!Skills -> Int], m \in [G!Skills -> {0, 1}], L \in 0 .. 3 :
             Dealt(n, credit, intake.weights, T, share, r, m, L)
<1> DEFINE w == intake.weights
           due == G!Due(n)
           counts == [s \in G!Skills |-> G!Whole(due[s], G!TotalWeight)]
           rest == [s \in G!Skills |-> due[s] - counts[s] * G!TotalWeight]
           more(S, s) == IF s \in S THEN 1 ELSE 0
           L == n - G!SumFunction(counts)
<1>1. w \in [G!Skills -> 2 .. 20] /\ T \in Nat \ {0} /\ SumsTo(w, T)
  BY WeightSums
<1>2. due = [s \in G!Skills |-> credit[s] + n * w[s]]
  BY DEF G!Due
<1>3. PICK S \in G!Lucky(L, rest) :
        share = [counts |-> [s \in G!Skills |-> counts[s] + more(S, s)],
                 credit |-> [s \in G!Skills |-> rest[s] - more(S, s) * G!TotalWeight]]
  BY DEF G!Allocations
<1> HIDE DEF w, due
<1>4. \A s \in G!Skills : due[s] = credit[s] + n * w[s] /\ due[s] \in Int /\ due[s] > -T
  <2> TAKE s \in G!Skills
  <2>1. credit[s] \in Int /\ credit[s] > -T /\ w[s] \in Nat
    BY <1>1 DEF CreditsOK, Owed
  <2>2. 0 <= n * w[s] /\ n * w[s] \in Int
    <3>1. 0 * w[s] <= n * w[s]
      BY <2>1, ProductMonotone
    <3> QED
      BY <2>1, <3>1
  <2>3. due[s] = credit[s] + n * w[s]
    BY <1>2
  <2> QED
    BY <1>1, <2>1, <2>2, <2>3
<1>5. \A s \in G!Skills : counts[s] \in Nat /\ rest[s] \in Int /\ Rest(due[s], rest[s], T)
  <2> TAKE s \in G!Skills
  <2>1. counts[s] \in Nat /\ Rest(due[s], due[s] - counts[s] * T, T)
    BY <1>1, <1>4, WholeRest
  <2> HIDE DEF counts
  <2>2. rest[s] = due[s] - counts[s] * T
    OBVIOUS
  <2>3. rest[s] \in Int
    BY <1>1, <1>4, <2>1, <2>2
  <2> QED
    BY <2>1, <2>2, <2>3
<1>6. counts \in [G!Skills -> Nat] /\ rest \in [G!Skills -> Int]
  BY <1>5
<1>7. \A s \in G!Skills : rest[s] = credit[s] + n * w[s] - counts[s] * T
  <2> TAKE s \in G!Skills
  <2>1. rest[s] = due[s] - counts[s] * T
    OBVIOUS
  <2> HIDE DEF rest, counts
  <2>2. due[s] = credit[s] + n * w[s] /\ w[s] \in Int /\ counts[s] \in Int /\ credit[s] \in Int
    BY <1>1, <1>4, <1>5
  <2> QED
    BY <1>1, <2>1, <2>2
<1> HIDE DEF counts
<1>8. rest = [s \in G!Skills |-> credit[s] + n * w[s] - counts[s] * T]
  BY <1>7
<1> HIDE DEF rest
<1>9. SumsTo(counts, G!SumFunction(counts)) /\ G!SumFunction(counts) \in Int
  BY <1>6, SkillSum
<1>10. L \in Int /\ SumsTo(rest, L * T)
  <2>1. w \in [G!Skills -> Int] /\ counts \in [G!Skills -> Int] /\ T \in Int /\ SumsTo(credit, 0)
    BY <1>1, <1>6 DEF CreditsOK
  <2> PICK k : k = G!SumFunction(counts)
    OBVIOUS
  <2>2. k \in Int /\ SumsTo(counts, k) /\ n \in Int
    BY <1>9
  <2>3. SumsTo(rest, (n - k) * T)
    BY <1>1, <1>8, <2>1, <2>2, DuesAddUp
  <2> QED
    BY <2>2, <2>3
<1> HIDE DEF L
<1>11. L \in 0 .. 3
  <2>1. \A s \in G!Skills : Rest(credit[s] + n * intake.weights[s], rest[s], T)
    BY <1>4, <1>5 DEF w
  <2> QED
    BY <1>6, <1>10, <2>1, LeftOver
<1> DEFINE m == [s \in G!Skills |-> more(S, s)]
<1>12. S \in SUBSET G!Skills /\ Cardinality(S) = L
       /\ \A s \in S, other \in G!Skills \ S : rest[s] >= rest[other]
  <2> DEFINE order == <<"listening", "reading", "writing", "speaking">>
  <2>1. Len(order) = 4
    OBVIOUS
  <2>2. G!Min({L, Len(order)}) = L
    <3>1. L \in Int /\ 4 \in Int /\ L <= 4
      BY <1>11
    <3> QED
      BY <2>1, <3>1, TwoMembers
  <2>3. G!Max({0, L}) = L
    <3>1. L \in Int /\ 0 \in Int /\ 0 <= L
      BY <1>11
    <3> QED
      BY <3>1, TwoMembers
  <2>4. S \in G!kSubset(L, G!Skills) /\ \A s \in S, other \in G!Skills \ S : rest[s] >= rest[other]
    BY <2>2, <2>3 DEF G!Lucky
  <2> QED
    BY <2>4, SameSize DEF G!kSubset
<1>13. m \in [G!Skills -> {0, 1}] /\ \A s \in G!Skills : m[s] = more(S, s)
  OBVIOUS
<1>14. SumsTo(m, L)
  BY <1>12, ChosenSize DEF SumsTo
<1>15. \A s, t \in G!Skills : Before(rest[s], rest[t], m[s], m[t])
  BY <1>12 DEF Before
<1> HIDE DEF m
<1>16. ASSUME NEW s \in G!Skills
       PROVE  /\ Rest(credit[s] + n * w[s], rest[s], T)
              /\ share.credit[s] = rest[s] - m[s] * T
              /\ share.counts[s] = counts[s] + m[s]
              /\ share.counts[s] \in Nat
              /\ share.counts[s] * T = credit[s] + n * w[s] - share.credit[s]
  <2>1. Rest(credit[s] + n * w[s], rest[s], T)
    BY <1>4, <1>5
  <2>2. share.credit[s] = rest[s] - m[s] * T /\ share.counts[s] = counts[s] + m[s]
    BY <1>3, <1>13
  <2>3. m[s] \in Int /\ m[s] >= 0 /\ counts[s] \in Nat /\ credit[s] \in Int /\ w[s] \in Int
    BY <1>1, <1>6, <1>13
  <2>4. (counts[s] + m[s]) * T = counts[s] * T + m[s] * T
    BY <1>1, <2>3
  <2>5. counts[s] * T \in Int /\ m[s] * T \in Int /\ n * w[s] \in Int
    BY <1>1, <2>3
  <2> QED
    BY <1>7, <2>1, <2>2, <2>3, <2>4, <2>5
<1>17. SumsTo(share.counts, n)
  <2> SUFFICES ASSUME NEW g, NEW h, NEW i, NEW j, Four(g, h, i, j)
               PROVE  SumIs(share.counts, g, h, i, j, n)
    BY DEF SumsTo
  <2>1. g \in G!Skills /\ h \in G!Skills /\ i \in G!Skills /\ j \in G!Skills
    BY FourAnyOrder
  <2>2. /\ m[g] + m[h] + m[i] + m[j] = L
        /\ counts[g] + counts[h] + counts[i] + counts[j] = G!SumFunction(counts)
    BY <1>9, <1>14 DEF SumsTo, SumIs
  <2>3. /\ m[g] \in Int /\ m[h] \in Int /\ m[i] \in Int /\ m[j] \in Int
        /\ counts[g] \in Int /\ counts[h] \in Int /\ counts[i] \in Int /\ counts[j] \in Int
    BY <1>6, <1>13, <2>1
  <2> QED
    BY <1>9, <1>16, <2>1, <2>2, <2>3 DEF SumIs, L
<1>18. Dealt(n, credit, w, T, share, rest, m, L)
  BY <1>10, <1>14, <1>15, <1>16, <1>17 DEF Dealt
<1> QED
  BY <1>6, <1>11, <1>13, <1>18 DEF w

\* What is owed stays within a session, whoever gets the slots left over.
LEMMA CreditsKept ==
    ASSUME intake \in G!Intake, credit \in [G!Skills -> Int], NEW n \in Nat, NEW T, T = G!TotalWeight,
           CreditsOK(credit, intake.weights, T), NEW share,
           NEW r \in [G!Skills -> Int], NEW m \in [G!Skills -> {0, 1}], NEW L \in 0 .. 3,
           Dealt(n, credit, intake.weights, T, share, r, m, L)
    PROVE  CreditsOK(share.credit, intake.weights, T)
<1> DEFINE w == intake.weights
           c == share.credit
<1>1. w \in [G!Skills -> 2 .. 20] /\ T \in Nat \ {0} /\ SumsTo(w, T)
  BY WeightSums
<1> HIDE DEF w, c
<1>2. ASSUME NEW i, NEW j, NEW k, NEW l, Four(i, j, k, l)
      PROVE  Owed(c[i], T) /\ OwedTogether(c[i], c[j], w[i], w[j], T) /\ SumIs(c, i, j, k, l, 0)
  <2> DEFINE x1 == credit[i] + n * w[i]  x2 == credit[j] + n * w[j]
             a == w[i]  b == w[j]
             r1 == r[i]  r2 == r[j]  r3 == r[k]  r4 == r[l]
             m1 == m[i]  m2 == m[j]  m3 == m[k]  m4 == m[l]
  <2>0. i \in G!Skills /\ j \in G!Skills /\ k \in G!Skills /\ l \in G!Skills /\ i # j
    BY <1>2, FourAnyOrder DEF Four, FourOf
  <2>1. /\ a \in 2 .. 20 /\ b \in 2 .. 20 /\ w[k] \in 2 .. 20 /\ w[l] \in 2 .. 20
        /\ a + b + w[k] + w[l] = T
    BY <1>1, <1>2, <2>0 DEF SumsTo, SumIs
  <2>2. /\ c[i] = r1 - m1 * T /\ c[j] = r2 - m2 * T /\ c[k] = r3 - m3 * T /\ c[l] = r4 - m4 * T
        /\ Rest(x1, r1, T) /\ Rest(x2, r2, T)
        /\ Rest(credit[k] + n * w[k], r3, T) /\ Rest(credit[l] + n * w[l], r4, T)
    BY <2>0 DEF Dealt, c, w
  <2>3. r1 + r2 + r3 + r4 = L * T /\ m1 + m2 + m3 + m4 = L
    BY <1>2 DEF Dealt, SumsTo, SumIs
  <2>4. /\ Before(r1, r2, m1, m2) /\ Before(r1, r3, m1, m3) /\ Before(r1, r4, m1, m4)
        /\ Before(r2, r1, m2, m1) /\ Before(r2, r3, m2, m3) /\ Before(r2, r4, m2, m4)
    BY <2>0 DEF Dealt
  <2>5. /\ r1 \in Int /\ r2 \in Int /\ r3 \in Int /\ r4 \in Int
        /\ m1 \in {0, 1} /\ m2 \in {0, 1} /\ m3 \in {0, 1} /\ m4 \in {0, 1}
        /\ credit[i] \in Int /\ credit[j] \in Int
    BY <2>0
  <2>6. /\ Owed(credit[i], T) /\ Owed(credit[j], T)
        /\ OwedTogether(credit[i], credit[j], a, b, T) /\ OwedTogether(credit[j], credit[i], b, a, T)
    BY <2>0 DEF CreditsOK, w
  <2> PICK ci, cj : ci = credit[i] /\ cj = credit[j]
    OBVIOUS
  <2> HIDE DEF a, b, r1, r2, r3, r4, m1, m2, m3, m4
  <2>7. /\ x1 \in Int /\ x2 \in Int /\ x1 >= ci /\ x2 >= cj
        /\ Balanced(x1, x2, a, b, T) /\ Balanced(x2, x1, b, a, T)
    <3>1. 0 * a <= n * a /\ 0 * b <= n * b /\ n * a \in Int /\ n * b \in Int
      BY <2>1, ProductMonotone
    <3>2. Balanced(ci + n * a, cj + n * b, a, b, T) /\ Balanced(cj + n * b, ci + n * a, b, a, T)
      <4>1. Balanced(ci, cj, a, b, T) /\ Balanced(cj, ci, b, a, T)
        BY <2>6 DEF OwedTogether
      <4>2. T \in Nat /\ ci \in Int /\ cj \in Int
        BY <1>1, <2>5
      <4> QED
        BY <2>1, <4>1, <4>2, DueBalanced
    <3>3. x1 = ci + n * a /\ x2 = cj + n * b
      BY DEF a, b
    <3> QED
      BY <2>1, <2>5, <3>1, <3>2, <3>3
  <2> HIDE DEF x1, x2
  <2>8. /\ x1 > -T /\ x2 > -T /\ 4 * x1 >= -3 * T /\ 4 * x2 >= -3 * T /\ x1 + x2 + a + b > -T
    BY <1>1, <2>1, <2>5, <2>6, <2>7 DEF Owed, OwedTogether
  <2>9. r1 < T /\ r2 < T /\ r3 < T /\ r4 < T
    BY <1>1, <2>2 DEF Rest
  <2>10. /\ m1 = 1 => 4 * r1 >= T
         /\ m2 = 1 => 4 * r2 >= T
    <3>1. m1 = 1 => 4 * r1 >= T
      BY <1>1, <2>3, <2>4, <2>5, <2>9, LuckyRest
    <3>2. r2 + r1 + r3 + r4 = L * T /\ m2 + m1 + m3 + m4 = L
      BY <2>3, <2>5
    <3>3. m2 = 1 => 4 * r2 >= T
      BY <1>1, <2>4, <2>5, <2>9, <3>2, LuckyRest
    <3> QED
      BY <3>1, <3>3
  <2>11. Owed(c[i], T)
    BY <1>1, <2>2, <2>5, <2>8, <2>9, <2>10 DEF Owed, Rest
  <2>12. Balanced(c[i], c[j], a, b, T)
    <3>1. TwoDealt(x1, x2, a, b, T, r1, r2, m1, m2)
      BY <2>2, <2>4, <2>5, <2>7, <2>8, <2>10 DEF TwoDealt
    <3>2. T \in Nat
      BY <1>1
    <3>3. Balanced(r1 - m1 * T, r2 - m2 * T, a, b, T)
      BY <2>1, <3>1, <3>2, StaysBalanced
    <3> QED
      BY <2>2, <3>3
  <2>13. c[i] + c[j] + a + b > -T
    <3>1. a + b <= T /\ T <= a + b + 40
      BY <1>1, <2>1
    <3>2. PairDealt(T, L, a, b, x1, x2, r1, r2, r3, r4, m1, m2, m3, m4)
      BY <2>2, <2>3, <2>4, <2>5, <2>7, <2>8, <2>9, <3>1 DEF PairDealt
    <3>3. (r1 - m1 * T) + (r2 - m2 * T) + a + b > -T
      BY <1>1, <2>1, <3>2, PairStays
    <3> QED
      BY <2>2, <3>3
  <2>14. c[i] + c[j] + c[k] + c[l] = 0
    <3>1. m1 * T + m2 * T + m3 * T + m4 * T = L * T
      <4>1. (m1 + m2 + m3 + m4) * T = m1 * T + m2 * T + m3 * T + m4 * T
        BY <1>1, <2>5
      <4> QED
        BY <2>3, <4>1
    <3> PICK p1, p2, p3, p4, p : p1 = m1 * T /\ p2 = m2 * T /\ p3 = m3 * T /\ p4 = m4 * T /\ p = L * T
      OBVIOUS
    <3>2. p1 \in Int /\ p2 \in Int /\ p3 \in Int /\ p4 \in Int /\ p1 + p2 + p3 + p4 = p
      BY <1>1, <2>5, <3>1
    <3>3. /\ c[i] = r1 - p1 /\ c[j] = r2 - p2 /\ c[k] = r3 - p3 /\ c[l] = r4 - p4
          /\ r1 + r2 + r3 + r4 = p
      BY <2>2, <2>3
    <3>4. r1 - p1 + (r2 - p2) + (r3 - p3) + (r4 - p4) = 0
      BY <2>5, <3>2, <3>3
    <3> QED
      BY <3>3, <3>4
  <2> QED
    BY <2>11, <2>12, <2>13, <2>14 DEF OwedTogether, SumIs, a, b
<1>3. SumsTo(c, 0)
  BY <1>2 DEF SumsTo
<1>4. ASSUME NEW s \in G!Skills PROVE Owed(c[s], T)
  <2>1. \E t \in G!Skills : s # t
    BY FourSkills
  <2> QED
    BY <1>2, <2>1, TheOthers
<1>5. ASSUME NEW s \in G!Skills, NEW t \in G!Skills, s # t
      PROVE  OwedTogether(c[s], c[t], w[s], w[t], T)
  BY <1>2, <1>5, TheOthers
<1> QED
  BY <1>3, <1>4, <1>5 DEF CreditsOK, c, w

\* A share of a week's slots: what it gives each skill, and what it leaves owed.
ShareOK(n, c, share) ==
    /\ share.counts \in [G!Skills -> Nat] /\ share.credit \in [G!Skills -> Int]
    /\ SumsTo(share.counts, n)
    /\ CreditsOK(share.credit, intake.weights, G!TotalWeight)
    /\ \A s \in G!Skills :
          share.counts[s] * G!TotalWeight = c[s] + n * intake.weights[s] - share.credit[s]

\* However _allocate hands out a week's slots, they are its slots, and the credits
\* it leaves are in order again.
LEMMA AllocationsOK ==
    ASSUME intake \in G!Intake, credit \in [G!Skills -> Int], NEW n \in Nat,
           CreditsOK(credit, intake.weights, G!TotalWeight), NEW share \in G!Allocations(n)
    PROVE  ShareOK(n, credit, share)
<1>1. PICK r \in [G!Skills -> Int], m \in [G!Skills -> {0, 1}], L \in 0 .. 3 :
        Dealt(n, credit, intake.weights, G!TotalWeight, share, r, m, L)
  BY Deal
<1>2. CreditsOK(share.credit, intake.weights, G!TotalWeight)
  BY <1>1, CreditsKept
<1>3. share.counts \in [G!Skills -> Int] /\ share.credit \in [G!Skills -> Int]
  <2>1. n \in Int
    OBVIOUS
  <2> QED
    BY <2>1, AllocationsType
<1>4. \A s \in G!Skills :
        /\ share.counts[s] \in Nat
        /\ share.counts[s] * G!TotalWeight = credit[s] + n * intake.weights[s] - share.credit[s]
  BY <1>1 DEF Dealt
<1> QED
  BY <1>1, <1>2, <1>3, <1>4 DEF ShareOK, Dealt

-----------------------------------------------------------------------------
(* The queue of a week.                                                      *)

\* SKILLS.
Order == <<"listening", "reading", "writing", "speaking">>

\* SKILLS holds each skill once.
LEMMA OrderFacts ==
    /\ DOMAIN Order = 1 .. 4
    /\ Four(Order[1], Order[2], Order[3], Order[4])
    /\ \A s \in G!Skills : \E i \in 1 .. 4 : Order[i] = s
    /\ \A i \in 1 .. 4 : Order[i] \in G!Skills
    /\ \A i, j \in 1 .. 4 : Order[i] = Order[j] => i = j
<1>1. DOMAIN Order = 1 .. 4
  BY DEF Order
<1>2. Order[1] = "listening" /\ Order[2] = "reading" /\ Order[3] = "writing" /\ Order[4] = "speaking"
  BY DEF Order
<1>3. Four(Order[1], Order[2], Order[3], Order[4])
  BY <1>2, FourNames
<1>4. \A s \in G!Skills : s = Order[1] \/ s = Order[2] \/ s = Order[3] \/ s = Order[4]
  BY <1>3 DEF Four, FourOf
<1>5. \A i \in 1 .. 4 : i = 1 \/ i = 2 \/ i = 3 \/ i = 4
  OBVIOUS
<1>6. 1 \in 1 .. 4 /\ 2 \in 1 .. 4 /\ 3 \in 1 .. 4 /\ 4 \in 1 .. 4
  OBVIOUS
<1>7. \A s \in G!Skills : \E i \in 1 .. 4 : Order[i] = s
  BY <1>4, <1>6
<1>8. Order[1] \in G!Skills /\ Order[2] \in G!Skills /\ Order[3] \in G!Skills /\ Order[4] \in G!Skills
  BY <1>3, FourAnyOrder
<1>9. \A i \in 1 .. 4 : Order[i] \in G!Skills
  BY <1>5, <1>8
<1>10. \A i, j \in 1 .. 4 : Order[i] = Order[j] => i = j
  BY <1>3, <1>5 DEF Four, FourOf
<1> QED
  BY <1>1, <1>3, <1>7, <1>9, <1>10

\* What skill j, which has c sessions, has before it in the queue: those of its
\* own that go before session n of skill i.
Ahead(c, j, i, n) ==
    LET left == c - (IF j < i THEN n - 1 ELSE n) IN IF 0 <= left THEN left ELSE 0

\* A place in the queue counts what each skill has before it.
LEMMA PlaceTerms ==
    ASSUME NEW counts \in [G!Skills -> Nat], NEW i \in 1 .. 4, NEW n \in Int
    PROVE  G!Place(counts, i, n) =
             Ahead(counts[Order[1]], 1, i, n) + Ahead(counts[Order[2]], 2, i, n)
               + Ahead(counts[Order[3]], 3, i, n) + Ahead(counts[Order[4]], 4, i, n)
<1> DEFINE f == [j \in DOMAIN Order |->
                   G!Max({0, counts[Order[j]] - (IF j < i THEN n - 1 ELSE n)})]
<1>1. G!Place(counts, i, n) = G!SumFunction(f)
  BY DEF G!Place, Order
<1>2. \A j \in 1 .. 4 : f[j] = Ahead(counts[Order[j]], j, i, n) /\ f[j] \in Int
  <2> TAKE j \in 1 .. 4
  <2> DEFINE left == counts[Order[j]] - (IF j < i THEN n - 1 ELSE n)
  <2>1. 0 \in Int /\ left \in Int
    BY OrderFacts
  <2>2. f[j] = G!Max({0, left})
    BY OrderFacts
  <2>3. Ahead(counts[Order[j]], j, i, n) = IF 0 <= left THEN left ELSE 0
    BY DEF Ahead
  <2> HIDE DEF left, f
  <2>4. G!Max({0, left}) = IF 0 <= left THEN left ELSE 0
    BY <2>1, TwoMembers
  <2> QED
    BY <2>1, <2>2, <2>3, <2>4
<1>3. DOMAIN f = 1 .. 4 /\ FourOf(1 .. 4, 1, 2, 3, 4)
  BY OrderFacts DEF FourOf
<1> HIDE DEF f
<1>4. SumIs(f, 1, 2, 3, 4, G!SumFunction(f))
  BY <1>2, <1>3, FourSum
<1>5. 1 \in 1 .. 4 /\ 2 \in 1 .. 4 /\ 3 \in 1 .. 4 /\ 4 \in 1 .. 4
  OBVIOUS
<1> QED
  BY <1>1, <1>2, <1>4, <1>5 DEF SumIs

\* The skill with most left goes first, and then the order of SKILLS.
Earlier(i, n, h, m) == n > m \/ (n = m /\ i < h)

\* What goes later in the queue has as much of every skill before it, and more of
\* the skill that goes earlier.
LEMMA AheadGrows ==
    ASSUME NEW c \in Nat, NEW i \in 1 .. 4, NEW h \in 1 .. 4, NEW j \in 1 .. 4,
           NEW n \in Nat, NEW m \in Nat, Earlier(i, n, h, m)
    PROVE  /\ Ahead(c, j, i, n) <= Ahead(c, j, h, m)
           /\ j = i /\ n <= c => Ahead(c, j, i, n) < Ahead(c, j, h, m)
           /\ Ahead(c, j, i, n) \in Nat /\ Ahead(c, j, h, m) \in Nat
BY DEF Earlier, Ahead

\* No skill has more before a session than it has sessions, nor has the skill of
\* the session itself all of its own.
LEMMA AheadBound ==
    ASSUME NEW c \in Nat, NEW i \in 1 .. 4, NEW j \in 1 .. 4, NEW n \in Nat \ {0}
    PROVE  /\ Ahead(c, j, i, n) \in 0 .. c
           /\ j = i /\ n <= c => Ahead(c, j, i, n) < c
BY DEF Ahead

\* Session n of skill i is one of the queue.
Session(counts, i, n) == i \in 1 .. 4 /\ n \in 1 .. counts[Order[i]]

\* The queue keeps its order.
LEMMA PlacesOrdered ==
    ASSUME NEW counts \in [G!Skills -> Nat], NEW i, NEW n, Session(counts, i, n),
           NEW h, NEW m, Session(counts, h, m), Earlier(i, n, h, m)
    PROVE  G!Place(counts, i, n) < G!Place(counts, h, m)
<1>1. \A j \in 1 .. 4 : counts[Order[j]] \in Nat
  BY OrderFacts
<1>2. i \in 1 .. 4 /\ h \in 1 .. 4 /\ n \in Nat /\ m \in Nat /\ n <= counts[Order[i]]
      /\ n \in Int /\ m \in Int
  BY <1>1 DEF Session
<1> DEFINE p(j) == Ahead(counts[Order[j]], j, i, n)
           q(j) == Ahead(counts[Order[j]], j, h, m)
<1>3. \A j \in 1 .. 4 : p(j) <= q(j) /\ (j = i => p(j) < q(j)) /\ p(j) \in Nat /\ q(j) \in Nat
  BY <1>1, <1>2, AheadGrows
<1>4. G!Place(counts, i, n) = p(1) + p(2) + p(3) + p(4)
  BY <1>2, PlaceTerms
<1>5. G!Place(counts, h, m) = q(1) + q(2) + q(3) + q(4)
  BY <1>2, PlaceTerms
<1> HIDE DEF p, q
<1>6. /\ p(1) <= q(1) /\ p(2) <= q(2) /\ p(3) <= q(3) /\ p(4) <= q(4)
      /\ (p(1) < q(1) \/ p(2) < q(2) \/ p(3) < q(3) \/ p(4) < q(4))
      /\ p(1) \in Nat /\ p(2) \in Nat /\ p(3) \in Nat /\ p(4) \in Nat
      /\ q(1) \in Nat /\ q(2) \in Nat /\ q(3) \in Nat /\ q(4) \in Nat
  <2>1. i = 1 \/ i = 2 \/ i = 3 \/ i = 4
    BY <1>2
  <2>2. 1 \in 1 .. 4 /\ 2 \in 1 .. 4 /\ 3 \in 1 .. 4 /\ 4 \in 1 .. 4
    OBVIOUS
  <2> QED
    BY <1>3, <2>1, <2>2
<1> QED
  BY <1>4, <1>5, <1>6

\* Places are fewer than the sessions.
LEMMA PlaceBound ==
    ASSUME NEW counts \in [G!Skills -> Nat], NEW N \in Nat, SumsTo(counts, N),
           NEW i, NEW n, Session(counts, i, n)
    PROVE  G!Place(counts, i, n) \in 0 .. N - 1
<1>1. \A j \in 1 .. 4 : counts[Order[j]] \in Nat
  BY OrderFacts
<1>2. i \in 1 .. 4 /\ n \in Nat \ {0} /\ n <= counts[Order[i]] /\ n \in Int
  BY <1>1 DEF Session
<1> DEFINE p(j) == Ahead(counts[Order[j]], j, i, n)
           c(j) == counts[Order[j]]
<1>3. \A j \in 1 .. 4 : p(j) \in 0 .. c(j) /\ (j = i => p(j) < c(j)) /\ c(j) \in Nat
  BY <1>1, <1>2, AheadBound
<1>4. G!Place(counts, i, n) = p(1) + p(2) + p(3) + p(4)
  BY <1>2, PlaceTerms
<1>5. c(1) + c(2) + c(3) + c(4) = N
  BY OrderFacts DEF SumsTo, SumIs
<1> HIDE DEF p, c
<1>6. /\ p(1) \in 0 .. c(1) /\ p(2) \in 0 .. c(2) /\ p(3) \in 0 .. c(3) /\ p(4) \in 0 .. c(4)
      /\ (p(1) < c(1) \/ p(2) < c(2) \/ p(3) < c(3) \/ p(4) < c(4))
      /\ c(1) \in Nat /\ c(2) \in Nat /\ c(3) \in Nat /\ c(4) \in Nat
  <2>1. i = 1 \/ i = 2 \/ i = 3 \/ i = 4
    BY <1>2
  <2>2. 1 \in 1 .. 4 /\ 2 \in 1 .. 4 /\ 3 \in 1 .. 4 /\ 4 \in 1 .. 4
    OBVIOUS
  <2> QED
    BY <1>3, <2>1, <2>2
<1> QED
  BY <1>4, <1>5, <1>6

\* f pairs the members of S with those of T.
Pairs(f, S, T) ==
    /\ f \in [S -> T]
    /\ \A x, y \in S : f[x] = f[y] => x = y
    /\ \A z \in T : \E x \in S : f[x] = z

\* What is paired is equally many.
LEMMA PairedSize ==
    ASSUME NEW S, NEW T, IsFiniteSet(S), NEW f, Pairs(f, S, T)
    PROVE  IsFiniteSet(T) /\ Cardinality(T) = Cardinality(S)
<1>1. f \in Injection(S, T)
  BY DEF Pairs, Injection, IsInjective
<1>2. f \in Surjection(S, T)
  BY DEF Pairs, Surjection
<1>3. ExistsBijection(S, T)
  BY <1>1, <1>2 DEF ExistsBijection, Bijection
<1> QED
  BY <1>3, FS_Bijection

\* The queue of a week: a place and a skill for every session.
Queue(counts) ==
    UNION {{<<G!Place(counts, i, n), Order[i]>> : n \in 1 .. counts[Order[i]]} : i \in DOMAIN Order}

\* The part of the queue that skill s has.
OfSkill(Q, s) == {x \in Q : x[2] = s}

\* What stands in the queue.
LEMMA QueueMember ==
    ASSUME NEW counts
    PROVE  /\ \A x \in Queue(counts) : \E i \in 1 .. 4 : \E n \in 1 .. counts[Order[i]] :
                x = <<G!Place(counts, i, n), Order[i]>>
           /\ \A i \in 1 .. 4 : \A n \in 1 .. counts[Order[i]] :
                <<G!Place(counts, i, n), Order[i]>> \in Queue(counts)
BY OrderFacts DEF Queue

\* No two sessions have one place.
LEMMA PlacesDiffer ==
    ASSUME NEW counts \in [G!Skills -> Nat],
           NEW i, NEW n, Session(counts, i, n), NEW h, NEW m, Session(counts, h, m),
           G!Place(counts, i, n) = G!Place(counts, h, m)
    PROVE  i = h /\ n = m
<1>1. i \in 1 .. 4 /\ h \in 1 .. 4 /\ n \in Int /\ m \in Int
  BY OrderFacts DEF Session
<1>2. G!Place(counts, i, n) \in Int
  BY <1>1, PlaceType
<1>3. ~ Earlier(i, n, h, m) /\ ~ Earlier(h, m, i, n)
  BY <1>2, PlacesOrdered
<1> QED
  BY <1>1, <1>3 DEF Earlier

\* The sessions stand at different places below their number.
LEMMA QueueOne ==
    ASSUME NEW counts \in [G!Skills -> Nat], NEW N \in Nat, SumsTo(counts, N)
    PROVE  /\ \A x \in Queue(counts) : x[1] \in 0 .. N - 1 /\ x[2] \in G!Skills
           /\ \A x, y \in Queue(counts) : x[1] = y[1] => x = y
<1>1. ASSUME NEW x \in Queue(counts)
      PROVE  \E i, n : Session(counts, i, n) /\ x = <<G!Place(counts, i, n), Order[i]>>
  BY <1>1, QueueMember DEF Session
<1>2. ASSUME NEW x \in Queue(counts) PROVE x[1] \in 0 .. N - 1 /\ x[2] \in G!Skills
  <2> PICK i, n : Session(counts, i, n) /\ x = <<G!Place(counts, i, n), Order[i]>>
    BY <1>1
  <2>1. G!Place(counts, i, n) \in 0 .. N - 1
    BY PlaceBound
  <2>2. Order[i] \in G!Skills
    BY OrderFacts DEF Session
  <2> QED
    BY <2>1, <2>2
<1>3. ASSUME NEW x \in Queue(counts), NEW y \in Queue(counts), x[1] = y[1] PROVE x = y
  <2> PICK i, n : Session(counts, i, n) /\ x = <<G!Place(counts, i, n), Order[i]>>
    BY <1>1
  <2> PICK h, m : Session(counts, h, m) /\ y = <<G!Place(counts, h, m), Order[h]>>
    BY <1>1
  <2>1. G!Place(counts, i, n) = G!Place(counts, h, m)
    BY <1>3
  <2>2. i = h /\ n = m
    BY <2>1, PlacesDiffer
  <2> QED
    BY <2>2
<1> QED
  BY <1>2, <1>3

\* The queue has as many sessions of a skill as were handed out to it.
LEMMA QueueOfSkill ==
    ASSUME NEW counts \in [G!Skills -> Nat], NEW s \in G!Skills
    PROVE  /\ IsFiniteSet(OfSkill(Queue(counts), s))
           /\ Cardinality(OfSkill(Queue(counts), s)) = counts[s]
<1> DEFINE Q == OfSkill(Queue(counts), s)
<1>1. PICK i \in 1 .. 4 : Order[i] = s
  BY OrderFacts
<1> DEFINE f == [n \in 1 .. counts[s] |-> <<G!Place(counts, i, n), s>>]
<1>2. counts[s] \in Nat
  OBVIOUS
<1>3. \A n \in 1 .. counts[s] : Session(counts, i, n) /\ f[n] \in Q /\ f[n][1] = G!Place(counts, i, n)
  BY <1>1, QueueMember DEF Session, OfSkill
<1>4. \A x \in Q : \E n \in 1 .. counts[s] : f[n] = x
  <2> TAKE x \in Q
  <2>1. x \in Queue(counts) /\ x[2] = s
    BY DEF OfSkill
  <2>2. PICK h \in 1 .. 4 : \E n \in 1 .. counts[Order[h]] : x = <<G!Place(counts, h, n), Order[h]>>
    BY <2>1, QueueMember
  <2>h. PICK n \in 1 .. counts[Order[h]] : x = <<G!Place(counts, h, n), Order[h]>>
    BY <2>2
  <2>3. Order[h] = s
    BY <2>1, <2>h
  <2>4. h = i
    BY <1>1, <2>3, OrderFacts
  <2> QED
    BY <1>1, <2>h, <2>4
<1>5. \A n, m \in 1 .. counts[s] : f[n] = f[m] => n = m
  <2> SUFFICES ASSUME NEW n \in 1 .. counts[s], NEW m \in 1 .. counts[s], f[n] = f[m] PROVE n = m
    OBVIOUS
  <2>1. G!Place(counts, i, n) = G!Place(counts, i, m)
    BY <1>3
  <2> HIDE DEF f
  <2> QED
    BY <1>3, <2>1, PlacesDiffer
<1>6. f \in [1 .. counts[s] -> Q]
  BY <1>3
<1> HIDE DEF f, Q
<1>7. Pairs(f, 1 .. counts[s], Q)
  BY <1>4, <1>5, <1>6 DEF Pairs
<1>8. IsFiniteSet(1 .. counts[s]) /\ Cardinality(1 .. counts[s]) = counts[s]
  <2>1. 1 \in Int /\ counts[s] \in Int
    BY <1>2
  <2> QED
    BY <1>2, <2>1, FS_Interval
<1> QED
  BY <1>7, <1>8, PairedSize DEF Q

\* A queue has the sessions of its four skills.
LEMMA FourParts ==
    ASSUME NEW i, NEW j, NEW k, NEW l, Four(i, j, k, l),
           NEW Q, \A x \in Q : x[2] \in G!Skills, \A s \in G!Skills : IsFiniteSet(OfSkill(Q, s))
    PROVE  /\ IsFiniteSet(Q)
           /\ Cardinality(Q) = Cardinality(OfSkill(Q, i)) + Cardinality(OfSkill(Q, j))
                                 + Cardinality(OfSkill(Q, k)) + Cardinality(OfSkill(Q, l))
<1> DEFINE A == OfSkill(Q, i)  B == OfSkill(Q, j)  C == OfSkill(Q, k)  D == OfSkill(Q, l)
<1>1. IsFiniteSet(A) /\ IsFiniteSet(B) /\ IsFiniteSet(C) /\ IsFiniteSet(D)
  BY FourAnyOrder
<1>2. Q = A \cup (B \cup (C \cup D))
  BY DEF OfSkill, Four, FourOf
<1>3. C \cap D = {} /\ B \cap (C \cup D) = {} /\ A \cap (B \cup (C \cup D)) = {}
  BY DEF OfSkill, Four, FourOf
<1> HIDE DEF A, B, C, D
<1>4. \A X, Y : IsFiniteSet(X) /\ IsFiniteSet(Y) /\ X \cap Y = {}
                  => /\ IsFiniteSet(X \cup Y)
                     /\ Cardinality(X \cup Y) = Cardinality(X) + Cardinality(Y)
                     /\ Cardinality(X) \in Nat /\ Cardinality(Y) \in Nat
  <2> SUFFICES ASSUME NEW X, NEW Y, IsFiniteSet(X), IsFiniteSet(Y), X \cap Y = {}
               PROVE  /\ IsFiniteSet(X \cup Y)
                      /\ Cardinality(X \cup Y) = Cardinality(X) + Cardinality(Y)
                      /\ Cardinality(X) \in Nat /\ Cardinality(Y) \in Nat
    OBVIOUS
  <2>1. Cardinality(X) \in Nat /\ Cardinality(Y) \in Nat
    BY FS_CardinalityType
  <2> QED
    BY <2>1, FS_Union, FS_EmptySet
<1>5. IsFiniteSet(C \cup D) /\ Cardinality(C \cup D) = Cardinality(C) + Cardinality(D)
      /\ Cardinality(C) \in Nat /\ Cardinality(D) \in Nat
  BY <1>1, <1>3, <1>4
<1>6. /\ IsFiniteSet(B \cup (C \cup D))
      /\ Cardinality(B \cup (C \cup D)) = Cardinality(B) + Cardinality(C \cup D)
      /\ Cardinality(B) \in Nat
  BY <1>1, <1>3, <1>4, <1>5
<1>7. /\ IsFiniteSet(A \cup (B \cup (C \cup D)))
      /\ Cardinality(A \cup (B \cup (C \cup D))) = Cardinality(A) + Cardinality(B \cup (C \cup D))
      /\ Cardinality(A) \in Nat
  BY <1>1, <1>3, <1>4, <1>6
<1>8. IsFiniteSet(Q) /\ Cardinality(Q) = Cardinality(A) + (Cardinality(B) + (Cardinality(C) + Cardinality(D)))
  BY <1>2, <1>5, <1>6, <1>7
<1>9. Cardinality(Q) = Cardinality(A) + Cardinality(B) + Cardinality(C) + Cardinality(D)
  BY <1>5, <1>6, <1>7, <1>8
<1> QED
  BY <1>8, <1>9 DEF A, B, C, D

\* The queue has a session at every place from 0 on.
LEMMA QueueFull ==
    ASSUME NEW counts \in [G!Skills -> Nat], NEW N \in Nat, SumsTo(counts, N)
    PROVE  /\ IsFiniteSet(Queue(counts)) /\ Cardinality(Queue(counts)) = N
           /\ \A p \in 0 .. N - 1 : \E x \in Queue(counts) : x[1] = p
<1> DEFINE Q == Queue(counts)
           f == [x \in Q |-> x[1]]
<1>1. /\ \A x \in Q : x[1] \in 0 .. N - 1 /\ x[2] \in G!Skills
      /\ \A x, y \in Q : x[1] = y[1] => x = y
  BY QueueOne
<1>2. \A s \in G!Skills : IsFiniteSet(OfSkill(Q, s)) /\ Cardinality(OfSkill(Q, s)) = counts[s]
  BY QueueOfSkill
<1> DEFINE a == Order[1]  b == Order[2]  c == Order[3]  d == Order[4]
<1>3. Four(a, b, c, d) /\ a \in G!Skills /\ b \in G!Skills /\ c \in G!Skills /\ d \in G!Skills
  BY OrderFacts, FourAnyOrder
<1> HIDE DEF a, b, c, d, Q
<1>4. IsFiniteSet(Q) /\ Cardinality(Q) = counts[a] + counts[b] + counts[c] + counts[d]
  BY <1>1, <1>2, <1>3, FourParts
<1>5. Cardinality(Q) = N
  BY <1>3, <1>4 DEF SumsTo, SumIs
<1>6. f \in Injection(Q, 0 .. N - 1)
  <2>1. f \in [Q -> 0 .. N - 1] /\ \A x, y \in Q : f[x] = f[y] => x = y
    BY <1>1
  <2> QED
    BY <2>1 DEF Injection, IsInjective
<1>7. IsFiniteSet(0 .. N - 1) /\ Cardinality(0 .. N - 1) = N
  <2>1. 0 \in Int /\ N - 1 \in Int
    OBVIOUS
  <2> QED
    BY <2>1, FS_Interval
<1>8. f \in Surjection(Q, 0 .. N - 1)
  <2> HIDE DEF f
  <2> QED
    BY <1>5, <1>6, <1>7, FS_Injection
<1>9. \A p \in 0 .. N - 1 : \E x \in Q : x[1] = p
  BY <1>8 DEF Surjection
<1> QED
  BY <1>4, <1>5, <1>9 DEF Q

-----------------------------------------------------------------------------
(* The days of a week.                                                       *)

\* How many days of D come before day d.
Rank(D, d) == Cardinality({e \in D : e < d})

\* Later days have more days before them.
LEMMA RankOrder ==
    ASSUME NEW D \in SUBSET Int, IsFiniteSet(D), NEW d \in D
    PROVE  /\ Rank(D, d) \in 0 .. Cardinality(D) - 1
           /\ \A e \in D : d < e => Rank(D, d) < Rank(D, e)
<1> DEFINE U(x) == {e \in D : e < x}
<1>1. \A x \in D : /\ IsFiniteSet(U(x)) /\ Cardinality(U(x)) \in Nat
                   /\ IsFiniteSet(U(x) \cup {x})
                   /\ Cardinality(U(x) \cup {x}) = Cardinality(U(x)) + 1
  <2> TAKE x \in D
  <2>1. U(x) \in SUBSET D /\ x \notin U(x)
    OBVIOUS
  <2> HIDE DEF U
  <2>2. IsFiniteSet(U(x))
    BY <2>1, FS_Subset
  <2> QED
    BY <2>1, <2>2, FS_CardinalityType, FS_AddElement
<1>2. U(d) \cup {d} \in SUBSET D
  OBVIOUS
<1>3. \A e \in D : d < e => U(d) \cup {d} \in SUBSET U(e)
  <2> SUFFICES ASSUME NEW e \in D, d < e, NEW x \in U(d) \cup {d} PROVE x \in U(e)
    OBVIOUS
  <2>1. x \in D /\ x \in Int /\ d \in Int /\ e \in Int /\ x <= d
    OBVIOUS
  <2> QED
    BY <2>1
<1> HIDE DEF U
<1>4. Cardinality(D) \in Nat /\ Cardinality(U(d) \cup {d}) <= Cardinality(D)
  BY <1>2, FS_Subset, FS_CardinalityType
<1>5. \A e \in D : d < e => Cardinality(U(d) \cup {d}) <= Cardinality(U(e))
  BY <1>1, <1>3, FS_Subset
<1>6. Cardinality(U(d)) \in 0 .. Cardinality(D) - 1
  BY <1>1, <1>4
<1>7. \A e \in D : d < e => Cardinality(U(d)) < Cardinality(U(e))
  <2> TAKE e \in D
  <2>1. /\ Cardinality(U(d)) \in Nat /\ Cardinality(U(e)) \in Nat
        /\ Cardinality(U(d) \cup {d}) = Cardinality(U(d)) + 1
    BY <1>1
  <2> QED
    BY <1>5, <2>1
<1> QED
  BY <1>6, <1>7 DEF Rank, U

\* The days are numbered from 0 on.
LEMMA RankOfDays ==
    ASSUME NEW D \in SUBSET Int, IsFiniteSet(D)
    PROVE  /\ \A d, e \in D : Rank(D, d) = Rank(D, e) => d = e
           /\ \A n \in 0 .. Cardinality(D) - 1 : \E d \in D : Rank(D, d) = n
<1> DEFINE f == [d \in D |-> Rank(D, d)]
           K == Cardinality(D)
<1>1. \A d \in D : Rank(D, d) \in 0 .. K - 1
  BY RankOrder
<1>2. \A d, e \in D : Rank(D, d) = Rank(D, e) => d = e
  <2> SUFFICES ASSUME NEW d \in D, NEW e \in D, Rank(D, d) = Rank(D, e), d # e PROVE FALSE
    OBVIOUS
  <2>1. d \in Int /\ e \in Int /\ Rank(D, d) \in Int /\ Rank(D, e) \in Int
    BY <1>1
  <2>2. (d < e => Rank(D, d) < Rank(D, e)) /\ (e < d => Rank(D, e) < Rank(D, d))
    BY RankOrder
  <2> QED
    BY <2>1, <2>2
<1>3. f \in Injection(D, 0 .. K - 1)
  BY <1>1, <1>2 DEF Injection, IsInjective
<1>4. K \in Nat
  BY FS_CardinalityType
<1>5. IsFiniteSet(0 .. K - 1) /\ Cardinality(0 .. K - 1) = K
  <2> HIDE DEF K
  <2>1. 0 \in Int /\ K - 1 \in Int
    BY <1>4
  <2> QED
    BY <1>4, <2>1, FS_Interval
<1>6. f \in Surjection(D, 0 .. K - 1)
  <2> HIDE DEF f
  <2> QED
    BY <1>3, <1>5, FS_Injection
<1> QED
  BY <1>2, <1>6 DEF Surjection

\* Division by the sessions of a day.
LEMMA Division ==
    ASSUME NEW D \in 1 .. 3, NEW y \in Nat
    PROVE  y = D * (y \div D) + (y % D) /\ y \div D \in Nat /\ y % D \in 0 .. D - 1
<1> DEFINE q == y \div D  r == y % D
<1>1. q \in Int /\ r \in 0 .. D - 1 /\ y = D * q + r
  OBVIOUS
<1>2. q >= 0
  <2>1. D = 1 \/ D = 2 \/ D = 3
    OBVIOUS
  <2> HIDE DEF q, r
  <2> QED
    BY <1>1, <2>1
<1> QED
  BY <1>1, <1>2

\* A place in the queue falls on one day, at one position of it, and the positions
\* before that one are filled from the queue as well.
LEMMA DayOfPlace ==
    ASSUME NEW D \in 1 .. 3, NEW x \in Nat
    PROVE  /\ x \div D \in Nat /\ x % D \in 0 .. D - 1
           /\ \A K \in Nat : x < K * D => x \div D < K
           /\ \A y \in Nat : y \div D = x \div D /\ y % D = x % D => y = x
           /\ \A p \in 0 .. x % D : \E y \in 0 .. x : y \div D = x \div D /\ y % D = p
<1> DEFINE q == x \div D  r == x % D
<1>1. q \in Int /\ r \in 0 .. D - 1 /\ x = D * q + r /\ q >= 0
  <2>1. D = 1 \/ D = 2 \/ D = 3
    OBVIOUS
  <2> QED
    BY <2>1
<1>2. \A K \in Nat : x < K * D => q < K
  <2>1. D = 1 \/ D = 2 \/ D = 3
    OBVIOUS
  <2> HIDE DEF q, r
  <2> QED
    BY <1>1, <2>1
<1>3. \A y \in Nat : y \div D = q /\ y % D = r => y = x
  <2> TAKE y \in Nat
  <2>2. y = D * (y \div D) + (y % D) /\ y \div D \in Int /\ y % D \in Int
    BY Division
  <2> HIDE DEF q, r
  <2> QED
    BY <1>1, <2>2
<1>4. \A p \in 0 .. r : \E y \in 0 .. x : y \div D = q /\ y % D = p
  <2> TAKE p \in 0 .. r
  <2> DEFINE y == x - (r - p)
  <2>1. y \in 0 .. x /\ y = D * q + p /\ p \in 0 .. D - 1
    <3>1. D = 1 \/ D = 2 \/ D = 3
      OBVIOUS
    <3> HIDE DEF q, r
    <3> QED
      BY <1>1, <3>1
  <2> HIDE DEF y, q, r
  <2>2. y \div D = q /\ y % D = p
    <3>1. D = 1 \/ D = 2 \/ D = 3
      OBVIOUS
    <3> QED
      BY <1>1, <2>1, <3>1
  <2> QED
    BY <2>1, <2>2
<1> QED
  BY <1>1, <1>2, <1>3, <1>4

\* A week has no more sessions than its days have places, nor than its minutes
\* allow.
LEMMA SlotsFit ==
    ASSUME intake \in G!Intake, NEW w \in Nat
    PROVE  /\ G!Slots(w) \in Nat
           /\ G!Slots(w) <= Cardinality(G!DrillDays(w)) * G!DailySessions
           /\ G!Slots(w) <= G!Rounded(G!DrillMinutes(w), G!SessionMinutes)
           /\ G!DrillMinutes(w) \in Nat
           /\ G!Rounded(G!DrillMinutes(w), G!SessionMinutes) \in Nat
<1>1. G!WeeklyMinutes \in Nat /\ G!DailySessions \in 1 .. 3
  BY Frame
<1>2. G!DrillMinutes(w) \in Nat
  <2> DEFINE rest == G!WeeklyMinutes - G!MockMinutes
  <2>1. 0 \in Int /\ rest \in Int
    BY <1>1 DEF G!MockMinutes
  <2> HIDE DEF rest
  <2>2. G!Max({0, rest}) = IF 0 <= rest THEN rest ELSE 0
    BY <2>1, TwoMembers
  <2>3. G!Max({0, rest}) \in Nat
    BY <2>1, <2>2
  <2> QED
    BY <1>1, <2>3 DEF G!DrillMinutes, rest
<1> DEFINE m == G!DrillMinutes(w)
           n == G!Rounded(m, G!SessionMinutes)
           k == Cardinality(G!DrillDays(w))
<1>3. n \in Nat
  <2> HIDE DEF m
  <2>1. m \div 45 \in Nat
    BY <1>2 DEF m
  <2> QED
    BY <2>1 DEF G!Rounded, G!SessionMinutes
<1>4. k \in Nat
  BY DaysInPlan, FS_CardinalityType
<1>5. G!Slots(w) = G!Min({n, k * G!DailySessions})
  BY SameSize DEF G!Slots
<1> HIDE DEF n, k
<1>6. k * G!DailySessions \in Nat
  BY <1>1, <1>4
<1>7. G!Slots(w) = IF n <= k * G!DailySessions THEN n ELSE k * G!DailySessions
  BY <1>3, <1>5, <1>6, TwoMembers
<1> QED
  BY <1>2, <1>3, <1>6, <1>7 DEF n, k

\* Those of the tasks Z that drill skill s.
WithSkill(Z, s) == {t \in Z : t.skill = s}

\* The drills of a week: one for each session handed out, and on each of the
\* days the first places, one each.
DrillsOn(Z, days, counts, N) ==
    /\ IsFiniteSet(Z) /\ Cardinality(Z) = N
    /\ \A s \in G!Skills : IsFiniteSet(WithSkill(Z, s)) /\ Cardinality(WithSkill(Z, s)) = counts[s]
    /\ \A t \in Z : /\ t.kind = "drill" /\ t.minutes = G!SessionMinutes /\ t.skill \in G!Skills
                    /\ t.day \in days /\ t.position \in Nat
    /\ \A t, u \in Z : t.day = u.day /\ t.position = u.position => t = u
    /\ \A t \in Z : \A p \in 0 .. t.position :
          \E u \in Z : u.day = t.day /\ u.position = p

\* The drill that stands at x in the queue.
DrillAt(x, day) == G!Task(day, x[1] % G!DailySessions, x[2], "drill", G!SessionMinutes)

\* What such a drill says.
LEMMA DrillFields ==
    ASSUME NEW x, NEW day
    PROVE  /\ DrillAt(x, day).day = day /\ DrillAt(x, day).position = x[1] % G!DailySessions
           /\ DrillAt(x, day).skill = x[2] /\ DrillAt(x, day).kind = "drill"
           /\ DrillAt(x, day).minutes = G!SessionMinutes
BY DEF DrillAt, G!Task

\* What stands at x in the queue is due on that day of D.
OnDay(x, D, day) == x[1] \div G!DailySessions = Rank(D, day)

\* The drills of a week are those of the queue on the days they fall on.
LEMMA DrillsMembers ==
    ASSUME NEW w, NEW counts
    PROVE  /\ \A t \in G!Drills(w, counts) : \E x \in Queue(counts), day \in G!DrillDays(w) :
                OnDay(x, G!DrillDays(w), day) /\ t = DrillAt(x, day)
           /\ \A x \in Queue(counts), day \in G!DrillDays(w) :
                OnDay(x, G!DrillDays(w), day) => DrillAt(x, day) \in G!Drills(w, counts)
<1> DEFINE D == G!DrillDays(w)
           before(day) == G!Cardinality({d \in D : d < day})
           Q == Queue(counts)
<1>1. \A day : before(day) = Rank(D, day)
  BY SameSize DEF Rank
<1>2. G!Drills(w, counts) =
        UNION {{DrillAt(x, day) : x \in {x \in Q : x[1] \div G!DailySessions = before(day)}} : day \in D}
  BY DEF G!Drills, Queue, Order, DrillAt
<1> HIDE DEF D, Q, before
<1>3. G!Drills(w, counts) =
        UNION {{DrillAt(x, day) : x \in {x \in Q : OnDay(x, D, day)}} : day \in D}
  BY <1>1, <1>2 DEF OnDay
<1>4. \A t : t \in G!Drills(w, counts)
               <=> \E day \in D : \E x \in Q : OnDay(x, D, day) /\ t = DrillAt(x, day)
  BY <1>3
<1> QED
  BY <1>4 DEF D, Q

\* The drills of a week are as many as its slots, as many of each skill as it was
\* allotted, and stand from the first place of each day on.
LEMMA DrillsPlaced ==
    ASSUME intake \in G!Intake, NEW w \in Nat, NEW counts \in [G!Skills -> Nat],
           SumsTo(counts, G!Slots(w))
    PROVE  DrillsOn(G!Drills(w, counts), G!DrillDays(w), counts, G!Slots(w))
<1> DEFINE D == G!DrillDays(w)
           Q == Queue(counts)
           Z == G!Drills(w, counts)
           N == G!Slots(w)
           b == G!DailySessions
           K == Cardinality(D)
           F == [x \in Q |-> CHOOSE t \in Z : \E day \in D : OnDay(x, D, day) /\ t = DrillAt(x, day)]
<1>1. D \in SUBSET Int /\ IsFiniteSet(D) /\ K \in Nat
  <2>1. D \subseteq 0 .. G!TestDay
    BY DaysInPlan DEF G!DrillDays
  <2>2. IsFiniteSet(D)
    BY DaysInPlan
  <2> HIDE DEF D
  <2> QED
    BY <2>1, <2>2, FS_CardinalityType
<1>2. b \in 1 .. 3 /\ N \in Nat /\ N <= K * b
  BY Frame, SlotsFit
<1>3. /\ \A x \in Q : x[1] \in 0 .. N - 1 /\ x[2] \in G!Skills
      /\ \A x, y \in Q : x[1] = y[1] => x = y
      /\ IsFiniteSet(Q) /\ Cardinality(Q) = N
      /\ \A p \in 0 .. N - 1 : \E x \in Q : x[1] = p
  BY <1>2, QueueOne, QueueFull
<1>4. \A s \in G!Skills : IsFiniteSet(OfSkill(Q, s)) /\ Cardinality(OfSkill(Q, s)) = counts[s]
  BY QueueOfSkill
<1>5. /\ \A t \in Z : \E x \in Q, day \in D : OnDay(x, D, day) /\ t = DrillAt(x, day)
      /\ \A x \in Q, day \in D : OnDay(x, D, day) => DrillAt(x, day) \in Z
  BY DrillsMembers
<1> HIDE DEF D, Q, Z, N, b, K
<1>6. \A x \in Q : \E day \in D : OnDay(x, D, day)
  <2> TAKE x \in Q
  <2>1. x[1] \in Nat /\ x[1] < K * b
    <3>1. K * b \in Int /\ x[1] \in 0 .. N - 1
      BY <1>1, <1>2, <1>3
    <3> QED
      BY <1>2, <3>1
  <2>2. x[1] \div b \in 0 .. K - 1
    BY <1>1, <1>2, <2>1, DayOfPlace
  <2> QED
    BY <1>1, <2>2, RankOfDays DEF OnDay, b, K
<1>7. \A x \in Q, day, e \in D : OnDay(x, D, day) /\ OnDay(x, D, e) => day = e
  BY <1>1, RankOfDays DEF OnDay
<1>8. \A x, y \in Q, day \in D :
         OnDay(x, D, day) /\ OnDay(y, D, day) /\ x[1] % b = y[1] % b => x = y
  <2> SUFFICES ASSUME NEW x \in Q, NEW y \in Q, NEW day \in D,
                      OnDay(x, D, day), OnDay(y, D, day), x[1] % b = y[1] % b
               PROVE  x = y
    OBVIOUS
  <2>1. x[1] \div b = y[1] \div b
    BY DEF OnDay, b
  <2>2. x[1] \in Nat /\ y[1] \in Nat
    BY <1>2, <1>3
  <2>3. x[1] = y[1]
    BY <1>2, <2>1, <2>2, DayOfPlace
  <2> QED
    BY <1>3, <2>3
<1>9. \A x \in Q : F[x] \in Z /\ \E day \in D : OnDay(x, D, day) /\ F[x] = DrillAt(x, day)
  <2> TAKE x \in Q
  <2>1. \E t \in Z : \E day \in D : OnDay(x, D, day) /\ t = DrillAt(x, day)
    BY <1>5, <1>6
  <2> QED
    BY <2>1
<1>10. F \in [Q -> Z]
  BY <1>9
<1> HIDE DEF F
<1>11. \A x, y \in Q : F[x] = F[y] => x = y
  <2> SUFFICES ASSUME NEW x \in Q, NEW y \in Q, F[x] = F[y] PROVE x = y
    OBVIOUS
  <2>1. PICK day \in D : OnDay(x, D, day) /\ F[x] = DrillAt(x, day)
    BY <1>9
  <2>2. PICK e \in D : OnDay(y, D, e) /\ F[y] = DrillAt(y, e)
    BY <1>9
  <2>3. F[x].day = day /\ F[x].position = x[1] % b
    BY <2>1, DrillFields DEF b
  <2>4. F[y].day = e /\ F[y].position = y[1] % b
    BY <2>2, DrillFields DEF b
  <2>5. day = e /\ x[1] % b = y[1] % b
    BY <2>3, <2>4
  <2> QED
    BY <1>8, <2>1, <2>2, <2>5
<1>12. \A t \in Z : \E x \in Q : F[x] = t
  <2> TAKE t \in Z
  <2>1. PICK x \in Q, day \in D : OnDay(x, D, day) /\ t = DrillAt(x, day)
    BY <1>5
  <2>2. PICK e \in D : OnDay(x, D, e) /\ F[x] = DrillAt(x, e)
    BY <1>9
  <2> QED
    BY <1>7, <2>1, <2>2
<1>13. IsFiniteSet(Z) /\ Cardinality(Z) = N
  <2>1. Pairs(F, Q, Z)
    BY <1>10, <1>11, <1>12 DEF Pairs
  <2> QED
    BY <1>3, <2>1, PairedSize
<1>14. ASSUME NEW s \in G!Skills
       PROVE  IsFiniteSet(WithSkill(Z, s)) /\ Cardinality(WithSkill(Z, s)) = counts[s]
  <2> DEFINE A == OfSkill(Q, s)  B == WithSkill(Z, s)  f == [x \in A |-> F[x]]
  <2>1. \A x \in Q : F[x].skill = x[2]
    BY <1>9, DrillFields
  <2>2. f \in [A -> B] /\ (\A x, y \in A : f[x] = f[y] => x = y) /\ \A t \in B : \E x \in A : f[x] = t
    BY <1>10, <1>11, <1>12, <2>1 DEF OfSkill, WithSkill
  <2> HIDE DEF A, B, f
  <2>3. Pairs(f, A, B)
    BY <2>2 DEF Pairs
  <2>4. IsFiniteSet(A) /\ Cardinality(A) = counts[s]
    BY <1>4 DEF A
  <2> QED
    BY <2>3, <2>4, PairedSize DEF B
<1>15. ASSUME NEW t \in Z
       PROVE  /\ t.kind = "drill" /\ t.minutes = G!SessionMinutes /\ t.skill \in G!Skills
              /\ t.day \in D /\ t.position \in Nat
              /\ \A p \in 0 .. t.position : \E u \in Z : u.day = t.day /\ u.position = p
  <2>1. PICK x \in Q, day \in D : OnDay(x, D, day) /\ t = DrillAt(x, day)
    BY <1>5
  <2>2. x[1] \in 0 .. N - 1 /\ x[1] \in Nat /\ x[2] \in G!Skills
    BY <1>2, <1>3
  <2>3. x[1] % b \in 0 .. b - 1
    BY <1>2, <2>2, DayOfPlace
  <2>4. t.position = x[1] % b /\ t.day = day /\ t.skill = x[2] /\ t.kind = "drill"
        /\ t.minutes = G!SessionMinutes
    BY <2>1, DrillFields DEF b
  <2>5. ASSUME NEW p \in 0 .. x[1] % b PROVE \E u \in Z : u.day = day /\ u.position = p
    <3>1. PICK z \in 0 .. x[1] : z \div b = x[1] \div b /\ z % b = p
      BY <1>2, <2>2, DayOfPlace
    <3>2. z \in 0 .. N - 1
      BY <1>2, <2>2, <3>1
    <3>3. PICK y \in Q : y[1] = z
      BY <1>3, <3>2
    <3>4. OnDay(y, D, day)
      BY <2>1, <3>1, <3>3 DEF OnDay, b
    <3>5. DrillAt(y, day) \in Z /\ DrillAt(y, day).day = day /\ DrillAt(y, day).position = p
      BY <1>5, <3>1, <3>3, <3>4, DrillFields DEF b
    <3> QED
      BY <3>5
  <2>6. t.position \in Nat
    BY <1>2, <2>3, <2>4
  <2> QED
    BY <2>2, <2>4, <2>5, <2>6
<1>16. \A t, u \in Z : t.day = u.day /\ t.position = u.position => t = u
  <2> SUFFICES ASSUME NEW t \in Z, NEW u \in Z, t.day = u.day, t.position = u.position PROVE t = u
    OBVIOUS
  <2>1. PICK x \in Q, day \in D : OnDay(x, D, day) /\ t = DrillAt(x, day)
    BY <1>5
  <2>2. PICK y \in Q, e \in D : OnDay(y, D, e) /\ u = DrillAt(y, e)
    BY <1>5
  <2>3. day = e /\ x[1] % b = y[1] % b
    BY <2>1, <2>2, DrillFields DEF b
  <2> QED
    BY <1>8, <2>1, <2>2, <2>3
<1>17. DrillsOn(Z, D, counts, N)
  BY <1>13, <1>14, <1>15, <1>16 DEF DrillsOn
<1> QED
  BY <1>17 DEF D, Z, N

-----------------------------------------------------------------------------
(* The weeks of a plan.                                                      *)

\* The weeks of a plan do not overlap, and its study days lie before its last
\* three.
LEMMA WeeksApart ==
    ASSUME intake \in G!Intake, NEW v \in Nat
    PROVE  /\ G!DaysOf(v) \subseteq 7 * v .. 7 * v + 6
           /\ \A w \in Nat : w # v => G!DaysOf(w) \cap G!DaysOf(v) = {}
           /\ G!StudyDays(v) \subseteq G!DaysOf(v)
           /\ G!DrillDays(v) \subseteq G!StudyDays(v)
           /\ \A d \in G!StudyDays(v) : d \in Int /\ d < G!TaperStart
<1>1. \A w \in Nat : G!DaysOf(w) \subseteq 7 * w .. 7 * w + 6
  <2> TAKE w \in Nat
  <2>1. 7 * w + 6 \in Int /\ G!TestDay \in Int
    BY Frame
  <2>2. G!Min({7 * w + 6, G!TestDay}) \in Int /\ G!Min({7 * w + 6, G!TestDay}) <= 7 * w + 6
    BY <2>1, TwoMembers
  <2> QED
    BY <2>2 DEF G!DaysOf
<1>2. \A w \in Nat : w # v => G!DaysOf(w) \cap G!DaysOf(v) = {}
  <2> SUFFICES ASSUME NEW w \in Nat, w # v, NEW d \in G!DaysOf(w), d \in G!DaysOf(v) PROVE FALSE
    OBVIOUS
  <2>1. d \in 7 * w .. 7 * w + 6 /\ d \in 7 * v .. 7 * v + 6
    BY <1>1
  <2> QED
    BY <2>1
<1>3. G!StudyDays(v) \subseteq G!DaysOf(v) /\ G!DrillDays(v) \subseteq G!StudyDays(v)
      /\ \A d \in G!StudyDays(v) : d < G!TaperStart
  BY DEF G!StudyDays, G!DrillDays
<1>4. \A d \in G!StudyDays(v) : d \in Int
  <2> TAKE d \in G!StudyDays(v)
  <2>1. d \in 7 * v .. 7 * v + 6
    BY <1>1, <1>3
  <2> QED
    BY <2>1
<1> QED
  BY <1>1, <1>2, <1>3, <1>4

\* A mock is held on a study day, which takes no drills.
LEMMA MockOnStudyDay ==
    ASSUME intake \in G!Intake, NEW w \in Nat, NEW t \in G!Mock(w)
    PROVE  /\ G!MockDay(w) # None /\ t = G!Task(G!MockDay(w), 0, None, "mock", G!MockMinutes)
           /\ G!MockDay(w) \in G!StudyDays(w) /\ G!MockDay(w) \notin G!DrillDays(w)
<1>1. G!MockDay(w) # None /\ t = G!Task(G!MockDay(w), 0, None, "mock", G!MockMinutes)
  BY DEF G!Mock
<1>2. G!MockDay(w) \in G!StudyDays(w)
  BY <1>1, MockInPlan
<1> QED
  BY <1>1, <1>2 DEF G!DrillDays

\* What is made for an intake depends on nothing else.
LEMMA SameIntake ==
    ASSUME intake' = intake
    PROVE  /\ G!TestDay' = G!TestDay /\ G!TaperStart' = G!TaperStart
           /\ \A w : G!DaysOf(w)' = G!DaysOf(w)
           /\ \A w : G!StudyDays(w)' = G!StudyDays(w)
           /\ \A w : G!DrillDays(w)' = G!DrillDays(w)
           /\ \A w : G!MockDay(w)' = G!MockDay(w)
           /\ \A w : G!Mock(w)' = G!Mock(w)
           /\ \A w : G!Slots(w)' = G!Slots(w)
           /\ G!TotalWeight' = G!TotalWeight
           /\ G!WeeklyMinutes' = G!WeeklyMinutes
<1>1. G!TestDay' = G!TestDay /\ G!WeeklyMinutes' = G!WeeklyMinutes /\ G!TotalWeight' = G!TotalWeight
  BY DEF G!TestDay, G!WeeklyMinutes, G!TotalWeight
<1>2. G!TaperStart' = G!TaperStart /\ \A w : G!DaysOf(w)' = G!DaysOf(w)
  BY <1>1 DEF G!TaperStart, G!DaysOf
<1>3. G!SessionsPerWeek' = G!SessionsPerWeek
  BY <1>1 DEF G!SessionsPerWeek
<1>4. G!StudyDayCount' = G!StudyDayCount
  BY <1>3 DEF G!StudyDayCount
<1>5. G!DailySessions' = G!DailySessions
  BY <1>3, <1>4 DEF G!DailySessions
<1>6. \A w : G!StudyDays(w)' = G!StudyDays(w)
  BY <1>2, <1>4 DEF G!StudyDays
<1>7. \A w : G!MockDay(w)' = G!MockDay(w)
  BY <1>1, <1>6 DEF G!MockDay
<1>8. \A w : G!DrillDays(w)' = G!DrillDays(w)
  BY <1>6, <1>7 DEF G!DrillDays
<1>9. \A w : G!DrillMinutes(w)' = G!DrillMinutes(w)
  BY <1>1, <1>7 DEF G!DrillMinutes
<1>10. \A w : G!Slots(w)' = G!Slots(w)
  BY <1>5, <1>8, <1>9 DEF G!Slots
<1>11. \A w : G!Mock(w)' = G!Mock(w)
  BY <1>7 DEF G!Mock
<1> QED
  BY <1>1, <1>2, <1>6, <1>7, <1>8, <1>10, <1>11

-----------------------------------------------------------------------------
(* What has been made so far.                                                *)

\* The drills of a set of tasks.
DrillTasks(S) == {t \in S : t.kind = "drill"}

\* The drills and the mock of week v.
StudyOn(S, v) == {t \in S : t.day \in G!DaysOf(v) /\ t.kind \in {"drill", "mock"}}

\* The tasks of a set that are neither drill nor mock.
TaperTasks(S) == {t \in S : t.kind \notin {"drill", "mock"}}

\* What a week has been given: its drills and its mock.
WeekMade(I, v) ==
    \E Z : /\ I = Z \cup G!Mock(v)
           /\ \E counts \in [G!Skills -> Nat] : DrillsOn(Z, G!DrillDays(v), counts, G!Slots(v))

\* The last days' tasks.
TaperMade(L) ==
    \E s1, s2 \in G!Skills :
        L = {G!Task(G!TaperStart, 0, s1, "review", 30),
             G!Task(G!TaperStart + 1, 0, s2, "review", 30),
             G!Task(G!TestDay, 0, None, "exam", 0)}

\* Each skill's drills are its share of all of them, less what it is owed.
SharesKept(Z, c) ==
    /\ IsFiniteSet(Z)
    /\ \A s \in G!Skills :
          /\ IsFiniteSet(WithSkill(Z, s))
          /\ G!TotalWeight * Cardinality(WithSkill(Z, s))
                = Cardinality(Z) * intake.weights[s] - c[s]

\* Each week so far has been made, there is no study but theirs, and nothing else
\* before the last days are made.
WeeksMade ==
    /\ \A v \in 0 .. week - 1 : WeekMade(StudyOn(tasks, v), v)
    /\ \A t \in tasks : t.kind \in {"drill", "mock"} => \E v \in 0 .. week - 1 : t \in StudyOn(tasks, v)
    /\ TaperTasks(tasks) # {} => TaperMade(TaperTasks(tasks)) /\ finished

\* The inductive invariant of the generator: the credits are in order, each skill
\* has its share but for its credit, and the weeks so far are made.
PlanInv ==
    /\ intake \in G!Intake /\ week \in Nat /\ credit \in [G!Skills -> Int]
    /\ CreditsOK(credit, intake.weights, G!TotalWeight)
    /\ SharesKept(DrillTasks(tasks), credit)
    /\ WeeksMade

\* The days and kinds of what a week is given.
LEMMA WeekMadeOn ==
    ASSUME intake \in G!Intake, NEW v \in Nat, NEW I, WeekMade(I, v), NEW t \in I
    PROVE  t.day \in G!StudyDays(v) /\ t.day \in G!DaysOf(v) /\ t.kind \in {"drill", "mock"}
<1>1. PICK Z : I = Z \cup G!Mock(v)
               /\ \E counts \in [G!Skills -> Nat] : DrillsOn(Z, G!DrillDays(v), counts, G!Slots(v))
  BY DEF WeekMade
<1>2. CASE t \in Z
  <2>1. t.day \in G!DrillDays(v) /\ t.kind = "drill"
    BY <1>1, <1>2 DEF DrillsOn
  <2> QED
    BY <2>1, WeeksApart
<1>3. CASE t \in G!Mock(v)
  <2>1. t.day = G!MockDay(v) /\ t.kind = "mock" /\ G!MockDay(v) \in G!StudyDays(v)
    BY <1>3, MockOnStudyDay DEF G!Task
  <2> QED
    BY <2>1, WeeksApart
<1> QED
  BY <1>1, <1>2, <1>3

\* A week is added to the plan.
LEMMA WeekAdded ==
    ASSUME PlanInv, NEW I, WeekMade(I, week), tasks' = tasks \cup I, week' = week + 1,
           UNCHANGED <<intake, finished>>
    PROVE  /\ WeeksMade'
           /\ DrillTasks(tasks)' = DrillTasks(tasks) \cup DrillTasks(I)
           /\ DrillTasks(tasks) \cap DrillTasks(I) = {}
<1>0. /\ intake \in G!Intake /\ week \in Nat /\ WeeksMade
  BY DEF PlanInv
<1>s. /\ \A v : G!DaysOf(v)' = G!DaysOf(v) /\ G!DrillDays(v)' = G!DrillDays(v)
      /\ \A v : G!Mock(v)' = G!Mock(v) /\ G!Slots(v)' = G!Slots(v)
      /\ G!TaperStart' = G!TaperStart /\ G!TestDay' = G!TestDay
  BY SameIntake
<1>1. \A t \in I : t.day \in G!DaysOf(week) /\ t.kind \in {"drill", "mock"}
  BY <1>0, WeekMadeOn
<1>2. \A t \in tasks : t.kind \in {"drill", "mock"} => t.day \notin G!DaysOf(week)
  <2> SUFFICES ASSUME NEW t \in tasks, t.kind \in {"drill", "mock"}, t.day \in G!DaysOf(week)
               PROVE  FALSE
    OBVIOUS
  <2>1. PICK v \in 0 .. week - 1 : t \in StudyOn(tasks, v)
    BY <1>0 DEF WeeksMade
  <2>2. v \in Nat /\ v # week
    BY <1>0
  <2> QED
    BY <1>0, <2>1, <2>2, WeeksApart DEF StudyOn
<1>3. StudyOn(tasks', week) = I
  BY <1>1, <1>2 DEF StudyOn
<1>4. \A v \in 0 .. week - 1 : StudyOn(tasks', v) = StudyOn(tasks, v)
  <2> TAKE v \in 0 .. week - 1
  <2>1. v \in Nat /\ v # week
    BY <1>0
  <2>2. \A t \in I : t.day \notin G!DaysOf(v)
    BY <1>0, <1>1, <2>1, WeeksApart
  <2> QED
    BY <2>2 DEF StudyOn
<1>5. \A v \in 0 .. week : WeekMade(StudyOn(tasks', v), v)
  <2> TAKE v \in 0 .. week
  <2>1. v = week \/ v \in 0 .. week - 1
    BY <1>0
  <2> QED
    BY <1>0, <1>3, <1>4, <2>1 DEF WeeksMade
<1>6. \A t \in tasks' : t.kind \in {"drill", "mock"} => \E v \in 0 .. week : t \in StudyOn(tasks', v)
  <2> SUFFICES ASSUME NEW t \in tasks', t.kind \in {"drill", "mock"}
               PROVE  \E v \in 0 .. week : t \in StudyOn(tasks', v)
    OBVIOUS
  <2>1. week \in 0 .. week /\ \A v \in 0 .. week - 1 : v \in 0 .. week
    BY <1>0
  <2>2. CASE t \in I
    BY <1>3, <2>1, <2>2
  <2>3. CASE t \in tasks
    <3>1. PICK v \in 0 .. week - 1 : t \in StudyOn(tasks, v)
      BY <1>0, <2>3 DEF WeeksMade
    <3> QED
      BY <1>4, <2>1, <3>1
  <2> QED
    BY <2>2, <2>3
<1>7. TaperTasks(tasks') = TaperTasks(tasks)
  BY <1>1 DEF TaperTasks
<1>8. 0 .. week' - 1 = 0 .. week
  BY <1>0
<1>9. \A S, v : /\ StudyOn(S, v)' = StudyOn(S', v)
                /\ WeekMade(S, v)' = WeekMade(S', v) /\ TaperMade(S)' = TaperMade(S')
  BY <1>s DEF StudyOn, WeekMade, TaperMade, DrillsOn
<1>10. WeeksMade'
  BY <1>0, <1>5, <1>6, <1>7, <1>8, <1>9 DEF WeeksMade
<1>11. DrillTasks(tasks)' = DrillTasks(tasks) \cup DrillTasks(I)
  BY DEF DrillTasks
<1>12. DrillTasks(tasks) \cap DrillTasks(I) = {}
  BY <1>1, <1>2 DEF DrillTasks
<1> QED
  BY <1>10, <1>11, <1>12

-----------------------------------------------------------------------------
(* The steps of generate_plan.                                               *)

\* The size of two sets that do not overlap.
LEMMA TwoSets ==
    ASSUME NEW X, NEW Y, IsFiniteSet(X), IsFiniteSet(Y), X \cap Y = {}
    PROVE  /\ IsFiniteSet(X \cup Y) /\ Cardinality(X \cup Y) = Cardinality(X) + Cardinality(Y)
           /\ Cardinality(X) \in Nat /\ Cardinality(Y) \in Nat
<1>1. Cardinality(X) \in Nat /\ Cardinality(Y) \in Nat
  BY FS_CardinalityType
<1>2. Cardinality(X \cap Y) = 0
  BY FS_EmptySet
<1>3. /\ IsFiniteSet(X \cup Y)
      /\ Cardinality(X \cup Y) = Cardinality(X) + Cardinality(Y) - Cardinality(X \cap Y)
  BY FS_Union
<1> QED
  BY <1>1, <1>2, <1>3

\* The mock is no drill.
LEMMA DrillsOfWeek ==
    ASSUME NEW Z, NEW v, NEW D, NEW counts, NEW N, DrillsOn(Z, D, counts, N)
    PROVE  DrillTasks(Z \cup G!Mock(v)) = Z
<1>1. \A t \in G!Mock(v) : t.kind = "mock"
  BY DEF G!Mock, G!Task
<1>2. \A t \in Z : t.kind = "drill"
  BY DEF DrillsOn
<1> QED
  BY <1>1, <1>2 DEF DrillTasks

\* The shares go on being kept when a week's slots are handed out.
LEMMA SharesGoOn ==
    ASSUME intake \in G!Intake, credit \in [G!Skills -> Int], NEW Y, SharesKept(Y, credit),
           NEW Z, NEW D, NEW N \in Nat, NEW share, ShareOK(N, credit, share),
           DrillsOn(Z, D, share.counts, N), Y \cap Z = {}
    PROVE  SharesKept(Y \cup Z, share.credit)
<1> DEFINE T == G!TotalWeight  w == intake.weights
<1>0. T \in Nat /\ w \in [G!Skills -> 2 .. 20]
  BY WeightSums
<1>1. IsFiniteSet(Y) /\ IsFiniteSet(Z) /\ Cardinality(Z) = N
  BY DEF SharesKept, DrillsOn
<1>2. /\ IsFiniteSet(Y \cup Z) /\ Cardinality(Y \cup Z) = Cardinality(Y) + N
      /\ Cardinality(Y) \in Nat
  BY <1>1, TwoSets
<1>3. ASSUME NEW s \in G!Skills
      PROVE  /\ IsFiniteSet(WithSkill(Y \cup Z, s))
             /\ T * Cardinality(WithSkill(Y \cup Z, s)) = Cardinality(Y \cup Z) * w[s] - share.credit[s]
  <2> DEFINE A == WithSkill(Y, s)  B == WithSkill(Z, s)
  <2>1. /\ IsFiniteSet(A) /\ IsFiniteSet(B) /\ Cardinality(B) = share.counts[s]
        /\ T * Cardinality(A) = Cardinality(Y) * w[s] - credit[s]
    BY DEF SharesKept, DrillsOn
  <2>2. A \cap B = {} /\ WithSkill(Y \cup Z, s) = A \cup B
    BY DEF WithSkill
  <2> HIDE DEF A, B
  <2>3. /\ IsFiniteSet(A \cup B) /\ Cardinality(A \cup B) = Cardinality(A) + Cardinality(B)
        /\ Cardinality(A) \in Nat
    BY <2>1, <2>2, TwoSets
  <2>4. /\ share.counts[s] * T = credit[s] + N * w[s] - share.credit[s]
        /\ share.counts[s] \in Nat /\ share.credit[s] \in Int
    BY DEF ShareOK
  <2> DEFINE a == Cardinality(A)  k == share.counts[s]  y == Cardinality(Y)  c == credit[s]
             e == share.credit[s]  x == w[s]
  <2>5. a \in Nat /\ k \in Nat /\ y \in Nat /\ c \in Int /\ e \in Int /\ x \in Int
        /\ T * a = y * x - c /\ k * T = c + N * x - e
    BY <1>0, <1>2, <2>1, <2>3, <2>4
  <2> HIDE DEF a, k, y, c, e, x, T, w
  <2>6. T * (a + k) = (y + N) * x - e
    <3>1. T * (a + k) = T * a + k * T /\ (y + N) * x = y * x + N * x
      BY <1>0, <2>5
    <3>2. T * a \in Int /\ k * T \in Int /\ y * x \in Int /\ N * x \in Int
      BY <1>0, <2>5
    <3> QED
      BY <2>5, <3>1, <3>2
  <2>7. Cardinality(WithSkill(Y \cup Z, s)) = a + k /\ Cardinality(Y \cup Z) = y + N
    BY <1>2, <2>1, <2>2, <2>3 DEF a, k, y
  <2>8. T * Cardinality(WithSkill(Y \cup Z, s)) = Cardinality(Y \cup Z) * w[s] - share.credit[s]
    BY <2>6, <2>7 DEF x, e
  <2> QED
    BY <2>2, <2>3, <2>8
<1> QED
  BY <1>2, <1>3 DEF SharesKept

\* A week without a study day is given nothing.
LEMMA WeekOff ==
    ASSUME intake \in G!Intake, NEW v \in Nat, G!StudyDays(v) = {}
    PROVE  WeekMade({}, v) /\ G!Slots(v) = 0 /\ G!Mock(v) = {}
<1>1. G!DrillDays(v) = {} /\ G!MockDay(v) = None
  <2>1. Cardinality(G!StudyDays(v)) = 0
    BY FS_EmptySet
  <2> QED
    BY <2>1, SameSize DEF G!MockDay, G!DrillDays
<1>2. G!Slots(v) = 0
  <2>1. Cardinality(G!DrillDays(v)) = 0 /\ G!DailySessions \in Nat
    BY <1>1, Frame, FS_EmptySet
  <2>2. G!Slots(v) \in Nat /\ G!Slots(v) <= Cardinality(G!DrillDays(v)) * G!DailySessions
    BY SlotsFit
  <2> QED
    BY <2>1, <2>2
<1>3. G!Mock(v) = {}
  BY <1>1 DEF G!Mock
<1> DEFINE counts == [s \in G!Skills |-> 0]
<1>4. counts \in [G!Skills -> Nat] /\ \A s \in G!Skills : counts[s] = 0
  OBVIOUS
<1> HIDE DEF counts
<1>5. DrillsOn({}, G!DrillDays(v), counts, G!Slots(v))
  <2>1. \A s : WithSkill({}, s) = {}
    BY DEF WithSkill
  <2> QED
    BY <1>2, <1>4, <2>1, FS_EmptySet DEF DrillsOn
<1> QED
  BY <1>2, <1>3, <1>4, <1>5 DEF WeekMade

\* A turn of the loop of generate_plan keeps the invariant.
LEMMA WeekStep == ASSUME PlanInv, G!Week PROVE PlanInv'
<1>0. /\ intake \in G!Intake /\ week \in Nat /\ credit \in [G!Skills -> Int]
      /\ CreditsOK(credit, intake.weights, G!TotalWeight)
      /\ SharesKept(DrillTasks(tasks), credit)
  BY DEF PlanInv
<1>1. week' = week + 1 /\ UNCHANGED <<intake, finished>>
  BY DEF G!Week
<1>2. G!TotalWeight' = G!TotalWeight
  BY <1>1, SameIntake
<1>3. ASSUME NEW I, WeekMade(I, week), tasks' = tasks \cup I, credit' \in [G!Skills -> Int],
             CreditsOK(credit', intake.weights, G!TotalWeight),
             SharesKept(DrillTasks(tasks) \cup DrillTasks(I), credit')
      PROVE  PlanInv'
  <2>1. WeeksMade' /\ DrillTasks(tasks)' = DrillTasks(tasks) \cup DrillTasks(I)
    BY <1>1, <1>3, WeekAdded
  <2>2. \A S, c : SharesKept(S, c)' = SharesKept(S', c')
    BY <1>1, <1>2 DEF SharesKept
  <2>3. CreditsOK(credit, intake.weights, G!TotalWeight)'
    BY <1>1, <1>2, <1>3 DEF CreditsOK, SumsTo, SumIs, Four, FourOf, Owed, OwedTogether, Balanced, G!Skills
  <2>4. intake' \in G!Intake' /\ week' \in Nat /\ credit' \in [G!Skills' -> Int]
    BY <1>0, <1>1, <1>3 DEF G!Intake, G!Skills
  <2>5. SharesKept(DrillTasks(tasks), credit)'
    BY <1>3, <2>1, <2>2
  <2> QED
    BY <2>1, <2>3, <2>4, <2>5 DEF PlanInv
<1>4. CASE G!StudyDays(week) = {}
  <2>1. UNCHANGED <<credit, tasks>>
    BY <1>4 DEF G!Week
  <2>2. WeekMade({}, week) /\ tasks' = tasks \cup {} /\ DrillTasks(tasks) \cup DrillTasks({}) = DrillTasks(tasks)
    BY <1>0, <1>4, <2>1, WeekOff DEF DrillTasks
  <2>3. credit' = credit
    BY <2>1
  <2> QED
    BY <1>0, <1>3, <2>2, <2>3
<1>5. CASE G!StudyDays(week) # {}
  <2>1. PICK share \in G!Allocations(G!Slots(week)) :
          /\ credit' = share.credit
          /\ tasks' = tasks \cup G!Drills(week, share.counts) \cup G!Mock(week)
    BY <1>5 DEF G!Week
  <2>2. G!Slots(week) \in Nat
    BY <1>0, SlotsFit
  <2>3. ShareOK(G!Slots(week), credit, share)
    BY <1>0, <2>2, AllocationsOK
  <2>4. /\ share.counts \in [G!Skills -> Nat] /\ SumsTo(share.counts, G!Slots(week))
        /\ share.credit \in [G!Skills -> Int]
        /\ CreditsOK(share.credit, intake.weights, G!TotalWeight)
    BY <2>3 DEF ShareOK
  <2> DEFINE Z == G!Drills(week, share.counts)
             I == Z \cup G!Mock(week)
  <2>5. DrillsOn(Z, G!DrillDays(week), share.counts, G!Slots(week))
    BY <1>0, <2>4, DrillsPlaced
  <2> HIDE DEF Z
  <2>6. WeekMade(I, week)
    BY <2>4, <2>5 DEF WeekMade
  <2>7. tasks' = tasks \cup I
    BY <2>1 DEF Z
  <2>8. DrillTasks(I) = Z
    BY <2>5, DrillsOfWeek
  <2> HIDE DEF I
  <2>9. DrillTasks(tasks) \cap Z = {}
    BY <1>1, <2>6, <2>7, <2>8, WeekAdded
  <2>10. SharesKept(DrillTasks(tasks) \cup Z, share.credit)
    BY <1>0, <2>2, <2>3, <2>5, <2>9, SharesGoOn
  <2> QED
    BY <1>3, <2>1, <2>4, <2>6, <2>7, <2>8, <2>10
<1> QED
  BY <1>4, <1>5

\* So does the taper.
LEMMA TaperStep == ASSUME PlanInv, G!Taper PROVE PlanInv'
<1>0. /\ intake \in G!Intake /\ week \in Nat /\ WeeksMade
  BY DEF PlanInv
<1>1. /\ UNCHANGED <<intake, week, credit>> /\ finished' = TRUE /\ ~ finished
  BY DEF G!Taper
<1>2. PICK L : tasks' = tasks \cup L /\ TaperMade(L)
  <2>1. PICK s1 \in G!Skills, s2 \in G!Skills :
          tasks' = tasks \cup {G!Task(G!TaperStart, 0, s1, "review", 30),
                               G!Task(G!TaperStart + 1, 0, s2, "review", 30),
                               G!Task(G!TestDay, 0, None, "exam", 0)}
    BY DEF G!Taper, G!Weakest
  <2> QED
    BY <2>1 DEF TaperMade
<1>3. \A t \in L : t.kind \notin {"drill", "mock"}
  BY <1>2 DEF TaperMade, G!Task
<1>4. TaperTasks(tasks) = {}
  BY <1>0, <1>1 DEF WeeksMade
<1>5. TaperTasks(tasks') = L
  BY <1>2, <1>3, <1>4 DEF TaperTasks
<1>6. DrillTasks(tasks') = DrillTasks(tasks) /\ \A v : StudyOn(tasks', v) = StudyOn(tasks, v)
  BY <1>2, <1>3 DEF DrillTasks, StudyOn
<1>7. /\ \A v : G!DaysOf(v)' = G!DaysOf(v) /\ G!DrillDays(v)' = G!DrillDays(v)
      /\ \A v : G!Mock(v)' = G!Mock(v) /\ G!Slots(v)' = G!Slots(v)
      /\ G!TaperStart' = G!TaperStart /\ G!TestDay' = G!TestDay /\ G!TotalWeight' = G!TotalWeight
  BY <1>1, SameIntake
<1>8. \A S, v : /\ StudyOn(S, v)' = StudyOn(S', v)
                /\ WeekMade(S, v)' = WeekMade(S', v) /\ TaperMade(S)' = TaperMade(S')
  BY <1>7 DEF StudyOn, WeekMade, TaperMade, DrillsOn
<1>9. WeeksMade'
  <2>1. \A t \in tasks' : t.kind \in {"drill", "mock"} => t \in tasks
    BY <1>2, <1>3
  <2>2. \A t \in tasks' : t.kind \in {"drill", "mock"} => \E v \in 0 .. week - 1 : t \in StudyOn(tasks, v)
    BY <1>0, <2>1 DEF WeeksMade
  <2>3. TaperTasks(tasks)' = L
    BY <1>5 DEF TaperTasks
  <2> QED
    BY <1>0, <1>1, <1>2, <1>6, <1>8, <2>2, <2>3 DEF WeeksMade
<1>10. \A S, c : SharesKept(S, c)' = SharesKept(S', c')
  BY <1>1, <1>7 DEF SharesKept
<1>11. DrillTasks(tasks)' = DrillTasks(tasks')
  BY DEF DrillTasks
<1>12. CreditsOK(credit, intake.weights, G!TotalWeight)'
  BY <1>1, <1>7 DEF PlanInv, CreditsOK, SumsTo, SumIs, Four, FourOf, Owed, OwedTogether, Balanced, G!Skills
<1>13. intake' \in G!Intake' /\ week' \in Nat /\ credit' \in [G!Skills' -> Int]
  BY <1>1 DEF PlanInv, G!Intake, G!Skills
<1>14. SharesKept(DrillTasks(tasks), credit)'
  BY <1>1, <1>6, <1>10, <1>11 DEF PlanInv
<1> QED
  BY <1>9, <1>12, <1>13, <1>14 DEF PlanInv

\* Before the first week nothing is owed.
LEMMA NothingOwed ==
    ASSUME intake \in G!Intake, NEW c, c = [s \in G!Skills |-> 0]
    PROVE  CreditsOK(c, intake.weights, G!TotalWeight)
<1> DEFINE T == G!TotalWeight  w == intake.weights
<1>0. w \in [G!Skills -> 2 .. 20] /\ T \in Nat \ {0}
  BY WeightSums
<1>1. \A s \in G!Skills : c[s] = 0
  OBVIOUS
<1>2. SumsTo(c, 0)
  BY <1>1, FourAnyOrder DEF SumsTo, SumIs
<1> HIDE DEF T, w
<1>3. \A s \in G!Skills : Owed(c[s], T)
  BY <1>0, <1>1 DEF Owed
<1>4. ASSUME NEW a \in 2 .. 20, NEW b \in 2 .. 20 PROVE OwedTogether(0, 0, a, b, T)
  <2>1. T * b >= 0 /\ T * a >= 0 /\ T * b \in Int /\ T * a \in Int
    BY <1>0
  <2>2. b * (4 * 0 - T) = -(T * b) /\ a * (4 * 0 + 3 * T) = 3 * (T * a)
    BY <1>0
  <2>3. b * (4 * 0 - T) <= a * (4 * 0 + 3 * T)
    BY <2>1, <2>2
  <2> QED
    BY <1>0, <2>3 DEF OwedTogether, Balanced
<1>5. \A s, t \in G!Skills : OwedTogether(c[s], c[t], w[s], w[t], T)
  BY <1>0, <1>1, <1>4
<1> QED
  BY <1>2, <1>3, <1>5 DEF CreditsOK, T, w

\* The invariant holds of a plan that has no week yet.
LEMMA PlanStarts == ASSUME G!Init PROVE PlanInv
<1>0. /\ intake \in G!Intake /\ week = 0 /\ credit = [s \in G!Skills |-> 0]
      /\ tasks = {}
  BY DEF G!Init
<1>1. CreditsOK(credit, intake.weights, G!TotalWeight)
  BY <1>0, NothingOwed
<1>2. DrillTasks(tasks) = {} /\ \A s : WithSkill({}, s) = {}
  BY <1>0 DEF DrillTasks, WithSkill
<1>3. SharesKept(DrillTasks(tasks), credit)
  <2>1. IsFiniteSet({}) /\ Cardinality({}) = 0
    BY FS_EmptySet
  <2>2. ASSUME NEW s \in G!Skills
        PROVE  G!TotalWeight * 0 = 0 * intake.weights[s] - credit[s]
    <3>1. intake.weights[s] \in Int /\ G!TotalWeight \in Int /\ credit[s] = 0
      BY <1>0, WeightSums
    <3> QED
      BY <3>1
  <2> QED
    BY <1>2, <2>1, <2>2 DEF SharesKept
<1>4. WeeksMade
  <2>1. 0 .. week - 1 = {} /\ TaperTasks(tasks) = {}
    BY <1>0 DEF TaperTasks
  <2>2. \A v \in 0 .. week - 1 : WeekMade(StudyOn(tasks, v), v)
    BY <2>1
  <2>3. \A t \in tasks : t.kind \in {"drill", "mock"} => \E v \in 0 .. week - 1 : t \in StudyOn(tasks, v)
    BY <1>0
  <2> QED
    BY <2>1, <2>2, <2>3 DEF WeeksMade
<1>5. week \in Nat /\ credit \in [G!Skills -> Int]
  BY <1>0
<1> QED
  BY <1>0, <1>1, <1>3, <1>4, <1>5 DEF PlanInv

\* It holds while the generator rests.
LEMMA PlanRests == ASSUME PlanInv, UNCHANGED planVars PROVE PlanInv'
<1>0. intake' = intake /\ week' = week /\ credit' = credit /\ tasks' = tasks /\ finished' = finished
  BY DEF planVars
<1>1. /\ \A v : G!DaysOf(v)' = G!DaysOf(v) /\ G!DrillDays(v)' = G!DrillDays(v)
      /\ \A v : G!Mock(v)' = G!Mock(v) /\ G!Slots(v)' = G!Slots(v)
      /\ G!TaperStart' = G!TaperStart /\ G!TestDay' = G!TestDay /\ G!TotalWeight' = G!TotalWeight
  BY <1>0, SameIntake
<1>2. \A S, v : /\ StudyOn(S, v)' = StudyOn(S', v)
                /\ WeekMade(S, v)' = WeekMade(S', v) /\ TaperMade(S)' = TaperMade(S')
                /\ TaperTasks(S)' = TaperTasks(S') /\ DrillTasks(S)' = DrillTasks(S')
  BY <1>1 DEF StudyOn, WeekMade, TaperMade, DrillsOn, TaperTasks, DrillTasks
<1>3. WeeksMade'
  BY <1>0, <1>2 DEF WeeksMade, PlanInv
<1>4. \A S, c : SharesKept(S, c)' = SharesKept(S', c')
  BY <1>0, <1>1 DEF SharesKept
<1>5. CreditsOK(credit, intake.weights, G!TotalWeight)'
  BY <1>0, <1>1 DEF PlanInv, CreditsOK, SumsTo, SumIs, Four, FourOf, Owed, OwedTogether, Balanced, G!Skills
<1>6. intake' \in G!Intake' /\ week' \in Nat /\ credit' \in [G!Skills' -> Int]
  BY <1>0 DEF PlanInv, G!Intake, G!Skills
<1>7. SharesKept(DrillTasks(tasks), credit)'
  BY <1>0, <1>2, <1>4 DEF PlanInv
<1> QED
  BY <1>3, <1>5, <1>6, <1>7 DEF PlanInv

\* Whatever the intake, the credits that _allocate carries from week to week stay
\* within a session, and the plan holds exactly what its weeks were allotted.
THEOREM PlanInductive == MCSpec => []PlanInv
<1>1. MCInit => PlanInv
  BY PlanStarts DEF MCInit, GeneratorInit
<1>2. PlanInv /\ [MCNext]_<<moving, vars, planVars>> => PlanInv'
  <2> SUFFICES ASSUME PlanInv, [MCNext]_<<moving, vars, planVars>> PROVE PlanInv'
    OBVIOUS
  <2>1. UNCHANGED planVars => PlanInv'
    BY PlanRests
  <2>2. G!Next => PlanInv'
    BY WeekStep, TaperStep DEF G!Next
  <2> QED
    BY <2>1, <2>2 DEF MCNext
<1> QED
  BY <1>1, <1>2, PTL DEF MCSpec

-----------------------------------------------------------------------------
(* Every skill has its share.                                                *)

\* What a skill is owed is what it falls short of its share.
LEMMA SharesHold == PlanInv => G!NobodyStarves
<1> SUFFICES ASSUME PlanInv, NEW s \in G!Skills
             PROVE  intake.weights[s] * G!Cardinality(G!Drilled)
                      - G!Cardinality({t \in G!Drilled : t.skill = s}) * G!TotalWeight
                        \in (1 - G!TotalWeight) .. (G!TotalWeight - 1)
  BY DEF G!NobodyStarves
<1> DEFINE D == DrillTasks(tasks)  n == Cardinality(D)  k == Cardinality(WithSkill(D, s))
           T == G!TotalWeight  x == intake.weights[s]  c == credit[s]
<1>1. G!Cardinality(G!Drilled) = n /\ G!Cardinality({t \in G!Drilled : t.skill = s}) = k
  BY SameSize DEF G!Drilled, DrillTasks, WithSkill
<1>2. T \in Nat \ {0} /\ x \in Int /\ c \in Int
  BY WeightSums DEF PlanInv
<1>3. n \in Nat /\ k \in Nat /\ T * k = n * x - c
  BY FS_CardinalityType DEF PlanInv, SharesKept
<1>4. c > -T /\ c < T
  BY DEF PlanInv, CreditsOK, Owed
<1> HIDE DEF n, k, T, x, c, D
<1>5. x * n - k * T = c
  <2>1. x * n = n * x /\ k * T = T * k /\ n * x \in Int /\ T * k \in Int
    BY <1>2, <1>3
  <2> QED
    BY <1>2, <1>3, <2>1
<1>6. x * n - k * T \in (1 - T) .. (T - 1)
  BY <1>2, <1>4, <1>5
<1> QED
  BY <1>1, <1>6 DEF T, x

\* Over any number of weeks, and for every intake, no skill is a whole session
\* away from its share of all the sessions planned (_allocate carries what a
\* week rounds away).
THEOREM StarvesTheorem == MCSpec => []NobodyStarves
<1>1. PlanInv => NobodyStarves
  BY SharesHold DEF NobodyStarves
<1> QED
  BY <1>1, PlanInductive, PTL

\* A rounded quotient is less than half a divisor over.
LEMMA RoundedUp ==
    ASSUME NEW m \in Nat
    PROVE  /\ G!Rounded(m, G!SessionMinutes) \in Nat
           /\ 45 * G!Rounded(m, G!SessionMinutes) <= m + 22
<1> DEFINE low == m \div 45  rest == m % 45
<1>1. low \in Nat /\ rest \in 0 .. 44 /\ m = 45 * low + rest
  OBVIOUS
<1>2. G!Rounded(m, G!SessionMinutes) =
        IF 2 * rest > 45 \/ (2 * rest = 45 /\ low % 2 = 1) THEN low + 1 ELSE low
  BY DEF G!Rounded, G!SessionMinutes
<1> HIDE DEF low, rest
<1>3. CASE G!Rounded(m, G!SessionMinutes) = low
  BY <1>1, <1>3
<1>4. CASE G!Rounded(m, G!SessionMinutes) = low + 1 /\ 2 * rest >= 45
  BY <1>1, <1>4
<1> QED
  BY <1>1, <1>2, <1>3, <1>4

\* The sum of what is taken from the members of a set.
LEMMA MinutesOf ==
    ASSUME NEW W, IsFiniteSet(W)
    PROVE  \E g : /\ AddsUp([t \in W |-> t.minutes], W, g)
                  /\ G!MapThenSumSet(LAMBDA t : t.minutes, W) = g[W]
<1> DEFINE f == [t \in W |-> t.minutes]
           one(d) == CHOOSE x \in d : TRUE
           sum == CHOOSE g : g = [d \in SUBSET W |->
                      IF d = {} THEN 0 ELSE one(d).minutes + g[d \ {one(d)}]]
<1>1. G!MapThenSumSet(LAMBDA t : t.minutes, W) = sum[W]
  BY DEF G!MapThenSumSet, G!MapThenFoldSet
<1>2. PICK h : AddsUp(f, W, h)
  BY SumExists
<1>3. \A g : AddsUp(f, W, g) <=> g = [d \in SUBSET W |->
                      IF d = {} THEN 0 ELSE one(d).minutes + g[d \ {one(d)}]]
  <2> TAKE g
  <2>1. ASSUME NEW d \in SUBSET W
        PROVE  (IF d = {} THEN 0 ELSE f[one(d)] + g[d \ {one(d)}])
                 = (IF d = {} THEN 0 ELSE one(d).minutes + g[d \ {one(d)}])
    <3>1. d # {} => one(d) \in W
      OBVIOUS
    <3>2. d # {} => f[one(d)] = one(d).minutes
      BY <3>1
    <3> QED
      BY <3>2
  <2>2. [d \in SUBSET W |-> IF d = {} THEN 0 ELSE f[one(d)] + g[d \ {one(d)}]]
          = [d \in SUBSET W |-> IF d = {} THEN 0 ELSE one(d).minutes + g[d \ {one(d)}]]
    <3> HIDE DEF f, one
    <3> QED
      BY <2>1
  <2> HIDE DEF f
  <2> QED
    BY <2>2 DEF AddsUp
<1>4. AddsUp(f, W, sum)
  <2> HIDE DEF f, one
  <2> QED
    BY <1>2, <1>3
<1> QED
  BY <1>1, <1>4

-----------------------------------------------------------------------------
(* A week is handed out in full and costs what was asked for.                *)

\* Over a part of a set the members add up the same way.
LEMMA SumPart ==
    ASSUME NEW W, NEW f, NEW g, AddsUp(f, W, g), NEW V \in SUBSET W
    PROVE  AddsUp(f, V, [d \in SUBSET V |-> g[d]])
<1> DEFINE one(d) == CHOOSE x \in d : TRUE
           h == [d \in SUBSET V |-> g[d]]
           k == [d \in SUBSET V |-> IF d = {} THEN 0 ELSE f[one(d)] + h[d \ {one(d)}]]
<1>1. ASSUME NEW d \in SUBSET V
      PROVE  h[d] = IF d = {} THEN 0 ELSE f[one(d)] + h[d \ {one(d)}]
  <2>1. d \in SUBSET W /\ d \ {one(d)} \in SUBSET V
    OBVIOUS
  <2>2. g[d] = IF d = {} THEN 0 ELSE f[one(d)] + g[d \ {one(d)}]
    BY <2>1 DEF AddsUp
  <2> HIDE DEF one
  <2>3. h[d] = g[d] /\ h[d \ {one(d)}] = g[d \ {one(d)}]
    BY <2>1
  <2> QED
    BY <2>2, <2>3
<1>2. h = k
  <2>1. \A d \in SUBSET V : h[d] = k[d]
    <3> HIDE DEF one, h
    <3> QED
      BY <1>1
  <2>2. h = [d \in SUBSET V |-> h[d]] /\ k = [d \in SUBSET V |-> k[d]]
    OBVIOUS
  <2> HIDE DEF h, k
  <2> QED
    BY <2>1, <2>2
<1> QED
  BY <1>2 DEF AddsUp

\* The minutes of N drills, and of a mock beside them.
LEMMA WeekMinutes ==
    ASSUME NEW Z, IsFiniteSet(Z), \A t \in Z : t.minutes = 45,
           NEW M, M = {} \/ \E m : M = {m} /\ m.minutes = 180 /\ m \notin Z
    PROVE  G!MapThenSumSet(LAMBDA t : t.minutes, Z \cup M)
             = 45 * Cardinality(Z) + IF M = {} THEN 0 ELSE 180
<1> DEFINE W == Z \cup M  f == [t \in W |-> t.minutes]
<1>1. IsFiniteSet(W)
  <2>1. IsFiniteSet(M)
    <3>1. CASE M = {}
      BY <3>1, FS_EmptySet
    <3>2. CASE \E m : M = {m}
      <4>1. PICK m : M = {m}
        BY <3>2
      <4> QED
        BY <4>1, FS_Singleton
    <3> QED
      BY <3>1, <3>2
  <2> QED
    BY <2>1, FS_Union
<1>2. PICK g : AddsUp(f, W, g) /\ G!MapThenSumSet(LAMBDA t : t.minutes, W) = g[W]
  BY <1>1, MinutesOf
<1>3. g[Z] = 45 * Cardinality(Z)
  <2>1. AddsUp(f, Z, [d \in SUBSET Z |-> g[d]])
    <3>1. Z \in SUBSET W
      OBVIOUS
    <3> HIDE DEF f, W
    <3> QED
      BY <1>2, <3>1, SumPart
  <2>2. \A t \in Z : f[t] \in 45 .. 45
    OBVIOUS
  <2> DEFINE h == [d \in SUBSET Z |-> g[d]]
  <2>3. h[Z] = g[Z]
    OBVIOUS
  <2>4. Cardinality(Z) \in Nat
    BY FS_CardinalityType
  <2> HIDE DEF h, f
  <2>5. h[Z] \in Int /\ 45 * Cardinality(Z) <= h[Z] /\ h[Z] <= 45 * Cardinality(Z)
    <3>1. AddsUp(f, Z, h) /\ 45 \in Int
      BY <2>1 DEF h
    <3> QED
      BY <2>2, <3>1, SumBounds
  <2> QED
    BY <2>3, <2>4, <2>5
<1>4. CASE M = {}
  <2>1. W = Z
    BY <1>4
  <2>2. Cardinality(Z) \in Nat
    BY FS_CardinalityType
  <2> QED
    BY <1>2, <1>3, <1>4, <2>1, <2>2
<1>5. CASE M # {}
  <2>1. PICK m : M = {m} /\ m.minutes = 180 /\ m \notin Z
    BY <1>5
  <2>2. \A t \in W : f[t] \in Int
    BY <2>1
  <2>3. AnyFirst(f, W, g)
    <3> HIDE DEF f, W
    <3> QED
      BY <1>1, <1>2, <2>2, SumSplit
  <2>4. m \in W /\ W \ {m} = Z /\ f[m] = 180 /\ W \in SUBSET W
    BY <2>1
  <2> HIDE DEF f, W
  <2>5. g[W] = 180 + g[Z]
    BY <2>3, <2>4 DEF AnyFirst
  <2>6. Cardinality(Z) \in Nat
    BY FS_CardinalityType
  <2>7. g[W] = 45 * Cardinality(Z) + 180
    BY <1>3, <2>5, <2>6
  <2> QED
    BY <1>2, <1>5, <2>7 DEF W
<1> QED
  BY <1>4, <1>5

\* A week has the slots its days and its minutes allow, and its minutes are
\* spent on them and on its mock.
LEMMA WeekFilled ==
    ASSUME PlanInv, NEW v \in 0 .. week - 1
    PROVE  /\ G!Cardinality(G!In(v) \cap G!Drilled) = IF G!StudyDays(v) = {} THEN 0 ELSE G!Slots(v)
           /\ G!MapThenSumSet(LAMBDA t : t.minutes, G!In(v))
                <= IF G!MockDay(v) # None /\ G!WeeklyMinutes < G!MockMinutes THEN G!MockMinutes
                   ELSE G!WeeklyMinutes + G!SessionMinutes \div 2
<1>0. intake \in G!Intake /\ v \in Nat
  BY DEF PlanInv
<1>1. WeekMade(StudyOn(tasks, v), v)
  BY DEF PlanInv, WeeksMade
<1>2. PICK Z : /\ StudyOn(tasks, v) = Z \cup G!Mock(v)
               /\ \E counts \in [G!Skills -> Nat] : DrillsOn(Z, G!DrillDays(v), counts, G!Slots(v))
  BY <1>1 DEF WeekMade
<1>3. /\ IsFiniteSet(Z) /\ Cardinality(Z) = G!Slots(v)
      /\ \A t \in Z : t.minutes = 45 /\ t.kind = "drill"
      /\ DrillTasks(Z \cup G!Mock(v)) = Z
  <2>1. PICK counts : DrillsOn(Z, G!DrillDays(v), counts, G!Slots(v))
    BY <1>2
  <2>2. DrillTasks(Z \cup G!Mock(v)) = Z
    BY <2>1, DrillsOfWeek
  <2> QED
    BY <2>1, <2>2 DEF DrillsOn, G!SessionMinutes
<1>4. G!In(v) = Z \cup G!Mock(v)
  BY <1>2 DEF G!In, StudyOn
<1>5. G!In(v) \cap G!Drilled = Z
  BY <1>2, <1>3, <1>4 DEF DrillTasks, StudyOn, G!Drilled
<1>6. G!Cardinality(G!In(v) \cap G!Drilled) = IF G!StudyDays(v) = {} THEN 0 ELSE G!Slots(v)
  BY <1>0, <1>3, <1>5, SameSize, WeekOff
<1> DEFINE N == G!Slots(v)  R == G!Rounded(G!DrillMinutes(v), G!SessionMinutes)
           m == G!DrillMinutes(v)  total == G!WeeklyMinutes
<1>7. N \in Nat /\ N <= R /\ m \in Nat /\ R \in Nat /\ 45 * R <= m + 22 /\ total \in Nat
  BY <1>0, SlotsFit, RoundedUp, Frame
<1>8. m = IF G!MockDay(v) = None THEN total ELSE IF 0 <= total - 180 THEN total - 180 ELSE 0
  <2>1. 0 \in Int /\ total - 180 \in Int
    BY <1>7
  <2> QED
    BY <2>1, TwoMembers DEF G!DrillMinutes, G!MockMinutes
<1>9. G!MapThenSumSet(LAMBDA t : t.minutes, Z \cup G!Mock(v))
        = 45 * N + IF G!MockDay(v) = None THEN 0 ELSE 180
  <2> DEFINE M == G!Mock(v)
  <2>1. CASE G!MockDay(v) = None
    <3>1. M = {}
      BY <2>1 DEF G!Mock
    <3> HIDE DEF M
    <3>2. G!MapThenSumSet(LAMBDA t : t.minutes, Z \cup M) = 45 * Cardinality(Z) + 0
      BY <1>3, <3>1, WeekMinutes
    <3> QED
      BY <1>3, <2>1, <3>2 DEF M
  <2>2. CASE G!MockDay(v) # None
    <3> DEFINE k == G!Task(G!MockDay(v), 0, None, "mock", G!MockMinutes)
    <3>1. M = {k} /\ k.minutes = 180 /\ k.kind = "mock"
      BY <2>2 DEF G!Mock, G!Task, G!MockMinutes
    <3>2. M # {} /\ \E x : M = {x} /\ x.minutes = 180 /\ x \notin Z
      BY <1>3, <3>1
    <3> HIDE DEF M
    <3>3. G!MapThenSumSet(LAMBDA t : t.minutes, Z \cup M) = 45 * Cardinality(Z) + 180
      BY <1>3, <3>2, WeekMinutes
    <3> QED
      BY <1>3, <2>2, <3>3 DEF M
  <2> QED
    BY <2>1, <2>2
<1> HIDE DEF N, R, m, total
<1>10. 45 * N <= m + 22
  BY <1>7
<1>11. 45 * N + (IF G!MockDay(v) = None THEN 0 ELSE 180)
          <= IF G!MockDay(v) # None /\ total < 180 THEN 180 ELSE total + 22
  <2>1. CASE G!MockDay(v) = None
    BY <1>7, <1>8, <1>10, <2>1
  <2>2. CASE G!MockDay(v) # None /\ total < 180
    <3>1. m = 0
      BY <1>7, <1>8, <2>2
    <3>2. N = 0
      BY <1>7, <1>10, <3>1
    <3> QED
      BY <2>2, <3>2
  <2>3. CASE G!MockDay(v) # None /\ ~ (total < 180)
    BY <1>7, <1>8, <1>10, <2>3
  <2> QED
    BY <2>1, <2>2, <2>3
<1>12. 45 \div 2 = 22
  OBVIOUS
<1> QED
  BY <1>4, <1>6, <1>9, <1>11, <1>12 DEF total, G!MockMinutes, G!SessionMinutes

\* Every week is handed out in full, no session is left in the queue when its
\* days run out, and it costs what was asked for but for half a session.
THEOREM WeeksTheorem == MCSpec => []WeeksFilled
<1>1. PlanInv => WeeksFilled
  BY WeekFilled DEF WeeksFilled, G!WeeksFilled, G!SlotsFilled, G!WeekFits
<1> QED
  BY <1>1, PlanInductive, PTL

-----------------------------------------------------------------------------
(* A day is in order.                                                        *)

\* Positions that leave no gap below them and are given once start at 0 and end
\* before the number of them.
LEMMA NoGaps ==
    ASSUME NEW U, IsFiniteSet(U), \A t \in U : t.position \in Nat,
           \A t, u \in U : t.position = u.position => t = u,
           \A t \in U : \A p \in 0 .. t.position : \E u \in U : u.position = p
    PROVE  {t.position : t \in U} = 0 .. Cardinality(U) - 1
<1> DEFINE P == {t.position : t \in U}  n == Cardinality(U)  F == [t \in U |-> t.position]
<1>0. n \in Nat
  BY FS_CardinalityType
<1>1. IsFiniteSet(P) /\ Cardinality(P) = n
  <2>1. F \in [U -> P] /\ (\A t, u \in U : F[t] = F[u] => t = u) /\ \A p \in P : \E t \in U : F[t] = p
    OBVIOUS
  <2> HIDE DEF F, P
  <2>2. Pairs(F, U, P)
    BY <2>1 DEF Pairs
  <2> QED
    BY <2>2, PairedSize
<1>2. P \subseteq Nat /\ \A x \in P : \A p \in 0 .. x : p \in P
  OBVIOUS
<1> HIDE DEF P, n, F
<1>3. \A k \in Nat : IsFiniteSet(0 .. k - 1) /\ Cardinality(0 .. k - 1) = k
  <2> TAKE k \in Nat
  <2>1. 0 \in Int /\ k - 1 \in Int
    OBVIOUS
  <2> QED
    BY <2>1, FS_Interval
<1>4. \E x \in Nat : x \notin P
  <2> SUFFICES ASSUME \A x \in Nat : x \in P PROVE FALSE
    OBVIOUS
  <2>1. n + 1 \in Nat /\ 0 .. (n + 1) - 1 \subseteq P
    BY <1>0
  <2>2. Cardinality(0 .. (n + 1) - 1) = n + 1
    BY <1>3, <2>1
  <2>3. Cardinality(0 .. (n + 1) - 1) <= Cardinality(P)
    BY <1>1, <2>1, FS_Subset
  <2> QED
    BY <1>0, <1>1, <2>2, <2>3
<1>5. PICK m \in Nat : m \notin P /\ \A y \in Nat : y \notin P => m <= y
  <2> DEFINE T == {x \in Nat : x \notin P}
  <2>1. T \in SUBSET Nat /\ T # {}
    BY <1>4
  <2>2. \E x \in T : \A y \in T : x <= y
    <3> HIDE DEF T
    <3> QED
      BY <2>1, LeastNumber
  <2> QED
    BY <2>2
<1>6. P = 0 .. m - 1
  <2>1. ASSUME NEW x \in P PROVE x \in 0 .. m - 1
    <3>1. x \in Nat /\ ~ (m <= x)
      <4>1. x \in Nat
        BY <1>2
      <4>2. m <= x => m \in 0 .. x
        BY <4>1
      <4> QED
        BY <1>2, <1>5, <4>1, <4>2
    <3> QED
      BY <3>1
  <2>2. ASSUME NEW x \in 0 .. m - 1 PROVE x \in P
    <3>1. x \in Nat /\ ~ (m <= x)
      OBVIOUS
    <3> QED
      BY <1>5, <3>1
  <2> QED
    BY <2>1, <2>2
<1>7. m = n
  BY <1>1, <1>3, <1>6
<1> QED
  BY <1>6, <1>7 DEF P, n

\* What a day must hold.
DayInOrder(there, d) ==
    /\ {t.position : t \in there} = 0 .. Cardinality(there) - 1
    /\ (\E t \in there : t.kind # "drill") => Cardinality(there) = 1
    /\ d >= G!TaperStart => \A t \in there : t.kind \in {"review", "exam"}

\* One task at the first position has its day in order.
LEMMA OneThere ==
    ASSUME NEW r, r.position = 0
    PROVE  {t.position : t \in {r}} = 0 .. Cardinality({r}) - 1 /\ Cardinality({r}) = 1
<1>1. Cardinality({r}) = 1
  BY FS_Singleton
<1>2. {t.position : t \in {r}} = {0} /\ 0 .. 1 - 1 = {0}
  OBVIOUS
<1> QED
  BY <1>1, <1>2

\* A day of a week holds its mock, or drills.
LEMMA StudyDayInOrder ==
    ASSUME intake \in G!Intake, NEW v \in Nat, NEW I, WeekMade(I, v), NEW r \in I
    PROVE  DayInOrder({t \in I : t.day = r.day}, r.day)
<1> DEFINE d == r.day  there == {t \in I : t.day = d}
<1>1. d \in G!StudyDays(v) /\ d \in Int /\ d < G!TaperStart /\ G!TaperStart \in Int
  <2>1. d \in G!StudyDays(v)
    BY WeekMadeOn
  <2>2. G!TaperStart \in Int
    BY Frame DEF G!TaperStart, G!TaperDays
  <2> QED
    BY <2>1, <2>2, WeeksApart
<1>2. ~ (d >= G!TaperStart)
  <2> HIDE DEF d
  <2> QED
    BY <1>1
<1>3. PICK Z : /\ I = Z \cup G!Mock(v)
               /\ \E counts \in [G!Skills -> Nat] : DrillsOn(Z, G!DrillDays(v), counts, G!Slots(v))
  BY DEF WeekMade
<1>4. /\ IsFiniteSet(Z)
      /\ \A t \in Z : t.kind = "drill" /\ t.day \in G!DrillDays(v) /\ t.position \in Nat
      /\ \A t, u \in Z : t.day = u.day /\ t.position = u.position => t = u
      /\ \A t \in Z : \A p \in 0 .. t.position : \E u \in Z : u.day = t.day /\ u.position = p
  <2>1. PICK counts : DrillsOn(Z, G!DrillDays(v), counts, G!Slots(v))
    BY <1>3
  <2> QED
    BY <2>1 DEF DrillsOn
<1>5. ASSUME NEW t \in G!Mock(v)
      PROVE  /\ t = G!Task(G!MockDay(v), 0, None, "mock", G!MockMinutes)
             /\ t.day = G!MockDay(v) /\ t.position = 0
             /\ G!MockDay(v) \notin G!DrillDays(v)
  <2>1. t = G!Task(G!MockDay(v), 0, None, "mock", G!MockMinutes) /\ G!MockDay(v) \notin G!DrillDays(v)
    BY MockOnStudyDay
  <2> QED
    BY <2>1 DEF G!Task
<1>6. CASE r \in Z
  <2> DEFINE U == {t \in Z : t.day = d}
  <2>1. there = U
    BY <1>3, <1>4, <1>5, <1>6
  <2>2. IsFiniteSet(U)
    BY <1>4, FS_Subset
  <2>3. /\ \A t \in U : t.position \in Nat /\ t.kind = "drill"
        /\ \A t, u \in U : t.position = u.position => t = u
        /\ \A t \in U : \A p \in 0 .. t.position : \E u \in U : u.position = p
    BY <1>4
  <2> HIDE DEF U
  <2>4. {t.position : t \in U} = 0 .. Cardinality(U) - 1
    BY <2>2, <2>3, NoGaps
  <2> HIDE DEF there
  <2> QED
    BY <1>2, <2>1, <2>3, <2>4 DEF DayInOrder, there
<1>7. CASE r \in G!Mock(v)
  <2>1. there = {r}
    BY <1>3, <1>4, <1>5, <1>7
  <2>2. r.position = 0
    BY <1>5, <1>7
  <2>3. {t.position : t \in {r}} = 0 .. Cardinality({r}) - 1 /\ Cardinality({r}) = 1
    BY <2>2, OneThere
  <2> HIDE DEF there
  <2> QED
    BY <1>2, <2>1, <2>3 DEF DayInOrder, there
<1> QED
  BY <1>3, <1>6, <1>7

\* Each of the last days holds one task.
LEMMA LastDays ==
    ASSUME intake \in G!Intake, NEW L, TaperMade(L), NEW r \in L
    PROVE  /\ r.day >= G!TaperStart /\ r.day \in Int /\ r.position = 0
           /\ r.kind \in {"review", "exam"}
           /\ \A t \in L : t.day = r.day => t = r
<1>1. PICK s1, s2 :
        L = {G!Task(G!TaperStart, 0, s1, "review", 30),
             G!Task(G!TaperStart + 1, 0, s2, "review", 30),
             G!Task(G!TestDay, 0, None, "exam", 0)}
  BY DEF TaperMade
<1> DEFINE a == G!Task(G!TaperStart, 0, s1, "review", 30)
           b == G!Task(G!TaperStart + 1, 0, s2, "review", 30)
           c == G!Task(G!TestDay, 0, None, "exam", 0)
<1>2. /\ a.day = G!TaperStart /\ b.day = G!TaperStart + 1 /\ c.day = G!TestDay
      /\ a.position = 0 /\ b.position = 0 /\ c.position = 0
      /\ a.kind = "review" /\ b.kind = "review" /\ c.kind = "exam"
  BY DEF G!Task
<1>3. G!TaperStart \in Int /\ G!TestDay = G!TaperStart + 2
  <2>1. G!TestDay \in Int /\ G!TaperStart = G!TestDay - (3 - 1)
    BY Frame DEF G!TaperStart, G!TaperDays
  <2> QED
    BY <2>1
<1> HIDE DEF a, b, c
<1>4. L = {a, b, c}
  BY <1>1 DEF a, b, c
<1>5. a.day # b.day /\ a.day # c.day /\ b.day # c.day
      /\ a.day >= G!TaperStart /\ b.day >= G!TaperStart /\ c.day >= G!TaperStart
      /\ a.day \in Int /\ b.day \in Int /\ c.day \in Int
  BY <1>2, <1>3
<1> QED
  BY <1>2, <1>4, <1>5

\* Every day of the plan is in order.
LEMMA EveryDayInOrder ==
    ASSUME PlanInv, NEW r \in tasks
    PROVE  DayInOrder({t \in tasks : t.day = r.day}, r.day)
<1> DEFINE d == r.day  there == {t \in tasks : t.day = d}
<1>0. intake \in G!Intake /\ week \in Nat /\ WeeksMade
  BY DEF PlanInv
<1>1. ASSUME NEW t \in tasks, t.kind \notin {"drill", "mock"}
      PROVE  t \in TaperTasks(tasks) /\ TaperMade(TaperTasks(tasks))
  BY <1>0, <1>1 DEF WeeksMade, TaperTasks
<1>2. ASSUME NEW t \in tasks, t.kind \in {"drill", "mock"}
      PROVE  \E v \in Nat : /\ WeekMade(StudyOn(tasks, v), v) /\ t \in StudyOn(tasks, v)
                            /\ t.day \in G!DaysOf(v) /\ t.day \in Int /\ t.day < G!TaperStart
  <2>1. PICK v \in 0 .. week - 1 : t \in StudyOn(tasks, v)
    BY <1>0, <1>2 DEF WeeksMade
  <2>2. v \in Nat /\ WeekMade(StudyOn(tasks, v), v)
    BY <1>0, <2>1 DEF WeeksMade
  <2>3. t.day \in G!StudyDays(v) /\ t.day \in G!DaysOf(v)
    BY <1>0, <2>1, <2>2, WeekMadeOn
  <2> QED
    BY <1>0, <2>1, <2>2, <2>3, WeeksApart
<1>3. G!TaperStart \in Int
  BY <1>0, Frame DEF G!TaperStart, G!TaperDays
<1>4. CASE r.kind \in {"drill", "mock"}
  <2>1. PICK v \in Nat : /\ WeekMade(StudyOn(tasks, v), v) /\ r \in StudyOn(tasks, v)
                         /\ d \in G!DaysOf(v) /\ d \in Int /\ d < G!TaperStart
    BY <1>2, <1>4
  <2>2. ASSUME NEW t \in there PROVE t \in StudyOn(tasks, v)
    <3>1. t.kind \in {"drill", "mock"}
      <4> SUFFICES ASSUME t.kind \notin {"drill", "mock"} PROVE FALSE
        OBVIOUS
      <4>1. t \in TaperTasks(tasks) /\ TaperMade(TaperTasks(tasks))
        BY <1>1
      <4>2. t.day >= G!TaperStart
        BY <1>0, <4>1, LastDays
      <4> QED
        BY <1>3, <2>1, <4>2
    <3> QED
      BY <2>1, <3>1 DEF StudyOn
  <2>3. there = {t \in StudyOn(tasks, v) : t.day = r.day}
    BY <2>2 DEF StudyOn
  <2> HIDE DEF there, d
  <2>4. DayInOrder(there, r.day)
    BY <1>0, <2>1, <2>3, StudyDayInOrder
  <2> QED
    BY <2>4 DEF there, d
<1>5. CASE r.kind \notin {"drill", "mock"}
  <2>1. r \in TaperTasks(tasks) /\ TaperMade(TaperTasks(tasks))
    BY <1>1, <1>5
  <2>2. /\ d >= G!TaperStart /\ d \in Int /\ r.position = 0
        /\ r.kind \in {"review", "exam"}
        /\ \A t \in TaperTasks(tasks) : t.day = d => t = r
    BY <1>0, <2>1, LastDays
  <2>3. ASSUME NEW t \in there PROVE t = r
    <3>1. t.kind \notin {"drill", "mock"}
      BY <1>2, <1>3, <2>2
    <3> QED
      BY <1>1, <2>2, <3>1
  <2>4. there = {r}
    BY <2>3
  <2>5. {t.position : t \in {r}} = 0 .. Cardinality({r}) - 1 /\ Cardinality({r}) = 1
    BY <2>2, OneThere
  <2> HIDE DEF there, d
  <2>6. DayInOrder(there, r.day)
    BY <2>2, <2>4, <2>5 DEF DayInOrder
  <2> QED
    BY <2>6 DEF there, d
<1> QED
  BY <1>4, <1>5

\* So the plan is in order.
LEMMA PlacesHold == PlanInv => G!PlacesInOrder
<1> SUFFICES ASSUME PlanInv, NEW d \in {t.day : t \in tasks}
             PROVE  /\ {t.position : t \in {t \in tasks : t.day = d}}
                          = 0 .. Cardinality({t \in tasks : t.day = d}) - 1
                    /\ (\E t \in {t \in tasks : t.day = d} : t.kind # "drill")
                          => Cardinality({t \in tasks : t.day = d}) = 1
                    /\ d >= G!TaperStart => \A t \in {t \in tasks : t.day = d} : t.kind \in {"review", "exam"}
  BY SameSize DEF G!PlacesInOrder
<1>1. PICK r \in tasks : r.day = d
  OBVIOUS
<1>2. DayInOrder({t \in tasks : t.day = r.day}, r.day)
  BY EveryDayInOrder
<1> QED
  BY <1>1, <1>2 DEF DayInOrder

\* The generated tasks of a day stand at 0, 1, 2 ... without a tie, and a mock, a
\* review or the test has its day to itself.
THEOREM PlacesTheorem == MCSpec => []PlacesInOrder
<1>1. PlanInv => PlacesInOrder
  BY PlacesHold DEF PlacesInOrder
<1> QED
  BY <1>1, PlanInductive, PTL

=============================================================================
