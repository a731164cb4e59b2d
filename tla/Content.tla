------------------------------ MODULE Content ------------------------------
(***************************************************************************)
(* Writing one paper: the write routes of app/routers/content.py over its   *)
(* row of tests and its rows of test_question_groups and test_questions,    *)
(* and the review that publishing it must pass.  Of the texts, those of the  *)
(* test's own row are kept, as whether the review finds fault with them.     *)
(* Left out are the slug, the texts of groups and items, which the review    *)
(* checks likewise, and the rule that a speaking paper has all three parts.  *)
(***************************************************************************)
EXTENDS Integers, FiniteSets, Sequences, SequencesExt, FiniteSetsExt

CONSTANTS
    Groups, Questions,  \* row ids; finite, which bounds a behaviour
    Spans,              \* how many numbers an item may cover
    MaxNumber,          \* bound: the last number of the paper
    TestPatches,        \* the bodies sent to PATCH /tests/{id},
    Moves,              \* the positions sent to PATCH /groups/{id},
    QuestionPatches,    \* the bodies sent to PATCH /questions/{id}
    QuestionBodies,     \* and to POST /groups/{id}/questions
    Reqs,               \* request slots
    None                \* no value

ASSUME ContentAssumption ==
    /\ Groups \cap Questions = {}
    /\ Spans \subseteq Nat \ {0}
    /\ MaxNumber \in Nat \ {0}

\* A body gives a value, or None, for each field it may change.
ASSUME PatchAssumption ==
    LET Maybe(S) == S \cup {None}
    IN  /\ TestPatches \subseteq [status: Maybe({"draft", "published"}), head: Maybe(BOOLEAN)]
        /\ Moves \subseteq Nat
        /\ \A p \in QuestionPatches :
              p.to \in Maybe(Nat) /\ p.num \in Maybe(1..MaxNumber) /\ p.span \in Maybe(Spans)
        /\ QuestionBodies \subseteq [num: Maybe(1..MaxNumber), span: Spans]

VARIABLES
    test,      \* the row of tests, None once it is deleted
    group,     \* the groups table: a function whose domain is its row ids
    question,  \* the questions table, likewise
    used,      \* row ids ever inserted
    req        \* what each request slot is doing

vars == <<test, group, question, used, req>>

\* head: title, audio or passage, and module are in order.
TestRow == [status: {"draft", "published"}, head: BOOLEAN]
GroupRow == [pos: Nat]
QuestionRow == [group: Groups, pos: Nat, num: 1..MaxNumber, span: Spans]

ASSUME RowAssumption == None \notin TestRow

Empty == [x \in {} |-> None]

\* A handler's locals: the row it works on and what it loaded of it; the value
\* asked for; the position asked for or, in create_question, the number; the
\* positions it will write; the position, number and span of a new row.  fresh
\* is a history variable: no other request has committed since the first read.
Idle == [pc |-> "idle", id |-> None, was |-> None, sets |-> None, to |-> None,
         writes |-> Empty, pos |-> 0, num |-> 0, span |-> 0, fresh |-> TRUE]

Goes(q, locals) == req' = [req EXCEPT ![q] = locals]

\* The end of a handler that commits.
Commits(q) ==
    req' = [r \in Reqs |-> IF r = q \/ req[r] = Idle THEN Idle
                           ELSE [req[r] EXCEPT !.fresh = FALSE]]

QuestionsIn(g) == {i \in DOMAIN question : question[i].group = g}

\* Every number the item covers is claimed.
Covered(i) == question[i].num .. (question[i].num + question[i].span - 1)

-----------------------------------------------------------------------------
(* create_test has just committed.                                           *)
Init ==
    /\ test \in [status: {"draft"}, head: BOOLEAN]
    /\ group = Empty
    /\ question = Empty
    /\ used = {}
    /\ req = [q \in Reqs |-> Idle]

\* Mutant of Publishable: an item claims the number it is printed with only.
PublishableByFirstNumber ==
    /\ test.head
    /\ DOMAIN group # {}
    /\ \A g \in DOMAIN group : QuestionsIn(g) # {}
    /\ \A i, j \in DOMAIN question : i # j => question[i].num # question[j].num

(* review_test finds nothing.                                                *)
Publishable ==
    /\ test.head
    /\ DOMAIN group # {}
    /\ \A g \in DOMAIN group : QuestionsIn(g) # {}
    /\ \A i, j \in DOMAIN question : i # j => Covered(i) \cap Covered(j) = {}

(* update_test: load the test, and review what was loaded if the changes ask *)
(* for it to be published ...                                                *)
UpdateTestRead(q, patch) ==
    /\ req[q] = Idle
    /\ test # None
    /\ patch.status = "published" => Publishable
    /\ Goes(q, [Idle EXCEPT !.pc = "updateTest", !.was = test, !.sets = patch])
    /\ UNCHANGED <<test, group, question, used>>

\* The flush writes the columns whose value is not the one loaded.
Stored(asked, loaded, stored) ==
    IF asked = None \/ asked = loaded THEN stored ELSE asked

(* ... then make every change asked for; that the test is gone fails it.     *)
UpdateTestCommit(q) ==
    /\ req[q].pc = "updateTest"
    /\ LET l == req[q]
       IN  test' = IF test = None THEN None
                   ELSE [status |-> Stored(l.sets.status, l.was.status, test.status),
                         head |-> Stored(l.sets.head, l.was.head, test.head)]
    /\ Commits(q)
    /\ UNCHANGED <<group, question, used>>

(* delete_test: load the test ...                                            *)
DeleteTestRead(q) ==
    /\ req[q] = Idle
    /\ test # None
    /\ Goes(q, [Idle EXCEPT !.pc = "deleteTest"])
    /\ UNCHANGED <<test, group, question, used>>

(* ... then delete it with all it has, rows inserted meanwhile included.     *)
DeleteTestCommit(q) ==
    /\ req[q].pc = "deleteTest"
    /\ test' = None /\ group' = Empty /\ question' = Empty
    /\ Commits(q)
    /\ UNCHANGED used

-----------------------------------------------------------------------------
(* create_group: load the test; the groups it has give the position ...      *)
CreateGroupRead(q) ==
    /\ req[q] = Idle
    /\ test # None
    /\ Goes(q, [Idle EXCEPT !.pc = "createGroup", !.pos = Cardinality(DOMAIN group)])
    /\ UNCHANGED <<test, group, question, used>>

(* ... then insert; the foreign key refuses it if the test is gone.          *)
CreateGroupCommit(q, g) ==
    /\ req[q].pc = "createGroup"
    /\ g \notin used
    /\ IF test # None
         THEN /\ group' = [x \in DOMAIN group \cup {g} |->
                             IF x = g THEN [pos |-> req[q].pos] ELSE group[x]]
              /\ used' = used \cup {g}
         ELSE UNCHANGED <<group, used>>
    /\ Commits(q)
    /\ UNCHANGED <<test, question>>

(* update_group with a position: load the group ...                          *)
UpdateGroupRead(q, g, to) ==
    /\ req[q] = Idle
    /\ g \in DOMAIN group
    /\ Goes(q, [Idle EXCEPT !.pc = "groupOrder", !.id = g, !.was = group[g], !.to = to])
    /\ UNCHANGED <<test, group, question, used>>

\* The rows of a table in order of position; of equal ones in any order.
InOrder(table, ids) ==
    {s \in SetToSeqs(ids) : \A m, n \in DOMAIN s : m < n => table[s[m]].pos <= table[s[n]].pos}

\* Mutant of Inserted: counts the places from one.
InsertedOneLate(others, id, to) ==
    InsertAt(others, Min({to + 1, Len(others)}) + 1, id)

\* _reorder: the row at the place asked for, or at the end if that is beyond it.
Inserted(others, id, to) == InsertAt(others, Min({to, Len(others)}) + 1, id)

(* ... query its siblings and renumber them all around it; a position is     *)
(* written where it is not the one loaded.                                   *)
Renumber(q, table, siblings, next) ==
    LET l == req[q]
        loaded(x) == IF x = l.id THEN l.was.pos ELSE table[x].pos
    IN  \E s \in InOrder(table, siblings \ {l.id}) :
          LET order == Inserted(s, l.id, l.to)
              place(x) == (CHOOSE n \in DOMAIN order : order[n] = x) - 1
          IN  Goes(q, [l EXCEPT !.pc = next,
                !.writes = [x \in {y \in ToSet(order) : place(y) # loaded(y)} |-> place(x)]])

GroupOrder(q) ==
    /\ req[q].pc = "groupOrder"
    /\ Renumber(q, group, DOMAIN group, "updateGroup")
    /\ UNCHANGED <<test, group, question, used>>

\* What a row's position is after the commit.
Position(q, x, pos) == IF x \in DOMAIN req[q].writes THEN req[q].writes[x] ELSE pos

(* ... and commit; a position to be written to a row that is gone fails it.  *)
UpdateGroupCommit(q) ==
    /\ req[q].pc = "updateGroup"
    /\ group' = IF DOMAIN req[q].writes \subseteq DOMAIN group
                  THEN [x \in DOMAIN group |-> [pos |-> Position(q, x, group[x].pos)]]
                  ELSE group
    /\ Commits(q)
    /\ UNCHANGED <<test, question, used>>

(* delete_group: load the group ...                                          *)
DeleteGroupRead(q, g) ==
    /\ req[q] = Idle
    /\ g \in DOMAIN group
    /\ Goes(q, [Idle EXCEPT !.pc = "deleteGroup", !.id = g])
    /\ UNCHANGED <<test, group, question, used>>

\* Mutant of Cascaded: the questions are left behind.
NotCascaded(g) == {}

\* The questions that go with a group.
Cascaded(g) == QuestionsIn(g)

(* ... then delete it and its questions; the others keep their positions.    *)
DeleteGroupCommit(q) ==
    /\ req[q].pc = "deleteGroup"
    /\ LET g == req[q].id
       IN  /\ group' = [x \in DOMAIN group \ {g} |-> group[x]]
           /\ question' = [i \in DOMAIN question \ Cascaded(g) |-> question[i]]
    /\ Commits(q)
    /\ UNCHANGED <<test, used>>

-----------------------------------------------------------------------------
(* create_question: load the group; the questions it has give the position.  *)
CreateQuestionRead(q, g, body) ==
    /\ req[q] = Idle
    /\ g \in DOMAIN group
    /\ Goes(q, [Idle EXCEPT !.pc = IF body.num = None THEN "number" ELSE "createQuestion",
                            !.id = g, !.pos = Cardinality(QuestionsIn(g)),
                            !.num = body.num, !.span = body.span, !.to = body.num])
    /\ UNCHANGED <<test, group, question, used>>

\* Mutant of LastNumber: the highest number printed.
HighestNumber == Max({question[i].num : i \in DOMAIN question} \cup {0})

\* The last number covered anywhere in the paper.
LastNumber == Max({0} \cup UNION {Covered(i) : i \in DOMAIN question})

(* A number that was not given continues the paper's numbering ...           *)
Number(q) ==
    /\ req[q].pc = "number"
    /\ LastNumber < MaxNumber
    /\ Goes(q, [req[q] EXCEPT !.pc = "createQuestion", !.num = LastNumber + 1])
    /\ UNCHANGED <<test, group, question, used>>

(* ... then insert; the foreign key refuses it if the group is gone.         *)
CreateQuestionCommit(q, i) ==
    /\ req[q].pc = "createQuestion"
    /\ i \notin used
    /\ LET l == req[q]
       IN  IF l.id \in DOMAIN group
             THEN /\ question' = [x \in DOMAIN question \cup {i} |->
                       IF x # i THEN question[x]
                       ELSE [group |-> l.id, pos |-> l.pos, num |-> l.num,
                             span |-> l.span]]
                  /\ used' = used \cup {i}
             ELSE UNCHANGED <<question, used>>
    /\ Commits(q)
    /\ UNCHANGED <<test, group>>

(* update_question: load the question ...                                    *)
UpdateQuestionRead(q, i, patch) ==
    /\ req[q] = Idle
    /\ i \in DOMAIN question
    /\ Goes(q, [Idle EXCEPT !.pc = IF patch.to = None THEN "updateQuestion" ELSE "questionOrder",
                            !.id = i, !.was = question[i], !.to = patch.to, !.sets = patch])
    /\ UNCHANGED <<test, group, question, used>>

(* ... renumber the positions of its group around it ...                     *)
QuestionOrder(q) ==
    /\ req[q].pc = "questionOrder"
    /\ Renumber(q, question, QuestionsIn(req[q].was.group), "updateQuestion")
    /\ UNCHANGED <<test, group, question, used>>

(* ... and commit the new positions and the other changes, all or none.      *)
UpdateQuestionCommit(q) ==
    /\ req[q].pc = "updateQuestion"
    /\ LET l == req[q]
           changed == {l.id : n \in {l.sets.num} \ {None, l.was.num}}
                        \cup {l.id : n \in {l.sets.span} \ {None, l.was.span}}
           Set(x, asked, loaded, stored) ==
              IF x \in changed THEN Stored(asked, loaded, stored) ELSE stored
       IN  question' =
             IF DOMAIN l.writes \cup changed \subseteq DOMAIN question
               THEN [x \in DOMAIN question |->
                       [question[x] EXCEPT
                          !.pos = Position(q, x, @),
                          !.num = Set(x, l.sets.num, l.was.num, @),
                          !.span = Set(x, l.sets.span, l.was.span, @)]]
               ELSE question
    /\ Commits(q)
    /\ UNCHANGED <<test, group, used>>

(* delete_question: load the question ...                                    *)
DeleteQuestionRead(q, i) ==
    /\ req[q] = Idle
    /\ i \in DOMAIN question
    /\ Goes(q, [Idle EXCEPT !.pc = "deleteQuestion", !.id = i])
    /\ UNCHANGED <<test, group, question, used>>

(* ... then delete it; the others keep their positions and numbers.          *)
DeleteQuestionCommit(q) ==
    /\ req[q].pc = "deleteQuestion"
    /\ question' = [i \in DOMAIN question \ {req[q].id} |-> question[i]]
    /\ Commits(q)
    /\ UNCHANGED <<test, group, used>>

-----------------------------------------------------------------------------
Next ==
    \E q \in Reqs :
        \/ \E p \in TestPatches : UpdateTestRead(q, p)
        \/ UpdateTestCommit(q)
        \/ DeleteTestRead(q)
        \/ DeleteTestCommit(q)
        \/ CreateGroupRead(q)
        \/ \E g \in Groups : CreateGroupCommit(q, g)
        \/ \E g \in DOMAIN group, to \in Moves : UpdateGroupRead(q, g, to)
        \/ GroupOrder(q)
        \/ UpdateGroupCommit(q)
        \/ \E g \in DOMAIN group : DeleteGroupRead(q, g)
        \/ DeleteGroupCommit(q)
        \/ \E g \in DOMAIN group, b \in QuestionBodies : CreateQuestionRead(q, g, b)
        \/ Number(q)
        \/ \E i \in Questions : CreateQuestionCommit(q, i)
        \/ \E i \in DOMAIN question, p \in QuestionPatches : UpdateQuestionRead(q, i, p)
        \/ QuestionOrder(q)
        \/ UpdateQuestionCommit(q)
        \/ \E i \in DOMAIN question : DeleteQuestionRead(q, i)
        \/ DeleteQuestionCommit(q)

Spec == Init /\ [][Next]_vars

-----------------------------------------------------------------------------
(* Properties.                                                               *)

\* The variables hold what the tables and the handlers' locals may hold, and
\* nothing outlives the row it hangs from.
TypeOK ==
    /\ test \in TestRow \cup {None}
    /\ group \in [DOMAIN group -> GroupRow]
    /\ question \in [DOMAIN question -> QuestionRow]
    /\ DOMAIN group \cup DOMAIN question \subseteq used
    /\ test = None => group = Empty
    /\ \A i \in DOMAIN question : question[i].group \in DOMAIN group
    /\ \A q \in Reqs : req[q].id \in used \cup {None}

Published == test # None /\ test.status = "published"

\* A paper that a candidate can sit: every number up to the last is claimed at
\* most once, nothing is empty and no text is missing.
Sittable ==
    /\ test.head
    /\ {question[i].group : i \in DOMAIN question} = DOMAIN group
    /\ question # Empty
    /\ \A n \in 1..LastNumber : Cardinality({i \in DOMAIN question : n \in Covered(i)}) <= 1

\* "Publishing is the one gate that refuses": a paper that becomes published can
\* be sat, unless somebody else's edit was committed since it was reviewed or
\* the same call took the title, the audio or the passage away.
GateHolds ==
    [][(~Published /\ Published')
          => \/ Sittable'
             \/ \E q \in Reqs :
                   /\ req[q].pc = "updateTest" /\ req'[q] = Idle
                   /\ (~req[q].fresh \/ req[q].sets.head = FALSE)
      ]_vars

\* A new item that nobody overtakes takes numbers that are free.
FreshNumbers ==
    [][\A q \in Reqs :
          (req[q].pc = "createQuestion" /\ req[q].to = None /\ req[q].fresh)
              => \A i \in DOMAIN question' \ DOMAIN question, j \in DOMAIN question :
                    req'[q] = Idle => Covered(i)' \cap Covered(j) = {}]_vars

\* Of the rows of siblings in a table, as left by moving one row to a place.
Contiguous(old, new, siblings, id, to) ==
    /\ {new[x].pos : x \in siblings} = 0..(Cardinality(siblings) - 1)
    /\ new[id].pos = Min({to, Cardinality(siblings) - 1})
    /\ \A x, y \in siblings \ {id} : old[x].pos < old[y].pos => new[x].pos < new[y].pos

\* "Moves a group and closes the gap it leaves": a move that nobody overtakes
\* puts the row where it was asked to go, leaves no holes and no doubles, and
\* keeps the order of the others; likewise for the questions of a group.
MovesAreContiguous ==
    [][\A q \in Reqs :
          LET l == req[q]
          IN  l.to # None /\ l.fresh /\ req'[q] = Idle =>
                /\ l.pc = "updateGroup"
                      => Contiguous(group, group', DOMAIN group, l.id, l.to)
                /\ l.pc = "updateQuestion"
                      => Contiguous(question, question', QuestionsIn(l.was.group),
                                    l.id, l.to)]_vars

=============================================================================
