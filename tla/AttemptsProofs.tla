--------------------------- MODULE AttemptsProofs ---------------------------
(***************************************************************************)
(* Theorems about Attempts for any number of candidates, papers, questions, *)
(* criteria and requests in flight: the type invariant, that a partial      *)
(* marking has no band, and that what is handed in settles.                 *)
(***************************************************************************)
EXTENDS Attempts, FiniteSetTheorems, TLAPS

Stored == Responses \cup BOOLEAN \cup {None} \cup Marks

\* A handler's locals.
Request ==
    [pc: Stages, user: Users \cup {None}, test: Tests \cup {None}, att: Ids \cup {None},
     data: Partial(Questions \cup Criteria, Stored),
     seen: SUBSET (Questions \cup Criteria), band: Nat \cup {None}, was: Nat \cup {None}]

\* What a request has loaded: an id that was stored, a payload that fits the
\* table it goes to, for a submission the marking of its paper, and for a band
\* an attempt that is scored completely as long as it exists.
Loaded(rq) ==
    /\ rq.pc \in {"startLook", "start"} => rq.user \in Users /\ rq.test \in Tests
    /\ rq.pc \in {"save", "submit", "score", "average", "band"} => rq.att \in used
    /\ rq.pc = "save" =>
          DOMAIN rq.data \subseteq Questions /\ \A x \in DOMAIN rq.data : rq.data[x] \in Responses
    /\ rq.pc = "submit" =>
          /\ DOMAIN rq.data \subseteq Questions
          /\ \A x \in DOMAIN rq.data : rq.data[x] \in BOOLEAN \cup {None}
          /\ rq.att \in DOMAIN attempt /\ attempt[rq.att].test \in Rubric =>
                \A x \in DOMAIN rq.data : rq.data[x] = None
    /\ rq.pc = "score" =>
          DOMAIN rq.data \subseteq Criteria /\ \A c \in DOMAIN rq.data : rq.data[c] \in Marks
    /\ rq.pc = "band" =>
          rq.band \in Nat /\ (rq.att \in DOMAIN attempt => Complete(rq.att))

\* What the handlers rely on between their steps.
HandlersOK == req \in [Reqs -> Request] /\ \A q \in Reqs : Loaded(req[q])

\* The inductive invariant of the type correctness proof, and the whole.
TInv == TypeOK /\ HandlersOK

IInv == TInv /\ PartialMarkingHasNoBand

-----------------------------------------------------------------------------
(* Rows and requests.                                                        *)

\* An attempt keeps its test and its scores for as long as it exists, and no
\* other attempt is ever found in its place.
RowsKept ==
    /\ used \subseteq used'
    /\ DOMAIN attempt' \cap used \subseteq DOMAIN attempt
    /\ \A a \in DOMAIN attempt \cap DOMAIN attempt' :
          attempt'[a].test = attempt[a].test /\ Scored(a) \subseteq Scored(a)'

\* An idle request is a request and has loaded nothing.
LEMMA IdleRequest == Idle \in Request /\ Idle.pc = "idle" /\ Loaded(Idle)
<1>1. Empty \in Partial(Questions \cup Criteria, Stored)
  <2>1. Empty \in [{} -> Stored] /\ {} \in SUBSET (Questions \cup Criteria)
    BY DEF Empty
  <2> QED
    BY <2>1 DEF Partial
<1> QED
  BY <1>1 DEF Idle, Request, Stages, Loaded

\* A request that has new locals leaves the others as they are.
LEMMA GoesType ==
    ASSUME HandlersOK, NEW q \in Reqs, NEW locals \in Request, Goes(q, locals)
    PROVE  /\ req' \in [Reqs -> Request]
           /\ req'[q] = locals
           /\ \A p \in Reqs \ {q} : req'[p] = req[p]
BY DEF HandlersOK, Goes

\* What a request has loaded still holds after every step that keeps the rows.
LEMMA StaysLoaded ==
    ASSUME HandlersOK, RowsKept, NEW q \in Reqs
    PROVE  /\ req'[q] = req[q] => Loaded(req[q])'
           /\ req'[q] = Idle => Loaded(req[q])'
<1>1. ASSUME NEW a \in used, a \in DOMAIN attempt'
      PROVE  /\ a \in DOMAIN attempt /\ attempt'[a].test = attempt[a].test
             /\ Complete(a) => Complete(a)'
  BY <1>1 DEF RowsKept, Complete, Scored
<1>2. ASSUME req'[q] = req[q] PROVE Loaded(req[q])'
  BY <1>1, <1>2 DEF HandlersOK, RowsKept, Loaded
<1>3. ASSUME req'[q] = Idle PROVE Loaded(req[q])'
  BY <1>3 DEF Loaded, Idle
<1> QED
  BY <1>2, <1>3

\* A payload is a function on part of its keys.
LEMMA PartialType ==
    ASSUME NEW S, NEW T, NEW f
    PROVE  f \in Partial(S, T) <=> DOMAIN f \subseteq S /\ f \in [DOMAIN f -> T]
BY DEF Partial

\* The marking of an attempt is a payload: None throughout for a paper that is
\* marked against criteria, right or wrong for one that has a key.
LEMMA MarkingType ==
    ASSUME NEW a
    PROVE  /\ DOMAIN Marking(a) \subseteq Questions
           /\ \A x \in DOMAIN Marking(a) : Marking(a)[x] \in BOOLEAN \cup {None}
           /\ attempt[a].test \in Rubric => \A x \in DOMAIN Marking(a) : Marking(a)[x] = None
           /\ Marking(a) \in Partial(Questions \cup Criteria, Stored)
<1>1. /\ DOMAIN Marking(a) \subseteq Questions
      /\ \A x \in DOMAIN Marking(a) : Marking(a)[x] \in BOOLEAN \cup {None}
      /\ attempt[a].test \in Rubric => \A x \in DOMAIN Marking(a) : Marking(a)[x] = None
      /\ Marking(a) = [x \in DOMAIN Marking(a) |-> Marking(a)[x]]
  BY DEF Marking, QuestionsOf
<1> QED
  BY <1>1, PartialType DEF Stored

\* A raw score is a number.
LEMMA RawType ==
    ASSUME NEW marking, DOMAIN marking \subseteq Questions
    PROVE  RawOf(marking) \in Nat /\ BandOf(marking) \in Nat \cup {None}
<1>1. {x \in DOMAIN marking : marking[x] = TRUE} \in SUBSET Questions
  OBVIOUS
<1>2. RawOf(marking) \in Nat
  BY <1>1, ContentAssumption, FS_Subset, FS_CardinalityType DEF RawOf
<1> QED
  BY <1>2 DEF BandOf

\* A marked answer is an answer.
LEMMA MarkedType ==
    ASSUME NEW p \in DOMAIN answer, answer[p] \in AnswerRow, NEW right \in BOOLEAN \cup {None}
    PROVE  Marked(p, right) \in AnswerRow
BY DEF Marked, AnswerRow


-----------------------------------------------------------------------------
(* Each write, and what it does to the rows.                                 *)

\* The tables are well typed.
TablesOK ==
    /\ published \subseteq Tests \ dropped
    /\ key \in [Questions -> Responses \cup {None}]
    /\ DOMAIN attempt \subseteq used /\ used \subseteq Ids
    /\ attempt \in [DOMAIN attempt -> AttemptRow]
    /\ DOMAIN answer \subseteq (DOMAIN attempt) \X Questions
    /\ answer \in [DOMAIN answer -> AnswerRow]
    /\ DOMAIN score \subseteq (DOMAIN attempt) \X Criteria
    /\ score \in [DOMAIN score -> Marks]

\* The answers that attempt a is left with are answers it had.
AnswersKept(a) ==
    \A p \in DOMAIN answer' : p[1] = a => p \in DOMAIN answer /\ answer'[p] = answer[p]

\* The type invariant has what TablesOK says.
LEMMA TablesTyped == TInv => TablesOK
BY DEF TInv, TypeOK, TablesOK

\* A new sitting: a row of its own, with neither answers nor scores nor a band.
LEMMA StartRows ==
    ASSUME TInv, NEW q \in Reqs, NEW a \in Ids, StartCommit(q, a)
    PROVE  /\ TablesOK' /\ RowsKept
           /\ DOMAIN attempt' \subseteq DOMAIN attempt \cup {a}
           /\ a \notin DOMAIN attempt
           /\ a \in DOMAIN attempt' => attempt'[a].band = None
           /\ \A b \in DOMAIN attempt : b \in DOMAIN attempt' /\ attempt'[b] = attempt[b]
           /\ UNCHANGED <<answer, score>>
<1>1. /\ a \notin used /\ a \notin DOMAIN attempt
      /\ UNCHANGED <<published, dropped, key, answer, score>>
      /\ TablesOK
  BY TablesTyped DEF StartCommit, Content, TInv, TypeOK
<1>2. CASE UNCHANGED <<attempt, used>>
  BY <1>1, <1>2 DEF TablesOK, RowsKept, Scored
<1>3. CASE ~ UNCHANGED <<attempt, used>>
  <2> DEFINE row == [user |-> req[q].user, test |-> req[q].test, status |-> "in_progress",
                     raw |-> None, band |-> None]
  <2>1. row \in AttemptRow
    BY DEF StartCommit, TInv, HandlersOK, Loaded, AttemptRow
  <2> HIDE DEF row
  <2>2. /\ attempt' = [x \in DOMAIN attempt \cup {a} |-> IF x = a THEN row ELSE attempt[x]]
        /\ used' = used \cup {a}
    BY <1>3 DEF StartCommit, row
  <2>3. /\ DOMAIN attempt' = DOMAIN attempt \cup {a}
        /\ attempt'[a] = row
        /\ \A b \in DOMAIN attempt : attempt'[b] = attempt[b]
        /\ attempt' \in [DOMAIN attempt' -> AttemptRow]
    BY <1>1, <2>1, <2>2 DEF TablesOK
  <2>4. row.band = None
    BY DEF row
  <2>5. TablesOK'
    BY <1>1, <2>2, <2>3 DEF TablesOK
  <2>6. RowsKept
    BY <1>1, <2>2, <2>3 DEF RowsKept, Scored
  <2> QED
    BY <1>1, <2>3, <2>4, <2>5, <2>6
<1> QED
  BY <1>2, <1>3

\* An autosave writes answers of the sitting it loaded, and of no other.
LEMMA SaveRows ==
    ASSUME TInv, NEW q \in Reqs, SaveCommit(q)
    PROVE  /\ TablesOK' /\ RowsKept
           /\ UNCHANGED <<attempt, score>>
           /\ \A a : a # req[q].att => AnswersKept(a)
<1> DEFINE a == req[q].att
           data == req[q].data
           rows == {a} \X (DOMAIN data)
<1>1. /\ TablesOK
      /\ DOMAIN data \subseteq Questions /\ \A x \in DOMAIN data : data[x] \in Responses
      /\ UNCHANGED <<attempt, score, used, published, dropped, key>>
  BY TablesTyped DEF SaveCommit, Content, TInv, HandlersOK, Loaded
<1>2. RowsKept
  BY <1>1 DEF RowsKept, Scored
<1>3. CASE UNCHANGED answer
  BY <1>1, <1>2, <1>3 DEF TablesOK, AnswersKept
<1>4. CASE ~ UNCHANGED answer
  <2>1. /\ a \in DOMAIN attempt
        /\ answer' = [p \in DOMAIN answer \cup rows |->
                        IF p \notin rows THEN answer[p]
                        ELSE IF p \in DOMAIN answer
                             THEN [answer[p] EXCEPT !.response = data[p[2]]]
                        ELSE [response |-> data[p[2]], correct |-> None, marks |-> 0]]
    BY <1>4 DEF SaveCommit, Writable
  <2> HIDE DEF data
  <2>2. \A p \in rows : p[1] = a /\ p[2] \in DOMAIN data
    OBVIOUS
  <2> HIDE DEF rows
  <2>3. DOMAIN answer' \subseteq (DOMAIN attempt) \X Questions
    BY <1>1, <2>1 DEF rows, TablesOK
  <2>4. answer' \in [DOMAIN answer' -> AnswerRow]
    <3>1. ASSUME NEW p \in DOMAIN answer' PROVE answer'[p] \in AnswerRow
      <4>1. CASE p \notin rows
        BY <1>1, <2>1, <4>1 DEF TablesOK
      <4>2. CASE p \in rows /\ p \in DOMAIN answer
        <5>1. answer[p] \in AnswerRow /\ data[p[2]] \in Responses
          BY <1>1, <2>2, <4>2 DEF TablesOK
        <5> QED
          BY <2>1, <4>2, <5>1 DEF AnswerRow
      <4>3. CASE p \in rows /\ p \notin DOMAIN answer
        <5>1. data[p[2]] \in Responses
          BY <1>1, <2>2, <4>3
        <5> QED
          BY <2>1, <4>3, <5>1 DEF AnswerRow
      <4> QED
        BY <4>1, <4>2, <4>3
    <3>2. answer' = [p \in DOMAIN answer' |-> answer'[p]]
      BY <2>1
    <3> QED
      BY <3>1, <3>2
  <2>5. \A b : b # a => AnswersKept(b)
    BY <2>1, <2>2 DEF AnswersKept
  <2> QED
    BY <1>1, <1>2, <2>3, <2>4, <2>5 DEF TablesOK
<1> QED
  BY <1>3, <1>4

\* A submission writes the result and the answers of the sitting it loaded, and
\* gives a paper marked against criteria no band.
LEMMA SubmitRows ==
    ASSUME TInv, NEW q \in Reqs, SubmitCommit(q)
    PROVE  /\ TablesOK' /\ RowsKept
           /\ UNCHANGED score
           /\ DOMAIN attempt' = DOMAIN attempt
           /\ \A a \in DOMAIN attempt :
                 attempt[a].test \in Rubric => attempt'[a].band \in {attempt[a].band, None}
           /\ \A a : a # req[q].att =>
                 AnswersKept(a) /\ (a \in DOMAIN attempt => attempt'[a] = attempt[a])
<1> DEFINE a == req[q].att
           marking == req[q].data
           blank == {a} \X (DOMAIN marking \ req[q].seen)
           touched == {x \in DOMAIN marking : marking[x] # None} \cap req[q].seen
           new == IF BandOf(marking) = req[q].was THEN attempt[a].band ELSE BandOf(marking)
<1>1. /\ TablesOK
      /\ DOMAIN marking \subseteq Questions
      /\ \A x \in DOMAIN marking : marking[x] \in BOOLEAN \cup {None}
      /\ a \in DOMAIN attempt /\ attempt[a].test \in Rubric =>
            \A x \in DOMAIN marking : marking[x] = None
      /\ UNCHANGED <<score, used, published, dropped, key>>
  BY TablesTyped DEF SubmitCommit, Content, TInv, HandlersOK, Loaded
<1>2. CASE UNCHANGED <<attempt, answer>>
  BY <1>1, <1>2 DEF TablesOK, RowsKept, Scored, AnswersKept
<1>3. CASE ~ UNCHANGED <<attempt, answer>>
  <2>1. /\ a \in DOMAIN attempt
        /\ touched \subseteq Answered(a)
        /\ blank \cap DOMAIN answer = {}
        /\ answer' = [p \in DOMAIN answer \cup blank |->
                        IF p \in blank
                        THEN [response |-> None, correct |-> marking[p[2]], marks |-> 0]
                        ELSE IF p \in {a} \X touched THEN Marked(p, marking[p[2]])
                        ELSE answer[p]]
        /\ attempt' = [attempt EXCEPT ![a].status = "submitted",
                                      ![a].raw = RawOf(marking),
                                      ![a].band = IF BandOf(marking) = req[q].was THEN @
                                                  ELSE BandOf(marking)]
    BY <1>3 DEF SubmitCommit
  <2>2. RawOf(marking) \in Nat /\ BandOf(marking) \in Nat \cup {None}
    BY <1>1, RawType
  <2>3. attempt[a].test \in Rubric => BandOf(marking) = None
    BY <1>1, <2>1 DEF BandOf
  <2>4. /\ \A p \in blank : p[1] = a /\ p[2] \in DOMAIN marking
        /\ \A p \in {a} \X touched : p[1] = a /\ p[2] \in DOMAIN marking
    OBVIOUS
  <2>5. DOMAIN answer' \subseteq (DOMAIN attempt) \X Questions
    BY <1>1, <2>1 DEF TablesOK
  <2> HIDE DEF marking, blank, touched
  <2>6. /\ DOMAIN attempt' = DOMAIN attempt
        /\ attempt'[a] = [attempt[a] EXCEPT !.status = "submitted", !.raw = RawOf(marking),
                                            !.band = new]
        /\ \A b \in DOMAIN attempt \ {a} : attempt'[b] = attempt[b]
    BY <1>1, <2>1 DEF TablesOK, AttemptRow
  <2>7. new \in Nat \cup {None} /\ (attempt[a].test \in Rubric => new \in {attempt[a].band, None})
    BY <1>1, <2>1, <2>2, <2>3 DEF TablesOK, AttemptRow
  <2> HIDE DEF new
  <2>8. /\ attempt'[a] \in AttemptRow
        /\ attempt'[a].band = new /\ attempt'[a].test = attempt[a].test
    <3>1. attempt[a] \in AttemptRow
      BY <1>1, <2>1 DEF TablesOK
    <3> DEFINE row == attempt[a]
               raw == RawOf(marking)
    <3>2. row \in AttemptRow /\ raw \in Nat \cup {None}
      BY <2>2, <3>1
    <3> HIDE DEF row, raw
    <3>3. [row EXCEPT !.status = "submitted", !.raw = raw, !.band = new] \in AttemptRow
      BY <2>7, <3>2 DEF AttemptRow
    <3>4. /\ [row EXCEPT !.status = "submitted", !.raw = raw, !.band = new].band = new
          /\ [row EXCEPT !.status = "submitted", !.raw = raw, !.band = new].test = row.test
      BY <3>2 DEF AttemptRow
    <3>5. attempt'[a] = [row EXCEPT !.status = "submitted", !.raw = raw, !.band = new]
      BY <2>6 DEF row, raw
    <3> QED
      BY <3>3, <3>4, <3>5 DEF row
  <2>9. attempt' \in [DOMAIN attempt' -> AttemptRow]
    <3>1. attempt' = [b \in DOMAIN attempt' |-> attempt'[b]]
      BY <2>1, <2>6
    <3> QED
      BY <1>1, <2>6, <2>8, <3>1 DEF TablesOK
  <2>10. answer' \in [DOMAIN answer' -> AnswerRow]
    <3>1. ASSUME NEW p \in DOMAIN answer' PROVE answer'[p] \in AnswerRow
      <4>1. CASE p \in blank
        <5>1. marking[p[2]] \in BOOLEAN \cup {None}
          BY <1>1, <2>4, <4>1 DEF marking
        <5>2. answer'[p] = [response |-> None, correct |-> marking[p[2]], marks |-> 0]
          BY <2>1, <4>1
        <5> QED
          BY <5>1, <5>2 DEF AnswerRow
      <4>2. CASE p \notin blank /\ p \in {a} \X touched
        <5>1. marking[p[2]] \in BOOLEAN \cup {None}
          BY <1>1, <2>4, <4>2 DEF marking
        <5>2. p \in DOMAIN answer /\ answer[p] \in AnswerRow
          BY <1>1, <2>1, <4>2 DEF TablesOK
        <5>3. answer'[p] = Marked(p, marking[p[2]])
          BY <2>1, <4>2, <5>2
        <5> QED
          BY <5>1, <5>2, <5>3, MarkedType
      <4>3. CASE p \notin blank /\ p \notin {a} \X touched
        BY <1>1, <2>1, <4>3 DEF TablesOK
      <4> QED
        BY <4>1, <4>2, <4>3
    <3>2. answer' = [p \in DOMAIN answer' |-> answer'[p]]
      BY <2>1
    <3> QED
      BY <3>1, <3>2
  <2>11. TablesOK'
    BY <1>1, <2>5, <2>6, <2>9, <2>10 DEF TablesOK
  <2>12. RowsKept
    BY <1>1, <2>6, <2>8 DEF RowsKept, Scored
  <2>13. \A b : b # a => AnswersKept(b)
    BY <2>1, <2>4 DEF AnswersKept
  <2> QED
    BY <1>1, <2>6, <2>7, <2>8, <2>11, <2>12, <2>13
<1> QED
  BY <1>2, <1>3

\* An examiner's scores are added to the attempt; none is taken away.
LEMMA ScoreRows ==
    ASSUME TInv, NEW q \in Reqs, ScoreCommit(q)
    PROVE  TablesOK' /\ RowsKept /\ UNCHANGED <<attempt, answer>>
<1> DEFINE a == req[q].att
           data == req[q].data
           rows == {a} \X (DOMAIN data)
<1>1. /\ TablesOK
      /\ DOMAIN data \subseteq Criteria /\ \A c \in DOMAIN data : data[c] \in Marks
      /\ UNCHANGED <<attempt, answer, used, published, dropped, key>>
  BY TablesTyped DEF ScoreCommit, Content, TInv, HandlersOK, Loaded
<1>2. CASE UNCHANGED score
  BY <1>1, <1>2 DEF TablesOK, RowsKept, Scored
<1>3. CASE ~ UNCHANGED score
  <2>1. /\ a \in DOMAIN attempt
        /\ score' = [p \in DOMAIN score \cup rows |-> IF p \in rows THEN data[p[2]] ELSE score[p]]
    BY <1>3 DEF ScoreCommit, Writable
  <2>2. DOMAIN score' \subseteq (DOMAIN attempt) \X Criteria
    BY <1>1, <2>1 DEF TablesOK
  <2>3. score' \in [DOMAIN score' -> Marks]
    BY <1>1, <2>1 DEF TablesOK
  <2>4. RowsKept
    BY <1>1, <2>1 DEF RowsKept, Scored
  <2> QED
    BY <1>1, <2>2, <2>3, <2>4 DEF TablesOK
<1> QED
  BY <1>2, <1>3

\* A band is stored for an attempt that is scored completely, and touches
\* nothing else.
LEMMA BandRows ==
    ASSUME TInv, NEW q \in Reqs, BandCommit(q)
    PROVE  /\ TablesOK' /\ RowsKept
           /\ UNCHANGED <<answer, score>>
           /\ DOMAIN attempt' = DOMAIN attempt
           /\ \A a \in DOMAIN attempt :
                 /\ attempt'[a].raw = attempt[a].raw
                 /\ attempt'[a].status = attempt[a].status
                 /\ attempt'[a].band = attempt[a].band \/ Complete(a)
<1> DEFINE a == req[q].att
<1>1. /\ TablesOK
      /\ req[q].band \in Nat /\ (a \in DOMAIN attempt => Complete(a))
      /\ UNCHANGED <<answer, score, used, published, dropped, key>>
  BY TablesTyped DEF BandCommit, Content, TInv, HandlersOK, Loaded
<1>2. /\ DOMAIN attempt' = DOMAIN attempt
      /\ \A b \in DOMAIN attempt :
            /\ attempt'[b].raw = attempt[b].raw
            /\ attempt'[b].status = attempt[b].status
            /\ attempt'[b].test = attempt[b].test
            /\ attempt'[b].band = attempt[b].band \/ Complete(b)
      /\ attempt' \in [DOMAIN attempt' -> AttemptRow]
  <2>1. CASE UNCHANGED attempt
    BY <1>1, <2>1 DEF TablesOK
  <2>2. CASE ~ UNCHANGED attempt
    <3>1. a \in DOMAIN attempt /\ attempt' = [attempt EXCEPT ![a].band = req[q].band]
      BY <2>2 DEF BandCommit
    <3> QED
      BY <1>1, <3>1 DEF TablesOK, AttemptRow
  <2> QED
    BY <2>1, <2>2
<1>3. TablesOK' /\ RowsKept
  BY <1>1, <1>2 DEF TablesOK, RowsKept, Scored
<1> QED
  BY <1>1, <1>2, <1>3

\* Deleting a question takes the answers to it along and nothing else.
LEMMA DeleteQuestionRows ==
    ASSUME TInv, NEW x \in Questions, DeleteQuestion(x)
    PROVE  /\ TablesOK' /\ RowsKept
           /\ UNCHANGED <<attempt, score, req>>
           /\ \A a : AnswersKept(a)
<1>1. /\ TablesOK
      /\ key' = [key EXCEPT ![x] = None]
      /\ answer' = [p \in {p \in DOMAIN answer : p[2] # x} |-> answer[p]]
      /\ UNCHANGED <<published, dropped, attempt, score, used, req>>
  BY TablesTyped DEF DeleteQuestion
<1>2. TablesOK'
  BY <1>1 DEF TablesOK
<1> QED
  BY <1>1, <1>2 DEF RowsKept, Scored, AnswersKept

\* Deleting a test takes its attempts along with all that hangs off them, and
\* leaves the others whole.
LEMMA DeleteTestRows ==
    ASSUME TInv, NEW t \in Tests, DeleteTest(t)
    PROVE  /\ TablesOK' /\ RowsKept
           /\ UNCHANGED req
           /\ DOMAIN attempt' \subseteq DOMAIN attempt
           /\ \A a \in DOMAIN attempt' : attempt'[a] = attempt[a] /\ AnswersKept(a)
<1> DEFINE kept == {a \in DOMAIN attempt : attempt[a].test # t}
<1>1. /\ TablesOK
      /\ dropped' = dropped \cup {t} /\ published' = published \ {t}
      /\ key' = [x \in Questions |-> IF TestOf[x] = t THEN None ELSE key[x]]
      /\ attempt' = [a \in kept |-> attempt[a]]
      /\ answer' = [p \in Owned(DOMAIN answer, kept) |-> answer[p]]
      /\ score' = [p \in Owned(DOMAIN score, kept) |-> score[p]]
      /\ UNCHANGED <<used, req>>
  BY TablesTyped DEF DeleteTest
<1>2. key' \in [Questions -> Responses \cup {None}]
  BY <1>1 DEF TablesOK
<1>3. /\ DOMAIN answer' \subseteq kept \X Questions /\ answer' \in [DOMAIN answer' -> AnswerRow]
      /\ DOMAIN score' \subseteq kept \X Criteria /\ score' \in [DOMAIN score' -> Marks]
  BY <1>1 DEF TablesOK, Owned
<1>4. TablesOK'
  BY <1>1, <1>2, <1>3 DEF TablesOK
<1>5. \A a \in kept : Scored(a) \subseteq Scored(a)'
  BY <1>1 DEF Scored, Owned
<1> QED
  BY <1>1, <1>4, <1>5 DEF RowsKept, AnswersKept, Owned

-----------------------------------------------------------------------------
(* Every step keeps what the handlers rely on.                               *)

\* A request that goes on with what it has loaded keeps the handlers in order.
LEMMA GoesOn ==
    ASSUME HandlersOK, RowsKept, NEW q \in Reqs, NEW locals \in Request,
           Goes(q, locals), Loaded(locals)'
    PROVE  HandlersOK'
<1>1. /\ req' \in [Reqs -> Request]
      /\ req'[q] = locals
      /\ \A p \in Reqs \ {q} : req'[p] = req[p]
  BY GoesType
<1>2. \A p \in Reqs \ {q} : Loaded(req[p])'
  BY <1>1, StaysLoaded
<1>3. Loaded(req[q])'
  BY <1>1 DEF Loaded
<1> QED
  BY <1>1, <1>2, <1>3 DEF HandlersOK

\* So does one that ends.
LEMMA EndsOK ==
    ASSUME HandlersOK, RowsKept, NEW q \in Reqs, Ends(q)
    PROVE  HandlersOK'
<1>1. Idle \in Request /\ Goes(q, Idle)
  BY IdleRequest DEF Ends
<1>2. /\ req' \in [Reqs -> Request]
      /\ req'[q] = Idle
      /\ \A p \in Reqs \ {q} : req'[p] = req[p]
  BY <1>1, GoesType
<1> QED
  BY <1>2, StaysLoaded DEF HandlersOK

\* And a step of none.
LEMMA NobodyMoves ==
    ASSUME HandlersOK, RowsKept, UNCHANGED req
    PROVE  HandlersOK'
BY StaysLoaded DEF HandlersOK

\* A step that only reads keeps the rows.
LEMMA ReadKeeps ==
    ASSUME TInv, UNCHANGED <<Table, Content>>
    PROVE  TablesOK' /\ RowsKept
<1>1. UNCHANGED <<published, dropped, key, attempt, answer, score, used>>
  BY DEF Table, Content
<1> QED
  BY <1>1, TablesTyped DEF TablesOK, RowsKept, Scored

\* What a start carries is the user and the test it was asked for.
LEMMA StartReadOK ==
    ASSUME TInv, NEW q \in Reqs, NEW u \in Users, NEW t \in Tests, StartRead(q, u, t)
    PROVE  HandlersOK'
<1> PICK l : l = [Idle EXCEPT !.pc = "startLook", !.user = u, !.test = t]
  OBVIOUS
<1>1. Goes(q, l) /\ RowsKept /\ HandlersOK
  BY ReadKeeps DEF StartRead, TInv
<1>2. l \in Request /\ l.pc = "startLook" /\ l.user = u /\ l.test = t
  BY IdleRequest DEF Request, Stages
<1>3. Loaded(l)'
  BY <1>2 DEF Loaded
<1> QED
  BY <1>1, <1>2, <1>3, GoesOn

\* It carries them on to the insert.
LEMMA StartLookOK ==
    ASSUME TInv, NEW q \in Reqs, StartLook(q)
    PROVE  HandlersOK'
<1>1. RowsKept /\ HandlersOK
  BY ReadKeeps DEF StartLook, TInv
<1>2. CASE Ends(q)
  BY <1>1, <1>2, EndsOK
<1>3. CASE Goes(q, [req[q] EXCEPT !.pc = "start"])
  <2> PICK l : l = [req[q] EXCEPT !.pc = "start"]
    OBVIOUS
  <2>1. /\ l \in Request /\ l.pc = "start"
        /\ l.user = req[q].user /\ l.test = req[q].test
    BY <1>1 DEF HandlersOK, Request, Stages
  <2>2. req[q].user \in Users /\ req[q].test \in Tests
    BY <1>1 DEF StartLook, HandlersOK, Loaded
  <2>3. Loaded(l)'
    BY <2>1, <2>2 DEF Loaded
  <2> QED
    BY <1>1, <1>3, <2>1, <2>3, GoesOn
<1> QED
  BY <1>2, <1>3 DEF StartLook

\* What an autosave carries are responses to questions, for a sitting that is stored.
LEMMA SaveReadOK ==
    ASSUME TInv, NEW q \in Reqs, NEW a \in Ids, NEW payload \in Partial(Questions, Responses),
           SaveRead(q, a, payload)
    PROVE  HandlersOK'
<1> DEFINE changed == {x \in DOMAIN payload \cap QuestionsOf(attempt[a].test) :
                          x \in Answered(a) => answer[<<a, x>>].response # payload[x]}
           data == [x \in changed |-> payload[x]]
<1> PICK l : l = [Idle EXCEPT !.pc = "save", !.att = a, !.seen = Answered(a), !.data = data]
  OBVIOUS
<1>1. /\ Goes(q, l) /\ RowsKept /\ HandlersOK /\ a \in used /\ used' = used
  BY ReadKeeps DEF SaveRead, TInv, TypeOK, Table
<1>2. /\ DOMAIN data \subseteq Questions
      /\ \A x \in DOMAIN data : data[x] \in Responses
  BY PartialType
<1>3. data \in Partial(Questions \cup Criteria, Stored)
  <2>1. data = [x \in DOMAIN data |-> data[x]]
    OBVIOUS
  <2> HIDE DEF data
  <2> QED
    BY <1>2, <2>1, PartialType DEF Stored
<1> HIDE DEF data
<1>4. Answered(a) \in SUBSET (Questions \cup Criteria)
  BY DEF Answered
<1>5. l \in Request /\ l.pc = "save" /\ l.att = a /\ l.data = data
  BY <1>3, <1>4, IdleRequest DEF Request, Stages
<1>6. Loaded(l)'
  BY <1>1, <1>2, <1>5 DEF Loaded
<1> QED
  BY <1>1, <1>5, <1>6, GoesOn

\* What a submission carries is the marking of a sitting that is stored.
LEMMA SubmitReadOK ==
    ASSUME TInv, NEW q \in Reqs, NEW a \in Ids, SubmitRead(q, a)
    PROVE  HandlersOK'
<1> PICK l : l = [Idle EXCEPT !.pc = "submit", !.att = a, !.seen = Answered(a),
                              !.data = Marking(a), !.was = attempt[a].band]
  OBVIOUS
<1>1. /\ Goes(q, l) /\ RowsKept /\ HandlersOK
      /\ a \in DOMAIN attempt /\ a \in used /\ used' = used /\ attempt' = attempt
      /\ attempt[a] \in AttemptRow
  BY ReadKeeps DEF SubmitRead, TInv, TypeOK, Table
<1>2. PICK m : /\ m = Marking(a)
               /\ DOMAIN m \subseteq Questions
               /\ \A x \in DOMAIN m : m[x] \in BOOLEAN \cup {None}
               /\ attempt[a].test \in Rubric => \A x \in DOMAIN m : m[x] = None
               /\ m \in Partial(Questions \cup Criteria, Stored)
  BY MarkingType
<1>3. Answered(a) \in SUBSET (Questions \cup Criteria) /\ attempt[a].band \in Nat \cup {None}
  BY <1>1 DEF Answered, AttemptRow
<1>4. l \in Request /\ l.pc = "submit" /\ l.att = a /\ l.data = m
  BY <1>2, <1>3, IdleRequest DEF Request, Stages
<1>5. Loaded(l)'
  BY <1>1, <1>2, <1>4 DEF Loaded
<1> QED
  BY <1>1, <1>4, <1>5, GoesOn

\* What an examiner carries are marks on criteria, for an attempt that is stored.
LEMMA ScoreReadOK ==
    ASSUME TInv, NEW q \in Reqs, NEW a \in Ids, NEW payload \in Partial(Criteria, Marks),
           ScoreRead(q, a, payload)
    PROVE  HandlersOK'
<1> DEFINE changed == {c \in DOMAIN payload : c \in Scored(a) => score[<<a, c>>] # payload[c]}
           data == [c \in changed |-> payload[c]]
<1> PICK l : l = [Idle EXCEPT !.pc = "score", !.att = a, !.seen = Scored(a), !.data = data]
  OBVIOUS
<1>1. /\ Goes(q, l) /\ RowsKept /\ HandlersOK /\ a \in used /\ used' = used
  BY ReadKeeps DEF ScoreRead, TInv, TypeOK, Table
<1>2. /\ DOMAIN data \subseteq Criteria
      /\ \A c \in DOMAIN data : data[c] \in Marks
  BY PartialType
<1>3. data \in Partial(Questions \cup Criteria, Stored)
  <2>1. data = [c \in DOMAIN data |-> data[c]]
    OBVIOUS
  <2> HIDE DEF data
  <2> QED
    BY <1>2, <2>1, PartialType DEF Stored
<1> HIDE DEF data
<1>4. Scored(a) \in SUBSET (Questions \cup Criteria)
  BY DEF Scored
<1>5. l \in Request /\ l.pc = "score" /\ l.att = a /\ l.data = data
  BY <1>3, <1>4, IdleRequest DEF Request, Stages
<1>6. Loaded(l)'
  BY <1>1, <1>2, <1>5 DEF Loaded
<1> QED
  BY <1>1, <1>5, <1>6, GoesOn

\* After the first commit the attempt is carried on to the second.
LEMMA ScoreCommitOK ==
    ASSUME TInv, NEW q \in Reqs, ScoreCommit(q)
    PROVE  HandlersOK'
<1>1. RowsKept /\ HandlersOK /\ req[q].att \in used /\ used' = used /\ req[q].att \in Ids
  BY ScoreRows DEF ScoreCommit, TInv, TypeOK, HandlersOK, Loaded
<1>2. CASE Ends(q)
  BY <1>1, <1>2, EndsOK
<1>3. CASE Goes(q, [Idle EXCEPT !.pc = "average", !.att = req[q].att])
  <2> PICK l : l = [Idle EXCEPT !.pc = "average", !.att = req[q].att]
    OBVIOUS
  <2>1. l \in Request /\ l.pc = "average" /\ l.att = req[q].att
    BY <1>1, IdleRequest DEF Request, Stages
  <2>2. Loaded(l)'
    BY <1>1, <2>1 DEF Loaded
  <2> QED
    BY <1>1, <1>3, <2>1, <2>2, GoesOn
<1> QED
  BY <1>2, <1>3 DEF ScoreCommit

\* A band is carried only for an attempt that is scored completely.
LEMMA AverageOK ==
    ASSUME TInv, NEW q \in Reqs, Average(q)
    PROVE  HandlersOK'
<1> DEFINE a == req[q].att
<1>1. /\ RowsKept /\ HandlersOK /\ a \in used
      /\ UNCHANGED <<attempt, score, used>>
  BY ReadKeeps DEF Average, Table, TInv, HandlersOK, Loaded
<1>2. CASE Ends(q)
  BY <1>1, <1>2, EndsOK
<1>3. CASE ~ Ends(q)
  <2>1. /\ a \in DOMAIN attempt /\ Complete(a)
        /\ Goes(q, [req[q] EXCEPT !.pc = "band", !.band = Total(a), !.was = attempt[a].band])
    BY <1>3 DEF Average
  <2>2. Total(a) \in Nat
    <3>1. \A c \in Criteria : score[<<a, c>>] \in Marks
      BY <2>1 DEF Complete, Scored, TInv, TypeOK
    <3> QED
      BY <3>1, ContentAssumption DEF Total
  <2>3. attempt[a].band \in Nat \cup {None}
    BY <2>1 DEF TInv, TypeOK, AttemptRow
  <2> PICK l : l = [req[q] EXCEPT !.pc = "band", !.band = Total(a), !.was = attempt[a].band]
    OBVIOUS
  <2>4. l \in Request /\ l.pc = "band" /\ l.att = a /\ l.band \in Nat
    BY <1>1, <2>2, <2>3 DEF HandlersOK, Request, Stages
  <2>5. l.att \in DOMAIN attempt' /\ Scored(l.att)' = Criteria /\ l.att \in used'
    BY <1>1, <2>1, <2>4 DEF Complete, Scored
  <2>6. Loaded(l)'
    BY <2>4, <2>5 DEF Loaded, Complete
  <2> QED
    BY <1>1, <2>1, <2>4, <2>6, GoesOn
<1> QED
  BY <1>2, <1>3

-----------------------------------------------------------------------------
(* The invariants.                                                           *)

\* What a step does to the bands: a new sitting has none, and one that changes
\* is cleared, is that of a paper with a key, or is that of a complete marking.
BandsFollow ==
    \A a \in DOMAIN attempt' :
        IF a \in DOMAIN attempt
        THEN \/ attempt'[a].band \in {attempt[a].band, None}
             \/ attempt[a].test \notin Rubric
             \/ Complete(a)
        ELSE attempt'[a].band = None

\* Every step keeps the tables, their rows, the handlers and the bands in order.
LEMMA EveryStep ==
    ASSUME TInv, [Next]_vars
    PROVE  TablesOK' /\ RowsKept /\ HandlersOK' /\ BandsFollow
<1>h. HandlersOK
  BY DEF TInv
<1>b. UNCHANGED attempt => BandsFollow
  BY DEF BandsFollow
<1>0. ASSUME UNCHANGED <<Table, Content>> PROVE TablesOK' /\ RowsKept /\ BandsFollow
  BY <1>0, <1>b, ReadKeeps DEF Table
<1>1. ASSUME NEW q \in Reqs, NEW u \in Users, NEW t \in Tests, StartRead(q, u, t)
      PROVE  TablesOK' /\ RowsKept /\ HandlersOK' /\ BandsFollow
  BY <1>0, <1>1, StartReadOK DEF StartRead
<1>2. ASSUME NEW q \in Reqs, StartLook(q)
      PROVE  TablesOK' /\ RowsKept /\ HandlersOK' /\ BandsFollow
  BY <1>0, <1>2, StartLookOK DEF StartLook
<1>3. ASSUME NEW q \in Reqs, NEW a \in Ids, StartCommit(q, a)
      PROVE  TablesOK' /\ RowsKept /\ HandlersOK' /\ BandsFollow
  <2>1. TablesOK' /\ RowsKept /\ BandsFollow
    BY <1>3, StartRows DEF BandsFollow
  <2> QED
    BY <1>h, <1>3, <2>1, EndsOK DEF StartCommit
<1>4. ASSUME NEW q \in Reqs, NEW a \in Ids, NEW payload \in Partial(Questions, Responses),
             SaveRead(q, a, payload)
      PROVE  TablesOK' /\ RowsKept /\ HandlersOK' /\ BandsFollow
  BY <1>0, <1>4, SaveReadOK DEF SaveRead
<1>5. ASSUME NEW q \in Reqs, NEW a \in Ids, SubmitRead(q, a)
      PROVE  TablesOK' /\ RowsKept /\ HandlersOK' /\ BandsFollow
  BY <1>0, <1>5, SubmitReadOK DEF SubmitRead
<1>6. ASSUME NEW q \in Reqs, NEW a \in Ids, NEW payload \in Partial(Criteria, Marks),
             ScoreRead(q, a, payload)
      PROVE  TablesOK' /\ RowsKept /\ HandlersOK' /\ BandsFollow
  BY <1>0, <1>6, ScoreReadOK DEF ScoreRead
<1>7. ASSUME NEW q \in Reqs, SaveCommit(q)
      PROVE  TablesOK' /\ RowsKept /\ HandlersOK' /\ BandsFollow
  <2>1. TablesOK' /\ RowsKept /\ BandsFollow
    BY <1>b, <1>7, SaveRows
  <2> QED
    BY <1>h, <1>7, <2>1, EndsOK DEF SaveCommit
<1>8. ASSUME NEW q \in Reqs, SubmitCommit(q)
      PROVE  TablesOK' /\ RowsKept /\ HandlersOK' /\ BandsFollow
  <2>1. TablesOK' /\ RowsKept /\ BandsFollow
    BY <1>8, SubmitRows DEF BandsFollow
  <2> QED
    BY <1>h, <1>8, <2>1, EndsOK DEF SubmitCommit
<1>9. ASSUME NEW q \in Reqs, ScoreCommit(q)
      PROVE  TablesOK' /\ RowsKept /\ HandlersOK' /\ BandsFollow
  BY <1>b, <1>9, ScoreRows, ScoreCommitOK
<1>10. ASSUME NEW q \in Reqs, Average(q)
       PROVE  TablesOK' /\ RowsKept /\ HandlersOK' /\ BandsFollow
  BY <1>0, <1>10, AverageOK DEF Average
<1>11. ASSUME NEW q \in Reqs, BandCommit(q)
       PROVE  TablesOK' /\ RowsKept /\ HandlersOK' /\ BandsFollow
  <2>1. TablesOK' /\ RowsKept /\ BandsFollow
    BY <1>11, BandRows DEF BandsFollow
  <2> QED
    BY <1>h, <1>11, <2>1, EndsOK DEF BandCommit
<1>12. ASSUME NEW t \in Tests, SetStatus(t)
       PROVE  TablesOK' /\ RowsKept /\ HandlersOK' /\ BandsFollow
  <2>1. TablesOK' /\ RowsKept
    BY <1>12, TablesTyped DEF SetStatus, Table, TablesOK, RowsKept, Scored
  <2> QED
    BY <1>b, <1>h, <1>12, <2>1, NobodyMoves DEF SetStatus, Table
<1>13. ASSUME NEW x \in Questions, NEW r \in Responses, SetKey(x, r)
       PROVE  TablesOK' /\ RowsKept /\ HandlersOK' /\ BandsFollow
  <2>1. TablesOK' /\ RowsKept
    BY <1>13, TablesTyped DEF SetKey, Table, TablesOK, RowsKept, Scored
  <2> QED
    BY <1>b, <1>h, <1>13, <2>1, NobodyMoves DEF SetKey, Table
<1>14. ASSUME NEW x \in Questions, DeleteQuestion(x)
       PROVE  TablesOK' /\ RowsKept /\ HandlersOK' /\ BandsFollow
  BY <1>b, <1>h, <1>14, DeleteQuestionRows, NobodyMoves
<1>15. ASSUME NEW t \in Tests, DeleteTest(t)
       PROVE  TablesOK' /\ RowsKept /\ HandlersOK' /\ BandsFollow
  BY <1>h, <1>15, DeleteTestRows, NobodyMoves DEF BandsFollow
<1>16. CASE UNCHANGED vars
  BY <1>0, <1>h, <1>16, NobodyMoves DEF vars, Table, Content
<1> QED
  BY <1>1, <1>2, <1>3, <1>4, <1>5, <1>6, <1>7, <1>8, <1>9, <1>10, <1>11, <1>12, <1>13,
     <1>14, <1>15, <1>16 DEF Next

\* Initially nobody sits anything.
LEMMA Initially == Init => TInv /\ PartialMarkingHasNoBand
<1> SUFFICES ASSUME Init PROVE TInv /\ PartialMarkingHasNoBand
  OBVIOUS
<1>1. \A q \in Reqs : req[q] = Idle
  BY DEF Init
<1>2. TypeOK
  BY <1>1, IdleRequest DEF Init, TypeOK, Empty, Stages
<1>3. HandlersOK
  BY <1>1, IdleRequest DEF Init, HandlersOK
<1> QED
  BY <1>2, <1>3 DEF TInv, Init, PartialMarkingHasNoBand, Empty

\* Every step keeps the invariant: a band that is there to stay belongs to a
\* complete marking, since scores are never taken away from an attempt.
LEMMA InvStep == IInv /\ [Next]_vars => IInv'
<1> SUFFICES ASSUME IInv, [Next]_vars PROVE IInv'
  OBVIOUS
<1>1. TInv /\ PartialMarkingHasNoBand
  BY DEF IInv
<1>2. TablesOK' /\ RowsKept /\ HandlersOK' /\ BandsFollow
  BY <1>1, EveryStep
<1>3. TInv'
  BY <1>2 DEF TInv, TablesOK, TypeOK, HandlersOK, Request
<1>4. ASSUME NEW a \in DOMAIN attempt', attempt'[a].test \in Rubric, attempt'[a].band # None
      PROVE  Scored(a)' = Criteria
  <2>1. a \in DOMAIN attempt
    BY <1>4, <1>2 DEF BandsFollow
  <2>2. attempt'[a].test = attempt[a].test /\ Scored(a) \subseteq Scored(a)'
    BY <1>2, <1>4, <2>1 DEF RowsKept
  <2>3. Scored(a) = Criteria
    BY <1>1, <1>2, <1>4, <2>1, <2>2 DEF BandsFollow, Complete, PartialMarkingHasNoBand
  <2> QED
    BY <2>2, <2>3 DEF Scored
<1> QED
  BY <1>3, <1>4 DEF IInv, PartialMarkingHasNoBand

\* What TypeOK and the handlers' locals say holds of every behaviour.
THEOREM TypeCorrect == Spec => [](TInv /\ PartialMarkingHasNoBand)
<1>1. Init => IInv
  BY Initially DEF IInv
<1>2. IInv => TInv /\ PartialMarkingHasNoBand
  BY DEF IInv
<1> QED
  BY <1>1, <1>2, InvStep, PTL DEF Spec

\* The tables of attempts.py hold what their columns and foreign keys allow,
\* and no id is ever stored twice.
THEOREM TypeInvariant == Spec => []TypeOK
<1>1. TInv => TypeOK
  BY DEF TInv
<1> QED
  BY <1>1, TypeCorrect, PTL

\* "A partial marking is not a band": however examiners, submissions and the
\* two commits of score_criteria interleave, a rubric-marked attempt that has a
\* band has a score on every criterion.
THEOREM PartialMarkingTheorem == Spec => []PartialMarkingHasNoBand
BY TypeCorrect, PTL

-----------------------------------------------------------------------------
(* What is handed in settles.                                                *)

\* A request that comes to carry an autosave or a submission was let in by the
\* status of its attempt.
LetIn ==
    \A p \in Reqs :
        req'[p].pc \in {"save", "submit"} =>
            \/ req'[p] = req[p]
            \/ /\ req'[p].att \in DOMAIN attempt
               /\ attempt[req'[p].att].status # "submitted"

\* What a step leaves attempt a with.
Stands(a) ==
    a \in DOMAIN attempt' =>
        /\ attempt'[a].status = attempt[a].status
        /\ attempt'[a].raw = attempt[a].raw
        /\ AnswersKept(a)

\* A request that goes on elsewhere, or ends, lets nothing in.
LEMMA OthersLetIn ==
    ASSUME HandlersOK, NEW q \in Reqs, NEW locals \in Request, Goes(q, locals),
           locals.pc \notin {"save", "submit"}
    PROVE  LetIn
<1>1. /\ req'[q] = locals
      /\ \A p \in Reqs \ {q} : req'[p] = req[p]
  BY GoesType
<1> QED
  BY <1>1 DEF LetIn

\* Every step lets in only what the status allows.
LEMMA StepLetsIn ==
    ASSUME TInv, [Next]_vars
    PROVE  LetIn
<1>h. HandlersOK
  BY DEF TInv
<1>e. ASSUME NEW q \in Reqs, Ends(q) PROVE LetIn
  BY <1>e, <1>h, IdleRequest, OthersLetIn DEF Ends
<1>u. UNCHANGED req => LetIn
  BY DEF LetIn
<1>1. ASSUME NEW q \in Reqs, NEW u \in Users, NEW t \in Tests, StartRead(q, u, t)
      PROVE  LetIn
  <2>1. /\ [Idle EXCEPT !.pc = "startLook", !.user = u, !.test = t] \in Request
        /\ [Idle EXCEPT !.pc = "startLook", !.user = u, !.test = t].pc = "startLook"
    BY IdleRequest DEF Request, Stages
  <2> QED
    BY <1>1, <1>h, <2>1, OthersLetIn DEF StartRead
<1>2. ASSUME NEW q \in Reqs, StartLook(q) PROVE LetIn
  <2>1. [req[q] EXCEPT !.pc = "start"] \in Request /\ [req[q] EXCEPT !.pc = "start"].pc = "start"
    BY <1>h DEF HandlersOK, Request, Stages
  <2> QED
    BY <1>2, <1>e, <1>h, <2>1, OthersLetIn DEF StartLook
<1>3. ASSUME NEW q \in Reqs, NEW a \in Ids, NEW payload \in Partial(Questions, Responses),
             SaveRead(q, a, payload)
      PROVE  LetIn
  <2> PICK data : req' = [req EXCEPT ![q] =
                     [Idle EXCEPT !.pc = "save", !.att = a, !.seen = Answered(a), !.data = data]]
    BY <1>3 DEF SaveRead, Goes
  <2>1. /\ req'[q].att = a
        /\ \A p \in Reqs \ {q} : req'[p] = req[p]
    BY <1>h, IdleRequest DEF HandlersOK, Request
  <2> QED
    BY <1>3, <2>1 DEF LetIn, SaveRead, Savable
<1>4. ASSUME NEW q \in Reqs, NEW a \in Ids, SubmitRead(q, a) PROVE LetIn
  <2>1. /\ req'[q].att = a
        /\ \A p \in Reqs \ {q} : req'[p] = req[p]
    BY <1>4, <1>h, IdleRequest DEF SubmitRead, Goes, HandlersOK, Request
  <2> QED
    BY <1>4, <2>1 DEF LetIn, SubmitRead, Submittable
<1>5. ASSUME NEW q \in Reqs, NEW a \in Ids, NEW payload \in Partial(Criteria, Marks),
             ScoreRead(q, a, payload)
      PROVE  LetIn
  <2> PICK data : req' = [req EXCEPT ![q] =
                     [Idle EXCEPT !.pc = "score", !.att = a, !.seen = Scored(a), !.data = data]]
    BY <1>5 DEF ScoreRead, Goes
  <2>1. /\ req'[q].pc = "score"
        /\ \A p \in Reqs \ {q} : req'[p] = req[p]
    BY <1>h, IdleRequest DEF HandlersOK, Request
  <2> QED
    BY <2>1 DEF LetIn
<1>6. ASSUME NEW q \in Reqs, ScoreCommit(q) PROVE LetIn
  <2>1. /\ [Idle EXCEPT !.pc = "average", !.att = req[q].att] \in Request
        /\ [Idle EXCEPT !.pc = "average", !.att = req[q].att].pc = "average"
    BY <1>h, IdleRequest DEF HandlersOK, Request, Stages
  <2> QED
    BY <1>6, <1>e, <1>h, <2>1, OthersLetIn DEF ScoreCommit
<1>7. ASSUME NEW q \in Reqs, Average(q) PROVE LetIn
  <2>1. CASE Ends(q)
    BY <1>e, <2>1
  <2>2. CASE ~ Ends(q)
    <3> PICK band, was : req' = [req EXCEPT ![q] = [req[q] EXCEPT !.pc = "band", !.band = band,
                                                                  !.was = was]]
      BY <1>7, <2>2 DEF Average, Goes
    <3>1. req'[q].pc = "band" /\ \A p \in Reqs \ {q} : req'[p] = req[p]
      BY <1>h DEF HandlersOK, Request
    <3> QED
      BY <3>1 DEF LetIn
  <2> QED
    BY <2>1, <2>2
<1>8. ASSUME NEW q \in Reqs, NEW a \in Ids, StartCommit(q, a) PROVE LetIn
  BY <1>8, <1>e DEF StartCommit
<1>9. ASSUME NEW q \in Reqs, SaveCommit(q) \/ SubmitCommit(q) \/ BandCommit(q) PROVE LetIn
  BY <1>9, <1>e DEF SaveCommit, SubmitCommit, BandCommit
<1>10. ASSUME NEW t \in Tests, SetStatus(t) \/ DeleteTest(t) PROVE LetIn
  BY <1>10, <1>u DEF SetStatus, DeleteTest
<1>11. ASSUME NEW x \in Questions, NEW r \in Responses, SetKey(x, r) PROVE LetIn
  BY <1>11, <1>u DEF SetKey
<1>12. ASSUME NEW x \in Questions, DeleteQuestion(x) PROVE LetIn
  BY <1>12, <1>u DEF DeleteQuestion
<1>13. CASE UNCHANGED vars
  BY <1>13, <1>u DEF vars
<1> QED
  BY <1>1, <1>2, <1>3, <1>4, <1>5, <1>6, <1>7, <1>8, <1>9, <1>10, <1>11, <1>12, <1>13 DEF Next

\* Only the autosave and the submission of an attempt itself move it.
LEMMA OthersStand ==
    ASSUME TInv, [Next]_vars, NEW a \in DOMAIN attempt,
           ~ Busy(a, {"save", "submit"})
    PROVE  Stands(a)
<1>u. UNCHANGED <<attempt, answer>> => Stands(a)
  BY DEF Stands, AnswersKept
<1>1. ASSUME NEW q \in Reqs, NEW b \in Ids, StartCommit(q, b) PROVE Stands(a)
  BY <1>1, StartRows DEF Stands, AnswersKept
<1>2. ASSUME NEW q \in Reqs, SaveCommit(q) PROVE Stands(a)
  <2>1. a # req[q].att
    BY <1>2 DEF SaveCommit, Busy
  <2> QED
    BY <1>2, <2>1, SaveRows DEF Stands
<1>3. ASSUME NEW q \in Reqs, SubmitCommit(q) PROVE Stands(a)
  <2>1. a # req[q].att
    BY <1>3 DEF SubmitCommit, Busy
  <2> QED
    BY <1>3, <2>1, SubmitRows DEF Stands
<1>4. ASSUME NEW q \in Reqs, ScoreCommit(q) PROVE Stands(a)
  BY <1>4, <1>u, ScoreRows
<1>5. ASSUME NEW q \in Reqs, BandCommit(q) PROVE Stands(a)
  BY <1>5, BandRows DEF Stands, AnswersKept
<1>6. ASSUME NEW t \in Tests, DeleteTest(t) PROVE Stands(a)
  BY <1>6, DeleteTestRows DEF Stands
<1>7. ASSUME NEW x \in Questions, DeleteQuestion(x) PROVE Stands(a)
  BY <1>7, DeleteQuestionRows DEF Stands
<1>8. ASSUME NEW q \in Reqs, NEW u \in Users, NEW t \in Tests, StartRead(q, u, t)
      PROVE  Stands(a)
  BY <1>8, <1>u DEF StartRead, Table
<1>9. ASSUME NEW q \in Reqs, StartLook(q) \/ Average(q) PROVE Stands(a)
  BY <1>9, <1>u DEF StartLook, Average, Table
<1>10. ASSUME NEW q \in Reqs, NEW b \in Ids, NEW payload \in Partial(Questions, Responses),
              SaveRead(q, b, payload)
       PROVE  Stands(a)
  BY <1>10, <1>u DEF SaveRead, Table
<1>11. ASSUME NEW q \in Reqs, NEW b \in Ids, SubmitRead(q, b) PROVE Stands(a)
  BY <1>11, <1>u DEF SubmitRead, Table
<1>12. ASSUME NEW q \in Reqs, NEW b \in Ids, NEW payload \in Partial(Criteria, Marks),
              ScoreRead(q, b, payload)
       PROVE  Stands(a)
  BY <1>12, <1>u DEF ScoreRead, Table
<1>13. ASSUME NEW t \in Tests, SetStatus(t) PROVE Stands(a)
  BY <1>13, <1>u DEF SetStatus, Table
<1>14. ASSUME NEW x \in Questions, NEW r \in Responses, SetKey(x, r) PROVE Stands(a)
  BY <1>14, <1>u DEF SetKey, Table
<1>15. CASE UNCHANGED vars
  BY <1>15, <1>u DEF vars
<1> QED
  BY <1>1, <1>2, <1>3, <1>4, <1>5, <1>6, <1>7, <1>8, <1>9, <1>10, <1>11, <1>12, <1>13,
     <1>14, <1>15 DEF Next

\* Once an attempt is handed in and the autosaves and submissions in flight
\* have ended, nothing changes its answers, its marks or its raw score, and it
\* stays that way: save_answers and submit_attempt look at the status first,
\* and no other handler writes what they write.
THEOREM ResultSettlesTheorem == Spec => ResultSettles
<1> DEFINE Kept == \A a \in DOMAIN attempt :
                      Settled(a) /\ a \in DOMAIN attempt' =>
                          /\ Settled(a)'
                          /\ attempt'[a].raw = attempt[a].raw
                          /\ \A p \in DOMAIN answer' :
                                p[1] = a => p \in DOMAIN answer /\ answer'[p] = answer[p]
<1>1. ASSUME TInv, [Next]_vars PROVE Kept
  <2> SUFFICES ASSUME NEW a \in DOMAIN attempt, Settled(a), a \in DOMAIN attempt'
               PROVE  /\ Settled(a)'
                      /\ attempt'[a].raw = attempt[a].raw
                      /\ \A p \in DOMAIN answer' :
                            p[1] = a => p \in DOMAIN answer /\ answer'[p] = answer[p]
    OBVIOUS
  <2>1. attempt[a].status = "submitted" /\ ~ Busy(a, {"save", "submit"})
    BY DEF Settled, Submitted
  <2>2. Stands(a) /\ LetIn
    BY <1>1, <2>1, OthersStand, StepLetsIn
  <2>3. Submitted(a)'
    BY <2>1, <2>2 DEF Stands, Submitted
  <2>4. ~ Busy(a, {"save", "submit"})'
    BY <2>1, <2>2 DEF LetIn, Busy
  <2> QED
    BY <2>2, <2>3, <2>4 DEF Stands, AnswersKept, Settled
<1>2. TInv /\ [Next]_vars => [Kept]_vars
  BY <1>1
<1> QED
  BY <1>2, TypeCorrect, PTL DEF Spec, ResultSettles

-----------------------------------------------------------------------------
(* One handler at a time.                                                    *)

\* At most one handler is at work.
Alone == \A p, q \in Reqs : req[p] # Idle /\ req[q] # Idle => p = q

\* The answers that have earned their mark.
Earned(a) == {x \in Answered(a) : answer[<<a, x>>].marks = 1}

\* What holds between the steps of handlers that never overlap: nobody saves
\* to or submits what is submitted, a sitting that is about to be inserted is
\* the first, and marks are given by a submission only.
AloneInv ==
    /\ Alone
    /\ OneOpenSitting
    /\ RawCoversMarks
    /\ \A a \in DOMAIN attempt :
          IF Submitted(a) THEN ~ Busy(a, {"save", "submit"}) /\ attempt[a].raw \in Nat
          ELSE Earned(a) = {}
    /\ \A q \in Reqs : req[q].pc = "start" => Open(req[q].user, req[q].test) = {}

\* A step without an insert leaves every sitting with its owner and its status,
\* or hands in one that a submission had loaded.
Stay ==
    \A a \in DOMAIN attempt' :
        /\ a \in DOMAIN attempt
        /\ attempt'[a].user = attempt[a].user /\ attempt'[a].test = attempt[a].test
        /\ \/ attempt'[a].status = attempt[a].status
           \/ attempt'[a].status = "submitted"

\* A submission of a with this marking writes nothing, or the result and a mark
\* for nothing but what was right.
Submission(a, marking) ==
    \/ UNCHANGED <<attempt, answer>>
    \/ /\ a \in DOMAIN attempt
       /\ attempt'[a].status = "submitted" /\ attempt'[a].raw = RawOf(marking)
       /\ \A x \in Earned(a)' \ Earned(a) : x \in DOMAIN marking /\ marking[x] = TRUE

\* A submission marks the sitting it loaded, if it writes anything: an answer
\* earns its mark only where it was found right.
LEMMA SubmitMarks ==
    ASSUME TInv, NEW q \in Reqs, SubmitCommit(q),
           NEW a, a = req[q].att, NEW marking, marking = req[q].data
    PROVE  Stay /\ Submission(a, marking)
<1> DEFINE blank == {a} \X (DOMAIN marking \ req[q].seen)
           touched == {x \in DOMAIN marking : marking[x] # None} \cap req[q].seen
<1>1. TablesOK
  BY TablesTyped
<1>2. CASE UNCHANGED <<attempt, answer>>
  BY <1>1, <1>2 DEF Stay, Submission
<1>3. CASE ~ UNCHANGED <<attempt, answer>>
  <2>1. /\ a \in DOMAIN attempt
        /\ answer' = [p \in DOMAIN answer \cup blank |->
                        IF p \in blank
                        THEN [response |-> None, correct |-> marking[p[2]], marks |-> 0]
                        ELSE IF p \in {a} \X touched THEN Marked(p, marking[p[2]])
                        ELSE answer[p]]
        /\ attempt' = [attempt EXCEPT ![a].status = "submitted",
                                      ![a].raw = RawOf(marking),
                                      ![a].band = IF BandOf(marking) = req[q].was THEN @
                                                  ELSE BandOf(marking)]
    BY <1>3 DEF SubmitCommit
  <2>2. /\ DOMAIN attempt' = DOMAIN attempt
        /\ attempt'[a].status = "submitted" /\ attempt'[a].raw = RawOf(marking)
        /\ attempt'[a].user = attempt[a].user /\ attempt'[a].test = attempt[a].test
        /\ \A b \in DOMAIN attempt \ {a} : attempt'[b] = attempt[b]
    <3>1. attempt[a] \in AttemptRow
      BY <1>1, <2>1 DEF TablesOK
    <3> QED
      BY <2>1, <3>1 DEF AttemptRow
  <2>3. ASSUME NEW x \in Earned(a)', x \notin Earned(a)
        PROVE  x \in DOMAIN marking /\ marking[x] = TRUE
    <3> DEFINE p == <<a, x>>
    <3>1. p \in DOMAIN answer' /\ answer'[p].marks = 1 /\ x \in Questions
      BY <2>3 DEF Earned, Answered
    <3>2. p \notin blank
      BY <2>1, <3>1
    <3>3. p \in DOMAIN answer /\ answer[p] \in AnswerRow /\ answer[p].marks # 1
      BY <1>1, <2>1, <2>3, <3>1, <3>2 DEF Earned, Answered, TablesOK
    <3>4. CASE x \in touched
      <4>1. answer'[p] = Marked(p, marking[x])
        BY <2>1, <3>2, <3>3, <3>4
      <4>2. marking[x] = TRUE
        BY <3>1, <3>3, <4>1 DEF Marked, AnswerRow
      <4> QED
        BY <3>4, <4>2
    <3>5. CASE x \notin touched
      <4>1. answer'[p] = answer[p]
        BY <2>1, <3>2, <3>3, <3>5
      <4> QED
        BY <3>1, <3>3, <4>1
    <3> QED
      BY <3>4, <3>5
  <2>4. Stay
    BY <2>2 DEF Stay
  <2> QED
    BY <2>1, <2>2, <2>3, <2>4 DEF Submission
<1> QED
  BY <1>2, <1>3

\* An autosave gives no marks.
LEMMA SaveMarksNothing ==
    ASSUME TInv, NEW q \in Reqs, SaveCommit(q), NEW a
    PROVE  Earned(a)' \subseteq Earned(a)
<1> DEFINE data == req[q].data
           rows == {req[q].att} \X (DOMAIN data)
<1>1. TablesOK
  BY TablesTyped
<1>2. CASE UNCHANGED answer
  BY <1>2 DEF Earned, Answered
<1>3. CASE ~ UNCHANGED answer
  <2>1. answer' = [p \in DOMAIN answer \cup rows |->
                      IF p \notin rows THEN answer[p]
                      ELSE IF p \in DOMAIN answer
                           THEN [answer[p] EXCEPT !.response = data[p[2]]]
                      ELSE [response |-> data[p[2]], correct |-> None, marks |-> 0]]
    BY <1>3 DEF SaveCommit
  <2> HIDE DEF data, rows
  <2>2. ASSUME NEW p \in DOMAIN answer', answer'[p].marks = 1
        PROVE  p \in DOMAIN answer /\ answer[p].marks = 1
    BY <1>1, <2>1, <2>2 DEF TablesOK, AnswerRow
  <2> QED
    BY <2>2 DEF Earned, Answered
<1> QED
  BY <1>2, <1>3

\* Answers that are kept have the marks they had.
LEMMA KeptMarks ==
    ASSUME NEW a, AnswersKept(a)
    PROVE  Earned(a)' \subseteq Earned(a)
BY DEF AnswersKept, Earned, Answered


\* A sitting that keeps its owner and its status and earns nothing.
Keeps(a) ==
    /\ a \in DOMAIN attempt
    /\ attempt'[a].user = attempt[a].user /\ attempt'[a].test = attempt[a].test
    /\ attempt'[a].status = attempt[a].status
    /\ Earned(a)' \subseteq Earned(a)

\* Only an insert, a submission and a deletion do more to a sitting.
LEMMA Fates ==
    ASSUME TInv, [Next]_vars
    PROVE  \/ \E q \in Reqs, a \in Ids : StartCommit(q, a)
           \/ \E q \in Reqs : SubmitCommit(q)
           \/ \A a \in DOMAIN attempt' : Keeps(a)
<1> DEFINE AllKeep == \A a \in DOMAIN attempt' : Keeps(a)
<1>u. UNCHANGED <<attempt, answer>> => AllKeep
  BY DEF Keeps, Earned, Answered
<1>1. ASSUME NEW q \in Reqs, SaveCommit(q) PROVE AllKeep
  BY <1>1, SaveRows, SaveMarksNothing DEF Keeps
<1>2. ASSUME NEW q \in Reqs, ScoreCommit(q) PROVE AllKeep
  BY <1>2, <1>u, ScoreRows
<1>3. ASSUME NEW q \in Reqs, BandCommit(q) PROVE AllKeep
  <2> DEFINE b == req[q].att
  <2>1. /\ UNCHANGED answer
        /\ \/ UNCHANGED attempt
           \/ attempt' = [attempt EXCEPT ![b].band = req[q].band]
    BY <1>3 DEF BandCommit
  <2>2. attempt \in [DOMAIN attempt -> AttemptRow]
    BY DEF TInv, TypeOK
  <2>3. ASSUME NEW a \in DOMAIN attempt'
        PROVE  /\ a \in DOMAIN attempt
               /\ attempt'[a].user = attempt[a].user /\ attempt'[a].test = attempt[a].test
               /\ attempt'[a].status = attempt[a].status
    BY <2>1, <2>2 DEF AttemptRow
  <2>4. \A a : Earned(a)' = Earned(a)
    BY <2>1 DEF Earned, Answered
  <2> QED
    BY <2>3, <2>4 DEF Keeps
<1>4. ASSUME NEW t \in Tests, DeleteTest(t) PROVE AllKeep
  BY <1>4, DeleteTestRows, KeptMarks DEF Keeps
<1>5. ASSUME NEW x \in Questions, DeleteQuestion(x) PROVE AllKeep
  BY <1>5, DeleteQuestionRows, KeptMarks DEF Keeps
<1>6. ASSUME NEW q \in Reqs, NEW u \in Users, NEW t \in Tests, StartRead(q, u, t)
      PROVE  AllKeep
  BY <1>6, <1>u DEF StartRead, Table
<1>7. ASSUME NEW q \in Reqs, StartLook(q) \/ Average(q) PROVE AllKeep
  BY <1>7, <1>u DEF StartLook, Average, Table
<1>8. ASSUME NEW q \in Reqs, NEW b \in Ids, NEW payload \in Partial(Questions, Responses),
             SaveRead(q, b, payload)
      PROVE  AllKeep
  BY <1>8, <1>u DEF SaveRead, Table
<1>9. ASSUME NEW q \in Reqs, NEW b \in Ids, SubmitRead(q, b) PROVE AllKeep
  BY <1>9, <1>u DEF SubmitRead, Table
<1>10. ASSUME NEW q \in Reqs, NEW b \in Ids, NEW payload \in Partial(Criteria, Marks),
              ScoreRead(q, b, payload)
       PROVE  AllKeep
  BY <1>10, <1>u DEF ScoreRead, Table
<1>11. ASSUME NEW t \in Tests, SetStatus(t) PROVE AllKeep
  BY <1>11, <1>u DEF SetStatus, Table
<1>12. ASSUME NEW x \in Questions, NEW r \in Responses, SetKey(x, r) PROVE AllKeep
  BY <1>12, <1>u DEF SetKey, Table
<1>13. CASE UNCHANGED vars
  BY <1>13, <1>u DEF vars
<1> QED
  BY <1>1, <1>2, <1>3, <1>4, <1>5, <1>6, <1>7, <1>8, <1>9, <1>10, <1>11, <1>12, <1>13 DEF Next

\* A new sitting is open and belongs to whom it was asked for.
LEMMA NewSitting ==
    ASSUME TInv, NEW q \in Reqs, NEW a \in Ids, StartCommit(q, a), a \in DOMAIN attempt'
    PROVE  /\ attempt'[a].user = req[q].user /\ attempt'[a].test = req[q].test
           /\ attempt'[a].status = "in_progress"
           /\ Earned(a)' = {}
<1>1. a \notin DOMAIN attempt /\ UNCHANGED answer /\ DOMAIN answer \subseteq (DOMAIN attempt) \X Questions
  BY StartRows DEF TInv, TypeOK
<1>2. Earned(a)' = {}
  BY <1>1 DEF Earned, Answered
<1>3. attempt' = [x \in DOMAIN attempt \cup {a} |->
                     IF x = a THEN [user |-> req[q].user, test |-> req[q].test,
                                    status |-> "in_progress", raw |-> None, band |-> None]
                     ELSE attempt[x]]
  BY <1>1 DEF StartCommit
<1> QED
  BY <1>2, <1>3

\* A request that comes to insert a sitting found none open.
FoundNone ==
    \A p \in Reqs :
        req'[p].pc = "start" =>
            \/ req'[p] = req[p]
            \/ UNCHANGED attempt /\ Open(req[p].user, req[p].test) = {}
               /\ req'[p].user = req[p].user /\ req'[p].test = req[p].test

\* What the step of a request does to the others: nothing.
LEMMA OthersRest ==
    ASSUME HandlersOK, NEW q \in Reqs, NEW locals, Goes(q, locals)
    PROVE  req'[q] = locals /\ \A p \in Reqs \ {q} : req'[p] = req[p]
BY DEF HandlersOK, Goes

\* Only StartLook lets an insert go ahead.
LEMMA StepFindsNone ==
    ASSUME TInv, [Next]_vars
    PROVE  FoundNone
<1>h. HandlersOK
  BY DEF TInv
<1>g. ASSUME NEW q \in Reqs, NEW locals, Goes(q, locals), locals.pc # "start" PROVE FoundNone
  BY <1>g, <1>h, OthersRest DEF FoundNone
<1>e. ASSUME NEW q \in Reqs, Ends(q) PROVE FoundNone
  BY <1>e, <1>g, IdleRequest DEF Ends
<1>u. UNCHANGED req => FoundNone
  BY DEF FoundNone
<1>1. ASSUME NEW q \in Reqs, NEW u \in Users, NEW t \in Tests, StartRead(q, u, t)
      PROVE  FoundNone
  <2>1. [Idle EXCEPT !.pc = "startLook", !.user = u, !.test = t].pc = "startLook"
    BY DEF Idle
  <2> QED
    BY <1>1, <1>g, <2>1 DEF StartRead
<1>2. ASSUME NEW q \in Reqs, StartLook(q) PROVE FoundNone
  <2>1. CASE Open(req[q].user, req[q].test) = {}
    <3>1. Goes(q, [req[q] EXCEPT !.pc = "start"]) /\ UNCHANGED attempt
      BY <1>2, <2>1 DEF StartLook, Table
    <3>2. /\ [req[q] EXCEPT !.pc = "start"].user = req[q].user
          /\ [req[q] EXCEPT !.pc = "start"].test = req[q].test
      BY <1>h DEF HandlersOK, Request
    <3> QED
      BY <1>h, <2>1, <3>1, <3>2, OthersRest DEF FoundNone
  <2> QED
    BY <1>2, <1>e, <2>1 DEF StartLook
<1>3. ASSUME NEW q \in Reqs, NEW a \in Ids, NEW payload \in Partial(Questions, Responses),
             SaveRead(q, a, payload)
      PROVE  FoundNone
  <2> PICK data : Goes(q, [Idle EXCEPT !.pc = "save", !.att = a, !.seen = Answered(a), !.data = data])
    BY <1>3 DEF SaveRead
  <2>1. [Idle EXCEPT !.pc = "save", !.att = a, !.seen = Answered(a), !.data = data].pc = "save"
    BY DEF Idle
  <2> QED
    BY <1>g, <2>1
<1>4. ASSUME NEW q \in Reqs, NEW a \in Ids, SubmitRead(q, a) PROVE FoundNone
  <2>1. [Idle EXCEPT !.pc = "submit", !.att = a, !.seen = Answered(a),
                     !.data = Marking(a), !.was = attempt[a].band].pc = "submit"
    BY DEF Idle
  <2> QED
    BY <1>4, <1>g, <2>1 DEF SubmitRead
<1>5. ASSUME NEW q \in Reqs, NEW a \in Ids, NEW payload \in Partial(Criteria, Marks),
             ScoreRead(q, a, payload)
      PROVE  FoundNone
  <2> PICK data : Goes(q, [Idle EXCEPT !.pc = "score", !.att = a, !.seen = Scored(a), !.data = data])
    BY <1>5 DEF ScoreRead
  <2>1. [Idle EXCEPT !.pc = "score", !.att = a, !.seen = Scored(a), !.data = data].pc = "score"
    BY DEF Idle
  <2> QED
    BY <1>g, <2>1
<1>6. ASSUME NEW q \in Reqs, ScoreCommit(q) PROVE FoundNone
  <2>1. [Idle EXCEPT !.pc = "average", !.att = req[q].att].pc = "average"
    BY DEF Idle
  <2> QED
    BY <1>6, <1>e, <1>g, <2>1 DEF ScoreCommit
<1>7. ASSUME NEW q \in Reqs, Average(q) PROVE FoundNone
  <2>1. CASE Ends(q)
    BY <1>e, <2>1
  <2>2. CASE ~ Ends(q)
    <3> PICK band, was : Goes(q, [req[q] EXCEPT !.pc = "band", !.band = band, !.was = was])
      BY <1>7, <2>2 DEF Average
    <3>1. [req[q] EXCEPT !.pc = "band", !.band = band, !.was = was].pc = "band"
      BY <1>h DEF HandlersOK, Request
    <3> QED
      BY <1>g, <3>1
  <2> QED
    BY <2>1, <2>2
<1>8. ASSUME NEW q \in Reqs, NEW a \in Ids, StartCommit(q, a) PROVE FoundNone
  BY <1>8, <1>e DEF StartCommit
<1>9. ASSUME NEW q \in Reqs, SaveCommit(q) \/ SubmitCommit(q) \/ BandCommit(q) PROVE FoundNone
  BY <1>9, <1>e DEF SaveCommit, SubmitCommit, BandCommit
<1>10. ASSUME NEW t \in Tests, SetStatus(t) \/ DeleteTest(t) PROVE FoundNone
  BY <1>10, <1>u DEF SetStatus, DeleteTest
<1>11. ASSUME NEW x \in Questions, NEW r \in Responses, SetKey(x, r) PROVE FoundNone
  BY <1>11, <1>u DEF SetKey
<1>12. ASSUME NEW x \in Questions, DeleteQuestion(x) PROVE FoundNone
  BY <1>12, <1>u DEF DeleteQuestion
<1>13. CASE UNCHANGED vars
  BY <1>13, <1>u DEF vars
<1> QED
  BY <1>1, <1>2, <1>3, <1>4, <1>5, <1>6, <1>7, <1>8, <1>9, <1>10, <1>11, <1>12, <1>13 DEF Next

\* What AloneInv says of the sittings.
SittingsOK ==
    \A a \in DOMAIN attempt :
        IF Submitted(a) THEN ~ Busy(a, {"save", "submit"}) /\ attempt[a].raw \in Nat
        ELSE Earned(a) = {}

\* And of the inserts ahead.
StartsOK == \A q \in Reqs : req[q].pc = "start" => Open(req[q].user, req[q].test) = {}

\* What is submitted, and what is saved or submitted to, stay apart.
LEMMA SubmittedStays ==
    ASSUME TInv, AloneInv, [Next]_vars, NEW a \in DOMAIN attempt, Submitted(a), a \in DOMAIN attempt'
    PROVE  /\ Submitted(a)' /\ ~ Busy(a, {"save", "submit"})'
           /\ attempt'[a].raw = attempt[a].raw /\ attempt[a].raw \in Nat
           /\ AnswersKept(a)
<1>1. attempt[a].status = "submitted" /\ ~ Busy(a, {"save", "submit"}) /\ attempt[a].raw \in Nat
  BY DEF AloneInv, Submitted
<1>2. Stands(a) /\ LetIn
  BY <1>1, OthersStand, StepLetsIn
<1>3. ~ Busy(a, {"save", "submit"})'
  BY <1>1, <1>2 DEF LetIn, Busy
<1> QED
  BY <1>1, <1>2, <1>3 DEF Stands, Submitted

\* A handler that has just committed is the only one there was.
LEMMA NobodyElse ==
    ASSUME TInv, AloneInv, NEW q \in Reqs, req[q].pc # "idle", Ends(q)
    PROVE  \A p \in Reqs : req'[p].pc = "idle"
<1>1. req'[q] = Idle /\ \A p \in Reqs \ {q} : req'[p] = req[p]
  BY OthersRest DEF TInv, Ends
<1>2. \A p \in Reqs \ {q} : req[p] = Idle
  BY IdleRequest DEF AloneInv, Alone
<1> QED
  BY <1>1, <1>2, IdleRequest

\* An insert keeps the sittings in order, as nothing has happened since the
\* handler found none open.
LEMMA StartAlone ==
    ASSUME TInv, AloneInv, NEW q \in Reqs, NEW b \in Ids, StartCommit(q, b)
    PROVE  SittingsOK' /\ StartsOK' /\ OneOpenSitting'
<1>1. /\ DOMAIN attempt' \subseteq DOMAIN attempt \cup {b}
      /\ b \notin DOMAIN attempt
      /\ \A a \in DOMAIN attempt : a \in DOMAIN attempt' /\ attempt'[a] = attempt[a]
      /\ UNCHANGED answer
  BY StartRows
<1>2. \A p \in Reqs : req'[p].pc = "idle"
  BY NobodyElse DEF StartCommit
<1>3. b \in DOMAIN attempt' =>
          /\ attempt'[b].user = req[q].user /\ attempt'[b].test = req[q].test
          /\ attempt'[b].status = "in_progress" /\ Earned(b)' = {}
  BY NewSitting
<1>4. Open(req[q].user, req[q].test) = {}
  BY DEF StartCommit, AloneInv
<1>5. SittingsOK'
  <2>1. ASSUME NEW a \in DOMAIN attempt', ~ Submitted(a)' PROVE Earned(a)' = {}
    <3>1. CASE a = b
      BY <1>3, <2>1, <3>1
    <3>2. CASE a # b
      <4>1. Earned(a)' = Earned(a) /\ a \in DOMAIN attempt /\ attempt'[a] = attempt[a]
        BY <1>1, <2>1, <3>2 DEF Earned, Answered
      <4>2. ~ Submitted(a)
        BY <2>1, <4>1 DEF Submitted
      <4> QED
        BY <4>1, <4>2 DEF AloneInv
    <3> QED
      BY <3>1, <3>2
  <2>2. \A a : ~ Busy(a, {"save", "submit"})'
    BY <1>2 DEF Busy
  <2>3. ASSUME NEW a \in DOMAIN attempt', Submitted(a)' PROVE attempt'[a].raw \in Nat
    BY <1>1, <1>3, <2>3 DEF Submitted, AloneInv
  <2> QED
    BY <2>1, <2>2, <2>3 DEF SittingsOK
<1>6. StartsOK'
  BY <1>2 DEF StartsOK
<1>7. OneOpenSitting'
  BY <1>1, <1>3, <1>4 DEF AloneInv, OneOpenSitting, Open
<1> QED
  BY <1>5, <1>6, <1>7

\* So does a submission, which finds the sitting unmarked as it was loaded.
LEMMA SubmitAlone ==
    ASSUME TInv, AloneInv, NEW q \in Reqs, SubmitCommit(q)
    PROVE  /\ SittingsOK' /\ StartsOK' /\ OneOpenSitting'
           /\ \A a \in DOMAIN attempt' :
                 Submitted(a)' /\ ~ Submitted(a) => Cardinality(Earned(a)') <= attempt'[a].raw
<1> PICK b, marking : b = req[q].att /\ marking = req[q].data
  OBVIOUS
<1>1. /\ DOMAIN attempt' = DOMAIN attempt
      /\ \A a : a # b => AnswersKept(a) /\ (a \in DOMAIN attempt => attempt'[a] = attempt[a])
  BY SubmitRows
<1>s. Stay /\ Submission(b, marking)
  BY SubmitMarks
<1>2. /\ Stay
      /\ \/ UNCHANGED <<attempt, answer>>
         \/ /\ b \in DOMAIN attempt
            /\ attempt'[b].status = "submitted" /\ attempt'[b].raw = RawOf(marking)
            /\ \A x \in Earned(b)' \ Earned(b) : x \in DOMAIN marking /\ marking[x] = TRUE
  BY <1>s DEF Submission
<1>3. \A p \in Reqs : req'[p].pc = "idle"
  BY NobodyElse DEF SubmitCommit
<1>4. b \in DOMAIN attempt => Earned(b) = {}
  BY DEF SubmitCommit, AloneInv, Busy
<1>5. \A a : a # b => Earned(a)' \subseteq Earned(a)
  BY <1>1, KeptMarks
<1>6. SittingsOK'
  <2>1. ASSUME NEW a \in DOMAIN attempt', ~ Submitted(a)' PROVE Earned(a)' = {}
    <3>1. CASE UNCHANGED <<attempt, answer>>
      <4>1. Earned(a)' = Earned(a) /\ a \in DOMAIN attempt /\ ~ Submitted(a)
        BY <2>1, <3>1 DEF Earned, Answered, Submitted
      <4> QED
        BY <4>1 DEF AloneInv
    <3>2. CASE ~ UNCHANGED <<attempt, answer>>
      <4>1. a # b
        BY <1>2, <2>1, <3>2 DEF Submitted
      <4>2. Earned(a)' \subseteq Earned(a) /\ a \in DOMAIN attempt /\ ~ Submitted(a)
        BY <1>1, <1>5, <2>1, <4>1 DEF Submitted
      <4> QED
        BY <4>2 DEF AloneInv
    <3> QED
      BY <3>1, <3>2
  <2>2. \A a : ~ Busy(a, {"save", "submit"})'
    BY <1>3 DEF Busy
  <2>3. ASSUME NEW a \in DOMAIN attempt', Submitted(a)' PROVE attempt'[a].raw \in Nat
    <3>1. CASE UNCHANGED <<attempt, answer>> \/ a # b
      BY <1>1, <2>3, <3>1 DEF Submitted, AloneInv
    <3>2. CASE ~ UNCHANGED <<attempt, answer>> /\ a = b
      <4>1. DOMAIN marking \subseteq Questions
        BY DEF SubmitCommit, TInv, HandlersOK, Loaded
      <4> QED
        BY <1>2, <3>2, <4>1, RawType
    <3> QED
      BY <3>1, <3>2
  <2> QED
    BY <2>1, <2>2, <2>3 DEF SittingsOK
<1>7. StartsOK'
  BY <1>3 DEF StartsOK
<1>8. OneOpenSitting'
  BY <1>2 DEF AloneInv, OneOpenSitting, Stay
<1>9. ASSUME NEW a \in DOMAIN attempt', Submitted(a)', ~ Submitted(a)
      PROVE  Cardinality(Earned(a)') <= attempt'[a].raw
  <2>1. a = b /\ ~ UNCHANGED <<attempt, answer>>
    BY <1>1, <1>9 DEF Submitted
  <2> DEFINE right == {x \in DOMAIN marking : marking[x] = TRUE}
  <2>2. Earned(b)' \subseteq right /\ attempt'[b].raw = Cardinality(right)
    BY <1>1, <1>2, <1>4, <1>9, <2>1 DEF RawOf
  <2>3. right \subseteq Questions
    BY DEF SubmitCommit, TInv, HandlersOK, Loaded
  <2>4. IsFiniteSet(right)
    BY <2>3, ContentAssumption, FS_Subset
  <2> HIDE DEF right
  <2>5. Cardinality(Earned(b)') <= Cardinality(right)
    BY <2>2, <2>4, FS_Subset
  <2> QED
    BY <2>1, <2>2, <2>5
<1> QED
  BY <1>6, <1>7, <1>8, <1>9

\* And so does every other step.
LEMMA KeepingAlone ==
    ASSUME TInv, AloneInv, [Next]_vars, \A a \in DOMAIN attempt' : Keeps(a)
    PROVE  SittingsOK' /\ StartsOK' /\ OneOpenSitting'
<1>1. SittingsOK'
  <2>1. ASSUME NEW a \in DOMAIN attempt' PROVE Submitted(a)' = Submitted(a) /\ a \in DOMAIN attempt
    BY <2>1 DEF Keeps, Submitted
  <2>2. ASSUME NEW a \in DOMAIN attempt', Submitted(a)' PROVE ~ Busy(a, {"save", "submit"})' /\ attempt'[a].raw \in Nat
    BY <2>1, <2>2, SubmittedStays
  <2>3. ASSUME NEW a \in DOMAIN attempt', ~ Submitted(a)' PROVE Earned(a)' = {}
    <3>1. Earned(a) = {} /\ Earned(a)' \subseteq Earned(a)
      BY <2>1, <2>3 DEF Keeps, AloneInv
    <3> QED
      BY <3>1
  <2> QED
    BY <2>2, <2>3 DEF SittingsOK
<1>2. StartsOK'
  <2> SUFFICES ASSUME NEW p \in Reqs, req'[p].pc = "start"
               PROVE  (Open(req[p].user, req[p].test) = {})'
    BY DEF StartsOK
  <2>1. /\ Open(req[p].user, req[p].test) = {}
        /\ req'[p].user = req[p].user /\ req'[p].test = req[p].test
    BY StepFindsNone DEF FoundNone, AloneInv
  <2> QED
    BY <2>1 DEF Open, Keeps
<1>3. OneOpenSitting'
  BY DEF AloneInv, OneOpenSitting, Keeps
<1> QED
  BY <1>1, <1>2, <1>3

\* As long as no two handlers overlap, a step keeps the invariant, and changes
\* neither an answer nor a raw score that was handed in.
LEMMA AloneStep ==
    ASSUME TInv, TInv', AloneInv, [Next]_vars, Alone'
    PROVE  AloneInv' /\ AnswersStay /\ MarkStays
<1>1. /\ SittingsOK' /\ StartsOK' /\ OneOpenSitting'
      /\ \A a \in DOMAIN attempt' :
            Submitted(a)' /\ ~ Submitted(a) => Cardinality(Earned(a)') <= attempt'[a].raw
  <2>1. CASE \E q \in Reqs, a \in Ids : StartCommit(q, a)
    <3> PICK q \in Reqs, b \in Ids : StartCommit(q, b)
      BY <2>1
    <3>1. \A a \in DOMAIN attempt' : Submitted(a)' => Submitted(a)
      BY StartRows, NewSitting DEF Submitted
    <3> QED
      BY <3>1, StartAlone
  <2>2. CASE \E q \in Reqs : SubmitCommit(q)
    BY <2>2, SubmitAlone
  <2>3. CASE \A a \in DOMAIN attempt' : Keeps(a)
    <3>1. \A a \in DOMAIN attempt' : Submitted(a)' => Submitted(a)
      BY <2>3 DEF Keeps, Submitted
    <3> QED
      BY <2>3, <3>1, KeepingAlone
  <2> QED
    BY <2>1, <2>2, <2>3, Fates
<1>2. ASSUME NEW a \in DOMAIN attempt', Submitted(a)' PROVE Cardinality(Earned(a)') <= attempt'[a].raw
  <2>1. CASE Submitted(a)
    <3>1. Earned(a)' \subseteq Earned(a) /\ attempt'[a].raw = attempt[a].raw /\ attempt[a].raw \in Nat
      BY <2>1, SubmittedStays, KeptMarks DEF Submitted
    <3>2. IsFiniteSet(Earned(a)) /\ Earned(a) \subseteq Questions
      BY ContentAssumption, FS_Subset DEF Earned, Answered
    <3>3. Cardinality(Earned(a)) <= attempt[a].raw
      BY <2>1 DEF AloneInv, RawCoversMarks, Earned, Submitted
    <3>4. /\ Cardinality(Earned(a)') <= Cardinality(Earned(a))
          /\ Cardinality(Earned(a)') \in Nat /\ Cardinality(Earned(a)) \in Nat
      BY <3>1, <3>2, FS_Subset, FS_CardinalityType
    <3> QED
      BY <3>1, <3>3, <3>4
  <2> QED
    BY <1>1, <1>2, <2>1
<1>3. RawCoversMarks'
  BY <1>2 DEF RawCoversMarks, Earned
<1>4. AloneInv'
  BY <1>1, <1>3 DEF AloneInv, SittingsOK, StartsOK
<1>5. MarkStays
  BY SubmittedStays DEF MarkStays
<1>6. AnswersStay
  <2> SUFFICES ASSUME NEW p \in DOMAIN answer \cap DOMAIN answer', Submitted(p[1])
               PROVE  answer'[p].response = answer[p].response
    BY DEF AnswersStay
  <2>1. p[1] \in DOMAIN attempt /\ p[1] \in DOMAIN attempt'
    BY DEF TInv, TypeOK
  <2>2. AnswersKept(p[1])
    BY <2>1, SubmittedStays
  <2> QED
    BY <2>2 DEF AnswersKept
<1> QED
  BY <1>4, <1>5, <1>6

\* Nobody has begun.
LEMMA AloneInitially == Init => AloneInv
<1> SUFFICES ASSUME Init PROVE AloneInv
  OBVIOUS
<1>1. \A q \in Reqs : req[q] = Idle
  BY DEF Init
<1> QED
  BY <1>1, IdleRequest DEF Init, Empty, AloneInv, Alone, OneOpenSitting, RawCoversMarks

=============================================================================
