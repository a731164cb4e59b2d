------------------------------ MODULE Attempts ------------------------------
(***************************************************************************)
(* Sitting a test: app/routers/attempts.py over the attempts,               *)
(* attempt_answers and attempt_criterion_scores tables, with the edits of   *)
(* app/routers/content.py that reach into a sitting.                        *)
(*                                                                          *)
(* Data that the properties do not tell apart is abstracted.  A response is *)
(* right when it is the key of its question and earns one mark.  A band is  *)
(* named by the number it is a function of: the raw score of a paper with a *)
(* key (band_for_raw); that of a paper without one is whatever the average  *)
(* of its criterion scores is (overall_from_criteria).                      *)
(***************************************************************************)
EXTENDS Integers, FiniteSets

CONSTANTS
    Users, Tests, Questions,
    TestOf,      \* the test each question belongs to
    Rubric,      \* tests marked against criteria (writing, speaking), not a key
    Responses,   \* what a candidate may write, and what a key may be
    Criteria,    \* criteria_for_kind of a rubric-marked test
    Marks,       \* scores an examiner may give on one criterion
    Averaged,    \* the band that each complete set of scores averages to
    Ids,         \* ids of attempts rows; finite, which bounds a behaviour
    Reqs,        \* request slots
    None         \* no value

ASSUME ContentAssumption ==
    /\ TestOf \in [Questions -> Tests]
    /\ Rubric \subseteq Tests
    /\ Averaged \in [[Criteria -> Marks] -> Nat]
    /\ IsFiniteSet(Questions)

ASSUME NoneAssumption == None \notin Users \cup Tests \cup Responses \cup Ids \cup Int

VARIABLES
    published,  \* tests whose status is "published"
    dropped,    \* tests that were deleted
    key,        \* the answer key; None for a question that does not exist
    attempt,    \* the attempts table: a function whose domain is its row ids
    answer,     \* the attempt_answers table, keyed by (attempt, question)
    score,      \* the attempt_criterion_scores table, keyed by (attempt, criterion)
    used,       \* attempt ids ever stored; none is generated twice
    req         \* what each request slot is doing

vars == <<published, dropped, key, attempt, answer, score, used, req>>

AttemptRow ==
    [user: Users, test: Tests, status: {"in_progress", "submitted"},
     raw: Nat \cup {None}, band: Nat \cup {None}]

\* correct is None until the answer is marked.
AnswerRow == [response: Responses \cup {None}, correct: BOOLEAN \cup {None}, marks: {0, 1}]

Stages == {"idle", "startLook", "start", "save", "submit", "score", "average", "band"}

Empty == [x \in {} |-> 0]

\* A handler's locals: who and on what; the payload, which a submission
\* replaces by its marking; the rows it loaded; the band to store; the band it
\* loaded with the attempt.
Idle == [pc |-> "idle", user |-> None, test |-> None, att |-> None,
         data |-> Empty, seen |-> {}, band |-> None, was |-> None]

QuestionsOf(t) == {x \in Questions : TestOf[x] = t /\ key[x] # None}
Answered(a) == {x \in Questions : <<a, x>> \in DOMAIN answer}
Scored(a) == {c \in Criteria : <<a, c>> \in DOMAIN score}

-----------------------------------------------------------------------------
Init ==
    /\ published = {}
    /\ dropped = {}
    /\ key \in [Questions -> Responses \cup {None}]
    /\ attempt = Empty
    /\ answer = Empty
    /\ score = Empty
    /\ used = {}
    /\ req = [q \in Reqs |-> Idle]

Goes(q, locals) == req' = [req EXCEPT ![q] = locals]
Ends(q) == Goes(q, Idle)

Table == <<attempt, answer, score, used>>
Content == <<published, dropped, key>>

(* start_attempt: only a published test can be sat ...                       *)
StartRead(q, u, t) ==
    /\ req[q] = Idle
    /\ t \in published
    /\ Goes(q, [Idle EXCEPT !.pc = "startLook", !.user = u, !.test = t])
    /\ UNCHANGED <<Table, Content>>

\* The sittings of test t that user u has not handed in.
Open(u, t) ==
    {a \in DOMAIN attempt : /\ attempt[a].user = u
                            /\ attempt[a].test = t
                            /\ attempt[a].status = "in_progress"}

(* ... a sitting that is open already is handed back ...                     *)
StartLook(q) ==
    /\ req[q].pc = "startLook"
    /\ IF Open(req[q].user, req[q].test) = {}
         THEN Goes(q, [req[q] EXCEPT !.pc = "start"])
         ELSE Ends(q)
    /\ UNCHANGED <<Table, Content>>

(* ... otherwise a new one is inserted, unless its test is gone by then.     *)
StartCommit(q, a) ==
    /\ req[q].pc = "start"
    /\ a \notin used
    /\ IF req[q].test \in dropped
         THEN UNCHANGED <<attempt, used>>
         ELSE /\ attempt' = [x \in DOMAIN attempt \cup {a} |->
                               IF x = a THEN [user |-> req[q].user, test |-> req[q].test,
                                              status |-> "in_progress",
                                              raw |-> None, band |-> None]
                               ELSE attempt[x]]
              /\ used' = used \cup {a}
    /\ Ends(q)
    /\ UNCHANGED <<answer, score, Content>>

\* Mutant of Savable: a submitted attempt is not refused.
AlwaysSavable(a) == a \in DOMAIN attempt

\* The status test of save_answers.
Savable(a) == attempt[a].status = "in_progress"

(* save_answers: load the sitting, which must be open; responses to another  *)
(* paper's questions are ignored, and the ORM writes no value equal to the   *)
(* one it loaded ...                                                         *)
SaveRead(q, a, payload) ==
    /\ req[q] = Idle
    /\ a \in DOMAIN attempt
    /\ Savable(a)
    /\ LET changed == {x \in DOMAIN payload \cap QuestionsOf(attempt[a].test) :
                        x \in Answered(a) => answer[<<a, x>>].response # payload[x]}
       IN  Goes(q, [Idle EXCEPT !.pc = "save", !.att = a, !.seen = Answered(a),
                                !.data = [x \in changed |-> payload[x]]])
    /\ UNCHANGED <<Table, Content>>

\* Whether rows for the keys of data can be written: a row that was loaded is
\* still there, one that was not loaded is not there yet, its owner exists.
Writable(there, q) ==
    /\ req[q].att \in DOMAIN attempt
    /\ \A x \in DOMAIN req[q].data : x \in req[q].seen <=> x \in there

(* ... then write each response over the row it had, or insert one; any      *)
(* clash with what happened in between fails the whole save.                 *)
SaveCommit(q) ==
    /\ req[q].pc = "save"
    /\ LET a == req[q].att
           data == req[q].data
           rows == {a} \X (DOMAIN data)
       IN  IF /\ Writable(Answered(a), q)
              /\ \A x \in DOMAIN data : key[x] # None
             THEN answer' = [p \in DOMAIN answer \cup rows |->
                      IF p \notin rows THEN answer[p]
                      ELSE IF p \in DOMAIN answer
                           THEN [answer[p] EXCEPT !.response = data[p[2]]]
                      ELSE [response |-> data[p[2]], correct |-> None, marks |-> 0]]
             ELSE UNCHANGED answer
    /\ Ends(q)
    /\ UNCHANGED <<attempt, score, used, Content>>

\* mark_attempt: whether each question of the paper was answered right; None
\* on a paper that is not marked from a key.
Marking(a) ==
    [x \in QuestionsOf(attempt[a].test) |->
        IF attempt[a].test \in Rubric THEN None
        ELSE x \in Answered(a) /\ answer[<<a, x>>].response = key[x]]

\* Mutant of Submittable: a second submission marks again.
AlwaysSubmittable(a) == a \in DOMAIN attempt

\* submit_attempt hands a submitted attempt back as it is.
Submittable(a) == attempt[a].status # "submitted"

(* submit_attempt: load the sitting and mark it ...                          *)
SubmitRead(q, a) ==
    /\ req[q] = Idle
    /\ a \in DOMAIN attempt
    /\ Submittable(a)
    /\ Goes(q, [Idle EXCEPT !.pc = "submit", !.att = a, !.seen = Answered(a),
                            !.data = Marking(a), !.was = attempt[a].band])
    /\ UNCHANGED <<Table, Content>>

RawOf(marking) == Cardinality({x \in DOMAIN marking : marking[x] = TRUE})

\* Mutant of BandOf: every paper is banded by its raw score.
BandOfRaw(marking) == RawOf(marking)

BandOf(marking) ==
    IF \A x \in DOMAIN marking : marking[x] = None THEN None ELSE RawOf(marking)

\* Mutant of Marked: every answer earns its mark.
MarkedAnyway(p, right) == [answer[p] EXCEPT !.correct = right, !.marks = 1]

\* A loaded answer row after marking.  Its marks were 0 when it was loaded, so
\* the ORM writes them only for a right answer.
Marked(p, right) ==
    IF right = TRUE THEN [answer[p] EXCEPT !.correct = TRUE, !.marks = 1]
    ELSE [answer[p] EXCEPT !.correct = right]

(* ... then store marks, blanks for what was left out, and the result, in    *)
(* one commit.  The ORM writes the band only when it differs from the one it *)
(* loaded; a loaded row of a rubric paper gets nothing to write.             *)
SubmitCommit(q) ==
    /\ req[q].pc = "submit"
    /\ LET a == req[q].att
           marking == req[q].data
           blank == {a} \X (DOMAIN marking \ req[q].seen)
           touched == {x \in DOMAIN marking : marking[x] # None} \cap req[q].seen
       IN  IF /\ a \in DOMAIN attempt
              /\ touched \subseteq Answered(a)
              /\ blank \cap DOMAIN answer = {}
              /\ \A p \in blank : key[p[2]] # None
             THEN /\ answer' = [p \in DOMAIN answer \cup blank |->
                        IF p \in blank
                        THEN [response |-> None, correct |-> marking[p[2]], marks |-> 0]
                        ELSE IF p \in {a} \X touched THEN Marked(p, marking[p[2]])
                        ELSE answer[p]]
                  /\ attempt' = [attempt EXCEPT
                        ![a].status = "submitted",
                        ![a].raw = RawOf(marking),
                        ![a].band = IF BandOf(marking) = req[q].was THEN @
                                    ELSE BandOf(marking)]
             ELSE UNCHANGED <<attempt, answer>>
    /\ Ends(q)
    /\ UNCHANGED <<score, used, Content>>

(* score_criteria: load the attempt, whatever its status; its paper must be  *)
(* marked against criteria ...                                               *)
ScoreRead(q, a, payload) ==
    /\ req[q] = Idle
    /\ a \in DOMAIN attempt
    /\ attempt[a].test \in Rubric
    /\ LET changed == {c \in DOMAIN payload :
                          c \in Scored(a) => score[<<a, c>>] # payload[c]}
       IN  Goes(q, [Idle EXCEPT !.pc = "score", !.att = a, !.seen = Scored(a),
                                !.data = [c \in changed |-> payload[c]]])
    /\ UNCHANGED <<Table, Content>>

(* ... write the scores in a first commit ...                                *)
ScoreCommit(q) ==
    /\ req[q].pc = "score"
    /\ LET a == req[q].att
           data == req[q].data
           rows == {a} \X (DOMAIN data)
       IN  IF Writable(Scored(a), q)
             THEN /\ score' = [p \in DOMAIN score \cup rows |->
                                 IF p \in rows THEN data[p[2]] ELSE score[p]]
                  /\ Goes(q, [Idle EXCEPT !.pc = "average", !.att = a])
             ELSE UNCHANGED score /\ Ends(q)
    /\ UNCHANGED <<attempt, answer, used, Content>>

\* set(scores) == allowed.
Complete(a) == Scored(a) = Criteria

\* overall_from_criteria.
Total(a) == Averaged[[c \in Criteria |-> score[<<a, c>>]]]

(* ... read them back: a complete set gives a band, a partial one none ...   *)
Average(q) ==
    /\ req[q].pc = "average"
    /\ LET a == req[q].att
       IN  IF a \in DOMAIN attempt /\ Complete(a)
             THEN Goes(q, [req[q] EXCEPT !.pc = "band", !.band = Total(a),
                                         !.was = attempt[a].band])
             ELSE Ends(q)
    /\ UNCHANGED <<Table, Content>>

(* ... and store it in a second commit, when it differs from what was read.  *)
BandCommit(q) ==
    /\ req[q].pc = "band"
    /\ IF req[q].att \in DOMAIN attempt /\ req[q].band # req[q].was
         THEN attempt' = [attempt EXCEPT ![req[q].att].band = req[q].band]
         ELSE UNCHANGED attempt
    /\ Ends(q)
    /\ UNCHANGED <<answer, score, used, Content>>

-----------------------------------------------------------------------------
(* Authors at work, each handler taken as one step.                          *)

\* update_test publishes or withdraws a paper.
SetStatus(t) ==
    /\ t \notin dropped
    /\ published' = IF t \in published THEN published \ {t} ELSE published \cup {t}
    /\ UNCHANGED <<dropped, key, Table, req>>

\* update_question replaces the accepted answers.
SetKey(x, r) ==
    /\ key[x] # None
    /\ key' = [key EXCEPT ![x] = r]
    /\ UNCHANGED <<published, dropped, Table, req>>

\* delete_question; the foreign key takes every answer to it along.
DeleteQuestion(x) ==
    /\ key[x] # None
    /\ key' = [key EXCEPT ![x] = None]
    /\ answer' = [p \in {p \in DOMAIN answer : p[2] # x} |-> answer[p]]
    /\ UNCHANGED <<published, dropped, attempt, score, used, req>>

\* Mutant of Owned: SQLite's foreign keys are left switched off.
OrphansToo(rows, kept) == rows

\* ON DELETE CASCADE, which every connection switches on: the rows of answers
\* or scores whose attempt is kept.
Owned(rows, kept) == {p \in rows : p[1] \in kept}

\* delete_test; questions, attempts and all that hangs off them go along.
DeleteTest(t) ==
    /\ t \notin dropped
    /\ dropped' = dropped \cup {t}
    /\ published' = published \ {t}
    /\ key' = [x \in Questions |-> IF TestOf[x] = t THEN None ELSE key[x]]
    /\ LET kept == {a \in DOMAIN attempt : attempt[a].test # t}
       IN  /\ attempt' = [a \in kept |-> attempt[a]]
           /\ answer' = [p \in Owned(DOMAIN answer, kept) |-> answer[p]]
           /\ score' = [p \in Owned(DOMAIN score, kept) |-> score[p]]
    /\ UNCHANGED <<used, req>>

Partial(S, T) == UNION {[D -> T] : D \in SUBSET S}

Next ==
    \/ \E q \in Reqs :
          \/ \E u \in Users, t \in Tests : StartRead(q, u, t)
          \/ StartLook(q)
          \/ \E a \in Ids :
                \/ StartCommit(q, a)
                \/ \E payload \in Partial(Questions, Responses) : SaveRead(q, a, payload)
                \/ SubmitRead(q, a)
                \/ \E payload \in Partial(Criteria, Marks) : ScoreRead(q, a, payload)
          \/ SaveCommit(q)
          \/ SubmitCommit(q)
          \/ ScoreCommit(q)
          \/ Average(q)
          \/ BandCommit(q)
    \/ \E t \in Tests : SetStatus(t) \/ DeleteTest(t)
    \/ \E x \in Questions :
          \/ \E r \in Responses : SetKey(x, r)
          \/ DeleteQuestion(x)

Spec == Init /\ [][Next]_vars

-----------------------------------------------------------------------------
(* Properties.                                                               *)

\* The variables hold what the tables may hold; every answer and score belongs
\* to an attempt.
TypeOK ==
    /\ published \subseteq Tests \ dropped
    /\ key \in [Questions -> Responses \cup {None}]
    /\ DOMAIN attempt \subseteq used /\ used \subseteq Ids
    /\ attempt \in [DOMAIN attempt -> AttemptRow]
    /\ DOMAIN answer \subseteq (DOMAIN attempt) \X Questions
    /\ answer \in [DOMAIN answer -> AnswerRow]
    /\ DOMAIN score \subseteq (DOMAIN attempt) \X Criteria
    /\ score \in [DOMAIN score -> Marks]
    /\ \A q \in Reqs : req[q].pc \in Stages

Busy(a, stages) == \E q \in Reqs : req[q].pc \in stages /\ req[q].att = a

Submitted(a) == a \in DOMAIN attempt /\ attempt[a].status = "submitted"

Settled(a) == Submitted(a) /\ ~Busy(a, {"save", "submit"})

\* Once an attempt is handed in and the saves and submissions in flight have
\* ended, its answers, marks and raw score are settled for good: no request,
\* however late, repeated or reordered, changes them, and no edit of the paper
\* does more than remove them.
ResultSettles ==
    [][\A a \in DOMAIN attempt :
          Settled(a) /\ a \in DOMAIN attempt' =>
              /\ Settled(a)'
              /\ attempt'[a].raw = attempt[a].raw
              /\ \A p \in DOMAIN answer' :
                    p[1] = a => p \in DOMAIN answer /\ answer'[p] = answer[p]]_vars

\* "A partial marking is not a band": a rubric-marked attempt that has a band
\* has a score on every criterion.
PartialMarkingHasNoBand ==
    \A a \in DOMAIN attempt :
        attempt[a].test \in Rubric /\ attempt[a].band # None => Scored(a) = Criteria

\* "Hand back the one already open": one open sitting per user and test.
OneOpenSitting ==
    \A a, b \in DOMAIN attempt :
        /\ attempt[a].user = attempt[b].user /\ attempt[a].test = attempt[b].test
        /\ attempt[a].status = "in_progress" /\ attempt[b].status = "in_progress"
        => a = b

\* "This attempt has been submitted and cannot be changed": what a step with no
\* other handler in flight leaves alone.
AnswersStay ==
    \A p \in DOMAIN answer \cap DOMAIN answer' :
        Submitted(p[1]) => answer'[p].response = answer[p].response

\* "A double-tap on Submit returns the same result rather than re-marking":
\* likewise.
MarkStays ==
    \A a \in DOMAIN attempt \cap DOMAIN attempt' :
        Submitted(a) => attempt'[a].raw = attempt[a].raw

\* The raw score covers the marks shown beside the answers; it exceeds them
\* only by those of questions deleted since.
RawCoversMarks ==
    \A a \in DOMAIN attempt :
        Submitted(a) =>
            Cardinality({x \in Answered(a) : answer[<<a, x>>].marks = 1}) <= attempt[a].raw

\* "Once all four criteria are in, their average becomes the attempt's band":
\* with nothing in flight a completely scored attempt shows its average.
BandIsAverage ==
    \A a \in DOMAIN attempt :
        /\ Submitted(a) /\ attempt[a].test \in Rubric /\ Complete(a)
        /\ ~Busy(a, {"submit", "score", "average", "band"})
        => attempt[a].band = Total(a)

=============================================================================
