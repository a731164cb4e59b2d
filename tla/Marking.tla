------------------------------ MODULE Marking ------------------------------
(***************************************************************************)
(* Marking a sitting against its key: app/marking.py, the band tables of    *)
(* app/content.py and the part of review_test that looks at a key.  The     *)
(* machine marks one paper, item by item.                                   *)
(*                                                                          *)
(* Texts are compared by their normalised form and measured in words, so a  *)
(* text is the norm that normalise gives it and the number of words that    *)
(* str.split finds in it as written; none makes it blank.  Bands are        *)
(* doubled.                                                                 *)
(***************************************************************************)
EXTENDS Integers, Sequences, SequencesExt, Rounding

CONSTANTS
    Words,   \* the words in each norm
    Papers,  \* papers with their responses: [kind, module, items]
    None     \* no verdict, no band

\* normalise adds no words to a text of the key.
ItemOK(item) ==
    /\ {item.span, item.limit, item.type.required} \subseteq Nat
    /\ {item.response, item.answers} \subseteq Seq([norm: DOMAIN Words, words: Nat])
    /\ \A i \in DOMAIN item.answers : Words[item.answers[i].norm] <= item.answers[i].words

ConstantsOK ==
    /\ None \notin Int \cup BOOLEAN
    /\ Words \in [DOMAIN Words -> Nat]
    /\ \A p \in Papers :
          /\ Len(p.items) \in Nat /\ DOMAIN p.items = 1 .. Len(p.items)
          /\ \A i \in DOMAIN p.items : ItemOK(p.items[i])

VARIABLES
    paper,
    results,      \* a result for each item marked so far
    raw, max,     \* raw_score and max_score so far
    needsRubric,
    band,         \* the band, once marked
    done

vars == <<paper, results, raw, max, needsRubric, band, done>>

Init ==
    /\ paper \in Papers
    /\ results = <<>>
    /\ raw = 0
    /\ max = 0
    /\ needsRubric = FALSE
    /\ band = None
    /\ done = FALSE

-----------------------------------------------------------------------------
(* One item.                                                                 *)

\* The texts that are not blank.
Written(texts) ==
    FoldLeft(LAMBDA kept, t : IF t.words > 0 THEN Append(kept, t) ELSE kept, <<>>, texts)

\* within_limit; 0 stands for no cap.
WithinLimit(norm, limit) == limit = 0 \/ Words[norm] <= limit

\* Mutant of Struck: a candidate can be matched again.
NotStruck(candidates, norm) == candidates

\* The candidates without the first one of this norm.
Struck(candidates, norm) == RemoveFirst(candidates, norm)

\* The loop of mark_question over the responses that count: each that keeps to
\* the cap takes a candidate it equals.
Matched(given, accepted, limit) ==
    LET take(acc, norm) ==
          IF ~WithinLimit(norm, limit) \/ norm \notin ToSet(acc.left) THEN acc
          ELSE [left |-> Struck(acc.left, norm), count |-> acc.count + 1]
    IN  FoldLeft(take, [left |-> accepted, count |-> 0], given).count

Norms(texts) == [i \in DOMAIN texts |-> texts[i].norm]

\* mark_question: all-or-nothing over the first answers, as many as required.
MarkQuestion(item) ==
    LET given == Norms(Written(item.response))
        accepted == Norms(Written(item.answers))
        needed == item.type.required
        correct == /\ Len(given) >= needed
                   /\ Matched(SubSeq(given, 1, needed), accepted, item.limit) >= needed
    IN  IF item.type.rubric
          THEN [correct |-> None, marks |-> 0]
          ELSE [correct |-> correct, marks |-> IF correct THEN item.span ELSE 0]

\* The part of review_test that looks at one item's key.
Reviewed(item) ==
    LET answers == Written(item.answers)
    IN  /\ item.type.rubric \/ Len(answers) >= item.type.required
        /\ item.type.takesLimit =>
              /\ item.limit # 0
              /\ \A i \in DOMAIN answers : answers[i].words <= item.limit

-----------------------------------------------------------------------------
(* The band.                                                                 *)

\* Raw score out of 40 and doubled band, highest first.
ListeningBands ==
    <<<<39, 18>>, <<37, 17>>, <<35, 16>>, <<32, 15>>, <<30, 14>>, <<26, 13>>, <<23, 12>>,
      <<18, 11>>, <<16, 10>>, <<13, 9>>, <<10, 8>>, <<8, 7>>, <<6, 6>>>>

AcademicReadingBands ==
    <<<<39, 18>>, <<37, 17>>, <<35, 16>>, <<33, 15>>, <<30, 14>>, <<27, 13>>, <<23, 12>>,
      <<19, 11>>, <<15, 10>>, <<13, 9>>, <<10, 8>>, <<8, 7>>, <<6, 6>>>>

GeneralReadingBands ==
    <<<<40, 18>>, <<39, 17>>, <<37, 16>>, <<36, 15>>, <<34, 14>>, <<32, 13>>, <<30, 12>>,
      <<27, 11>>, <<23, 10>>, <<19, 9>>, <<15, 8>>, <<12, 7>>, <<9, 6>>>>

TableFor(kind, module) ==
    CASE kind = "listening" -> ListeningBands
      [] kind = "reading" /\ module = "general" -> GeneralReadingBands
      [] kind = "reading" /\ module # "general" -> AcademicReadingBands
      [] OTHER -> <<>>

\* Mutant of Scaled: a mini test is not scaled.
Unscaled(correct, total) == correct

\* A mini test's score on a paper of 40.
Scaled(correct, total) == Rounded(correct * 40, total)

\* The first entry that the score reaches.
Looked(table, score) ==
    LET reached == {i \in DOMAIN table : score >= table[i][1]}
    IN  IF reached # {} THEN table[CHOOSE i \in reached : \A j \in reached : i <= j][2]
        ELSE IF score > 0 THEN 5 ELSE 0

\* band_for_raw.
BandForRaw(kind, module, correct, total) ==
    IF TableFor(kind, module) = <<>> \/ total = 0 THEN None
    ELSE Looked(TableFor(kind, module), Scaled(correct, total))

-----------------------------------------------------------------------------
(* The loop of mark_attempt: the next item ...                               *)
MarkItem ==
    /\ Len(results) < Len(paper.items)
    /\ LET item == paper.items[Len(results) + 1]
           result == MarkQuestion(item)
       IN  /\ results' = Append(results, result)
           /\ raw' = raw + result.marks
           /\ max' = max + item.span
           /\ needsRubric' = (needsRubric \/ result.correct = None)
    /\ UNCHANGED <<paper, band, done>>

(* ... and, after the last, the band of a paper that has a key.              *)
Finish ==
    /\ ~done
    /\ Len(results) = Len(paper.items)
    /\ band' = IF \A i \in DOMAIN results : results[i].correct = None THEN None
               ELSE BandForRaw(paper.kind, paper.module, raw, max)
    /\ done' = TRUE
    /\ UNCHANGED <<paper, results, raw, max, needsRubric>>

Next == MarkItem \/ Finish

Spec == Init /\ [][Next]_vars

-----------------------------------------------------------------------------
(* Properties.                                                               *)

\* The variables hold what mark_attempt may hold.
TypeOK ==
    /\ paper \in Papers
    /\ Len(results) <= Len(paper.items)
    /\ raw \in 0 .. max
    /\ needsRubric = \E i \in DOMAIN results : results[i].correct = None
    /\ band \in {None, 0, 5} \cup 6 .. 18

\* The first n texts given are n different ones of the key.
Paired(n, given, key) ==
    \E pair \in Injection(1 .. n, DOMAIN key) : \A i \in 1 .. n : given[i] = key[pair[i]]

\* The reference: the required answers are that many different entries of the
\* key, up to case, spacing and edge punctuation, none longer than the cap.
Earned(item) ==
    LET given == Norms(Written(item.response))
        needed == item.type.required
    IN  /\ Len(given) >= needed
        /\ Paired(needed, given, Norms(Written(item.answers)))
        /\ item.limit # 0 => \A i \in 1 .. needed : Words[given[i]] <= item.limit

\* An item earns its marks exactly when the answers pair up with the key: one
\* letter written twice, or a key entry used twice, is not two answers; the
\* order is no part of the answer; the cap outranks the key.
MarkedAsKeyed ==
    \A i \in DOMAIN results :
        LET item == paper.items[i]
        IN  ~item.type.rubric =>
                /\ results[i].correct = Earned(item)
                /\ results[i].marks = IF Earned(item) THEN item.span ELSE 0

\* On a paper that passed the review, whoever writes what the key says, word
\* for word, is marked right.
KeyEarns(i) ==
    LET item == paper.items[i]
        given == Written(item.response)
        needed == item.type.required
    IN  /\ Reviewed(item)
        /\ ~item.type.rubric
        /\ Len(given) >= needed
        /\ Paired(needed, given, Written(item.answers))
        => results[i].correct

\* "An answer longer than the cap the candidate was given is one the marker
\* would have to reject, so it cannot be the key": the key earns the marks.
ReviewedKeyEarns == \A i \in DOMAIN results : KeyEarns(i)

\* What the code keeps of it: the review looks at the cap where the type of the
\* group takes one, the marker wherever the group has one, and a group whose
\* type was changed may have kept a cap its new type does not take.
CappedKeyEarns ==
    \A i \in DOMAIN results :
        paper.items[i].type.takesLimit \/ paper.items[i].limit = 0 => KeyEarns(i)

\* Marks follow the key, and where review and marker look at one cap, the key
\* follows the review.
MarksFollowKey == MarkedAsKeyed /\ CappedKeyEarns

\* For every length a paper can have: nothing right is band 0 and all right is
\* band 9, one more right answer never lowers the band, and General Training
\* Reading, "marked harder", never gives a higher band than Academic.
BandsInOrder ==
    done /\ band # None =>
        /\ BandForRaw(paper.kind, paper.module, 0, max) = 0
        /\ BandForRaw(paper.kind, paper.module, max, max) = 18
        /\ \A c \in 0 .. max - 1 :
              BandForRaw(paper.kind, paper.module, c, max)
                  <= BandForRaw(paper.kind, paper.module, c + 1, max)
        /\ \A c \in 0 .. max :
              BandForRaw("reading", "general", c, max)
                  <= BandForRaw("reading", "academic", c, max)

=============================================================================
