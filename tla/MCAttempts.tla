----------------------------- MODULE MCAttempts -----------------------------
(***************************************************************************)
(* What happens to attempts, in four parts that are explored side by side,  *)
(* each from its own initial states while the others rest: sittings with    *)
(* handlers that overlap ("race") and with one handler at a time            *)
(* ("serial"), the marking of a paper, and the history of bands.            *)
(***************************************************************************)
EXTENDS Attempts, MCPapers, FiniteSetsExt, TLC

CONSTANTS
    Parts,      \* the parts to explore
    t1, t2, y1  \* two papers: t2 holds the question y1, t1 all others

CONSTANTS
    SerialIds, SerialQuestions,                      \* for the part "serial"
    Words, Papers,                                   \* for Marking
    Keyed, Rubrics, Bands, Grain, Sums, Window, MaxTaken  \* for Prediction

VARIABLES
    moving,                                                \* the part that takes steps
    paper, results, raw, max, needsRubric, band, done,     \* of Marking
    history                                                \* of Prediction

markingVars == <<paper, results, raw, max, needsRubric, band, done>>

MCTestOf == [x \in Questions |-> IF x = y1 THEN t2 ELSE t1]

\* Any order-free average serves; the sum tells the most scores apart.
MCAveraged == [scores \in [Criteria -> Marks] |-> MapThenSumSet(LAMBDA c : scores[c], Criteria)]

S == INSTANCE Attempts WITH
        Ids <- SerialIds, Questions <- SerialQuestions, Tests <- {t1},
        TestOf <- [x \in SerialQuestions |-> t1], Rubric <- {}

M == INSTANCE Marking

P == INSTANCE Prediction

ASSUME InstancesOK ==
    /\ Parts \subseteq {"race", "serial", "marking", "bands"}
    /\ M!ConstantsOK /\ P!ConstantsOK
    /\ IsFiniteSet(SerialQuestions \cup P!Skills) /\ None \notin SerialIds \cup {t1}

Symmetry ==
    Permutations(Reqs) \cup Permutations(Criteria) \cup Permutations(Responses)

SittingsInit ==
    \/ moving = "race" /\ Init
    \/ moving = "serial" /\ S!Init
    \/ /\ moving \notin {"race", "serial"}
       /\ key = [x \in Questions |-> None]
       /\ Init

MarkingInit ==
    \/ moving = "marking" /\ M!Init
    \/ /\ moving # "marking"
       /\ paper = CHOOSE p \in Papers : TRUE
       /\ M!Init

MCInit == moving \in Parts /\ SittingsInit /\ MarkingInit /\ P!Init

OneAtATime == \A p, q \in Reqs : req'[p] # Idle /\ req'[q] # Idle => p = q

MCNext ==
    \/ moving = "race" /\ Next /\ UNCHANGED <<moving, markingVars, history>>
    \/ /\ moving = "serial" /\ S!Next /\ OneAtATime
       /\ UNCHANGED <<moving, markingVars, history>>
    \/ moving = "marking" /\ M!Next /\ UNCHANGED <<moving, vars, history>>
    \/ moving = "bands" /\ P!Next /\ UNCHANGED <<moving, vars, markingVars>>

MCSpec == MCInit /\ [][MCNext]_<<moving, vars, markingVars, history>>

-----------------------------------------------------------------------------
\* The variables of every part hold what its tables and handlers may hold.
TypesOK ==
    CASE moving = "race" -> TypeOK
      [] moving = "serial" -> S!TypeOK
      [] moving = "marking" -> M!TypeOK
      [] moving = "bands" -> P!TypeOK

\* With one handler at a time a user has one open sitting per test, and the raw
\* score covers the marks shown (Attempts).
SerialSittings == moving = "serial" => S!OneOpenSitting /\ S!RawCoversMarks

\* With one handler at a time no answer changes once it is handed in, and an
\* attempt is marked once (Attempts).
SerialResultStands == [][moving = "serial" => AnswersStay /\ MarkStays]_<<moving, vars>>

\* Marks follow the key, and the key of a capped item the review (Marking).
MarksFollowKey == moving = "marking" => M!MarksFollowKey

\* A key that passed the review earns the marks, whatever cap its group has
\* (Marking).
ReviewedKeyEarns == moving = "marking" => M!ReviewedKeyEarns

\* Bands go from 0 to 9 with the raw score, on a paper of any length (Marking).
BandsInOrder == moving = "marking" => M!BandsInOrder

\* Bands and estimates stand on bands that were given (Prediction).
EstimateStands == P!EstimateStands

\* An estimate falls only with a worse band (Prediction).
FallsOnlyWithSetback == P!FallsOnlyWithSetback

\* An average of .25 is rounded up (Prediction).
QuarterRoundsUp == P!QuarterRoundsUp

=============================================================================
