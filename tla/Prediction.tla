----------------------------- MODULE Prediction -----------------------------
(***************************************************************************)
(* A candidate's bands over time: what submit_attempt and score_criteria    *)
(* (app/routers/attempts.py) leave in the history of submitted attempts,    *)
(* and what band_prediction makes of it.  All bands are doubled, and scores *)
(* are counted in parts of a half band, as any number from 0 to 9 is legal. *)
(* Of score_criteria this is the commit of the band; Attempts has that of   *)
(* the scores, sittings still open, and submissions that overlap.           *)
(***************************************************************************)
EXTENDS Integers, Sequences, FiniteSets, FiniteSetsExt, Rounding

CONSTANTS
    Keyed,     \* skills marked from a key
    Rubrics,   \* skills marked against four criteria
    Bands,     \* bands that band_for_raw may give
    Grain,     \* how many parts of a half band a score counts
    Sums,      \* what the scores of four criteria may add up to, in those parts
    Window,    \* PREDICTION_WINDOW
    MaxTaken,  \* bound: attempts of one skill
    None       \* no band

VARIABLE history  \* the submitted attempts of each skill, the latest first

vars == <<history>>

Skills == Keyed \cup Rubrics

ConstantsOK ==
    /\ Keyed \cap Rubrics = {}
    /\ Bands \subseteq 0 .. 18
    /\ Grain \in Nat \ {0}
    /\ Sums \subseteq 0 .. 72 * Grain
    /\ Window \in Nat \ {0}
    /\ None \notin Int

\* scores is the sum of the four criteria that the band is the average of, if
\* it was made from criteria.
AttemptRow == [scores: Sums \cup {None}, band: (0 .. 18) \cup {None}]

Init == history = [k \in Skills |-> <<>>]

Handed(k, attempt) ==
    /\ Len(history[k]) < MaxTaken
    /\ history' = [history EXCEPT ![k] = <<attempt>> \o @]

(* submit_attempt of a paper with a key.                                     *)
SubmitKeyed(k, band) == Handed(k, [scores |-> None, band |-> band])

(* submit_attempt of a paper without one; a band that complete criteria gave *)
(* it before is lost.                                                        *)
SubmitRubric(k) == Handed(k, [scores |-> None, band |-> None])

\* overall_from_criteria: the average of four to the nearest half band.
Overall(sum) == Rounded(sum, 4 * Grain)

(* score_criteria has found all four criteria and commits the band, on any   *)
(* attempt of the history, marked before or not.                             *)
Score(k, i, sum) ==
    /\ i \in DOMAIN history[k]
    /\ history' = [history EXCEPT ![k][i] = [scores |-> sum, band |-> Overall(sum)]]

Next ==
    \/ \E k \in Keyed, band \in Bands : SubmitKeyed(k, band)
    \/ \E k \in Rubrics : SubmitRubric(k)
    \/ \E k \in Rubrics, i \in 1 .. MaxTaken, sum \in Sums : Score(k, i, sum)

Spec == Init /\ [][Next]_vars

-----------------------------------------------------------------------------
(* band_prediction.                                                          *)

BandOf(k, i) == history[k][i].band

WithBand(k) == {i \in DOMAIN history[k] : BandOf(k, i) # None}

\* Mutant of Recent: the query is limited before it is filtered.
RecentOfAll(k) == {i \in WithBand(k) : i <= Window}

\* The latest attempts that have a band.
Recent(k) == {i \in WithBand(k) : Cardinality({j \in WithBand(k) : j < i}) < Window}

Total(k) == MapThenSumSet(LAMBDA i : BandOf(k, i), Recent(k))

Sat == {k \in Skills : Recent(k) # {}}

\* The band of a skill that was sat.
SkillBand(k) == Rounded(Total(k), Cardinality(Recent(k)))

\* Mutant of OverallBand: a skill never sat counts as zero.
OverallOfAll(sat) ==
    IF sat = {} THEN None ELSE Rounded(MapThenSumSet(SkillBand, sat), Cardinality(Skills))

\* overall_band: the mean of the skills that were sat.
OverallBand(sat) ==
    IF sat = {} THEN None ELSE Rounded(MapThenSumSet(SkillBand, sat), Cardinality(sat))

-----------------------------------------------------------------------------
(* Properties.                                                               *)

\* The history holds what submitted attempts may hold; only an attempt of a
\* paper without a key has a band made from criteria, or none.
TypeOK ==
    /\ history \in [Skills -> Seq(AttemptRow)]
    /\ \A k \in Keyed : \A i \in DOMAIN history[k] :
          history[k][i].scores = None /\ history[k][i].band # None
    /\ \A k \in Rubrics : \A i \in DOMAIN history[k] :
          history[k][i].scores = None <=> history[k][i].band = None

\* a / b is at most half a half band away from band.
Nearest(band, a, b) == 2 * (a - band * b) \in -b .. b

\* "Rounded to the nearest half band": the band of an attempt lies nearest to
\* the criteria it was made from and that of a skill nearest to the attempts in
\* the window.
NearestHalfBand ==
    \A k \in Skills :
        /\ \A i \in DOMAIN history[k] :
              history[k][i].scores # None =>
                  Nearest(history[k][i].band, history[k][i].scores, 4 * Grain)
        /\ k \in Sat => Nearest(SkillBand(k), Total(k), Cardinality(Recent(k)))

\* "Never sat is not the same as scored nothing": the overall band lies between
\* the lowest and the highest attempt that counts.
OverallWithinBands ==
    LET counted == UNION {{BandOf(k, i) : i \in Recent(k)} : k \in Sat}
    IN  IF Sat = {} THEN OverallBand(Sat) = None
        ELSE OverallBand(Sat) \in Min(counted) .. Max(counted)

\* An estimate stands on bands that were given: rounded to the nearest, and
\* between the lowest and the highest.
EstimateStands == NearestHalfBand /\ OverallWithinBands

\* The bands that a step gives an attempt of skill k worse than the one it had,
\* or, where it had none, worse than one the estimate stood on.
Setbacks(k) ==
    LET earlier == Len(history'[k]) - Len(history[k])
    IN  {i \in DOMAIN history'[k] :
            LET was == IF i > earlier THEN history[k][i - earlier].band ELSE None
                is == history'[k][i].band
            IN  /\ is # None
                /\ IF was = None THEN \E j \in Recent(k) : is < BandOf(k, j) ELSE is < was}

\* An estimate falls only with a setback: neither an attempt that nobody has
\* marked nor a better band in any place of the history lowers the band of its
\* skill, nor the overall band while no new skill enters it.
FallsOnlyWithSetback ==
    [][/\ \A k \in Sat : (k \in Sat)' /\ (SkillBand(k)' < SkillBand(k) => Setbacks(k) # {})
       /\ Sat # {} /\ Sat' = Sat /\ OverallBand(Sat)' < OverallBand(Sat)
             => \E k \in Sat : Setbacks(k) # {}]_vars

\* "IELTS rounds a criterion average of .25 up to the next half band and .75 up
\* to the next whole band".
QuarterRoundsUp ==
    \A k \in Rubrics : \A i \in DOMAIN history[k] :
        history[k][i].scores # None =>
            history[k][i].band = RoundedHalfUp(history[k][i].scores, 4 * Grain)

=============================================================================
