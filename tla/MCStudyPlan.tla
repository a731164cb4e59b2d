---------------------------- MODULE MCStudyPlan ----------------------------
(***************************************************************************)
(* A study plan is generated, and then kept.  The two parts, generate_plan  *)
(* and the store, are explored side by side, each while the other rests.    *)
(* The store has one generated task on every day.                           *)
(***************************************************************************)
EXTENDS StudyPlan, Sequences, TLC

CONSTANTS
    Parts,                              \* the parts to explore
    First, Horizons, Hours, Profiles    \* for PlanGenerator

VARIABLES
    moving,                                  \* the part that takes steps
    intake, week, credit, tasks, finished    \* of PlanGenerator

planVars == <<intake, week, credit, tasks, finished>>

Weights(l, r, w, s) ==
    ("listening" :> l) @@ ("reading" :> r) @@ ("writing" :> w) @@ ("speaking" :> s)

\* Four equal skills; the gaps that _skill_weights warns of (1.5 bands against
\* three of 0.5); four different ones; one skill nine bands short; two and two.
MCProfiles ==
    {Weights(2, 2, 2, 2), Weights(5, 3, 3, 3), Weights(2, 3, 4, 5),
     Weights(20, 2, 2, 2), Weights(2, 2, 9, 9)}

G == INSTANCE PlanGenerator WITH
        SKILLS <- <<"listening", "reading", "writing", "speaking">>

ASSUME InstancesOK == G!ConstantsOK

MCPerDay == [d \in Days |-> 1]

Symmetry ==
    Permutations(Plans) \cup Permutations(Extras) \cup Permutations(Days)
        \cup Permutations(Reqs)

GeneratorInit ==
    \/ moving = "generator" /\ G!Init
    \/ /\ moving # "generator"
       /\ intake = CHOOSE i \in G!Intake : TRUE
       /\ G!Init

MCInit == moving \in Parts /\ Init /\ GeneratorInit

MCNext ==
    \/ moving = "store" /\ Next /\ UNCHANGED <<moving, planVars>>
    \/ moving = "generator" /\ G!Next /\ UNCHANGED <<moving, vars>>

MCSpec == MCInit /\ [][MCNext]_<<moving, vars, planVars>>

-----------------------------------------------------------------------------
\* The variables of both parts hold what the tables and handlers may hold.
TypesOK == TypeOK /\ G!TypeOK

\* A week is handed out in full and costs what was asked for (PlanGenerator).
WeeksFilled == G!WeeksFilled

\* No skill is a whole session away from its share (PlanGenerator).
NobodyStarves == G!NobodyStarves

\* The generated sessions of a day stand in order, without a tie
\* (PlanGenerator).
PlacesInOrder == G!PlacesInOrder

=============================================================================
