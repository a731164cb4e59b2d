--------------------------- MODULE PlanGenerator ---------------------------
(***************************************************************************)
(* generate_plan of app/study_plan.py: the walk over the weeks between      *)
(* tomorrow and the test.  Days count from tomorrow, which is day 0.        *)
(*                                                                          *)
(* A skill's weight is doubled, as bands move by halves, and its credit is  *)
(* multiplied by the sum of the weights, which makes every share an         *)
(* integer.  Python keeps the credit as a float: where two credits are      *)
(* equal its rounding errors decide, and here either may go first.  Titles  *)
(* are left out.                                                            *)
(***************************************************************************)
EXTENDS Integers, Sequences, FiniteSets, FiniteSetsExt, Functions, Rounding

CONSTANTS
    SKILLS,    \* a sequence: the order settles ties within a week
    First,     \* the weekdays that tomorrow may be, Monday being 0
    Horizons,  \* days from tomorrow to the test, both included
    Hours,     \* hours_per_week
    Profiles,  \* doubled weights, a function of the skills each
    None       \* no day, no skill

VARIABLES
    intake,   \* what the plan is made for
    week,     \* week_number
    credit,   \* what each skill is owed
    tasks,    \* the plan so far
    finished

vars == <<intake, week, credit, tasks, finished>>

SessionMinutes == 45
MockMinutes == 180
WeeklyMinutesForWeeklyMock == 360
TaperDays == 3

Skills == Range(SKILLS)

\* The ranges of the request schema and the bounds of generate_plan itself.
ConstantsOK ==
    /\ First \subseteq 0 .. 6
    /\ Horizons \subseteq 7 .. 365
    /\ Hours \subseteq 1 .. 40
    /\ Profiles \subseteq [Skills -> 2 .. 20]
    /\ None \notin Int \cup Skills

Intake == [first: First, horizon: Horizons, hours: Hours, weights: Profiles]

Init ==
    /\ intake \in Intake
    /\ week = 0
    /\ credit = [s \in Skills |-> 0]
    /\ tasks = {}
    /\ finished = FALSE

-----------------------------------------------------------------------------
(* The frame of the plan.                                                    *)

WeeklyMinutes == intake.hours * 60

SessionsPerWeek == Max({2, Min({21, Rounded(WeeklyMinutes, SessionMinutes)})})

StudyDayCount == Min({7, SessionsPerWeek})

DailySessions == (SessionsPerWeek + StudyDayCount - 1) \div StudyDayCount

\* _study_weekdays.
StudyWeekdays(n) == {Rounded(i * 7, n) % 7 : i \in 0 .. n - 1}

TestDay == intake.horizon - 1

TaperStart == TestDay - (TaperDays - 1)

DaysOf(w) == 7 * w .. Min({7 * w + 6, TestDay})

\* The study days of week w that lie before the taper.
StudyDays(w) ==
    {d \in DaysOf(w) : /\ (intake.first + d) % 7 \in StudyWeekdays(StudyDayCount)
                       /\ d < TaperStart}

\* The last study day of a week that wants a mock and has another day.
MockDay(w) ==
    LET wanted == WeeklyMinutes >= WeeklyMinutesForWeeklyMock \/ w % 2 = 1
    IN  IF wanted /\ Cardinality(StudyDays(w)) > 1 THEN Max(StudyDays(w)) ELSE None

\* Mutant of DrillDays: the day of the mock takes drills as well.
AllDays(w) == StudyDays(w)

DrillDays(w) == StudyDays(w) \ {MockDay(w)}

\* The week's minutes, less those of its mock.
DrillMinutes(w) ==
    IF MockDay(w) = None THEN WeeklyMinutes ELSE Max({0, WeeklyMinutes - MockMinutes})

Slots(w) ==
    Min({Rounded(DrillMinutes(w), SessionMinutes), Cardinality(DrillDays(w)) * DailySessions})

-----------------------------------------------------------------------------
(* _allocate.                                                                *)

TotalWeight == SumFunction(intake.weights)

\* int(x / y) cuts towards zero.
Whole(x, y) == IF x < 0 THEN -((-x) \div y) ELSE x \div y

\* Mutant of Due: each week is rounded in isolation.
DueThisWeek(slots) == [s \in Skills |-> slots * intake.weights[s]]

\* The credit with the shares of so many slots.
Due(slots) == [s \in Skills |-> credit[s] + slots * intake.weights[s]]

\* Mutant of Lucky: what the floors leave over is not handed out.
NobodyLucky(left, rest) == {{}}

\* Who may get one more: those owed most, one for each slot that is left, if
\* there are so many.
Lucky(left, rest) ==
    {S \in kSubset(Max({0, Min({left, Len(SKILLS)})}), Skills) :
        \A s \in S, other \in Skills \ S : rest[s] >= rest[other]}

\* How slots may be handed out: the sessions of each skill and the credit left.
Allocations(slots) ==
    LET due == Due(slots)
        counts == [s \in Skills |-> Whole(due[s], TotalWeight)]
        rest == [s \in Skills |-> due[s] - counts[s] * TotalWeight]
        more(S, s) == IF s \in S THEN 1 ELSE 0
    IN  {[counts |-> [s \in Skills |-> counts[s] + more(S, s)],
          credit |-> [s \in Skills |-> rest[s] - more(S, s) * TotalWeight]] :
            S \in Lucky(slots - SumFunction(counts), rest)}

-----------------------------------------------------------------------------
(* The sessions of a week.                                                   *)

\* The place in the queue of the session of skill i that leaves n - 1 of its
\* skill: the skill with most left goes first, and then the order of SKILLS.
Place(counts, i, n) ==
    SumFunction([j \in DOMAIN SKILLS |->
        Max({0, counts[SKILLS[j]] - (IF j < i THEN n - 1 ELSE n)})])

Task(day, position, skill, kind, minutes) ==
    [day |-> day, position |-> position, skill |-> skill, kind |-> kind, minutes |-> minutes]

\* The queue fills the drill days in order, so many sessions each: what stands
\* at n goes to the day that has n \div DailySessions others before it.
Drills(w, counts) ==
    LET queued == UNION {{<<Place(counts, i, n), SKILLS[i]>> : n \in 1 .. counts[SKILLS[i]]} :
                            i \in DOMAIN SKILLS}
        before(day) == Cardinality({d \in DrillDays(w) : d < day})
    IN  UNION {{Task(day, x[1] % DailySessions, x[2], "drill", SessionMinutes) :
                   x \in {x \in queued : x[1] \div DailySessions = before(day)}} :
                 day \in DrillDays(w)}

\* The mock has its day to itself.
Mock(w) == IF MockDay(w) = None THEN {} ELSE {Task(MockDay(w), 0, None, "mock", MockMinutes)}

(* One turn of the loop of generate_plan.                                    *)
Week ==
    /\ 7 * week <= TestDay
    /\ IF StudyDays(week) = {}
         THEN UNCHANGED <<credit, tasks>>
         ELSE \E share \in Allocations(Slots(week)) :
                 /\ credit' = share.credit
                 /\ tasks' = tasks \cup Drills(week, share.counts) \cup Mock(week)
    /\ week' = week + 1
    /\ UNCHANGED <<intake, finished>>

\* The skills of S that are furthest from the target.
Weakest(S) == {s \in S : \A other \in S : intake.weights[s] >= intake.weights[other]}

(* _taper_tasks: the weakest skill, the next one, the test.                  *)
Taper ==
    /\ 7 * week > TestDay /\ ~finished
    /\ \E s1 \in Weakest(Skills) : \E s2 \in Weakest(Skills \ {s1}) :
          tasks' = tasks \cup {Task(TaperStart, 0, s1, "review", 30),
                               Task(TaperStart + 1, 0, s2, "review", 30),
                               Task(TestDay, 0, None, "exam", 0)}
    /\ finished' = TRUE
    /\ UNCHANGED <<intake, week, credit>>

Next == Week \/ Taper

Spec == Init /\ [][Next]_vars

-----------------------------------------------------------------------------
(* Properties.                                                               *)

Drilled == {t \in tasks : t.kind = "drill"}

In(w) == {t \in tasks : t.day \in DaysOf(w) /\ t.kind \in {"drill", "mock"}}

\* The plan holds what the table of tasks may hold.
TypeOK ==
    /\ intake \in Intake
    /\ week \in 0 .. 53
    /\ credit \in [Skills -> Int]
    /\ \A t \in tasks : t.day \in 0 .. TestDay /\ t.position \in 0 .. 2
                            /\ t.skill \in Skills \cup {None}

\* The shares are rounded and corrected so that a week is handed out in full:
\* it has the drills its budget and its days allow, no more and no fewer, and
\* none is left in the queue when the days run out.
SlotsFilled ==
    \A w \in 0 .. week - 1 :
        Cardinality(In(w) \cap Drilled) = IF StudyDays(w) = {} THEN 0 ELSE Slots(w)

\* "A 0.4 share floors to zero every week, so the skill is never scheduled at
\* all": over any number of weeks no skill is a whole session away from its
\* share of all the sessions planned.
NobodyStarves ==
    \A s \in Skills :
        LET got == Cardinality({t \in Drilled : t.skill = s})
        IN  intake.weights[s] * Cardinality(Drilled) - got * TotalWeight
                \in (1 - TotalWeight) .. (TotalWeight - 1)

\* "The mock is spent from the same weekly budget as the drills, or a mock week
\* silently costs three hours more than was asked for": a week costs what was
\* asked for, but for half a session; a mock week of less than three hours
\* costs its mock.
WeekFits ==
    \A w \in 0 .. week - 1 :
        MapThenSumSet(LAMBDA t : t.minutes, In(w))
            <= IF MockDay(w) # None /\ WeeklyMinutes < MockMinutes THEN MockMinutes
               ELSE WeeklyMinutes + SessionMinutes \div 2

\* A week is handed out in full and costs no more than was asked for.
WeeksFilled == SlotsFilled /\ WeekFits

\* The sessions of a day stand at 0, 1, 2 ... without a tie, as create_plan
\* stores them; a mock, a review or the test has its day to itself, and the
\* last days hold nothing else.
PlacesInOrder ==
    \A d \in {t.day : t \in tasks} :
        LET there == {t \in tasks : t.day = d}
        IN  /\ {t.position : t \in there} = 0 .. Cardinality(there) - 1
            /\ (\E t \in there : t.kind # "drill") => Cardinality(there) = 1
            /\ d >= TaperStart => \A t \in there : t.kind \in {"review", "exam"}

=============================================================================
