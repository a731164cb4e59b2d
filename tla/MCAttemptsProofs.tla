-------------------------- MODULE MCAttemptsProofs --------------------------
(***************************************************************************)
(* Theorems about the parts of MCAttempts.  Of sittings whose handlers do   *)
(* not overlap: a user has one open sitting per test, what is handed in     *)
(* stays, and the raw score covers the marks.  Of the marking: marks follow *)
(* the key, and bands the raw score.  Of the history of bands: what an      *)
(* estimate stands on and what lowers it.  Of all parts: their variables    *)
(* keep their types.                                                        *)
(***************************************************************************)
EXTENDS MCAttempts, AttemptsProofs, FiniteSetTheorems, NaturalsInduction,
        SequenceTheorems, WellFoundedInduction, TLAPS

-----------------------------------------------------------------------------
(* One handler at a time: S is Attempts again, for which AttemptsProofs    *)
(* holds again.                                                              *)

SP == INSTANCE AttemptsProofs WITH
        Ids <- SerialIds, Questions <- SerialQuestions, Tests <- {t1},
        TestOf <- [x \in SerialQuestions |-> t1], Rubric <- {}

LEMMA SameCount == \A Z : S!Cardinality(Z) = SP!Cardinality(Z)
BY DEF S!Cardinality, SP!Cardinality

LEMMA SameConstants == SP!ContentAssumption /\ SP!NoneAssumption
<1>1. SP!IsFiniteSet(SerialQuestions)
  <2>1. IsFiniteSet(SerialQuestions)
    BY InstancesOK, FS_Subset
  <2> QED
    BY <2>1 DEF IsFiniteSet, SP!IsFiniteSet
<1> QED
  BY <1>1, ContentAssumption, NoneAssumption, InstancesOK
  DEF SP!ContentAssumption, SP!NoneAssumption

LEMMA SameInit == S!Init => SP!Init
BY DEF S!Init, SP!Init, S!Idle, SP!Idle, S!Empty, SP!Empty

LEMMA SameLocals ==
    /\ S!Idle = SP!Idle
    /\ \A q, l : S!Goes(q, l) <=> SP!Goes(q, l)
    /\ \A q : S!Ends(q) <=> SP!Ends(q)
    /\ S!Table = SP!Table /\ S!Table' = SP!Table'
    /\ S!Content = SP!Content /\ S!Content' = SP!Content'
BY DEF S!Idle, SP!Idle, S!Empty, SP!Empty, S!Goes, SP!Goes, S!Ends, SP!Ends,
       S!Table, SP!Table, S!Content, SP!Content

LEMMA SameRows ==
    /\ \A t : S!QuestionsOf(t) = SP!QuestionsOf(t)
    /\ \A a : S!Answered(a) = SP!Answered(a)
    /\ \A a : S!Scored(a) = SP!Scored(a)
    /\ \A u, t : S!Open(u, t) = SP!Open(u, t)
    /\ \A D, E : S!Partial(D, E) = SP!Partial(D, E)
    /\ \A rows, kept : S!Owned(rows, kept) = SP!Owned(rows, kept)
    /\ \A there, q : S!Writable(there, q) <=> SP!Writable(there, q)
BY DEF S!QuestionsOf, SP!QuestionsOf, S!Answered, SP!Answered, S!Scored, SP!Scored,
       S!Open, SP!Open, S!Partial, SP!Partial, S!Owned, SP!Owned, S!Writable, SP!Writable

LEMMA SameMarks ==
    /\ \A m : S!RawOf(m) = SP!RawOf(m)
    /\ \A m : S!BandOf(m) = SP!BandOf(m)
    /\ \A p, r : S!Marked(p, r) = SP!Marked(p, r)
    /\ \A a : S!Complete(a) <=> SP!Complete(a)
    /\ \A a : S!Total(a) = SP!Total(a)
    /\ \A a : S!Marking(a) = SP!Marking(a)
<1>1. \A m : S!RawOf(m) = SP!RawOf(m)
  BY SameCount DEF S!RawOf, SP!RawOf
<1>2. \A m : S!BandOf(m) = SP!BandOf(m)
  BY <1>1 DEF S!BandOf, SP!BandOf
<1>3. \A a : S!Marking(a) = SP!Marking(a)
  BY SameRows DEF S!Marking, SP!Marking
<1> QED
  BY <1>1, <1>2, <1>3, SameRows
  DEF S!Marked, SP!Marked, S!Complete, SP!Complete, S!Total, SP!Total

LEMMA SameReads ==
    /\ \A q, u, t : S!StartRead(q, u, t) <=> SP!StartRead(q, u, t)
    /\ \A q : S!StartLook(q) <=> SP!StartLook(q)
    /\ \A q, a, d : S!SaveRead(q, a, d) <=> SP!SaveRead(q, a, d)
    /\ \A q, a : S!SubmitRead(q, a) <=> SP!SubmitRead(q, a)
    /\ \A q, a, d : S!ScoreRead(q, a, d) <=> SP!ScoreRead(q, a, d)
    /\ \A q : S!Average(q) <=> SP!Average(q)
BY SameLocals, SameRows, SameMarks
DEF S!StartRead, SP!StartRead, S!StartLook, SP!StartLook, S!SaveRead, SP!SaveRead,
    S!SubmitRead, SP!SubmitRead, S!ScoreRead, SP!ScoreRead, S!Average, SP!Average,
    S!Savable, SP!Savable, S!Submittable, SP!Submittable

LEMMA SameWrites ==
    /\ \A q, a : S!StartCommit(q, a) <=> SP!StartCommit(q, a)
    /\ \A q : S!SaveCommit(q) <=> SP!SaveCommit(q)
    /\ \A q : S!SubmitCommit(q) <=> SP!SubmitCommit(q)
    /\ \A q : S!ScoreCommit(q) <=> SP!ScoreCommit(q)
    /\ \A q : S!BandCommit(q) <=> SP!BandCommit(q)
<1>1. \A q, a : S!StartCommit(q, a) <=> SP!StartCommit(q, a)
  BY SameLocals DEF S!StartCommit, SP!StartCommit
<1>2. \A q : S!SaveCommit(q) <=> SP!SaveCommit(q)
  BY SameLocals, SameRows DEF S!SaveCommit, SP!SaveCommit
<1>3. \A q : S!SubmitCommit(q) <=> SP!SubmitCommit(q)
  <2> SUFFICES ASSUME NEW q PROVE S!SubmitCommit(q) <=> SP!SubmitCommit(q)
    OBVIOUS
  <2>1. /\ S!RawOf(req[q].data) = SP!RawOf(req[q].data)
        /\ S!BandOf(req[q].data) = SP!BandOf(req[q].data)
        /\ S!Answered(req[q].att) = SP!Answered(req[q].att)
    BY SameRows, SameMarks
  <2>2. S!Content = SP!Content /\ S!Content' = SP!Content' /\ S!Ends(q) = SP!Ends(q)
    BY SameLocals DEF S!Ends, SP!Ends, S!Goes, SP!Goes
  <2>3. \A p, r : S!Marked(p, r) = SP!Marked(p, r)
    BY SameMarks
  <2> QED
    BY <2>1, <2>2, <2>3, Zenon DEF S!SubmitCommit, SP!SubmitCommit
<1>4. \A q : S!ScoreCommit(q) <=> SP!ScoreCommit(q)
  BY SameLocals, SameRows DEF S!ScoreCommit, SP!ScoreCommit
<1>5. \A q : S!BandCommit(q) <=> SP!BandCommit(q)
  BY SameLocals DEF S!BandCommit, SP!BandCommit
<1> QED
  BY <1>1, <1>2, <1>3, <1>4, <1>5

LEMMA SameEdits ==
    /\ \A t : S!SetStatus(t) <=> SP!SetStatus(t)
    /\ \A t : S!DeleteTest(t) <=> SP!DeleteTest(t)
    /\ \A x, r : S!SetKey(x, r) <=> SP!SetKey(x, r)
    /\ \A x : S!DeleteQuestion(x) <=> SP!DeleteQuestion(x)
BY SameLocals, SameRows
DEF S!SetStatus, SP!SetStatus, S!DeleteTest, SP!DeleteTest, S!SetKey, SP!SetKey,
    S!DeleteQuestion, SP!DeleteQuestion

LEMMA SameNext == S!Next => SP!Next
BY SameRows, SameReads, SameWrites, SameEdits DEF S!Next, SP!Next

LEMMA SameIdle == SP!Idle = Idle
BY DEF SP!Idle, SP!Empty, Idle, Empty

LEMMA SameSittings ==
    /\ SP!OneOpenSitting => S!OneOpenSitting
    /\ SP!RawCoversMarks => S!RawCoversMarks
BY SameCount, SameRows
DEF SP!OneOpenSitting, S!OneOpenSitting, SP!RawCoversMarks, S!RawCoversMarks,
    S!Submitted, SP!Submitted

LEMMA SameStays == (SP!AnswersStay => AnswersStay) /\ (SP!MarkStays => MarkStays)
BY DEF SP!AnswersStay, AnswersStay, SP!MarkStays, MarkStays, SP!Submitted, Submitted

-----------------------------------------------------------------------------
(* Sittings that do not overlap.                                           *)

SerialInv == moving = "serial" => SP!IInv /\ SP!AloneInv

LEMMA SerialInitially == MCInit => SerialInv
<1> SUFFICES ASSUME MCInit, moving = "serial" PROVE SP!IInv /\ SP!AloneInv
  BY DEF SerialInv
<1>1. SP!Init
  BY SameInit DEF MCInit, SittingsInit
<1>2. SP!TInv /\ SP!PartialMarkingHasNoBand
  BY <1>1, SameConstants, SP!Initially
<1>3. SP!AloneInv
  BY <1>1, SameConstants, SP!AloneInitially
<1> QED
  BY <1>2, <1>3 DEF SP!IInv

LEMMA SerialStep ==
    ASSUME SerialInv, [MCNext]_<<moving, vars, markingVars, history>>
    PROVE  SerialInv' /\ (moving = "serial" => SP!AnswersStay /\ SP!MarkStays)
<1>1. moving' = moving
  BY DEF MCNext
<1> SUFFICES ASSUME moving = "serial"
             PROVE  SP!IInv' /\ SP!AloneInv' /\ SP!AnswersStay /\ SP!MarkStays
  BY <1>1 DEF SerialInv
<1>2. SP!IInv /\ SP!AloneInv
  BY DEF SerialInv
<1>3. [SP!Next]_SP!vars
  BY SameNext DEF MCNext, vars, SP!vars
<1>4. SP!IInv'
  BY <1>2, <1>3, SameConstants, SP!InvStep
<1>5. SP!Alone'
  <2>1. CASE OneAtATime
    BY <2>1, SameIdle DEF OneAtATime, SP!Alone
  <2>2. CASE UNCHANGED vars
    BY <2>2, <1>2 DEF SP!AloneInv, SP!Alone, vars, SP!Idle, SP!Empty
  <2> QED
    BY <2>1, <2>2 DEF MCNext
<1> QED
  BY <1>2, <1>3, <1>4, <1>5, SameConstants, SP!AloneStep DEF SP!IInv

(* A user has one open sitting per test, and the raw score covers the marks,  *)
(* as long as handlers do not overlap.                                       *)
THEOREM SerialSittingsTheorem == MCSpec => []SerialSittings
<1>1. MCInit => SerialInv
  BY SerialInitially
<1>2. SerialInv /\ [MCNext]_<<moving, vars, markingVars, history>> => SerialInv'
  BY SerialStep
<1>3. SerialInv => SerialSittings
  BY SameSittings DEF SerialInv, SerialSittings, SP!AloneInv
<1> QED
  BY <1>1, <1>2, <1>3, PTL DEF MCSpec

(* No answer changes once it is handed in, and an attempt is marked once, as  *)
(* long as handlers do not overlap.                                          *)
THEOREM SerialResultTheorem == MCSpec => SerialResultStands
<1>1. MCInit => SerialInv
  BY SerialInitially
<1>2. SerialInv /\ [MCNext]_<<moving, vars, markingVars, history>> => SerialInv'
  BY SerialStep
<1>3. SerialInv /\ [MCNext]_<<moving, vars, markingVars, history>>
        => [moving = "serial" => AnswersStay /\ MarkStays]_<<moving, vars>>
  BY SerialStep, SameStays
<1> QED
  BY <1>1, <1>2, <1>3, PTL DEF MCSpec, SerialResultStands

-----------------------------------------------------------------------------
(* The band of a paper.                                                    *)

\* Every set of numbers has a least one.
LEMMA LeastNumber ==
    ASSUME NEW T \in SUBSET Nat, T # {}
    PROVE  \E x \in T : \A y \in T : x <= y
<1> DEFINE Less == {p \in Nat \X Nat : p[1] < p[2]}
<1>1. IsWellFoundedOn(Less, Nat)
  BY NatLessThanWellFounded, Zenon DEF OpToRel
<1>2. \E x \in T : \A y \in T : ~ (<<y, x>> \in Less)
  <2> HIDE DEF Less
  <2> QED
    BY <1>1, WFMin
<1>3. PICK x \in T : \A y \in T : <<y, x>> \notin Less
  BY <1>2
<1>4. ASSUME NEW y \in T PROVE x <= y
  <2>1. x \in Nat /\ y \in Nat /\ ~ (y < x)
    BY <1>3
  <2> QED
    BY <2>1
<1> QED
  BY <1>4

\* More right answers never scale to less.
LEMMA RoundedInOrder ==
    ASSUME NEW a \in Nat, NEW b \in Nat, a <= b, NEW n \in Nat \ {0}
    PROVE  M!Rounded(a, n) \in Nat /\ M!Rounded(a, n) <= M!Rounded(b, n)
<1> DEFINE la == a \div n  ra == a % n  lb == b \div n  rb == b % n
<1>1. /\ la \in Nat /\ ra \in 0 .. n - 1 /\ a = n * la + ra
      /\ lb \in Nat /\ rb \in 0 .. n - 1 /\ b = n * lb + rb
  OBVIOUS
<1>2. M!Rounded(a, n) = IF 2 * ra > n \/ (2 * ra = n /\ la % 2 = 1) THEN la + 1 ELSE la
  BY DEF M!Rounded
<1>3. M!Rounded(b, n) = IF 2 * rb > n \/ (2 * rb = n /\ lb % 2 = 1) THEN lb + 1 ELSE lb
  BY DEF M!Rounded
<1> HIDE DEF la, ra, lb, rb
<1>4. la <= lb
  <2> SUFFICES ASSUME lb + 1 <= la PROVE FALSE
    BY <1>1
  <2>1. n * (lb + 1) <= n * la
    BY <1>1
  <2> QED
    BY <1>1, <2>1
<1>5. CASE la = lb
  <2>1. ra <= rb
    BY <1>1, <1>5
  <2> QED
    BY <1>1, <1>2, <1>3, <1>5, <2>1
<1>6. CASE la + 1 <= lb
  BY <1>1, <1>2, <1>3, <1>6
<1> QED
  BY <1>1, <1>4, <1>5, <1>6

\* Nothing right scales to 0, all right to 40.
LEMMA RoundedEnds ==
    ASSUME NEW n \in Nat \ {0}
    PROVE  M!Scaled(0, n) = 0 /\ M!Scaled(n, n) = 40
<1>1. 0 \div n = 0 /\ 0 % n = 0
  OBVIOUS
<1>2. (n * 40) \div n = 40 /\ (n * 40) % n = 0
  <2> DEFINE l == (n * 40) \div n  r == (n * 40) % n
  <2>1. l \in Int /\ r \in 0 .. n - 1 /\ n * 40 = n * l + r
    OBVIOUS
  <2> HIDE DEF l, r
  <2>2. n * (40 - l) = r
    BY <2>1
  <2>3. 40 - l = 0
    <3>1. CASE 40 - l >= 1
      <4>1. n * (40 - l) >= n
        BY <3>1, <2>1
      <4> QED BY <4>1, <2>1, <2>2
    <3>2. CASE 40 - l <= -1
      <4>1. n * (40 - l) <= -n
        BY <3>2, <2>1
      <4> QED BY <4>1, <2>1, <2>2
    <3> QED
      BY <2>1, <3>1, <3>2
  <2> QED
    BY <2>1, <2>2, <2>3 DEF l, r
<1> QED
  BY <1>1, <1>2 DEF M!Scaled, M!Rounded

\* A table of thirteen bands, the highest first.
Banded(table) ==
    /\ DOMAIN table = 1 .. 13
    /\ \A i \in 1 .. 13 : table[i][1] \in 1 .. 40 /\ table[i][2] = 19 - i

LEMMA TablesBanded ==
    /\ Banded(M!ListeningBands)
    /\ Banded(M!AcademicReadingBands)
    /\ Banded(M!GeneralReadingBands)
    /\ \A i \in 1 .. 13 : M!AcademicReadingBands[i][1] <= M!GeneralReadingBands[i][1]
<1>1. Banded(M!ListeningBands)
  BY DEF Banded, M!ListeningBands
<1>2. Banded(M!AcademicReadingBands)
  BY DEF Banded, M!AcademicReadingBands
<1>3. Banded(M!GeneralReadingBands)
  BY DEF Banded, M!GeneralReadingBands
<1>4. \A i \in 1 .. 13 : M!AcademicReadingBands[i][1] <= M!GeneralReadingBands[i][1]
  BY DEF M!AcademicReadingBands, M!GeneralReadingBands
<1> QED
  BY <1>1, <1>2, <1>3, <1>4

LEMMA Entries ==
    ASSUME NEW table, Banded(table), NEW i \in 1 .. 13
    PROVE  ~ (0 >= table[i][1]) /\ 40 >= table[i][1] /\ table[i][1] <= table[i][1]
<1>1. table[i][1] \in 1 .. 40
  BY DEF Banded
<1> QED
  BY <1>1

\* The band looked up is that of the first entry reached.
LEMMA LookedUp ==
    ASSUME NEW table, Banded(table), NEW correct \in Nat,
           NEW reached, reached = {i \in 1 .. 13 : correct >= table[i][1]}
    PROVE  IF reached = {} THEN M!Looked(table, correct) = IF correct > 0 THEN 5 ELSE 0
           ELSE \E i \in reached : /\ \A j \in reached : i <= j
                                   /\ M!Looked(table, correct) = 19 - i
<1>1. CASE reached = {}
  BY <1>1 DEF M!Looked, Banded
<1>2. CASE reached # {}
  <2> DEFINE i == CHOOSE i \in reached : \A j \in reached : i <= j
  <2>1. i \in reached /\ \A j \in reached : i <= j
    <3>1. reached \in SUBSET Nat
      OBVIOUS
    <3> QED
      BY <1>2, <3>1, LeastNumber
  <2>2. M!Looked(table, correct) = table[i][2]
    BY <1>2 DEF M!Looked, Banded
  <2> HIDE DEF i
  <2>3. i \in 1 .. 13 /\ table[i][2] = 19 - i
    BY <2>1 DEF Banded
  <2> QED
    BY <1>2, <2>1, <2>2, <2>3
<1> QED
  BY <1>1, <1>2

\* Nothing right reaches no entry, all right the first.
LEMMA LookedEnds ==
    ASSUME NEW table, Banded(table)
    PROVE  M!Looked(table, 0) = 0 /\ M!Looked(table, 40) = 18
<1>1. {i \in 1 .. 13 : 0 >= table[i][1]} = {}
  BY Entries
<1>2. 1 \in {j \in 1 .. 13 : 40 >= table[j][1]}
  BY Entries
<1>3. M!Looked(table, 0) = 0
  <2>1. {i \in DOMAIN table : 0 >= table[i][1]} = {}
    BY <1>1 DEF Banded
  <2> QED
    BY <2>1 DEF M!Looked
<1>4. PICK i \in {j \in 1 .. 13 : 40 >= table[j][1]} :
          /\ \A n \in {j \in 1 .. 13 : 40 >= table[j][1]} : i <= n
          /\ M!Looked(table, 40) = 19 - i
  BY <1>2, LookedUp
<1> QED
  BY <1>2, <1>3, <1>4

\* A higher score on a table that is reached sooner gives no lower a band.
LEMMA LookedInOrder ==
    ASSUME NEW hard, NEW easy, Banded(hard), Banded(easy),
           \A i \in 1 .. 13 : easy[i][1] <= hard[i][1],
           NEW c \in Nat, NEW d \in Nat, c <= d
    PROVE  M!Looked(hard, c) <= M!Looked(easy, d)
<1> DEFINE rc == {i \in 1 .. 13 : c >= hard[i][1]}
           rd == {i \in 1 .. 13 : d >= easy[i][1]}
<1>1. rc \subseteq rd /\ rd \subseteq 1 .. 13
  <2> SUFFICES ASSUME NEW i \in 1 .. 13, c >= hard[i][1] PROVE d >= easy[i][1]
    OBVIOUS
  <2>1. easy[i][1] \in Int /\ hard[i][1] \in Int
    BY DEF Banded
  <2>2. easy[i][1] <= hard[i][1]
    OBVIOUS
  <2> QED
    BY <2>1, <2>2
<1>2. /\ IF rc = {} THEN M!Looked(hard, c) = IF c > 0 THEN 5 ELSE 0
         ELSE \E i \in rc : (\A j \in rc : i <= j) /\ M!Looked(hard, c) = 19 - i
      /\ IF rd = {} THEN M!Looked(easy, d) = IF d > 0 THEN 5 ELSE 0
         ELSE \E i \in rd : (\A j \in rd : i <= j) /\ M!Looked(easy, d) = 19 - i
  BY LookedUp
<1> HIDE DEF rc, rd
<1> QED
  BY <1>1, <1>2

LEMMA BandTables ==
    ASSUME NEW kind, NEW module, M!TableFor(kind, module) # << >>
    PROVE  Banded(M!TableFor(kind, module))
BY TablesBanded DEF M!TableFor

\* Bands go from 0 to 9 with the raw score.
LEMMA BandsRise ==
    ASSUME NEW kind, NEW module, M!TableFor(kind, module) # << >>, NEW n \in Nat \ {0}
    PROVE  /\ M!BandForRaw(kind, module, 0, n) = 0
           /\ M!BandForRaw(kind, module, n, n) = 18
           /\ \A c, d \in Nat : c <= d =>
                 M!BandForRaw(kind, module, c, n) <= M!BandForRaw(kind, module, d, n)
           /\ \A c \in Nat : M!BandForRaw(kind, module, c, n) \in {0, 5} \cup 6 .. 18
<1> DEFINE table == M!TableFor(kind, module)
<1>1. Banded(table)
  BY BandTables
<1>2. \A c : M!BandForRaw(kind, module, c, n) = M!Looked(table, M!Scaled(c, n))
  BY DEF M!BandForRaw
<1>3. \A c, d \in Nat : c <= d =>
        M!Scaled(c, n) \in Nat /\ M!Scaled(d, n) \in Nat /\ M!Scaled(c, n) <= M!Scaled(d, n)
  <2> TAKE c, d \in Nat
  <2> HAVE c <= d
  <2>1. c * 40 \in Nat /\ d * 40 \in Nat /\ c * 40 <= d * 40
    OBVIOUS
  <2> QED
    BY <2>1, RoundedInOrder DEF M!Scaled
<1> HIDE DEF table
<1>4. M!Looked(table, 0) = 0 /\ M!Looked(table, 40) = 18
  BY <1>1, LookedEnds
<1>6. \A s \in Nat : M!Looked(table, s) \in {0, 5} \cup 6 .. 18
  <2> TAKE s \in Nat
  <2> DEFINE reached == {i \in 1 .. 13 : s >= table[i][1]}
  <2>1. IF reached = {} THEN M!Looked(table, s) = IF s > 0 THEN 5 ELSE 0
        ELSE \E i \in reached : /\ \A j \in reached : i <= j
                                /\ M!Looked(table, s) = 19 - i
    BY <1>1, LookedUp
  <2> QED
    BY <2>1
<1>7. \A c, d \in Nat : c <= d => M!Looked(table, c) <= M!Looked(table, d)
  <2>1. \A i \in 1 .. 13 : table[i][1] <= table[i][1]
    BY <1>1, Entries
  <2> QED
    BY <1>1, <2>1, LookedInOrder
<1>8. M!Scaled(0, n) = 0 /\ M!Scaled(n, n) = 40
  BY RoundedEnds
<1>9. \A c, d \in Nat : c <= d =>
         M!BandForRaw(kind, module, c, n) <= M!BandForRaw(kind, module, d, n)
  BY <1>2, <1>3, <1>7
<1>10. \A c \in Nat : M!BandForRaw(kind, module, c, n) \in {0, 5} \cup 6 .. 18
  <2> TAKE c \in Nat
  <2>1. M!Scaled(c, n) \in Nat
    BY <1>3
  <2> QED
    BY <1>2, <1>6, <2>1
<1> QED
  BY <1>2, <1>4, <1>8, <1>9, <1>10

\* "Marked harder": General Training never gives the higher band.
LEMMA GeneralIsHarder ==
    ASSUME NEW n \in Nat \ {0}, NEW c \in Nat
    PROVE  M!BandForRaw("reading", "general", c, n) <= M!BandForRaw("reading", "academic", c, n)
<1>1. /\ M!TableFor("reading", "general") = M!GeneralReadingBands
      /\ M!TableFor("reading", "academic") = M!AcademicReadingBands
  BY DEF M!TableFor
<1>2. M!GeneralReadingBands # << >> /\ M!AcademicReadingBands # << >>
  BY DEF M!GeneralReadingBands, M!AcademicReadingBands
<1>3. M!Scaled(c, n) \in Nat
  <2>1. c * 40 \in Nat
    OBVIOUS
  <2> QED
    BY <2>1, RoundedInOrder DEF M!Scaled
<1>4. M!Looked(M!GeneralReadingBands, M!Scaled(c, n))
        <= M!Looked(M!AcademicReadingBands, M!Scaled(c, n))
  BY <1>3, TablesBanded, LookedInOrder
<1> QED
  BY <1>1, <1>2, <1>4 DEF M!BandForRaw

(* Marking. *)
ResultRow == [correct: BOOLEAN \cup {None}, marks: Nat]

\* A paper is marked item by item; its maximum is a number, and a band is given
\* when it has a table and a maximum.
MarkingInv ==
    /\ paper \in Papers
    /\ results \in Seq(ResultRow) /\ Len(results) <= Len(paper.items)
    /\ max \in Nat /\ raw \in 0 .. max
    /\ needsRubric = \E i \in DOMAIN results : results[i].correct = None
    /\ band \in {None, 0, 5} \cup 6 .. 18
    /\ done => Len(results) = Len(paper.items)
    /\ band # None => M!TableFor(paper.kind, paper.module) # << >> /\ max # 0

PapersOK ==
    \A p \in Papers :
        /\ Len(p.items) \in Nat /\ DOMAIN p.items = 1 .. Len(p.items)
        /\ \A i \in DOMAIN p.items : p.items[i].span \in Nat

LEMMA PapersAre == PapersOK /\ None \notin Int \cup BOOLEAN
BY InstancesOK DEF PapersOK, M!ConstantsOK, M!ItemOK

\* An item earns all its marks or none.
LEMMA ItemMarked ==
    ASSUME NEW item, item.span \in Nat
    PROVE  M!MarkQuestion(item) \in ResultRow /\ M!MarkQuestion(item).marks \in {0, item.span}
BY DEF M!MarkQuestion, ResultRow

LEMMA MarkingInitially == M!Init => MarkingInv
<1> SUFFICES ASSUME M!Init PROVE MarkingInv
  OBVIOUS
<1>1. /\ << >> \in Seq(ResultRow) /\ Len(<< >>) = 0 /\ DOMAIN << >> = {}
      /\ 0 \in Nat /\ 0 \in 0 .. 0
  OBVIOUS
<1>2. Len(paper.items) \in Nat /\ 0 <= Len(paper.items)
  BY PapersAre DEF PapersOK, M!Init
<1> QED
  BY <1>1, <1>2 DEF M!Init, MarkingInv

LEMMA MarkItemOK == MarkingInv /\ M!MarkItem => MarkingInv'
<1> SUFFICES ASSUME MarkingInv, M!MarkItem PROVE MarkingInv'
  OBVIOUS
<1> DEFINE item == paper.items[Len(results) + 1]
           result == M!MarkQuestion(item)
<1>1. /\ Len(results) < Len(paper.items)
      /\ results' = Append(results, result)
      /\ raw' = raw + result.marks
      /\ max' = max + item.span
      /\ needsRubric' = (needsRubric \/ result.correct = None)
      /\ UNCHANGED <<paper, band, done>>
  BY DEF M!MarkItem
<1>2. item.span \in Nat
  <2>1. Len(results) \in Nat
    BY DEF MarkingInv
  <2>2. Len(results) + 1 \in DOMAIN paper.items
    BY <1>1, <2>1, PapersAre DEF PapersOK, MarkingInv
  <2> QED
    BY <2>2, PapersAre DEF PapersOK, MarkingInv
<1>3. result \in ResultRow /\ result.marks \in {0, item.span}
  BY <1>2, ItemMarked
<1> HIDE DEF item, result
<1>4. /\ results' \in Seq(ResultRow) /\ Len(results') = Len(results) + 1
      /\ Len(results') <= Len(paper.items)'
  <2>1. Len(results) \in Nat /\ Len(paper.items) \in Nat
    BY PapersAre DEF PapersOK, MarkingInv
  <2> QED
    BY <1>1, <1>3, <2>1 DEF MarkingInv
<1>5. max' \in Nat /\ raw' \in 0 .. max' /\ (max # 0 => max' # 0)
  <2>1. max \in Nat /\ raw \in 0 .. max
    BY DEF MarkingInv
  <2>2. result.marks \in Nat /\ result.marks <= item.span
    BY <1>2, <1>3
  <2> QED
    BY <1>1, <1>2, <2>1, <2>2
<1>6. needsRubric' = \E i \in DOMAIN results' : results'[i].correct = None
  <2>1. DOMAIN results' = 1 .. Len(results) + 1 /\ DOMAIN results = 1 .. Len(results)
    BY <1>1 DEF MarkingInv
  <2>2. /\ \A i \in 1 .. Len(results) : results'[i] = results[i]
        /\ results'[Len(results) + 1] = result
    BY <1>1 DEF MarkingInv
  <2>3. Len(results) \in Nat
    BY DEF MarkingInv
  <2>4. (\E i \in DOMAIN results' : results'[i].correct = None)
          <=> (\E i \in DOMAIN results : results[i].correct = None) \/ result.correct = None
    BY <2>1, <2>2, <2>3
  <2> QED
    BY <1>1, <2>4 DEF MarkingInv
<1>7. ~ done'
  <2>1. Len(results) \in Nat /\ Len(paper.items) \in Nat
    BY PapersAre DEF PapersOK, MarkingInv
  <2> QED
    BY <1>1, <2>1 DEF MarkingInv
<1> QED
  BY <1>1, <1>4, <1>5, <1>6, <1>7 DEF MarkingInv

LEMMA FinishOK == MarkingInv /\ M!Finish => MarkingInv'
<1> SUFFICES ASSUME MarkingInv, M!Finish PROVE MarkingInv'
  OBVIOUS
<1>1. /\ Len(results) = Len(paper.items)
      /\ UNCHANGED <<paper, results, raw, max, needsRubric>>
      /\ band' = None \/ band' = M!BandForRaw(paper.kind, paper.module, raw, max)
  BY DEF M!Finish
<1>2. band' # None => /\ M!TableFor(paper.kind, paper.module) # << >> /\ max # 0
                      /\ band' \in {0, 5} \cup 6 .. 18
  <2> SUFFICES ASSUME band' # None
               PROVE  /\ M!TableFor(paper.kind, paper.module) # << >> /\ max # 0
                      /\ band' \in {0, 5} \cup 6 .. 18
    OBVIOUS
  <2>1. M!TableFor(paper.kind, paper.module) # << >> /\ max # 0
    BY <1>1 DEF M!BandForRaw
  <2>2. max \in Nat \ {0} /\ raw \in Nat
    BY <2>1 DEF MarkingInv
  <2> QED
    BY <1>1, <2>1, <2>2, BandsRise
<1> QED
  BY <1>1, <1>2 DEF MarkingInv

LEMMA BandsFromTable == MarkingInv => M!BandsInOrder
<1> SUFFICES ASSUME MarkingInv, done, band # None
             PROVE  /\ M!BandForRaw(paper.kind, paper.module, 0, max) = 0
                    /\ M!BandForRaw(paper.kind, paper.module, max, max) = 18
                    /\ \A c \in 0 .. max - 1 :
                          M!BandForRaw(paper.kind, paper.module, c, max)
                              <= M!BandForRaw(paper.kind, paper.module, c + 1, max)
                    /\ \A c \in 0 .. max :
                          M!BandForRaw("reading", "general", c, max)
                              <= M!BandForRaw("reading", "academic", c, max)
  BY DEF M!BandsInOrder
<1>1. max \in Nat \ {0} /\ M!TableFor(paper.kind, paper.module) # << >>
  BY DEF MarkingInv
<1>2. \A c \in 0 .. max - 1 : c \in Nat /\ c + 1 \in Nat /\ c <= c + 1
  BY <1>1
<1>3. \A c \in 0 .. max : c \in Nat
  BY <1>1
<1> QED
  BY <1>1, <1>2, <1>3, BandsRise, GeneralIsHarder

-----------------------------------------------------------------------------
(* The history of bands.                                                   *)

\* What is rounded lies nearest, and between what it lies between.
LEMMA RoundedNearest ==
    ASSUME NEW a \in Int, NEW b \in Nat \ {0}
    PROVE  P!Rounded(a, b) \in Int /\ P!Nearest(P!Rounded(a, b), a, b)
<1> DEFINE low == a \div b  rest == a % b
<1>1. low \in Int /\ rest \in 0 .. b - 1 /\ a = b * low + rest
  OBVIOUS
<1>2. P!Rounded(a, b) =
        IF 2 * rest > b \/ (2 * rest = b /\ low % 2 = 1) THEN low + 1 ELSE low
  BY DEF P!Rounded
<1> HIDE DEF low, rest
<1>3. a - low * b = rest /\ a - (low + 1) * b = rest - b
  BY <1>1
<1>4. CASE P!Rounded(a, b) = low /\ 2 * rest <= b
  BY <1>1, <1>3, <1>4 DEF P!Nearest
<1>5. CASE P!Rounded(a, b) = low + 1 /\ 2 * rest >= b
  BY <1>1, <1>3, <1>5 DEF P!Nearest
<1> QED
  BY <1>1, <1>2, <1>4, <1>5

LEMMA RoundedBetween ==
    ASSUME NEW a \in Int, NEW b \in Nat \ {0}, NEW lo \in Int, NEW hi \in Int,
           lo * b <= a, a <= hi * b
    PROVE  P!Rounded(a, b) \in lo .. hi
<1> DEFINE m == P!Rounded(a, b)
<1>1. m \in Int /\ 2 * (a - m * b) \in -b .. b
  BY RoundedNearest DEF P!Nearest
<1> HIDE DEF m
<1>2. ~ (m + 1 <= lo)
  <2> SUFFICES ASSUME m + 1 <= lo PROVE FALSE
    OBVIOUS
  <2>1. (m + 1) * b <= lo * b /\ (m + 1) * b = m * b + b
    BY <1>1
  <2> QED
    BY <1>1, <2>1
<1>3. ~ (hi + 1 <= m)
  <2> SUFFICES ASSUME hi + 1 <= m PROVE FALSE
    OBVIOUS
  <2>1. (hi + 1) * b <= m * b /\ (hi + 1) * b = hi * b + b
    BY <1>1
  <2> QED
    BY <1>1, <2>1
<1> QED
  BY <1>1, <1>2, <1>3 DEF m

\* The average of four criteria is a band.
LEMMA OverallBands ==
    ASSUME Grain \in Nat \ {0}, NEW sum \in 0 .. 72 * Grain
    PROVE  P!Overall(sum) \in 0 .. 18
<1> PICK four : four = 4 * Grain
  OBVIOUS
<1> PICK lo, hi : lo = 0 /\ hi = 18
  OBVIOUS
<1>1. four \in Nat \ {0} /\ sum \in Int /\ lo \in Int /\ hi \in Int
  OBVIOUS
<1>2. lo * four <= sum /\ sum <= hi * four
  OBVIOUS
<1>3. P!Rounded(sum, four) \in lo .. hi
  BY <1>1, <1>2, RoundedBetween, Zenon
<1> QED
  BY <1>3 DEF P!Overall

LEMMA BandsAndScores ==
    /\ None \notin Int /\ Bands \subseteq 0 .. 18
    /\ Grain \in Nat \ {0} /\ Sums \subseteq 0 .. 72 * Grain
    /\ Keyed \cap Rubrics = {} /\ Window \in Nat \ {0}
BY InstancesOK DEF P!ConstantsOK

\* An attempt with a complete set of scores has the band they give.
BandsFollowScores ==
    \A k \in P!Skills : \A i \in DOMAIN history[k] :
        history[k][i].scores # None => history[k][i].band = P!Overall(history[k][i].scores)

HistoryInv == P!TypeOK /\ BandsFollowScores

LEMMA HistoryInitially == P!Init => HistoryInv
BY DEF P!Init, HistoryInv, BandsFollowScores, P!TypeOK, P!Skills

\* A sitting handed in goes before the others.
LEMMA HandedOK ==
    ASSUME HistoryInv, NEW k \in P!Skills, NEW row \in P!AttemptRow, row.scores = None,
           k \in Keyed => row.band # None, k \in Rubrics => row.band = None,
           P!Handed(k, row)
    PROVE  HistoryInv'
<1>1. history' = [history EXCEPT ![k] = <<row>> \o @]
  BY DEF P!Handed
<1>2. history \in [P!Skills -> Seq(P!AttemptRow)]
  BY DEF HistoryInv, P!TypeOK
<1> DEFINE earlier == history[k]  later == history'[k]
<1>3. earlier \in Seq(P!AttemptRow) /\ later = <<row>> \o earlier
  BY <1>1, <1>2
<1> HIDE DEF earlier, later
<1>4. /\ later \in Seq(P!AttemptRow)
      /\ \A i \in DOMAIN later :
            later[i] = row \/ \E j \in DOMAIN earlier : later[i] = earlier[j]
  <2>1. /\ Len(later) = Len(earlier) + 1 /\ Len(earlier) \in Nat
        /\ DOMAIN later = 1 .. Len(earlier) + 1 /\ DOMAIN earlier = 1 .. Len(earlier)
        /\ \A i \in 1 .. Len(earlier) + 1 : later[i] = IF i = 1 THEN row ELSE earlier[i - 1]
    BY <1>3
  <2> QED
    BY <1>3, <2>1
<1>5. \A l \in P!Skills \ {k} : history'[l] = history[l]
  BY <1>1, <1>2
<1>6. history' \in [P!Skills -> Seq(P!AttemptRow)]
  BY <1>1, <1>2, <1>3, <1>4 DEF later
<1>7. \A l \in Keyed : \A i \in DOMAIN history'[l] :
        history'[l][i].scores = None /\ history'[l][i].band # None
  BY <1>4, <1>5 DEF HistoryInv, P!TypeOK, P!Skills, earlier, later
<1>8. \A l \in Rubrics : \A i \in DOMAIN history'[l] :
        history'[l][i].scores = None <=> history'[l][i].band = None
  BY <1>4, <1>5 DEF HistoryInv, P!TypeOK, P!Skills, earlier, later
<1>9. BandsFollowScores'
  <2> SUFFICES ASSUME NEW l \in P!Skills, NEW i \in DOMAIN history'[l],
                      history'[l][i].scores # None
               PROVE  history'[l][i].band = P!Overall(history'[l][i].scores)
    BY DEF BandsFollowScores, P!Skills, P!Overall, P!Rounded
  <2> QED
    BY <1>4, <1>5 DEF HistoryInv, BandsFollowScores, earlier, later
<1> QED
  BY <1>6, <1>7, <1>8, <1>9 DEF HistoryInv, P!TypeOK

\* A complete set of scores gives an attempt its band.
LEMMA ScoreOK ==
    ASSUME HistoryInv, NEW k \in Rubrics, NEW i, NEW sum \in Sums, P!Score(k, i, sum)
    PROVE  HistoryInv'
<1> DEFINE row == [scores |-> sum, band |-> P!Overall(sum)]
<1>1. i \in DOMAIN history[k] /\ history' = [history EXCEPT ![k][i] = row]
  BY DEF P!Score
<1>2. history \in [P!Skills -> Seq(P!AttemptRow)] /\ k \in P!Skills
  BY DEF HistoryInv, P!TypeOK, P!Skills
<1>3. row \in P!AttemptRow /\ row.scores # None /\ row.band # None
  <2>1. sum \in 0 .. 72 * Grain /\ sum # None
    BY BandsAndScores
  <2>2. P!Overall(sum) \in 0 .. 18 /\ P!Overall(sum) # None
    BY <2>1, OverallBands, BandsAndScores
  <2> QED
    BY <2>1, <2>2 DEF P!AttemptRow
<1>a. row.band = P!Overall(row.scores)
  OBVIOUS
<1> HIDE DEF row
<1> DEFINE s == history[k]  z == history'[k]
<1>4. s \in Seq(P!AttemptRow) /\ i \in DOMAIN s /\ z = [s EXCEPT ![i] = row]
  BY <1>1, <1>2
<1>5. \A l \in P!Skills \ {k} : history'[l] = history[l]
  BY <1>1, <1>2
<1> HIDE DEF s, z
<1>6. /\ z \in Seq(P!AttemptRow) /\ DOMAIN z = DOMAIN s
      /\ \A j \in DOMAIN z : z[j] = row \/ z[j] = s[j]
  BY <1>3, <1>4
<1>7. history' \in [P!Skills -> Seq(P!AttemptRow)]
  BY <1>1, <1>2, <1>6 DEF z
<1>8. \A l \in Keyed : \A j \in DOMAIN history'[l] :
        history'[l][j].scores = None /\ history'[l][j].band # None
  BY <1>5, BandsAndScores DEF HistoryInv, P!TypeOK, P!Skills
<1>9. \A l \in Rubrics : \A j \in DOMAIN history'[l] :
        history'[l][j].scores = None <=> history'[l][j].band = None
  <2> TAKE l \in Rubrics
  <2>1. CASE l = k
    BY <1>3, <1>6, <2>1 DEF HistoryInv, P!TypeOK, s, z
  <2>2. CASE l # k
    BY <1>5, <2>2 DEF HistoryInv, P!TypeOK, P!Skills
  <2> QED
    BY <2>1, <2>2
<1>10. BandsFollowScores'
  <2> SUFFICES ASSUME NEW l \in P!Skills, NEW j \in DOMAIN history'[l],
                      history'[l][j].scores # None
               PROVE  history'[l][j].band = P!Overall(history'[l][j].scores)
    BY DEF BandsFollowScores, P!Skills, P!Overall, P!Rounded
  <2> QED
    BY <1>5, <1>6, <1>a DEF HistoryInv, BandsFollowScores, s, z
<1> QED
  BY <1>7, <1>8, <1>9, <1>10 DEF HistoryInv, P!TypeOK

LEMMA HistoryStep == HistoryInv /\ P!Next => HistoryInv'
<1> SUFFICES ASSUME HistoryInv, P!Next PROVE HistoryInv'
  OBVIOUS
<1>1. ASSUME NEW k \in Keyed, NEW b \in Bands, P!SubmitKeyed(k, b) PROVE HistoryInv'
  <2>1. [scores |-> None, band |-> b] \in P!AttemptRow /\ b # None
    BY BandsAndScores DEF P!AttemptRow
  <2> QED
    BY <1>1, <2>1, HandedOK, BandsAndScores DEF P!SubmitKeyed, P!Skills
<1>2. ASSUME NEW k \in Rubrics, P!SubmitRubric(k) PROVE HistoryInv'
  <2>1. [scores |-> None, band |-> None] \in P!AttemptRow
    BY DEF P!AttemptRow
  <2> QED
    BY <1>2, <2>1, HandedOK, BandsAndScores DEF P!SubmitRubric, P!Skills
<1>3. ASSUME NEW k \in Rubrics, NEW i \in 1 .. MaxTaken, NEW sum \in Sums, P!Score(k, i, sum)
      PROVE  HistoryInv'
  BY <1>3, ScoreOK
<1> QED
  BY <1>1, <1>2, <1>3 DEF P!Next

-----------------------------------------------------------------------------
(* Estimates.                                                              *)

\* g adds up f over every part of W, a member at a time.
AddsUp(f, W, g) ==
    g = [d \in SUBSET W |->
            IF d = {} THEN 0
            ELSE f[CHOOSE x \in d : TRUE] + g[d \ {CHOOSE x \in d : TRUE}]]

\* Over a finite set there is such a g: a sum over n members is made from those
\* over fewer.
LEMMA SumExists ==
    ASSUME NEW W, IsFiniteSet(W), NEW f
    PROVE  \E g : AddsUp(f, W, g)
<1> DEFINE one(d) == CHOOSE x \in d : TRUE
           AddsUpTo(n, g) == /\ g = [d \in SUBSET W |-> g[d]]
                         /\ \A d \in SUBSET W : Cardinality(d) <= n =>
                               g[d] = IF d = {} THEN 0 ELSE f[one(d)] + g[d \ {one(d)}]
           T == {n \in Nat : ~ \E g : AddsUpTo(n, g)}
<1>0. \A d \in SUBSET W : IsFiniteSet(d) /\ Cardinality(d) \in Nat
  BY FS_Subset, FS_CardinalityType
<1>a. ASSUME NEW d \in SUBSET W, d # {}
      PROVE  /\ one(d) \in d /\ d \ {one(d)} \in SUBSET W
             /\ Cardinality(d \ {one(d)}) = Cardinality(d) - 1
  <2>1. one(d) \in d
    BY <1>a
  <2> QED
    BY <1>0, <2>1, FS_RemoveElement
<1> HIDE DEF one
<1>1. T = {}
  <2> SUFFICES ASSUME T # {} PROVE FALSE
    OBVIOUS
  <2>1. PICK m \in T : \A y \in T : m <= y
    BY LeastNumber
  <2>2. m # 0
    <3>1. AddsUpTo(0, [d \in SUBSET W |-> 0])
      <4>1. \A d \in SUBSET W : Cardinality(d) <= 0 => d = {}
        <5> SUFFICES ASSUME NEW d \in SUBSET W, Cardinality(d) <= 0, d # {} PROVE FALSE
          OBVIOUS
        <5>1. Cardinality(d \ {one(d)}) \in Nat /\ Cardinality(d) \in Nat
          BY <1>0, <1>a
        <5> QED
          BY <1>a, <5>1
      <4> QED
        BY <4>1
    <3> HIDE DEF AddsUpTo
    <3> QED
      BY <2>1, <3>1
  <2>3. PICK g : AddsUpTo(m - 1, g)
    <3>1. m - 1 \in Nat /\ ~ (m <= m - 1)
      BY <2>1, <2>2
    <3> QED
      BY <2>1, <3>1
  <2> DEFINE h == [d \in SUBSET W |-> IF Cardinality(d) = m THEN f[one(d)] + g[d \ {one(d)}]
                                       ELSE g[d]]
  <2>4. AddsUpTo(m, h)
    <3>1. h = [d \in SUBSET W |-> h[d]]
      OBVIOUS
    <3>2. ASSUME NEW d \in SUBSET W, Cardinality(d) <= m
          PROVE  h[d] = IF d = {} THEN 0 ELSE f[one(d)] + h[d \ {one(d)}]
      <4>1. CASE d = {}
        <5>1. Cardinality(d) = 0
          BY <4>1, FS_EmptySet
        <5>2. h[d] = g[d]
          BY <2>2, <5>1
        <5>3. 0 <= m - 1
          BY <2>1, <2>2
        <5> QED
          BY <2>3, <4>1, <5>1, <5>2, <5>3
      <4>2. CASE d # {}
        <5>1. /\ d \ {one(d)} \in SUBSET W
              /\ Cardinality(d \ {one(d)}) = Cardinality(d) - 1
              /\ Cardinality(d) \in Nat /\ m \in Nat
          BY <1>0, <1>a, <4>2
        <5>2. h[d \ {one(d)}] = g[d \ {one(d)}]
          BY <3>2, <5>1
        <5>3. CASE Cardinality(d) = m
          BY <4>2, <5>2, <5>3
        <5>4. CASE Cardinality(d) <= m - 1
          <6>1. h[d] = g[d]
            BY <5>1, <5>4
          <6> QED
            BY <2>3, <4>2, <5>2, <5>4, <6>1
        <5> QED
          BY <3>2, <5>1, <5>3, <5>4
      <4> QED
        BY <4>1, <4>2
    <3> HIDE DEF h
    <3> QED
      BY <3>1, <3>2
  <2> HIDE DEF h, AddsUpTo
  <2> QED
    BY <2>1, <2>4
<1>2. Cardinality(W) \in Nat /\ \A d \in SUBSET W : Cardinality(d) <= Cardinality(W)
  BY <1>0, FS_Subset
<1>3. PICK g : AddsUpTo(Cardinality(W), g)
  <2> HIDE DEF AddsUpTo
  <2> QED
    BY <1>1, <1>2
<1>4. \A d \in SUBSET W : g[d] = IF d = {} THEN 0 ELSE f[one(d)] + g[d \ {one(d)}]
  BY <1>2, <1>3
<1>5. g = [d \in SUBSET W |-> IF d = {} THEN 0 ELSE f[one(d)] + g[d \ {one(d)}]]
  BY <1>3, <1>4
<1> QED
  BY <1>5 DEF AddsUp, one

\* A sum over any part lies between the least and the greatest it can be.
LEMMA SumBounds ==
    ASSUME NEW W, IsFiniteSet(W), NEW f, NEW lo \in Int, NEW hi \in Int,
           \A x \in W : f[x] \in lo .. hi, NEW g, AddsUp(f, W, g)
    PROVE  \A d \in SUBSET W : /\ g[d] \in Int
                               /\ lo * Cardinality(d) <= g[d] /\ g[d] <= hi * Cardinality(d)
<1> DEFINE one(d) == CHOOSE x \in d : TRUE
<1>0. \A d \in SUBSET W : IsFiniteSet(d) /\ Cardinality(d) \in Nat
  BY FS_Subset, FS_CardinalityType
<1>2. \A d \in SUBSET W : g[d] = IF d = {} THEN 0 ELSE f[one(d)] + g[d \ {one(d)}]
  BY DEF AddsUp
<1>a. ASSUME NEW d \in SUBSET W, d # {}
      PROVE  /\ one(d) \in d /\ d \ {one(d)} \in SUBSET W
             /\ Cardinality(d \ {one(d)}) = Cardinality(d) - 1
  <2>1. one(d) \in d
    BY <1>a
  <2> QED
    BY <1>0, <2>1, FS_RemoveElement
<1> HIDE DEF one
<1> DEFINE Bounded(d) == /\ g[d] \in Int
                         /\ lo * Cardinality(d) <= g[d] /\ g[d] <= hi * Cardinality(d)
           T == {n \in Nat : \E d \in SUBSET W : Cardinality(d) = n /\ ~ Bounded(d)}
<1>3. T = {}
  <2> SUFFICES ASSUME T # {} PROVE FALSE
    OBVIOUS
  <2>1. PICK m \in T : \A y \in T : m <= y
    BY LeastNumber
  <2>2. PICK d \in SUBSET W : Cardinality(d) = m /\ ~ Bounded(d)
    BY <2>1
  <2>3. d # {}
    <3>1. lo * 0 = 0 /\ hi * 0 = 0
      OBVIOUS
    <3>2. d = {} => g[d] = 0 /\ Cardinality(d) = 0
      BY <1>2, FS_EmptySet
    <3> QED
      BY <2>2, <3>1, <3>2
  <2> DEFINE e == d \ {one(d)}
  <2>4. /\ e \in SUBSET W /\ Cardinality(e) = m - 1 /\ m - 1 \in Nat /\ ~ (m <= m - 1)
        /\ f[one(d)] \in lo .. hi
    <3>1. one(d) \in d /\ e \in SUBSET W /\ Cardinality(e) = m - 1
      BY <1>a, <2>2, <2>3
    <3>2. Cardinality(e) \in Nat /\ m \in Nat
      BY <1>0, <2>1, <3>1
    <3> QED
      BY <3>1, <3>2
  <2>5. Bounded(e)
    <3> HIDE DEF e, Bounded
    <3> QED
      BY <2>1, <2>4
  <2>6. g[d] = f[one(d)] + g[e]
    BY <1>2, <2>3
  <2> HIDE DEF e
  <2>7. lo * m = lo * (m - 1) + lo /\ hi * m = hi * (m - 1) + hi
    BY <2>4
  <2> QED
    BY <2>2, <2>4, <2>5, <2>6, <2>7
<1>4. \A d \in SUBSET W : Bounded(d)
  <2> HIDE DEF Bounded
  <2> QED
    BY <1>0, <1>3
<1> QED
  BY <1>4

\* A set of bands has a least and a greatest one.
LEMMA Extremes ==
    ASSUME NEW T \in SUBSET (0 .. 18), T # {}
    PROVE  /\ P!Min(T) \in T /\ P!Max(T) \in T
           /\ \A x \in T : P!Min(T) <= x /\ x <= P!Max(T)
<1>1. PICK x \in T : \A y \in T : x <= y
  BY LeastNumber
<1>2. P!Min(T) \in T /\ \A y \in T : P!Min(T) <= y
  BY <1>1 DEF P!Min
<1> DEFINE U == {n \in 0 .. 18 : 18 - n \in T}
<1>3. U \in SUBSET Nat /\ U # {}
  <2>1. PICK y \in T : TRUE
    OBVIOUS
  <2>2. y \in 0 .. 18
    OBVIOUS
  <2>3. 18 - y \in 0 .. 18 /\ 18 - (18 - y) = y
    BY <2>2
  <2>4. 18 - (18 - y) \in T
    BY <2>3
  <2>5. 18 - y \in U
    BY <2>3, <2>4
  <2>6. U \subseteq Nat
    OBVIOUS
  <2> QED
    BY <2>5, <2>6
<1>4. PICK n \in U : \A m \in U : n <= m
  <2> HIDE DEF U
  <2> QED
    BY <1>3, LeastNumber
<1>5. \A y \in T : 18 - n >= y
  <2> TAKE y \in T
  <2>1. y \in 0 .. 18
    OBVIOUS
  <2>2. 18 - y \in 0 .. 18 /\ 18 - (18 - y) = y
    BY <2>1
  <2>3. 18 - (18 - y) \in T
    BY <2>2
  <2>4. 18 - y \in U
    BY <2>2, <2>3
  <2>5. n \in 0 .. 18 /\ n <= 18 - y
    BY <1>4, <2>4
  <2> HIDE DEF U
  <2> QED
    BY <2>1, <2>5
<1>6. P!Max(T) \in T /\ \A y \in T : P!Max(T) >= y
  BY <1>4, <1>5 DEF P!Max
<1> QED
  BY <1>2, <1>6

LEMMA SameSize == \A Z : P!Cardinality(Z) = Cardinality(Z)
BY DEF P!Cardinality, Cardinality

\* The attempts that count are some of the history, and have bands.
LEMMA RecentBands ==
    ASSUME HistoryInv, NEW k \in P!Skills
    PROVE  /\ IsFiniteSet(P!Recent(k)) /\ Cardinality(P!Recent(k)) \in Nat
           /\ P!Recent(k) # {} => Cardinality(P!Recent(k)) # 0
           /\ \A i \in P!Recent(k) : P!BandOf(k, i) \in 0 .. 18
<1>1. history[k] \in Seq(P!AttemptRow)
  BY DEF HistoryInv, P!TypeOK
<1>2. P!Recent(k) \subseteq P!WithBand(k) /\ P!WithBand(k) \subseteq DOMAIN history[k]
  BY DEF P!Recent, P!WithBand
<1>3. DOMAIN history[k] = 1 .. Len(history[k]) /\ Len(history[k]) \in Nat
  BY <1>1
<1>4. IsFiniteSet(P!Recent(k))
  <2>1. IsFiniteSet(1 .. Len(history[k]))
    <3>1. 1 \in Int /\ Len(history[k]) \in Int
      BY <1>3
    <3> QED
      BY <3>1, FS_Interval
  <2> QED
    BY <1>2, <1>3, <2>1, FS_Subset
<1>5. \A i \in P!Recent(k) : P!BandOf(k, i) \in 0 .. 18
  <2> TAKE i \in P!Recent(k)
  <2>1. i \in DOMAIN history[k] /\ P!BandOf(k, i) # None
    BY <1>2 DEF P!WithBand
  <2>2. history[k][i] \in P!AttemptRow
    BY <1>1, <2>1
  <2> QED
    BY <2>1, <2>2 DEF P!BandOf, P!AttemptRow
<1> QED
  BY <1>4, <1>5, FS_CardinalityType, FS_EmptySet

\* The sum of the bands that count lies between as many of the lowest and of
\* the highest.
LEMMA TotalBetween ==
    ASSUME HistoryInv, NEW k \in P!Skills, NEW lo \in Int, NEW hi \in Int,
           \A i \in P!Recent(k) : P!BandOf(k, i) \in lo .. hi
    PROVE  /\ P!Total(k) \in Int
           /\ lo * Cardinality(P!Recent(k)) <= P!Total(k)
           /\ P!Total(k) <= hi * Cardinality(P!Recent(k))
<1> DEFINE R == P!Recent(k)
           f == [i \in R |-> P!BandOf(k, i)]
           Adds(g) == g = [d \in SUBSET R |->
                             IF d = {} THEN 0
                             ELSE P!BandOf(k, CHOOSE x \in d : TRUE)
                                    + g[d \ {CHOOSE x \in d : TRUE}]]
           sum == CHOOSE g : Adds(g)
<1>1. P!Total(k) = sum[R]
  BY DEF P!Total, P!MapThenSumSet, P!MapThenFoldSet
<1>2. \A g : AddsUp(f, R, g) <=> Adds(g)
  BY DEF AddsUp
<1>3. IsFiniteSet(R) /\ \A x \in R : f[x] \in lo .. hi
  BY RecentBands
<1> HIDE DEF R, f, Adds
<1>4. AddsUp(f, R, sum)
  BY <1>2, <1>3, SumExists
<1> HIDE DEF sum
<1> QED
  BY <1>1, <1>3, <1>4, SumBounds DEF R

\* The band of a skill lies nearest to the mean of what counts, and between.
LEMMA SkillBands ==
    ASSUME HistoryInv, NEW k \in P!Sat
    PROVE  /\ P!SkillBand(k) \in Int
           /\ P!Nearest(P!SkillBand(k), P!Total(k), Cardinality(P!Recent(k)))
           /\ \A lo, hi \in Int :
                 (\A i \in P!Recent(k) : P!BandOf(k, i) \in lo .. hi)
                    => P!SkillBand(k) \in lo .. hi
<1>1. k \in P!Skills /\ Cardinality(P!Recent(k)) \in Nat \ {0}
  BY RecentBands DEF P!Sat
<1>2. P!Total(k) \in Int
  <2>1. \A i \in P!Recent(k) : P!BandOf(k, i) \in 0 .. 18
    BY <1>1, RecentBands
  <2>2. 0 \in Int /\ 18 \in Int
    OBVIOUS
  <2> QED
    BY <1>1, <2>1, <2>2, TotalBetween
<1>3. ASSUME NEW lo \in Int, NEW hi \in Int, \A i \in P!Recent(k) : P!BandOf(k, i) \in lo .. hi
      PROVE  P!SkillBand(k) \in lo .. hi
  <2>1. /\ lo * Cardinality(P!Recent(k)) <= P!Total(k)
        /\ P!Total(k) <= hi * Cardinality(P!Recent(k))
    BY <1>1, <1>3, TotalBetween
  <2> QED
    BY <1>1, <1>2, <2>1, SameSize, RoundedBetween DEF P!SkillBand
<1>4. P!SkillBand(k) = P!Rounded(P!Total(k), Cardinality(P!Recent(k)))
  BY SameSize DEF P!SkillBand
<1> QED
  BY <1>1, <1>2, <1>3, <1>4, RoundedNearest

\* So does the overall band, of all skills together.
LEMMA OverallBetween ==
    ASSUME HistoryInv, P!Sat # {}, NEW lo \in Int, NEW hi \in Int,
           \A k \in P!Sat : P!SkillBand(k) \in lo .. hi
    PROVE  P!OverallBand(P!Sat) \in lo .. hi
<1> DEFINE R == P!Sat
           f == [k \in R |-> P!SkillBand(k)]
           Adds(g) == g = [d \in SUBSET R |->
                             IF d = {} THEN 0
                             ELSE P!SkillBand(CHOOSE x \in d : TRUE)
                                    + g[d \ {CHOOSE x \in d : TRUE}]]
           sum == CHOOSE g : Adds(g)
<1>1. P!OverallBand(R) = P!Rounded(sum[R], P!Cardinality(R))
  BY DEF P!OverallBand, P!MapThenSumSet, P!MapThenFoldSet
<1>2. \A g : AddsUp(f, R, g) <=> Adds(g)
  BY DEF AddsUp
<1>3. IsFiniteSet(R)
  BY InstancesOK, FS_Subset DEF P!Sat
<1>4. Cardinality(R) \in Nat \ {0} /\ P!Cardinality(R) = Cardinality(R)
  BY <1>3, FS_CardinalityType, FS_EmptySet, SameSize
<1>5. \A x \in R : f[x] \in lo .. hi
  OBVIOUS
<1> HIDE DEF R, f, Adds
<1>6. AddsUp(f, R, sum)
  BY <1>2, <1>3, SumExists
<1> HIDE DEF sum
<1>7. sum[R] \in Int /\ lo * Cardinality(R) <= sum[R] /\ sum[R] <= hi * Cardinality(R)
  BY <1>3, <1>5, <1>6, SumBounds
<1> QED
  BY <1>1, <1>4, <1>7, RoundedBetween DEF R

LEMMA EstimateFollows == HistoryInv => P!EstimateStands
<1> SUFFICES ASSUME HistoryInv PROVE P!NearestHalfBand /\ P!OverallWithinBands
  BY DEF P!EstimateStands
<1>1. P!NearestHalfBand
  <2>1. ASSUME NEW k \in P!Skills, NEW i \in DOMAIN history[k], history[k][i].scores # None
        PROVE  P!Nearest(history[k][i].band, history[k][i].scores, 4 * Grain)
    <3>1. history[k][i] \in P!AttemptRow
      BY DEF HistoryInv, P!TypeOK
    <3>2. history[k][i].scores \in Int
      <4>1. history[k][i].scores \in Sums
        BY <2>1, <3>1 DEF P!AttemptRow
      <4>2. \A x \in Sums : x \in Int
        BY BandsAndScores
      <4> QED
        BY <4>1, <4>2
    <3>3. history[k][i].band = P!Rounded(history[k][i].scores, 4 * Grain)
      BY <2>1 DEF HistoryInv, BandsFollowScores, P!Overall
    <3>4. 4 * Grain \in Nat \ {0}
      BY BandsAndScores
    <3> QED
      BY <3>2, <3>3, <3>4, RoundedNearest
  <2> QED
    BY <2>1, SkillBands, SameSize DEF P!NearestHalfBand
<1>2. P!OverallWithinBands
  <2> DEFINE counted == UNION {{P!BandOf(k, i) : i \in P!Recent(k)} : k \in P!Sat}
  <2>1. CASE P!Sat = {}
    BY <2>1 DEF P!OverallWithinBands, P!OverallBand
  <2>2. CASE P!Sat # {}
    <3>1. counted \in SUBSET (0 .. 18)
      BY RecentBands DEF P!Sat
    <3>2. counted # {}
      BY <2>2 DEF P!Sat
    <3>3. ASSUME NEW k \in P!Sat, NEW i \in P!Recent(k) PROVE P!BandOf(k, i) \in counted
      OBVIOUS
    <3> HIDE DEF counted
    <3>4. /\ P!Min(counted) \in Int /\ P!Max(counted) \in Int
          /\ \A x \in counted : x \in P!Min(counted) .. P!Max(counted)
      <4>1. \A x \in counted : x \in Int
        BY <3>1
      <4>2. /\ P!Min(counted) \in counted /\ P!Max(counted) \in counted
            /\ \A x \in counted : P!Min(counted) <= x /\ x <= P!Max(counted)
        BY <3>1, <3>2, Extremes
      <4> QED
        BY <4>1, <4>2
    <3>5. \A k \in P!Sat : P!SkillBand(k) \in P!Min(counted) .. P!Max(counted)
      BY <3>3, <3>4, SkillBands
    <3>6. P!OverallBand(P!Sat) \in P!Min(counted) .. P!Max(counted)
      BY <2>2, <3>4, <3>5, OverallBetween
    <3> QED
      BY <2>2, <3>6 DEF counted, P!OverallWithinBands
  <2> QED
    BY <2>1, <2>2
<1> QED
  BY <1>1, <1>2

-----------------------------------------------------------------------------
(* What lowers an estimate.                                                *)

\* The order of summation does not matter: any member may go first.
AnyFirst(f, W, g) == \A d \in SUBSET W : \A x \in d : g[d] = f[x] + g[d \ {x}]

LEMMA SumSplit ==
    ASSUME NEW W, IsFiniteSet(W), NEW f, NEW lo \in Int, NEW hi \in Int,
           \A x \in W : f[x] \in lo .. hi, NEW g, AddsUp(f, W, g)
    PROVE  AnyFirst(f, W, g)
<1> DEFINE one(d) == CHOOSE x \in d : TRUE
           Splits(d) == \A x \in d : g[d] = f[x] + g[d \ {x}]
           T == {n \in Nat : \E d \in SUBSET W : Cardinality(d) = n /\ ~ Splits(d)}
<1>0. \A d \in SUBSET W : IsFiniteSet(d) /\ Cardinality(d) \in Nat /\ g[d] \in Int
  BY FS_Subset, FS_CardinalityType, SumBounds
<1>1. \A d \in SUBSET W : d # {} => one(d) \in d /\ g[d] = f[one(d)] + g[d \ {one(d)}]
  BY DEF AddsUp
<1> HIDE DEF one
<1>2. T = {}
  <2> SUFFICES ASSUME T # {} PROVE FALSE
    OBVIOUS
  <2>1. PICK m \in T : \A y \in T : m <= y
    BY LeastNumber
  <2>2. PICK d \in SUBSET W : Cardinality(d) = m /\ ~ Splits(d)
    BY <2>1
  <2>3. PICK x \in d : g[d] # f[x] + g[d \ {x}]
    BY <2>2
  <2> DEFINE c == one(d)  e == d \ {c}  u == d \ {x}
  <2>4. c \in d /\ c # x /\ g[d] = f[c] + g[e]
    BY <1>1, <2>3
  <2>5. /\ e \in SUBSET W /\ u \in SUBSET W /\ x \in e /\ c \in u /\ e \ {x} = u \ {c}
        /\ Cardinality(e) = m - 1 /\ Cardinality(u) = m - 1
        /\ m - 1 \in Nat /\ ~ (m <= m - 1)
    <3>1. e \in SUBSET W /\ u \in SUBSET W /\ x \in e /\ c \in u /\ e \ {x} = u \ {c}
      BY <2>4
    <3>2. Cardinality(e) = m - 1 /\ Cardinality(u) = m - 1
      BY <1>0, <2>2, <2>3, <2>4, FS_RemoveElement
    <3>3. Cardinality(e) \in Nat /\ m \in Nat
      BY <1>0, <2>1, <3>1
    <3> QED
      BY <3>1, <3>2, <3>3
  <2> HIDE DEF c, e, u, Splits
  <2>6. Splits(e) /\ Splits(u)
    BY <2>1, <2>5
  <2>7. g[e] = f[x] + g[e \ {x}] /\ g[u] = f[c] + g[u \ {c}]
    BY <2>5, <2>6 DEF Splits
  <2>8. g[e \ {x}] \in Int /\ f[x] \in Int /\ f[c] \in Int
    <3>1. e \ {x} \in SUBSET W
      BY <2>5
    <3> QED
      BY <1>0, <2>3, <2>4, <3>1
  <2>9. f[c] + (f[x] + g[e \ {x}]) = f[x] + (f[c] + g[e \ {x}])
    BY <2>8
  <2> QED
    BY <2>3, <2>4, <2>5, <2>7, <2>9 DEF u
<1> QED
  <2> HIDE DEF Splits
  <2>1. \A d \in SUBSET W : Splits(d)
    BY <1>0, <1>2
  <2> QED
    BY <2>1 DEF Splits, AnyFirst

\* A sum is not more than one whose members are not less, wherever they stand.
NotMore(g, D, h, p) == g[D] <= h[{p[x] : x \in D}]

Between(f, W, lo, hi) == \A x \in W : f[x] \in lo .. hi

Carries(p, f, D, k, V) ==
    /\ \A x \in D : p[x] \in V /\ f[x] <= k[p[x]]
    /\ \A x, y \in D : p[x] = p[y] => x = y

LEMMA SumCarried ==
    ASSUME NEW W, IsFiniteSet(W), NEW f, NEW g, AddsUp(f, W, g),
           NEW V, IsFiniteSet(V), NEW k, NEW h, AddsUp(k, V, h),
           NEW lo \in Int, NEW hi \in Int,
           Between(f, W, lo, hi), Between(k, V, lo, hi),
           NEW D \in SUBSET W, NEW p, Carries(p, f, D, k, V)
    PROVE  NotMore(g, D, h, p)
<1> USE DEF Between, Carries
<1>a. AnyFirst(k, V, h)
  BY SumSplit
<1> DEFINE one(d) == CHOOSE x \in d : TRUE
           To(d) == {p[x] : x \in d}
           Carried(d) == g[d] <= h[To(d)]
           T == {n \in Nat : \E d \in SUBSET D : Cardinality(d) = n /\ ~ Carried(d)}
<1>0. /\ \A d \in SUBSET W : IsFiniteSet(d) /\ Cardinality(d) \in Nat /\ g[d] \in Int
      /\ \A d \in SUBSET V : h[d] \in Int
  BY FS_Subset, FS_CardinalityType, SumBounds
<1>1. \A d \in SUBSET W : g[d] = IF d = {} THEN 0 ELSE f[one(d)] + g[d \ {one(d)}]
  BY DEF AddsUp
<1>2. \A d : d # {} => one(d) \in d
  OBVIOUS
<1> HIDE DEF one
<1>3. h[{}] = 0
  BY DEF AddsUp
<1>4. T = {}
  <2> SUFFICES ASSUME T # {} PROVE FALSE
    OBVIOUS
  <2>1. PICK m \in T : \A y \in T : m <= y
    BY LeastNumber
  <2>2. PICK d \in SUBSET D : Cardinality(d) = m /\ ~ Carried(d)
    BY <2>1
  <2>3. d # {}
    <3>1. To({}) = {}
      OBVIOUS
    <3>2. g[{}] = 0
      BY <1>1
    <3>3. g[{}] <= h[To({})]
      <4> HIDE DEF To
      <4> QED
        BY <1>3, <3>1, <3>2
    <3>4. Carried({})
      BY <3>3
    <3> HIDE DEF Carried
    <3> QED
      BY <2>2, <3>4
  <2> DEFINE c == one(d)  e == d \ {c}
  <2>4. c \in d /\ d \in SUBSET W /\ g[d] = f[c] + g[e]
    BY <1>1, <1>2, <2>3
  <2>5. /\ e \in SUBSET D /\ Cardinality(e) = m - 1 /\ m - 1 \in Nat /\ ~ (m <= m - 1)
    <3>1. e \in SUBSET D /\ e \in SUBSET W
      BY <2>4
    <3>2. Cardinality(e) = m - 1
      BY <1>0, <2>2, <2>4, FS_RemoveElement
    <3>3. Cardinality(e) \in Nat /\ m \in Nat
      BY <1>0, <2>1, <3>1
    <3> QED
      BY <3>1, <3>2, <3>3
  <2>6. To(d) \in SUBSET V /\ p[c] \in To(d) /\ To(d) \ {p[c]} = To(e)
    BY <2>4
  <2> HIDE DEF Carried
  <2>7. Carried(e)
    <3> HIDE DEF c, e
    <3> QED
      BY <2>1, <2>5
  <2>8. h[To(d)] = k[p[c]] + h[To(e)]
    <3> HIDE DEF To, c, e
    <3> QED
      BY <1>a, <2>6 DEF AnyFirst
  <2>9. f[c] <= k[p[c]] /\ f[c] \in Int /\ k[p[c]] \in Int
    BY <2>4
  <2>10. g[e] \in Int /\ h[To(e)] \in Int
    <3>1. e \in SUBSET W /\ To(e) \in SUBSET V
      BY <2>4, <2>6
    <3> QED
      BY <1>0, <3>1
  <2> HIDE DEF To, c, e
  <2> QED
    BY <2>2, <2>4, <2>7, <2>8, <2>9, <2>10 DEF Carried
<1> QED
  <2> HIDE DEF Carried
  <2>1. Carried(D)
    BY <1>0, <1>4
  <2> QED
    BY <2>1 DEF Carried, NotMore

\* The latest of the places A, as many as count.
Latest(A) == {i \in A : Cardinality({j \in A : j < i}) < Window}

Shift(A, n) == {i + n : i \in A}

LEMMA ShiftedSize ==
    ASSUME NEW A \in SUBSET Int, IsFiniteSet(A), NEW n \in Int
    PROVE  /\ IsFiniteSet(Shift(A, n))
           /\ Cardinality(Shift(A, n)) = Cardinality(A)
<1> DEFINE B == Shift(A, n)
           f == [i \in A |-> i + n]
<1> USE DEF Shift
<1>1. f \in Bijection(A, B)
  <2>1. f \in [A -> B] /\ \A y \in B : \E i \in A : f[i] = y
    OBVIOUS
  <2>2. \A i, j \in A : f[i] = f[j] => i = j
    OBVIOUS
  <2> QED
    BY <2>1, <2>2 DEF Bijection, Injection, Surjection, IsInjective
<1> QED
  BY <1>1, FS_Bijection DEF ExistsBijection

\* Places that move together count as before.
LEMMA LatestShift ==
    ASSUME NEW A \in SUBSET Int, IsFiniteSet(A), NEW n \in Int
    PROVE  Latest(Shift(A, n)) = Shift(Latest(A), n)
<1> DEFINE B == Shift(A, n)
<1>1. ASSUME NEW i \in A
      PROVE  Cardinality({j \in B : j < i + n}) = Cardinality({j \in A : j < i})
  <2> DEFINE C == {j \in A : j < i}
  <2>1. {j \in B : j < i + n} = Shift(C, n)
    BY DEF Shift
  <2>2. C \in SUBSET Int /\ IsFiniteSet(C)
    BY FS_Subset
  <2> HIDE DEF C
  <2>3. Cardinality(Shift(C, n)) = Cardinality(C)
    BY <2>2, ShiftedSize
  <2> QED
    BY <2>1, <2>3 DEF C
<1> QED
  BY <1>1 DEF Latest, Shift

\* A place that joins the others either does not count, or counts besides them
\* or instead of one.
Joins(x, A) ==
    \/ Latest(A \cup {x}) = Latest(A)
    \/ Latest(A \cup {x}) = Latest(A) \cup {x}
    \/ \E y \in Latest(A) : Latest(A \cup {x}) = (Latest(A) \ {y}) \cup {x}

LEMMA LatestAdd ==
    ASSUME NEW A \in SUBSET Int, IsFiniteSet(A), NEW x \in Int, x \notin A
    PROVE  Joins(x, A)
<1> USE DEF Joins
<1> DEFINE B == A \cup {x}
           before(i) == Cardinality({j \in A : j < i})
           later(i) == Cardinality({j \in B : j < i})
<1>0. Window \in Nat \ {0} /\ \A i \in B : before(i) \in Nat
  BY BandsAndScores, FS_Subset, FS_CardinalityType
<1>1. ASSUME NEW i \in B PROVE later(i) = IF x < i THEN before(i) + 1 ELSE before(i)
  <2>1. IsFiniteSet({j \in A : j < i}) /\ x \notin {j \in A : j < i}
    BY FS_Subset
  <2>2. {j \in B : j < i} = IF x < i THEN {j \in A : j < i} \cup {x} ELSE {j \in A : j < i}
    OBVIOUS
  <2> QED
    BY <2>1, <2>2, FS_AddElement
<1>2. ASSUME NEW i \in B, NEW j \in B, i < j
      PROVE  /\ before(i) <= before(j)
             /\ i \in A => before(i) + 1 <= before(j)
  <2> DEFINE I == {m \in A : m < i}  J == {m \in A : m < j}
  <2>0. i \in Int /\ j \in Int
    OBVIOUS
  <2>a. I \in SUBSET J /\ (i \in A => I \cup {i} \in SUBSET J /\ i \notin I)
    <3>1. \A m \in A : m \in Int /\ (m < i => m < j) /\ ~ (i < i)
      BY <1>2, <2>0
    <3> QED
      BY <1>2, <3>1
  <2>1. I \in SUBSET J /\ IsFiniteSet(J) /\ IsFiniteSet(I)
    BY <2>a, FS_Subset
  <2> HIDE DEF I, J
  <2>2. Cardinality(I) <= Cardinality(J)
    BY <2>1, FS_Subset
  <2>3. CASE i \in A
    <3>1. Cardinality(I \cup {i}) = Cardinality(I) + 1
      BY <2>a, <2>1, <2>3, FS_AddElement
    <3>2. Cardinality(I \cup {i}) <= Cardinality(J)
      BY <2>a, <2>1, <2>3, FS_Subset
    <3> QED
      BY <2>2, <3>1, <3>2 DEF I, J
  <2> QED
    BY <2>2, <2>3 DEF I, J
<1>3. Latest(A) = {i \in A : before(i) < Window} /\ Latest(B) = {i \in B : later(i) < Window}
  BY DEF Latest
<1>4. x \in B /\ A \subseteq B /\ B \subseteq Int /\ \A i \in B : i = x \/ i \in A
  OBVIOUS
<1> HIDE DEF before, later, B
<1>5. CASE before(x) >= Window
  <2>1. x \notin Latest(B)
    BY <1>0, <1>1, <1>3, <1>4, <1>5
  <2>2. ASSUME NEW i \in A PROVE i \in Latest(A) <=> i \in Latest(B)
    <3>1. i \in B /\ i \in Int
      BY <1>4
    <3>2. CASE x < i
      <4>1. before(i) >= Window
        BY <1>0, <1>2, <1>4, <1>5, <3>1, <3>2
      <4> QED
        BY <1>0, <1>1, <1>3, <3>1, <3>2, <4>1
    <3>3. CASE ~ (x < i)
      BY <1>1, <1>3, <3>1, <3>3
    <3> QED
      BY <3>2, <3>3
  <2> QED
    BY <1>3, <1>4, <2>1, <2>2 DEF B
<1>6. CASE before(x) < Window
  <2> DEFINE Out == {y \in A : x < y /\ before(y) = Window - 1}
  <2>1. x \in Latest(B)
    BY <1>1, <1>3, <1>4, <1>6
  <2>2. ASSUME NEW i \in A PROVE i \in Latest(B) <=> i \in Latest(A) /\ i \notin Out
    <3>1. i \in B /\ i \in Int /\ before(i) \in Nat
      BY <1>0, <1>4
    <3> QED
      BY <1>0, <1>1, <1>3, <3>1
  <2>3. CASE Out = {}
    BY <1>3, <1>4, <2>1, <2>2, <2>3 DEF B
  <2>4. CASE Out # {}
    <3>1. PICK y \in Out : TRUE
      BY <2>4
    <3>2. ASSUME NEW z \in Out PROVE z = y
      <4>1. /\ y \in A /\ z \in A /\ y \in B /\ z \in B /\ y \in Int /\ z \in Int
            /\ before(y) = before(z) /\ before(y) \in Nat
        BY <1>0, <1>4
      <4> QED
        BY <1>2, <4>1
    <3>3. Out = {y}
      BY <3>1, <3>2
    <3>4. y \in Latest(A)
      BY <1>0, <1>3
    <3> HIDE DEF Out
    <3>5. Latest(B) = (Latest(A) \ {y}) \cup {x}
      BY <1>3, <1>4, <2>1, <2>2, <3>3 DEF B
    <3> QED
      BY <3>4, <3>5 DEF B
  <2> QED
    BY <2>3, <2>4
<1> QED
  <2>1. before(x) \in Nat
    BY <1>0, <1>4
  <2> QED
    BY <1>0, <1>5, <1>6, <2>1

\* The places of a history with one attempt more, or one attempt marked.
Moves(A, n, x, B) ==
    \/ Latest(B) = Shift(Latest(A), n)
    \/ /\ x \in B /\ x \notin Shift(A, n)
       /\ \/ Latest(B) = Shift(Latest(A), n) \cup {x}
          \/ \E y \in Latest(A) : Latest(B) = Shift(Latest(A) \ {y}, n) \cup {x}

LEMMA LatestMoves ==
    ASSUME NEW A \in SUBSET Int, IsFiniteSet(A), NEW n \in Int, NEW x \in Int, NEW B,
           Shift(A, n) \subseteq B, B \subseteq Shift(A, n) \cup {x}
    PROVE  Moves(A, n, x, B)
<1> USE DEF Moves
<1> DEFINE Kept == Shift(A, n)
<1>1. Kept \in SUBSET Int /\ IsFiniteSet(Kept) /\ Latest(Kept) = Shift(Latest(A), n)
  <2>1. Kept \in SUBSET Int
    BY DEF Shift
  <2> QED
    BY <2>1, ShiftedSize, LatestShift
<1>2. CASE B = Kept
  BY <1>1, <1>2
<1>3. CASE B # Kept
  <2>1. x \in B /\ x \notin Kept /\ B = Kept \cup {x}
    BY <1>3
  <2> HIDE DEF Kept
  <2>2. Joins(x, Kept)
    BY <1>1, <2>1, LatestAdd
  <2>3. ASSUME NEW y \in Latest(Kept), Latest(B) = (Latest(Kept) \ {y}) \cup {x}
        PROVE  \E v \in Latest(A) : Latest(B) = Shift(Latest(A) \ {v}, n) \cup {x}
    <3>1. PICK v \in Latest(A) : y = v + n
      BY <1>1 DEF Shift
    <3>2. Latest(A) \in SUBSET Int
      BY DEF Latest
    <3>3. Latest(Kept) \ {y} = Shift(Latest(A) \ {v}, n)
      BY <1>1, <3>1, <3>2 DEF Shift
    <3> QED
      BY <2>3, <3>1, <3>3
  <2> QED
    BY <1>1, <2>1, <2>2, <2>3 DEF Kept, Joins
<1> QED
  BY <1>2, <1>3

\* Halves are rounded to the even neighbour.
LEMMA RoundedTie ==
    ASSUME NEW a \in Int, NEW b \in Nat \ {0}
    PROVE  2 * a = (2 * P!Rounded(a, b) - 1) * b \/ 2 * a = (2 * P!Rounded(a, b) + 1) * b
              => P!Rounded(a, b) % 2 = 0
<1> DEFINE low == a \div b  rest == a % b
<1>1. low \in Int /\ rest \in 0 .. b - 1 /\ a = b * low + rest
  OBVIOUS
<1>2. P!Rounded(a, b) =
        IF 2 * rest > b \/ (2 * rest = b /\ low % 2 = 1) THEN low + 1 ELSE low
  BY DEF P!Rounded
<1> HIDE DEF low, rest
<1>3. /\ (2 * low + 1) * b = 2 * (b * low) + b /\ (2 * low - 1) * b = 2 * (b * low) - b
      /\ (2 * (low + 1) - 1) * b = 2 * (b * low) + b
      /\ (2 * (low + 1) + 1) * b = 2 * (b * low) + 3 * b
  BY <1>1
<1>4. b * low \in Int /\ 2 * a = 2 * (b * low) + 2 * rest
  BY <1>1
<1>5. CASE P!Rounded(a, b) = low /\ ~ (2 * rest > b) /\ (2 * rest = b => low % 2 # 1)
  <2>1. 2 * a # (2 * low - 1) * b /\ (2 * a = (2 * low + 1) * b => 2 * rest = b)
    BY <1>1, <1>3, <1>4
  <2>2. low % 2 \in {0, 1}
    BY <1>1
  <2> QED
    BY <1>5, <2>1, <2>2
<1>6. CASE P!Rounded(a, b) = low + 1 /\ (2 * rest > b \/ (2 * rest = b /\ low % 2 = 1))
  <2>1. /\ 2 * a # (2 * (low + 1) + 1) * b
        /\ 2 * a = (2 * (low + 1) - 1) * b => 2 * rest = b
    BY <1>1, <1>3, <1>4
  <2>2. low % 2 = 1 => (low + 1) % 2 = 0
    BY <1>1
  <2> QED
    BY <1>1, <1>6, <2>1, <2>2
<1> QED
  BY <1>2, <1>5, <1>6

\* The greater fraction is not rounded to less.
LEMMA RoundedRises ==
    ASSUME NEW a \in Int, NEW b \in Nat \ {0}, NEW c \in Int, NEW d \in Nat \ {0},
           a * d <= c * b
    PROVE  P!Rounded(a, b) <= P!Rounded(c, d)
<1> DEFINE m == P!Rounded(a, b)  w == P!Rounded(c, d)
<1>1. m \in Int /\ w \in Int /\ 2 * (a - m * b) \in -b .. b /\ 2 * (c - w * d) \in -d .. d
  BY RoundedNearest DEF P!Nearest
<1>2. /\ 2 * a = (2 * m - 1) * b => m % 2 = 0
      /\ 2 * c = (2 * w + 1) * d => w % 2 = 0
  BY RoundedTie
<1> HIDE DEF m, w
<1> SUFFICES ASSUME w + 1 <= m PROVE FALSE
  BY <1>1 DEF m, w
<1>3. (2 * m - 1) * b <= 2 * a /\ 2 * c <= (2 * w + 1) * d
  <2>1. m * b \in Int /\ w * d \in Int
    BY <1>1
  <2>2. (2 * m - 1) * b = 2 * (m * b) - b /\ (2 * w + 1) * d = 2 * (w * d) + d
    BY <1>1
  <2> QED
    BY <1>1, <2>1, <2>2
<1> DEFINE t == 2 * m - 1  u == 2 * w + 1
<1>4. t \in Int /\ u \in Int /\ u <= t /\ t * b <= 2 * a /\ 2 * c <= u * d
  BY <1>1, <1>3
<1> HIDE DEF t, u
<1>5. (t * b) * d <= (2 * a) * d /\ (2 * c) * b <= (u * d) * b
  <2>1. \A x, y \in Int, z \in Nat : x <= y => x * z <= y * z
    OBVIOUS
  <2>2. t * b \in Int /\ 2 * a \in Int /\ 2 * c \in Int /\ u * d \in Int
    BY <1>4
  <2> QED
    BY <1>4, <2>1, <2>2
<1>6. /\ (2 * a) * d = 2 * (a * d) /\ (2 * c) * b = 2 * (c * b)
      /\ (t * b) * d = t * (b * d) /\ (u * d) * b = u * (b * d)
      /\ a * d \in Int /\ c * b \in Int /\ b * d \in Nat \ {0}
  BY <1>4
<1>7. t * (b * d) <= u * (b * d)
  <2>1. t * (b * d) \in Int /\ u * (b * d) \in Int
    BY <1>4, <1>6
  <2> QED
    BY <1>5, <1>6, <2>1
<1>8. t = u
  <2> SUFFICES ASSUME u + 1 <= t PROVE FALSE
    BY <1>4
  <2> DEFINE e == b * d
  <2>1. e \in Nat \ {0} /\ t * e <= u * e
    BY <1>6, <1>7
  <2> HIDE DEF e
  <2>2. (u + 1) * e <= t * e /\ (u + 1) * e = u * e + e
    BY <1>4, <2>1
  <2> QED
    BY <1>4, <2>1, <2>2
<1>9. m = w + 1
  BY <1>1, <1>8 DEF t, u
<1>10. (t * b) * d = (2 * a) * d /\ (2 * c) * b = (u * d) * b
  <2>1. t * (b * d) \in Int /\ u * (b * d) \in Int
    BY <1>4, <1>6
  <2> QED
    BY <1>5, <1>6, <1>8, <2>1
<1>11. t * b = 2 * a /\ 2 * c = u * d
  <2>1. \A x, y \in Int, z \in Nat \ {0} : x * z = y * z => x = y
    OBVIOUS
  <2>2. t * b \in Int /\ 2 * a \in Int /\ 2 * c \in Int /\ u * d \in Int
    BY <1>4
  <2> QED
    BY <1>10, <2>1, <2>2
<1>12. m % 2 = 0 /\ w % 2 = 0
  BY <1>2, <1>11 DEF t, u
<1> QED
  BY <1>1, <1>9, <1>12

Given(s) == {i \in DOMAIN s : s[i].band # None}

TotalOf(s, R) ==
    (CHOOSE g : g = [d \in SUBSET R |->
                        IF d = {} THEN 0
                        ELSE s[CHOOSE x \in d : TRUE].band + g[d \ {CHOOSE x \in d : TRUE}]])[R]

\* What band_prediction reads off a history s.
LEMMA Estimated ==
    ASSUME NEW s \in Seq(P!AttemptRow)
    PROVE  /\ Given(s) \in SUBSET Int /\ IsFiniteSet(Given(s))
           /\ Latest(Given(s)) \in SUBSET Given(s) /\ IsFiniteSet(Latest(Given(s)))
           /\ \A i \in Given(s) : s[i].band \in 0 .. 18
           /\ \E g : /\ AddsUp([i \in Latest(Given(s)) |-> s[i].band], Latest(Given(s)), g)
                     /\ TotalOf(s, Latest(Given(s))) = g[Latest(Given(s))]
<1> DEFINE R == Latest(Given(s))
           f == [i \in R |-> s[i].band]
           Adds(g) == g = [d \in SUBSET R |->
                             IF d = {} THEN 0
                             ELSE s[CHOOSE x \in d : TRUE].band
                                    + g[d \ {CHOOSE x \in d : TRUE}]]
           sum == CHOOSE g : Adds(g)
<1>1. Given(s) \in SUBSET (1 .. Len(s)) /\ Len(s) \in Nat
  BY DEF Given
<1>2. Given(s) \in SUBSET Int /\ IsFiniteSet(Given(s))
  <2>1. 1 \in Int /\ Len(s) \in Int
    BY <1>1
  <2>2. IsFiniteSet(1 .. Len(s))
    BY <2>1, FS_Interval
  <2> QED
    BY <1>1, <2>2, FS_Subset
<1>3. R \in SUBSET Given(s) /\ IsFiniteSet(R)
  BY <1>2, FS_Subset DEF Latest
<1>4. \A i \in Given(s) : s[i].band \in 0 .. 18
  <2> TAKE i \in Given(s)
  <2>1. i \in DOMAIN s /\ s[i].band # None
    BY DEF Given
  <2>2. s[i] \in P!AttemptRow
    BY <2>1
  <2> QED
    BY <2>1, <2>2 DEF P!AttemptRow
<1>5. TotalOf(s, R) = sum[R]
  BY DEF TotalOf
<1>6. \A g : AddsUp(f, R, g) <=> Adds(g)
  BY DEF AddsUp
<1> HIDE DEF R, f, Adds
<1>7. AddsUp(f, R, sum)
  BY <1>3, <1>6, SumExists
<1> QED
  BY <1>2, <1>3, <1>4, <1>5, <1>7 DEF R, f

\* Neither an attempt without a band nor a better band anywhere lowers the mean
\* of what counts: z is the history s with n attempts more, and at most the
\* place x is new or marked.
LEMMA MeanRises ==
    ASSUME NEW s \in Seq(P!AttemptRow), NEW z \in Seq(P!AttemptRow), NEW n \in {0, 1}, NEW x \in Int,
           Shift(Given(s), n) \subseteq Given(z),
           Given(z) \subseteq Shift(Given(s), n) \cup {x},
           \A i \in Given(s) : s[i].band <= z[i + n].band,
           x \in Given(z) /\ x \notin Shift(Given(s), n) =>
               \A j \in Latest(Given(s)) : s[j].band <= z[x].band
    PROVE  TotalOf(s, Latest(Given(s))) * Cardinality(Latest(Given(z)))
               <= TotalOf(z, Latest(Given(z))) * Cardinality(Latest(Given(s)))
<1> DEFINE R == Latest(Given(s))
           Q == Latest(Given(z))
           f == [i \in R |-> s[i].band]
           k == [i \in Q |-> z[i].band]
           p == [i \in R |-> i + n]
<1>1. /\ R \in SUBSET Given(s) /\ R \in SUBSET Int /\ IsFiniteSet(R)
      /\ Q \in SUBSET Given(z) /\ Q \in SUBSET Int /\ IsFiniteSet(Q)
      /\ \A i \in R : f[i] \in 0 .. 18
      /\ \A i \in Q : k[i] \in 0 .. 18
  BY Estimated
<1>2. PICK g : AddsUp(f, R, g) /\ TotalOf(s, R) = g[R]
  BY Estimated
<1>3. PICK h : AddsUp(k, Q, h) /\ TotalOf(z, Q) = h[Q]
  BY Estimated
<1>4. \/ Q = Shift(R, n)
      \/ /\ x \in Given(z) /\ x \notin Shift(Given(s), n)
         /\ \/ Q = Shift(R, n) \cup {x}
            \/ \E y \in R : Q = Shift(R \ {y}, n) \cup {x}
  <2>1. n \in Int
    OBVIOUS
  <2>2. Moves(Given(s), n, x, Given(z))
    BY <2>1, Estimated, LatestMoves
  <2> QED
    BY <2>2 DEF Moves
<1>5. \A i \in R : i + n \in Q => f[i] <= k[p[i]]
  BY <1>1
<1>6. \A i, j \in R : p[i] = p[j] => i = j
  BY <1>1
<1>7. ASSUME NEW D \in SUBSET R, Shift(D, n) \subseteq Q
      PROVE  g[D] <= h[Shift(D, n)]
  <2>1. Shift(D, n) = {p[i] : i \in D}
    BY DEF Shift
  <2>2. \A i \in D : p[i] \in Q /\ f[i] <= k[p[i]]
    BY <1>5, <1>7 DEF Shift
  <2> HIDE DEF p, f, k, R, Q
  <2>3. Carries(p, f, D, k, Q)
    BY <1>6, <2>2 DEF Carries
  <2>4. 0 \in Int /\ 18 \in Int /\ Between(f, R, 0, 18) /\ Between(k, Q, 0, 18)
    BY <1>1 DEF Between
  <2>5. NotMore(g, D, h, p)
    BY <1>1, <1>2, <1>3, <2>3, <2>4, SumCarried
  <2> QED
    BY <2>1, <2>5 DEF NotMore
<1>8. ASSUME NEW D \in SUBSET R
      PROVE  IsFiniteSet(Shift(D, n)) /\ Cardinality(Shift(D, n)) = Cardinality(D)
  <2>1. D \in SUBSET Int /\ IsFiniteSet(D) /\ n \in Int
    BY <1>1, FS_Subset
  <2> QED
    BY <2>1, ShiftedSize
<1>9. /\ Cardinality(R) \in Nat /\ Cardinality(Q) \in Nat
      /\ \A D \in SUBSET R : g[D] \in Int
      /\ \A D \in SUBSET Q : h[D] \in Int
      /\ AnyFirst(f, R, g) /\ AnyFirst(k, Q, h)
  <2> HIDE DEF f, k, R, Q
  <2>1. 0 \in Int /\ 18 \in Int
    OBVIOUS
  <2> QED
    BY <1>1, <1>2, <1>3, <2>1, SumBounds, SumSplit, FS_CardinalityType
<1>10. CASE Q = Shift(R, n)
  <2>1. g[R] <= h[Q] /\ Cardinality(Q) = Cardinality(R)
    BY <1>7, <1>8, <1>10
  <2>2. g[R] \in Int /\ h[Q] \in Int
    BY <1>9
  <2> HIDE DEF R, Q
  <2>3. \A a, b \in Int, c \in Nat : a <= b => a * c <= b * c
    OBVIOUS
  <2> QED
    BY <1>2, <1>3, <1>9, <2>1, <2>2, <2>3 DEF R, Q
<1>11. CASE /\ x \in Given(z) /\ x \notin Shift(Given(s), n)
            /\ Q = Shift(R, n) \cup {x}
  <2> DEFINE Kept == Shift(R, n)
  <2>1. x \in Q /\ x \notin Kept /\ Q \ {x} = Kept /\ Kept \in SUBSET Q
    BY <1>1, <1>11 DEF Shift
  <2>2. h[Q] = k[x] + h[Kept] /\ g[R] <= h[Kept]
    BY <1>7, <1>9, <2>1 DEF AnyFirst
  <2>3. Cardinality(Q) = Cardinality(R) + 1
    <3>1. IsFiniteSet(Kept) /\ Cardinality(Kept) = Cardinality(R)
      BY <1>8
    <3>2. Q = Kept \cup {x}
      BY <1>11
    <3> HIDE DEF Kept, Q, R
    <3> QED
      BY <2>1, <3>1, <3>2, FS_AddElement
  <2>4. \A i \in R : f[i] \in 0 .. k[x]
    <3>1. k[x] \in 0 .. 18 /\ k[x] = z[x].band
      BY <1>1, <2>1
    <3>2. \A i \in R : f[i] <= k[x] /\ f[i] \in 0 .. 18
      BY <1>1, <1>11, <3>1
    <3> HIDE DEF f, k, R, Q
    <3> QED
      BY <3>1, <3>2
  <2>5. g[R] <= k[x] * Cardinality(R)
    <3> HIDE DEF f, k, R, Q
    <3>1. 0 \in Int /\ k[x] \in Int
      BY <1>1, <2>1
    <3> QED
      BY <1>1, <1>2, <2>4, <3>1, SumBounds
  <2>6. g[R] \in Int /\ h[Q] \in Int /\ h[Kept] \in Int /\ k[x] \in Int
    <3> HIDE DEF R, Q, f, k, Kept
    <3>1. k[x] \in Int
      BY <1>1, <2>1
    <3>2. g[R] \in Int /\ h[Q] \in Int /\ h[Kept] \in Int
      BY <1>9, <2>1
    <3> QED
      BY <3>1, <3>2
  <2> HIDE DEF R, Q, f, k, Kept
  <2>7. \A t, b, c, v \in Int, m \in Nat :
           t <= b /\ t <= v * m /\ c = v + b => t * (m + 1) <= c * m
    <3> TAKE t, b, c, v \in Int, m \in Nat
    <3> HAVE t <= b /\ t <= v * m /\ c = v + b
    <3>1. t * (m + 1) = t * m + t /\ (v + b) * m = v * m + b * m /\ t * m <= b * m
      OBVIOUS
    <3>2. t * m \in Int /\ b * m \in Int /\ v * m \in Int
      OBVIOUS
    <3> QED
      BY <3>1, <3>2
  <2> QED
    BY <1>2, <1>3, <1>9, <2>2, <2>3, <2>5, <2>6, <2>7 DEF R, Q
<1>12. ASSUME x \in Given(z), x \notin Shift(Given(s), n),
              NEW y \in R, Q = Shift(R \ {y}, n) \cup {x}
       PROVE  TotalOf(s, R) * Cardinality(Q) <= TotalOf(z, Q) * Cardinality(R)
  <2> DEFINE D == R \ {y}
             Kept == Shift(D, n)
  <2>1. x \in Q /\ x \notin Kept /\ Q \ {x} = Kept /\ Kept \in SUBSET Q /\ D \in SUBSET R
    BY <1>1, <1>12 DEF Shift
  <2>2. h[Q] = k[x] + h[Kept] /\ g[R] = f[y] + g[D] /\ g[D] <= h[Kept]
    <3>1. g[D] <= h[Kept]
      BY <1>7, <2>1
    <3> HIDE DEF R, Q, f, k, Kept
    <3> QED
      BY <1>9, <1>12, <2>1, <3>1 DEF AnyFirst
  <2>3. Cardinality(Q) = Cardinality(R)
    <3>1. IsFiniteSet(Kept) /\ Cardinality(Kept) = Cardinality(D)
      BY <1>8
    <3>2. Q = Kept \cup {x}
      BY <1>12
    <3>3. Cardinality(D) = Cardinality(R) - 1
      BY <1>1, FS_RemoveElement
    <3> HIDE DEF Kept, D, Q, R
    <3>4. Cardinality(Q) = Cardinality(Kept) + 1
      BY <2>1, <3>1, <3>2, FS_AddElement
    <3> QED
      BY <1>9, <3>1, <3>3, <3>4
  <2>4. f[y] <= k[x]
    BY <1>1, <1>12, <2>1
  <2>5. g[R] \in Int /\ g[D] \in Int /\ h[Q] \in Int /\ h[Kept] \in Int /\ k[x] \in Int /\ f[y] \in Int
    <3> HIDE DEF R, Q, f, k, Kept, D
    <3>1. /\ \A i \in Q : k[i] \in 0 .. 18
          /\ \A i \in R : f[i] \in 0 .. 18
      BY <1>1
    <3>2. x \in Q /\ y \in R
      BY <1>12, <2>1
    <3>3. k[x] \in 0 .. 18 /\ f[y] \in 0 .. 18
      BY <3>1, <3>2, Zenon
    <3>4. k[x] \in Int /\ f[y] \in Int
      BY <3>3
    <3>5. g[R] \in Int /\ g[D] \in Int /\ h[Q] \in Int /\ h[Kept] \in Int
      BY <1>9, <2>1
    <3> QED
      BY <3>4, <3>5
  <2> HIDE DEF R, Q, f, k, Kept, D
  <2>6. g[R] <= h[Q]
    BY <2>2, <2>4, <2>5
  <2>7. \A a, b \in Int, c \in Nat : a <= b => a * c <= b * c
    OBVIOUS
  <2> QED
    BY <1>2, <1>3, <1>9, <2>3, <2>5, <2>6, <2>7
<1> QED
  BY <1>4, <1>10, <1>11, <1>12

\* What a step makes of the history of a skill: n attempts more in front, and at
\* most the place x new or marked.
Grows(s, z, n, x) ==
    /\ Len(z) = Len(s) + n
    /\ \A i \in DOMAIN s : i + n \in DOMAIN z
    /\ \A i \in DOMAIN z \ {x} : i - n \in DOMAIN s /\ z[i] = s[i - n]
    /\ \A i \in Given(s) : i + n \in Given(z)

Grown(s, z) == \E n \in {0, 1}, x \in Int : Grows(s, z, n, x)

\* Nothing, a sitting handed in, and scores entered.
LEMMA SameGrown == ASSUME NEW s \in Seq(P!AttemptRow) PROVE Grown(s, s)
<1>1. \A i \in DOMAIN s : i \in Int /\ i + 0 = i /\ i - 0 = i
  OBVIOUS
<1>2. Len(s) = Len(s) + 0
  OBVIOUS
<1>3. Grows(s, s, 0, 0)
  BY <1>1, <1>2 DEF Grows, Given
<1> QED
  BY <1>3 DEF Grown

LEMMA HandedGrown ==
    ASSUME HistoryInv, NEW k \in P!Skills, NEW l \in P!Skills, NEW row \in P!AttemptRow,
           P!Handed(k, row)
    PROVE  Grown(history[l], history'[l])
<1>1. history' = [history EXCEPT ![k] = <<row>> \o @]
  BY DEF P!Handed
<1>2. history \in [P!Skills -> Seq(P!AttemptRow)]
  BY DEF HistoryInv, P!TypeOK
<1>3. CASE l # k
  BY <1>1, <1>2, <1>3, SameGrown
<1>4. CASE l = k
  <2> DEFINE s == history[k]  z == history'[k]
  <2>1. s \in Seq(P!AttemptRow) /\ z = <<row>> \o s
    BY <1>1, <1>2
  <2> HIDE DEF s, z
  <2>2. /\ Len(z) = Len(s) + 1 /\ Len(s) \in Nat
        /\ DOMAIN z = 1 .. Len(s) + 1 /\ DOMAIN s = 1 .. Len(s)
        /\ \A i \in 1 .. Len(s) + 1 : z[i] = IF i = 1 THEN row ELSE s[i - 1]
    BY <2>1
  <2>3. ASSUME NEW i \in DOMAIN s PROVE i + 1 \in DOMAIN z /\ z[i + 1] = s[i]
    <3>1. i \in 1 .. Len(s) /\ i + 1 \in 1 .. Len(s) + 1 /\ i + 1 # 1 /\ (i + 1) - 1 = i
      BY <2>2
    <3> QED
      BY <2>2, <3>1
  <2>4. ASSUME NEW i \in DOMAIN z \ {1} PROVE i - 1 \in DOMAIN s /\ z[i] = s[i - 1]
    <3>1. i \in 1 .. Len(s) + 1 /\ i # 1 /\ i - 1 \in 1 .. Len(s)
      BY <2>2
    <3> QED
      BY <2>2, <3>1
  <2>5. Grows(s, z, 1, 1)
    BY <2>2, <2>3, <2>4 DEF Grows, Given
  <2> QED
    BY <1>4, <2>5 DEF Grown, s, z
<1> QED
  BY <1>3, <1>4

LEMMA ScoreGrown ==
    ASSUME HistoryInv, NEW k \in Rubrics, NEW l \in P!Skills, NEW i, NEW sum \in Sums,
           P!Score(k, i, sum)
    PROVE  Grown(history[l], history'[l])
<1> DEFINE row == [scores |-> sum, band |-> P!Overall(sum)]
<1>1. i \in DOMAIN history[k] /\ history' = [history EXCEPT ![k][i] = row]
  BY DEF P!Score
<1>2. history \in [P!Skills -> Seq(P!AttemptRow)] /\ k \in P!Skills
  BY DEF HistoryInv, P!TypeOK, P!Skills
<1>3. row.band # None
  <2>1. sum \in 0 .. 72 * Grain
    BY BandsAndScores
  <2>2. P!Overall(sum) \in 0 .. 18 /\ P!Overall(sum) # None
    BY <2>1, OverallBands, BandsAndScores
  <2> QED
    BY <2>2
<1> HIDE DEF row
<1>4. CASE l # k
  BY <1>1, <1>2, <1>4, SameGrown
<1>5. CASE l = k
  <2> DEFINE s == history[k]  z == history'[k]
  <2>1. s \in Seq(P!AttemptRow) /\ i \in DOMAIN s /\ z = [s EXCEPT ![i] = row]
    BY <1>1, <1>2
  <2> HIDE DEF s, z
  <2>2. /\ Len(z) = Len(s) + 0 /\ DOMAIN z = DOMAIN s /\ i \in Int
        /\ \A j \in DOMAIN z : z[j] = IF j = i THEN row ELSE s[j]
        /\ \A j \in DOMAIN s : j + 0 = j /\ j - 0 = j
    BY <2>1
  <2>3. Grows(s, z, 0, i)
    BY <1>3, <2>2 DEF Grows, Given
  <2> QED
    BY <1>5, <2>2, <2>3 DEF Grown, s, z
<1> QED
  BY <1>4, <1>5

AllGrown == \A k \in P!Skills : Grown(history[k], history'[k])

LEMMA StepGrown == HistoryInv /\ [P!Next]_history => AllGrown
<1> SUFFICES ASSUME HistoryInv, [P!Next]_history, NEW l \in P!Skills
             PROVE  Grown(history[l], history'[l])
  BY DEF AllGrown
<1>1. ASSUME NEW k \in Keyed, NEW b \in Bands, P!SubmitKeyed(k, b)
      PROVE  Grown(history[l], history'[l])
  <2>1. [scores |-> None, band |-> b] \in P!AttemptRow
    BY BandsAndScores DEF P!AttemptRow
  <2>2. k \in P!Skills
    BY DEF P!Skills
  <2> QED
    BY <1>1, <2>1, <2>2, HandedGrown DEF P!SubmitKeyed
<1>2. ASSUME NEW k \in Rubrics, P!SubmitRubric(k) PROVE Grown(history[l], history'[l])
  <2>1. [scores |-> None, band |-> None] \in P!AttemptRow
    BY DEF P!AttemptRow
  <2>2. k \in P!Skills
    BY DEF P!Skills
  <2> QED
    BY <1>2, <2>1, <2>2, HandedGrown DEF P!SubmitRubric
<1>3. ASSUME NEW k \in Rubrics, NEW i \in 1 .. MaxTaken, NEW sum \in Sums, P!Score(k, i, sum)
      PROVE  Grown(history[l], history'[l])
  BY <1>3, ScoreGrown
<1>4. CASE UNCHANGED history
  <2>1. history[l] \in Seq(P!AttemptRow)
    BY DEF HistoryInv, P!TypeOK
  <2> QED
    BY <1>4, <2>1, SameGrown
<1> QED
  BY <1>1, <1>2, <1>3, <1>4 DEF P!Next

\* The places with a band before and after.
LEMMA GivenGrown ==
    ASSUME NEW s \in Seq(P!AttemptRow), NEW z \in Seq(P!AttemptRow),
           NEW n \in {0, 1}, NEW x \in Int, Grows(s, z, n, x)
    PROVE  /\ Shift(Given(s), n) \subseteq Given(z)
           /\ Given(z) \subseteq Shift(Given(s), n) \cup {x}
<1>1. Shift(Given(s), n) \subseteq Given(z)
  BY DEF Grows, Shift
<1>2. ASSUME NEW i \in Given(z), i # x PROVE i \in Shift(Given(s), n)
  <2>1. i \in DOMAIN z \ {x}
    BY <1>2 DEF Given
  <2>2. i - n \in DOMAIN s /\ z[i] = s[i - n]
    BY <2>1 DEF Grows
  <2>3. i - n \in Given(s)
    BY <2>2 DEF Given
  <2>4. i \in Int /\ n \in Int /\ i = (i - n) + n
    BY <2>1
  <2> QED
    BY <2>3, <2>4 DEF Shift
<1> QED
  BY <1>1, <1>2

\* A skill that was sat stays so.
LEMMA StaysSat ==
    ASSUME NEW s \in Seq(P!AttemptRow), NEW z \in Seq(P!AttemptRow),
           Grown(s, z), Latest(Given(s)) # {}
    PROVE  Latest(Given(z)) # {}
<1>1. PICK n \in {0, 1}, x \in Int : Grows(s, z, n, x)
  BY DEF Grown
<1>2. n \in Int
  OBVIOUS
<1>3. Moves(Given(s), n, x, Given(z))
  BY <1>1, <1>2, GivenGrown, Estimated, LatestMoves
<1>4. Shift(Latest(Given(s)), n) # {}
  BY DEF Shift
<1> QED
  BY <1>3, <1>4 DEF Moves

\* The sum and the number of what counts.
LEMMA TotalTyped ==
    ASSUME NEW s \in Seq(P!AttemptRow), Latest(Given(s)) # {}
    PROVE  /\ TotalOf(s, Latest(Given(s))) \in Int
           /\ Cardinality(Latest(Given(s))) \in Nat \ {0}
<1> DEFINE R == Latest(Given(s))
           f == [i \in R |-> s[i].band]
<1>1. PICK g : AddsUp(f, R, g) /\ TotalOf(s, R) = g[R]
  BY Estimated
<1>2. IsFiniteSet(R) /\ \A i \in R : f[i] \in 0 .. 18
  BY Estimated
<1>3. 0 \in Int /\ 18 \in Int /\ R # {}
  OBVIOUS
<1> HIDE DEF R, f
<1>4. TotalOf(s, R) \in Int
  BY <1>1, <1>2, <1>3, SumBounds
<1>5. Cardinality(R) \in Nat \ {0}
  BY <1>2, <1>3, FS_CardinalityType, FS_EmptySet
<1> QED
  BY <1>4, <1>5 DEF R

\* What band_prediction counts, before and after a step.
ReadOff ==
    \A k \in P!Skills :
        /\ P!Recent(k) = Latest(Given(history[k]))
        /\ P!Total(k) = TotalOf(history[k], Latest(Given(history[k])))
        /\ P!SkillBand(k) = P!Rounded(P!Total(k), Cardinality(P!Recent(k)))

LEMMA ReadsOff == ReadOff
<1> SUFFICES ASSUME NEW k \in P!Skills
             PROVE  /\ P!Recent(k) = Latest(Given(history[k]))
                    /\ P!Total(k) = TotalOf(history[k], Latest(Given(history[k])))
                    /\ P!SkillBand(k) = P!Rounded(P!Total(k), Cardinality(P!Recent(k)))
  BY DEF ReadOff
<1>1. P!Recent(k) = Latest(Given(history[k]))
  BY SameSize DEF P!Recent, P!WithBand, P!BandOf, Latest, Given
<1>2. P!Total(k) = TotalOf(history[k], P!Recent(k))
  BY DEF P!Total, P!MapThenSumSet, P!MapThenFoldSet, P!BandOf, TotalOf
<1>3. P!SkillBand(k) = P!Rounded(P!Total(k), Cardinality(P!Recent(k)))
  BY SameSize DEF P!SkillBand
<1> QED
  BY <1>1, <1>2, <1>3

LEMMA ReadsOffNext == ReadOff'
BY ReadsOff, PTL

\* What the absence of a setback says of the places of a history.
LEMMA NoSetback ==
    ASSUME HistoryInv, HistoryInv', NEW k \in P!Skills, P!Setbacks(k) = {},
           NEW n \in {0, 1}, NEW x \in Int, Grows(history[k], history'[k], n, x)
    PROVE  /\ \A i \in Given(history[k]) : history[k][i].band <= history'[k][i + n].band
           /\ x \in Given(history'[k]) /\ x \notin Shift(Given(history[k]), n) =>
                 \A j \in Latest(Given(history[k])) : history[k][j].band <= history'[k][x].band
<1> DEFINE s == history[k]  z == history'[k]
<1>1. s \in Seq(P!AttemptRow) /\ z \in Seq(P!AttemptRow)
  BY DEF HistoryInv, P!TypeOK, P!Skills
<1>2. /\ Len(z) = Len(s) + n /\ Len(s) \in Nat
      /\ DOMAIN z = 1 .. Len(z) /\ DOMAIN s = 1 .. Len(s)
  BY <1>1 DEF Grows
<1>3. P!Recent(k) = Latest(Given(s))
  BY ReadsOff DEF ReadOff
<1>4. ASSUME NEW i \in DOMAIN z, z[i].band # None
      PROVE  LET was == IF i > n THEN s[i - n].band ELSE None
             IN  IF was = None THEN \A j \in Latest(Given(s)) : ~ (z[i].band < s[j].band)
                 ELSE ~ (z[i].band < was)
  <2>1. Len(z) - Len(s) = n
    BY <1>2
  <2> QED
    BY <1>3, <1>4, <2>1 DEF P!Setbacks, P!BandOf
<1> HIDE DEF s, z
<1>5. ASSUME NEW i \in Given(s) PROVE s[i].band <= z[i + n].band
  <2>1. i + n \in Given(z)
    BY DEF Grows, s, z
  <2>2. i \in DOMAIN s /\ s[i].band # None /\ i + n \in DOMAIN z /\ z[i + n].band # None
    BY <2>1 DEF Given
  <2>3. i + n > n /\ (i + n) - n = i
    BY <1>2, <2>2
  <2>4. ~ (z[i + n].band < s[i].band)
    BY <1>4, <2>2, <2>3
  <2>5. s[i].band \in 0 .. 18 /\ z[i + n].band \in 0 .. 18
    BY <1>1, <2>1, Estimated
  <2> QED
    BY <2>4, <2>5
<1>6. ASSUME x \in Given(z), x \notin Shift(Given(s), n), NEW j \in Latest(Given(s))
      PROVE  s[j].band <= z[x].band
  <2>1. x \in DOMAIN z /\ z[x].band # None
    BY <1>6 DEF Given
  <2>2. ASSUME x > n PROVE s[x - n].band = None
    <3>1. x - n \in DOMAIN s /\ (x - n) + n = x
      BY <1>2, <2>1, <2>2
    <3> QED
      BY <1>6, <3>1 DEF Given, Shift
  <2>3. ~ (z[x].band < s[j].band)
    BY <1>4, <2>1, <2>2
  <2>4. s[j].band \in 0 .. 18 /\ z[x].band \in 0 .. 18
    BY <1>1, <1>6, Estimated
  <2> QED
    BY <2>3, <2>4
<1> QED
  BY <1>5, <1>6 DEF s, z

\* The band of a skill that was sat falls only with a setback.
LEMMA SkillRises ==
    ASSUME HistoryInv, HistoryInv', AllGrown, NEW k \in P!Sat
    PROVE  /\ k \in P!Sat'
           /\ P!Setbacks(k) = {} => P!SkillBand(k) <= P!SkillBand(k)'
<1> DEFINE s == history[k]  z == history'[k]
           R == Latest(Given(s))  Q == Latest(Given(z))
<1>1. k \in P!Skills /\ k \in P!Skills'
  BY DEF P!Sat, P!Skills
<1>2. s \in Seq(P!AttemptRow) /\ z \in Seq(P!AttemptRow)
  BY <1>1 DEF HistoryInv, P!TypeOK, P!Skills
<1>3. /\ P!Recent(k) = R /\ P!Recent(k)' = Q
      /\ P!SkillBand(k) = P!Rounded(TotalOf(s, R), Cardinality(R))
      /\ P!SkillBand(k)' = P!Rounded(TotalOf(z, Q), Cardinality(Q))
  <2>1. P!SkillBand(k) = P!Rounded(TotalOf(s, R), Cardinality(R)) /\ P!Recent(k) = R
    BY <1>1, ReadsOff DEF ReadOff
  <2>2. P!Recent(k)' = Q /\ P!Total(k)' = TotalOf(z, Q)
    BY <1>1, ReadsOffNext DEF ReadOff
  <2>3. P!SkillBand(k)' = P!Rounded(P!Total(k)', Cardinality(P!Recent(k)'))
    BY <1>1, ReadsOffNext DEF ReadOff
  <2> QED
    BY <2>1, <2>2, <2>3
<1>4. R # {}
  BY <1>3 DEF P!Sat
<1>5. Grown(s, z)
  BY <1>1 DEF AllGrown
<1>6. Q # {}
  BY <1>2, <1>4, <1>5, StaysSat
<1>7. k \in P!Sat'
  BY <1>1, <1>3, <1>6 DEF P!Sat
<1>8. ASSUME P!Setbacks(k) = {} PROVE P!SkillBand(k) <= P!SkillBand(k)'
  <2>1. PICK n \in {0, 1}, x \in Int : Grows(s, z, n, x)
    BY <1>5 DEF Grown
  <2>2. /\ \A i \in Given(s) : s[i].band <= z[i + n].band
        /\ x \in Given(z) /\ x \notin Shift(Given(s), n) =>
              \A j \in R : s[j].band <= z[x].band
    BY <1>1, <1>8, <2>1, NoSetback
  <2>3. Shift(Given(s), n) \subseteq Given(z) /\ Given(z) \subseteq Shift(Given(s), n) \cup {x}
    BY <1>2, <2>1, GivenGrown
  <2> HIDE DEF s, z
  <2>4. TotalOf(s, R) * Cardinality(Q) <= TotalOf(z, Q) * Cardinality(R)
    BY <1>2, <2>2, <2>3, MeanRises
  <2>5. TotalOf(s, R) \in Int /\ Cardinality(R) \in Nat \ {0}
    BY <1>2, <1>4, TotalTyped
  <2>6. TotalOf(z, Q) \in Int /\ Cardinality(Q) \in Nat \ {0}
    BY <1>2, <1>6, TotalTyped
  <2> HIDE DEF R, Q
  <2> QED
    BY <1>3, <2>4, <2>5, <2>6, RoundedRises
<1> QED
  BY <1>7, <1>8

\* The overall band is a mean of the bands of the skills that were sat.
SkillsBanded == \A k \in P!Sat : P!SkillBand(k) \in 0 .. 18

LEMMA SkillsBand == HistoryInv => SkillsBanded
<1> SUFFICES ASSUME HistoryInv, NEW k \in P!Sat PROVE P!SkillBand(k) \in 0 .. 18
  BY DEF SkillsBanded
<1>1. \A i \in P!Recent(k) : P!BandOf(k, i) \in 0 .. 18
  BY RecentBands DEF P!Sat
<1>2. 0 \in Int /\ 18 \in Int
  OBVIOUS
<1> QED
  BY <1>1, <1>2, SkillBands

\* It falls only when one of them does, while they are the same skills.
LEMMA OverallRises ==
    ASSUME HistoryInv, HistoryInv', P!Sat # {}, P!Sat' = P!Sat,
           \A k \in P!Sat : P!SkillBand(k) <= P!SkillBand(k)'
    PROVE  /\ P!OverallBand(P!Sat) \in Int /\ P!OverallBand(P!Sat)' \in Int
           /\ P!OverallBand(P!Sat) <= P!OverallBand(P!Sat)'
<1> DEFINE R == P!Sat
           f == [k \in R |-> P!SkillBand(k)]
           w == [k \in R |-> P!SkillBand(k)']
           p == [k \in R |-> k]
           Adds(g) == g = [d \in SUBSET R |->
                             IF d = {} THEN 0
                             ELSE P!SkillBand(CHOOSE x \in d : TRUE)
                                    + g[d \ {CHOOSE x \in d : TRUE}]]
           AddsNext(g) == g = [d \in SUBSET R |->
                                 IF d = {} THEN 0
                                 ELSE P!SkillBand(CHOOSE x \in d : TRUE)'
                                        + g[d \ {CHOOSE x \in d : TRUE}]]
           sum == CHOOSE g : Adds(g)
           total == CHOOSE g : AddsNext(g)
<1>1. P!OverallBand(R) = P!Rounded(sum[R], P!Cardinality(R))
  BY DEF P!OverallBand, P!MapThenSumSet, P!MapThenFoldSet
<1>2. P!OverallBand(P!Sat)' = P!Rounded(total[R], P!Cardinality(R))
  BY DEF P!OverallBand, P!MapThenSumSet, P!MapThenFoldSet
<1>3. /\ \A g : AddsUp(f, R, g) <=> Adds(g)
      /\ \A g : AddsUp(w, R, g) <=> AddsNext(g)
  BY DEF AddsUp
<1>4. IsFiniteSet(R)
  BY InstancesOK, FS_Subset DEF P!Sat
<1>5. Cardinality(R) \in Nat \ {0} /\ P!Cardinality(R) = Cardinality(R)
  BY <1>4, FS_CardinalityType, FS_EmptySet, SameSize
<1>6. SkillsBanded /\ SkillsBanded'
  <2>1. HistoryInv' => SkillsBanded'
    BY SkillsBand, PTL
  <2> QED
    BY <2>1, SkillsBand
<1>7. Between(f, R, 0, 18) /\ Between(w, R, 0, 18)
  BY <1>6 DEF SkillsBanded, Between
<1>8. Carries(p, f, R, w, R) /\ {p[x] : x \in R} = R
  BY DEF Carries
<1> HIDE DEF R, f, w, p, Adds, AddsNext
<1>9. AddsUp(f, R, sum) /\ AddsUp(w, R, total)
  BY <1>3, <1>4, SumExists
<1> HIDE DEF sum, total
<1>10. 0 \in Int /\ 18 \in Int /\ R \in SUBSET R
  OBVIOUS
<1>11. sum[R] <= total[R]
  <2>1. NotMore(sum, R, total, p)
    BY <1>4, <1>7, <1>8, <1>9, <1>10, SumCarried
  <2> QED
    BY <1>8, <2>1 DEF NotMore
<1>12. sum[R] \in Int /\ total[R] \in Int
  BY <1>4, <1>7, <1>9, <1>10, SumBounds DEF Between
<1>13. sum[R] * Cardinality(R) <= total[R] * Cardinality(R)
  <2>1. \A a, b \in Int, c \in Nat : a <= b => a * c <= b * c
    OBVIOUS
  <2> QED
    BY <1>5, <1>11, <1>12, <2>1
<1> QED
  BY <1>1, <1>2, <1>5, <1>12, <1>13, RoundedRises, RoundedNearest DEF R

-----------------------------------------------------------------------------
(* A fold over a sequence.                                                 *)

\* The greatest place of a run of places is its last.
LEMMA LastPlace ==
    ASSUME NEW n \in Nat
    PROVE  /\ \A d \in SUBSET (1 .. n) : d # {} => M!Max(d) \in d
           /\ \A k \in 1 .. n : M!Max(1 .. k) = k /\ (1 .. k) \ {k} = 1 .. k - 1
<1>1. ASSUME NEW d \in SUBSET (1 .. n), d # {} PROVE \E x \in d : \A y \in d : x >= y
  <2> DEFINE V == {n - x : x \in d}
  <2>a. \A x \in d : x \in 1 .. n /\ n - x \in Nat
    OBVIOUS
  <2>1. V \in SUBSET Nat /\ V # {}
    BY <1>1, <2>a
  <2>2. PICK v \in V : \A y \in V : v <= y
    <3> HIDE DEF V
    <3> QED
      BY <2>1, LeastNumber
  <2>3. PICK x \in d : v = n - x
    BY <2>2
  <2>4. \A y \in d : n - x <= n - y
    BY <2>2, <2>3
  <2>5. \A y \in d : x >= y
    BY <2>4, <2>a
  <2> QED
    BY <2>5
<1>2. \A d \in SUBSET (1 .. n) : d # {} => M!Max(d) \in d /\ \A y \in d : M!Max(d) >= y
  BY <1>1 DEF M!Max
<1>3. ASSUME NEW k \in 1 .. n PROVE M!Max(1 .. k) = k /\ (1 .. k) \ {k} = 1 .. k - 1
  <2>1. 1 .. k \in SUBSET (1 .. n) /\ k \in 1 .. k
    OBVIOUS
  <2>2. M!Max(1 .. k) \in 1 .. k /\ M!Max(1 .. k) >= k
    BY <1>2, <2>1
  <2> QED
    BY <2>2
<1> QED
  BY <1>2, <1>3

\* A fold over a sequence, place by place, keeps to A if each step does.
Folds(g, n, base, st) ==
    \A d \in SUBSET (1 .. n) :
       g[d] = IF d = {} THEN base ELSE st[<<M!Max(d), g[d \ {M!Max(d)}]>>]

\* For every base and step that keep to A there is such a fold.
LEMMA FoldOverPlaces ==
    ASSUME NEW n \in Nat, NEW A, NEW base \in A, NEW st,
           \A k \in 1 .. n, a \in A : st[<<k, a>>] \in A
    PROVE  \E g \in [SUBSET (1 .. n) -> A] : Folds(g, n, base, st)
<1> DEFINE W == 1 .. n
           Part(c, g) == \A d \in SUBSET W : Cardinality(d) <= c =>
                             g[d] = IF d = {} THEN base ELSE st[<<M!Max(d), g[d \ {M!Max(d)}]>>]
           T == {c \in Nat : ~ \E g \in [SUBSET W -> A] : Part(c, g)}
<1>a. IsFiniteSet(W)
  <2>1. 1 \in Int /\ n \in Int
    OBVIOUS
  <2> QED
    BY <2>1, FS_Interval
<1>b. \A d \in SUBSET W : d # {} => M!Max(d) \in d
  BY LastPlace
<1>c. \A k \in W, a \in A : st[<<k, a>>] \in A
  OBVIOUS
<1> HIDE DEF W
<1>1. \A d \in SUBSET W : IsFiniteSet(d) /\ Cardinality(d) \in Nat
  BY <1>a, FS_Subset, FS_CardinalityType
<1>2. ASSUME NEW d \in SUBSET W, d # {}
      PROVE  /\ M!Max(d) \in W /\ d \ {M!Max(d)} \in SUBSET W
             /\ Cardinality(d \ {M!Max(d)}) = Cardinality(d) - 1
  BY <1>1, <1>2, <1>b, FS_RemoveElement
<1>3. \A d \in SUBSET W : d # {} => Cardinality(d) # 0
  BY <1>1, FS_EmptySet
<1>4. T = {}
  <2> SUFFICES ASSUME T # {} PROVE FALSE
    OBVIOUS
  <2>1. PICK m \in T : \A y \in T : m <= y
    BY LeastNumber
  <2>2. m \in Nat \ {0}
    <3>1. [d \in SUBSET W |-> base] \in [SUBSET W -> A]
      OBVIOUS
    <3>2. Part(0, [d \in SUBSET W |-> base])
      BY <1>1, <1>3
    <3> HIDE DEF Part
    <3> QED
      BY <2>1, <3>1, <3>2
  <2>3. PICK g \in [SUBSET W -> A] : Part(m - 1, g)
    <3>1. m - 1 \in Nat /\ ~ (m <= m - 1)
      BY <2>2
    <3> HIDE DEF Part
    <3> QED
      BY <2>1, <3>1
  <2> DEFINE h == [d \in SUBSET W |->
                      IF Cardinality(d) = m THEN st[<<M!Max(d), g[d \ {M!Max(d)}]>>] ELSE g[d]]
  <2>4. h \in [SUBSET W -> A]
    <3>1. ASSUME NEW d \in SUBSET W PROVE h[d] \in A
      <4>1. CASE Cardinality(d) = m
        <5>1. d # {}
          BY <2>2, <4>1, FS_EmptySet
        <5>2. M!Max(d) \in W /\ g[d \ {M!Max(d)}] \in A
          BY <1>2, <5>1
        <5> QED
          BY <1>c, <4>1, <5>2
      <4>2. CASE Cardinality(d) # m
        BY <4>2
      <4> QED
        BY <4>1, <4>2
    <3> QED
      BY <3>1
  <2>5. Part(m, h)
    <3> SUFFICES ASSUME NEW d \in SUBSET W, Cardinality(d) <= m
                 PROVE  h[d] = IF d = {} THEN base ELSE st[<<M!Max(d), h[d \ {M!Max(d)}]>>]
      OBVIOUS
    <3>1. CASE d = {}
      <4>1. Cardinality(d) = 0 /\ 0 <= m - 1
        BY <2>2, <3>1, FS_EmptySet
      <4>2. h[d] = g[d]
        BY <2>2, <4>1
      <4> QED
        BY <2>3, <3>1, <4>1, <4>2
    <3>2. CASE d # {}
      <4>1. /\ d \ {M!Max(d)} \in SUBSET W
            /\ Cardinality(d \ {M!Max(d)}) = Cardinality(d) - 1
            /\ Cardinality(d) \in Nat
        BY <1>1, <1>2, <3>2
      <4>2. h[d \ {M!Max(d)}] = g[d \ {M!Max(d)}]
        BY <2>2, <4>1
      <4>3. CASE Cardinality(d) = m
        BY <3>2, <4>2, <4>3
      <4>4. CASE Cardinality(d) <= m - 1
        <5>1. h[d] = g[d]
          BY <2>2, <4>1, <4>4
        <5> QED
          BY <2>3, <3>2, <4>2, <4>4, <5>1
      <4> QED
        BY <2>2, <4>1, <4>3, <4>4
    <3> QED
      BY <3>1, <3>2
  <2> HIDE DEF h, Part
  <2> QED
    BY <2>1, <2>4, <2>5
<1>5. Cardinality(W) \in Nat /\ \A d \in SUBSET W : Cardinality(d) <= Cardinality(W)
  BY <1>1, <1>a, FS_Subset
<1>6. PICK g \in [SUBSET W -> A] : Part(Cardinality(W), g)
  <2> HIDE DEF Part
  <2> QED
    BY <1>4, <1>5
<1>7. \A d \in SUBSET W :
         g[d] = IF d = {} THEN base ELSE st[<<M!Max(d), g[d \ {M!Max(d)}]>>]
  BY <1>5, <1>6
<1> QED
  BY <1>7 DEF Folds, W

-----------------------------------------------------------------------------
(* Responses are matched with the key one by one, in any order.            *)

\* The texts that are not blank are some of the texts.
LEMMA WrittenTyped ==
    ASSUME NEW T, NEW texts \in Seq(T)
    PROVE  M!Written(texts) \in Seq(T)
<1> DEFINE n == Len(texts)
           st == [p \in (1 .. n) \X Seq(T) |->
                     IF texts[p[1]].words > 0 THEN Append(p[2], texts[p[1]]) ELSE p[2]]
           Kept(g) == g = [d \in SUBSET (1 .. n) |->
                            IF d = {} THEN <<>>
                            ELSE IF texts[M!Max(d)].words > 0
                                   THEN Append(g[d \ {M!Max(d)}], texts[M!Max(d)])
                                   ELSE g[d \ {M!Max(d)}]]
           kept == CHOOSE g : Kept(g)
<1>1. n \in Nat /\ DOMAIN texts = 1 .. n /\ <<>> \in Seq(T)
  OBVIOUS
<1>2. M!Written(texts) = kept[1 .. n]
  BY <1>1 DEF M!Written, M!FoldLeft, M!MapThenFoldSet
<1>3. \A k \in 1 .. n, a \in Seq(T) : st[<<k, a>>] \in Seq(T)
  BY <1>1
<1>4. PICK g \in [SUBSET (1 .. n) -> Seq(T)] : Folds(g, n, <<>>, st)
  <2> HIDE DEF n, st
  <2> QED
    BY <1>1, <1>3, FoldOverPlaces
<1>5. \A d \in SUBSET (1 .. n) : d # {} => M!Max(d) \in 1 .. n /\ d \ {M!Max(d)} \in SUBSET (1 .. n)
  BY <1>1, LastPlace
<1>6. Kept(g)
  <2>1. \A d \in SUBSET (1 .. n) : d # {} => g[d \ {M!Max(d)}] \in Seq(T)
    BY <1>4, <1>5
  <2>2. g = [d \in SUBSET (1 .. n) |-> g[d]]
    BY <1>4
  <2>3. ASSUME NEW d \in SUBSET (1 .. n), d # {}
        PROVE  st[<<M!Max(d), g[d \ {M!Max(d)}]>>]
                 = IF texts[M!Max(d)].words > 0
                     THEN Append(g[d \ {M!Max(d)}], texts[M!Max(d)])
                     ELSE g[d \ {M!Max(d)}]
    BY <1>5, <2>1, <2>3
  <2> HIDE DEF st, n
  <2>4. \A d \in SUBSET (1 .. n) :
          g[d] = IF d = {} THEN <<>>
                 ELSE IF texts[M!Max(d)].words > 0
                        THEN Append(g[d \ {M!Max(d)}], texts[M!Max(d)])
                        ELSE g[d \ {M!Max(d)}]
    BY <1>4, <2>3 DEF Folds
  <2> QED
    BY <2>2, <2>4
<1>7. Kept(kept)
  BY <1>6
<1> HIDE DEF kept, st
<1> DEFINE Bad == {k \in Nat : k <= n /\ kept[1 .. k] \notin Seq(T)}
<1>8. Bad = {}
  <2> SUFFICES ASSUME Bad # {} PROVE FALSE
    OBVIOUS
  <2>1. PICK k \in Bad : \A y \in Bad : k <= y
    BY LeastNumber
  <2>2. CASE k = 0
    <3>1. 1 .. k = {}
      BY <2>2
    <3> QED
      BY <1>1, <1>7, <2>1, <3>1
  <2>3. CASE k # 0
    <3>1. k \in 1 .. n /\ k - 1 \in Nat /\ k - 1 <= n /\ ~ (k <= k - 1)
      BY <1>1, <2>1, <2>3
    <3>2. kept[1 .. k - 1] \in Seq(T)
      BY <2>1, <3>1
    <3>3. M!Max(1 .. k) = k /\ (1 .. k) \ {k} = 1 .. k - 1
      BY <1>1, <3>1, LastPlace
    <3>4. 1 .. k \in SUBSET (1 .. n) /\ 1 .. k # {} /\ texts[k] \in T
      BY <1>1, <3>1
    <3>5. kept[1 .. k] = IF texts[k].words > 0 THEN Append(kept[1 .. k - 1], texts[k])
                         ELSE kept[1 .. k - 1]
      BY <1>7, <3>3, <3>4
    <3>6. Append(kept[1 .. k - 1], texts[k]) \in Seq(T)
      BY <3>2, <3>4
    <3>7. kept[1 .. k] \in Seq(T)
      BY <3>2, <3>5, <3>6
    <3> QED
      BY <2>1, <3>7
  <2> QED
    BY <2>2, <2>3
<1> QED
  BY <1>1, <1>2, <1>8

\* The texts given from place k on are different entries of what is left.
Pairing(pair, k, n, given, left) ==
    /\ pair \in [k .. n -> 1 .. Len(left)]
    /\ \A i \in k .. n : given[i] = left[pair[i]]
    /\ \A i, j \in k .. n : pair[i] = pair[j] => i = j

\* Struck leaves the entries out of which the first of the norm is taken.
LEMMA StruckIs ==
    ASSUME NEW T, NEW left \in Seq(T), NEW norm, norm \in M!ToSet(left)
    PROVE  \E p \in 1 .. Len(left) :
              /\ left[p] = norm
              /\ M!Struck(left, norm) \in Seq(T)
              /\ Len(M!Struck(left, norm)) = Len(left) - 1
              /\ \A j \in 1 .. Len(left) - 1 :
                    M!Struck(left, norm)[j] = left[IF j < p THEN j ELSE j + 1]
<1> DEFINE I == {i \in 1 .. Len(left) : left[i] = norm}
           p == M!Min(I)
<1>1. Len(left) \in Nat /\ DOMAIN left = 1 .. Len(left)
  OBVIOUS
<1>2. PICK i \in 1 .. Len(left) : left[i] = norm
  BY <1>1 DEF M!ToSet
<1>3. I \in SUBSET Nat /\ I # {}
  BY <1>1, <1>2
<1>4. \E x \in I : \A y \in I : x <= y
  <2> HIDE DEF I
  <2> QED
    BY <1>3, LeastNumber
<1>5. p \in I
  <2> HIDE DEF I
  <2> QED
    BY <1>4 DEF M!Min
<1>6. p \in 1 .. Len(left) /\ left[p] = norm
  BY <1>5
<1>7. M!SelectInSeq(left, LAMBDA v : v = norm) = p
  BY <1>3 DEF M!SelectInSeq
<1>8. M!Struck(left, norm) = SubSeq(left, 1, p - 1) \o SubSeq(left, p + 1, Len(left))
  BY <1>2, <1>7 DEF M!Struck, M!RemoveFirst, M!RemoveAt
<1> HIDE DEF p, I
<1> DEFINE front == SubSeq(left, 1, p - 1)  back == SubSeq(left, p + 1, Len(left))
<1>a. p \in Int /\ p - 1 \in Int /\ p + 1 \in Int /\ 1 \in Int /\ Len(left) \in Int
  BY <1>1, <1>6
<1>9. /\ front \in Seq(T) /\ Len(front) = p - 1
      /\ \A j \in 1 .. p - 1 : front[j] = left[j]
  BY <1>1, <1>6
<1>10. /\ back \in Seq(T) /\ Len(back) = Len(left) - p
       /\ \A j \in 1 .. Len(left) - p : back[j] = left[p + j]
  <2>1. \A j \in p + 1 .. Len(left) : left[j] \in T
    BY <1>1, <1>6
  <2>2. /\ back \in Seq(T)
        /\ Len(back) = IF p + 1 <= Len(left) THEN Len(left) - (p + 1) + 1 ELSE 0
        /\ \A j \in 1 .. Len(left) - (p + 1) + 1 : back[j] = left[p + 1 + j - 1]
    BY <1>a, <2>1, SubSeqProperties
  <2>3. /\ Len(left) - (p + 1) + 1 = Len(left) - p
        /\ ~ (p + 1 <= Len(left)) => Len(left) - p = 0
    BY <1>a, <1>6
  <2>4. \A j \in 1 .. Len(left) - p : p + 1 + j - 1 = p + j
    BY <1>a
  <2> QED
    BY <2>2, <2>3, <2>4
<1> HIDE DEF front, back
<1>11. /\ front \o back \in Seq(T) /\ Len(front \o back) = Len(left) - 1
       /\ \A j \in 1 .. Len(left) - 1 :
             (front \o back)[j] = IF j <= p - 1 THEN front[j] ELSE back[j - (p - 1)]
  <2>1. /\ front \o back \in Seq(T)
        /\ Len(front \o back) = Len(front) + Len(back)
        /\ \A j \in 1 .. Len(front) + Len(back) :
              (front \o back)[j] = IF j <= Len(front) THEN front[j] ELSE back[j - Len(front)]
    BY <1>9, <1>10, ConcatProperties
  <2>2. Len(front) + Len(back) = Len(left) - 1
    BY <1>1, <1>6, <1>9, <1>10
  <2> QED
    BY <1>9, <2>1, <2>2
<1>12. ASSUME NEW j \in 1 .. Len(left) - 1
       PROVE  (front \o back)[j] = left[IF j < p THEN j ELSE j + 1]
  <2>1. CASE j < p
    <3>1. j \in 1 .. p - 1
      BY <1>1, <1>6, <2>1
    <3> QED
      BY <1>9, <1>11, <2>1, <3>1
  <2>2. CASE ~ (j < p)
    <3>1. /\ j - (p - 1) \in 1 .. Len(left) - p /\ ~ (j <= p - 1)
          /\ p + (j - (p - 1)) = j + 1
      BY <1>1, <1>6, <2>2
    <3> QED
      BY <1>10, <1>11, <2>2, <3>1
  <2> QED
    BY <2>1, <2>2
<1>13. M!Struck(left, norm) = front \o back
  BY <1>8 DEF front, back
<1> QED
  BY <1>6, <1>11, <1>12, <1>13

\* Which of the equal entries is struck does not matter: a pairing from the
\* first place on is an entry for it and a pairing of the others with the rest.
LEMMA StruckPairs ==
    ASSUME NEW T, NEW left \in Seq(T), NEW n \in Nat, NEW k \in 1 .. n, NEW given
    PROVE  (\E pair : Pairing(pair, k, n, given, left))
             <=> /\ given[k] \in M!ToSet(left)
                 /\ \E pair : Pairing(pair, k + 1, n, given, M!Struck(left, given[k]))
<1>1. Len(left) \in Nat /\ DOMAIN left = 1 .. Len(left) /\ k \in k .. n
      /\ \A i \in k .. n : i \in Int /\ (i = k \/ i \in k + 1 .. n)
      /\ \A j \in k + 1 .. n : j \in k .. n /\ j # k
  OBVIOUS
<1>2. ASSUME NEW pair, Pairing(pair, k, n, given, left)
      PROVE  given[k] \in M!ToSet(left)
  <2>1. pair[k] \in 1 .. Len(left) /\ given[k] = left[pair[k]]
    BY <1>1, <1>2 DEF Pairing
  <2> QED
    BY <1>1, <2>1 DEF M!ToSet
<1> SUFFICES ASSUME given[k] \in M!ToSet(left)
             PROVE  (\E pair : Pairing(pair, k, n, given, left))
                       <=> \E pair : Pairing(pair, k + 1, n, given, M!Struck(left, given[k]))
  BY <1>2
<1> DEFINE rest == M!Struck(left, given[k])
<1>3. PICK p \in 1 .. Len(left) :
         /\ left[p] = given[k]
         /\ Len(rest) = Len(left) - 1
         /\ \A j \in 1 .. Len(left) - 1 : rest[j] = left[IF j < p THEN j ELSE j + 1]
  BY StruckIs
<1> HIDE DEF rest
<1>4. ASSUME NEW pair, Pairing(pair, k, n, given, left)
      PROVE  \E q : Pairing(q, k + 1, n, given, rest)
  <2> DEFINE swap == [i \in k + 1 .. n |-> IF pair[i] = p THEN pair[k] ELSE pair[i]]
             q == [i \in k + 1 .. n |-> IF swap[i] < p THEN swap[i] ELSE swap[i] - 1]
  <2>1. /\ \A i \in k .. n : pair[i] \in 1 .. Len(left) /\ given[i] = left[pair[i]]
        /\ \A i, j \in k .. n : pair[i] = pair[j] => i = j
    BY <1>4 DEF Pairing
  <2>2. ASSUME NEW i \in k + 1 .. n
        PROVE  /\ swap[i] \in 1 .. Len(left) /\ swap[i] # p /\ given[i] = left[swap[i]]
    BY <1>1, <1>3, <2>1
  <2>3. ASSUME NEW i \in k + 1 .. n, NEW j \in k + 1 .. n, swap[i] = swap[j]
        PROVE  i = j
    BY <1>1, <2>1, <2>3
  <2>4. \A i \in k + 1 .. n : q[i] = IF swap[i] < p THEN swap[i] ELSE swap[i] - 1
    OBVIOUS
  <2> HIDE DEF swap
  <2>5. ASSUME NEW i \in k + 1 .. n
        PROVE  /\ q[i] \in 1 .. Len(left) - 1
               /\ swap[i] = IF q[i] < p THEN q[i] ELSE q[i] + 1
    BY <1>1, <2>2, <2>4
  <2>6. q \in [k + 1 .. n -> 1 .. Len(rest)]
    BY <1>3, <2>5
  <2> HIDE DEF q
  <2>7. \A i \in k + 1 .. n : given[i] = rest[q[i]]
    BY <1>3, <2>2, <2>5
  <2>8. \A i, j \in k + 1 .. n : q[i] = q[j] => i = j
    BY <2>3, <2>5
  <2> QED
    BY <2>6, <2>7, <2>8 DEF Pairing
<1>5. ASSUME NEW q, Pairing(q, k + 1, n, given, rest)
      PROVE  \E pair : Pairing(pair, k, n, given, left)
  <2> DEFINE pair == [i \in k .. n |-> IF i = k THEN p ELSE IF q[i] < p THEN q[i] ELSE q[i] + 1]
  <2>1. /\ \A i \in k + 1 .. n : q[i] \in 1 .. Len(left) - 1 /\ given[i] = rest[q[i]]
        /\ \A i, j \in k + 1 .. n : q[i] = q[j] => i = j
    BY <1>3, <1>5 DEF Pairing
  <2>2. /\ pair[k] = p
        /\ \A i \in k + 1 .. n : pair[i] = IF q[i] < p THEN q[i] ELSE q[i] + 1
    BY <1>1
  <2>3. ASSUME NEW i \in k + 1 .. n
        PROVE  /\ pair[i] \in 1 .. Len(left) /\ pair[i] # p /\ given[i] = left[pair[i]]
    <3>1. q[i] \in 1 .. Len(left) - 1 /\ given[i] = rest[q[i]]
      BY <2>1
    <3>2. given[i] = left[IF q[i] < p THEN q[i] ELSE q[i] + 1]
      BY <1>3, <3>1
    <3>3. /\ q[i] < p => q[i] \in 1 .. Len(left)
          /\ ~ (q[i] < p) => q[i] + 1 \in 1 .. Len(left) /\ q[i] + 1 # p
      BY <1>1, <1>3, <3>1
    <3>4. q[i] < p => q[i] # p
      BY <1>1, <3>1
    <3> QED
      BY <2>2, <3>2, <3>3, <3>4
  <2>4. pair = [i \in k .. n |-> pair[i]]
    OBVIOUS
  <2>5. ASSUME NEW i \in k + 1 .. n, NEW j \in k + 1 .. n, pair[i] = pair[j]
        PROVE  i = j
    <3>1. q[i] \in Int /\ q[j] \in Int /\ p \in Int
      BY <1>1, <2>1
    <3>2. q[i] = q[j]
      BY <2>2, <2>5, <3>1
    <3> QED
      BY <2>1, <3>2
  <2> HIDE DEF pair
  <2>6. \A i \in k .. n : pair[i] \in 1 .. Len(left) /\ given[i] = left[pair[i]]
    BY <1>1, <1>3, <2>2, <2>3
  <2>7. pair \in [k .. n -> 1 .. Len(left)]
    BY <2>4, <2>6
  <2>8. \A i, j \in k .. n : pair[i] = pair[j] => i = j
    BY <1>1, <2>2, <2>3, <2>5
  <2> QED
    BY <2>6, <2>7, <2>8 DEF Pairing
<1> QED
  BY <1>4, <1>5 DEF rest

\* The loop of mark_question, response by response.
Taken(given, accepted, limit, left, count) ==
    /\ left[0] = accepted /\ count[0] = 0
    /\ \A k \in 1 .. Len(given) :
          IF ~ M!WithinLimit(given[k], limit) \/ given[k] \notin M!ToSet(left[k - 1])
            THEN left[k] = left[k - 1] /\ count[k] = count[k - 1]
            ELSE left[k] = M!Struck(left[k - 1], given[k]) /\ count[k] = count[k - 1] + 1

MatchedInTurn(T, given, accepted, limit) ==
    \E left \in [0 .. Len(given) -> Seq(T)], count \in [0 .. Len(given) -> Nat] :
       /\ Taken(given, accepted, limit, left, count)
       /\ M!Matched(given, accepted, limit) = count[Len(given)]

\* There is such a course of the loop for whatever is given.
LEMMA MatchedTakes ==
    ASSUME NEW T, NEW given \in Seq(T), NEW accepted \in Seq(T), NEW limit
    PROVE  MatchedInTurn(T, given, accepted, limit)
<1> DEFINE n == Len(given)
           A == [left: Seq(T), count: Nat]
           base == [left |-> accepted, count |-> 0]
           take(acc, norm) ==
              IF ~ M!WithinLimit(norm, limit) \/ norm \notin M!ToSet(acc.left) THEN acc
              ELSE [left |-> M!Struck(acc.left, norm), count |-> acc.count + 1]
           st == [p \in (1 .. n) \X A |-> take(p[2], given[p[1]])]
           Takes(g) == g = [d \in SUBSET (1 .. n) |->
                             IF d = {} THEN base
                             ELSE take(g[d \ {M!Max(d)}], given[M!Max(d)])]
           run == CHOOSE g : Takes(g)
<1>1. n \in Nat /\ DOMAIN given = 1 .. n /\ base \in A
  OBVIOUS
<1>2. M!Matched(given, accepted, limit) = run[1 .. n].count
  BY <1>1 DEF M!Matched, M!FoldLeft, M!MapThenFoldSet
<1>3. ASSUME NEW acc \in A, NEW norm PROVE take(acc, norm) \in A
  <2>1. CASE ~ M!WithinLimit(norm, limit) \/ norm \notin M!ToSet(acc.left)
    BY <2>1
  <2>2. CASE M!WithinLimit(norm, limit) /\ norm \in M!ToSet(acc.left)
    <3>1. M!Struck(acc.left, norm) \in Seq(T)
      BY <2>2, StruckIs
    <3> QED
      BY <2>2, <3>1
  <2> QED
    BY <2>1, <2>2
<1> HIDE DEF take, A, base
<1>4. \A k \in 1 .. n, a \in A : st[<<k, a>>] = take(a, given[k]) /\ st[<<k, a>>] \in A
  BY <1>3
<1>5. PICK g \in [SUBSET (1 .. n) -> A] : Folds(g, n, base, st)
  <2> HIDE DEF n, st
  <2> QED
    BY <1>1, <1>4, FoldOverPlaces
<1>6. \A d \in SUBSET (1 .. n) : d # {} => M!Max(d) \in 1 .. n /\ d \ {M!Max(d)} \in SUBSET (1 .. n)
  BY <1>1, LastPlace
<1>7. Takes(g)
  <2>1. \A d \in SUBSET (1 .. n) : d # {} => g[d \ {M!Max(d)}] \in A
    BY <1>5, <1>6
  <2>2. g = [d \in SUBSET (1 .. n) |-> g[d]]
    BY <1>5
  <2>3. ASSUME NEW d \in SUBSET (1 .. n), d # {}
        PROVE  st[<<M!Max(d), g[d \ {M!Max(d)}]>>] = take(g[d \ {M!Max(d)}], given[M!Max(d)])
    BY <1>4, <1>6, <2>1, <2>3
  <2> HIDE DEF st, n
  <2>4. \A d \in SUBSET (1 .. n) :
          g[d] = IF d = {} THEN base ELSE take(g[d \ {M!Max(d)}], given[M!Max(d)])
    BY <1>5, <2>3 DEF Folds
  <2> QED
    BY <2>2, <2>4
<1>8. Takes(run)
  BY <1>7
<1> HIDE DEF run, st
<1>9. ASSUME NEW k \in 1 .. n PROVE run[1 .. k] = take(run[1 .. k - 1], given[k])
  <2>1. M!Max(1 .. k) = k /\ (1 .. k) \ {k} = 1 .. k - 1
    BY <1>1, LastPlace
  <2>2. 1 .. k \in SUBSET (1 .. n) /\ 1 .. k # {}
    BY <1>1
  <2> QED
    BY <1>8, <2>1, <2>2
<1>10. run[1 .. 0] = base
  <2>1. 1 .. 0 = {}
    OBVIOUS
  <2> QED
    BY <1>8, <2>1
<1> DEFINE Bad == {k \in Nat : k <= n /\ run[1 .. k] \notin A}
<1>11. Bad = {}
  <2> SUFFICES ASSUME Bad # {} PROVE FALSE
    OBVIOUS
  <2>1. PICK k \in Bad : \A y \in Bad : k <= y
    BY LeastNumber
  <2>2. k # 0
    BY <1>1, <1>10, <2>1
  <2>3. k \in 1 .. n /\ k - 1 \in Nat /\ k - 1 <= n /\ ~ (k <= k - 1)
    BY <1>1, <2>1, <2>2
  <2>4. run[1 .. k - 1] \in A
    BY <2>1, <2>3
  <2>5. run[1 .. k] \in A
    BY <1>3, <1>9, <2>3, <2>4
  <2> QED
    BY <2>1, <2>5
<1>12. \A k \in 0 .. n : run[1 .. k] \in A
  BY <1>1, <1>11
<1> DEFINE left == [k \in 0 .. n |-> run[1 .. k].left]
           count == [k \in 0 .. n |-> run[1 .. k].count]
<1>13. left \in [0 .. n -> Seq(T)] /\ count \in [0 .. n -> Nat]
  BY <1>12 DEF A
<1>14. left[0] = accepted /\ count[0] = 0 /\ count[n] = run[1 .. n].count
  <2>1. 0 \in 0 .. n /\ n \in 0 .. n
    BY <1>1
  <2> QED
    BY <1>10, <2>1 DEF base
<1>15. ASSUME NEW k \in 1 .. n
       PROVE  IF ~ M!WithinLimit(given[k], limit) \/ given[k] \notin M!ToSet(left[k - 1])
                THEN left[k] = left[k - 1] /\ count[k] = count[k - 1]
                ELSE left[k] = M!Struck(left[k - 1], given[k]) /\ count[k] = count[k - 1] + 1
  <2>1. k \in 0 .. n /\ k - 1 \in 0 .. n
    BY <1>1
  <2>2. /\ left[k] = run[1 .. k].left /\ left[k - 1] = run[1 .. k - 1].left
        /\ count[k] = run[1 .. k].count /\ count[k - 1] = run[1 .. k - 1].count
    BY <2>1
  <2> HIDE DEF left, count
  <2>3. CASE ~ M!WithinLimit(given[k], limit) \/ given[k] \notin M!ToSet(run[1 .. k - 1].left)
    <3>1. run[1 .. k] = run[1 .. k - 1]
      BY <1>9, <2>3 DEF take
    <3> QED
      BY <2>2, <2>3, <3>1
  <2>4. CASE M!WithinLimit(given[k], limit) /\ given[k] \in M!ToSet(run[1 .. k - 1].left)
    <3>1. run[1 .. k] = [left |-> M!Struck(run[1 .. k - 1].left, given[k]),
                         count |-> run[1 .. k - 1].count + 1]
      BY <1>9, <2>4 DEF take
    <3> QED
      BY <2>2, <2>4, <3>1
  <2> QED
    BY <2>3, <2>4
<1> HIDE DEF left, count
<1>16. Taken(given, accepted, limit, left, count)
  BY <1>14, <1>15 DEF Taken
<1> QED
  BY <1>2, <1>13, <1>14, <1>16 DEF MatchedInTurn

\* All responses are matched exactly when each keeps to the cap and they are
\* that many different entries.
LEMMA MatchedAll ==
    ASSUME NEW T, NEW given \in Seq(T), NEW accepted \in Seq(T), NEW limit
    PROVE  M!Matched(given, accepted, limit) >= Len(given)
             <=> /\ \A i \in 1 .. Len(given) : M!WithinLimit(given[i], limit)
                 /\ \E pair : Pairing(pair, 1, Len(given), given, accepted)
<1>a. PICK left \in [0 .. Len(given) -> Seq(T)], count \in [0 .. Len(given) -> Nat] :
         /\ Taken(given, accepted, limit, left, count)
         /\ M!Matched(given, accepted, limit) = count[Len(given)]
  <2>1. MatchedInTurn(T, given, accepted, limit)
    BY MatchedTakes
  <2> QED
    BY <2>1 DEF MatchedInTurn
<1> DEFINE n == Len(given)
           Within == \A i \in 1 .. n : M!WithinLimit(given[i], limit)
<1>1. n \in Nat
  OBVIOUS
<1>2. /\ left \in [0 .. n -> Seq(T)] /\ count \in [0 .. n -> Nat]
      /\ Taken(given, accepted, limit, left, count)
      /\ M!Matched(given, accepted, limit) = count[n]
  BY <1>a
<1> DEFINE Pairs(k) == \E pair : Pairing(pair, k + 1, n, given, left[k])
           Good(k) == /\ count[k] <= k
                      /\ count[k] = k => \A i \in 1 .. k : M!WithinLimit(given[i], limit)
                      /\ Within /\ Pairs(0) <=> count[k] = k /\ Within /\ Pairs(k)
           Bad == {k \in Nat : k <= n /\ ~ Good(k)}
<1>3. Good(0)
  BY <1>1, <1>2 DEF Taken
<1>4. ASSUME NEW k \in 1 .. n, Good(k - 1) PROVE Good(k)
  <2>1. /\ k \in 0 .. n /\ k - 1 \in 0 .. n /\ (k - 1) + 1 = k
        /\ count[k] \in Nat /\ count[k - 1] \in Nat /\ left[k - 1] \in Seq(T)
    <3>1. k \in 0 .. n /\ k - 1 \in 0 .. n /\ (k - 1) + 1 = k
      BY <1>1
    <3> HIDE DEF n
    <3> QED
      BY <1>2, <3>1
  <2>2. Pairs(k - 1) <=> /\ given[k] \in M!ToSet(left[k - 1])
                         /\ \E pair : Pairing(pair, k + 1, n, given, M!Struck(left[k - 1], given[k]))
    <3>1. (\E pair : Pairing(pair, k, n, given, left[k - 1]))
            <=> /\ given[k] \in M!ToSet(left[k - 1])
                /\ \E pair : Pairing(pair, k + 1, n, given, M!Struck(left[k - 1], given[k]))
      <4> HIDE DEF n
      <4> QED
        BY <1>1, <2>1, StruckPairs
    <3> QED
      BY <2>1, <3>1
  <2>3. IF ~ M!WithinLimit(given[k], limit) \/ given[k] \notin M!ToSet(left[k - 1])
          THEN left[k] = left[k - 1] /\ count[k] = count[k - 1]
          ELSE left[k] = M!Struck(left[k - 1], given[k]) /\ count[k] = count[k - 1] + 1
    BY <1>2 DEF Taken
  <2> HIDE DEF n
  <2>4. CASE ~ M!WithinLimit(given[k], limit) \/ given[k] \notin M!ToSet(left[k - 1])
    <3>1. count[k] <= k /\ count[k] # k
      BY <1>4, <2>1, <2>3, <2>4
    <3>2. ~ (Within /\ Pairs(k - 1))
      BY <2>2, <2>4
    <3> HIDE DEF Pairs, Within
    <3> QED
      BY <1>4, <3>1, <3>2
  <2>5. CASE M!WithinLimit(given[k], limit) /\ given[k] \in M!ToSet(left[k - 1])
    <3>0. k \in Int /\ count[k - 1] <= k - 1 /\ count[k] = count[k - 1] + 1
      BY <1>1, <1>4, <2>3, <2>5
    <3>1. count[k] <= k /\ (count[k] = k <=> count[k - 1] = k - 1)
      BY <2>1, <3>0
    <3>2. Pairs(k - 1) <=> Pairs(k)
      BY <2>2, <2>3, <2>5
    <3>3. \A i \in 1 .. k : i = k \/ i \in 1 .. k - 1
      OBVIOUS
    <3> HIDE DEF Pairs, Within
    <3> QED
      BY <1>4, <2>5, <3>1, <3>2, <3>3
  <2> QED
    BY <2>4, <2>5
<1> HIDE DEF Good
<1>5. Bad = {}
  <2> SUFFICES ASSUME Bad # {} PROVE FALSE
    OBVIOUS
  <2>1. PICK k \in Bad : \A y \in Bad : k <= y
    BY LeastNumber
  <2>2. k # 0
    BY <1>3, <2>1
  <2>3. k \in 1 .. n /\ k - 1 \in Nat /\ k - 1 <= n /\ ~ (k <= k - 1)
    BY <1>1, <2>1, <2>2
  <2> QED
    BY <1>4, <2>1, <2>3
<1>6. Good(n)
  BY <1>1, <1>5
<1>7. Pairs(n)
  <2>1. n + 1 .. n = {}
    BY <1>1
  <2>2. Pairing([i \in {} |-> 1], n + 1, n, given, left[n])
    BY <2>1 DEF Pairing
  <2> QED
    BY <2>2
<1>8. count[n] \in Nat /\ left[0] = accepted
  BY <1>1, <1>2 DEF Taken
<1>9. Pairs(0) <=> \E pair : Pairing(pair, 1, n, given, accepted)
  BY <1>8
<1> HIDE DEF Pairs
<1>10. count[n] >= n <=> count[n] = n
  BY <1>1, <1>6, <1>8 DEF Good
<1> QED
  BY <1>2, <1>6, <1>7, <1>9, <1>10 DEF Good

-----------------------------------------------------------------------------
(* Marks follow the key.                                                   *)

\* A text as Marking has it.
TextRow == [norm: DOMAIN Words, words: Nat]

\* Norms keeps the places of the texts.
LEMMA NormsTyped ==
    ASSUME NEW D, NEW texts \in Seq([norm: D, words: Nat])
    PROVE  /\ M!Norms(texts) \in Seq(D)
           /\ Len(M!Norms(texts)) = Len(texts)
           /\ \A i \in 1 .. Len(texts) : M!Norms(texts)[i] = texts[i].norm
<1>1. Len(texts) \in Nat /\ DOMAIN texts = 1 .. Len(texts)
  OBVIOUS
<1>2. ASSUME NEW i \in 1 .. Len(texts) PROVE texts[i].norm \in D
  <2> DEFINE R == [norm: D, words: Nat]
  <2>1. texts \in Seq(R)
    OBVIOUS
  <2>2. texts[i] \in R
    <3> HIDE DEF R
    <3> QED
      BY <2>1
  <2> QED
    BY <2>2
<1>3. M!Norms(texts) = [i \in 1 .. Len(texts) |-> texts[i].norm]
  BY <1>1 DEF M!Norms
<1> QED
  BY <1>1, <1>2, <1>3

\* A pairing is an injection into the key.
LEMMA PairedIs ==
    ASSUME NEW n \in Nat, NEW given, NEW T, NEW accepted \in Seq(T)
    PROVE  M!Paired(n, given, accepted) <=> \E pair : Pairing(pair, 1, n, given, accepted)
<1>1. DOMAIN accepted = 1 .. Len(accepted)
  OBVIOUS
<1>2. ASSUME NEW pair PROVE Pairing(pair, 1, n, given, accepted)
                              <=> /\ pair \in M!Injection(1 .. n, DOMAIN accepted)
                                  /\ \A i \in 1 .. n : given[i] = accepted[pair[i]]
  BY <1>1 DEF Pairing, M!Injection, M!IsInjective
<1> QED
  BY <1>2 DEF M!Paired

\* mark_question gives an item its marks exactly when they are earned.
LEMMA MarkedEarned ==
    ASSUME NEW item, M!ItemOK(item), ~ item.type.rubric
    PROVE  /\ M!MarkQuestion(item).correct = M!Earned(item)
           /\ M!MarkQuestion(item).marks = IF M!Earned(item) THEN item.span ELSE 0
<1> DEFINE D == DOMAIN Words
           given == M!Norms(M!Written(item.response))
           accepted == M!Norms(M!Written(item.answers))
           needed == item.type.required
           first == SubSeq(given, 1, needed)
           limit == item.limit
           correct == Len(given) >= needed /\ M!Matched(first, accepted, limit) >= needed
<1>1. needed \in Nat /\ item.response \in Seq(TextRow) /\ item.answers \in Seq(TextRow)
  BY DEF M!ItemOK, TextRow
<1>2. given \in Seq(D) /\ accepted \in Seq(D)
  BY <1>1, WrittenTyped, NormsTyped DEF TextRow
<1>3. M!MarkQuestion(item) = [correct |-> correct, marks |-> IF correct THEN item.span ELSE 0]
  BY DEF M!MarkQuestion
<1>4. M!Earned(item) <=> /\ Len(given) >= needed
                         /\ M!Paired(needed, given, accepted)
                         /\ limit # 0 => \A i \in 1 .. needed : Words[given[i]] <= limit
  BY DEF M!Earned
<1> HIDE DEF given, accepted, needed, limit
<1>5. ASSUME Len(given) >= needed
      PROVE  M!Matched(first, accepted, limit) >= needed
               <=> /\ M!Paired(needed, given, accepted)
                   /\ limit # 0 => \A i \in 1 .. needed : Words[given[i]] <= limit
  <2>1. /\ first \in Seq(D) /\ Len(first) = needed
        /\ \A i \in 1 .. needed : first[i] = given[i]
    BY <1>1, <1>2, <1>5
  <2> HIDE DEF first
  <2>2. M!Matched(first, accepted, limit) >= needed
          <=> /\ \A i \in 1 .. needed : M!WithinLimit(first[i], limit)
              /\ \E pair : Pairing(pair, 1, needed, first, accepted)
    BY <1>2, <2>1, MatchedAll
  <2>3. (\E pair : Pairing(pair, 1, needed, first, accepted)) <=> M!Paired(needed, given, accepted)
    <3>1. \A pair : Pairing(pair, 1, needed, first, accepted)
                      <=> Pairing(pair, 1, needed, given, accepted)
      BY <2>1 DEF Pairing
    <3>2. M!Paired(needed, given, accepted)
            <=> \E pair : Pairing(pair, 1, needed, given, accepted)
      BY <1>1, <1>2, PairedIs
    <3> QED
      BY <3>1, <3>2
  <2>4. (\A i \in 1 .. needed : M!WithinLimit(first[i], limit))
          <=> (limit # 0 => \A i \in 1 .. needed : Words[given[i]] <= limit)
    BY <2>1 DEF M!WithinLimit
  <2> QED
    BY <2>2, <2>3, <2>4
<1>6. correct <=> M!Earned(item)
  BY <1>4, <1>5
<1>7. M!Earned(item) \in BOOLEAN /\ correct \in BOOLEAN
  BY DEF M!Earned
<1> HIDE DEF correct
<1> QED
  BY <1>3, <1>6, <1>7

\* The items of the paper and the results so far are sequences.
LEMMA ItemsOK ==
    ASSUME MarkingInv
    PROVE  /\ Len(paper.items) \in Nat /\ DOMAIN paper.items = 1 .. Len(paper.items)
           /\ \A i \in DOMAIN paper.items : M!ItemOK(paper.items[i])
           /\ Len(results) \in Nat /\ DOMAIN results = 1 .. Len(results)
BY InstancesOK DEF MarkingInv, M!ConstantsOK

\* The next item is marked as earned, and what is marked already stays.
LEMMA MarkItemAsKeyed ==
    ASSUME MarkingInv, M!MarkedAsKeyed, M!MarkItem
    PROVE  M!MarkedAsKeyed'
<1> DEFINE n == Len(results)
           result == M!MarkQuestion(paper.items[n + 1])
<1>1. n < Len(paper.items) /\ results' = Append(results, result) /\ paper' = paper
  BY DEF M!MarkItem
<1>2. n \in Nat /\ DOMAIN results = 1 .. n /\ n + 1 \in DOMAIN paper.items
  BY <1>1, ItemsOK
<1>3. result \in ResultRow
  <2>1. paper.items[n + 1].span \in Nat
    BY <1>2, ItemsOK DEF M!ItemOK
  <2> QED
    BY <2>1, ItemMarked
<1> HIDE DEF result
<1>4. /\ DOMAIN results' = 1 .. n + 1 /\ results'[n + 1] = result
      /\ \A i \in 1 .. n : results'[i] = results[i]
  BY <1>1, <1>3 DEF MarkingInv
<1> SUFFICES ASSUME NEW i \in DOMAIN results', ~ paper.items[i].type.rubric
             PROVE  /\ results'[i].correct = M!Earned(paper.items[i])
                    /\ results'[i].marks = IF M!Earned(paper.items[i]) THEN paper.items[i].span ELSE 0
  BY <1>1 DEF M!MarkedAsKeyed
<1>5. CASE i \in 1 .. n
  BY <1>2, <1>4, <1>5 DEF M!MarkedAsKeyed
<1>6. CASE i = n + 1
  <2>1. M!ItemOK(paper.items[i])
    BY <1>2, <1>6, ItemsOK
  <2> QED
    BY <1>4, <1>6, <2>1, MarkedEarned DEF result
<1>7. i \in 1 .. n \/ i = n + 1
  BY <1>2, <1>4
<1> QED
  BY <1>5, <1>6, <1>7

\* Where review and marker look at one cap, what passed the review is earned.
LEMMA KeyIsEarned ==
    ASSUME NEW item, M!ItemOK(item), M!Reviewed(item), ~ item.type.rubric,
           item.type.takesLimit \/ item.limit = 0,
           Len(M!Written(item.response)) >= item.type.required,
           M!Paired(item.type.required, M!Written(item.response), M!Written(item.answers))
    PROVE  M!Earned(item)
<1> DEFINE written == M!Written(item.response)
           answers == M!Written(item.answers)
           needed == item.type.required
           limit == item.limit
           OK == {t \in TextRow : Words[t.norm] <= t.words}
<1>1. needed \in Nat /\ limit \in Nat /\ Words \in [DOMAIN Words -> Nat]
  BY InstancesOK DEF M!ItemOK, M!ConstantsOK
<1>2. written \in Seq(TextRow)
  BY WrittenTyped DEF M!ItemOK, TextRow
<1>3. answers \in Seq(OK) /\ answers \in Seq(TextRow)
  <2>1. item.answers \in Seq(TextRow)
    BY DEF M!ItemOK, TextRow
  <2>2. \A i \in 1 .. Len(item.answers) : item.answers[i] \in OK
    BY <2>1 DEF M!ItemOK
  <2>3. item.answers \in Seq(OK)
    BY <2>1, <2>2
  <2> HIDE DEF OK
  <2> QED
    BY <2>1, <2>3, WrittenTyped
<1>4. limit # 0 => \A i \in DOMAIN answers : answers[i].words <= limit
  BY DEF M!Reviewed
<1>5. Len(written) >= needed /\ M!Paired(needed, written, answers)
  OBVIOUS
<1>6. M!Earned(item) <=> /\ Len(M!Norms(written)) >= needed
                         /\ M!Paired(needed, M!Norms(written), M!Norms(answers))
                         /\ limit # 0 =>
                              \A i \in 1 .. needed : Words[M!Norms(written)[i]] <= limit
  BY DEF M!Earned
<1> HIDE DEF written, answers, needed, limit
<1>7. PICK pair : Pairing(pair, 1, needed, written, answers)
  BY <1>1, <1>3, <1>5, PairedIs
<1>8. /\ Len(M!Norms(written)) = Len(written)
      /\ \A i \in 1 .. Len(written) : M!Norms(written)[i] = written[i].norm
      /\ M!Norms(answers) \in Seq(DOMAIN Words)
      /\ Len(M!Norms(answers)) = Len(answers)
      /\ \A i \in 1 .. Len(answers) : M!Norms(answers)[i] = answers[i].norm
  BY <1>2, <1>3, NormsTyped DEF TextRow
<1>9. ASSUME NEW i \in 1 .. needed
      PROVE  /\ i \in 1 .. Len(written) /\ pair[i] \in 1 .. Len(answers)
             /\ written[i] = answers[pair[i]]
  <2>1. i \in 1 .. Len(written)
    BY <1>1, <1>2, <1>5
  <2> QED
    BY <1>7, <2>1 DEF Pairing
<1>10. Pairing(pair, 1, needed, M!Norms(written), M!Norms(answers))
  <2>1. \A i \in 1 .. needed : M!Norms(written)[i] = M!Norms(answers)[pair[i]]
    BY <1>8, <1>9
  <2> QED
    BY <1>7, <1>8, <2>1 DEF Pairing
<1>11. M!Paired(needed, M!Norms(written), M!Norms(answers))
  BY <1>1, <1>8, <1>10, PairedIs
<1>12. ASSUME limit # 0, NEW i \in 1 .. needed PROVE Words[M!Norms(written)[i]] <= limit
  <2> DEFINE t == answers[pair[i]]
  <2>1. t \in OK /\ t.words <= limit /\ M!Norms(written)[i] = t.norm
    BY <1>3, <1>4, <1>8, <1>9, <1>12
  <2>2. Words[t.norm] \in Nat /\ t.words \in Nat /\ Words[t.norm] <= t.words
    BY <1>1, <2>1 DEF TextRow
  <2> HIDE DEF t
  <2> QED
    BY <1>1, <2>1, <2>2
<1> QED
  BY <1>5, <1>6, <1>8, <1>11, <1>12

\* Hence marks follow the key.
LEMMA MarksFollow == MarkingInv /\ M!MarkedAsKeyed => M!MarksFollowKey
<1> SUFFICES ASSUME MarkingInv, M!MarkedAsKeyed, NEW i \in DOMAIN results,
                    paper.items[i].type.takesLimit \/ paper.items[i].limit = 0
             PROVE  M!KeyEarns(i)
  BY DEF M!MarksFollowKey, M!CappedKeyEarns
<1> DEFINE item == paper.items[i]
<1>1. i \in DOMAIN paper.items
  BY ItemsOK DEF MarkingInv
<1>2. M!ItemOK(item)
  BY <1>1, ItemsOK
<1>3. ~ item.type.rubric => results[i].correct = M!Earned(item)
  BY DEF M!MarkedAsKeyed
<1> QED
  BY <1>2, <1>3, KeyIsEarned DEF M!KeyEarns

-----------------------------------------------------------------------------
(* All parts.                                                              *)

\* What holds of the part that takes steps.
PartsInv ==
    /\ moving \in Parts
    /\ moving = "race" => IInv
    /\ SerialInv
    /\ moving = "marking" => MarkingInv /\ M!MarkedAsKeyed
    /\ HistoryInv

LEMMA PartsInitially == MCInit => PartsInv
<1> SUFFICES ASSUME MCInit PROVE PartsInv
  OBVIOUS
<1>1. moving = "race" => IInv
  BY Initially DEF MCInit, SittingsInit, IInv
<1>2. moving = "marking" => MarkingInv /\ M!MarkedAsKeyed
  <2>1. M!Init => M!MarkedAsKeyed
    <3>1. DOMAIN << >> = {}
      OBVIOUS
    <3> QED
      BY <3>1 DEF M!Init, M!MarkedAsKeyed
  <2> QED
    BY <2>1, MarkingInitially DEF MCInit, MarkingInit
<1>3. HistoryInv
  BY HistoryInitially DEF MCInit
<1> QED
  BY <1>1, <1>2, <1>3, SerialInitially DEF PartsInv, MCInit

LEMMA PartsStep == PartsInv /\ [MCNext]_<<moving, vars, markingVars, history>> => PartsInv'
<1> SUFFICES ASSUME PartsInv, [MCNext]_<<moving, vars, markingVars, history>>
             PROVE  PartsInv'
  OBVIOUS
<1>1. moving' = moving
  BY DEF MCNext
<1>2. ASSUME moving = "race" PROVE IInv'
  BY <1>2, InvStep DEF PartsInv, MCNext
<1>3. ASSUME moving = "marking" PROVE MarkingInv' /\ M!MarkedAsKeyed'
  <2>1. MarkingInv /\ M!MarkedAsKeyed
    BY <1>3 DEF PartsInv
  <2>2. CASE M!MarkItem
    BY <2>1, <2>2, MarkItemOK, MarkItemAsKeyed
  <2>3. CASE M!Finish
    <3>1. paper' = paper /\ results' = results
      BY <2>3 DEF M!Finish
    <3>2. M!MarkedAsKeyed'
      BY <2>1, <3>1 DEF M!MarkedAsKeyed
    <3> QED
      BY <2>1, <2>3, <3>2, FinishOK
  <2>4. CASE UNCHANGED markingVars
    <3>1. MarkingInv'
      BY <2>1, <2>4 DEF MarkingInv, markingVars
    <3>2. paper' = paper /\ results' = results
      BY <2>4 DEF markingVars
    <3>3. M!MarkedAsKeyed'
      BY <2>1, <3>2 DEF M!MarkedAsKeyed
    <3> QED
      BY <3>1, <3>3
  <2> QED
    BY <1>3, <2>2, <2>3, <2>4 DEF MCNext, M!Next
<1>4. HistoryInv'
  <2>1. CASE P!Next
    BY <2>1, HistoryStep DEF PartsInv
  <2>2. CASE UNCHANGED history
    BY <2>2 DEF PartsInv, HistoryInv, P!TypeOK, BandsFollowScores, P!Overall, P!Rounded
  <2> QED
    BY <2>1, <2>2 DEF MCNext
<1>5. SerialInv'
  BY SerialStep DEF PartsInv
<1> QED
  BY <1>1, <1>2, <1>3, <1>4, <1>5 DEF PartsInv

(* On every part the variables hold what its tables and handlers may hold.   *)
THEOREM TypesTheorem == MCSpec => []TypesOK
<1>1. PartsInv => TypesOK
  <2> SUFFICES ASSUME PartsInv PROVE TypesOK
    OBVIOUS
  <2>1. moving \in {"race", "serial", "marking", "bands"}
    BY InstancesOK DEF PartsInv
  <2>2. moving = "race" => TypeOK
    BY DEF PartsInv, IInv, TInv
  <2>3. moving = "serial" => S!TypeOK
    BY DEF PartsInv, SerialInv, SP!IInv, SP!TInv, SP!TypeOK, S!TypeOK,
           SP!AttemptRow, S!AttemptRow, SP!AnswerRow, S!AnswerRow, SP!Stages, S!Stages
  <2>4. moving = "marking" => M!TypeOK
    BY DEF PartsInv, MarkingInv, M!TypeOK
  <2>5. moving = "bands" => P!TypeOK
    BY DEF PartsInv, HistoryInv
  <2> QED
    BY <2>1, <2>2, <2>3, <2>4, <2>5 DEF TypesOK
<1> QED
  BY <1>1, PartsInitially, PartsStep, PTL DEF MCSpec

(* Whatever the papers and their texts, an item earns its marks exactly when *)
(* the first answers, as many as required, keep to the cap and are that many *)
(* different entries of the key; and where the review looks at the cap that  *)
(* the marker looks at, whoever writes what the key says earns them.         *)
THEOREM MarksTheorem == MCSpec => []MarksFollowKey
<1>1. PartsInv => MarksFollowKey
  BY MarksFollow DEF PartsInv, MarksFollowKey
<1> QED
  BY <1>1, PartsInitially, PartsStep, PTL DEF MCSpec

(* Whatever the number of items, nothing right is band 0 and all right band  *)
(* 9, one more right answer never lowers the band, and General Training      *)
(* Reading never gives a higher band than Academic.                          *)
THEOREM BandsInOrderTheorem == MCSpec => []BandsInOrder
<1>1. PartsInv => BandsInOrder
  BY BandsFromTable DEF PartsInv, BandsInOrder
<1> QED
  BY <1>1, PartsInitially, PartsStep, PTL DEF MCSpec

(* However many attempts there are, the band of a skill is the nearest to    *)
(* the mean of the latest ones with a band, and the overall band lies        *)
(* between the lowest and the highest of them.                               *)
THEOREM EstimateTheorem == MCSpec => []EstimateStands
<1>1. PartsInv => EstimateStands
  BY EstimateFollows DEF PartsInv, EstimateStands
<1> QED
  BY <1>1, PartsInitially, PartsStep, PTL DEF MCSpec

(* However many attempts there are, neither an attempt that nobody has marked *)
(* nor a better band in any place of the history lowers the band of its      *)
(* skill, nor the overall band while no new skill enters it.                 *)
THEOREM FallsTheorem == MCSpec => FallsOnlyWithSetback
<1> DEFINE Body == /\ \A k \in P!Sat : (k \in P!Sat)' /\ (P!SkillBand(k)' < P!SkillBand(k) => P!Setbacks(k) # {})
                   /\ P!Sat # {} /\ P!Sat' = P!Sat /\ P!OverallBand(P!Sat)' < P!OverallBand(P!Sat)
                         => \E k \in P!Sat : P!Setbacks(k) # {}
<1>1. PartsInv /\ PartsInv' /\ [MCNext]_<<moving, vars, markingVars, history>>
        => [Body]_(P!vars)
  <2> SUFFICES ASSUME PartsInv, PartsInv', [MCNext]_<<moving, vars, markingVars, history>>
               PROVE  Body
    OBVIOUS
  <2>1. HistoryInv /\ HistoryInv' /\ [P!Next]_history
    BY DEF PartsInv, MCNext
  <2>2. AllGrown
    BY <2>1, StepGrown
  <2>3. ASSUME NEW k \in P!Sat
        PROVE  /\ (k \in P!Sat)' /\ P!SkillBand(k) \in Int /\ P!SkillBand(k)' \in Int
               /\ P!Setbacks(k) = {} => P!SkillBand(k) <= P!SkillBand(k)'
    <3>1. SkillsBanded'
      <4>1. HistoryInv' => SkillsBanded'
        BY SkillsBand, PTL
      <4> QED
        BY <2>1, <4>1
    <3>2. /\ k \in P!Sat'
          /\ P!Setbacks(k) = {} => P!SkillBand(k) <= P!SkillBand(k)'
      BY <2>1, <2>2, SkillRises
    <3>3. P!SkillBand(k)' \in 0 .. 18
      BY <3>1, <3>2 DEF SkillsBanded
    <3>4. P!SkillBand(k) \in 0 .. 18
      BY <2>1, SkillsBand DEF SkillsBanded
    <3> QED
      BY <3>2, <3>3, <3>4
  <2>4. ASSUME P!Sat # {}, P!Sat' = P!Sat, \A k \in P!Sat : P!Setbacks(k) = {}
        PROVE  ~ (P!OverallBand(P!Sat)' < P!OverallBand(P!Sat))
    <3>1. /\ P!OverallBand(P!Sat) \in Int /\ P!OverallBand(P!Sat)' \in Int
          /\ P!OverallBand(P!Sat) <= P!OverallBand(P!Sat)'
      BY <2>1, <2>3, <2>4, OverallRises
    <3> QED
      BY <3>1
  <2>5. \A k \in P!Sat : P!SkillBand(k)' < P!SkillBand(k) => P!Setbacks(k) # {}
    BY <2>3
  <2> QED
    BY <2>3, <2>4, <2>5
<1> QED
  BY <1>1, PartsInitially, PartsStep, PTL DEF MCSpec, Body, FallsOnlyWithSetback, P!FallsOnlyWithSetback

=============================================================================
