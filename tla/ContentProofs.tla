---------------------------- MODULE ContentProofs ----------------------------
(***************************************************************************)
(* Theorems about Content and Slugs, side by side in MCContent, for any     *)
(* tables, bodies and number of requests in flight: the type invariants,    *)
(* the publish gate, the numbers of new items, the positions that a move    *)
(* leaves behind and the addresses of tests.                                *)
(***************************************************************************)
EXTENDS MCContent, FiniteSetTheorems, SequenceTheorems, TLAPS

-----------------------------------------------------------------------------
(* The invariant.                                                            *)

Stages ==
    {"idle", "updateTest", "deleteTest", "createGroup", "groupOrder", "updateGroup",
     "deleteGroup", "number", "createQuestion", "questionOrder", "updateQuestion",
     "deleteQuestion"}

Ids == Groups \cup Questions

\* A handler's locals.
Locals ==
    [pc: Stages, id: Ids \cup {None}, was: TestRow \cup GroupRow \cup QuestionRow \cup {None},
     sets: TestPatches \cup QuestionPatches \cup {None}, to: Nat \cup {None},
     writes: UNION {[D -> Nat] : D \in SUBSET Ids}, pos: Nat, num: Nat \cup {None},
     span: Spans \cup {0}, fresh: BOOLEAN]

\* What each stage of a handler knows of its locals.
LocalsOK(l) ==
    /\ l \in Locals
    /\ l.id \in used \cup {None}
    /\ l.pc = "updateTest" => l.was \in TestRow /\ l.sets \in TestPatches
    /\ l.pc \in {"groupOrder", "updateGroup"} => l.was \in GroupRow /\ l.to \in Nat
    /\ l.pc \in {"questionOrder", "updateQuestion"} => l.was \in QuestionRow /\ l.sets \in QuestionPatches
    /\ l.pc = "questionOrder" => l.to \in Nat
    /\ l.pc \in {"groupOrder", "questionOrder"} => l.id \in Ids
    /\ l.pc \in {"number", "createQuestion"} => l.id \in Groups /\ l.span \in Spans
    /\ l.pc = "number" => l.to = None
    /\ l.pc = "createQuestion" => l.num \in 1..MaxNumber

\* Siblings as the commit of positions to write will leave them.
Renumbered(writes, table, siblings) ==
    [x \in siblings |-> [pos |-> IF x \in DOMAIN writes THEN writes[x] ELSE table[x].pos]]

\* The positions to write leave the siblings contiguous.
Moving(l, table, siblings) ==
    /\ DOMAIN l.writes \subseteq siblings
    /\ l.id \in siblings
    /\ Contiguous(table, Renumbered(l.writes, table, siblings), siblings, l.id, l.to)

\* What a handler that nobody has overtaken knows of the tables: what it read is
\* there still, what it reviewed may be published, what it numbered is free and
\* where it moves rows to is in order.
FreshOK(l) ==
    /\ l.pc = "updateTest" /\ l.sets.status = "published" =>
          test # None /\ l.was = test /\ Publishable
    /\ l.pc = "groupOrder" => l.id \in DOMAIN group /\ group[l.id] = l.was
    /\ l.pc = "updateGroup" => Moving(l, group, DOMAIN group)
    /\ l.pc = "questionOrder" => l.id \in DOMAIN question /\ question[l.id] = l.was
    /\ l.pc = "updateQuestion" /\ l.to # None =>
          Moving(l, question, QuestionsIn(l.was.group))
    /\ l.pc = "createQuestion" /\ l.to = None =>
          \A j \in DOMAIN question : \A n \in Covered(j) : n < l.num

TablesOK ==
    /\ test \in TestRow \cup {None}
    /\ DOMAIN group \subseteq Groups /\ IsFiniteSet(DOMAIN group)
    /\ group \in [DOMAIN group -> GroupRow]
    /\ DOMAIN question \subseteq Questions /\ IsFiniteSet(DOMAIN question)
    /\ question \in [DOMAIN question -> QuestionRow]
    /\ DOMAIN group \cup DOMAIN question \subseteq used
    /\ test = None => group = Empty
    /\ \A i \in DOMAIN question : question[i].group \in DOMAIN group

HandlersOK ==
    /\ req \in [Reqs -> Locals]
    /\ \A q \in Reqs : LocalsOK(req[q])
    /\ \A q \in Reqs : req[q].fresh => FreshOK(req[q])

IInv == TablesOK /\ HandlersOK

-----------------------------------------------------------------------------
(* Numbers.                                                                  *)

\* Every set of numbers has a least one.
LEMMA LeastNumber ==
    ASSUME NEW T \in SUBSET Nat, T # {}
    PROVE  \E x \in T : \A y \in T : x <= y
<1> DEFINE Less == {p \in Nat \X Nat : p[1] < p[2]}
<1>1. IsWellFoundedOn(Less, Nat)
  BY NatLessThanWellFounded, Zenon DEF OpToRel
<1>2. \E x \in T : \A y \in T : ~ (<<y, x>> \in Less)
  <2> HIDE DEF Less
  <2> QED
    BY <1>1, WFMin
<1>3. PICK x \in T : \A y \in T : <<y, x>> \notin Less
  BY <1>2
<1>4. ASSUME NEW y \in T PROVE x <= y
  <2>1. x \in Nat /\ y \in Nat /\ ~ (y < x)
    BY <1>3
  <2> QED
    BY <2>1
<1> QED
  BY <1>4

\* A bounded set of numbers has a greatest one, which Max is.
LEMMA GreatestNumber ==
    ASSUME NEW n \in Nat, NEW T \in SUBSET (0..n), T # {}
    PROVE  Max(T) \in T /\ \A y \in T : y <= Max(T)
<1> DEFINE U == {m \in 0..n : n - m \in T}
<1>1. U \in SUBSET Nat /\ U # {}
  <2>1. PICK x \in T : TRUE
    OBVIOUS
  <2>2. n - x \in 0..n /\ n - (n - x) = x
    BY <2>1
  <2>3. n - x \in U
    BY <2>1, <2>2
  <2>4. U \subseteq Nat
    OBVIOUS
  <2> HIDE DEF U
  <2> QED
    BY <2>3, <2>4
<1>2. PICK m \in U : \A y \in U : m <= y
  <2> HIDE DEF U
  <2> QED
    BY <1>1, LeastNumber
<1>3. ASSUME NEW y \in T PROVE n - m >= y
  <2>1. n - y \in U
    OBVIOUS
  <2> QED
    BY <1>2, <2>1
<1>4. n - m \in T
  BY <1>2
<1> HIDE DEF U
<1>5. Max(T) \in T /\ \A y \in T : Max(T) >= y
  BY <1>3, <1>4 DEF Max
<1> QED
  BY <1>5

\* The lesser of two numbers.
LEMMA LesserOfTwo ==
    ASSUME NEW a \in Int, NEW b \in Int
    PROVE  Min({a, b}) = IF a <= b THEN a ELSE b
<1> PICK m : m = IF a <= b THEN a ELSE b
  OBVIOUS
<1>1. m \in {a, b} /\ \A y \in {a, b} : m <= y
  OBVIOUS
<1>2. \A x \in {a, b} : (\A y \in {a, b} : x <= y) => x = m
  BY <1>1
<1> QED
  BY <1>1, <1>2 DEF Min

\* A function from a finite set to the numbers has a bound.
LEMMA FiniteBound ==
    ASSUME NEW X, IsFiniteSet(X), NEW f \in [X -> Nat]
    PROVE  \E b \in Nat : \A x \in X : f[x] <= b
<1>1. PICK n \in Nat : ExistsSurjection(1..n, X)
  BY FS_NatSurjection
<1>2. PICK g \in [1..n -> X] : \A x \in X : \E k \in 1..n : g[k] = x
  BY <1>1 DEF ExistsSurjection, Surjection
<1> DEFINE Bounded(m) == \E b \in Nat : \A k \in 1..m : f[g[k]] <= b
           T == {m \in 0..n : ~ Bounded(m)}
<1>3. T = {}
  <2> SUFFICES ASSUME T # {} PROVE FALSE
    OBVIOUS
  <2>1. PICK m \in T : \A y \in T : m <= y
    <3>1. T \in SUBSET Nat
      OBVIOUS
    <3> HIDE DEF T
    <3> QED
      BY <3>1, LeastNumber
  <2>2. m # 0
    <3>1. \A k \in 1..0 : f[g[k]] <= 0
      OBVIOUS
    <3>2. Bounded(0)
      BY <3>1
    <3> QED
      BY <2>1, <3>2
  <2>3. m - 1 \in 0..n /\ ~ (m <= m - 1)
    BY <2>1, <2>2
  <2>4. PICK b \in Nat : \A k \in 1..(m-1) : f[g[k]] <= b
    BY <2>1, <2>3
  <2>5. m \in 1..n
    BY <2>1, <2>2
  <2>6. f[g[m]] \in Nat
    BY <1>2, <2>5
  <2>7. \E c \in Nat : b <= c /\ f[g[m]] <= c
    <3>1. ASSUME NEW d \in Nat PROVE \E c \in Nat : b <= c /\ d <= c
      <4>1. b + d \in Nat /\ b <= b + d /\ d <= b + d
        OBVIOUS
      <4> QED
        BY <4>1
    <3> QED
      BY <2>6, <3>1
  <2>7a. PICK c \in Nat : b <= c /\ f[g[m]] <= c
    BY <2>7
  <2>8. ASSUME NEW k \in 1..m PROVE f[g[k]] <= c
    <3>1. CASE k = m
      BY <2>7a, <3>1
    <3>2. CASE k # m
      <4>1. k \in 1..(m-1) /\ f[g[k]] \in Nat
        BY <1>2, <2>5, <3>2
      <4> QED
        BY <2>4, <2>7a, <4>1
    <3> QED
      BY <3>1, <3>2
  <2>9. Bounded(m)
    BY <2>8
  <2> QED
    BY <2>1, <2>9
<1>4. Bounded(n)
  <2>1. n \in 0..n
    OBVIOUS
  <2> QED
    BY <1>3, <2>1
<1> QED
  BY <1>2, <1>4

\* LastNumber lies at or behind every number that an item covers.
LEMMA LastNumberOK ==
    ASSUME TablesOK
    PROVE  LastNumber \in Nat /\ \A j \in DOMAIN question : \A n \in Covered(j) : n <= LastNumber
<1> DEFINE ends == [i \in DOMAIN question |-> question[i].num + question[i].span]
           numbers == {0} \cup UNION {Covered(i) : i \in DOMAIN question}
<1>1. \A i \in DOMAIN question : question[i].num \in Nat /\ question[i].span \in Nat
  BY ContentAssumption DEF TablesOK, QuestionRow
<1>2. ends \in [DOMAIN question -> Nat]
  BY <1>1
<1>3. PICK b \in Nat : \A i \in DOMAIN question : ends[i] <= b
  <2> HIDE DEF ends
  <2> QED
    BY <1>2, FiniteBound DEF TablesOK
<1>4. ASSUME NEW i \in DOMAIN question, NEW n \in Covered(i) PROVE n \in 0..b
  <2>1. n \in question[i].num .. (question[i].num + question[i].span - 1)
    BY DEF Covered
  <2>2. question[i].num + question[i].span <= b
    BY <1>3
  <2> QED
    BY <1>1, <2>1, <2>2
<1>5. numbers \in SUBSET (0..b) /\ 0 \in numbers
  <2>1. ASSUME NEW n \in numbers PROVE n \in 0..b
    <3>1. n = 0 \/ \E i \in DOMAIN question : n \in Covered(i)
      OBVIOUS
    <3>2. 0 \in 0..b
      OBVIOUS
    <3> QED
      BY <1>4, <3>1, <3>2
  <2>2. 0 \in numbers
    OBVIOUS
  <2> HIDE DEF numbers
  <2> QED
    BY <2>1, <2>2
<1>6. \A j \in DOMAIN question : Covered(j) \subseteq numbers
  OBVIOUS
<1> HIDE DEF numbers
<1>7. Max(numbers) \in numbers /\ \A n \in numbers : n <= Max(numbers)
  BY <1>5, GreatestNumber
<1>8. LastNumber = Max(numbers)
  BY DEF LastNumber, numbers
<1>9. Max(numbers) \in Nat
  <2>1. Max(numbers) \in 0..b
    BY <1>5, <1>7
  <2> QED
    BY <2>1
<1>10. ASSUME NEW j \in DOMAIN question, NEW n \in Covered(j) PROVE n <= LastNumber
  <2>1. n \in numbers
    BY <1>6
  <2> QED
    BY <1>7, <1>8, <2>1
<1> QED
  BY <1>8, <1>9, <1>10

-----------------------------------------------------------------------------
(* Moving a row to a place.                                                  *)

\* Where a row stands in an order, counted from 0.
PlaceIn(order, x) == (CHOOSE n \in DOMAIN order : order[n] = x) - 1

\* An order of finitely many rows names each of them once.
LEMMA OrderIsComplete ==
    ASSUME NEW ids, IsFiniteSet(ids), NEW s \in SetToSeqs(ids)
    PROVE  LET n == Cardinality(ids)
           IN  /\ n \in Nat
               /\ s \in [1..n -> ids]
               /\ \A i, j \in 1..n : i # j => s[i] # s[j]
               /\ \A x \in ids : \E i \in 1..n : s[i] = x
<1> PICK n : n = Cardinality(ids)
  OBVIOUS
<1>0. n \in Nat
  BY FS_CardinalityType
<1>1. s \in [1..n -> ids] /\ \A i, j \in 1..n : i # j => s[i] # s[j]
  BY DEF SetToSeqs
<1>2. s \in Injection(1..n, ids)
  BY <1>1 DEF Injection, IsInjective
<1>3. Cardinality(1..n) = n
  BY <1>0, FS_Interval
<1>4. s \in Surjection(1..n, ids)
  BY <1>2, <1>3, FS_Injection
<1> QED
  BY <1>0, <1>1, <1>4 DEF Surjection

\* The place that a row is put in among others, counted from 1.
PlaceFor(ids, to) == IF to <= Cardinality(ids) THEN to + 1 ELSE Cardinality(ids) + 1

\* _reorder puts the row at its place and pushes what follows back by one.
LEMMA InsertedOrder ==
    ASSUME NEW ids, IsFiniteSet(ids), NEW s \in SetToSeqs(ids), NEW id, NEW to \in Nat
    PROVE  LET order == Inserted(s, id, to)
               n == Cardinality(ids)
               at == PlaceFor(ids, to)
           IN  /\ DOMAIN order = 1..(n + 1)
               /\ \A k \in 1..(n + 1) :
                     order[k] = IF k < at THEN s[k] ELSE IF k = at THEN id ELSE s[k-1]
<1> PICK order : order = Inserted(s, id, to)
  OBVIOUS
<1> PICK n : n = Cardinality(ids)
  OBVIOUS
<1> PICK at : at = PlaceFor(ids, to)
  OBVIOUS
<1>0. n \in Nat /\ s \in [1..n -> ids]
  BY OrderIsComplete
<1> DEFINE all == ids \cup {id}
           front == SubSeq(s, 1, at - 1)
           back == SubSeq(s, at, n)
<1>1. at \in 1..(n + 1) /\ Min({to, n}) + 1 = at
  BY <1>0, LesserOfTwo DEF PlaceFor
<1>2. s \in Seq(all) /\ Len(s) = n
  BY <1>0
<1>3. /\ front \in Seq(all) /\ Len(front) = at - 1
      /\ \A k \in 1..(at - 1) : front[k] = s[k]
  <2>1. at - 1 \in 0..n
    BY <1>0, <1>1
  <2>2. front = [k \in 1..(at - 1) |-> s[k]]
    BY <1>0, <1>1, <1>2, <2>1
  <2>3. \A k \in 1..(at - 1) : s[k] \in all
    BY <1>0, <2>1
  <2> HIDE DEF front, all
  <2> QED
    BY <2>1, <2>2, <2>3
<1>4. /\ back \in Seq(all) /\ Len(back) = n + 1 - at
      /\ \A k \in 1..(n + 1 - at) : back[k] = s[k + at - 1]
  <2>1. n + 1 - at \in 0..n
    BY <1>0, <1>1
  <2>2. back = [k \in 1..(n + 1 - at) |-> s[k + at - 1]]
    <3>1. back = [k \in 1..(n - at + 1) |-> s[at + k - 1]]
      BY <1>0, <1>1, <1>2
    <3>2. n - at + 1 = n + 1 - at /\ \A k \in Int : at + k - 1 = k + at - 1
      BY <1>0, <1>1
    <3> QED
      BY <3>1, <3>2
  <2>3. \A k \in 1..(n + 1 - at) : s[k + at - 1] \in all
    <3>1. \A k \in 1..(n + 1 - at) : k + at - 1 \in 1..n
      BY <1>0, <1>1
    <3> QED
      BY <1>0, <3>1
  <2> HIDE DEF back, all
  <2> QED
    BY <2>1, <2>2, <2>3
<1>5. Inserted(s, id, to) = (front \o <<id>>) \o back
  BY <1>0, <1>1, <1>2 DEF Inserted, InsertAt
<1> HIDE DEF front, back
<1>6. <<id>> \in Seq(all) /\ Len(<<id>>) = 1 /\ <<id>>[1] = id
  OBVIOUS
<1> HIDE DEF all
<1>7. /\ front \o <<id>> \in Seq(all) /\ Len(front \o <<id>>) = at
      /\ \A k \in 1..at : (front \o <<id>>)[k] = IF k <= at - 1 THEN front[k] ELSE id
  <2>1. /\ front \o <<id>> \in Seq(all) /\ Len(front \o <<id>>) = (at - 1) + 1
        /\ \A k \in 1..((at - 1) + 1) :
              (front \o <<id>>)[k] = IF k <= at - 1 THEN front[k] ELSE <<id>>[k - (at - 1)]
    BY <1>3, <1>6, ConcatProperties
  <2>2. (at - 1) + 1 = at /\ \A k \in 1..at : ~ (k <= at - 1) => k - (at - 1) = 1
    BY <1>0, <1>1
  <2> QED
    BY <1>6, <2>1, <2>2
<1>8. /\ (front \o <<id>>) \o back \in Seq(all)
      /\ Len((front \o <<id>>) \o back) = n + 1
      /\ \A k \in 1..(n + 1) : ((front \o <<id>>) \o back)[k] =
             IF k <= at THEN (front \o <<id>>)[k] ELSE back[k - at]
  <2>1. /\ (front \o <<id>>) \o back \in Seq(all)
        /\ Len((front \o <<id>>) \o back) = at + (n + 1 - at)
        /\ \A k \in 1..(at + (n + 1 - at)) : ((front \o <<id>>) \o back)[k] =
               IF k <= at THEN (front \o <<id>>)[k] ELSE back[k - at]
    <3> PICK start : start = front \o <<id>>
      OBVIOUS
    <3>1. start \in Seq(all) /\ back \in Seq(all)
      BY <1>4, <1>7
    <3>2. /\ start \o back \in Seq(all)
          /\ Len(start \o back) = Len(start) + Len(back)
          /\ \A k \in 1..(Len(start) + Len(back)) : (start \o back)[k] =
                 IF k <= Len(start) THEN start[k] ELSE back[k - Len(start)]
      BY <3>1, ConcatProperties
    <3> QED
      BY <1>4, <1>7, <3>2
  <2>2. at + (n + 1 - at) = n + 1
    BY <1>0, <1>1
  <2> QED
    BY <2>1, <2>2
<1>9. /\ order \in Seq(all) /\ Len(order) = n + 1
      /\ \A k \in 1..(n + 1) :
            order[k] = IF k <= at THEN (front \o <<id>>)[k] ELSE back[k - at]
  BY <1>5, <1>8
<1>10. ASSUME NEW k \in 1..(n + 1)
       PROVE  order[k] = IF k < at THEN s[k] ELSE IF k = at THEN id ELSE s[k-1]
  <2>1. CASE k < at
    <3>1. k \in 1..(at - 1) /\ k <= at - 1 /\ k \in 1..at /\ k <= at
      BY <1>0, <1>1, <2>1
    <3> QED
      BY <1>3, <1>7, <1>9, <2>1, <3>1
  <2>2. CASE k = at
    <3>1. k \in 1..at /\ ~ (k <= at - 1) /\ k <= at /\ ~ (k < at)
      BY <1>0, <1>1, <2>2
    <3> QED
      BY <1>7, <1>9, <2>2, <3>1
  <2>3. CASE k > at
    <3>1. /\ k - at \in 1..(n + 1 - at) /\ ~ (k <= at) /\ ~ (k < at) /\ k # at
          /\ (k - at) + at - 1 = k - 1
      BY <1>0, <1>1, <2>3
    <3>2. back[k - at] = s[k - 1]
      BY <1>4, <3>1
    <3> QED
      BY <1>9, <3>1, <3>2
  <2>4. k < at \/ k = at \/ k > at
    BY <1>0, <1>1
  <2> QED
    BY <2>1, <2>2, <2>3, <2>4
<1>11. DOMAIN order = 1..(n + 1)
  BY <1>9
<1> QED
  BY <1>10, <1>11

\* In the order that a move makes, every row has a place of its own, the row that
\* moves has the one asked for, and the others follow one another as before.
LEMMA PlacesInserted ==
    ASSUME NEW ids, IsFiniteSet(ids), NEW s \in SetToSeqs(ids),
           NEW id, id \notin ids, NEW to \in Nat
    PROVE  LET order == Inserted(s, id, to)
               n == Cardinality(ids)
               at == PlaceFor(ids, to)
           IN  /\ ToSet(order) = ids \cup {id}
               /\ {PlaceIn(order, x) : x \in ids \cup {id}} = 0..n
               /\ PlaceIn(order, id) = at - 1
               /\ \A i \in 1..n : PlaceIn(order, s[i]) = IF i < at THEN i - 1 ELSE i
<1> PICK order : order = Inserted(s, id, to)
  OBVIOUS
<1> PICK n : n = Cardinality(ids)
  OBVIOUS
<1> PICK at : at = PlaceFor(ids, to)
  OBVIOUS
<1>1. /\ n \in Nat
      /\ s \in [1..n -> ids]
      /\ \A i, j \in 1..n : i # j => s[i] # s[j]
      /\ \A x \in ids : \E i \in 1..n : s[i] = x
  BY OrderIsComplete
<1>2. at \in 1..(n + 1)
  BY <1>1 DEF PlaceFor
<1>3. /\ DOMAIN order = 1..(n + 1)
      /\ \A k \in 1..(n + 1) :
            order[k] = IF k < at THEN s[k] ELSE IF k = at THEN id ELSE s[k-1]
  BY InsertedOrder
<1>4. ASSUME NEW k \in 1..(n + 1)
      PROVE  \/ k < at /\ k \in 1..n /\ order[k] = s[k]
             \/ k = at /\ order[k] = id
             \/ k > at /\ k - 1 \in 1..n /\ order[k] = s[k-1]
  <2>1. \/ k < at /\ k \in 1..n
        \/ k = at /\ ~ (k < at)
        \/ k > at /\ k - 1 \in 1..n /\ ~ (k < at) /\ k # at
    BY <1>1, <1>2
  <2> QED
    BY <1>3, <2>1
<1>5. ASSUME NEW k \in 1..(n + 1), NEW m \in 1..(n + 1), order[k] = order[m]
      PROVE  k = m
  <2>1. \A i \in 1..n : s[i] # id
    BY <1>1
  <2>2. \A i, j \in 1..n : s[i] = s[j] => i = j
    BY <1>1
  <2>3. CASE order[k] = id
    <3>1. k = at /\ m = at
      BY <1>4, <1>5, <2>1, <2>3
    <3> QED
      BY <3>1
  <2>4. CASE order[k] # id
    <3>1. PICK i \in 1..n : order[k] = s[i] /\ ((k < at /\ i = k) \/ (k > at /\ i = k - 1))
      BY <1>4, <2>4
    <3>2. PICK j \in 1..n : order[m] = s[j] /\ ((m < at /\ j = m) \/ (m > at /\ j = m - 1))
      BY <1>4, <1>5, <2>4
    <3>3. i = j
      BY <1>5, <2>2, <3>1, <3>2
    <3> QED
      BY <1>1, <1>2, <3>1, <3>2, <3>3
  <2> QED
    BY <2>3, <2>4
<1>6. ASSUME NEW k \in 1..(n + 1) PROVE PlaceIn(order, order[k]) = k - 1
  <2>1. \A m \in DOMAIN order : order[m] = order[k] => m = k
    BY <1>3, <1>5
  <2>2. (CHOOSE m \in DOMAIN order : order[m] = order[k]) = k
    BY <1>3, <2>1
  <2> QED
    BY <2>2 DEF PlaceIn
<1>7. at \in 1..(n + 1) /\ order[at] = id
  BY <1>1, <1>2, <1>3
<1>8. ASSUME NEW i \in 1..n
      PROVE  LET k == IF i < at THEN i ELSE i + 1 IN k \in 1..(n + 1) /\ order[k] = s[i]
  <2>1. CASE i < at
    <3>1. i \in 1..(n + 1)
      BY <1>1
    <3> QED
      BY <1>3, <2>1, <3>1
  <2>2. CASE ~ (i < at)
    <3>1. i + 1 \in 1..(n + 1) /\ ~ (i + 1 < at) /\ i + 1 # at /\ (i + 1) - 1 = i
      BY <1>1, <1>2, <2>2
    <3>2. order[i + 1] = s[i]
      BY <1>3, <3>1
    <3> QED
      BY <2>2, <3>1, <3>2
  <2> QED
    BY <2>1, <2>2
<1>9. ToSet(order) = ids \cup {id}
  <2>1. ASSUME NEW x \in ToSet(order) PROVE x \in ids \cup {id}
    <3>1. PICK k \in 1..(n + 1) : order[k] = x
      BY <1>3 DEF ToSet
    <3> QED
      BY <1>1, <1>4, <3>1
  <2>2. ASSUME NEW x \in ids \cup {id} PROVE \E k \in 1..(n + 1) : order[k] = x
    <3>1. CASE x = id
      BY <1>7, <3>1
    <3>2. CASE x \in ids
      BY <1>1, <1>8, <3>2
    <3> QED
      BY <3>1, <3>2
  <2> QED
    BY <1>3, <2>1, <2>2 DEF ToSet
<1>10. {PlaceIn(order, x) : x \in ids \cup {id}} = 0..n
  <2>1. ASSUME NEW x \in ids \cup {id} PROVE PlaceIn(order, x) \in 0..n
    <3>1. PICK k \in 1..(n + 1) : order[k] = x
      BY <1>3, <1>9 DEF ToSet
    <3>2. PlaceIn(order, x) = k - 1
      BY <1>6, <3>1
    <3> QED
      BY <1>1, <3>2
  <2>2. ASSUME NEW p \in 0..n PROVE \E x \in ids \cup {id} : PlaceIn(order, x) = p
    <3>1. p + 1 \in 1..(n + 1) /\ (p + 1) - 1 = p
      BY <1>1
    <3>2. order[p + 1] \in ids \cup {id}
      BY <1>3, <1>9, <3>1 DEF ToSet
    <3>3. PlaceIn(order, order[p + 1]) = p
      BY <1>6, <3>1
    <3> QED
      BY <3>2, <3>3
  <2> QED
    BY <2>1, <2>2
<1>11. PlaceIn(order, id) = at - 1
  BY <1>6, <1>7
<1>12. ASSUME NEW i \in 1..n
       PROVE  PlaceIn(order, s[i]) = IF i < at THEN i - 1 ELSE i
  <2>1. CASE i < at
    <3>1. i \in 1..(n + 1) /\ order[i] = s[i]
      BY <1>8, <2>1
    <3> QED
      BY <1>6, <2>1, <3>1
  <2>2. CASE ~ (i < at)
    <3>1. i + 1 \in 1..(n + 1) /\ order[i + 1] = s[i] /\ (i + 1) - 1 = i
      BY <1>1, <1>8, <2>2
    <3>2. PlaceIn(order, order[i + 1]) = i
      BY <1>6, <3>1
    <3> QED
      BY <2>2, <3>1, <3>2
  <2> QED
    BY <2>1, <2>2
<1> QED
  BY <1>9, <1>10, <1>11, <1>12

\* What _reorder writes: the places of the rows that were not loaded with theirs.
Loaded(l, table, x) == IF x = l.id THEN l.was.pos ELSE table[x].pos
Written(l, table, order) ==
    [x \in {y \in ToSet(order) : PlaceIn(order, y) # Loaded(l, table, y)} |-> PlaceIn(order, x)]

\* What is written are numbers, and if what was loaded still stands they put the
\* siblings in order.
LEMMA WrittenMoves ==
    ASSUME NEW table, NEW others, NEW l, NEW to \in Nat, NEW id, l.id = id,
           IsFiniteSet(others), id \notin others, \A x \in others : table[x].pos \in Nat,
           NEW s \in InOrder(table, others)
    PROVE  LET w == Written(l, table, Inserted(s, id, to))
               siblings == others \cup {id}
           IN  /\ DOMAIN w \subseteq siblings
               /\ w \in [DOMAIN w -> Nat]
               /\ table[id].pos = l.was.pos =>
                     Contiguous(table, Renumbered(w, table, siblings), siblings, id, to)
<1>2. s \in SetToSeqs(others) /\ \A m, n \in DOMAIN s : m < n => table[s[m]].pos <= table[s[n]].pos
  BY DEF InOrder
<1> PICK order : order = Inserted(s, id, to)
  OBVIOUS
<1> PICK n : n = Cardinality(others)
  OBVIOUS
<1> PICK at : at = PlaceFor(others, to)
  OBVIOUS
<1>4. /\ n \in Nat
      /\ s \in [1..n -> others]
      /\ \A x \in others : \E i \in 1..n : s[i] = x
  BY <1>2, OrderIsComplete
<1>5. /\ ToSet(order) = others \cup {id}
      /\ {PlaceIn(order, x) : x \in others \cup {id}} = 0..n
      /\ PlaceIn(order, id) = at - 1
      /\ \A i \in 1..n : PlaceIn(order, s[i]) = IF i < at THEN i - 1 ELSE i
  BY <1>2, PlacesInserted
<1> PICK w : w = Written(l, table, order)
  OBVIOUS
<1>6. /\ DOMAIN w = {y \in others \cup {id} : PlaceIn(order, y) # Loaded(l, table, y)}
      /\ \A x \in DOMAIN w : w[x] = PlaceIn(order, x)
      /\ w = [x \in DOMAIN w |-> PlaceIn(order, x)]
  BY <1>5 DEF Written
<1>7. \A x \in others \cup {id} : PlaceIn(order, x) \in Nat
  BY <1>4, <1>5
<1>8. w \in [DOMAIN w -> Nat]
  <2>1. \A x \in DOMAIN w : w[x] \in Nat
    BY <1>6, <1>7
  <2> QED
    BY <1>6, <2>1
<1>9. ASSUME table[id].pos = l.was.pos, NEW siblings, siblings = others \cup {id},
             NEW new, new = Renumbered(w, table, siblings)
      PROVE  Contiguous(table, new, siblings, id, to)
  <2>1. siblings = others \cup {id}
    BY <1>9
  <2>2. Cardinality(siblings) = n + 1
    BY <2>1, FS_AddElement
  <2>3. ASSUME NEW x \in siblings PROVE new[x].pos = PlaceIn(order, x)
    <3>1. new[x].pos = IF x \in DOMAIN w THEN w[x] ELSE table[x].pos
      BY <1>9 DEF Renumbered
    <3>2. Loaded(l, table, x) = table[x].pos
      BY <1>9 DEF Loaded
    <3> QED
      BY <1>6, <2>1, <3>1, <3>2
  <2>4. {new[x].pos : x \in siblings} = 0..(Cardinality(siblings) - 1)
    <3>1. {new[x].pos : x \in siblings} = {PlaceIn(order, x) : x \in siblings}
      BY <2>3
    <3>2. (n + 1) - 1 = n
      BY <1>4
    <3> QED
      BY <1>5, <2>1, <2>2, <3>1, <3>2
  <2>5. new[id].pos = Min({to, Cardinality(siblings) - 1})
    <3>1. Cardinality(siblings) - 1 = n
      BY <1>4, <2>2
    <3>2. Min({to, n}) = IF to <= n THEN to ELSE n
      <4>1. to \in Int /\ n \in Int
        BY <1>4
      <4> QED
        BY <4>1, LesserOfTwo, Zenon
    <3>3. Min({to, n}) = at - 1
      BY <1>4, <3>2 DEF PlaceFor
    <3> QED
      BY <1>5, <1>9, <2>3, <3>1, <3>3
  <2>6. ASSUME NEW x \in siblings \ {id}, NEW y \in siblings \ {id},
               table[x].pos < table[y].pos
        PROVE  new[x].pos < new[y].pos
    <3>0. x \in others /\ y \in others
      BY <2>1
    <3>1. PICK i \in 1..n : s[i] = x
      BY <1>4, <3>0
    <3>2. PICK j \in 1..n : s[j] = y
      BY <1>4, <3>0
    <3>3. table[x].pos \in Nat /\ table[y].pos \in Nat
      BY <3>0
    <3>4. DOMAIN s = 1..n
      BY <1>4
    <3>5. ~ (j < i) /\ i # j
      <4>1. j < i => table[y].pos <= table[x].pos
        BY <1>2, <3>1, <3>2, <3>4
      <4>2. i # j
        BY <2>6, <3>1, <3>2, <3>3
      <4> QED
        BY <2>6, <3>3, <4>1, <4>2
    <3>6. i < j
      BY <3>5
    <3>7. /\ new[x].pos = IF i < at THEN i - 1 ELSE i
          /\ new[y].pos = IF j < at THEN j - 1 ELSE j
      BY <1>5, <2>3, <3>1, <3>2
    <3>8. at \in Nat
      BY <1>4 DEF PlaceFor
    <3> QED
      BY <1>4, <3>6, <3>7, <3>8
  <2> QED
    BY <2>4, <2>5, <2>6 DEF Contiguous
<1>10. DOMAIN w \subseteq others \cup {id}
  BY <1>6
<1> QED
  BY <1>8, <1>9, <1>10

MovedBy(q, table, siblings, next, w) ==
    LET l == req[q]
    IN  /\ req' = [req EXCEPT ![q] = [l EXCEPT !.pc = next, !.writes = w]]
        /\ DOMAIN w \subseteq siblings \cup {l.id}
        /\ w \in [DOMAIN w -> Nat]
        /\ (l.id \in siblings /\ table[l.id].pos = l.was.pos) =>
              Contiguous(table, Renumbered(w, table, siblings), siblings, l.id, l.to)

\* A move writes numbers, to rows among the siblings and to the row itself; when
\* what it loaded still stands, those positions put the siblings in order.
LEMMA RenumberMoves ==
    ASSUME NEW q, NEW table, NEW siblings, NEW next,
           IsFiniteSet(siblings), \A x \in siblings : table[x].pos \in Nat,
           req[q].to \in Nat, Renumber(q, table, siblings, next)
    PROVE  \E w : MovedBy(q, table, siblings, next, w)
<1> PICK l : l = req[q]
  OBVIOUS
<1> PICK to \in Nat : to = l.to
  OBVIOUS
<1> PICK id : id = l.id
  OBVIOUS
<1>0. \E s \in InOrder(table, siblings \ {req[q].id}) :
         req' = [req EXCEPT ![q] = [req[q] EXCEPT !.pc = next,
                    !.writes = Written(req[q], table, Inserted(s, req[q].id, req[q].to))]]
  BY Zenon DEF Renumber, Goes, PlaceIn, Written, Loaded
<1>1. PICK s \in InOrder(table, siblings \ {id}) :
         req' = [req EXCEPT ![q] = [l EXCEPT !.pc = next,
                                             !.writes = Written(l, table, Inserted(s, id, to))]]
  BY <1>0
<1>3. PICK others : others = siblings \ {id}
  OBVIOUS
<1>4. /\ IsFiniteSet(others) /\ id \notin others /\ s \in InOrder(table, others)
      /\ \A x \in others : table[x].pos \in Nat
  BY <1>3, FS_Subset
<1>5. others \cup {id} = siblings \cup {id} /\ (id \in siblings => siblings = others \cup {id})
  BY <1>3
<1> PICK w : w = Written(l, table, Inserted(s, id, to))
  OBVIOUS
<1>6. /\ DOMAIN w \subseteq others \cup {id}
      /\ w \in [DOMAIN w -> Nat]
      /\ table[id].pos = l.was.pos =>
            Contiguous(table, Renumbered(w, table, others \cup {id}), others \cup {id}, id, to)
  <2>1. DOMAIN w \subseteq others \cup {id}
    <3>1. ASSUME NEW y \in DOMAIN w PROVE y \in others \cup {id}
      BY <1>4, WrittenMoves
    <3> QED
      BY <3>1
  <2>2. w \in [DOMAIN w -> Nat]
    BY <1>4, WrittenMoves
  <2>3. ASSUME table[id].pos = l.was.pos
        PROVE  Contiguous(table, Renumbered(w, table, others \cup {id}), others \cup {id}, id, to)
    BY <1>4, <2>3, WrittenMoves
  <2> QED
    BY <2>1, <2>2, <2>3
<1>7. req' = [req EXCEPT ![q] = [l EXCEPT !.pc = next, !.writes = w]]
  BY <1>1
<1>8. DOMAIN w \subseteq siblings \cup {id}
  BY <1>5, <1>6
<1>9. (id \in siblings /\ table[id].pos = l.was.pos) =>
         Contiguous(table, Renumbered(w, table, siblings), siblings, id, to)
  BY <1>5, <1>6
<1>10. MovedBy(q, table, siblings, next, w)
  BY <1>6, <1>7, <1>8, <1>9 DEF MovedBy
<1> QED
  BY <1>10

-----------------------------------------------------------------------------
(* Every step keeps the invariant.                                           *)

LEMMA IdleOK ==
    ASSUME NEW l, l = Idle
    PROVE  LocalsOK(l) /\ FreshOK(l) /\ l.id = None /\ l.fresh = TRUE
<1>1. Empty \in [{} -> Nat]
  BY DEF Empty
<1>2. Empty \in UNION {[D -> Nat] : D \in SUBSET Ids}
  BY <1>1
<1>3. l \in Locals
  BY <1>2 DEF Idle, Locals, Stages
<1>4. l.pc = "idle" /\ l.id = None /\ l.fresh = TRUE
  BY DEF Idle
<1>5. LocalsOK(l)
  BY <1>3, <1>4 DEF LocalsOK
<1>6. FreshOK(l)
  BY <1>4 DEF FreshOK
<1> QED
  BY <1>4, <1>5, <1>6

\* What a handler knows of tables that do not change.
LEMMA Unmoved ==
    ASSUME UNCHANGED <<test, group, question, used>>, NEW l
    PROVE  (LocalsOK(l)' <=> LocalsOK(l)) /\ (FreshOK(l)' <=> FreshOK(l))
<1> QED
  BY DEF LocalsOK, FreshOK, Publishable, Moving, Contiguous, Renumbered, QuestionsIn, Covered

\* A step that leaves the tables alone.
LEMMA GoesKeeps ==
    ASSUME IInv, NEW q \in Reqs, NEW l, LocalsOK(l), l.fresh => FreshOK(l), Goes(q, l),
           UNCHANGED <<test, group, question, used>>
    PROVE  IInv'
<1>1. TablesOK'
  BY DEF IInv, TablesOK
<1>2. req' \in [Reqs -> Locals] /\ \A r \in Reqs : req'[r] = IF r = q THEN l ELSE req[r]
  BY DEF IInv, HandlersOK, Goes, LocalsOK
<1>4. ASSUME NEW r \in Reqs PROVE LocalsOK(req[r])' /\ (req[r].fresh => FreshOK(req[r]))'
  <2> PICK m : m = req'[r]
    OBVIOUS
  <2>1. LocalsOK(m) /\ (m.fresh => FreshOK(m))
    <3>1. LocalsOK(req[r]) /\ (req[r].fresh => FreshOK(req[r]))
      BY DEF IInv, HandlersOK
    <3> QED
      BY <1>2, <3>1
  <2>2. LocalsOK(m)' /\ (m.fresh => FreshOK(m)')
    BY <2>1, Unmoved
  <2> QED
    BY <2>2
<1> QED
  BY <1>1, <1>2, <1>4 DEF IInv, HandlersOK

\* A step that ends a handler with a commit.
LEMMA CommitKeeps ==
    ASSUME IInv, NEW q \in Reqs, Commits(q), TablesOK', used \subseteq used'
    PROVE  IInv'
<1>1. \A r \in Reqs : \/ req'[r] = Idle
                      \/ req'[r] = [req[r] EXCEPT !.fresh = FALSE]
  BY DEF Commits
<1>2. ASSUME NEW r \in Reqs
      PROVE  req'[r] \in Locals /\ LocalsOK(req[r])' /\ (req[r].fresh => FreshOK(req[r]))'
  <2> PICK m : m = req'[r]
    OBVIOUS
  <2>1. CASE m = Idle
    <3>1. LocalsOK(m) /\ FreshOK(m)
      BY <2>1, IdleOK
    <3>2. m \in Locals /\ m.id = None /\ m.pc = "idle"
      BY <2>1, <3>1, IdleOK DEF LocalsOK, Idle
    <3>3. LocalsOK(m)'
      BY <3>2 DEF LocalsOK
    <3>4. FreshOK(m)'
      BY <3>2 DEF FreshOK
    <3> QED
      BY <3>2, <3>3, <3>4
  <2>2. CASE m = [req[r] EXCEPT !.fresh = FALSE]
    <3> PICK l : l = req[r]
      OBVIOUS
    <3>1. LocalsOK(l) /\ l \in Locals
      BY DEF IInv, HandlersOK
    <3>2. m = [l EXCEPT !.fresh = FALSE]
      BY <2>2
    <3>3. /\ m \in Locals /\ m.fresh = FALSE
          /\ m.pc = l.pc /\ m.id = l.id /\ m.was = l.was /\ m.sets = l.sets /\ m.to = l.to
          /\ m.num = l.num /\ m.span = l.span
      BY <3>1, <3>2 DEF Locals
    <3>4. LocalsOK(m)'
      BY <3>1, <3>3 DEF LocalsOK
    <3> QED
      BY <3>3, <3>4
  <2> QED
    BY <1>1, <2>1, <2>2
<1>3. req' \in [Reqs -> Locals]
  BY <1>2 DEF Commits
<1> QED
  BY <1>2, <1>3 DEF IInv, HandlersOK

-----------------------------------------------------------------------------
(* The steps that load rows and reckon.                                      *)

LEMMA KeptByUpdateTestRead ==
    ASSUME IInv, NEW q \in Reqs, NEW patch \in TestPatches, UpdateTestRead(q, patch)
    PROVE  IInv'
<1> PICK l : l = [Idle EXCEPT !.pc = "updateTest", !.was = test, !.sets = patch]
  OBVIOUS
<1>1. Goes(q, l) /\ UNCHANGED <<test, group, question, used>>
  BY DEF UpdateTestRead
<1>2. Idle \in Locals
  BY IdleOK DEF LocalsOK
<1>3. test \in TestRow /\ test # None
  BY DEF IInv, TablesOK, UpdateTestRead
<1>4. /\ l.pc = "updateTest" /\ l.was = test /\ l.sets = patch /\ l.id = None
  BY DEF Idle
<1>5. l \in Locals
  BY <1>2, <1>3 DEF Locals, Stages
<1>6. LocalsOK(l)
  BY <1>3, <1>4, <1>5 DEF LocalsOK
<1>7. FreshOK(l)
  BY <1>3, <1>4 DEF FreshOK, UpdateTestRead
<1> QED
  BY <1>1, <1>6, <1>7, GoesKeeps

LEMMA KeptByDeleteTestRead ==
    ASSUME IInv, NEW q \in Reqs, DeleteTestRead(q)
    PROVE  IInv'
<1> PICK l : l = [Idle EXCEPT !.pc = "deleteTest"]
  OBVIOUS
<1>1. Goes(q, l) /\ UNCHANGED <<test, group, question, used>>
  BY DEF DeleteTestRead
<1>2. Idle \in Locals
  BY IdleOK DEF LocalsOK
<1>3. l \in Locals /\ l.pc = "deleteTest" /\ l.id = None
  BY <1>2 DEF Locals, Stages, Idle
<1>4. LocalsOK(l) /\ FreshOK(l)
  BY <1>3 DEF LocalsOK, FreshOK
<1> QED
  BY <1>1, <1>4, GoesKeeps

LEMMA KeptByCreateGroupRead ==
    ASSUME IInv, NEW q \in Reqs, CreateGroupRead(q)
    PROVE  IInv'
<1> PICK l : l = [Idle EXCEPT !.pc = "createGroup", !.pos = Cardinality(DOMAIN group)]
  OBVIOUS
<1>1. Goes(q, l) /\ UNCHANGED <<test, group, question, used>>
  BY DEF CreateGroupRead
<1>2. Idle \in Locals
  BY IdleOK DEF LocalsOK
<1>3. Cardinality(DOMAIN group) \in Nat
  BY FS_CardinalityType DEF IInv, TablesOK
<1>4. l \in Locals /\ l.pc = "createGroup" /\ l.id = None
  BY <1>2, <1>3 DEF Locals, Stages, Idle
<1>5. LocalsOK(l) /\ FreshOK(l)
  BY <1>4 DEF LocalsOK, FreshOK
<1> QED
  BY <1>1, <1>5, GoesKeeps

LEMMA KeptByUpdateGroupRead ==
    ASSUME IInv, NEW q \in Reqs, NEW g \in DOMAIN group, NEW to \in Moves,
           UpdateGroupRead(q, g, to)
    PROVE  IInv'
<1> PICK l : l = [Idle EXCEPT !.pc = "groupOrder", !.id = g, !.was = group[g], !.to = to]
  OBVIOUS
<1>1. Goes(q, l) /\ UNCHANGED <<test, group, question, used>>
  BY DEF UpdateGroupRead
<1>2. Idle \in Locals
  BY IdleOK DEF LocalsOK
<1>3. g \in Groups /\ g \in used /\ group[g] \in GroupRow
  BY DEF IInv, TablesOK
<1>4. to \in Nat
  BY PatchAssumption
<1>5. l.pc = "groupOrder" /\ l.id = g /\ l.was = group[g] /\ l.to = to
  BY DEF Idle
<1>6. l \in Locals
  BY <1>2, <1>3, <1>4 DEF Locals, Stages, Ids
<1>7. LocalsOK(l)
  BY <1>3, <1>4, <1>5, <1>6 DEF LocalsOK, Ids
<1>8. FreshOK(l)
  BY <1>5 DEF FreshOK
<1> QED
  BY <1>1, <1>7, <1>8, GoesKeeps

LEMMA KeptByGroupOrder ==
    ASSUME IInv, NEW q \in Reqs, GroupOrder(q)
    PROVE  IInv'
<1> PICK l : l = req[q]
  OBVIOUS
<1> PICK table : table = group
  OBVIOUS
<1>1. l.pc = "groupOrder" /\ LocalsOK(l) /\ (l.fresh => FreshOK(l))
  BY DEF GroupOrder, IInv, HandlersOK
<1>2. l \in Locals /\ l.id \in Ids /\ l.to \in Nat /\ l.was \in GroupRow
  BY <1>1 DEF LocalsOK
<1>3. IsFiniteSet(DOMAIN table) /\ DOMAIN table \subseteq Groups
  BY DEF IInv, TablesOK
<1>4. \A x \in DOMAIN table : table[x].pos \in Nat
  <2>1. \A x \in DOMAIN table : table[x] \in GroupRow
    BY DEF IInv, TablesOK
  <2> QED
    BY <2>1 DEF GroupRow
<1>5. Renumber(q, table, DOMAIN table, "updateGroup")
  BY DEF GroupOrder
<1>6. PICK w :
         /\ req' = [req EXCEPT ![q] = [l EXCEPT !.pc = "updateGroup", !.writes = w]]
         /\ DOMAIN w \subseteq DOMAIN table \cup {l.id}
         /\ w \in [DOMAIN w -> Nat]
         /\ (l.id \in DOMAIN table /\ table[l.id].pos = l.was.pos) =>
               Contiguous(table, Renumbered(w, table, DOMAIN table), DOMAIN table, l.id, l.to)
  <2>1. req[q].to \in Nat
    BY <1>2
  <2>2. \E w : MovedBy(q, table, DOMAIN table, "updateGroup", w)
    BY <2>1, <1>3, <1>4, <1>5, RenumberMoves
  <2> QED
    BY <2>2 DEF MovedBy
<1> PICK m : m = [l EXCEPT !.pc = "updateGroup", !.writes = w]
  OBVIOUS
<1>7. Goes(q, m) /\ UNCHANGED <<test, group, question, used>>
  BY <1>6 DEF Goes, GroupOrder
<1>8. w \in UNION {[D -> Nat] : D \in SUBSET Ids}
  <2>1. DOMAIN w \in SUBSET Ids
    BY <1>2, <1>3, <1>6 DEF Ids
  <2> QED
    BY <1>6, <2>1
<1>9. /\ m \in Locals /\ m.pc = "updateGroup" /\ m.writes = w /\ m.id = l.id
      /\ m.was = l.was /\ m.to = l.to /\ m.fresh = l.fresh
  BY <1>2, <1>8 DEF Locals, Stages
<1>10. LocalsOK(m)
  BY <1>1, <1>2, <1>9 DEF LocalsOK
<1>11. ASSUME m.fresh PROVE FreshOK(m)
  <2>1. l.id \in DOMAIN table /\ table[l.id] = l.was
    BY <1>1, <1>9, <1>11 DEF FreshOK
  <2>2. Contiguous(table, Renumbered(w, table, DOMAIN table), DOMAIN table, l.id, l.to)
    BY <1>6, <2>1
  <2>3. DOMAIN w \subseteq DOMAIN table
    BY <1>6, <2>1
  <2>4. Moving(m, table, DOMAIN table)
    BY <1>9, <2>1, <2>2, <2>3 DEF Moving
  <2> QED
    BY <1>9, <2>4 DEF FreshOK
<1> QED
  BY <1>7, <1>10, <1>11, GoesKeeps

LEMMA KeptByDeleteGroupRead ==
    ASSUME IInv, NEW q \in Reqs, NEW g \in DOMAIN group, DeleteGroupRead(q, g)
    PROVE  IInv'
<1> PICK l : l = [Idle EXCEPT !.pc = "deleteGroup", !.id = g]
  OBVIOUS
<1>1. Goes(q, l) /\ UNCHANGED <<test, group, question, used>>
  BY DEF DeleteGroupRead
<1>2. Idle \in Locals
  BY IdleOK DEF LocalsOK
<1>3. g \in Groups /\ g \in used
  BY DEF IInv, TablesOK
<1>4. l \in Locals /\ l.pc = "deleteGroup" /\ l.id = g
  BY <1>2, <1>3 DEF Locals, Stages, Idle, Ids
<1>5. LocalsOK(l) /\ FreshOK(l)
  BY <1>3, <1>4 DEF LocalsOK, FreshOK
<1> QED
  BY <1>1, <1>5, GoesKeeps

LEMMA KeptByCreateQuestionRead ==
    ASSUME IInv, NEW q \in Reqs, NEW g \in DOMAIN group, NEW body \in QuestionBodies,
           CreateQuestionRead(q, g, body)
    PROVE  IInv'
<1> PICK pc : pc = IF body.num = None THEN "number" ELSE "createQuestion"
  OBVIOUS
<1> PICK pos : pos = Cardinality(QuestionsIn(g))
  OBVIOUS
<1> PICK l : l = [Idle EXCEPT !.pc = pc, !.id = g, !.pos = pos,
                              !.num = body.num, !.span = body.span, !.to = body.num]
  OBVIOUS
<1>1. Goes(q, l) /\ UNCHANGED <<test, group, question, used>>
  BY DEF CreateQuestionRead
<1>2. Idle \in Locals
  BY IdleOK DEF LocalsOK
<1>3. g \in Groups /\ g \in used
  BY DEF IInv, TablesOK
<1>4. pos \in Nat
  <2>1. IsFiniteSet(QuestionsIn(g))
    BY FS_Subset DEF IInv, TablesOK, QuestionsIn
  <2> QED
    BY <2>1, FS_CardinalityType
<1>5. body.num \in (1..MaxNumber) \cup {None} /\ body.span \in Spans
  BY PatchAssumption
<1>6. body.num \in Nat \cup {None}
  BY <1>5
<1>7. /\ l.pc = pc /\ l.id = g /\ l.num = body.num /\ l.span = body.span /\ l.to = body.num
  BY DEF Idle
<1>8. l \in Locals
  <2> PICK m : m = [Idle EXCEPT !.pc = pc, !.id = g, !.pos = pos]
    OBVIOUS
  <2>1. pc \in Stages /\ g \in Ids
    BY <1>3 DEF Stages, Ids
  <2>2. m \in Locals
    BY <1>2, <1>4, <2>1 DEF Locals
  <2>3. l = [m EXCEPT !.num = body.num, !.span = body.span, !.to = body.num]
    BY DEF Idle
  <2> QED
    BY <1>5, <1>6, <2>2, <2>3 DEF Locals
<1>9. LocalsOK(l)
  BY <1>3, <1>5, <1>7, <1>8 DEF LocalsOK
<1>10. FreshOK(l)
  BY <1>7 DEF FreshOK
<1> QED
  BY <1>1, <1>9, <1>10, GoesKeeps

\* Numbers run to the last, so the next is free.
LEMMA KeptByNumber ==
    ASSUME IInv, NEW q \in Reqs, Number(q)
    PROVE  IInv'
<1> PICK l : l = req[q]
  OBVIOUS
<1> PICK last : last = LastNumber
  OBVIOUS
<1> PICK m : m = [l EXCEPT !.pc = "createQuestion", !.num = last + 1]
  OBVIOUS
<1>1. Goes(q, m) /\ UNCHANGED <<test, group, question, used>>
  BY DEF Number
<1>2. l.pc = "number" /\ LocalsOK(l)
  BY DEF Number, IInv, HandlersOK
<1>3. l \in Locals /\ l.id \in Groups /\ l.span \in Spans /\ l.to = None
  BY <1>2 DEF LocalsOK
<1>4. last \in Nat /\ \A j \in DOMAIN question : \A n \in Covered(j) : n <= last
  BY LastNumberOK DEF IInv
<1>5. last < MaxNumber
  BY DEF Number
<1>6. last + 1 \in 1..MaxNumber /\ last + 1 \in Nat
  BY <1>4, <1>5, ContentAssumption
<1>7. /\ m \in Locals /\ m.pc = "createQuestion" /\ m.num = last + 1
      /\ m.id = l.id /\ m.span = l.span /\ m.to = l.to
  BY <1>3, <1>6 DEF Locals, Stages
<1>8. LocalsOK(m)
  BY <1>2, <1>3, <1>6, <1>7 DEF LocalsOK
<1>9. FreshOK(m)
  <2>1. ASSUME NEW j \in DOMAIN question, NEW n \in Covered(j) PROVE n < last + 1
    <3>1. n \in Int
      BY ContentAssumption DEF IInv, TablesOK, QuestionRow, Covered
    <3> QED
      BY <1>4, <3>1
  <2> QED
    BY <1>7, <2>1 DEF FreshOK
<1> QED
  BY <1>1, <1>8, <1>9, GoesKeeps

LEMMA KeptByUpdateQuestionRead ==
    ASSUME IInv, NEW q \in Reqs, NEW i \in DOMAIN question, NEW patch \in QuestionPatches,
           UpdateQuestionRead(q, i, patch)
    PROVE  IInv'
<1> PICK pc : pc = IF patch.to = None THEN "updateQuestion" ELSE "questionOrder"
  OBVIOUS
<1> PICK l : l = [Idle EXCEPT !.pc = pc, !.id = i, !.was = question[i], !.to = patch.to,
                              !.sets = patch]
  OBVIOUS
<1>1. Goes(q, l) /\ UNCHANGED <<test, group, question, used>>
  BY DEF UpdateQuestionRead
<1>2. Idle \in Locals
  BY IdleOK DEF LocalsOK
<1>3. i \in Questions /\ i \in used /\ question[i] \in QuestionRow
  BY DEF IInv, TablesOK
<1>4. patch.to \in Nat \cup {None}
  BY PatchAssumption
<1>5. l.pc = pc /\ l.id = i /\ l.was = question[i] /\ l.to = patch.to /\ l.sets = patch
  BY DEF Idle
<1>6. l \in Locals
  BY <1>2, <1>3, <1>4 DEF Locals, Stages, Ids
<1>7. LocalsOK(l)
  BY <1>3, <1>4, <1>5, <1>6 DEF LocalsOK, Ids
<1>8. FreshOK(l)
  BY <1>5 DEF FreshOK
<1> QED
  BY <1>1, <1>7, <1>8, GoesKeeps

LEMMA KeptByQuestionOrder ==
    ASSUME IInv, NEW q \in Reqs, QuestionOrder(q)
    PROVE  IInv'
<1> PICK l : l = req[q]
  OBVIOUS
<1> PICK table : table = question
  OBVIOUS
<1> PICK siblings : siblings = QuestionsIn(l.was.group)
  OBVIOUS
<1>1. l.pc = "questionOrder" /\ LocalsOK(l) /\ (l.fresh => FreshOK(l))
  BY DEF QuestionOrder, IInv, HandlersOK
<1>2. /\ l \in Locals /\ l.id \in Ids /\ l.to \in Nat
      /\ l.was \in QuestionRow /\ l.sets \in QuestionPatches
  BY <1>1 DEF LocalsOK
<1>3. siblings \subseteq DOMAIN table /\ DOMAIN table \subseteq Questions
  BY DEF IInv, TablesOK, QuestionsIn
<1>4. IsFiniteSet(siblings)
  BY <1>3, FS_Subset DEF IInv, TablesOK
<1>5. \A x \in siblings : table[x].pos \in Nat
  <2>1. \A x \in siblings : table[x] \in QuestionRow
    BY <1>3 DEF IInv, TablesOK
  <2> QED
    BY <2>1 DEF QuestionRow
<1>6. Renumber(q, table, siblings, "updateQuestion")
  BY DEF QuestionOrder
<1>7. PICK w :
         /\ req' = [req EXCEPT ![q] = [l EXCEPT !.pc = "updateQuestion", !.writes = w]]
         /\ DOMAIN w \subseteq siblings \cup {l.id}
         /\ w \in [DOMAIN w -> Nat]
         /\ (l.id \in siblings /\ table[l.id].pos = l.was.pos) =>
               Contiguous(table, Renumbered(w, table, siblings), siblings, l.id, l.to)
  <2>1. req[q].to \in Nat
    BY <1>2
  <2>2. \E w : MovedBy(q, table, siblings, "updateQuestion", w)
    BY <2>1, <1>4, <1>5, <1>6, RenumberMoves
  <2> QED
    BY <2>2 DEF MovedBy
<1> PICK m : m = [l EXCEPT !.pc = "updateQuestion", !.writes = w]
  OBVIOUS
<1>8. Goes(q, m) /\ UNCHANGED <<test, group, question, used>>
  BY <1>7 DEF Goes, QuestionOrder
<1>9. w \in UNION {[D -> Nat] : D \in SUBSET Ids}
  <2>1. DOMAIN w \in SUBSET Ids
    BY <1>2, <1>3, <1>7 DEF Ids
  <2> QED
    BY <1>7, <2>1
<1>10. /\ m \in Locals /\ m.pc = "updateQuestion" /\ m.writes = w /\ m.id = l.id
       /\ m.was = l.was /\ m.sets = l.sets /\ m.to = l.to /\ m.fresh = l.fresh
  BY <1>2, <1>9 DEF Locals, Stages
<1>11. LocalsOK(m)
  BY <1>1, <1>2, <1>10 DEF LocalsOK
<1>12. ASSUME m.fresh PROVE FreshOK(m)
  <2>1. l.id \in DOMAIN table /\ table[l.id] = l.was
    BY <1>1, <1>10, <1>12 DEF FreshOK
  <2>2. l.id \in siblings
    BY <2>1 DEF QuestionsIn
  <2>3. Contiguous(table, Renumbered(w, table, siblings), siblings, l.id, l.to)
    BY <1>7, <2>1, <2>2
  <2>4. DOMAIN w \subseteq siblings
    BY <1>7, <2>2
  <2>5. Moving(m, table, siblings)
    BY <1>10, <2>2, <2>3, <2>4 DEF Moving
  <2> QED
    BY <1>10, <2>5 DEF FreshOK
<1> QED
  BY <1>8, <1>11, <1>12, GoesKeeps

LEMMA KeptByDeleteQuestionRead ==
    ASSUME IInv, NEW q \in Reqs, NEW i \in DOMAIN question, DeleteQuestionRead(q, i)
    PROVE  IInv'
<1> PICK l : l = [Idle EXCEPT !.pc = "deleteQuestion", !.id = i]
  OBVIOUS
<1>1. Goes(q, l) /\ UNCHANGED <<test, group, question, used>>
  BY DEF DeleteQuestionRead
<1>2. Idle \in Locals
  BY IdleOK DEF LocalsOK
<1>3. i \in Questions /\ i \in used
  BY DEF IInv, TablesOK
<1>4. l \in Locals /\ l.pc = "deleteQuestion" /\ l.id = i
  BY <1>2, <1>3 DEF Locals, Stages, Idle, Ids
<1>5. LocalsOK(l) /\ FreshOK(l)
  BY <1>3, <1>4 DEF LocalsOK, FreshOK
<1> QED
  BY <1>1, <1>5, GoesKeeps

-----------------------------------------------------------------------------
(* The steps that commit.                                                    *)

LEMMA KeptByUpdateTestCommit ==
    ASSUME IInv, NEW q \in Reqs, UpdateTestCommit(q)
    PROVE  IInv'
<1> PICK l : l = req[q]
  OBVIOUS
<1>1. l.was \in TestRow /\ l.sets \in TestPatches
  BY DEF IInv, HandlersOK, LocalsOK, UpdateTestCommit
<1>2. /\ l.sets.status \in {"draft", "published"} \cup {None}
      /\ l.sets.head \in BOOLEAN \cup {None}
  BY <1>1, PatchAssumption
<1>3. CASE test = None
  <2>1. test' = None
    BY <1>3 DEF UpdateTestCommit
  <2> QED
    BY <1>3, <2>1, CommitKeeps DEF IInv, TablesOK, UpdateTestCommit
<1>4. CASE test # None
  <2>1. test \in TestRow
    BY <1>4 DEF IInv, TablesOK
  <2>2. /\ Stored(l.sets.status, l.was.status, test.status) \in {"draft", "published"}
        /\ Stored(l.sets.head, l.was.head, test.head) \in BOOLEAN
    <3>1. Stored(l.sets.status, l.was.status, test.status) \in {"draft", "published"}
      BY <1>2, <2>1 DEF Stored, TestRow
    <3>2. Stored(l.sets.head, l.was.head, test.head) \in BOOLEAN
      BY <1>2, <2>1, Zenon DEF Stored, TestRow
    <3> QED
      BY <3>1, <3>2
  <2>3. test' = [status |-> Stored(l.sets.status, l.was.status, test.status),
                 head |-> Stored(l.sets.head, l.was.head, test.head)]
    BY <1>4 DEF UpdateTestCommit
  <2>4. test' \in TestRow /\ test' # None
    BY <2>2, <2>3, RowAssumption DEF TestRow
  <2> QED
    BY <2>4, CommitKeeps DEF IInv, TablesOK, UpdateTestCommit
<1> QED
  BY <1>3, <1>4

LEMMA KeptByDeleteTestCommit ==
    ASSUME IInv, NEW q \in Reqs, DeleteTestCommit(q)
    PROVE  IInv'
<1>1. DOMAIN Empty = {} /\ IsFiniteSet(DOMAIN Empty) /\ \A S : Empty \in [{} -> S]
  BY FS_EmptySet DEF Empty
<1>2. /\ test' = None /\ group' = Empty /\ question' = Empty /\ used' = used
      /\ Commits(q)
  BY DEF DeleteTestCommit
<1>3. TablesOK'
  BY <1>1, <1>2 DEF TablesOK
<1> QED
  BY <1>2, <1>3, CommitKeeps

LEMMA KeptByCreateGroupCommit ==
    ASSUME IInv, NEW q \in Reqs, NEW g \in Groups, CreateGroupCommit(q, g)
    PROVE  IInv'
<1> PICK l : l = req[q]
  OBVIOUS
<1>1. Commits(q) /\ UNCHANGED <<test, question>>
  BY DEF CreateGroupCommit
<1>2. l.pos \in Nat
  BY DEF IInv, HandlersOK, Locals
<1>3. CASE test # None
  <2>1. /\ group' = [x \in DOMAIN group \cup {g} |->
                       IF x = g THEN [pos |-> l.pos] ELSE group[x]]
        /\ used' = used \cup {g}
    BY <1>3 DEF CreateGroupCommit
  <2>2. [pos |-> l.pos] \in GroupRow
    BY <1>2 DEF GroupRow
  <2>3. DOMAIN group' = DOMAIN group \cup {g} /\ IsFiniteSet(DOMAIN group')
    BY <2>1, FS_AddElement DEF IInv, TablesOK
  <2>4. group' \in [DOMAIN group' -> GroupRow]
    BY <2>1, <2>2 DEF IInv, TablesOK
  <2>5. TablesOK'
    BY <1>1, <1>3, <2>1, <2>3, <2>4 DEF IInv, TablesOK
  <2> QED
    BY <1>1, <2>1, <2>5, CommitKeeps
<1>4. CASE test = None
  BY <1>1, <1>4, CommitKeeps DEF CreateGroupCommit, IInv, TablesOK
<1> QED
  BY <1>3, <1>4

\* What a commit makes of a position is a position.
LEMMA PositionOK ==
    ASSUME IInv, NEW q \in Reqs, NEW x, NEW pos \in Nat
    PROVE  Position(q, x, pos) \in Nat
<1> PICK w : w = req[q].writes
  OBVIOUS
<1>1. w \in UNION {[D -> Nat] : D \in SUBSET Ids}
  BY DEF IInv, HandlersOK, Locals
<1>2. w \in [DOMAIN w -> Nat]
  BY <1>1
<1> QED
  BY <1>2 DEF Position

LEMMA KeptByUpdateGroupCommit ==
    ASSUME IInv, NEW q \in Reqs, UpdateGroupCommit(q)
    PROVE  IInv'
<1>1. Commits(q) /\ UNCHANGED <<test, question, used>>
  BY DEF UpdateGroupCommit
<1>2. DOMAIN group' = DOMAIN group /\ group' \in [DOMAIN group -> GroupRow]
  <2>1. CASE group' = group
    BY <2>1 DEF IInv, TablesOK
  <2>2. CASE group' = [x \in DOMAIN group |-> [pos |-> Position(q, x, group[x].pos)]]
    <3>1. ASSUME NEW x \in DOMAIN group
          PROVE  [pos |-> Position(q, x, group[x].pos)] \in GroupRow
      <4>1. group[x].pos \in Nat
        BY DEF IInv, TablesOK, GroupRow
      <4>2. Position(q, x, group[x].pos) \in Nat
        BY <4>1, PositionOK
      <4> QED
        BY <4>2 DEF GroupRow
    <3> QED
      BY <2>2, <3>1
  <2> QED
    BY <2>1, <2>2 DEF UpdateGroupCommit
<1>3. group = Empty => group' = Empty
  <2> SUFFICES ASSUME group = Empty PROVE group' = Empty
    OBVIOUS
  <2>1. DOMAIN group' = {} /\ group' \in [{} -> GroupRow]
    BY <1>2 DEF Empty
  <2> QED
    BY <2>1 DEF Empty
<1>4. TablesOK'
  BY <1>1, <1>2, <1>3 DEF IInv, TablesOK
<1> QED
  BY <1>1, <1>4, CommitKeeps

LEMMA KeptByDeleteGroupCommit ==
    ASSUME IInv, NEW q \in Reqs, DeleteGroupCommit(q)
    PROVE  IInv'
<1> PICK g : g = req[q].id
  OBVIOUS
<1>1. Commits(q) /\ UNCHANGED <<test, used>>
  BY DEF DeleteGroupCommit
<1>2. /\ group' = [x \in DOMAIN group \ {g} |-> group[x]]
      /\ question' = [i \in DOMAIN question \ QuestionsIn(g) |-> question[i]]
  BY DEF DeleteGroupCommit, Cascaded
<1>3. /\ DOMAIN group' = DOMAIN group \ {g}
      /\ DOMAIN question' = DOMAIN question \ QuestionsIn(g)
  BY <1>2
<1>4. IsFiniteSet(DOMAIN group') /\ IsFiniteSet(DOMAIN question')
  BY <1>3, FS_Subset DEF IInv, TablesOK
<1>5. /\ group' \in [DOMAIN group' -> GroupRow]
      /\ question' \in [DOMAIN question' -> QuestionRow]
  BY <1>2, <1>3 DEF IInv, TablesOK
<1>6. group = Empty => group' = Empty
  BY <1>2 DEF Empty
<1>7. ASSUME NEW i \in DOMAIN question' PROVE question'[i].group \in DOMAIN group'
  <2>1. i \in DOMAIN question /\ question'[i] = question[i] /\ question[i].group # g
    BY <1>2, <1>3 DEF QuestionsIn
  <2>2. question[i].group \in DOMAIN group
    BY <2>1 DEF IInv, TablesOK
  <2> QED
    BY <1>3, <2>1, <2>2
<1>8. TablesOK'
  BY <1>1, <1>3, <1>4, <1>5, <1>6, <1>7 DEF IInv, TablesOK
<1> QED
  BY <1>1, <1>8, CommitKeeps

LEMMA KeptByCreateQuestionCommit ==
    ASSUME IInv, NEW q \in Reqs, NEW i \in Questions, CreateQuestionCommit(q, i)
    PROVE  IInv'
<1> PICK l : l = req[q]
  OBVIOUS
<1>1. Commits(q) /\ UNCHANGED <<test, group>>
  BY DEF CreateQuestionCommit
<1>2. l.id \in Groups /\ l.span \in Spans /\ l.num \in 1..MaxNumber /\ l.pos \in Nat
  BY DEF IInv, HandlersOK, LocalsOK, Locals, CreateQuestionCommit
<1>3. CASE l.id \in DOMAIN group
  <2> PICK row : row = [group |-> l.id, pos |-> l.pos, num |-> l.num, span |-> l.span]
    OBVIOUS
  <2>1. /\ question' = [x \in DOMAIN question \cup {i} |->
                           IF x # i THEN question[x] ELSE row]
        /\ used' = used \cup {i}
    BY <1>3 DEF CreateQuestionCommit
  <2>2. row \in QuestionRow /\ row.group \in DOMAIN group
    BY <1>2, <1>3 DEF QuestionRow
  <2>3. DOMAIN question' = DOMAIN question \cup {i} /\ IsFiniteSet(DOMAIN question')
    BY <2>1, FS_AddElement DEF IInv, TablesOK
  <2>4. question' \in [DOMAIN question' -> QuestionRow]
    BY <2>1, <2>2 DEF IInv, TablesOK
  <2>5. \A x \in DOMAIN question' : question'[x].group \in DOMAIN group
    BY <2>1, <2>2 DEF IInv, TablesOK
  <2>6. TablesOK'
    BY <1>1, <2>1, <2>3, <2>4, <2>5 DEF IInv, TablesOK
  <2> QED
    BY <1>1, <2>1, <2>6, CommitKeeps
<1>4. CASE l.id \notin DOMAIN group
  BY <1>1, <1>4, CommitKeeps DEF CreateQuestionCommit, IInv, TablesOK
<1> QED
  BY <1>3, <1>4

LEMMA KeptByUpdateQuestionCommit ==
    ASSUME IInv, NEW q \in Reqs, UpdateQuestionCommit(q)
    PROVE  IInv'
<1> PICK l : l = req[q]
  OBVIOUS
<1>1. Commits(q) /\ UNCHANGED <<test, group, used>>
  BY DEF UpdateQuestionCommit
<1>2. /\ l.sets.num \in (1..MaxNumber) \cup {None}
      /\ l.sets.span \in Spans \cup {None}
  BY PatchAssumption DEF IInv, HandlersOK, LocalsOK, UpdateQuestionCommit
<1> DEFINE changed == {l.id : n \in {l.sets.num} \ {None, l.was.num}}
                        \cup {l.id : n \in {l.sets.span} \ {None, l.was.span}}
           Set(x, asked, loaded, stored) ==
              IF x \in changed THEN Stored(asked, loaded, stored) ELSE stored
<1>3. /\ \A x, loaded : \A n \in 1..MaxNumber : Set(x, l.sets.num, loaded, n) \in 1..MaxNumber
      /\ \A x, loaded : \A n \in Spans : Set(x, l.sets.span, loaded, n) \in Spans
  BY <1>2 DEF Stored
<1>4. /\ DOMAIN question' = DOMAIN question
      /\ question' \in [DOMAIN question -> QuestionRow]
      /\ \A x \in DOMAIN question : question'[x].group = question[x].group
  <2>1. CASE question' = question
    BY <2>1 DEF IInv, TablesOK
  <2>2. CASE question' = [x \in DOMAIN question |->
                            [question[x] EXCEPT
                               !.pos = Position(q, x, @),
                               !.num = Set(x, l.sets.num, l.was.num, @),
                               !.span = Set(x, l.sets.span, l.was.span, @)]]
    <3>1. ASSUME NEW x \in DOMAIN question
          PROVE  question'[x] \in QuestionRow /\ question'[x].group = question[x].group
      <4> PICK row : row = question[x]
        OBVIOUS
      <4> PICK pos : pos = Position(q, x, row.pos)
        OBVIOUS
      <4> PICK num : num = Set(x, l.sets.num, l.was.num, row.num)
        OBVIOUS
      <4> PICK span : span = Set(x, l.sets.span, l.was.span, row.span)
        OBVIOUS
      <4>1. row \in QuestionRow
        BY DEF IInv, TablesOK
      <4>2. pos \in Nat
        BY <4>1, PositionOK DEF QuestionRow
      <4>3. num \in 1..MaxNumber /\ span \in Spans
        BY <1>3, <4>1 DEF QuestionRow
      <4>4. question'[x] = [row EXCEPT !.pos = pos, !.num = num, !.span = span]
        BY <2>2
      <4> QED
        BY <4>1, <4>2, <4>3, <4>4 DEF QuestionRow
    <3>2. DOMAIN question' = DOMAIN question
      BY <2>2
    <3>3. question' \in [DOMAIN question -> QuestionRow]
      BY <2>2, <3>1
    <3> QED
      BY <3>1, <3>2, <3>3
  <2> QED
    BY <2>1, <2>2 DEF UpdateQuestionCommit
<1>5. TablesOK'
  BY <1>1, <1>4 DEF IInv, TablesOK
<1> QED
  BY <1>1, <1>5, CommitKeeps

LEMMA KeptByDeleteQuestionCommit ==
    ASSUME IInv, NEW q \in Reqs, DeleteQuestionCommit(q)
    PROVE  IInv'
<1> PICK i : i = req[q].id
  OBVIOUS
<1>1. Commits(q) /\ UNCHANGED <<test, group, used>>
  BY DEF DeleteQuestionCommit
<1>2. question' = [x \in DOMAIN question \ {i} |-> question[x]]
  BY DEF DeleteQuestionCommit
<1>3. DOMAIN question' = DOMAIN question \ {i} /\ IsFiniteSet(DOMAIN question')
  BY <1>2, FS_Subset DEF IInv, TablesOK
<1>4. question' \in [DOMAIN question' -> QuestionRow]
  BY <1>2, <1>3 DEF IInv, TablesOK
<1>5. \A x \in DOMAIN question' : question'[x].group \in DOMAIN group
  BY <1>2, <1>3 DEF IInv, TablesOK
<1>6. TablesOK'
  BY <1>1, <1>3, <1>4, <1>5 DEF IInv, TablesOK
<1> QED
  BY <1>1, <1>6, CommitKeeps

-----------------------------------------------------------------------------
(* The invariant holds.                                                      *)

LEMMA InvInit == Init => IInv
<1> SUFFICES ASSUME Init PROVE IInv
  OBVIOUS
<1>1. DOMAIN Empty = {} /\ IsFiniteSet(DOMAIN Empty) /\ \A S : Empty \in [{} -> S]
  BY FS_EmptySet DEF Empty
<1>2. test \in TestRow
  BY DEF Init, TestRow
<1>3. TablesOK
  BY <1>1, <1>2, RowAssumption DEF Init, TablesOK
<1>4. LocalsOK(Idle) /\ FreshOK(Idle)
  BY IdleOK
<1>5. HandlersOK
  <2>1. Idle \in Locals
    BY <1>4 DEF LocalsOK
  <2>2. req = [q \in Reqs |-> Idle]
    BY DEF Init
  <2> QED
    BY <1>4, <2>1, <2>2 DEF HandlersOK
<1> QED
  BY <1>3, <1>5 DEF IInv

LEMMA InvStutter ==
    ASSUME IInv, UNCHANGED vars
    PROVE  IInv'
<1>1. TablesOK'
  BY DEF IInv, TablesOK, vars
<1>2. ASSUME NEW q \in Reqs PROVE LocalsOK(req[q])' /\ (req[q].fresh => FreshOK(req[q]))'
  <2> PICK m : m = req[q]
    OBVIOUS
  <2>1. LocalsOK(m) /\ (m.fresh => FreshOK(m))
    BY DEF IInv, HandlersOK
  <2>2. LocalsOK(m)' /\ (m.fresh => FreshOK(m)')
    BY <2>1, Unmoved DEF vars
  <2>3. req'[q] = m
    BY DEF vars
  <2> QED
    BY <2>2, <2>3
<1>3. req' \in [Reqs -> Locals]
  BY DEF IInv, HandlersOK, vars
<1> QED
  BY <1>1, <1>2, <1>3 DEF IInv, HandlersOK

LEMMA InvNext == IInv /\ [Next]_vars => IInv'
<1> SUFFICES ASSUME IInv, [Next]_vars PROVE IInv'
  OBVIOUS
<1>1. CASE UNCHANGED vars
  BY <1>1, InvStutter
<1>2. ASSUME NEW q \in Reqs, NEW p \in TestPatches, UpdateTestRead(q, p) PROVE IInv'
  BY <1>2, KeptByUpdateTestRead
<1>3. ASSUME NEW q \in Reqs, UpdateTestCommit(q) PROVE IInv'
  BY <1>3, KeptByUpdateTestCommit
<1>4. ASSUME NEW q \in Reqs, DeleteTestRead(q) PROVE IInv'
  BY <1>4, KeptByDeleteTestRead
<1>5. ASSUME NEW q \in Reqs, DeleteTestCommit(q) PROVE IInv'
  BY <1>5, KeptByDeleteTestCommit
<1>6. ASSUME NEW q \in Reqs, CreateGroupRead(q) PROVE IInv'
  BY <1>6, KeptByCreateGroupRead
<1>7. ASSUME NEW q \in Reqs, NEW g \in Groups, CreateGroupCommit(q, g) PROVE IInv'
  BY <1>7, KeptByCreateGroupCommit
<1>8. ASSUME NEW q \in Reqs, NEW g \in DOMAIN group, NEW to \in Moves, UpdateGroupRead(q, g, to)
      PROVE  IInv'
  BY <1>8, KeptByUpdateGroupRead
<1>9. ASSUME NEW q \in Reqs, GroupOrder(q) PROVE IInv'
  BY <1>9, KeptByGroupOrder
<1>10. ASSUME NEW q \in Reqs, UpdateGroupCommit(q) PROVE IInv'
  BY <1>10, KeptByUpdateGroupCommit
<1>11. ASSUME NEW q \in Reqs, NEW g \in DOMAIN group, DeleteGroupRead(q, g) PROVE IInv'
  BY <1>11, KeptByDeleteGroupRead
<1>12. ASSUME NEW q \in Reqs, DeleteGroupCommit(q) PROVE IInv'
  BY <1>12, KeptByDeleteGroupCommit
<1>13. ASSUME NEW q \in Reqs, NEW g \in DOMAIN group, NEW b \in QuestionBodies,
              CreateQuestionRead(q, g, b)
       PROVE  IInv'
  BY <1>13, KeptByCreateQuestionRead
<1>14. ASSUME NEW q \in Reqs, Number(q) PROVE IInv'
  BY <1>14, KeptByNumber
<1>15. ASSUME NEW q \in Reqs, NEW i \in Questions, CreateQuestionCommit(q, i) PROVE IInv'
  BY <1>15, KeptByCreateQuestionCommit
<1>16. ASSUME NEW q \in Reqs, NEW i \in DOMAIN question, NEW p \in QuestionPatches,
              UpdateQuestionRead(q, i, p)
       PROVE  IInv'
  BY <1>16, KeptByUpdateQuestionRead
<1>17. ASSUME NEW q \in Reqs, QuestionOrder(q) PROVE IInv'
  BY <1>17, KeptByQuestionOrder
<1>18. ASSUME NEW q \in Reqs, UpdateQuestionCommit(q) PROVE IInv'
  BY <1>18, KeptByUpdateQuestionCommit
<1>19. ASSUME NEW q \in Reqs, NEW i \in DOMAIN question, DeleteQuestionRead(q, i) PROVE IInv'
  BY <1>19, KeptByDeleteQuestionRead
<1>20. ASSUME NEW q \in Reqs, DeleteQuestionCommit(q) PROVE IInv'
  BY <1>20, KeptByDeleteQuestionCommit
<1> QED
  BY <1>1, <1>2, <1>3, <1>4, <1>5, <1>6, <1>7, <1>8, <1>9, <1>10, <1>11, <1>12, <1>13, <1>14,
     <1>15, <1>16, <1>17, <1>18, <1>19, <1>20 DEF Next

\* Inductive invariant of the paper: the tables fit together, and each handler
\* that nobody has overtaken knows what it read, reviewed, numbered or reordered
\* to be so still.
THEOREM Inductive == Spec => []IInv
<1> QED
  BY InvInit, InvNext, PTL DEF Spec

\* The tables and the handlers' locals have their types, and nothing outlives the
\* row it hangs from: the cascades leave no question without its group.
THEOREM TypeInvariant == Spec => []TypeOK
<1>1. IInv => TypeOK
  BY DEF IInv, TablesOK, HandlersOK, LocalsOK, TypeOK
<1> QED
  BY <1>1, Inductive, PTL

-----------------------------------------------------------------------------
(* The gate.                                                                 *)

\* A set that has no two elements has at most one.
LEMMA NoTwo ==
    ASSUME NEW X, \A x, y \in X : x = y
    PROVE  Cardinality(X) <= 1
<1>1. CASE X = {}
  BY <1>1, FS_EmptySet
<1>2. CASE X # {}
  <2>1. PICK x : X = {x}
    BY <1>2
  <2>2. Cardinality(X) = 1
    BY <2>1, FS_Singleton
  <2> QED
    BY <2>2
<1> QED
  BY <1>1, <1>2

\* What the review finds no fault with can be sat.
LEMMA PublishableIsSittable ==
    ASSUME TablesOK, Publishable
    PROVE  /\ {question[i].group : i \in DOMAIN question} = DOMAIN group
           /\ question # Empty
           /\ \A n : Cardinality({i \in DOMAIN question : n \in Covered(i)}) <= 1
<1>1. \A g \in DOMAIN group : \E i \in DOMAIN question : question[i].group = g
  BY DEF Publishable, QuestionsIn
<1>2. {question[i].group : i \in DOMAIN question} = DOMAIN group
  BY <1>1 DEF TablesOK
<1>3. question # Empty
  <2>1. PICK g : g \in DOMAIN group
    BY DEF Publishable
  <2>2. DOMAIN question # {}
    BY <1>1, <2>1
  <2>3. DOMAIN Empty = {}
    BY DEF Empty
  <2> QED
    BY <2>2, <2>3
<1>4. ASSUME NEW n PROVE Cardinality({i \in DOMAIN question : n \in Covered(i)}) <= 1
  <2> PICK X : X = {i \in DOMAIN question : n \in Covered(i)}
    OBVIOUS
  <2>1. ASSUME NEW x \in X, NEW y \in X PROVE x = y
    <3>1. n \in Covered(x) \cap Covered(y)
      OBVIOUS
    <3> QED
      BY <3>1 DEF Publishable
  <2>2. Cardinality(X) <= 1
    BY <2>1, NoTwo
  <2> QED
    BY <2>2
<1> QED
  BY <1>2, <1>3, <1>4

\* Only update_test publishes.
LEMMA WhoPublishes ==
    ASSUME [Next]_vars, ~Published, Published'
    PROVE  \E q \in Reqs : UpdateTestCommit(q)
<1>1. test' # test /\ test' # None
  BY DEF Published
<1> QED
  BY <1>1 DEF Next, vars, UpdateTestRead, DeleteTestRead, DeleteTestCommit, CreateGroupRead,
     CreateGroupCommit, UpdateGroupRead, GroupOrder, UpdateGroupCommit, DeleteGroupRead,
     DeleteGroupCommit, CreateQuestionRead, Number, CreateQuestionCommit, UpdateQuestionRead,
     QuestionOrder, UpdateQuestionCommit, DeleteQuestionRead, DeleteQuestionCommit

\* Publishing is the one gate that refuses (update_test): a paper that becomes
\* published can be sat, unless another request committed since the review or the
\* same call took the title, the audio or the passage away.
THEOREM GateTheorem == Spec => GateHolds
<1>1. IInv /\ [Next]_vars =>
         [(~Published /\ Published')
             => \/ Sittable'
                \/ \E q \in Reqs :
                      /\ req[q].pc = "updateTest" /\ req'[q] = Idle
                      /\ (~req[q].fresh \/ req[q].sets.head = FALSE)]_vars
  <2> SUFFICES ASSUME IInv, [Next]_vars, ~Published, Published'
               PROVE  \/ Sittable'
                      \/ \E q \in Reqs :
                            /\ req[q].pc = "updateTest" /\ req'[q] = Idle
                            /\ (~req[q].fresh \/ req[q].sets.head = FALSE)
    OBVIOUS
  <2>1. PICK q \in Reqs : UpdateTestCommit(q)
    BY WhoPublishes
  <2> PICK l : l = req[q]
    OBVIOUS
  <2>2. l.pc = "updateTest" /\ req'[q] = Idle
    BY <2>1 DEF UpdateTestCommit, Commits
  <2>3. SUFFICES ASSUME l.fresh, l.sets.head # FALSE PROVE Sittable'
    BY <2>2
  <2>4. /\ LocalsOK(l) /\ FreshOK(l) /\ TablesOK
    BY <2>3 DEF IInv, HandlersOK
  <2>5. test # None /\ test' # None
    BY <2>1 DEF UpdateTestCommit, Published
  <2>6. /\ test'.status = Stored(l.sets.status, l.was.status, test.status)
        /\ test'.head = Stored(l.sets.head, l.was.head, test.head)
    BY <2>1, <2>5 DEF UpdateTestCommit
  <2>7. l.sets.status = "published"
    BY <2>5, <2>6 DEF Published, Stored
  <2>8. Publishable
    BY <2>2, <2>4, <2>7 DEF FreshOK
  <2>9. test'.head
    <3>1. l.sets.head \in BOOLEAN \cup {None}
      BY <2>2, <2>4, PatchAssumption DEF LocalsOK
    <3>2. test.head
      BY <2>8 DEF Publishable
    <3>3. CASE l.sets.head = None
      BY <2>6, <3>2, <3>3, Zenon DEF Stored
    <3>4. CASE l.sets.head # None
      <4>1. l.sets.head = TRUE
        BY <2>3, <3>1, <3>4
      <4> QED
        BY <2>6, <3>2, <4>1, Zenon DEF Stored
    <3> QED
      BY <3>3, <3>4
  <2>10. group' = group /\ question' = question
    BY <2>1 DEF UpdateTestCommit
  <2>11. /\ {question[i].group : i \in DOMAIN question} = DOMAIN group
         /\ question # Empty
         /\ \A n : Cardinality({i \in DOMAIN question : n \in Covered(i)}) <= 1
    BY <2>4, <2>8, PublishableIsSittable
  <2>12. \A n : Cardinality({i \in DOMAIN question : n \in Covered(i)})' <= 1
    BY <2>10, <2>11 DEF Covered
  <2> QED
    BY <2>9, <2>10, <2>11, <2>12 DEF Sittable
<1> QED
  BY <1>1, Inductive, PTL DEF Spec, GateHolds

-----------------------------------------------------------------------------
(* What a handler that nobody has overtaken stores.                          *)

\* A handler at work ends only with a commit of its own.
LEMMA EndsByCommit ==
    ASSUME IInv, [Next]_vars, NEW q \in Reqs, req[q].pc # "idle", req'[q] = Idle
    PROVE  \/ UpdateTestCommit(q)
           \/ DeleteTestCommit(q)
           \/ \E g \in Groups : CreateGroupCommit(q, g)
           \/ UpdateGroupCommit(q)
           \/ DeleteGroupCommit(q)
           \/ \E i \in Questions : CreateQuestionCommit(q, i)
           \/ UpdateQuestionCommit(q)
           \/ DeleteQuestionCommit(q)
<1> PICK l : l = req[q]
  OBVIOUS
<1>1. l \in Locals /\ req \in [Reqs -> Locals]
  BY DEF IInv, HandlersOK
<1>2. l # Idle /\ Idle.pc = "idle"
  BY DEF Idle
<1>3. ASSUME NEW r \in Reqs, NEW m, Goes(r, m), m.pc # "idle" PROVE FALSE
  BY <1>1, <1>2, <1>3 DEF Goes
<1>4. ASSUME NEW r \in Reqs, r # q, Commits(r) PROVE FALSE
  <2>1. req'[q] = [l EXCEPT !.fresh = FALSE]
    BY <1>2, <1>4 DEF Commits
  <2>2. req'[q].pc = l.pc
    BY <1>1, <2>1 DEF Locals
  <2> QED
    BY <1>2, <2>2
<1>5. ~ UNCHANGED vars
  BY <1>2 DEF vars
<1>6. ASSUME NEW r \in Reqs, NEW table, NEW siblings, NEW next, next # "idle",
             Renumber(r, table, siblings, next)
      PROVE  FALSE
  <2>1. \E w : Goes(r, [req[r] EXCEPT !.pc = next, !.writes = w])
    BY <1>6, Zenon DEF Renumber
  <2>2. PICK w : Goes(r, [req[r] EXCEPT !.pc = next, !.writes = w])
    BY <2>1
  <2> PICK m : m = [req[r] EXCEPT !.pc = next, !.writes = w]
    OBVIOUS
  <2>3. m.pc = next
    BY <1>1 DEF Locals
  <2>4. Goes(r, m)
    BY <2>2
  <2> QED
    BY <1>3, <1>6, <2>3, <2>4
<1>7. PICK r \in Reqs :
         \/ \E p \in TestPatches : UpdateTestRead(r, p)
         \/ UpdateTestCommit(r)
         \/ DeleteTestRead(r)
         \/ DeleteTestCommit(r)
         \/ CreateGroupRead(r)
         \/ \E g \in Groups : CreateGroupCommit(r, g)
         \/ \E g \in DOMAIN group : \E to \in Moves : UpdateGroupRead(r, g, to)
         \/ GroupOrder(r)
         \/ UpdateGroupCommit(r)
         \/ \E g \in DOMAIN group : DeleteGroupRead(r, g)
         \/ DeleteGroupCommit(r)
         \/ \E g \in DOMAIN group : \E b \in QuestionBodies : CreateQuestionRead(r, g, b)
         \/ Number(r)
         \/ \E i \in Questions : CreateQuestionCommit(r, i)
         \/ \E i \in DOMAIN question : \E p \in QuestionPatches : UpdateQuestionRead(r, i, p)
         \/ QuestionOrder(r)
         \/ UpdateQuestionCommit(r)
         \/ \E i \in DOMAIN question : DeleteQuestionRead(r, i)
         \/ DeleteQuestionCommit(r)
  BY <1>5, Zenon DEF Next
<1>8. ~ (\E p \in TestPatches : UpdateTestRead(r, p))
  <2> SUFFICES ASSUME NEW p, UpdateTestRead(r, p) PROVE FALSE
    OBVIOUS
  <2> PICK m : m = [Idle EXCEPT !.pc = "updateTest", !.was = test, !.sets = p]
    OBVIOUS
  <2>1. Goes(r, m) /\ m.pc # "idle"
    BY DEF UpdateTestRead, Idle
  <2> QED
    BY <1>3, <2>1
<1>9. ~ DeleteTestRead(r)
  <2> SUFFICES ASSUME DeleteTestRead(r) PROVE FALSE
    OBVIOUS
  <2> PICK m : m = [Idle EXCEPT !.pc = "deleteTest"]
    OBVIOUS
  <2>1. Goes(r, m) /\ m.pc # "idle"
    BY DEF DeleteTestRead, Idle
  <2> QED
    BY <1>3, <2>1
<1>10. ~ CreateGroupRead(r)
  <2> SUFFICES ASSUME CreateGroupRead(r) PROVE FALSE
    OBVIOUS
  <2> PICK m : m = [Idle EXCEPT !.pc = "createGroup", !.pos = Cardinality(DOMAIN group)]
    OBVIOUS
  <2>1. Goes(r, m) /\ m.pc # "idle"
    BY DEF CreateGroupRead, Idle
  <2> QED
    BY <1>3, <2>1
<1>11. ~ (\E g \in DOMAIN group : \E to \in Moves : UpdateGroupRead(r, g, to))
  <2> SUFFICES ASSUME NEW g, NEW to, UpdateGroupRead(r, g, to) PROVE FALSE
    OBVIOUS
  <2> PICK m : m = [Idle EXCEPT !.pc = "groupOrder", !.id = g, !.was = group[g], !.to = to]
    OBVIOUS
  <2>1. Goes(r, m) /\ m.pc # "idle"
    BY DEF UpdateGroupRead, Idle
  <2> QED
    BY <1>3, <2>1
<1>12. ~ GroupOrder(r)
  <2> PICK table : table = group
    OBVIOUS
  <2>1. GroupOrder(r) => Renumber(r, table, DOMAIN table, "updateGroup")
    BY DEF GroupOrder
  <2> QED
    BY <1>6, <2>1
<1>13. ~ (\E g \in DOMAIN group : DeleteGroupRead(r, g))
  <2> SUFFICES ASSUME NEW g, DeleteGroupRead(r, g) PROVE FALSE
    OBVIOUS
  <2> PICK m : m = [Idle EXCEPT !.pc = "deleteGroup", !.id = g]
    OBVIOUS
  <2>1. Goes(r, m) /\ m.pc # "idle"
    BY DEF DeleteGroupRead, Idle
  <2> QED
    BY <1>3, <2>1
<1>14. ~ (\E g \in DOMAIN group : \E b \in QuestionBodies : CreateQuestionRead(r, g, b))
  <2> SUFFICES ASSUME NEW g, NEW b, CreateQuestionRead(r, g, b) PROVE FALSE
    OBVIOUS
  <2> PICK m : m = [Idle EXCEPT !.pc = IF b.num = None THEN "number" ELSE "createQuestion",
                                !.id = g, !.pos = Cardinality(QuestionsIn(g)),
                                !.num = b.num, !.span = b.span, !.to = b.num]
    OBVIOUS
  <2>1. Goes(r, m) /\ m.pc # "idle"
    BY DEF CreateQuestionRead, Idle
  <2> QED
    BY <1>3, <2>1
<1>15. ~ Number(r)
  <2> SUFFICES ASSUME Number(r) PROVE FALSE
    OBVIOUS
  <2> PICK m : m = [req[r] EXCEPT !.pc = "createQuestion", !.num = LastNumber + 1]
    OBVIOUS
  <2>1. Goes(r, m)
    BY DEF Number
  <2>2. m.pc # "idle"
    BY <1>1 DEF Locals
  <2> QED
    BY <1>3, <2>1, <2>2
<1>16. ~ (\E i \in DOMAIN question : \E p \in QuestionPatches : UpdateQuestionRead(r, i, p))
  <2> SUFFICES ASSUME NEW i, NEW p, UpdateQuestionRead(r, i, p) PROVE FALSE
    OBVIOUS
  <2> PICK m : m = [Idle EXCEPT !.pc = IF p.to = None THEN "updateQuestion" ELSE "questionOrder",
                                !.id = i, !.was = question[i], !.to = p.to, !.sets = p]
    OBVIOUS
  <2>1. Goes(r, m) /\ m.pc # "idle"
    BY DEF UpdateQuestionRead, Idle
  <2> QED
    BY <1>3, <2>1
<1>17. ~ QuestionOrder(r)
  <2> PICK table : table = question
    OBVIOUS
  <2> PICK siblings : siblings = QuestionsIn(req[r].was.group)
    OBVIOUS
  <2>1. QuestionOrder(r) => Renumber(r, table, siblings, "updateQuestion")
    BY DEF QuestionOrder
  <2> QED
    BY <1>6, <2>1
<1>18. ~ (\E i \in DOMAIN question : DeleteQuestionRead(r, i))
  <2> SUFFICES ASSUME NEW i, DeleteQuestionRead(r, i) PROVE FALSE
    OBVIOUS
  <2> PICK m : m = [Idle EXCEPT !.pc = "deleteQuestion", !.id = i]
    OBVIOUS
  <2>1. Goes(r, m) /\ m.pc # "idle"
    BY DEF DeleteQuestionRead, Idle
  <2> QED
    BY <1>3, <2>1
<1>19. Commits(r)
  BY <1>7, <1>8, <1>9, <1>10, <1>11, <1>12, <1>13, <1>14, <1>15, <1>16, <1>17, <1>18, Zenon
     DEF UpdateTestCommit, DeleteTestCommit, CreateGroupCommit, UpdateGroupCommit,
         DeleteGroupCommit, CreateQuestionCommit, UpdateQuestionCommit, DeleteQuestionCommit
<1>20. r = q
  BY <1>4, <1>19
<1> QED
  BY <1>7, <1>8, <1>9, <1>10, <1>11, <1>12, <1>13, <1>14, <1>15, <1>16, <1>17, <1>18, <1>20,
     Zenon

\* A new item that nobody overtakes takes numbers that are free: create_question
\* numbers it behind every number that an item covers.
THEOREM FreshNumbersTheorem == Spec => FreshNumbers
<1>1. IInv /\ [Next]_vars =>
         [\A q \in Reqs :
            (req[q].pc = "createQuestion" /\ req[q].to = None /\ req[q].fresh)
              => \A i \in DOMAIN question' \ DOMAIN question, j \in DOMAIN question :
                    req'[q] = Idle => Covered(i)' \cap Covered(j) = {}]_vars
  <2> SUFFICES ASSUME IInv, [Next]_vars, NEW q \in Reqs,
                      req[q].pc = "createQuestion", req[q].to = None, req[q].fresh,
                      NEW i \in DOMAIN question' \ DOMAIN question,
                      NEW j \in DOMAIN question, req'[q] = Idle
               PROVE  Covered(i)' \cap Covered(j) = {}
    BY Zenon
  <2> PICK l : l = req[q]
    OBVIOUS
  <2>1. PICK x \in Questions : CreateQuestionCommit(q, x)
    BY EndsByCommit DEF UpdateTestCommit, DeleteTestCommit, CreateGroupCommit,
       UpdateGroupCommit, DeleteGroupCommit, UpdateQuestionCommit, DeleteQuestionCommit
  <2>2. LocalsOK(l) /\ FreshOK(l)
    BY DEF IInv, HandlersOK
  <2>3. l.num \in 1..MaxNumber /\ l.span \in Nat
    BY <2>2, ContentAssumption DEF LocalsOK
  <2>4. \A n \in Covered(j) : n < l.num
    BY <2>2 DEF FreshOK
  <2>5. i = x /\ question'[x] = [group |-> l.id, pos |-> l.pos, num |-> l.num, span |-> l.span]
    BY <2>1 DEF CreateQuestionCommit
  <2>6. Covered(i)' = l.num .. (l.num + l.span - 1)
    BY <2>5 DEF Covered
  <2>7. \A n \in l.num .. (l.num + l.span - 1) : l.num <= n
    BY <2>3
  <2>8. Covered(j) \subseteq Int
    BY ContentAssumption DEF IInv, TablesOK, QuestionRow, Covered
  <2>9. ASSUME NEW n \in Covered(i)', n \in Covered(j) PROVE FALSE
    <3>1. n \in Int /\ n < l.num /\ l.num <= n /\ l.num \in Int
      BY <2>3, <2>4, <2>6, <2>7, <2>8, <2>9
    <3> QED
      BY <3>1
  <2> QED
    BY <2>9
<1> QED
  BY <1>1, Inductive, PTL DEF Spec, FreshNumbers

\* Moves a group and closes the gap it leaves (_reorder): a move that nobody
\* overtakes puts the row where it was asked to go, leaves no holes and no doubles,
\* and keeps the order of the others; likewise for the questions of a group.
THEOREM MovesTheorem == Spec => MovesAreContiguous
<1>1. IInv /\ [Next]_vars =>
         [\A q \in Reqs :
            LET l == req[q]
            IN  l.to # None /\ l.fresh /\ req'[q] = Idle =>
                  /\ l.pc = "updateGroup"
                        => Contiguous(group, group', DOMAIN group, l.id, l.to)
                  /\ l.pc = "updateQuestion"
                        => Contiguous(question, question', QuestionsIn(l.was.group),
                                      l.id, l.to)]_vars
  <2> SUFFICES ASSUME IInv, [Next]_vars, NEW q \in Reqs, NEW l, l = req[q],
                      l.to # None, l.fresh, req'[q] = Idle
               PROVE  /\ l.pc = "updateGroup"
                            => Contiguous(group, group', DOMAIN group, l.id, l.to)
                      /\ l.pc = "updateQuestion"
                            => Contiguous(question, question', QuestionsIn(l.was.group),
                                          l.id, l.to)
    BY Zenon
  <2>1. LocalsOK(l) /\ FreshOK(l)
    BY DEF IInv, HandlersOK
  <2>2. ASSUME l.pc = "updateGroup"
        PROVE  Contiguous(group, group', DOMAIN group, l.id, l.to)
    <3>1. UpdateGroupCommit(q)
      BY <2>2, EndsByCommit DEF UpdateTestCommit, DeleteTestCommit, CreateGroupCommit,
         DeleteGroupCommit, CreateQuestionCommit, UpdateQuestionCommit, DeleteQuestionCommit
    <3>2. Moving(l, group, DOMAIN group)
      BY <2>1, <2>2 DEF FreshOK
    <3>3. group' = Renumbered(l.writes, group, DOMAIN group)
      BY <3>1, <3>2 DEF UpdateGroupCommit, Moving, Renumbered, Position
    <3> QED
      BY <3>2, <3>3 DEF Moving
  <2>3. ASSUME l.pc = "updateQuestion"
        PROVE  Contiguous(question, question', QuestionsIn(l.was.group), l.id, l.to)
    <3> PICK siblings : siblings = QuestionsIn(l.was.group)
      OBVIOUS
    <3> PICK new : new = Renumbered(l.writes, question, siblings)
      OBVIOUS
    <3>1. UpdateQuestionCommit(q)
      BY <2>3, EndsByCommit DEF UpdateTestCommit, DeleteTestCommit, CreateGroupCommit,
         UpdateGroupCommit, DeleteGroupCommit, CreateQuestionCommit, DeleteQuestionCommit
    <3>2. Moving(l, question, siblings)
      BY <2>1, <2>3 DEF FreshOK
    <3>3. siblings \subseteq DOMAIN question
      BY DEF QuestionsIn
    <3>4. DOMAIN l.writes \cup {l.id} \subseteq DOMAIN question
      BY <3>2, <3>3 DEF Moving
    <3>5. ASSUME NEW x \in siblings PROVE question'[x].pos = new[x].pos
      <4> PICK row : row = question[x]
        OBVIOUS
      <4>1. row \in QuestionRow
        BY <3>3 DEF IInv, TablesOK
      <4>2. PICK num, span :
               question'[x] = [row EXCEPT !.pos = Position(q, x, row.pos),
                                          !.num = num, !.span = span]
        BY <3>1, <3>3, <3>4 DEF UpdateQuestionCommit
      <4>3. question'[x].pos = Position(q, x, row.pos)
        BY <4>1, <4>2 DEF QuestionRow
      <4> QED
        BY <4>3 DEF Position, Renumbered
    <3>6. l.id \in siblings /\ Contiguous(question, new, siblings, l.id, l.to)
      BY <3>2 DEF Moving
    <3>7. {question'[x].pos : x \in siblings} = {new[x].pos : x \in siblings}
      BY <3>5
    <3> QED
      BY <3>5, <3>6, <3>7 DEF Contiguous
  <2> QED
    BY <2>2, <2>3
<1> QED
  BY <1>1, Inductive, PTL DEF Spec, MovesAreContiguous

-----------------------------------------------------------------------------
(* The addresses of tests.                                                   *)

\* The locals of a handler that looks for a slug.
Titling ==
    [pc : {"idle", "probe", "commit"}, id : Tests \cup {None},
     was : Slug!TestRow \cup {None}, title : Titles \cup {None}, next : Nat, fresh : BOOLEAN]

\* What _unique_slug has found when nobody else has committed: the candidates it
\* passed over are held by others, and the one it settled on is not.
Found(l) ==
    /\ l.id # None => l.id \in DOMAIN named /\ named[l.id] = l.was
    /\ \A n \in 1 .. l.next - 1 : Candidates[l.title][n] \in Slug!Held(l.id)
    /\ l.pc = "commit" => Candidates[l.title][l.next] \notin Slug!Held(l.id)

\* A handler that is not idle has a title, other than the one it loaded.
TitlingOK(l) ==
    /\ l \in Titling
    /\ l.pc # "idle" =>
          /\ l.title \in Titles /\ l.next \in DOMAIN Candidates[l.title]
          /\ l.id # None => l.was \in Slug!TestRow /\ l.was.title # l.title
          /\ l.fresh => Found(l)

AddressesOK ==
    /\ named \in [DOMAIN named -> Slug!TestRow]
    /\ DOMAIN named \subseteq usedTest /\ usedTest \subseteq Tests
    /\ titling = [q \in Reqs |-> titling[q]]
    /\ \A q \in Reqs : TitlingOK(titling[q])

LEMMA AddressesAreTyped ==
    ASSUME AddressesOK
    PROVE  Slug!TypeOK
BY DEF AddressesOK, TitlingOK, Titling, Slug!TypeOK

\* There is a first slug to try for every title, and every one is a slug.
LEMMA CandidatesAreSlugs ==
    ASSUME Slug!ConstantsOK, NEW t \in Titles
    PROVE  /\ Len(Candidates[t]) \in Nat /\ DOMAIN Candidates[t] = 1 .. Len(Candidates[t])
           /\ 1 \in DOMAIN Candidates[t]
           /\ \A n \in DOMAIN Candidates[t] :
                 Candidates[t][n] \in Slug!CandidatesOf(t) /\ Candidates[t][n] \in Slug!Slugs
<1>1. IsFiniteSet(Tests) /\ Slug!Cardinality(Tests) = Cardinality(Tests)
  BY DEF Slug!ConstantsOK, Slug!IsFiniteSet, IsFiniteSet, Slug!Cardinality, Cardinality
<1>2. /\ Len(Candidates[t]) \in Nat /\ DOMAIN Candidates[t] = 1 .. Len(Candidates[t])
      /\ Len(Candidates[t]) > Cardinality(Tests)
  BY <1>1 DEF Slug!ConstantsOK
<1>3. 1 \in DOMAIN Candidates[t]
  BY <1>1, <1>2, FS_CardinalityType
<1>4. ASSUME NEW n \in DOMAIN Candidates[t]
      PROVE  Candidates[t][n] \in Slug!CandidatesOf(t) /\ Candidates[t][n] \in Slug!Slugs
  BY DEF Slug!CandidatesOf, Slug!Slugs
<1> QED
  BY <1>2, <1>3, <1>4

LEMMA IdleTitling == TitlingOK(Slug!Idle) /\ Slug!Idle.pc = "idle"
BY DEF TitlingOK, Titling, Slug!Idle

LEMMA AddressesInit ==
    ASSUME Slug!Init
    PROVE  AddressesOK
BY IdleTitling DEF Slug!Init, AddressesOK

\* A read keeps it when it leaves the handler it moves with a true finding.
LEMMA KeptByLook ==
    ASSUME AddressesOK, NEW q \in Reqs, NEW l, TitlingOK(l), Slug!Goes(q, l),
           UNCHANGED <<named, usedTest>>
    PROVE  AddressesOK'
<1>1. /\ titling' = [p \in Reqs |-> titling'[p]]
      /\ \A p \in Reqs : titling'[p] = IF p = q THEN l ELSE titling[p]
  BY DEF AddressesOK, Slug!Goes
<1>2. \A p \in Reqs : TitlingOK(titling'[p])
  BY <1>1 DEF AddressesOK
<1>3. \A p \in Reqs : TitlingOK(titling[p])'
  BY <1>2 DEF TitlingOK, Titling, Found, Slug!Held, Slug!Others
<1> QED
  BY <1>1, <1>3 DEF AddressesOK

\* A commit keeps it when it keeps the table: whoever it overtakes is no longer
\* fresh.
LEMMA KeptByWrites ==
    ASSUME AddressesOK, NEW q \in Reqs, Slug!Commits(q),
           named' \in [DOMAIN named' -> Slug!TestRow],
           DOMAIN named' \subseteq usedTest', usedTest' \subseteq Tests
    PROVE  AddressesOK'
<1>1. /\ titling' = [p \in Reqs |-> titling'[p]]
      /\ \A p \in Reqs : titling'[p] = IF p = q \/ titling[p] = Slug!Idle THEN Slug!Idle
                                       ELSE [titling[p] EXCEPT !.fresh = FALSE]
  BY DEF AddressesOK, Slug!Commits
<1>2. TitlingOK(Slug!Idle)'
  BY IdleTitling DEF TitlingOK, Titling
<1>3. ASSUME NEW l, TitlingOK(l)
      PROVE  TitlingOK([l EXCEPT !.fresh = FALSE])'
  BY <1>3 DEF TitlingOK, Titling
<1>4. ASSUME NEW p \in Reqs
      PROVE  TitlingOK(titling[p])'
  <2> PICK l : l = titling[p]
    OBVIOUS
  <2>1. TitlingOK(l)
    BY DEF AddressesOK
  <2> PICK m : m = titling'[p]
    OBVIOUS
  <2>2. m = Slug!Idle \/ m = [l EXCEPT !.fresh = FALSE]
    BY <1>1
  <2>3. TitlingOK(m)'
    BY <1>2, <1>3, <2>1, <2>2
  <2> QED
    BY <2>3 DEF TitlingOK, Found, Slug!Held, Slug!Others
<1> QED
  BY <1>1, <1>4 DEF AddressesOK

LEMMA KeptBySlugCreate ==
    ASSUME Slug!ConstantsOK, AddressesOK, NEW q \in Reqs, NEW t \in Titles, Slug!Create(q, t)
    PROVE  AddressesOK'
<1> DEFINE l == [Slug!Idle EXCEPT !.pc = "probe", !.title = t]
<1>1. Slug!Goes(q, l) /\ UNCHANGED <<named, usedTest>>
  BY DEF Slug!Create
<1>2. /\ l.pc = "probe" /\ l.id = None /\ l.was = None /\ l.title = t /\ l.next = 1
      /\ l.fresh = TRUE /\ l \in Titling
  BY DEF Slug!Idle, Titling
<1>3. 1 \in DOMAIN Candidates[t]
  BY CandidatesAreSlugs
<1> HIDE DEF l
<1>4. Found(l)
  BY <1>2 DEF Found
<1>5. TitlingOK(l)
  BY <1>2, <1>3, <1>4 DEF TitlingOK
<1> QED
  BY <1>1, <1>5, KeptByLook

LEMMA KeptByRenameRead ==
    ASSUME Slug!ConstantsOK, AddressesOK, NEW q \in Reqs, NEW i \in DOMAIN named,
           NEW t \in Titles, Slug!RenameRead(q, i, t)
    PROVE  AddressesOK'
<1> DEFINE l == [Slug!Idle EXCEPT !.pc = "probe", !.id = i, !.was = named[i], !.title = t]
<1>1. Slug!Goes(q, l) /\ UNCHANGED <<named, usedTest>> /\ named[i].title # t
  BY DEF Slug!RenameRead
<1>2. named[i] \in Slug!TestRow /\ i \in Tests
  BY DEF AddressesOK
<1>3. /\ l.pc = "probe" /\ l.id = i /\ l.was = named[i] /\ l.title = t /\ l.next = 1
      /\ l.fresh = TRUE /\ l \in Titling
  BY <1>2 DEF Slug!Idle, Titling
<1>4. 1 \in DOMAIN Candidates[t]
  BY CandidatesAreSlugs
<1> HIDE DEF l
<1>5. Found(l)
  BY <1>3 DEF Found
<1>6. TitlingOK(l)
  BY <1>1, <1>2, <1>3, <1>4, <1>5 DEF TitlingOK
<1> QED
  BY <1>1, <1>6, KeptByLook

LEMMA KeptByProbe ==
    ASSUME Slug!ConstantsOK, AddressesOK, NEW q \in Reqs, Slug!Probe(q)
    PROVE  AddressesOK'
<1> PICK l : l = titling[q]
  OBVIOUS
<1>1. /\ TitlingOK(l) /\ l \in Titling /\ l.pc = "probe" /\ l.title \in Titles
      /\ l.next \in DOMAIN Candidates[l.title]
      /\ l.id # None => l.was \in Slug!TestRow /\ l.was.title # l.title
      /\ l.fresh => Found(l)
  BY DEF AddressesOK, TitlingOK, Slug!Probe
<1>2. Slug!Candidate(q) = Candidates[l.title][l.next] /\ UNCHANGED <<named, usedTest>>
  BY DEF Slug!Probe, Slug!Candidate
<1>3. /\ Len(Candidates[l.title]) \in Nat
      /\ DOMAIN Candidates[l.title] = 1 .. Len(Candidates[l.title])
  BY <1>1, CandidatesAreSlugs
<1>4. CASE Slug!Candidate(q) \in Slug!Held(l.id)
  <2> DEFINE m == [l EXCEPT !.next = l.next + 1]
  <2>1. Slug!Goes(q, m) /\ l.next < Len(Candidates[l.title])
    BY <1>4 DEF Slug!Probe, Slug!Goes
  <2>2. /\ m.pc = "probe" /\ m.id = l.id /\ m.was = l.was /\ m.title = l.title
        /\ m.next = l.next + 1 /\ m.fresh = l.fresh /\ m \in Titling
    BY <1>1 DEF Titling
  <2>3. m.next \in DOMAIN Candidates[m.title] /\ l.next \in Nat
    BY <1>1, <1>3, <2>1, <2>2
  <2> HIDE DEF m
  <2>4. l.fresh => Found(m)
    <3> SUFFICES ASSUME l.fresh PROVE Found(m)
      OBVIOUS
    <3>1. ASSUME NEW n \in 1 .. m.next - 1
          PROVE  Candidates[m.title][n] \in Slug!Held(m.id)
      <4>1. n = l.next \/ n \in 1 .. l.next - 1
        BY <2>2, <2>3
      <4> QED
        BY <1>1, <1>2, <1>4, <2>2, <4>1 DEF Found
    <3> QED
      BY <1>1, <2>2, <3>1 DEF Found
  <2>5. TitlingOK(m)
    BY <1>1, <2>2, <2>3, <2>4 DEF TitlingOK
  <2> QED
    BY <1>2, <2>1, <2>5, KeptByLook
<1>5. CASE Slug!Candidate(q) \notin Slug!Held(l.id)
  <2> DEFINE m == [l EXCEPT !.pc = "commit"]
  <2>1. Slug!Goes(q, m)
    BY <1>5 DEF Slug!Probe, Slug!Goes
  <2>2. /\ m.pc = "commit" /\ m.id = l.id /\ m.was = l.was /\ m.title = l.title
        /\ m.next = l.next /\ m.fresh = l.fresh /\ m \in Titling
    BY <1>1 DEF Titling
  <2> HIDE DEF m
  <2>3. l.fresh => Found(m)
    BY <1>1, <1>2, <1>5, <2>2 DEF Found
  <2>4. TitlingOK(m)
    BY <1>1, <2>2, <2>3 DEF TitlingOK
  <2> QED
    BY <1>2, <2>1, <2>4, KeptByLook
<1> QED
  BY <1>4, <1>5

LEMMA KeptBySlugCreateCommit ==
    ASSUME Slug!ConstantsOK, AddressesOK, NEW q \in Reqs, NEW i \in Tests, Slug!CreateCommit(q, i)
    PROVE  AddressesOK'
<1>1. Slug!Commits(q)
  BY DEF Slug!CreateCommit
<1>2. CASE UNCHANGED <<named, usedTest>>
  BY <1>1, <1>2, KeptByWrites DEF AddressesOK
<1>3. CASE ~ UNCHANGED <<named, usedTest>>
  <2>1. /\ named' = [j \in DOMAIN named \cup {i} |->
                       IF j = i THEN [title |-> titling[q].title, slug |-> Slug!Candidate(q)]
                       ELSE named[j]]
        /\ usedTest' = usedTest \cup {i}
    BY <1>3 DEF Slug!CreateCommit
  <2>2. titling[q].title \in Titles /\ titling[q].next \in DOMAIN Candidates[titling[q].title]
    BY DEF AddressesOK, TitlingOK, Slug!CreateCommit
  <2>3. [title |-> titling[q].title, slug |-> Slug!Candidate(q)] \in Slug!TestRow
    BY <2>2, CandidatesAreSlugs DEF Slug!TestRow, Slug!Candidate
  <2>4. named' \in [DOMAIN named' -> Slug!TestRow] /\ DOMAIN named' = DOMAIN named \cup {i}
    BY <2>1, <2>3 DEF AddressesOK
  <2>5. DOMAIN named' \subseteq usedTest' /\ usedTest' \subseteq Tests
    BY <2>1, <2>4 DEF AddressesOK
  <2> QED
    BY <1>1, <2>4, <2>5, KeptByWrites
<1> QED
  BY <1>2, <1>3

\* What a rename that is not refused writes.
RenamedRow(q) ==
    [title |-> Slug!Stored(titling[q].title, titling[q].was.title, named[titling[q].id].title),
     slug |-> Slug!Stored(Slug!Candidate(q), titling[q].was.slug, named[titling[q].id].slug)]

LEMMA RenameWrites ==
    ASSUME AddressesOK, NEW q \in Reqs, Slug!RenameCommit(q)
    PROVE  /\ Slug!Commits(q) /\ usedTest' = usedTest /\ titling[q].pc = "commit"
           /\ \/ named' = named
                 /\ \/ titling[q].id \notin DOMAIN named
                    \/ Slug!Clashes(titling[q].id, RenamedRow(q).slug)
              \/ /\ titling[q].id \in DOMAIN named
                 /\ named' = [named EXCEPT ![titling[q].id] = RenamedRow(q)]
BY DEF Slug!RenameCommit, RenamedRow

LEMMA KeptByRenameCommit ==
    ASSUME Slug!ConstantsOK, AddressesOK, NEW q \in Reqs, Slug!RenameCommit(q)
    PROVE  AddressesOK'
<1> PICK i : i = titling[q].id
  OBVIOUS
<1>1. Slug!Commits(q) /\ usedTest' = usedTest
  BY RenameWrites
<1>2. CASE named' = named
  BY <1>1, <1>2, KeptByWrites DEF AddressesOK
<1>3. CASE i \in DOMAIN named /\ named' = [named EXCEPT ![i] = RenamedRow(q)]
  <2>1. titling[q].title \in Titles /\ titling[q].next \in DOMAIN Candidates[titling[q].title]
    BY DEF AddressesOK, TitlingOK, Slug!RenameCommit
  <2>2. Slug!Candidate(q) \in Slug!Slugs
    BY <2>1, CandidatesAreSlugs DEF Slug!Candidate
  <2>3. named[i].title \in Titles /\ named[i].slug \in Slug!Slugs
    BY <1>3 DEF AddressesOK, Slug!TestRow
  <2>4. RenamedRow(q) \in Slug!TestRow
    BY <2>1, <2>2, <2>3 DEF RenamedRow, Slug!Stored, Slug!TestRow
  <2>5. DOMAIN named' = DOMAIN named /\ named' \in [DOMAIN named' -> Slug!TestRow]
    BY <1>3, <2>4 DEF AddressesOK
  <2> QED
    BY <1>1, <2>5, KeptByWrites DEF AddressesOK
<1> QED
  BY <1>2, <1>3, RenameWrites

LEMMA KeptBySlugDelete ==
    ASSUME AddressesOK, NEW q \in Reqs, NEW i \in Tests, Slug!Delete(q, i)
    PROVE  AddressesOK'
<1>1. /\ Slug!Commits(q) /\ usedTest' = usedTest
      /\ named' = [j \in DOMAIN named \ {i} |-> named[j]]
  BY DEF Slug!Delete
<1> QED
  BY <1>1, KeptByWrites DEF AddressesOK

LEMMA AddressesNext ==
    ASSUME Slug!ConstantsOK, AddressesOK, Slug!Next \/ UNCHANGED slugVars
    PROVE  AddressesOK'
<1>1. ASSUME NEW q \in Reqs, NEW t \in Titles,
             Slug!Create(q, t) \/ \E i \in DOMAIN named : Slug!RenameRead(q, i, t)
      PROVE  AddressesOK'
  BY <1>1, KeptBySlugCreate, KeptByRenameRead
<1>2. ASSUME NEW q \in Reqs, NEW i \in Tests, Slug!CreateCommit(q, i) \/ Slug!Delete(q, i)
      PROVE  AddressesOK'
  BY <1>2, KeptBySlugCreateCommit, KeptBySlugDelete
<1>3. CASE UNCHANGED slugVars
  BY <1>3 DEF slugVars, AddressesOK, TitlingOK, Titling, Found, Slug!Held, Slug!Others
<1> QED
  BY <1>1, <1>2, <1>3, KeptByProbe, KeptByRenameCommit DEF Slug!Next

LEMMA ContentSteps ==
    MCNext => (Next \/ UNCHANGED vars) /\ (Slug!Next \/ UNCHANGED slugVars)
BY DEF MCNext

LEMMA AddressesInductive == MCSpec => []AddressesOK
<1>1. Slug!ConstantsOK
  BY InstancesOK
<1>2. MCInit => AddressesOK
  BY AddressesInit DEF MCInit
<1>3. AddressesOK /\ [MCNext]_<<moving, vars, slugVars>> => AddressesOK'
  BY <1>1, ContentSteps, AddressesNext
<1> QED
  BY <1>2, <1>3, PTL DEF MCSpec

\* A handler with a slug comes to its end by its own commit.
LEMMA EndsByOwnCommit ==
    ASSUME AddressesOK, NEW q \in Reqs, Slug!Ended(q), Slug!Next \/ UNCHANGED slugVars
    PROVE  Slug!RenameCommit(q) \/ \E i \in Tests : Slug!CreateCommit(q, i)
<1>1. titling[q].pc = "commit" /\ titling'[q].pc = "idle" /\ titling[q] # Slug!Idle
  BY IdleTitling DEF Slug!Ended
<1>2. PICK p \in Reqs :
          \/ \E t \in Titles : Slug!Create(p, t) \/ \E i \in DOMAIN named : Slug!RenameRead(p, i, t)
          \/ Slug!Probe(p)
          \/ \E i \in Tests : Slug!CreateCommit(p, i) \/ Slug!Delete(p, i)
          \/ Slug!RenameCommit(p)
  BY <1>1 DEF Slug!Next, slugVars
<1>3. p = q
  <2> SUFFICES ASSUME p # q PROVE FALSE
    OBVIOUS
  <2>1. ASSUME NEW l, Slug!Goes(p, l) PROVE FALSE
    <3>1. titling'[q] = titling[q]
      BY <2>1 DEF AddressesOK, Slug!Goes
    <3> QED
      BY <1>1, <3>1
  <2>2. ASSUME Slug!Commits(p) PROVE FALSE
    <3>1. titling'[q] = [titling[q] EXCEPT !.fresh = FALSE]
      BY <1>1, <2>2 DEF Slug!Commits
    <3>2. titling'[q].pc = titling[q].pc
      BY <3>1 DEF AddressesOK, TitlingOK, Titling
    <3> QED
      BY <1>1, <3>2
  <2> QED
    BY <1>2, <2>1, <2>2
    DEF Slug!Create, Slug!RenameRead, Slug!Probe, Slug!CreateCommit, Slug!Delete, Slug!RenameCommit
<1> QED
  BY <1>1, <1>2, <1>3 DEF Slug!Create, Slug!RenameRead, Slug!Probe, Slug!Delete

\* Nobody else holds the slug that a handler settled on alone: for a new test and
\* for a renamed one.
LEMMA AloneIsNotRefused ==
    ASSUME Slug!ConstantsOK, AddressesOK, NEW q \in Reqs, titling[q].pc = "commit",
           titling[q].fresh, NEW i \in Tests, i = titling[q].id \/ titling[q].id = None
    PROVE  ~ Slug!Clashes(i, Slug!Candidate(q))
<1>1. Found(titling[q])
  BY DEF AddressesOK, TitlingOK
<1>2. Slug!Candidate(q) \notin Slug!Held(titling[q].id)
  BY <1>1 DEF Found, Slug!Candidate
<1>3. DOMAIN named \ {i} \subseteq Slug!Others(titling[q].id)
  <2>1. None \notin DOMAIN named
    BY DEF AddressesOK, Slug!ConstantsOK
  <2> QED
    BY <2>1 DEF Slug!Others
<1> QED
  BY <1>2, <1>3 DEF Slug!Clashes, Slug!Held

\* The slugs that a handler passed over alone are other tests' still.
LEMMA PassedOverAreHeld ==
    ASSUME Slug!ConstantsOK, AddressesOK, NEW q \in Reqs, titling[q].pc = "commit",
           titling[q].fresh, NEW i \in Tests,
           i = titling[q].id \/ (titling[q].id = None /\ i \notin DOMAIN named),
           DOMAIN named \ {i} \subseteq DOMAIN named',
           \A j \in DOMAIN named \ {i} : named'[j] = named[j],
           NEW n \in 1 .. titling[q].next - 1
    PROVE  \E j \in DOMAIN named' \ {i} : named'[j].slug = Candidates[titling[q].title][n]
<1>1. Found(titling[q])
  BY DEF AddressesOK, TitlingOK
<1>2. Candidates[titling[q].title][n] \in Slug!Held(titling[q].id)
  BY <1>1 DEF Found
<1>3. PICK j \in DOMAIN named \ {titling[q].id} :
          named[j].slug = Candidates[titling[q].title][n]
  BY <1>2 DEF Slug!Held, Slug!Others
<1>4. j # i
  BY <1>3
<1> QED
  BY <1>3, <1>4

LEMMA FirstFreeStep ==
    ASSUME Slug!ConstantsOK, AddressesOK, Slug!Next \/ UNCHANGED slugVars,
           NEW q \in Reqs, Slug!Ended(q), titling[q].fresh
    PROVE  \E i \in DOMAIN named' :
              /\ i = titling[q].id \/ (titling[q].id = None /\ i \notin DOMAIN named)
              /\ named'[i].title = titling[q].title
              /\ named'[i].slug = Slug!Candidate(q)
              /\ \A n \in 1 .. titling[q].next - 1 :
                    \E j \in DOMAIN named' \ {i} :
                        named'[j].slug = Candidates[titling[q].title][n]
<1>1. titling[q].pc = "commit"
  BY DEF Slug!Ended
<1>2. ASSUME NEW i \in Tests, Slug!CreateCommit(q, i)
      PROVE  /\ i \in DOMAIN named' /\ i \notin DOMAIN named /\ titling[q].id = None
             /\ named'[i].title = titling[q].title
             /\ named'[i].slug = Slug!Candidate(q)
             /\ DOMAIN named \ {i} \subseteq DOMAIN named'
             /\ \A j \in DOMAIN named \ {i} : named'[j] = named[j]
  <2>1. titling[q].id = None /\ i \notin DOMAIN named
    BY <1>2 DEF Slug!CreateCommit, AddressesOK
  <2>2. ~ Slug!Clashes(i, Slug!Candidate(q))
    BY <1>1, <2>1, AloneIsNotRefused
  <2>3. named' = [j \in DOMAIN named \cup {i} |->
                    IF j = i THEN [title |-> titling[q].title, slug |-> Slug!Candidate(q)]
                    ELSE named[j]]
    BY <1>2, <2>2 DEF Slug!CreateCommit
  <2> QED
    BY <2>1, <2>3
<1>3. ASSUME Slug!RenameCommit(q), NEW i, i = titling[q].id
      PROVE  /\ i \in Tests /\ i \in DOMAIN named'
             /\ named'[i].title = titling[q].title
             /\ named'[i].slug = Slug!Candidate(q)
             /\ DOMAIN named \ {i} \subseteq DOMAIN named'
             /\ \A j \in DOMAIN named \ {i} : named'[j] = named[j]
  <2>1. Found(titling[q]) /\ titling[q].id # None
    BY <1>1, <1>3 DEF AddressesOK, TitlingOK, Slug!RenameCommit
  <2>2. i \in DOMAIN named /\ named[i] = titling[q].was /\ i \in Tests
    BY <1>3, <2>1 DEF Found, AddressesOK
  <2>3. RenamedRow(q) = [title |-> titling[q].title, slug |-> Slug!Candidate(q)]
    BY <1>3, <2>2 DEF RenamedRow, Slug!Stored
  <2>4. ~ Slug!Clashes(i, Slug!Candidate(q))
    BY <1>1, <1>3, <2>2, AloneIsNotRefused
  <2>5. named' = [named EXCEPT ![i] = RenamedRow(q)]
    BY <1>3, <2>2, <2>3, <2>4, RenameWrites
  <2> QED
    BY <2>2, <2>3, <2>5
<1>4. CASE Slug!RenameCommit(q)
  <2> PICK i : i = titling[q].id
    OBVIOUS
  <2> QED
    BY <1>1, <1>3, <1>4, PassedOverAreHeld
<1>5. CASE \E i \in Tests : Slug!CreateCommit(q, i)
  <2> PICK i \in Tests : Slug!CreateCommit(q, i)
    BY <1>5
  <2> QED
    BY <1>1, <1>2, PassedOverAreHeld
<1> QED
  BY <1>4, <1>5, EndsByOwnCommit

\* Of a rename, only the loaded slug can fail to fit.
LEMMA FitsStep ==
    ASSUME Slug!ConstantsOK, AddressesOK, Slug!Next \/ UNCHANGED slugVars,
           NEW i \in DOMAIN named', ~ Slug!Fits(named'[i]),
           i \notin DOMAIN named \/ Slug!Fits(named[i])
    PROVE  \E q \in Reqs : /\ Slug!Ended(q) /\ titling[q].id = i /\ ~titling[q].fresh
                           /\ titling[q].was.slug = Slug!Candidate(q)
<1>1. ~ (i \in DOMAIN named /\ named'[i] = named[i])
  OBVIOUS
<1>2. ASSUME NEW q \in Reqs, NEW j \in Tests, Slug!CreateCommit(q, j)
      PROVE  FALSE
  <2>1. named' = [k \in DOMAIN named \cup {j} |->
                    IF k = j THEN [title |-> titling[q].title, slug |-> Slug!Candidate(q)]
                    ELSE named[k]]
    BY <1>1, <1>2 DEF Slug!CreateCommit
  <2>2. i = j /\ named'[i] = [title |-> titling[q].title, slug |-> Slug!Candidate(q)]
    BY <1>1, <2>1
  <2>3. titling[q].title \in Titles /\ titling[q].next \in DOMAIN Candidates[titling[q].title]
    BY <1>2 DEF AddressesOK, TitlingOK, Slug!CreateCommit
  <2> QED
    BY <2>2, <2>3, CandidatesAreSlugs DEF Slug!Fits, Slug!Candidate
<1>3. ASSUME NEW q \in Reqs, Slug!RenameCommit(q)
      PROVE  /\ Slug!Ended(q) /\ titling[q].id = i /\ ~titling[q].fresh
             /\ titling[q].was.slug = Slug!Candidate(q)
  <2>1. /\ Slug!Commits(q) /\ titling[q].pc = "commit" /\ titling[q].id \in DOMAIN named
        /\ named' = [named EXCEPT ![titling[q].id] = RenamedRow(q)]
    BY <1>1, <1>3, RenameWrites
  <2>2. i = titling[q].id /\ named'[i] = RenamedRow(q)
    BY <1>1, <2>1
  <2>3. Slug!Ended(q)
    BY <2>1 DEF Slug!Ended, Slug!Commits
  <2>4. /\ titling[q].title \in Titles /\ titling[q].next \in DOMAIN Candidates[titling[q].title]
        /\ titling[q].was.title # titling[q].title /\ (titling[q].fresh => Found(titling[q]))
    BY <1>3 DEF AddressesOK, TitlingOK, Slug!RenameCommit
  <2>5. Slug!Candidate(q) \in Slug!CandidatesOf(titling[q].title)
    BY <2>4, CandidatesAreSlugs DEF Slug!Candidate
  <2>6. RenamedRow(q).title = titling[q].title
    BY <2>4 DEF RenamedRow, Slug!Stored
  <2>7. RenamedRow(q).slug # Slug!Candidate(q)
    BY <2>2, <2>5, <2>6 DEF Slug!Fits
  <2>8. titling[q].was.slug = Slug!Candidate(q) /\ named[i].slug # Slug!Candidate(q)
    BY <2>2, <2>7 DEF RenamedRow, Slug!Stored
  <2>9. ~ titling[q].fresh
    <3>1. titling[q].id # None
      BY <1>3 DEF Slug!RenameCommit
    <3> QED
      BY <2>2, <2>4, <2>8, <3>1 DEF Found
  <2> QED
    BY <2>2, <2>3, <2>8, <2>9
<1>4. \/ \E q \in Reqs : Slug!RenameCommit(q)
      \/ \E q \in Reqs, j \in Tests : Slug!CreateCommit(q, j)
  <2>1. named' # named
    BY <1>1
  <2>2. ASSUME NEW q \in Reqs, NEW j \in Tests, Slug!Delete(q, j) PROVE FALSE
    BY <1>1, <2>2 DEF Slug!Delete
  <2> QED
    BY <2>1, <2>2 DEF Slug!Next, Slug!Create, Slug!RenameRead, Slug!Probe, slugVars
<1> QED
  BY <1>2, <1>3, <1>4

\* create_test and update_test give a test the first free slug of its title
\* unless another request commits in between, and an address that says another
\* title comes from a rename that was overtaken: for any tests, titles, slugs and
\* requests in flight.
THEOREM SlugsTheorem == MCSpec => SlugsSettle
<1>1. Slug!ConstantsOK
  BY InstancesOK
<1>2. MCSpec => Slug!AloneGetsFirstFree
  <2>1. AddressesOK /\ [MCNext]_<<moving, vars, slugVars>> =>
          [\A q \in Reqs :
              Slug!Ended(q) /\ titling[q].fresh =>
                  \E i \in DOMAIN named' :
                      /\ i = titling[q].id \/ (titling[q].id = None /\ i \notin DOMAIN named)
                      /\ named'[i].title = titling[q].title
                      /\ named'[i].slug = Slug!Candidate(q)
                      /\ \A n \in 1 .. titling[q].next - 1 :
                            \E j \in DOMAIN named' \ {i} :
                                named'[j].slug = Candidates[titling[q].title][n]]_(Slug!vars)
    BY <1>1, ContentSteps, FirstFreeStep
  <2> QED
    BY <2>1, AddressesInductive, PTL DEF MCSpec, Slug!AloneGetsFirstFree
<1>3. MCSpec => Slug!SlugFitsTitle
  <2>1. AddressesOK /\ [MCNext]_<<moving, vars, slugVars>> =>
          [\A i \in DOMAIN named' :
              ~Slug!Fits(named'[i]) =>
                  \/ i \in DOMAIN named /\ ~Slug!Fits(named[i])
                  \/ \E q \in Reqs : /\ Slug!Ended(q) /\ titling[q].id = i /\ ~titling[q].fresh
                                     /\ titling[q].was.slug = Slug!Candidate(q)]_(Slug!vars)
    BY <1>1, ContentSteps, FitsStep
  <2> QED
    BY <2>1, AddressesInductive, PTL DEF MCSpec, Slug!SlugFitsTitle
<1> QED
  BY <1>2, <1>3, PTL DEF SlugsSettle, Slug!SlugsSettle

\* The tables and locals of both parts are well typed.
THEOREM TypesTheorem == MCSpec => []TypesOK
<1>1. MCSpec => Spec
  <2>1. MCInit => Init
    BY DEF MCInit
  <2>2. [MCNext]_<<moving, vars, slugVars>> => [Next]_vars
    BY ContentSteps
  <2> QED
    BY <2>1, <2>2, PTL DEF MCSpec, Spec
<1> QED
  BY <1>1, TypeInvariant, AddressesInductive, AddressesAreTyped, PTL DEF TypesOK

=============================================================================
