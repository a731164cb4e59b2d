-------------------------- MODULE DeploymentProofs --------------------------
(***************************************************************************)
(* Theorems about Deployment for any schema, any database that an older     *)
(* version left behind, and any number of accounts, roles, requests and     *)
(* restarts: a server that is up is complete, the role ladder stands, and   *)
(* nobody climbs to its top.                                                *)
(***************************************************************************)
EXTENDS Deployment, FiniteSetTheorems, SequenceTheorems, TLAPS

-----------------------------------------------------------------------------
(* Sequences of statements.  FlattenSeq is a recursive function: that it has *)
(* a value, and what its value holds, goes by induction, which is carried    *)
(* out on the least number that would be an exception.                       *)

\* Every set of numbers has a least one.
LEMMA LeastNumber ==
    ASSUME NEW T \in SUBSET Nat, T # {}
    PROVE  \E x \in T : \A y \in T : x <= y
<1> DEFINE Less == {p \in Nat \X Nat : p[1] < p[2]}
<1>1. IsWellFoundedOn(Less, Nat)
  BY NatLessThanWellFounded, Zenon DEF OpToRel
<1>2. \E x \in T : \A y \in T : ~ (<<y, x>> \in Less)
  <2> HIDE DEF Less
  <2> QED
    BY <1>1, WFMin
<1>3. PICK x \in T : \A y \in T : <<y, x>> \notin Less
  BY <1>2
<1>4. ASSUME NEW y \in T PROVE x <= y
  <2>1. x \in Nat /\ y \in Nat /\ ~ (y < x)
    BY <1>3
  <2> QED
    BY <2>1
<1> QED
  BY <1>4

\* The elements of two sequences one after the other.
LEMMA Elements ==
    ASSUME NEW E, NEW s \in Seq(E), NEW t \in Seq(E)
    PROVE  S!ToSet(s \o t) = S!ToSet(s) \cup S!ToSet(t)
<1>1. /\ DOMAIN s = 1 .. Len(s) /\ DOMAIN t = 1 .. Len(t)
      /\ DOMAIN (s \o t) = 1 .. (Len(s) + Len(t)) /\ Len(s) \in Nat /\ Len(t) \in Nat
      /\ \A i \in 1 .. (Len(s) + Len(t)) :
            (s \o t)[i] = IF i <= Len(s) THEN s[i] ELSE t[i - Len(s)]
  BY ConcatProperties, LenProperties
<1>2. ASSUME NEW x \in S!ToSet(s \o t) PROVE x \in S!ToSet(s) \cup S!ToSet(t)
  <2>1. PICK i \in 1 .. (Len(s) + Len(t)) : x = (s \o t)[i]
    BY <1>1 DEF S!ToSet
  <2>2. CASE i <= Len(s)
    BY <1>1, <2>1, <2>2 DEF S!ToSet
  <2>3. CASE ~ (i <= Len(s))
    <3>1. i - Len(s) \in 1 .. Len(t)
      BY <1>1, <2>3
    <3> QED
      BY <1>1, <2>1, <2>3, <3>1 DEF S!ToSet
  <2> QED
    BY <2>2, <2>3
<1>3. ASSUME NEW i \in 1 .. Len(s) PROVE s[i] \in S!ToSet(s \o t)
  <2>1. i \in 1 .. (Len(s) + Len(t)) /\ (s \o t)[i] = s[i]
    BY <1>1
  <2> QED
    BY <1>1, <2>1 DEF S!ToSet
<1>4. ASSUME NEW i \in 1 .. Len(t) PROVE t[i] \in S!ToSet(s \o t)
  <2> DEFINE j == i + Len(s)
  <2>1. j \in 1 .. (Len(s) + Len(t)) /\ ~ (j <= Len(s)) /\ j - Len(s) = i
    BY <1>1
  <2> HIDE DEF j
  <2>2. (s \o t)[j] = t[i]
    BY <1>1, <2>1
  <2> QED
    BY <1>1, <2>1, <2>2 DEF S!ToSet
<1> QED
  BY <1>1, <1>2, <1>3, <1>4 DEF S!ToSet

\* Flattening sequences of a set that is closed under concatenation stays in
\* that set, and keeps every element.
LEMMA Flattened ==
    ASSUME NEW E, NEW G, G \subseteq Seq(E),
           <<>> \in G, \A s, t \in G : s \o t \in G,
           NEW n \in Nat, NEW ss \in [1..n -> G]
    PROVE  /\ S!FlattenSeq(ss) \in G
           /\ \A k \in 1..n : S!ToSet(ss[k]) \subseteq S!ToSet(S!FlattenSeq(ss))
<1> DEFINE flatten[i \in 1 .. Len(ss)] == IF i = 1 THEN ss[i] ELSE flatten[i-1] \o ss[i]
           Solves(f, m) == f = [i \in 1 .. m |-> IF i = 1 THEN ss[i] ELSE f[i-1] \o ss[i]]
<1>1. Len(ss) = n
  OBVIOUS
<1>2. CASE n = 0
  <2>1. ss = <<>>
    BY <1>2
  <2> QED
    BY <1>1, <1>2, <2>1 DEF S!FlattenSeq
<1>3. CASE n # 0
  <2>1. S!FlattenSeq(ss) = flatten[n]
    BY <1>1, <1>3 DEF S!FlattenSeq
  <2>2. \E f : Solves(f, n)
    <3> SUFFICES ASSUME ~ \E f : Solves(f, n) PROVE FALSE
      OBVIOUS
    <3> DEFINE T == {m \in Nat : ~ \E f : Solves(f, m)}
    <3>1. PICK m \in T : \A y \in T : m <= y
      BY LeastNumber
    <3>2. m # 0
      <4>1. Solves([i \in 1 .. 0 |-> <<>>], 0)
        OBVIOUS
      <4> QED
        BY <3>1, <4>1
    <3>3. PICK f : Solves(f, m - 1)
      <4>1. m - 1 \in Nat /\ ~ (m <= m - 1)
        BY <3>1, <3>2
      <4> QED
        BY <3>1, <4>1
    <3> DEFINE g == [i \in 1 .. m |-> IF i = m THEN (IF i = 1 THEN ss[i] ELSE f[i-1] \o ss[i])
                                      ELSE f[i]]
    <3>4. ASSUME NEW i \in 1 .. m
          PROVE  g[i] = IF i = 1 THEN ss[i] ELSE g[i-1] \o ss[i]
      <4>1. i # 1 => i - 1 \in 1 .. m /\ i - 1 # m /\ g[i-1] = f[i-1]
        BY <3>1
      <4>2. CASE i = m
        BY <4>1, <4>2
      <4>3. CASE i # m
        <5>1. i \in 1 .. (m - 1)
          BY <3>1, <4>3
        <5> QED
          BY <3>3, <4>1, <4>3, <5>1
      <4> QED
        BY <4>2, <4>3
    <3>5. g = [i \in 1 .. m |-> g[i]]
      OBVIOUS
    <3> HIDE DEF g
    <3>6. Solves(g, m)
      BY <3>4, <3>5
    <3> QED
      BY <3>1, <3>6
  <2>3. Solves(flatten, n)
    BY <1>1, <2>2
  <2> HIDE DEF flatten
  <2>4. \A i \in 1 .. n : flatten[i] = IF i = 1 THEN ss[i] ELSE flatten[i-1] \o ss[i]
    BY <2>3
  <2> DEFINE Kept(m) == /\ flatten[m] \in G
                        /\ \A k \in 1 .. m : S!ToSet(ss[k]) \subseteq S!ToSet(flatten[m])
  <2>5. Kept(n)
    <3> SUFFICES ASSUME ~ Kept(n) PROVE FALSE
      OBVIOUS
    <3> DEFINE T == {m \in 1 .. n : ~ Kept(m)}
    <3>1. PICK m \in T : \A y \in T : m <= y
      <4>1. n \in T /\ T \in SUBSET Nat
        BY <1>3
      <4> HIDE DEF T
      <4> QED
        BY <4>1, LeastNumber
    <3>2. m # 1
      <4>1. flatten[1] = ss[1]
        BY <1>3, <2>4
      <4> QED
        BY <1>3, <3>1, <4>1
    <3>3. m - 1 \in 1 .. n /\ Kept(m - 1)
      <4>1. m - 1 \in 1 .. n /\ ~ (m <= m - 1)
        BY <3>1, <3>2
      <4> QED
        BY <3>1, <4>1
    <3>4. flatten[m] = flatten[m-1] \o ss[m] /\ ss[m] \in G
      BY <2>4, <3>1, <3>2
    <3>5. S!ToSet(flatten[m]) = S!ToSet(flatten[m-1]) \cup S!ToSet(ss[m])
      BY <3>3, <3>4, Elements
    <3>6. \A k \in 1 .. m : k \in 1 .. (m - 1) \/ k = m
      BY <3>1
    <3>7. Kept(m)
      BY <3>3, <3>4, <3>5, <3>6
    <3> QED
      BY <3>1, <3>7
  <2> QED
    BY <2>1, <2>5
<1> QED
  BY <1>2, <1>3
\* The elements of a sequence are its head and those of its tail.
LEMMA HeadAndTail ==
    ASSUME NEW E, NEW s \in Seq(E), s # <<>>
    PROVE  /\ Head(s) \in E /\ Tail(s) \in Seq(E) /\ Head(s) \in S!ToSet(s)
           /\ S!ToSet(s) = {Head(s)} \cup S!ToSet(Tail(s))
           /\ Len(s) \in Nat /\ Len(Tail(s)) = Len(s) - 1 /\ Head(s) = s[1]
           /\ \A k \in 1 .. Len(Tail(s)) : Tail(s)[k] = s[k+1]
<1>1. /\ Head(s) \in E /\ Tail(s) \in Seq(E) /\ Head(s) = s[1] /\ Len(s) \in Nat \ {0}
      /\ Len(Tail(s)) = Len(s) - 1 /\ DOMAIN s = 1 .. Len(s)
      /\ DOMAIN Tail(s) = 1 .. (Len(s) - 1)
      /\ \A k \in 1 .. Len(Tail(s)) : Tail(s)[k] = s[k+1]
  OBVIOUS
<1>2. ASSUME NEW x \in S!ToSet(s) PROVE x = Head(s) \/ x \in S!ToSet(Tail(s))
  <2>1. PICK i \in 1 .. Len(s) : x = s[i]
    BY <1>1 DEF S!ToSet
  <2>2. CASE i = 1
    BY <1>1, <2>1, <2>2
  <2>3. CASE i # 1
    <3>1. i - 1 \in 1 .. (Len(s) - 1) /\ Tail(s)[i-1] = s[(i-1)+1] /\ (i-1)+1 = i
      BY <1>1, <2>3
    <3> QED
      BY <1>1, <2>1, <3>1 DEF S!ToSet
  <2> QED
    BY <2>2, <2>3
<1>3. ASSUME NEW x \in S!ToSet(Tail(s)) PROVE x \in S!ToSet(s)
  <2>1. PICK i \in 1 .. (Len(s) - 1) : x = Tail(s)[i]
    BY <1>1 DEF S!ToSet
  <2>2. x = s[i+1] /\ i + 1 \in 1 .. Len(s)
    BY <1>1, <2>1
  <2> QED
    BY <1>1, <2>2 DEF S!ToSet
<1>4. Head(s) \in S!ToSet(s)
  BY <1>1 DEF S!ToSet
<1> QED
  BY <1>1, <1>2, <1>3, <1>4

-----------------------------------------------------------------------------
(* What create_all runs.                                                     *)

Statement == [table: S!ToSet(Tables), index: S!DeclaredIndexes \cup {None}]

Making(t) == [table |-> t, index |-> None]

Indexing(t, i) == [table |-> t, index |-> i]

\* Sequences of statements in which an index comes after its table.
Scripts ==
    {s \in Seq(Statement) :
        \A k \in 1 .. Len(s) :
            s[k].index # None =>
                /\ s[k].index \in S!IndexesOf(s[k].table)
                /\ \E j \in 1 .. (k - 1) : s[j] = Making(s[k].table)}

\* One script after the other is a script.
LEMMA ScriptsConcat ==
    ASSUME NEW s \in Scripts, NEW t \in Scripts
    PROVE  s \o t \in Scripts
<1>1. /\ s \in Seq(Statement) /\ t \in Seq(Statement) /\ s \o t \in Seq(Statement)
      /\ Len(s) \in Nat /\ Len(t) \in Nat /\ Len(s \o t) = Len(s) + Len(t)
      /\ \A i \in 1 .. (Len(s) + Len(t)) :
            (s \o t)[i] = IF i <= Len(s) THEN s[i] ELSE t[i - Len(s)]
  BY ConcatProperties, LenProperties DEF Scripts
<1>2. ASSUME NEW k \in 1 .. (Len(s) + Len(t)), (s \o t)[k].index # None
      PROVE  /\ (s \o t)[k].index \in S!IndexesOf((s \o t)[k].table)
             /\ \E j \in 1 .. (k - 1) : (s \o t)[j] = Making((s \o t)[k].table)
  <2>1. CASE k <= Len(s)
    <3>1. (s \o t)[k] = s[k] /\ k \in 1 .. Len(s)
      BY <1>1, <2>1
    <3>2. s[k].index \in S!IndexesOf(s[k].table)
          /\ \E j \in 1 .. (k - 1) : s[j] = Making(s[k].table)
      BY <1>2, <3>1 DEF Scripts
    <3>3. PICK j \in 1 .. (k - 1) : s[j] = Making(s[k].table)
      BY <3>2
    <3>4. (s \o t)[j] = s[j]
      BY <1>1, <2>1
    <3> QED
      BY <3>1, <3>2, <3>3, <3>4
  <2>2. CASE ~ (k <= Len(s))
    <3> DEFINE m == k - Len(s)
    <3>1. (s \o t)[k] = t[m] /\ m \in 1 .. Len(t)
      BY <1>1, <2>2
    <3> HIDE DEF m
    <3>2. t[m].index \in S!IndexesOf(t[m].table)
          /\ \E j \in 1 .. (m - 1) : t[j] = Making(t[m].table)
      BY <1>2, <3>1 DEF Scripts
    <3>3. PICK j \in 1 .. (m - 1) : t[j] = Making(t[m].table)
      BY <3>2
    <3> DEFINE n == j + Len(s)
    <3>4. n \in 1 .. (k - 1) /\ n \in 1 .. (Len(s) + Len(t)) /\ ~ (n <= Len(s)) /\ n - Len(s) = j
      BY <1>1, <3>1 DEF m
    <3> HIDE DEF n
    <3>5. (s \o t)[n] = t[j]
      BY <1>1, <3>4
    <3> QED
      BY <3>1, <3>2, <3>3, <3>4, <3>5
  <2> QED
    BY <2>1, <2>2
<1> QED
  BY <1>1, <1>2 DEF Scripts

\* The statements for one table are a script that makes the table and all its
\* indexes.
LEMMA CreationScript ==
    ASSUME NEW t \in S!ToSet(Tables)
    PROVE  /\ S!Creation(t) \in Scripts
           /\ Making(t) \in S!ToSet(S!Creation(t))
           /\ \A i \in S!IndexesOf(t) : Indexing(t, i) \in S!ToSet(S!Creation(t))
<1> DEFINE first == <<Making(t)>>
           rest == [k \in DOMAIN Indexes[t] |-> Indexing(t, Indexes[t][k])]
<1>0. /\ Indexes[t] \in Seq(S!DeclaredIndexes) /\ None \notin S!DeclaredIndexes
      /\ DOMAIN Indexes[t] = 1 .. Len(Indexes[t]) /\ Len(Indexes[t]) \in Nat
  BY ConstantsAssumption, LenProperties DEF S!ConstantsOK
<1>1. /\ first \in Seq(Statement) /\ Len(first) = 1 /\ first[1] = Making(t)
      /\ S!ToSet(first) = {Making(t)}
  BY DEF S!ToSet, Statement, Making
<1>2. /\ rest \in Seq(Statement) /\ Len(rest) = Len(Indexes[t])
      /\ \A k \in 1 .. Len(rest) : rest[k] = Indexing(t, Indexes[t][k])
  <2>1. \A k \in DOMAIN Indexes[t] : Indexing(t, Indexes[t][k]) \in Statement
    BY <1>0 DEF Indexing, Statement
  <2>2. rest \in [1 .. Len(Indexes[t]) -> Statement]
    BY <1>0, <2>1
  <2>3. \A k \in 1 .. Len(Indexes[t]) : rest[k] = Indexing(t, Indexes[t][k])
    BY <1>0
  <2> HIDE DEF rest
  <2>4. rest \in Seq(Statement) /\ Len(rest) = Len(Indexes[t])
    BY <1>0, <2>2
  <2> QED
    BY <2>3, <2>4
<1>3. S!Creation(t) = first \o rest
  BY DEF S!Creation, Making, Indexing
<1>4. \A i \in S!IndexesOf(t) : Indexing(t, i) \in S!ToSet(rest)
  BY <1>0 DEF S!IndexesOf, S!ToSet
<1> HIDE DEF first, rest
<1>5. S!ToSet(first \o rest) = S!ToSet(first) \cup S!ToSet(rest)
  BY <1>1, <1>2, Elements
<1>6. first \o rest \in Scripts
  <2>1. /\ first \o rest \in Seq(Statement) /\ Len(first \o rest) = 1 + Len(rest)
        /\ Len(rest) \in Nat
        /\ \A i \in 1 .. (1 + Len(rest)) :
              (first \o rest)[i] = IF i <= 1 THEN first[i] ELSE rest[i - 1]
    <3>0. first \in Seq(Statement) /\ rest \in Seq(Statement)
      BY <1>1, <1>2
    <3>1. /\ first \o rest \in Seq(Statement) /\ Len(first \o rest) = Len(first) + Len(rest)
          /\ \A i \in 1 .. (Len(first) + Len(rest)) :
                (first \o rest)[i] = IF i <= Len(first) THEN first[i] ELSE rest[i - Len(first)]
      BY <3>0, ConcatProperties
    <3>2. Len(first) = 1 /\ Len(rest) \in Nat
      BY <1>1, <1>2, LenProperties
    <3> QED
      BY <3>1, <3>2
  <2>2. (first \o rest)[1] = Making(t)
    BY <1>1, <2>1
  <2>3. ASSUME NEW k \in 1 .. (1 + Len(rest)), (first \o rest)[k].index # None
        PROVE  /\ (first \o rest)[k].index \in S!IndexesOf((first \o rest)[k].table)
               /\ \E j \in 1 .. (k - 1) : (first \o rest)[j] = Making((first \o rest)[k].table)
    <3>1. k # 1
      <4>1. Making(t).index = None
        BY DEF Making
      <4> QED
        BY <2>2, <2>3, <4>1
    <3>2. k - 1 \in 1 .. Len(rest) /\ 1 \in 1 .. (k - 1)
      BY <2>1, <3>1
    <3>3. (first \o rest)[k] = Indexing(t, Indexes[t][k - 1])
      BY <1>2, <2>1, <3>1, <3>2
    <3>4. Indexes[t][k - 1] \in S!IndexesOf(t)
      BY <1>0, <1>2, <3>2 DEF S!IndexesOf, S!ToSet
    <3> QED
      BY <2>2, <3>2, <3>3, <3>4 DEF Indexing
  <2> QED
    BY <2>1, <2>3 DEF Scripts
<1> QED
  BY <1>1, <1>3, <1>4, <1>5, <1>6

\* What a boot has to run, when it begins: all statements for the tables that
\* are missing.
LEMMA BeginScript ==
    ASSUME NEW have
    PROVE  LET script == S!FlattenSeq([k \in DOMAIN Tables |->
                            IF Tables[k] \in have THEN <<>> ELSE S!Creation(Tables[k])])
           IN  /\ script \in Scripts
               /\ \A t \in S!ToSet(Tables) \ have :
                     /\ Making(t) \in S!ToSet(script)
                     /\ \A i \in S!IndexesOf(t) : Indexing(t, i) \in S!ToSet(script)
<1> DEFINE ss == [k \in DOMAIN Tables |-> IF Tables[k] \in have THEN <<>> ELSE S!Creation(Tables[k])]
<1>1. Tables \in Seq(S!ToSet(Tables)) /\ DOMAIN Tables = 1 .. Len(Tables) /\ Len(Tables) \in Nat
  BY ConstantsAssumption, LenProperties DEF S!ConstantsOK
<1>2. <<>> \in Scripts /\ Scripts \subseteq Seq(Statement)
  BY DEF Scripts
<1>3. ss \in [1 .. Len(Tables) -> Scripts]
  <2>1. \A k \in DOMAIN Tables : Tables[k] \in S!ToSet(Tables)
    BY DEF S!ToSet
  <2> QED
    BY <1>1, <1>2, <2>1, CreationScript
<1>4. \A k \in 1 .. Len(Tables) : Tables[k] \notin have => ss[k] = S!Creation(Tables[k])
  BY <1>1
<1> HIDE DEF ss
<1>5. /\ S!FlattenSeq(ss) \in Scripts
      /\ \A k \in 1 .. Len(Tables) : S!ToSet(ss[k]) \subseteq S!ToSet(S!FlattenSeq(ss))
  BY <1>1, <1>2, <1>3, ScriptsConcat, Flattened
<1>6. ASSUME NEW t \in S!ToSet(Tables) \ have
      PROVE  /\ Making(t) \in S!ToSet(S!FlattenSeq(ss))
             /\ \A i \in S!IndexesOf(t) : Indexing(t, i) \in S!ToSet(S!FlattenSeq(ss))
  <2>1. PICK k \in 1 .. Len(Tables) : t = Tables[k]
    BY <1>1 DEF S!ToSet
  <2> QED
    BY <1>4, <1>5, <2>1, CreationScript
<1> QED
  BY <1>5, <1>6 DEF ss

-----------------------------------------------------------------------------
(* How far a boot has come.                                                  *)

\* What is not done yet is among the statements still to run, and an index
\* comes after its table.
Progress ==
    /\ phase = "create" =>
          /\ todo \in Seq(Statement)
          /\ \A k \in 1 .. Len(todo) :
                todo[k].index # None =>
                    /\ todo[k].index \in S!IndexesOf(todo[k].table)
                    /\ \/ todo[k].table \in tables
                       \/ \E j \in 1 .. (k - 1) : todo[j] = Making(todo[k].table)
          /\ \A t \in S!ToSet(Tables) \ tables : Making(t) \in S!ToSet(todo)
    /\ phase \notin {"down", "create"} => tables = S!ToSet(Tables)
    /\ phase = "alter" =>
          /\ todo \in Seq(S!ToSet(Additions))
          /\ S!ToSet(Additions) \subseteq columns \cup S!ToSet(todo)
    /\ phase \notin {"down", "create", "alter"} => S!ToSet(Additions) \subseteq columns
    /\ phase = "index" =>
          /\ todo \in Seq(S!DeclaredIndexes)
          /\ S!ToSet(LateIndexes) \subseteq indexes \cup S!ToSet(todo)
    /\ phase \notin {"down", "create", "alter", "index"} => S!ToSet(LateIndexes) \subseteq indexes
    /\ phase \notin {"create", "alter", "index"} => todo = <<>>
    /\ phase = "seed roles" =>
          /\ missing \subseteq DOMAIN DefaultRoles
          /\ DOMAIN DefaultRoles \subseteq DOMAIN role \cup missing
    /\ phase \in {"topics", "seed topics", "up"} => DOMAIN DefaultRoles \subseteq DOMAIN role
    /\ phase = "seed topics" =>
          missing \subseteq DefaultTopics /\ DefaultTopics \subseteq topics \cup missing
    /\ phase = "up" => topics = DefaultTopics

\* An index that is missing was lost, is made late, or is still to be made.
Gaps ==
    \A t \in S!ToSet(Tables) : \A i \in S!IndexesOf(t) \ indexes :
        \/ t \in torn \/ i \in DOMAIN OnAddition \/ i \in S!ToSet(LateIndexes)
        \/ phase = "down" /\ t \notin tables
        \/ phase = "create" /\ Indexing(t, i) \in S!ToSet(todo)

BootInv == S!TypeOK /\ Progress /\ Gaps

\* Every database that an older version left behind will do.
LEMMA BootInit == S!Init => BootInv
<1> SUFFICES ASSUME S!Init PROVE BootInv
  OBVIOUS
<1>1. /\ tables \in SUBSET S!ToSet(Tables)
      /\ columns \in SUBSET UNION {S!ColumnsOf(t) : t \in tables}
      /\ phase = "down" /\ todo = <<>> /\ missing = {} /\ torn = {}
      /\ role \in IF RolesTable \in tables THEN StoredRoles ELSE {S!NoRoles}
      /\ topics \in IF TopicsTable \in tables THEN SUBSET DefaultTopics ELSE {{}}
  BY DEF S!Init, S!Older
<1>2. PICK new \in SUBSET (S!ToSet(LateIndexes) \cup DOMAIN OnAddition) :
         indexes = S!IndexesOn(tables) \ new
  BY DEF S!Init, S!Older
<1>3. DOMAIN S!NoRoles = {}
  BY DEF S!NoRoles
<1>4. S!TypeOK
  BY <1>1, <1>2, <1>3 DEF S!TypeOK, S!Phases
<1>5. Progress
  BY <1>1 DEF Progress
<1>6. Gaps
  <2>1. \A t \in tables : S!IndexesOf(t) \subseteq S!IndexesOn(tables)
    BY DEF S!IndexesOn
  <2> QED
    BY <1>1, <1>2, <2>1 DEF Gaps
<1> QED
  BY <1>4, <1>5, <1>6 DEF BootInv

\* create_all finds out what is missing.
LEMMA BeginOK ==
    ASSUME BootInv, S!Begin
    PROVE  BootInv'
<1>1. /\ phase = "down" /\ phase' = "create"
      /\ UNCHANGED <<tables, columns, indexes, role, topics, missing, torn>>
  BY DEF S!Begin
<1>2. /\ todo' \in Scripts
      /\ \A t \in S!ToSet(Tables) \ tables :
            /\ Making(t) \in S!ToSet(todo')
            /\ \A i \in S!IndexesOf(t) : Indexing(t, i) \in S!ToSet(todo')
  BY BeginScript DEF S!Begin
<1>3. S!TypeOK'
  BY <1>1 DEF BootInv, S!TypeOK, S!Phases
<1>4. Progress'
  BY <1>1, <1>2 DEF Progress, Scripts
<1>5. Gaps'
  BY <1>1, <1>2 DEF BootInv, Gaps
<1> QED
  BY <1>3, <1>4, <1>5 DEF BootInv

\* It creates a table, or an index of a table that is there.
LEMMA CreateStatementOK ==
    ASSUME BootInv, S!CreateStatement
    PROVE  BootInv'
<1> PICK s : s = Head(todo)
  OBVIOUS
<1>1. /\ phase = "create" /\ todo # <<>> /\ todo \in Seq(Statement)
      /\ todo' = Tail(todo)
      /\ UNCHANGED <<role, topics, phase, missing, torn>>
  BY DEF S!CreateStatement, BootInv, Progress
<1>2. /\ s \in Statement /\ todo' \in Seq(Statement)
      /\ S!ToSet(todo) = {s} \cup S!ToSet(todo')
      /\ Len(todo) \in Nat /\ Len(todo') = Len(todo) - 1 /\ s = todo[1]
      /\ \A k \in 1 .. Len(todo') : todo'[k] = todo[k+1]
  BY <1>1, HeadAndTail
<1>3. 1 \in 1 .. Len(todo)
  BY <1>1, <1>2
<1>4. /\ s.table \in S!ToSet(Tables)
      /\ s.index = None => s = Making(s.table)
      /\ s.index # None => s.index \in S!IndexesOf(s.table) /\ s.table \in tables
  <2>1. s.table \in S!ToSet(Tables) /\ s = [table |-> s.table, index |-> s.index]
    BY <1>2 DEF Statement
  <2>2. s.index # None => s.index \in S!IndexesOf(s.table) /\ s.table \in tables
    BY <1>1, <1>2, <1>3 DEF BootInv, Progress
  <2> QED
    BY <2>1, <2>2 DEF Making
<1>5. ASSUME NEW k \in 1 .. Len(todo'), todo'[k].index # None
      PROVE  /\ todo'[k].index \in S!IndexesOf(todo'[k].table)
             /\ \/ todo'[k].table \in tables \/ s = Making(todo'[k].table)
                \/ \E j \in 1 .. (k - 1) : todo'[j] = Making(todo'[k].table)
  <2>1. todo'[k] = todo[k+1] /\ k + 1 \in 1 .. Len(todo)
    BY <1>2
  <2>2. /\ todo[k+1].index \in S!IndexesOf(todo[k+1].table)
        /\ \/ todo[k+1].table \in tables
           \/ \E j \in 1 .. ((k + 1) - 1) : todo[j] = Making(todo[k+1].table)
    BY <1>1, <1>5, <2>1 DEF BootInv, Progress
  <2>3. ASSUME NEW j \in 1 .. ((k + 1) - 1), todo[j] = Making(todo[k+1].table)
        PROVE  \/ s = Making(todo'[k].table)
               \/ \E m \in 1 .. (k - 1) : todo'[m] = Making(todo'[k].table)
    <3>1. CASE j = 1
      BY <1>2, <2>1, <2>3, <3>1
    <3>2. CASE j # 1
      <4>1. j - 1 \in 1 .. (k - 1) /\ j - 1 \in 1 .. Len(todo') /\ (j - 1) + 1 = j
        BY <1>2, <3>2
      <4>2. todo'[j-1] = todo[j]
        BY <1>2, <4>1
      <4> QED
        BY <2>1, <2>3, <4>1, <4>2
    <3> QED
      BY <3>1, <3>2
  <2> QED
    BY <2>1, <2>2, <2>3
<1>6. \A t, i : /\ Making(t).index = None /\ Making(t).table = t
              /\ Indexing(t, i).index = i /\ Indexing(t, i).table = t
  BY DEF Making, Indexing
<1>7. CASE s.index = None
  <2>1. /\ tables' = tables \cup {s.table} /\ columns' = columns \cup S!ColumnsOf(s.table)
        /\ indexes' = indexes
    BY <1>7 DEF S!CreateStatement
  <2>2. S!TypeOK'
    BY <1>1, <1>4, <2>1 DEF BootInv, S!TypeOK, S!IndexesOn
  <2>3. Progress'
    <3>1. \A t \in S!ToSet(Tables) \ tables' : Making(t) \in S!ToSet(todo')
      BY <1>1, <1>2, <1>6, <2>1 DEF BootInv, Progress
    <3>2. \A k \in 1 .. Len(todo') :
             todo'[k].index # None =>
                 /\ todo'[k].index \in S!IndexesOf(todo'[k].table)
                 /\ \/ todo'[k].table \in tables'
                    \/ \E j \in 1 .. (k - 1) : todo'[j] = Making(todo'[k].table)
      <4> SUFFICES ASSUME NEW k \in 1 .. Len(todo'), todo'[k].index # None
                   PROVE  /\ todo'[k].index \in S!IndexesOf(todo'[k].table)
                          /\ \/ todo'[k].table \in tables'
                             \/ \E j \in 1 .. (k - 1) : todo'[j] = Making(todo'[k].table)
        OBVIOUS
      <4>1. s = Making(todo'[k].table) => todo'[k].table = s.table
        BY DEF Making
      <4> QED
        BY <1>5, <2>1, <4>1
    <3> QED
      BY <1>1, <1>2, <3>1, <3>2 DEF Progress
  <2>4. Gaps'
    <3> SUFFICES ASSUME NEW t \in S!ToSet(Tables), NEW i \in S!IndexesOf(t) \ indexes
                 PROVE  \/ t \in torn \/ i \in DOMAIN OnAddition \/ i \in S!ToSet(LateIndexes)
                        \/ Indexing(t, i) \in S!ToSet(todo')
      BY <1>1, <2>1 DEF Gaps
    <3>1. i # None
      BY ConstantsAssumption DEF S!ConstantsOK, S!DeclaredIndexes, S!IndexesOn
    <3>2. Indexing(t, i) # s
      BY <1>6, <1>7, <3>1
    <3> QED
      BY <1>1, <1>2, <3>2 DEF BootInv, Gaps
  <2> QED
    BY <2>2, <2>3, <2>4 DEF BootInv
<1>8. CASE s.index # None
  <2>1. indexes' = indexes \cup {s.index} /\ UNCHANGED <<tables, columns>>
    BY <1>8 DEF S!CreateStatement
  <2>2. S!TypeOK'
    BY <1>1, <1>4, <1>8, <2>1 DEF BootInv, S!TypeOK, S!IndexesOn
  <2>3. \A t \in S!ToSet(Tables) : s # Making(t)
    BY <1>6, <1>8
  <2>4. Progress'
    <3>1. \A t \in S!ToSet(Tables) \ tables' : Making(t) \in S!ToSet(todo')
      BY <1>1, <1>2, <2>1, <2>3 DEF BootInv, Progress
    <3>2. \A k \in 1 .. Len(todo') :
             todo'[k].index # None =>
                 /\ todo'[k].index \in S!IndexesOf(todo'[k].table)
                 /\ \/ todo'[k].table \in tables'
                    \/ \E j \in 1 .. (k - 1) : todo'[j] = Making(todo'[k].table)
      <4>1. \A k \in 1 .. Len(todo') : todo'[k].table \in S!ToSet(Tables)
        <5>1. \A k \in 1 .. Len(todo') : todo'[k] \in Statement
          BY <1>2, LenProperties
        <5> QED
          BY <5>1 DEF Statement
      <4> QED
        BY <1>5, <2>1, <2>3, <4>1
    <3> QED
      BY <1>1, <1>2, <3>1, <3>2 DEF Progress
  <2>5. Gaps'
    <3> SUFFICES ASSUME NEW t \in S!ToSet(Tables), NEW i \in S!IndexesOf(t) \ indexes'
                 PROVE  \/ t \in torn \/ i \in DOMAIN OnAddition \/ i \in S!ToSet(LateIndexes)
                        \/ Indexing(t, i) \in S!ToSet(todo')
      BY <1>1 DEF Gaps
    <3>1. i \notin indexes /\ Indexing(t, i) # s
      BY <1>6, <2>1
    <3> QED
      BY <1>1, <1>2, <3>1 DEF BootInv, Gaps
  <2> QED
    BY <2>2, <2>4, <2>5 DEF BootInv
<1> QED
  BY <1>7, <1>8

\* A phase whose statements have all run is over.
LEMMA ProceedOK ==
    ASSUME BootInv,
           \/ S!Proceed("create", "alter", Additions)
           \/ S!Proceed("alter", "index", LateIndexes)
           \/ S!Proceed("index", "roles", <<>>)
    PROVE  BootInv'
<1>0. /\ todo = <<>> /\ S!ToSet(todo) = {}
      /\ UNCHANGED <<tables, columns, indexes, role, topics, missing, torn>>
  BY DEF S!Proceed, S!ToSet
<1>1. CASE S!Proceed("create", "alter", Additions)
  <2>1. phase = "create" /\ phase' = "alter" /\ todo' = Additions
    BY <1>1 DEF S!Proceed
  <2>2. tables = S!ToSet(Tables)
    BY <1>0, <2>1 DEF BootInv, Progress, S!TypeOK
  <2>3. S!TypeOK' /\ Gaps'
    BY <1>0, <2>1 DEF BootInv, S!TypeOK, S!Phases, Gaps
  <2>4. Progress'
    BY <1>0, <2>1, <2>2, ConstantsAssumption DEF Progress, S!ConstantsOK
  <2> QED
    BY <2>3, <2>4 DEF BootInv
<1>2. CASE S!Proceed("alter", "index", LateIndexes)
  <2>1. phase = "alter" /\ phase' = "index" /\ todo' = LateIndexes
    BY <1>2 DEF S!Proceed
  <2>2. S!TypeOK' /\ Gaps'
    BY <1>0, <2>1 DEF BootInv, S!TypeOK, S!Phases, Gaps
  <2>3. Progress'
    BY <1>0, <2>1, ConstantsAssumption DEF BootInv, Progress, S!ConstantsOK
  <2> QED
    BY <2>2, <2>3 DEF BootInv
<1>3. CASE S!Proceed("index", "roles", <<>>)
  <2>1. phase = "index" /\ phase' = "roles" /\ todo' = <<>>
    BY <1>3 DEF S!Proceed
  <2>2. S!TypeOK' /\ Gaps'
    BY <1>0, <2>1 DEF BootInv, S!TypeOK, S!Phases, Gaps
  <2>3. Progress'
    BY <1>0, <2>1 DEF BootInv, Progress
  <2> QED
    BY <2>2, <2>3 DEF BootInv
<1> QED
  BY <1>1, <1>2, <1>3

\* A column that is missing is added, since its table is there by then.
LEMMA AddColumnOK ==
    ASSUME BootInv, S!AddColumn
    PROVE  BootInv'
<1>1. /\ phase = "alter" /\ todo # <<>> /\ todo \in Seq(S!ToSet(Additions))
      /\ tables = S!ToSet(Tables) /\ todo' = Tail(todo)
      /\ UNCHANGED <<tables, indexes, role, topics, phase, missing, torn>>
  BY DEF S!AddColumn, BootInv, Progress
<1>2. /\ Head(todo) \in S!ToSet(Additions) /\ todo' \in Seq(S!ToSet(Additions))
      /\ S!ToSet(todo) = {Head(todo)} \cup S!ToSet(todo')
  BY <1>1, HeadAndTail
<1>3. Head(todo)[1] \in tables /\ Head(todo) \in S!ColumnsOf(Head(todo)[1])
  BY <1>1, <1>2, ConstantsAssumption DEF S!ConstantsOK, S!ColumnsOf
<1>4. columns' = columns \cup {Head(todo)}
  BY <1>3 DEF S!AddColumn
<1>5. S!TypeOK'
  BY <1>1, <1>3, <1>4 DEF BootInv, S!TypeOK
<1>6. Progress' /\ Gaps'
  BY <1>1, <1>2, <1>4 DEF BootInv, Progress, Gaps
<1> QED
  BY <1>5, <1>6 DEF BootInv

\* An index that is made late is made.
LEMMA CreateIndexOK ==
    ASSUME BootInv, S!CreateIndex
    PROVE  BootInv'
<1>1. /\ phase = "index" /\ todo # <<>> /\ todo \in Seq(S!DeclaredIndexes)
      /\ tables = S!ToSet(Tables) /\ todo' = Tail(todo)
      /\ indexes' = indexes \cup {Head(todo)}
      /\ UNCHANGED <<tables, columns, role, topics, phase, missing, torn>>
  BY DEF S!CreateIndex, BootInv, Progress
<1>2. /\ Head(todo) \in S!DeclaredIndexes /\ todo' \in Seq(S!DeclaredIndexes)
      /\ S!ToSet(todo) = {Head(todo)} \cup S!ToSet(todo')
  BY <1>1, HeadAndTail
<1>3. S!TypeOK'
  BY <1>1, <1>2 DEF BootInv, S!TypeOK, S!DeclaredIndexes
<1>4. Progress' /\ Gaps'
  BY <1>1, <1>2 DEF BootInv, Progress, Gaps
<1> QED
  BY <1>3, <1>4 DEF BootInv

\* The seedings find out what is missing and add it.
LEMMA SeedsOK ==
    ASSUME BootInv,
           \/ S!SeedRead("roles", "seed roles", "topics", DOMAIN DefaultRoles, DOMAIN role)
           \/ S!SeedRolesCommit
           \/ S!SeedRead("topics", "seed topics", "up", DefaultTopics, topics)
           \/ S!SeedTopicsCommit
    PROVE  BootInv'
<1>1. CASE S!SeedRead("roles", "seed roles", "topics", DOMAIN DefaultRoles, DOMAIN role)
  <2>1. /\ phase = "roles" /\ todo = <<>> /\ missing' = DOMAIN DefaultRoles \ DOMAIN role
        /\ phase' = IF missing' = {} THEN "topics" ELSE "seed roles"
        /\ UNCHANGED <<tables, columns, indexes, role, topics, todo, torn>>
    BY <1>1 DEF S!SeedRead, S!Missing
  <2>2. S!TypeOK'
    BY <2>1 DEF BootInv, S!TypeOK, S!Phases
  <2>3. Progress' /\ Gaps'
    BY <2>1 DEF BootInv, Progress, Gaps
  <2> QED
    BY <2>2, <2>3 DEF BootInv
<1>2. CASE S!SeedRolesCommit
  <2>1. /\ phase = "seed roles" /\ missing' = {} /\ phase' = "topics"
        /\ DOMAIN role' = DOMAIN role \cup missing
        /\ UNCHANGED <<tables, columns, indexes, topics, todo, torn>>
    BY <1>2 DEF S!SeedRolesCommit, S!Seeded
  <2>2. S!TypeOK'
    BY <2>1, ConstantsAssumption DEF BootInv, S!TypeOK, S!Phases, Progress, S!ConstantsOK
  <2>3. Progress' /\ Gaps'
    BY <2>1 DEF BootInv, Progress, Gaps
  <2> QED
    BY <2>2, <2>3 DEF BootInv
<1>3. CASE S!SeedRead("topics", "seed topics", "up", DefaultTopics, topics)
  <2>1. /\ phase = "topics" /\ todo = <<>> /\ missing' = DefaultTopics \ topics
        /\ phase' = IF missing' = {} THEN "up" ELSE "seed topics"
        /\ UNCHANGED <<tables, columns, indexes, role, topics, todo, torn>>
    BY <1>3 DEF S!SeedRead, S!Missing
  <2>2. S!TypeOK'
    BY <2>1 DEF BootInv, S!TypeOK, S!Phases
  <2>3. Progress' /\ Gaps'
    BY <2>1 DEF BootInv, Progress, Gaps, S!TypeOK
  <2> QED
    BY <2>2, <2>3 DEF BootInv
<1>4. CASE S!SeedTopicsCommit
  <2>1. /\ phase = "seed topics" /\ missing' = {} /\ phase' = "up"
        /\ topics' = topics \cup missing
        /\ UNCHANGED <<tables, columns, indexes, role, todo, torn>>
    BY <1>4 DEF S!SeedTopicsCommit
  <2>2. S!TypeOK'
    BY <2>1, ConstantsAssumption DEF BootInv, S!TypeOK, S!Phases, Progress, S!ConstantsOK
  <2>3. Progress' /\ Gaps'
    BY <2>1 DEF BootInv, Progress, Gaps, S!TypeOK
  <2> QED
    BY <2>2, <2>3 DEF BootInv
<1> QED
  BY <1>1, <1>2, <1>3, <1>4

\* A crash of a boot leaves its traces in the history variable.
LEMMA CrashOK ==
    ASSUME BootInv, S!Crash
    PROVE  BootInv'
<1>1. /\ phase # "down" /\ phase' = "down" /\ todo' = <<>> /\ missing' = {}
      /\ UNCHANGED <<tables, columns, indexes, role, topics>>
      /\ torn \subseteq torn'
  BY DEF S!Crash
<1>2. torn' \subseteq tables
  BY DEF S!Crash, BootInv, S!TypeOK
<1>3. S!TypeOK'
  BY <1>1, <1>2 DEF BootInv, S!TypeOK, S!Phases
<1>4. Progress'
  BY <1>1 DEF Progress
<1>5. Gaps'
  <2> SUFFICES ASSUME NEW t \in S!ToSet(Tables), NEW i \in S!IndexesOf(t) \ indexes
               PROVE  \/ t \in torn' \/ i \in DOMAIN OnAddition \/ i \in S!ToSet(LateIndexes)
                      \/ t \notin tables
    BY <1>1 DEF Gaps
  <2>1. CASE phase = "create" /\ Indexing(t, i) \in S!ToSet(todo) /\ t \in tables
    <3>1. Indexing(t, i).table = t
      BY DEF Indexing
    <3>2. Indexing(t, i) \in {x \in S!ToSet(todo) : x.table \in tables}
      BY <2>1, <3>1
    <3>3. t \in {s.table : s \in {x \in S!ToSet(todo) : x.table \in tables}}
      BY <3>1, <3>2
    <3> QED
      BY <2>1, <3>3 DEF S!Crash
  <2> QED
    BY <1>1, <2>1 DEF BootInv, Gaps
<1> QED
  BY <1>3, <1>4, <1>5 DEF BootInv

\* Roles that requests add to a server that is up are no matter to the boot.
LEMMA MoreRoles ==
    ASSUME BootInv, phase = "up", UNCHANGED startupVars, DOMAIN role \subseteq DOMAIN role'
    PROVE  BootInv'
<1>1. UNCHANGED <<tables, columns, indexes, topics, phase, todo, missing, torn>>
  BY DEF startupVars
<1>2. tables = S!ToSet(Tables) /\ RolesTable \in tables
  BY ConstantsAssumption DEF BootInv, Progress, S!ConstantsOK
<1>3. S!TypeOK'
  BY <1>1, <1>2 DEF BootInv, S!TypeOK
<1>4. Progress' /\ Gaps'
  BY <1>1 DEF BootInv, Progress, Gaps
<1> QED
  BY <1>3, <1>4 DEF BootInv

-----------------------------------------------------------------------------
(* The ladder.                                                               *)

\* Roles and accounts: only the default role may be named before it has a row,
\* and only while its column may still be missing does an account have none.
RolesOK ==
    /\ DOMAIN role \subseteq Slugs
    /\ role \in [DOMAIN role -> Weights]
    /\ Harmless(role)
    /\ account \in [Accounts -> Slugs \cup {None, Bare}]
    /\ \A a \in Accounts : account[a] \in DOMAIN role \cup {None, DefaultSlug, Bare}
    /\ HasColumn(columns) => \A a \in Accounts : account[a] # Bare

\* Nobody is above the bar, and who is at it was there from the beginning.
BarOK ==
    /\ bar \in Nat /\ AssignWeight <= bar
    /\ tops \subseteq Accounts
    /\ \A a \in Accounts : R!Weight(a) <= bar /\ (R!Weight(a) >= bar => a \in tops)
    /\ \A s \in NewSlugs \cap DOMAIN role : role[s] < bar

\* What a handler has loaded still has its row, and what it is about to make or
\* to grant is below the bar.  A target that was loaded below the bar has not
\* got there since: a grant lands below the bar.
HandlerOK(r) ==
    /\ r.pc # "idle" => /\ r.manager \in Accounts
                        /\ r.held \in DOMAIN role
                        /\ role[r.held] <= bar
    /\ r.pc = "create" => r.slug \in NewSlugs /\ r.weight \in Weights /\ r.weight < bar
    /\ r.pc \in {"target", "assign"} =>
          /\ r.target \in Accounts
          /\ account[r.target] \in DOMAIN role
          /\ r.had \in DOMAIN role
          /\ r.target # r.manager /\ role[r.had] < bar => R!Weight(r.target) < bar
    /\ r.pc = "assign" =>
          /\ r.slug \in DOMAIN role
          /\ role[r.slug] < bar
          /\ r.target # r.manager => role[r.had] < bar

HandlersOK ==
    /\ req \in [Reqs -> R!Request]
    /\ \A q \in Reqs : HandlerOK(req[q])
    /\ phase # "up" => \A q \in Reqs : req[q] = R!Idle

LadderInv == RolesOK /\ BarOK /\ HandlersOK

IInv == BootInv /\ LadderInv

\* What the assumptions say of the ladder: handing out roles costs something,
\* or the default role could not be too light for it.
LEMMA LadderConstants ==
    /\ Weights \subseteq 0..1000 /\ Weights \subseteq Nat /\ AssignWeight \in Nat \ {0}
    /\ NewSlugs \subseteq Slugs /\ DefaultSlug \in Slugs \ NewSlugs
    /\ None \notin Slugs /\ Bare \notin Slugs /\ Bare # None
    /\ None \notin Accounts
    /\ DefaultSlug \in DOMAIN DefaultRoles
    /\ DOMAIN DefaultRoles \subseteq Slugs \ NewSlugs
    /\ DefaultRoles \in [DOMAIN DefaultRoles -> Weights]
    /\ DefaultRoles[DefaultSlug] < AssignWeight
<1>1. PICK D \in SUBSET (Slugs \ NewSlugs) : DefaultRoles \in [D -> Weights]
  BY ConstantsAssumption DEF OldRoles
<1>2. /\ DefaultSlug \in D /\ DefaultRoles[DefaultSlug] \in Weights
      /\ DefaultRoles[DefaultSlug] < AssignWeight
  BY <1>1, ConstantsAssumption DEF Harmless
<1>3. Weights \subseteq 0..1000 /\ AssignWeight \in Nat
  BY ConstantsAssumption DEF R!ConstantsOK
<1> QED
  BY <1>1, <1>2, <1>3, ConstantsAssumption DEF R!ConstantsOK

\* A bounded set of numbers has a greatest one.
LEMMA GreatestNumber ==
    ASSUME NEW n \in Nat, NEW T \in SUBSET (0..n), T # {}
    PROVE  \E x \in T : \A y \in T : y <= x
<1> DEFINE U == {m \in 0..n : n - m \in T}
<1>1. U \in SUBSET Nat /\ U # {}
  <2>1. PICK x \in T : TRUE
    OBVIOUS
  <2>2. n - x \in 0..n /\ n - (n - x) = x
    BY <2>1
  <2>3. n - x \in U
    BY <2>1, <2>2
  <2>4. U \subseteq Nat
    OBVIOUS
  <2> HIDE DEF U
  <2> QED
    BY <2>3, <2>4
<1>2. PICK m \in U : \A y \in U : m <= y
  <2> HIDE DEF U
  <2> QED
    BY <1>1, LeastNumber
<1>3. ASSUME NEW y \in T PROVE y <= n - m
  <2>1. n - y \in U
    OBVIOUS
  <2> QED
    BY <1>2, <2>1
<1> QED
  BY <1>2, <1>3

\* The bar is set where the heaviest stand, or where handing out roles begins.
LEMMA LadderInit == Init => LadderInv
<1> SUFFICES ASSUME Init PROVE LadderInv
  OBVIOUS
<1> USE LadderConstants
<1>1. /\ role \in StoredRoles \cup {S!NoRoles}
      /\ account \in [Accounts -> InitialRoles]
      /\ req = [q \in Reqs |-> R!Idle]
      /\ R!Remember
  BY DEF Init, S!Init, S!Older
<1>2. PICK D \in SUBSET (Slugs \ NewSlugs) : role \in [D -> Weights]
  <2>1. S!NoRoles \in [{} -> Weights]
    BY DEF S!NoRoles
  <2>2. StoredRoles \subseteq OldRoles
    BY ConstantsAssumption
  <2>3. CASE role = S!NoRoles
    BY <2>1, <2>3
  <2>4. CASE role \in OldRoles
    BY <2>4 DEF OldRoles
  <2> QED
    BY <1>1, <2>2, <2>3, <2>4
<1>3. RolesOK
  <2>1. Harmless(role)
    BY <1>1, ConstantsAssumption DEF Harmless, S!NoRoles
  <2>2. InitialRoles \subseteq D \cup {None, Bare} /\ (HasColumn(columns) => Bare \notin InitialRoles)
    <3>1. CASE UsersTable \notin tables
      BY <1>2, <3>1 DEF InitialRoles
    <3>2. CASE UsersTable \in tables /\ HasColumn(columns)
      BY <1>2, <3>2 DEF InitialRoles
    <3>3. CASE UsersTable \in tables /\ ~HasColumn(columns)
      BY <1>2, <3>3 DEF InitialRoles
    <3> QED
      BY <3>1, <3>2, <3>3
  <2> QED
    BY <1>1, <1>2, <2>1, <2>2 DEF RolesOK
<1>4. BarOK
  <2> DEFINE held == {R!Weight(a) : a \in Accounts} \cup {AssignWeight}
  <2>1. PICK n \in Nat : held \subseteq 0..n
    <3>1. \A a \in Accounts : R!Weight(a) \in 0..1000
      BY <1>2 DEF R!Weight
    <3>2. PICK n \in Nat : 1000 <= n /\ AssignWeight <= n
      <4>1. 1000 + AssignWeight \in Nat /\ 1000 <= 1000 + AssignWeight
            /\ AssignWeight <= 1000 + AssignWeight
        OBVIOUS
      <4> QED
        BY <4>1
    <3> QED
      BY <3>1, <3>2
  <2>2. \E w \in held : \A v \in held : v <= w
    <3>1. held \in SUBSET (0..n) /\ held # {}
      BY <2>1
    <3> HIDE DEF held
    <3> QED
      BY <3>1, GreatestNumber
  <2>3. bar \in held /\ \A v \in held : v <= bar
    <3>1. bar = CHOOSE w \in held : \A v \in held : v <= w
      BY <1>1 DEF R!Remember
    <3> HIDE DEF held
    <3> QED
      BY <2>2, <3>1
  <2>4. \A a \in Accounts : R!Weight(a) \in held
    OBVIOUS
  <2>5. AssignWeight \in held
    OBVIOUS
  <2> HIDE DEF held
  <2>6. tops = {a \in Accounts : R!Weight(a) = bar}
    BY <1>1 DEF R!Remember
  <2>7. ASSUME NEW a \in Accounts, R!Weight(a) >= bar PROVE R!Weight(a) = bar
    <3>1. R!Weight(a) \in 0..n /\ bar \in 0..n /\ R!Weight(a) <= bar
      BY <2>1, <2>3, <2>4
    <3> QED
      BY <2>7, <3>1
  <2> QED
    BY <1>2, <2>1, <2>3, <2>4, <2>5, <2>6, <2>7 DEF BarOK
<1>5. HandlersOK
  <2>1. R!Idle \in R!Request
    BY DEF R!Idle, R!Request
  <2>2. HandlerOK(R!Idle)
    BY DEF HandlerOK, R!Idle
  <2>3. \A q \in Reqs : req[q] = R!Idle
    BY <1>1
  <2>4. req \in [Reqs -> R!Request]
    BY <1>1, <2>1
  <2> QED
    BY <2>2, <2>3, <2>4 DEF HandlersOK
<1> QED
  BY <1>3, <1>4, <1>5 DEF LadderInv

\* A boot adds default roles and columns, and touches no role that is there.
LEMMA BootStep ==
    ASSUME BootInv, RolesOK, S!Boot
    PROVE  /\ phase # "up" /\ columns \subseteq columns'
           /\ DOMAIN role \subseteq DOMAIN role'
           /\ DOMAIN role' \subseteq DOMAIN role \cup DOMAIN DefaultRoles
           /\ role' \in [DOMAIN role' -> Weights]
           /\ \A s \in DOMAIN role : role'[s] = role[s]
           /\ \A s \in DOMAIN role' \ DOMAIN role : role'[s] = DefaultRoles[s]
<1>1. CASE S!SeedRolesCommit
  <2>1. missing \subseteq DOMAIN DefaultRoles /\ phase = "seed roles"
    BY <1>1 DEF BootInv, Progress, S!SeedRolesCommit
  <2>2. role' = [s \in DOMAIN role \cup missing |->
                   IF s \in DOMAIN role THEN role[s] ELSE DefaultRoles[s]]
        /\ columns' = columns
    BY <1>1 DEF S!SeedRolesCommit, S!Seeded
  <2>3. DOMAIN role' = DOMAIN role \cup missing
    BY <2>2
  <2>4. \A s \in DOMAIN role' : role'[s] \in Weights
    BY <2>1, <2>2, LadderConstants DEF RolesOK
  <2> QED
    BY <2>1, <2>2, <2>3, <2>4
<1>2. CASE ~ S!SeedRolesCommit
  <2>1. phase # "up" /\ columns \subseteq columns' /\ role' = role
    BY <1>2, ConstantsAssumption
       DEF S!Boot, S!Begin, S!CreateStatement, S!Proceed, S!AddColumn, S!CreateIndex,
           S!SeedRead, S!SeedTopicsCommit
  <2> QED
    BY <2>1 DEF RolesOK
<1> QED
  BY <1>1, <1>2

\* The boot raises nobody to the bar: an account without a role gets the default
\* one, and so does one whose default role is seeded.
LEMMA BootLadder ==
    ASSUME BootInv, LadderInv, Boot
    PROVE  /\ LadderInv'
           /\ \A a \in Accounts : R!Weight(a) >= bar => account'[a] = account[a]
<1> USE LadderConstants
<1>1. /\ phase # "up" /\ columns \subseteq columns'
      /\ DOMAIN role \subseteq DOMAIN role'
      /\ DOMAIN role' \subseteq DOMAIN role \cup DOMAIN DefaultRoles
      /\ role' \in [DOMAIN role' -> Weights]
      /\ \A s \in DOMAIN role : role'[s] = role[s]
      /\ \A s \in DOMAIN role' \ DOMAIN role : role'[s] = DefaultRoles[s]
  BY BootStep DEF Boot, LadderInv
<1>2. UNCHANGED <<req, bar, tops>>
  BY DEF Boot
<1>3. /\ account' \in [Accounts -> Slugs \cup {None, Bare}]
      /\ \A a \in Accounts :
            account'[a] = IF HasColumn(columns') /\ ~HasColumn(columns) /\ account[a] = Bare
                            THEN DefaultSlug ELSE account[a]
  BY DEF Boot, LadderInv, RolesOK
<1>4. RolesOK'
  <2>1. DOMAIN role' \subseteq Slugs
    BY <1>1 DEF LadderInv, RolesOK
  <2>2. Harmless(role')
    BY <1>1 DEF LadderInv, RolesOK, Harmless
  <2>3. \A a \in Accounts : account'[a] \in DOMAIN role' \cup {None, DefaultSlug, Bare}
    BY <1>1, <1>3 DEF LadderInv, RolesOK
  <2>4. HasColumn(columns') => \A a \in Accounts : account'[a] # Bare
    BY <1>1, <1>3 DEF LadderInv, RolesOK, HasColumn
  <2> QED
    BY <1>1, <1>3, <2>1, <2>2, <2>3, <2>4 DEF RolesOK, Harmless
<1>5. ASSUME NEW a \in Accounts
      PROVE  /\ R!Weight(a)' <= bar
             /\ R!Weight(a)' >= bar => a \in tops
             /\ R!Weight(a) >= bar => account'[a] = account[a]
  <2>0. bar \in Nat /\ AssignWeight <= bar /\ AssignWeight \in Nat \ {0}
    BY DEF LadderInv, BarOK
  <2>1. CASE account[a] \in DOMAIN role
    <3>1. account'[a] = account[a]
      BY <1>3, <2>1 DEF LadderInv, RolesOK
    <3>2. R!Weight(a)' = R!Weight(a)
      BY <1>1, <2>1, <3>1 DEF R!Weight
    <3> QED
      BY <3>1, <3>2 DEF LadderInv, BarOK
  <2>2. CASE account[a] \notin DOMAIN role
    <3>1. R!Weight(a) = 0
      BY <2>2 DEF R!Weight
    <3>2. account'[a] \in {None, DefaultSlug, Bare}
      BY <1>3, <2>2 DEF LadderInv, RolesOK
    <3>3. /\ None \notin DOMAIN role' /\ Bare \notin DOMAIN role'
          /\ DefaultSlug \in DOMAIN role' =>
                role'[DefaultSlug] \in 0..1000 /\ role'[DefaultSlug] < AssignWeight
      BY <1>1, <1>4 DEF RolesOK, Harmless
    <3>4. R!Weight(a)' \in Nat /\ R!Weight(a)' < AssignWeight
      BY <2>0, <3>2, <3>3 DEF R!Weight
    <3> QED
      BY <2>0, <3>1, <3>4
  <2> QED
    BY <2>1, <2>2
<1>6. BarOK'
  <2>1. \A s \in NewSlugs \cap DOMAIN role' : role'[s] < bar
    BY <1>1 DEF LadderInv, BarOK
  <2>2. bar' = bar /\ tops' = tops
    BY <1>2
  <2> QED
    BY <1>5, <2>1, <2>2 DEF LadderInv, BarOK
<1>7. HandlersOK'
  <2>1. \A q \in Reqs : req'[q] = R!Idle
    BY <1>1, <1>2 DEF LadderInv, HandlersOK
  <2>2. HandlerOK(R!Idle)'
    BY DEF HandlerOK, R!Idle
  <2>3. \A q \in Reqs : HandlerOK(req[q])'
    BY <2>1, <2>2 DEF HandlerOK
  <2> QED
    BY <1>2, <2>1, <2>3 DEF LadderInv, HandlersOK
<1> QED
  BY <1>4, <1>5, <1>6, <1>7 DEF LadderInv

\* A crash ends what was in flight and leaves the ladder alone.
LEMMA CrashLadder ==
    ASSUME LadderInv, Crash
    PROVE  LadderInv'
<1>1. /\ req' = [q \in Reqs |-> R!Idle]
      /\ UNCHANGED <<account, bar, tops, role, columns>>
  BY DEF Crash, S!Crash
<1>2. RolesOK' /\ BarOK'
  BY <1>1 DEF LadderInv, RolesOK, BarOK, R!Weight
<1>3. HandlersOK'
  <2>1. R!Idle \in R!Request /\ HandlerOK(R!Idle)'
    BY DEF R!Idle, R!Request, HandlerOK
  <2>2. \A q \in Reqs : req'[q] = R!Idle
    BY <1>1
  <2>3. \A q \in Reqs : HandlerOK(req[q])'
    BY <2>1, <2>2 DEF HandlerOK
  <2> QED
    BY <1>1, <2>1, <2>2, <2>3 DEF HandlersOK
<1> QED
  BY <1>2, <1>3 DEF LadderInv

\* On a server that is up, every account has a role with a row.
LEMMA Resolved ==
    ASSUME BootInv, RolesOK, phase = "up"
    PROVE  RolesResolve /\ DefaultSlug \in DOMAIN role
<1>1. DOMAIN DefaultRoles \subseteq DOMAIN role /\ S!ToSet(Additions) \subseteq columns
  BY DEF BootInv, Progress
<1>2. HasColumn(columns)
  BY <1>1, ConstantsAssumption DEF HasColumn
<1> QED
  BY <1>1, <1>2, LadderConstants DEF RolesOK, RolesResolve

\* A step of a server that is up: no role is touched or lost, no account falls
\* out of the roles, and none that was below the bar reaches it.
ServeStep ==
    /\ phase = "up" /\ UNCHANGED startupVars /\ UNCHANGED <<bar, tops>>
    /\ DOMAIN role \subseteq DOMAIN role'
    /\ \A s \in DOMAIN role : role'[s] = role[s]
    /\ \A t \in Accounts : account[t] \in DOMAIN role =>
          /\ account'[t] \in DOMAIN role'
          /\ R!Weight(t) < bar => R!Weight(t)' < bar

\* What such a step leaves of a handler.
LEMMA HandlerKept ==
    ASSUME NEW r, HandlerOK(r), ServeStep, RolesOK
    PROVE  HandlerOK(r)'
<1>1. /\ bar' = bar /\ DOMAIN role \subseteq DOMAIN role'
      /\ \A s \in DOMAIN role : role'[s] = role[s]
      /\ \A t \in Accounts : account[t] \in DOMAIN role =>
            /\ account'[t] \in DOMAIN role'
            /\ R!Weight(t) < bar => R!Weight(t)' < bar
  BY DEF ServeStep
<1>2. /\ r.pc # "idle" => /\ r.manager \in Accounts /\ r.held \in DOMAIN role'
                          /\ role'[r.held] <= bar
      /\ r.pc = "create" => r.slug \in NewSlugs /\ r.weight \in Weights /\ r.weight < bar
  BY <1>1 DEF HandlerOK
<1>3. ASSUME r.pc \in {"target", "assign"}
      PROVE  /\ r.target \in Accounts /\ account'[r.target] \in DOMAIN role'
             /\ r.had \in DOMAIN role'
             /\ r.target # r.manager /\ role'[r.had] < bar => R!Weight(r.target)' < bar
  BY <1>1, <1>3 DEF HandlerOK
<1>4. r.pc = "assign" => /\ r.slug \in DOMAIN role' /\ role'[r.slug] < bar
                         /\ r.target # r.manager => role'[r.had] < bar
  BY <1>1, <1>3 DEF HandlerOK
<1> QED
  BY <1>1, <1>2, <1>3, <1>4 DEF HandlerOK, R!Weight

\* A step that keeps roles, accounts and what is below the bar, and leaves each
\* handler alone or in order, keeps the ladder.
LEMMA ServeKeeps ==
    ASSUME LadderInv, ServeStep, RolesOK', BarOK', req' \in [Reqs -> R!Request],
           \A q \in Reqs : req'[q] = req[q] \/ req'[q] = R!Idle \/ HandlerOK(req[q])'
    PROVE  LadderInv'
<1>1. ASSUME NEW q \in Reqs PROVE HandlerOK(req[q])'
  <2>1. CASE req'[q] = req[q]
    <3>1. PICK r : r = req[q]
      OBVIOUS
    <3>2. HandlerOK(r)'
      BY <3>1, HandlerKept DEF LadderInv, HandlersOK
    <3> QED
      BY <2>1, <3>1, <3>2 DEF HandlerOK
  <2>2. CASE req'[q] = R!Idle
    <3>1. HandlerOK(R!Idle)'
      BY DEF HandlerOK, R!Idle
    <3> QED
      BY <2>2, <3>1 DEF HandlerOK
  <2> QED
    BY <1>1, <2>1, <2>2
<1>2. phase' = "up"
  BY DEF ServeStep, startupVars
<1> QED
  BY <1>1, <1>2 DEF LadderInv, HandlersOK

\* A step that changes one handler only.
LEMMA OneHandler ==
    ASSUME LadderInv, phase = "up", UNCHANGED <<startupVars, role, account, bar, tops>>,
           NEW q \in Reqs, NEW r \in R!Request, HandlerOK(r), req' = [req EXCEPT ![q] = r]
    PROVE  LadderInv'
<1>1. ServeStep
  BY DEF LadderInv, BarOK, ServeStep, R!Weight
<1>2. RolesOK' /\ BarOK'
  BY DEF LadderInv, RolesOK, BarOK, R!Weight, startupVars
<1>3. HandlerOK(r)'
  BY <1>1, HandlerKept DEF LadderInv
<1>4. req' \in [Reqs -> R!Request] /\ req'[q] = r /\ \A p \in Reqs \ {q} : req'[p] = req[p]
  BY DEF LadderInv, HandlersOK
<1>5. HandlerOK(req[q])'
  BY <1>3, <1>4 DEF HandlerOK
<1> QED
  BY <1>1, <1>2, <1>4, <1>5, ServeKeeps

\* register: the default role is below the bar.
LEMMA RegisterKeeps ==
    ASSUME BootInv, LadderInv, phase = "up", UNCHANGED startupVars, NEW a \in Accounts, R!Register(a)
    PROVE  LadderInv'
<1> USE LadderConstants
<1>1. /\ account[a] = None /\ DefaultSlug \in DOMAIN role
      /\ account' = [account EXCEPT ![a] = DefaultSlug]
      /\ UNCHANGED <<role, req, bar, tops, columns>>
  BY DEF R!Register, startupVars
<1>2. /\ account' \in [Accounts -> Slugs \cup {None, Bare}] /\ account'[a] = DefaultSlug
      /\ \A t \in Accounts \ {a} : account'[t] = account[t]
  BY <1>1 DEF LadderInv, RolesOK
<1>3. R!Weight(a)' \in Nat /\ R!Weight(a)' < bar
  <2>1. /\ bar \in Nat /\ AssignWeight <= bar /\ role[DefaultSlug] < AssignWeight
        /\ role[DefaultSlug] \in 0..1000
    BY <1>1 DEF LadderInv, BarOK, RolesOK, Harmless
  <2>2. R!Weight(a)' = role[DefaultSlug]
    BY <1>1, <1>2 DEF R!Weight
  <2> QED
    BY <2>1, <2>2
<1>4. \A t \in Accounts \ {a} : R!Weight(t)' = R!Weight(t)
  BY <1>1, <1>2 DEF R!Weight
<1>5. RolesOK'
  BY <1>1, <1>2 DEF LadderInv, RolesOK
<1>6. BarOK'
  <2>1. \A t \in Accounts : R!Weight(t)' <= bar /\ (R!Weight(t)' >= bar => t \in tops)
    BY <1>3, <1>4 DEF LadderInv, BarOK
  <2> QED
    BY <1>1, <2>1 DEF LadderInv, BarOK
<1>7. ServeStep
  BY <1>1, <1>2, <1>3, <1>4 DEF ServeStep
<1> QED
  BY <1>1, <1>5, <1>6, <1>7, ServeKeeps DEF LadderInv, HandlersOK

\* The guard: who may hand out roles has one.
LEMMA AdmitKeeps ==
    ASSUME LadderInv, phase = "up", UNCHANGED startupVars,
           NEW q \in Reqs, NEW a \in Accounts, R!Admit(q, a)
    PROVE  LadderInv'
<1> PICK r : r = [R!Idle EXCEPT !.pc = "admitted", !.manager = a, !.held = account[a]]
  OBVIOUS
<1>1. req' = [req EXCEPT ![q] = r] /\ UNCHANGED <<role, account, bar, tops>>
      /\ R!Weight(a) >= AssignWeight
  BY DEF R!Admit
<1>2. account[a] \in DOMAIN role /\ role[account[a]] <= bar
  BY <1>1, LadderConstants DEF LadderInv, BarOK, R!Weight
<1>3. R!Idle \in R!Request
  BY DEF R!Idle, R!Request
<1>4. r \in R!Request /\ r.pc = "admitted" /\ r.manager = a /\ r.held = account[a]
  <2>1. account[a] \in Slugs
    BY <1>2 DEF LadderInv, RolesOK
  <2> QED
    BY <1>3, <2>1 DEF R!Request
<1>5. HandlerOK(r)
  BY <1>2, <1>4 DEF HandlerOK
<1> QED
  BY <1>1, <1>4, <1>5, OneHandler DEF startupVars

\* A handler that ends is idle.
LEMMA EndsKeeps ==
    ASSUME LadderInv, phase = "up", UNCHANGED <<startupVars, role, account, bar, tops>>,
           NEW q \in Reqs, R!Ends(q)
    PROVE  LadderInv'
<1>1. R!Idle \in R!Request /\ HandlerOK(R!Idle)
  BY DEF R!Idle, R!Request, HandlerOK
<1>2. req' = [req EXCEPT ![q] = R!Idle]
  BY DEF R!Ends
<1> QED
  BY <1>1, <1>2, OneHandler

\* create_role makes a role below its maker.
LEMMA CreateLookKeeps ==
    ASSUME LadderInv, phase = "up", UNCHANGED startupVars,
           NEW q \in Reqs, NEW s \in NewSlugs, NEW w \in Weights, R!CreateLook(q, s, w)
    PROVE  LadderInv'
<1>1. req[q].pc = "admitted" /\ UNCHANGED <<role, account, bar, tops>>
  BY DEF R!CreateLook
<1>2. CASE R!Ends(q)
  BY <1>1, <1>2, EndsKeeps
<1>3. CASE /\ R!Creatable(w, req[q].held)
           /\ req' = [req EXCEPT ![q].pc = "create", ![q].slug = s, ![q].weight = w]
  <2> PICK o : o = req[q]
    OBVIOUS
  <2>1. /\ o \in R!Request /\ HandlerOK(o) /\ o.pc = "admitted" /\ R!Creatable(w, o.held)
    BY <1>1, <1>3 DEF LadderInv, HandlersOK
  <2> PICK r : r = [o EXCEPT !.pc = "create", !.slug = s, !.weight = w]
    OBVIOUS
  <2>2. req' = [req EXCEPT ![q] = r]
    BY <1>3
  <2>2a. s \in Slugs \cup {None} /\ w \in Weights \cup {0} /\ w \in Nat
    BY LadderConstants
  <2>3. r \in R!Request
    BY <2>1, <2>2a DEF R!Request
  <2>4. /\ r.pc = "create" /\ r.slug = s /\ r.weight = w
        /\ r.manager = o.manager /\ r.held = o.held
    BY <2>1 DEF R!Request
  <2>5. w < bar
    <3>1. w < role[o.held] /\ o.held \in DOMAIN role /\ role[o.held] <= bar /\ bar \in Nat
      BY <2>1 DEF HandlerOK, R!Creatable, LadderInv, BarOK
    <3>2. role[o.held] \in Nat
      BY <3>1, LadderConstants DEF LadderInv, RolesOK
    <3> QED
      BY <2>2a, <3>1, <3>2
  <2>6. HandlerOK(r)
    BY <2>1, <2>4, <2>5 DEF HandlerOK
  <2> QED
    BY <1>1, <2>2, <2>3, <2>6, OneHandler
<1> QED
  BY <1>2, <1>3 DEF R!CreateLook

\* The new role gives nobody a weight: nobody can have had it.
LEMMA CreateCommitKeeps ==
    ASSUME BootInv, LadderInv, phase = "up", UNCHANGED startupVars, NEW q \in Reqs, R!CreateCommit(q)
    PROVE  LadderInv' /\ account' = account
<1> PICK r : r = req[q]
  OBVIOUS
<1>1. /\ r.pc = "create" /\ r \in R!Request /\ HandlerOK(r)
      /\ role' = [s \in DOMAIN role \cup {r.slug} |-> IF s \in DOMAIN role THEN role[s] ELSE r.weight]
      /\ req' = [req EXCEPT ![q] = R!Idle]
      /\ UNCHANGED <<account, bar, tops, columns>>
  BY DEF R!CreateCommit, R!Ends, LadderInv, HandlersOK, startupVars
<1>2. r.slug \in NewSlugs /\ r.weight \in Weights /\ r.weight < bar
  BY <1>1 DEF HandlerOK
<1>3. /\ DOMAIN role' = DOMAIN role \cup {r.slug}
      /\ \A s \in DOMAIN role : role'[s] = role[s]
      /\ r.slug \notin DOMAIN role => role'[r.slug] = r.weight
      /\ role' \in [DOMAIN role' -> Weights]
  BY <1>1, <1>2 DEF LadderInv, RolesOK
<1>4. RolesOK'
  <2>1. Harmless(role')
    BY <1>2, <1>3, LadderConstants DEF LadderInv, RolesOK, Harmless
  <2> QED
    BY <1>1, <1>2, <1>3, <2>1, LadderConstants DEF LadderInv, RolesOK, Harmless
<1>5. \A t \in Accounts : R!Weight(t)' = R!Weight(t)
  <2>1. \A t \in Accounts : account[t] \in DOMAIN role \cup {None} /\ None \notin Slugs
    BY Resolved, LadderConstants DEF LadderInv, RolesResolve
  <2>2. None \notin DOMAIN role'
    BY <1>4, LadderConstants DEF RolesOK
  <2> QED
    BY <1>1, <1>3, <2>1, <2>2 DEF R!Weight, LadderInv, RolesOK
<1>6. BarOK'
  <2>1. \A s \in NewSlugs \cap DOMAIN role' : role'[s] < bar
    BY <1>2, <1>3 DEF LadderInv, BarOK
  <2> QED
    BY <1>1, <1>5, <2>1 DEF LadderInv, BarOK
<1>7. ServeStep
  BY <1>1, <1>3, <1>5 DEF ServeStep
<1>8. /\ req' \in [Reqs -> R!Request] /\ req'[q] = R!Idle
      /\ \A p \in Reqs \ {q} : req'[p] = req[p]
  <2>1. R!Idle \in R!Request
    BY DEF R!Idle, R!Request
  <2> QED
    BY <1>1, <2>1 DEF LadderInv, HandlersOK
<1> QED
  BY <1>1, <1>4, <1>6, <1>7, <1>8, ServeKeeps

\* assign_role loads the target: what was loaded is what the target has.
LEMMA AssignTargetKeeps ==
    ASSUME BootInv, LadderInv, phase = "up", UNCHANGED startupVars,
           NEW q \in Reqs, NEW t \in Accounts, R!AssignTarget(q, t)
    PROVE  LadderInv'
<1>1. req[q].pc = "admitted" /\ UNCHANGED <<role, account, bar, tops>>
  BY DEF R!AssignTarget
<1>2. CASE R!Ends(q)
  BY <1>1, <1>2, EndsKeeps
<1>3. CASE /\ account[t] # None
           /\ req' = [req EXCEPT ![q].pc = "target", ![q].target = t,
                        ![q].had = IF t = req[q].manager THEN req[q].held ELSE account[t]]
  <2> PICK o : o = req[q]
    OBVIOUS
  <2>1. o \in R!Request /\ HandlerOK(o) /\ o.pc = "admitted"
    BY <1>1 DEF LadderInv, HandlersOK
  <2> PICK had : had = IF t = o.manager THEN o.held ELSE account[t]
    OBVIOUS
  <2> PICK r : r = [o EXCEPT !.pc = "target", !.target = t, !.had = had]
    OBVIOUS
  <2>2. req' = [req EXCEPT ![q] = r]
    BY <1>3
  <2>3. account[t] \in DOMAIN role /\ had \in DOMAIN role /\ DOMAIN role \subseteq Slugs
    BY <1>3, <2>1, Resolved DEF LadderInv, RolesResolve, HandlerOK, RolesOK
  <2>4. r \in R!Request
    BY <2>1, <2>3 DEF R!Request
  <2>5. /\ r.pc = "target" /\ r.target = t /\ r.had = had
        /\ r.manager = o.manager /\ r.held = o.held
    BY <2>1 DEF R!Request
  <2>6. t # o.manager => R!Weight(t) = role[had]
    BY <2>3 DEF R!Weight
  <2>7. HandlerOK(r)
    BY <2>1, <2>3, <2>5, <2>6 DEF HandlerOK
  <2> QED
    BY <1>1, <2>2, <2>4, <2>7, OneHandler
<1> QED
  BY <1>2, <1>3 DEF R!AssignTarget

\* assign_role compares the weights: both what the target had and what it is to
\* get are below the manager.
LEMMA AssignRoleKeeps ==
    ASSUME LadderInv, phase = "up", UNCHANGED startupVars,
           NEW q \in Reqs, NEW s \in Slugs, R!AssignRole(q, s)
    PROVE  LadderInv'
<1>1. req[q].pc = "target" /\ UNCHANGED <<role, account, bar, tops>>
  BY DEF R!AssignRole
<1>2. CASE R!Ends(q)
  BY <1>1, <1>2, EndsKeeps
<1>3. CASE /\ s \in DOMAIN role /\ R!Changeable(req[q]) /\ R!Grantable(s, req[q].held)
           /\ req' = [req EXCEPT ![q].pc = "assign", ![q].slug = s]
  <2> PICK o : o = req[q]
    OBVIOUS
  <2>1. /\ o \in R!Request /\ HandlerOK(o) /\ o.pc = "target"
        /\ R!Changeable(o) /\ R!Grantable(s, o.held)
    BY <1>1, <1>3 DEF LadderInv, HandlersOK
  <2> PICK r : r = [o EXCEPT !.pc = "assign", !.slug = s]
    OBVIOUS
  <2>2. req' = [req EXCEPT ![q] = r]
    BY <1>3
  <2>3. r \in R!Request
    BY <2>1 DEF R!Request
  <2>4. /\ r.pc = "assign" /\ r.slug = s /\ r.target = o.target /\ r.had = o.had
        /\ r.manager = o.manager /\ r.held = o.held
    BY <2>1 DEF R!Request
  <2>5. /\ o.held \in DOMAIN role /\ o.had \in DOMAIN role
        /\ role[o.held] <= bar /\ bar \in Nat /\ role[s] < role[o.held]
        /\ role[o.had] < role[o.held] \/ o.target = o.manager
    BY <2>1 DEF HandlerOK, R!Changeable, R!Grantable, LadderInv, BarOK
  <2>6. role[o.held] \in Nat /\ role[o.had] \in Nat /\ role[s] \in Nat
    BY <1>3, <2>5, LadderConstants DEF LadderInv, RolesOK
  <2>7. role[s] < bar /\ (role[o.had] < bar \/ o.target = o.manager)
    BY <2>5, <2>6
  <2>8. HandlerOK(r)
    BY <1>3, <2>1, <2>4, <2>7 DEF HandlerOK
  <2> QED
    BY <1>1, <2>2, <2>3, <2>8, OneHandler
<1> QED
  BY <1>2, <1>3 DEF R!AssignRole

\* The grant lands below the bar, and who is at the bar is moved by itself.
LEMMA AssignCommitKeeps ==
    ASSUME LadderInv, phase = "up", UNCHANGED startupVars, NEW q \in Reqs, R!AssignCommit(q)
    PROVE  /\ LadderInv'
           /\ \A a \in Accounts : R!Weight(a) >= bar /\ account'[a] # account[a] =>
                 /\ req[q].pc = "assign" /\ req[q].manager = a
                 /\ req[q].target = a /\ req'[q] = R!Idle
<1> USE LadderConstants
<1> PICK r : r = req[q]
  OBVIOUS
<1>1. /\ r.pc = "assign" /\ r \in R!Request /\ HandlerOK(r)
      /\ account' = IF r.slug = r.had THEN account ELSE [account EXCEPT ![r.target] = r.slug]
      /\ req' = [req EXCEPT ![q] = R!Idle]
      /\ UNCHANGED <<role, bar, tops, columns>>
  BY DEF R!AssignCommit, R!Ends, LadderInv, HandlersOK, startupVars
<1>2. /\ r.target \in Accounts /\ r.slug \in DOMAIN role /\ role[r.slug] < bar
      /\ r.target # r.manager => R!Weight(r.target) < bar
      /\ role[r.slug] \in Nat /\ bar \in Nat /\ r.slug \in Slugs
  BY <1>1 DEF HandlerOK, LadderInv, RolesOK, BarOK
<1>3. /\ req' \in [Reqs -> R!Request] /\ req'[q] = R!Idle
      /\ \A p \in Reqs \ {q} : req'[p] = req[p]
  <2>1. R!Idle \in R!Request
    BY DEF R!Idle, R!Request
  <2> QED
    BY <1>1, <2>1 DEF LadderInv, HandlersOK
<1>4. ASSUME NEW a \in Accounts
      PROVE  \/ account'[a] = account[a] /\ R!Weight(a)' = R!Weight(a)
             \/ /\ a = r.target /\ account'[a] = r.slug
                /\ R!Weight(a)' = role[r.slug]
  <2>1. account'[a] = account[a] \/ (a = r.target /\ account'[a] = r.slug)
    BY <1>1, <1>2 DEF LadderInv, RolesOK
  <2> QED
    BY <1>1, <1>2, <2>1 DEF R!Weight
<1>5. account' \in [Accounts -> Slugs \cup {None, Bare}]
  BY <1>1, <1>2 DEF LadderInv, RolesOK
<1>6. RolesOK'
  BY <1>1, <1>2, <1>4, <1>5 DEF LadderInv, RolesOK
<1>7. BarOK'
  <2>1. ~ (role[r.slug] >= bar) /\ role[r.slug] <= bar
    BY <1>2
  <2>2. \A a \in Accounts : R!Weight(a)' <= bar /\ (R!Weight(a)' >= bar => a \in tops)
    BY <1>4, <2>1 DEF LadderInv, BarOK
  <2> QED
    BY <1>1, <2>2 DEF LadderInv, BarOK
<1>8. ServeStep
  BY <1>1, <1>2, <1>4 DEF ServeStep
<1>9. LadderInv'
  BY <1>3, <1>6, <1>7, <1>8, ServeKeeps
<1>10. ASSUME NEW a \in Accounts, R!Weight(a) >= bar, account'[a] # account[a]
       PROVE  req[q].manager = a /\ req[q].target = a
  <2>1. a = r.target
    BY <1>4, <1>10
  <2>2. R!Weight(a) \in Nat
    BY DEF R!Weight, LadderInv, RolesOK
  <2>3. ~ (R!Weight(a) < bar)
    BY <1>2, <1>10, <2>2
  <2> QED
    BY <1>2, <2>1, <2>3
<1> QED
  BY <1>1, <1>3, <1>9, <1>10

\* A request keeps the ladder, extends the roles, and moves nobody at the bar
\* but the one who asks.
LEMMA ServeLadder ==
    ASSUME BootInv, LadderInv, Serve
    PROVE  /\ LadderInv'
           /\ \A s \in DOMAIN role : s \in DOMAIN role' /\ role'[s] = role[s]
           /\ \A a \in Accounts : R!Weight(a) >= bar /\ account'[a] # account[a] =>
                 \E q \in Reqs : req[q].pc = "assign" /\ req[q].manager = a
                                 /\ req[q].target = a /\ req'[q] = R!Idle
<1>1. phase = "up" /\ UNCHANGED startupVars /\ R!Next
  BY DEF Serve
<1>2. ASSUME NEW a \in Accounts, R!Register(a)
      PROVE  LadderInv' /\ role' = role
             /\ \A x \in Accounts : R!Weight(x) >= bar => account'[x] = account[x]
  <2>1. /\ account[a] = None /\ role' = role
        /\ account' = [account EXCEPT ![a] = DefaultSlug]
    BY <1>2 DEF R!Register
  <2>2. R!Weight(a) = 0 /\ bar \in Nat \ {0}
    BY <2>1, LadderConstants DEF R!Weight, LadderInv, RolesOK, BarOK
  <2>3. \A x \in Accounts \ {a} : account'[x] = account[x]
    BY <2>1 DEF LadderInv, RolesOK
  <2>4. LadderInv'
    BY <1>1, <1>2, RegisterKeeps
  <2>5. ~ (R!Weight(a) >= bar)
    BY <2>2
  <2> QED
    BY <2>1, <2>3, <2>4, <2>5
<1>3. ASSUME NEW q \in Reqs, NEW a \in Accounts, R!Admit(q, a) \/ R!AssignTarget(q, a)
      PROVE  LadderInv' /\ role' = role /\ account' = account
  BY <1>1, <1>3, AdmitKeeps, AssignTargetKeeps DEF R!Admit, R!AssignTarget
<1>4. ASSUME NEW q \in Reqs, NEW s \in NewSlugs, NEW w \in Weights, R!CreateLook(q, s, w)
      PROVE  LadderInv' /\ role' = role /\ account' = account
  BY <1>1, <1>4, CreateLookKeeps DEF R!CreateLook
<1>5. ASSUME NEW q \in Reqs, R!CreateCommit(q)
      PROVE  LadderInv' /\ account' = account
             /\ \A s \in DOMAIN role : s \in DOMAIN role' /\ role'[s] = role[s]
  <2>1. LadderInv' /\ account' = account
    BY <1>1, <1>5, CreateCommitKeeps
  <2>2. \A s \in DOMAIN role : s \in DOMAIN role' /\ role'[s] = role[s]
    BY <1>5 DEF R!CreateCommit
  <2> QED
    BY <2>1, <2>2
<1>6. ASSUME NEW q \in Reqs, NEW s \in Slugs, R!AssignRole(q, s)
      PROVE  LadderInv' /\ role' = role /\ account' = account
  BY <1>1, <1>6, AssignRoleKeeps DEF R!AssignRole
<1>7. ASSUME NEW q \in Reqs, R!AssignCommit(q)
      PROVE  /\ LadderInv' /\ role' = role
             /\ \A a \in Accounts : R!Weight(a) >= bar /\ account'[a] # account[a] =>
                   /\ req[q].pc = "assign" /\ req[q].manager = a
                   /\ req[q].target = a /\ req'[q] = R!Idle
  BY <1>1, <1>7, AssignCommitKeeps DEF R!AssignCommit
<1>8. \/ \E a \in Accounts : R!Register(a)
      \/ \E q \in Reqs : \E a \in Accounts : R!Admit(q, a) \/ R!AssignTarget(q, a)
      \/ \E q \in Reqs : \E s \in NewSlugs, w \in Weights : R!CreateLook(q, s, w)
      \/ \E q \in Reqs : R!CreateCommit(q)
      \/ \E q \in Reqs : \E s \in Slugs : R!AssignRole(q, s)
      \/ \E q \in Reqs : R!AssignCommit(q)
  BY <1>1 DEF R!Next
<1> QED
  BY <1>2, <1>3, <1>4, <1>5, <1>6, <1>7, <1>8

-----------------------------------------------------------------------------
(* The invariant and what follows from it.                                   *)

LEMMA InvInit == Init => IInv
  BY BootInit, LadderInit DEF Init, IInv

LEMMA InvNext ==
    ASSUME IInv, [Next]_vars
    PROVE  IInv'
<1>1. CASE Boot
  <2>1. \/ S!Begin \/ S!CreateStatement \/ S!AddColumn \/ S!CreateIndex
        \/ S!Proceed("create", "alter", Additions)
        \/ S!Proceed("alter", "index", LateIndexes)
        \/ S!Proceed("index", "roles", <<>>)
        \/ S!SeedRead("roles", "seed roles", "topics", DOMAIN DefaultRoles, DOMAIN role)
        \/ S!SeedRolesCommit
        \/ S!SeedRead("topics", "seed topics", "up", DefaultTopics, topics)
        \/ S!SeedTopicsCommit
    BY <1>1 DEF Boot, S!Boot
  <2> QED
    BY <1>1, <2>1, BeginOK, CreateStatementOK, ProceedOK, AddColumnOK, CreateIndexOK,
       SeedsOK, BootLadder DEF IInv
<1>2. CASE Serve
  BY <1>2, ServeLadder, MoreRoles DEF IInv, Serve
<1>3. CASE Crash
  BY <1>3, CrashOK, CrashLadder DEF IInv, Crash
<1>4. CASE UNCHANGED vars
  <2>1. BootInv'
    BY <1>4 DEF vars, startupVars, rolesVars, IInv, BootInv, S!TypeOK, Progress, Gaps
  <2>2. LadderInv'
    BY <1>4 DEF vars, startupVars, rolesVars, IInv, LadderInv, RolesOK, BarOK, HandlersOK,
                HandlerOK, R!Weight
  <2> QED
    BY <2>1, <2>2 DEF IInv
<1> QED
  BY <1>1, <1>2, <1>3, <1>4 DEF Next

\* Startup and Roles together keep the invariant over every restart.
THEOREM Inductive == Spec => []IInv
  BY InvInit, InvNext, PTL DEF Spec

\* The tables, the boot and the handlers' locals always hold what they may hold,
\* and only a server that is up has requests in flight.
THEOREM TypeInvariant == Spec => []TypeOK
<1>1. IInv => TypeOK
  <2> SUFFICES ASSUME IInv PROVE TypeOK
    OBVIOUS
  <2>1. phase = "up" => R!TypeOK
    <3> SUFFICES ASSUME phase = "up" PROVE R!TypeOK
      OBVIOUS
    <3>1. account \in [Accounts -> DOMAIN role \cup {None}]
      BY Resolved DEF IInv, LadderInv, RolesOK, RolesResolve
    <3> QED
      BY <3>1 DEF IInv, LadderInv, RolesOK, HandlersOK, HandlerOK, R!TypeOK
  <2> QED
    BY <2>1 DEF IInv, BootInv, LadderInv, RolesOK, HandlersOK, TypeOK
<1> QED
  BY <1>1, Inductive, PTL

\* A server that answers requests has every table, column, late index and
\* default row, lacks an index only for one of two reasons, and has a role for
\* every account: whatever database init_db was started on and wherever earlier
\* boots were cut off.
THEOREM UpIsCompleteTheorem == Spec => []UpIsComplete
<1>1. IInv => UpIsComplete
  <2> SUFFICES ASSUME IInv, phase = "up" PROVE UpIsComplete
    BY DEF UpIsComplete, S!UpIsComplete, S!IndexGaps
  <2>1. S!UpIsComplete
    <3>1. columns \subseteq S!ToSet(Additions)
      BY DEF IInv, BootInv, S!TypeOK, S!ColumnsOf
    <3> QED
      BY <3>1 DEF IInv, BootInv, Progress, S!UpIsComplete
  <2>2. S!IndexGaps
    BY <2>1 DEF IInv, BootInv, Gaps, S!IndexGaps, S!UpIsComplete
  <2>3. RolesResolve
    BY Resolved DEF IInv, LadderInv
  <2> QED
    BY <2>1, <2>2, <2>3 DEF UpIsComplete
<1> QED
  BY <1>1, Inductive, PTL

\* No sequence of calls to create_role and assign_role, of restarts and of
\* seedings takes an account, or a new role, to the heaviest weight that was
\* held at first.
THEOREM NoEscalationTheorem == Spec => []NoEscalation
<1>1. IInv => NoEscalation
  BY DEF IInv, LadderInv, BarOK, NoEscalation, R!NoEscalation
<1> QED
  BY <1>1, Inductive, PTL

\* No boot and no request touches a role that has a row, and an account at the
\* top is moved by no request but its own.
THEOREM LadderStandsTheorem == Spec => LadderStands
<1>1. ASSUME IInv, [Next]_vars
      PROVE  /\ \A s \in DOMAIN role : s \in DOMAIN role' /\ role'[s] = role[s]
             /\ \A a \in tops :
                   R!Weight(a) >= bar /\ account'[a] # account[a] =>
                       \E q \in Reqs : req[q].pc = "assign" /\ req[q].manager = a
                                       /\ req[q].target = a /\ req'[q] = R!Idle
  <2>1. tops \subseteq Accounts
    BY <1>1 DEF IInv, LadderInv, BarOK
  <2>2. CASE Boot
    <3>1. \A s \in DOMAIN role : s \in DOMAIN role' /\ role'[s] = role[s]
      BY <1>1, <2>2, BootStep DEF IInv, LadderInv, Boot
    <3> QED
      BY <1>1, <2>1, <2>2, <3>1, BootLadder DEF IInv
  <2>3. CASE Serve
    BY <1>1, <2>1, <2>3, ServeLadder DEF IInv
  <2>4. CASE Crash \/ UNCHANGED vars
    BY <2>4 DEF Crash, S!Crash, vars, rolesVars
  <2> QED
    BY <1>1, <2>2, <2>3, <2>4 DEF Next
<1>2. IInv /\ [Next]_vars =>
        [\A s \in DOMAIN role : s \in DOMAIN role' /\ role'[s] = role[s]]_S!vars
  BY <1>1
<1>3. IInv /\ [Next]_vars =>
        [\A a \in tops :
            R!Weight(a) >= bar /\ account'[a] # account[a] =>
                \E q \in Reqs : req[q].pc = "assign" /\ req[q].manager = a
                                /\ req[q].target = a /\ req'[q] = R!Idle]_R!vars
  BY <1>1
<1> QED
  BY <1>2, <1>3, Inductive, PTL DEF Spec, LadderStands, S!RetunedSurvive, R!TopsStay

=============================================================================
