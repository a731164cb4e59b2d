-------------------------- MODULE CommunityProofs --------------------------
(***************************************************************************)
(* Theorems about the five parts of the community in MCCommunity, for any   *)
(* number of accounts, rows, pages, texts and requests in flight.  Of the   *)
(* reactions: the type invariant, that nothing is counted twice, that a     *)
(* removed target goes quiet, and what alone makes a count drift.  A scroll *)
(* shows every row once and its cursors lead on; an edit that runs alone    *)
(* repairs the hashtags; what ThreadsProofs proves of posts and comments    *)
(* holds of the parts side by side; and the tags of a text are different,   *)
(* stay, and are found as they are written.                                 *)
(***************************************************************************)
EXTENDS MCCommunity, FiniteSetTheorems, SequenceTheorems, NaturalsInduction,
        WellFoundedInduction, TLAPS

-----------------------------------------------------------------------------
(* Reactions.                                                                *)

\* A request that has loaded its target.
Loaded(rq) == rq.user \in Users /\ rq.target \in Targets /\ rq.kind \in Kinds

\* What an unreact knows of the row it loaded: it was a row of this target
\* and, since ids are never given out twice, no other row is ever found in its
\* place.
HoldsRow(rq) ==
    /\ rq.target \in Targets
    /\ rq.row \in used
    /\ rq.row \in DOMAIN reaction => reaction[rq.row].target = rq.target

\* What the handlers rely on between their steps.
HandlersOK ==
    /\ IsFiniteSet(used)
    /\ \A q \in Reqs :
          /\ req[q].pc \in {"look", "add", "swap"} => Loaded(req[q])
          /\ req[q].pc = "take" => HoldsRow(req[q])

\* The inductive invariant of the type correctness proof, and of all of it.
TInv == TypeOK /\ HandlersOK

IInv == TInv /\ CountedOnce

-----------------------------------------------------------------------------
(* Reactions: rows, requests and the sets that are counted.                  *)

\* An idle request is a request.
LEMMA IdleRequest == Idle \in Request /\ Idle.pc = "idle"
BY DEF Idle, Request, Stages

\* A request that ends leaves the others as they are.
LEMMA EndsType ==
    ASSUME TypeOK, NEW q \in Reqs, Ends(q)
    PROVE  /\ req' \in [Reqs -> Request]
           /\ req'[q].pc = "idle"
           /\ \A p \in Reqs \ {q} : req'[p] = req[p]
BY IdleRequest DEF TypeOK, Ends

\* The reactions to a target are finitely many.
LEMMA OnFinite ==
    ASSUME TInv, NEW t
    PROVE  IsFiniteSet(On(t)) /\ Cardinality(On(t)) \in Nat
<1>1. IsFiniteSet(DOMAIN reaction)
  BY FS_Subset DEF TInv, TypeOK, HandlersOK
<1>2. On(t) \in SUBSET DOMAIN reaction
  BY DEF On
<1> QED
  BY <1>1, <1>2, FS_Subset, FS_CardinalityType

\* A reaction that is added is one more row of its target, and of no other;
\* the account had none there.
LEMMA Added ==
    ASSUME TInv, NEW q \in Reqs, NEW i \in Ids, AddCommit(q, i),
           ~Clashes(req[q].user, req[q].target)
    PROVE  /\ i \notin DOMAIN reaction
           /\ DOMAIN reaction' = DOMAIN reaction \cup {i}
           /\ reaction'[i] \in ReactionRow
           /\ reaction'[i].user = req[q].user
           /\ reaction'[i].target = req[q].target
           /\ \A j \in DOMAIN reaction : reaction'[j] = reaction[j]
           /\ req[q].target \in Targets
           /\ i \notin On(req[q].target)
           /\ \A t \in Targets :
                 On(t)' = IF t = req[q].target THEN On(t) \cup {i} ELSE On(t)
<1>1. i \notin DOMAIN reaction
  BY DEF AddCommit, Fresh, TInv, TypeOK
<1>2. Loaded(req[q])
  BY DEF AddCommit, TInv, HandlersOK
<1>3. DOMAIN reaction' = DOMAIN reaction \cup {i}
  BY DEF AddCommit
<1>4. reaction'[i] = [user |-> req[q].user, target |-> req[q].target, kind |-> req[q].kind]
  BY DEF AddCommit
<1>5. \A j \in DOMAIN reaction : reaction'[j] = reaction[j]
  BY <1>1 DEF AddCommit
<1>6. \A t \in Targets : On(t)' = IF t = req[q].target THEN On(t) \cup {i} ELSE On(t)
  BY <1>1, <1>3, <1>4, <1>5 DEF On
<1> QED
  BY <1>1, <1>2, <1>3, <1>4, <1>5, <1>6 DEF Loaded, ReactionRow, On

\* A reaction that is taken back leaves its target one row short, if the row
\* was still there, and no other target.
LEMMA Taken ==
    ASSUME TInv, NEW q \in Reqs, TakeCommit(q)
    PROVE  LET i == req[q].row
           IN  /\ req[q].target \in Targets
               /\ DOMAIN reaction' = DOMAIN reaction \ {i}
               /\ \A j \in DOMAIN reaction' : reaction'[j] = reaction[j]
               /\ i \in On(req[q].target) <=> i \in DOMAIN reaction
               /\ \A t \in Targets :
                     On(t)' = IF t = req[q].target THEN On(t) \ {i} ELSE On(t)
<1> DEFINE i == req[q].row
<1>1. HoldsRow(req[q])
  BY DEF TakeCommit, TInv, HandlersOK
<1>2. /\ DOMAIN reaction' = DOMAIN reaction \ {i}
      /\ \A j \in DOMAIN reaction' : reaction'[j] = reaction[j]
  BY DEF TakeCommit
<1>3. \A t \in Targets : On(t)' = On(t) \ {i}
  BY <1>2 DEF On
<1>4. i \in DOMAIN reaction => reaction[i].target = req[q].target
  BY <1>1 DEF HoldsRow
<1> QED
  BY <1>1, <1>2, <1>3, <1>4 DEF HoldsRow, On

\* A change of kind moves no row to another account or target.
LEMMA Swapped ==
    ASSUME TInv, NEW q \in Reqs, SwapCommit(q)
    PROVE  /\ DOMAIN reaction' = DOMAIN reaction
           /\ reaction' \in [DOMAIN reaction -> ReactionRow]
           /\ \A j \in DOMAIN reaction : /\ reaction'[j].user = reaction[j].user
                                         /\ reaction'[j].target = reaction[j].target
           /\ \A t \in Targets : On(t)' = On(t)
<1>1. Loaded(req[q])
  BY DEF SwapCommit, TInv, HandlersOK
<1>2. /\ DOMAIN reaction' = DOMAIN reaction
      /\ reaction' \in [DOMAIN reaction -> ReactionRow]
      /\ \A j \in DOMAIN reaction : /\ reaction'[j].user = reaction[j].user
                                    /\ reaction'[j].target = reaction[j].target
  BY <1>1 DEF SwapCommit, TInv, TypeOK, ReactionRow, Loaded
<1>3. \A t \in Targets : On(t)' = On(t)
  BY <1>2 DEF On
<1> QED
  BY <1>2, <1>3

-----------------------------------------------------------------------------
(* Reactions: type correctness.                                              *)

\* Init establishes the invariant.
LEMMA TypeInit == Init => TInv
BY IdleRequest, FS_EmptySet DEF Init, TInv, TypeOK, HandlersOK, Idle

\* Every step preserves it.
LEMMA TypeStep == TInv /\ [Next]_vars => TInv'
<1> SUFFICES ASSUME TInv, [Next]_vars PROVE TInv'
  OBVIOUS
<1>1. ASSUME NEW q \in Reqs, NEW u \in Users, NEW t \in Targets, NEW k \in Kinds,
             ReactTarget(q, u, t, k)
      PROVE  TInv'
  BY <1>1 DEF ReactTarget, TInv, TypeOK, HandlersOK, HoldsRow, Loaded, Idle, Request, Stages
<1>2. ASSUME NEW q \in Reqs, ReactLook(q) PROVE TInv'
  <2>1. Loaded(req[q]) /\ req[q] \in Request
    BY <1>2 DEF ReactLook, TInv, TypeOK, HandlersOK
  <2>2. CASE Held(req[q].user, req[q].target) = {}
    BY <1>2, <2>1, <2>2
    DEF ReactLook, TInv, TypeOK, HandlersOK, HoldsRow, Loaded, Request, Stages
  <2>3. ASSUME NEW i \in Held(req[q].user, req[q].target),
               req' = [req EXCEPT ![q].pc = "swap", ![q].row = i,
                                  ![q].seen = reaction[i].kind]
        PROVE  TInv'
    <3>1. i \in Ids /\ reaction[i].kind \in Kinds
      BY <2>3 DEF Held, TInv, TypeOK, ReactionRow
    <3>2. req'[q] \in Request /\ req'[q].pc = "swap" /\ Loaded(req'[q])
      BY <2>1, <2>3, <3>1 DEF TInv, TypeOK, Loaded, Request, Stages
    <3> QED
      BY <1>2, <2>3, <3>2 DEF ReactLook, TInv, TypeOK, HandlersOK, HoldsRow, Loaded
  <2> QED
    BY <1>2, <2>2, <2>3 DEF ReactLook
<1>3. ASSUME NEW q \in Reqs, NEW i \in Ids, AddCommit(q, i) PROVE TInv'
  <2>1. /\ req' \in [Reqs -> Request] /\ req'[q].pc = "idle"
        /\ \A p \in Reqs \ {q} : req'[p] = req[p]
        /\ removed' = removed
    BY <1>3, EndsType DEF AddCommit, TInv
  <2>2. CASE Clashes(req[q].user, req[q].target)
    BY <1>3, <2>1, <2>2 DEF AddCommit, TInv, TypeOK, HandlersOK, HoldsRow, Loaded
  <2>3. CASE ~Clashes(req[q].user, req[q].target)
    <3>1. used' = used \cup {i} /\ i \notin used
          /\ count' = [count EXCEPT ![req[q].target] = Counted(@)]
      BY <1>3, <2>3 DEF AddCommit, Fresh
    <3>2. IsFiniteSet(used')
      BY <3>1, FS_AddElement DEF TInv, HandlersOK
    <3>3. DOMAIN reaction' \subseteq used' /\ reaction' \in [DOMAIN reaction' -> ReactionRow]
      <4>1. \A j \in DOMAIN reaction' : reaction'[j] \in ReactionRow
        BY <1>3, <2>3, Added DEF TInv, TypeOK
      <4>2. reaction' = [j \in DOMAIN reaction' |-> reaction'[j]]
        BY <1>3, <2>3 DEF AddCommit
      <4> QED
        BY <1>3, <2>3, <3>1, <4>1, <4>2, Added DEF TInv, TypeOK
    <3>4. count' \in [Targets -> Nat]
      <4>1. count \in [Targets -> Nat] /\ req[q].target \in Targets
        BY <1>3, <2>3, Added DEF TInv, TypeOK
      <4> QED
        BY <3>1, <4>1 DEF Counted
    <3>5. TypeOK'
      BY <2>1, <3>1, <3>3, <3>4 DEF TInv, TypeOK
    <3>6. \A p \in Reqs : req'[p].pc = "take" => HoldsRow(req[p])'
      <4> TAKE p \in Reqs
      <4> HAVE req'[p].pc = "take"
      <4>1. p # q /\ req'[p] = req[p] /\ HoldsRow(req[p])
        BY <2>1 DEF TInv, HandlersOK
      <4>2. \A j \in DOMAIN reaction' : j \in used =>
               j \in DOMAIN reaction /\ reaction'[j].target = reaction[j].target
        <5>1. /\ DOMAIN reaction' = DOMAIN reaction \cup {i}
              /\ \A j \in DOMAIN reaction : reaction'[j] = reaction[j]
          BY <1>3, <2>3, Added
        <5> QED
          BY <3>1, <5>1
      <4> QED
        BY <3>1, <4>1, <4>2 DEF HoldsRow
    <3>7. HandlersOK'
      BY <2>1, <3>2, <3>6 DEF TInv, HandlersOK, Loaded
    <3> QED
      BY <3>5, <3>7 DEF TInv
  <2> QED
    BY <2>2, <2>3
<1>4. ASSUME NEW q \in Reqs, SwapCommit(q) PROVE TInv'
  <2>1. /\ req' \in [Reqs -> Request] /\ req'[q].pc = "idle"
        /\ \A p \in Reqs \ {q} : req'[p] = req[p]
        /\ UNCHANGED <<removed, used, count>>
    BY <1>4, EndsType DEF SwapCommit, TInv
  <2>2. TypeOK'
    BY <1>4, <2>1, Swapped DEF TInv, TypeOK
  <2>3. HandlersOK'
    BY <1>4, <2>1, Swapped DEF TInv, TypeOK, HandlersOK, HoldsRow, Loaded
  <2> QED
    BY <2>2, <2>3 DEF TInv
<1>5. ASSUME NEW q \in Reqs, NEW u \in Users, NEW t \in Targets, UnreactLook(q, u, t)
      PROVE  TInv'
  <2>1. PICK i \in Held(u, t) :
            req' = [req EXCEPT ![q] =
                      [Idle EXCEPT !.pc = "take", !.user = u, !.target = t, !.row = i]]
    BY <1>5 DEF UnreactLook
  <2>2. i \in DOMAIN reaction /\ i \in used /\ i \in Ids /\ reaction[i].target = t
    BY <2>1 DEF Held, TInv, TypeOK
  <2>3. /\ req'[q] \in Request /\ req'[q].pc = "take"
        /\ req'[q].target = t /\ req'[q].row = i
    BY <2>1, <2>2 DEF TInv, TypeOK, Idle, Request, Stages
  <2> QED
    BY <1>5, <2>1, <2>2, <2>3 DEF UnreactLook, TInv, TypeOK, HandlersOK, HoldsRow, Loaded
<1>6. ASSUME NEW q \in Reqs, TakeCommit(q) PROVE TInv'
  <2>1. /\ req' \in [Reqs -> Request] /\ req'[q].pc = "idle"
        /\ \A p \in Reqs \ {q} : req'[p] = req[p]
        /\ UNCHANGED <<removed, used>>
    BY <1>6, EndsType DEF TakeCommit, TInv
  <2>2. count' \in [Targets -> Nat]
    <3>1. count \in [Targets -> Nat] /\ req[q].target \in Targets
      BY <1>6, Taken DEF TInv, TypeOK
    <3>2. count' = [count EXCEPT ![req[q].target] = Decremented(@)]
      BY <1>6 DEF TakeCommit
    <3> QED
      BY <3>1, <3>2 DEF Decremented
  <2>3. reaction' \in [DOMAIN reaction' -> ReactionRow] /\ DOMAIN reaction' \subseteq used
    BY <1>6 DEF TakeCommit, TInv, TypeOK
  <2>4. \A p \in Reqs : req'[p].pc = "take" => HoldsRow(req[p])'
    <3> TAKE p \in Reqs
    <3> HAVE req'[p].pc = "take"
    <3>1. p # q /\ req'[p] = req[p] /\ HoldsRow(req[p])
      BY <2>1 DEF TInv, HandlersOK
    <3>2. \A j \in DOMAIN reaction' : j \in DOMAIN reaction /\ reaction'[j] = reaction[j]
      BY <1>6 DEF TakeCommit
    <3> QED
      BY <2>1, <3>1, <3>2 DEF HoldsRow
  <2>5. HandlersOK'
    BY <2>1, <2>4 DEF TInv, HandlersOK, Loaded
  <2> QED
    BY <2>1, <2>2, <2>3, <2>5 DEF TInv, TypeOK
<1>7. ASSUME NEW t \in Targets, Remove(t) PROVE TInv'
  BY <1>7 DEF Remove, TInv, TypeOK, HandlersOK, HoldsRow, Loaded
<1>8. CASE UNCHANGED vars
  BY <1>8 DEF vars, TInv, TypeOK, HandlersOK, HoldsRow, Loaded
<1> QED
  BY <1>1, <1>2, <1>3, <1>4, <1>5, <1>6, <1>7, <1>8 DEF Next

\* The type invariant, with what the handlers rely on, for every value of the
\* constants.
THEOREM TypeCorrect == Spec => []TInv
BY TypeInit, TypeStep, PTL DEF Spec

\* In particular TypeOK.
THEOREM TypeInvariant == Spec => []TypeOK
BY TypeCorrect, PTL DEF TInv

-----------------------------------------------------------------------------
(* Reactions: nothing is counted twice.                                      *)

\* Steps that move no row to another target and count nothing keep both halves.
LEMMA CountedKept ==
    ASSUME IInv, UNCHANGED <<count>>, DOMAIN reaction' = DOMAIN reaction,
           \A j \in DOMAIN reaction : /\ reaction'[j].user = reaction[j].user
                                      /\ reaction'[j].target = reaction[j].target
    PROVE  CountedOnce' /\ \A t \in Targets : On(t)' = On(t)
<1>1. \A t \in Targets : On(t)' = On(t)
  BY DEF On
<1>2. OnePerTarget'
  BY DEF IInv, CountedOnce, OnePerTarget
<1>3. NeverOvercounts'
  BY <1>1 DEF IInv, CountedOnce, NeverOvercounts
<1> QED
  BY <1>1, <1>2, <1>3 DEF CountedOnce

\* A reaction that is added is the first of its account there and is counted
\* together with its row.
LEMMA CountedAdd ==
    ASSUME IInv, NEW q \in Reqs, NEW i \in Ids, AddCommit(q, i),
           ~Clashes(req[q].user, req[q].target)
    PROVE  CountedOnce' /\ \A t \in Targets : Missing(t)' = Missing(t)
<1>1. TInv
  BY DEF IInv
<1>2. OnePerTarget'
  <2>1. \A j \in DOMAIN reaction :
           ~(reaction[j].user = req[q].user /\ reaction[j].target = req[q].target)
    BY DEF Clashes, Held
  <2>2. /\ DOMAIN reaction' = DOMAIN reaction \cup {i}
        /\ reaction'[i].user = req[q].user /\ reaction'[i].target = req[q].target
        /\ \A j \in DOMAIN reaction : reaction'[j] = reaction[j]
    BY <1>1, Added
  <2> QED
    BY <2>1, <2>2 DEF IInv, CountedOnce, OnePerTarget
<1>3. ASSUME NEW t \in Targets
      PROVE  count[t]' <= Cardinality(On(t))' /\ Missing(t)' = Missing(t)
  <2>1. count' = [count EXCEPT ![req[q].target] = Counted(@)]
    BY DEF AddCommit
  <2>2. /\ IsFiniteSet(On(t)) /\ Cardinality(On(t)) \in Nat
        /\ count \in [Targets -> Nat] /\ count[t] <= Cardinality(On(t))
    BY <1>1, OnFinite DEF IInv, TInv, TypeOK, CountedOnce, NeverOvercounts
  <2>3. CASE t = req[q].target
    <3>1. On(t)' = On(t) \cup {i} /\ i \notin On(t)
      BY <1>1, <2>3, Added
    <3>2. Cardinality(On(t) \cup {i}) = Cardinality(On(t)) + 1
      BY <2>2, <3>1, FS_AddElement
    <3>3. count'[t] = count[t] + 1
      BY <2>1, <2>2, <2>3 DEF Counted
    <3> QED
      BY <2>2, <3>1, <3>2, <3>3 DEF Missing
  <2>4. CASE t # req[q].target
    <3>1. On(t)' = On(t) /\ count'[t] = count[t]
      BY <1>1, <2>1, <2>2, <2>4, Added
    <3> QED
      BY <2>2, <3>1 DEF Missing
  <2> QED
    BY <2>3, <2>4
<1> QED
  BY <1>2, <1>3 DEF CountedOnce, NeverOvercounts

\* A reaction that is taken back is uncounted together with its row; only when
\* the row was gone already does the count fall short by one more.
LEMMA CountedTake ==
    ASSUME IInv, NEW q \in Reqs, TakeCommit(q)
    PROVE  /\ CountedOnce'
           /\ \A t \in Targets : /\ count'[t] <= count[t]
                                 /\ Missing(t)' > Missing(t) =>
                                       Stale(q) /\ req[q].target = t
<1> DEFINE i == req[q].row
<1>1. TInv
  BY DEF IInv
<1>2. OnePerTarget'
  BY DEF TakeCommit, IInv, CountedOnce, OnePerTarget
<1>3. ASSUME NEW t \in Targets
      PROVE  /\ count'[t] <= Cardinality(On(t))' /\ count'[t] <= count[t]
             /\ Missing(t)' > Missing(t) => Stale(q) /\ req[q].target = t
  <2>1. count' = [count EXCEPT ![req[q].target] = Decremented(@)]
    BY DEF TakeCommit
  <2>2. /\ IsFiniteSet(On(t)) /\ Cardinality(On(t)) \in Nat
        /\ count \in [Targets -> Nat] /\ count[t] <= Cardinality(On(t))
    BY <1>1, OnFinite DEF IInv, TInv, TypeOK, CountedOnce, NeverOvercounts
  <2>3. CASE t # req[q].target
    <3>1. On(t)' = On(t) /\ count'[t] = count[t]
      BY <1>1, <2>1, <2>2, <2>3, Taken
    <3> QED
      BY <2>2, <3>1 DEF Missing
  <2>4. CASE t = req[q].target
    <3>1. On(t)' = On(t) \ {i} /\ (i \in On(t) <=> i \in DOMAIN reaction)
      BY <1>1, <2>4, Taken
    <3>2. count'[t] = Decremented(count[t])
      BY <2>1, <2>2, <2>4
    <3>3. CASE i \in On(t)
      <4>1. Cardinality(On(t))' = Cardinality(On(t)) - 1
        BY <2>2, <3>1, <3>3, FS_RemoveElement
      <4>2. Cardinality(On(t)) > 0
        BY <2>2, <3>3, FS_EmptySet
      <4> QED
        BY <2>2, <3>2, <4>1, <4>2 DEF Missing, Decremented
    <3>4. CASE i \notin On(t)
      <4>1. On(t)' = On(t) /\ Stale(q)
        BY <3>1, <3>4 DEF Stale, TakeCommit
      <4> QED
        BY <2>2, <2>4, <3>2, <4>1 DEF Missing, Decremented
    <3> QED
      BY <3>3, <3>4
  <2> QED
    BY <2>3, <2>4
<1> QED
  BY <1>2, <1>3 DEF CountedOnce, NeverOvercounts

\* Every other step leaves the rows where they are and the counts alone.
LEMMA OtherSteps ==
    ASSUME TInv, [Next]_vars,
           ~ \E q \in Reqs : TakeCommit(q),
           ~ \E q \in Reqs, i \in Ids :
                AddCommit(q, i) /\ ~Clashes(req[q].user, req[q].target)
    PROVE  /\ UNCHANGED <<count>>
           /\ DOMAIN reaction' = DOMAIN reaction
           /\ \A j \in DOMAIN reaction : /\ reaction'[j].user = reaction[j].user
                                         /\ reaction'[j].target = reaction[j].target
<1>1. ASSUME NEW q \in Reqs, SwapCommit(q)
      PROVE  UNCHANGED <<count>> /\ DOMAIN reaction' = DOMAIN reaction
             /\ \A j \in DOMAIN reaction : /\ reaction'[j].user = reaction[j].user
                                           /\ reaction'[j].target = reaction[j].target
  BY <1>1, Swapped DEF SwapCommit
<1>2. ASSUME ~ \E q \in Reqs : SwapCommit(q)
      PROVE  UNCHANGED <<reaction, count>>
  BY <1>2 DEF Next, vars, ReactTarget, ReactLook, UnreactLook, AddCommit, Remove
<1> QED
  BY <1>1, <1>2

\* CountedOnce is inductive on top of what the handlers rely on.
LEMMA CountedStep == IInv /\ [Next]_vars => CountedOnce'
<1> SUFFICES ASSUME IInv, [Next]_vars PROVE CountedOnce'
  OBVIOUS
<1>1. ASSUME NEW q \in Reqs, TakeCommit(q) PROVE CountedOnce'
  BY <1>1, CountedTake
<1>2. ASSUME NEW q \in Reqs, NEW i \in Ids, AddCommit(q, i),
             ~Clashes(req[q].user, req[q].target)
      PROVE  CountedOnce'
  BY <1>2, CountedAdd
<1>3. ASSUME ~ \E q \in Reqs : TakeCommit(q),
             ~ \E q \in Reqs, i \in Ids :
                  AddCommit(q, i) /\ ~Clashes(req[q].user, req[q].target)
      PROVE  CountedOnce'
  BY <1>3, OtherSteps, CountedKept DEF IInv
<1> QED
  BY <1>1, <1>2, <1>3

\* No target has been reacted to when the service starts.
LEMMA CountedInit == Init => CountedOnce
<1> SUFFICES ASSUME Init PROVE CountedOnce
  OBVIOUS
<1>1. \A t \in Targets : On(t) = {} /\ count[t] = 0
  BY DEF Init, On
<1> QED
  BY <1>1, FS_EmptySet DEF Init, CountedOnce, OnePerTarget, NeverOvercounts

\* The whole inductive invariant.
LEMMA Inductive == Spec => []IInv
<1>1. Init => IInv
  BY TypeInit, CountedInit DEF IInv
<1>2. IInv /\ [Next]_vars => IInv'
  BY TypeStep, CountedStep DEF IInv
<1> QED
  BY <1>1, <1>2, PTL DEF Spec

\* "A double-tap cannot double-count" (uq_reaction_per_target and the update in
\* one transaction): an account holds at most one reaction to a target and no
\* count promises more reactions than there are.
THEOREM CountedOnceInvariant == Spec => []CountedOnce
BY Inductive, PTL DEF IInv

-----------------------------------------------------------------------------
(* Reactions: what a step may never do.                                      *)

\* A step that leaves the removals and the requests of others alone can only
\* end a reaction in flight.
LEMMA QuietKept ==
    ASSUME NEW t \in Targets, Quiet(t), removed \subseteq removed',
           \A p \in Reqs : \/ req'[p] = req[p]
                           \/ req'[p].pc \notin {"look", "add", "swap"}
                           \/ req'[p].target # t
    PROVE  Quiet(t)'
BY DEF Quiet, Reacting

\* Nobody can start to react to a removed target, so none of what follows a
\* reaction's first step happens to a quiet one.
LEMMA QuietStep ==
    ASSUME IInv, [Next]_vars, NEW t \in Targets, Quiet(t)
    PROVE  /\ Quiet(t)'
           /\ {i \in DOMAIN reaction' : reaction'[i].target = t} \subseteq On(t)
           /\ count'[t] <= count[t]
<1> DEFINE Q == /\ Quiet(t)'
                /\ {i \in DOMAIN reaction' : reaction'[i].target = t} \subseteq On(t)
                /\ count'[t] <= count[t]
<1>1. TInv /\ count[t] \in Nat
  BY DEF IInv, TInv, TypeOK
<1>2. \A q \in Reqs : req[q].pc \in {"look", "add", "swap"} => req[q].target # t
  BY DEF Quiet, Reacting
<1>3. ASSUME NEW q \in Reqs, NEW i \in Ids, AddCommit(q, i),
             ~Clashes(req[q].user, req[q].target)
      PROVE  Q
  <2>1. req[q].target # t
    BY <1>2, <1>3 DEF AddCommit
  <2>2. On(t)' = On(t)
    BY <1>1, <1>3, <2>1, Added
  <2>3. count'[t] = count[t]
    BY <1>1, <1>3, <2>1 DEF AddCommit, TInv, TypeOK
  <2>4. Quiet(t)'
    BY <1>1, <1>3, EndsType, QuietKept DEF AddCommit, TInv
  <2> QED
    BY <1>1, <2>2, <2>3, <2>4 DEF On
<1>4. ASSUME NEW q \in Reqs, TakeCommit(q) PROVE Q
  <2>1. Quiet(t)'
    BY <1>1, <1>4, EndsType, QuietKept DEF TakeCommit, TInv
  <2> QED
    BY <1>4, <2>1, CountedTake DEF TakeCommit, On
<1>5. ASSUME ~ \E q \in Reqs : TakeCommit(q),
             ~ \E q \in Reqs, i \in Ids :
                  AddCommit(q, i) /\ ~Clashes(req[q].user, req[q].target)
      PROVE  Q
  <2>1. UNCHANGED <<count>> /\ On(t)' = On(t)
    BY <1>1, <1>5, OtherSteps, CountedKept
  <2>2. Quiet(t)'
    <3>1. ASSUME NEW q \in Reqs, NEW u \in Users, NEW s \in Targets, NEW k \in Kinds,
                 ReactTarget(q, u, s, k)
          PROVE  Quiet(t)'
      BY <1>1, <3>1, QuietKept DEF ReactTarget, Reactable, Quiet, TInv, TypeOK, Idle
    <3>2. ASSUME NEW q \in Reqs, ReactLook(q) PROVE Quiet(t)'
      <4>1. /\ \A p \in Reqs \ {q} : req'[p] = req[p]
            /\ req'[q].target = req[q].target /\ req[q].target # t
            /\ removed' = removed
        <5>1. req \in [Reqs -> Request] /\ req[q].target # t
          BY <1>1, <1>2, <3>2 DEF ReactLook, TInv, TypeOK
        <5>2. CASE req' = [req EXCEPT ![q].pc = "add"]
          BY <3>2, <5>1, <5>2 DEF ReactLook, Request
        <5>3. ASSUME NEW i,
                     req' = [req EXCEPT ![q].pc = "swap", ![q].row = i,
                                        ![q].seen = reaction[i].kind]
              PROVE  /\ \A p \in Reqs \ {q} : req'[p] = req[p]
                     /\ req'[q].target = req[q].target
          BY <5>1, <5>3 DEF Request
        <5> QED
          BY <3>2, <5>1, <5>2, <5>3 DEF ReactLook
      <4> QED
        BY <4>1, QuietKept
    <3>3. ASSUME NEW q \in Reqs, NEW i \in Ids, AddCommit(q, i) PROVE Quiet(t)'
      BY <1>1, <3>3, EndsType, QuietKept DEF AddCommit, TInv
    <3>4. ASSUME NEW q \in Reqs, SwapCommit(q) PROVE Quiet(t)'
      BY <1>1, <3>4, EndsType, QuietKept DEF SwapCommit, TInv
    <3>5. ASSUME NEW q \in Reqs, NEW u \in Users, NEW s \in Targets, UnreactLook(q, u, s)
          PROVE  Quiet(t)'
      BY <1>1, <3>5, QuietKept DEF UnreactLook, TInv, TypeOK, Idle
    <3>6. ASSUME NEW s \in Targets, Remove(s) PROVE Quiet(t)'
      BY <3>6, QuietKept DEF Remove
    <3>7. CASE UNCHANGED vars
      BY <3>7, QuietKept DEF vars
    <3> QED
      BY <1>5, <3>1, <3>2, <3>3, <3>4, <3>5, <3>6, <3>7 DEF Next
  <2> QED
    BY <1>1, <2>1, <2>2 DEF On
<1> QED
  BY <1>3, <1>4, <1>5

\* Once a target is removed and the reactions in flight have ended, no later
\* request of any number adds a reaction to it or to its count
\* (_reaction_target refuses what is deleted).
THEOREM RemovedGainsNothingTheorem == Spec => RemovedGainsNothing
<1>1. IInv /\ [Next]_vars =>
        [\A t \in Targets :
            Quiet(t) =>
                /\ Quiet(t)'
                /\ {i \in DOMAIN reaction' : reaction'[i].target = t} \subseteq On(t)
                /\ count'[t] <= count[t]]_vars
  BY QuietStep
<1> QED
  BY <1>1, Inductive, PTL DEF Spec, RemovedGainsNothing

\* The one step that makes a count fall short is an unreact whose row is gone.
LEMMA DriftStep ==
    ASSUME IInv, [Next]_vars, NEW t \in Targets, Missing(t)' > Missing(t)
    PROVE  \E q \in Reqs : Stale(q) /\ req[q].target = t
<1>1. Missing(t) \in Int
  BY OnFinite DEF Missing, IInv, TInv, TypeOK
<1>2. ASSUME NEW q \in Reqs, NEW i \in Ids, AddCommit(q, i),
             ~Clashes(req[q].user, req[q].target)
      PROVE  FALSE
  BY <1>1, <1>2, CountedAdd
<1>3. ASSUME ~ \E q \in Reqs : TakeCommit(q) PROVE FALSE
  <2>1. UNCHANGED <<count>> /\ On(t)' = On(t)
    BY <1>2, <1>3, OtherSteps, CountedKept DEF IInv
  <2> QED
    BY <1>1, <2>1 DEF Missing
<1>4. PICK q \in Reqs : TakeCommit(q)
  BY <1>3
<1> QED
  BY <1>4, CountedTake

\* The counts are "kept honest by updating them in the same transaction": with
\* any number of reactions in flight, only an unreact whose row another unreact
\* of the same user deleted first makes a count fall short.
THEOREM DriftTheorem == Spec => OnlyStaleUnreactDrifts
<1>1. IInv /\ [Next]_vars =>
        [\A t \in Targets :
            Missing(t)' > Missing(t) => \E q \in Reqs : Stale(q) /\ req[q].target = t]_vars
  BY DriftStep
<1> QED
  BY <1>1, Inductive, PTL DEF Spec, OnlyStaleUnreactDrifts

-----------------------------------------------------------------------------
(* The order of a list.                                                      *)

\* Where a reader has come to.
Place(r) == [stamp |-> stamp[r], id |-> r]

\* The rows that have been written.
Written == DOMAIN stamp

\* What a scroll relies on between two pages: the cursor is the place of the
\* row shown last; a row that is due is ahead or was shown; and the row that
\* made a page promise another one is there, unless a row has left.
ScrollOK ==
    /\ F!TypeOK
    /\ IsFiniteSet(Written)
    /\ \A i \in 1 .. Len(shown) : shown[i] \in Written
    /\ F!NoRepeats
    /\ ~over => IF shown = <<>> THEN cursor = None ELSE cursor = Place(F!Last(shown))
    /\ \A r \in due : F!Ahead(r) \/ \E i \in 1 .. Len(shown) : shown[i] = r
    /\ ~over /\ cursor # None /\ ~left => \E r \in F!Listed : F!Beyond(cursor, r)

\* A written row has a number and a stamp.
LEMMA WrittenRow ==
    ASSUME F!ConstantsOK, F!TypeOK, NEW r \in Written
    PROVE  r \in Nat /\ r \in Rows /\ stamp[r] \in Nat /\ stamp[r] \in 1 .. MaxClock
<1>1. r \in Rows /\ stamp[r] \in 1 .. clock
  BY DEF F!TypeOK, Written
<1>2. clock \in 1 .. MaxClock /\ MaxClock \in Nat
  BY DEF F!TypeOK, F!ConstantsOK
<1> QED
  BY <1>1, <1>2 DEF F!ConstantsOK

\* A row on the list has been written.
LEMMA ListedIsWritten ==
    ASSUME F!TypeOK
    PROVE  F!Listed \subseteq Written
BY DEF F!TypeOK, F!Listed, Written

\* The order of the list is strict and total.
LEMMA BeforeIsOrder ==
    ASSUME F!ConstantsOK, F!TypeOK, NEW a \in Written, NEW b \in Written
    PROVE  /\ ~ F!Before(a, a)
           /\ F!Before(a, b) => ~ F!Before(b, a)
           /\ a = b \/ F!Before(a, b) \/ F!Before(b, a)
BY WrittenRow DEF F!Before

LEMMA BeforeIsTransitive ==
    ASSUME F!ConstantsOK, F!TypeOK,
           NEW a \in Written, NEW b \in Written, NEW c \in Written,
           F!Before(a, b), F!Before(b, c)
    PROVE  F!Before(a, c)
BY WrittenRow DEF F!Before

\* The predicate of a page takes the rows behind the place of the cursor.
LEMMA BeyondIsBehind ==
    ASSUME F!ConstantsOK, F!TypeOK, NEW a \in Written, NEW b \in Written
    PROVE  F!Beyond(Place(a), b) <=> F!Before(a, b)
BY WrittenRow DEF F!Before, F!Beyond, Place

\* What a page says of the rows ahead of the reader: their first ones in order,
\* and whether there is one behind them.
PageOf(ahead, limit, page, more) ==
    /\ page \in Seq(ahead)
    /\ \A i, j \in 1 .. Len(page) : i < j => F!Before(page[i], page[j])
    /\ more \in BOOLEAN
    /\ more => /\ Len(page) = limit
               /\ \E r \in ahead : F!Before(F!Last(page), r)
    /\ \A r \in ahead : \/ \E i \in 1 .. Len(page) : page[i] = r
                        \/ more /\ F!Before(F!Last(page), r)

\* The first rows of a sequence.
LEMMA UptoIsPrefix ==
    ASSUME NEW S, NEW s \in Seq(S), NEW k \in Nat
    PROVE  LET m == IF Len(s) < k THEN Len(s) ELSE k
           IN  /\ m \in Nat /\ m <= Len(s)
               /\ F!Upto(s, k) \in Seq(S)
               /\ Len(F!Upto(s, k)) = m
               /\ \A i \in 1 .. m : F!Upto(s, k)[i] = s[i]
<1> DEFINE m == IF Len(s) < k THEN Len(s) ELSE k
<1>1. Len(s) \in Nat /\ s \in [1 .. Len(s) -> S]
  BY LenProperties
<1>2. m \in Nat /\ m <= Len(s)
  BY <1>1
<1>3. \A i \in 1 .. m : s[i] \in S
  BY <1>1, <1>2
<1>4. F!Upto(s, k) = SubSeq(s, 1, m)
  BY DEF F!Upto
<1> HIDE DEF m
<1>5. /\ SubSeq(s, 1, m) \in Seq(S)
      /\ Len(SubSeq(s, 1, m)) = IF 1 <= m THEN m - 1 + 1 ELSE 0
      /\ \A i \in 1 .. m - 1 + 1 : SubSeq(s, 1, m)[i] = s[1 + i - 1]
  BY <1>2, <1>3, SubSeqProperties
<1>6. /\ Len(SubSeq(s, 1, m)) = m
      /\ \A i \in 1 .. m : SubSeq(s, 1, m)[i] = s[i]
  BY <1>2, <1>5
<1> QED
  BY <1>2, <1>4, <1>5, <1>6 DEF m

\* The instance of Feed counts as the other parts do.
LEMMA OneCardinality == \A S : F!Cardinality(S) = Cardinality(S)
BY DEF F!Cardinality, Cardinality

\* A list in order names each of its rows once.
LEMMA InOrderIsComplete ==
    ASSUME NEW ahead, IsFiniteSet(ahead), NEW s \in F!InOrder(ahead)
    PROVE  /\ s \in Seq(ahead)
           /\ \A i, j \in 1 .. Len(s) : i < j => F!Before(s[i], s[j])
           /\ \A r \in ahead : \E i \in 1 .. Len(s) : s[i] = r
<1> PICK n : n = Cardinality(ahead)
  OBVIOUS
<1>0. n \in Nat
  BY FS_CardinalityType
<1>1. s \in [1 .. n -> ahead] /\ \A i, j \in 1 .. n : i # j => s[i] # s[j]
  BY OneCardinality DEF F!InOrder, F!SetToSeqs
<1>2. s \in Injection(1 .. n, ahead)
  BY <1>1 DEF Injection, IsInjective
<1>3. Cardinality(1 .. n) = n
  BY <1>0, FS_Interval
<1>4. s \in Surjection(1 .. n, ahead)
  BY <1>2, <1>3, FS_Injection
<1>5. s \in Seq(ahead) /\ Len(s) = n /\ DOMAIN s = 1 .. n
  BY <1>0, <1>1
<1>6. \A i, j \in DOMAIN s : i < j => F!Before(s[i], s[j])
  BY DEF F!InOrder
<1>7. \A r \in ahead : \E i \in 1 .. n : s[i] = r
  BY <1>4 DEF Surjection
<1> QED
  BY <1>5, <1>6, <1>7

\* The query of a page, its LIMIT and _split_page hand out the first rows.
LEMMA PageIsFirst ==
    ASSUME F!ConstantsOK, F!TypeOK, NEW ahead \in SUBSET Written, IsFiniteSet(ahead),
           NEW s \in F!InOrder(ahead), NEW limit \in Limits
    PROVE  LET rows == F!Upto(s, limit + 1)
           IN  PageOf(ahead, limit, F!Upto(rows, limit), F!HasMore(rows, limit))
<1>1. /\ s \in Seq(ahead)
      /\ \A i, j \in 1 .. Len(s) : i < j => F!Before(s[i], s[j])
      /\ \A r \in ahead : \E i \in 1 .. Len(s) : s[i] = r
  BY InOrderIsComplete
<1>2. limit \in Nat \ {0}
  BY DEF F!ConstantsOK
<1>3. Len(s) \in Nat /\ s \in [1 .. Len(s) -> ahead]
  BY <1>1, LenProperties
<1> PICK n \in Nat : n = Len(s)
  BY <1>3
<1> PICK rows : rows = F!Upto(s, limit + 1)
  OBVIOUS
<1> PICK k : k = IF n < limit + 1 THEN n ELSE limit + 1
  OBVIOUS
<1>4. k \in Nat /\ k <= n /\ rows \in Seq(ahead) /\ Len(rows) = k /\ \A i \in 1 .. k : rows[i] = s[i]
  <2>1. limit + 1 \in Nat
    BY <1>2
  <2> QED
    BY <1>1, <2>1, UptoIsPrefix
<1> PICK page : page = F!Upto(rows, limit)
  OBVIOUS
<1> PICK m : m = IF k < limit THEN k ELSE limit
  OBVIOUS
<1>5. m \in Nat /\ m <= k /\ page \in Seq(ahead) /\ Len(page) = m /\ \A i \in 1 .. m : page[i] = rows[i]
  BY <1>2, <1>4, UptoIsPrefix
<1>6. \A i \in 1 .. m : page[i] = s[i]
  BY <1>4, <1>5
<1>7. F!HasMore(rows, limit) <=> n > limit
  BY <1>2, <1>4 DEF F!HasMore
<1>8. F!HasMore(rows, limit) \in BOOLEAN
  BY DEF F!HasMore
<1>9. ASSUME NEW i \in 1 .. m, NEW j \in 1 .. m, i < j
      PROVE  F!Before(page[i], page[j])
  <2>1. i \in 1 .. n /\ j \in 1 .. n
    BY <1>4, <1>5
  <2> QED
    BY <1>1, <1>6, <1>9, <2>1
<1>10. CASE n > limit
  <2>1. m = limit /\ m \in 1 .. n /\ m + 1 \in 1 .. n /\ m < m + 1
    BY <1>2, <1>10
  <2>2. F!Last(page) = s[m]
    BY <1>5, <1>6, <2>1 DEF F!Last
  <2>3. ASSUME NEW j \in 1 .. n, m < j
        PROVE  s[j] \in ahead /\ F!Before(F!Last(page), s[j])
    BY <1>1, <1>3, <2>1, <2>2, <2>3
  <2>4. ASSUME NEW r \in ahead
        PROVE  (\E i \in 1 .. m : page[i] = r) \/ F!Before(F!Last(page), r)
    <3>1. PICK i \in 1 .. n : s[i] = r
      BY <1>1
    <3>2. CASE i <= m
      <4>1. i \in 1 .. m
        BY <1>5, <3>2
      <4> QED
        BY <1>6, <3>1, <4>1
    <3>3. CASE m < i
      BY <2>3, <3>1, <3>3
    <3> QED
      BY <1>5, <3>2, <3>3
  <2>5. \E r \in ahead : F!Before(F!Last(page), r)
    BY <2>1, <2>3
  <2> QED
    BY <1>5, <1>7, <1>8, <1>9, <1>10, <2>1, <2>4, <2>5 DEF PageOf
<1>11. CASE ~ (n > limit)
  <2>1. m = n
    BY <1>2, <1>11
  <2>2. \A r \in ahead : \E i \in 1 .. m : page[i] = r
    BY <1>1, <1>6, <2>1
  <2> QED
    BY <1>5, <1>7, <1>8, <1>9, <1>11, <2>2 DEF PageOf
<1> QED
  BY <1>10, <1>11

-----------------------------------------------------------------------------
(* One page.                                                                 *)

\* The rows that the query of the next page is about.
AheadRows == {r \in F!Listed : cursor = None \/ F!Beyond(cursor, r)}

\* What a request for a page does for the reader.
Shows(limit, page, more) ==
    /\ PageOf(AheadRows, limit, page, more)
    /\ shown' = shown \o page
    /\ over' = ~more
    /\ cursor' = IF more THEN Place(F!Last(page)) ELSE cursor

LEMMA AheadRowsAreFew ==
    ASSUME ScrollOK
    PROVE  AheadRows \in SUBSET F!Listed /\ AheadRows \in SUBSET Written /\ IsFiniteSet(AheadRows)
<1>1. AheadRows \in SUBSET F!Listed /\ F!Listed \subseteq Written
  BY ListedIsWritten DEF ScrollOK, AheadRows
<1>2. IsFiniteSet(Written)
  BY DEF ScrollOK
<1> QED
  BY <1>1, <1>2, FS_Subset

LEMMA PageShows ==
    ASSUME F!ConstantsOK, ScrollOK, NEW limit \in Limits, F!Page(limit)
    PROVE  \E page, more : Shows(limit, page, more)
<1>1. AheadRows \in SUBSET Written /\ IsFiniteSet(AheadRows) /\ F!TypeOK
  BY AheadRowsAreFew DEF ScrollOK
<1>2. PICK s \in F!InOrder(AheadRows) :
          LET rows == F!Upto(s, limit + 1)
              page == F!Upto(rows, limit)
              last == F!Last(page)
          IN  /\ shown' = shown \o page
              /\ IF F!HasMore(rows, limit)
                   THEN cursor' = [stamp |-> stamp[last], id |-> last] /\ over' = FALSE
                   ELSE cursor' = cursor /\ over' = TRUE
  BY DEF F!Page, AheadRows
<1> PICK rows : rows = F!Upto(s, limit + 1)
  OBVIOUS
<1> PICK page : page = F!Upto(rows, limit)
  OBVIOUS
<1>3. PageOf(AheadRows, limit, page, F!HasMore(rows, limit))
  BY <1>1, PageIsFirst
<1>4. shown' = shown \o page
  BY <1>2
<1>5. CASE F!HasMore(rows, limit)
  <2>1. cursor' = Place(F!Last(page)) /\ over' = FALSE
    BY <1>2, <1>5 DEF Place
  <2>2. PageOf(AheadRows, limit, page, TRUE)
    <3>1. F!HasMore(rows, limit) = TRUE
      BY <1>5 DEF F!HasMore
    <3> QED
      BY <1>3, <3>1
  <2> QED
    BY <1>4, <2>1, <2>2 DEF Shows
<1>6. CASE ~ F!HasMore(rows, limit)
  <2>1. cursor' = cursor /\ over' = TRUE
    BY <1>2, <1>6
  <2>2. PageOf(AheadRows, limit, page, FALSE)
    <3>1. F!HasMore(rows, limit) = FALSE
      BY <1>6 DEF F!HasMore
    <3> QED
      BY <1>3, <3>1
  <2> QED
    BY <1>4, <2>1, <2>2 DEF Shows
<1> QED
  BY <1>5, <1>6

\* Every row ahead of the reader is behind every row that was shown.
LEMMA ShownBeforeAhead ==
    ASSUME F!ConstantsOK, ScrollOK, ~over, NEW r \in AheadRows, NEW i \in 1 .. Len(shown)
    PROVE  F!Before(shown[i], r)
<1>1. shown \in Seq(Rows) /\ Len(shown) \in Nat
  BY LenProperties DEF ScrollOK, F!TypeOK
<1>2. shown # <<>> /\ Len(shown) \in 1 .. Len(shown)
  BY <1>1
<1> PICK l : l = shown[Len(shown)]
  OBVIOUS
<1>3. l \in Written /\ r \in Written /\ shown[i] \in Written /\ F!TypeOK
  BY <1>2, AheadRowsAreFew DEF ScrollOK
<1>4. cursor = Place(l)
  BY <1>2 DEF ScrollOK, F!Last
<1>5. cursor # None
  <2>1. Place(l) \in F!Cursors
    BY <1>3, WrittenRow DEF Place, F!Cursors
  <2> QED
    BY <1>4, <2>1 DEF F!ConstantsOK
<1>6. F!Before(l, r)
  <2>1. F!Beyond(cursor, r)
    BY <1>5 DEF AheadRows
  <2> QED
    BY <1>3, <1>4, <2>1, BeyondIsBehind
<1>7. CASE i = Len(shown)
  BY <1>6, <1>7
<1>8. CASE i < Len(shown)
  <2>1. F!Before(shown[i], l)
    BY <1>2, <1>8 DEF ScrollOK, F!NoRepeats
  <2> QED
    BY <1>3, <1>6, <2>1, BeforeIsTransitive
<1> QED
  BY <1>1, <1>7, <1>8

\* A listed row at a place that the reader has yet to come to is in the query.
LEMMA AheadIsAsked ==
    ASSUME F!ConstantsOK, ScrollOK, NEW r \in F!Listed, F!Ahead(r)
    PROVE  r \in AheadRows
<1>1. ~over
  BY DEF F!Ahead
<1>2. CASE shown = <<>>
  BY <1>1, <1>2 DEF ScrollOK, AheadRows
<1>3. CASE shown # <<>>
  <2> PICK l : l = F!Last(shown)
    OBVIOUS
  <2>1. cursor = Place(l) /\ F!TypeOK
    BY <1>1, <1>3 DEF ScrollOK
  <2>2. l \in Written /\ r \in Written
    <3>1. shown \in Seq(Rows) /\ Len(shown) \in 1 .. Len(shown)
      BY <1>3, LenProperties DEF ScrollOK, F!TypeOK
    <3> QED
      BY <3>1, ListedIsWritten DEF ScrollOK, F!Last
  <2>3. F!Before(l, r)
    BY <1>3 DEF F!Ahead
  <2> QED
    BY <2>1, <2>2, <2>3, BeyondIsBehind DEF AheadRows
<1> QED
  BY <1>2, <1>3

\* Two sequences in a row.
LEMMA Joined ==
    ASSUME NEW S, NEW a \in Seq(S), NEW b \in Seq(S)
    PROVE  /\ a \o b \in Seq(S)
           /\ Len(a) \in Nat /\ Len(b) \in Nat /\ Len(a \o b) = Len(a) + Len(b)
           /\ \A i \in 1 .. Len(a) : (a \o b)[i] = a[i]
           /\ \A j \in 1 .. Len(b) : (a \o b)[Len(a) + j] = b[j]
<1>1. Len(a) \in Nat /\ Len(b) \in Nat
  BY LenProperties
<1>2. /\ a \o b \in Seq(S)
      /\ Len(a \o b) = Len(a) + Len(b)
      /\ \A i \in 1 .. Len(a) + Len(b) :
            (a \o b)[i] = IF i <= Len(a) THEN a[i] ELSE b[i - Len(a)]
  BY ConcatProperties
<1>3. ASSUME NEW i \in 1 .. Len(a) PROVE (a \o b)[i] = a[i]
  <2>1. i \in 1 .. Len(a) + Len(b) /\ i <= Len(a)
    BY <1>1
  <2> QED
    BY <1>2, <2>1
<1>4. ASSUME NEW j \in 1 .. Len(b) PROVE (a \o b)[Len(a) + j] = b[j]
  <2>1. Len(a) + j \in 1 .. Len(a) + Len(b) /\ ~ (Len(a) + j <= Len(a)) /\ (Len(a) + j) - Len(a) = j
    BY <1>1
  <2> QED
    BY <1>2, <2>1
<1> QED
  BY <1>1, <1>2, <1>3, <1>4

-----------------------------------------------------------------------------
(* Every step keeps what a scroll relies on.                                 *)

\* Rows that keep their stamps keep their order, and the places of the reader.
LEMMA OrderStays ==
    ASSUME newest' = newest,
           NEW a, NEW b, stamp'[a] = stamp[a], stamp'[b] = stamp[b]
    PROVE  /\ F!Before(a, b)' <=> F!Before(a, b)
           /\ F!Beyond(Place(a), b)' <=> F!Beyond(Place(a), b)
           /\ Place(a)' = Place(a)
BY DEF F!Before, F!Beyond, Place

LEMMA KeptByPage ==
    ASSUME F!ConstantsOK, ScrollOK, NEW limit \in Limits, F!Page(limit)
    PROVE  ScrollOK'
<1>1. PICK page, more : Shows(limit, page, more)
  BY PageShows
<1>2. /\ newest' = newest /\ stamp' = stamp /\ status' = status /\ due' = due
      /\ left' = FALSE /\ clock' = clock /\ ~over
  BY DEF F!Page
<1>3. /\ page \in Seq(AheadRows) /\ more \in BOOLEAN
      /\ shown' = shown \o page /\ over' = ~more
      /\ cursor' = IF more THEN Place(F!Last(page)) ELSE cursor
  BY <1>1 DEF Shows, PageOf
<1>4. /\ AheadRows \in SUBSET F!Listed /\ AheadRows \in SUBSET Written
      /\ F!Listed' = F!Listed /\ Written' = Written /\ F!TypeOK /\ Written \in SUBSET Rows
  <2>1. Written \in SUBSET Rows
    BY DEF ScrollOK, F!TypeOK, Written
  <2> QED
    BY <1>2, <2>1, AheadRowsAreFew DEF ScrollOK, F!Listed, Written
<1> PICK old : old = shown
  OBVIOUS
<1> PICK new : new = shown'
  OBVIOUS
<1>5. old \in Seq(Rows) /\ page \in Seq(Rows)
  BY <1>3, <1>4 DEF F!TypeOK
<1>6. /\ new \in Seq(Rows)
      /\ Len(old) \in Nat /\ Len(page) \in Nat /\ Len(new) = Len(old) + Len(page)
      /\ \A i \in 1 .. Len(old) : new[i] = old[i]
      /\ \A j \in 1 .. Len(page) : new[Len(old) + j] = page[j]
  <2>1. new = old \o page
    BY <1>3
  <2> QED
    BY <1>5, <2>1, Joined
<1>7. page \in [1 .. Len(page) -> AheadRows]
  BY <1>3, LenProperties
<1>8. ASSUME NEW k \in 1 .. Len(new)
      PROVE  \/ k \in 1 .. Len(old) /\ new[k] = old[k]
             \/ \E j \in 1 .. Len(page) : k = Len(old) + j /\ new[k] = page[j] /\ page[j] \in AheadRows
  <2>1. CASE k <= Len(old)
    BY <1>6, <2>1
  <2>2. CASE Len(old) < k
    <3>1. k - Len(old) \in 1 .. Len(page) /\ k = Len(old) + (k - Len(old))
      BY <1>6, <2>2
    <3> QED
      BY <1>6, <1>7, <3>1
  <2> QED
    BY <1>6, <2>1, <2>2
<1>9. \A k \in 1 .. Len(new) : new[k] \in Written
  <2>1. \A i \in 1 .. Len(old) : old[i] \in Written
    BY DEF ScrollOK
  <2> QED
    BY <1>4, <1>8, <2>1
<1>10. ASSUME NEW i \in 1 .. Len(new), NEW j \in 1 .. Len(new), i < j
       PROVE  F!Before(new[i], new[j])
  <2>1. CASE i \in 1 .. Len(old) /\ j \in 1 .. Len(old)
    BY <1>6, <1>10, <2>1 DEF ScrollOK, F!NoRepeats
  <2>2. CASE i \in 1 .. Len(old) /\ j \notin 1 .. Len(old)
    BY <1>2, <1>6, <1>8, <2>2, ShownBeforeAhead
  <2>3. CASE i \notin 1 .. Len(old)
    <3>1. PICK m \in 1 .. Len(page) : i = Len(old) + m /\ new[i] = page[m]
      BY <1>8, <2>3
    <3>2. j \notin 1 .. Len(old)
      BY <1>6, <1>10, <3>1
    <3>3. PICK n \in 1 .. Len(page) : j = Len(old) + n /\ new[j] = page[n]
      BY <1>8, <3>2
    <3>4. m < n
      BY <1>6, <1>10, <3>1, <3>3
    <3> QED
      BY <1>1, <3>1, <3>3, <3>4 DEF Shows, PageOf
  <2> QED
    BY <2>1, <2>2, <2>3
<1>11. more => /\ Len(page) = limit /\ new # <<>> /\ page # <<>>
               /\ F!Last(page) \in AheadRows
               /\ F!Last(new) = F!Last(page)
               /\ \E r \in AheadRows : F!Before(F!Last(page), r)
  <2> SUFFICES ASSUME more PROVE
               /\ Len(page) = limit /\ new # <<>> /\ page # <<>>
               /\ F!Last(page) \in AheadRows
               /\ F!Last(new) = F!Last(page)
               /\ \E r \in AheadRows : F!Before(F!Last(page), r)
    OBVIOUS
  <2>1. Len(page) = limit /\ \E r \in AheadRows : F!Before(F!Last(page), r)
    BY <1>1 DEF Shows, PageOf
  <2>2. limit \in Nat \ {0}
    BY DEF F!ConstantsOK
  <2>3. Len(page) \in 1 .. Len(page)
    BY <2>1, <2>2
  <2>4. F!Last(page) \in AheadRows /\ page # <<>>
    BY <1>7, <2>3 DEF F!Last
  <2>5. new[Len(new)] = page[Len(page)] /\ new # <<>>
    BY <1>6, <2>3
  <2> QED
    BY <2>1, <2>4, <2>5 DEF F!Last
<1>12. F!TypeOK'
  <2>1. more => Place(F!Last(page)) \in F!Cursors
    BY <1>4, <1>11, WrittenRow DEF Place, F!Cursors
  <2>2. cursor' \in F!Cursors \cup {None}
    BY <1>3, <2>1 DEF F!TypeOK, ScrollOK
  <2>3. over' \in BOOLEAN /\ left' \in BOOLEAN
    BY <1>2, <1>3
  <2> QED
    BY <1>2, <1>4, <1>6, <2>2, <2>3 DEF F!TypeOK
<1>13. F!NoRepeats'
  BY <1>2, <1>10, OrderStays DEF F!NoRepeats
<1>14. ASSUME ~ over'
       PROVE  /\ shown' # <<>>
              /\ cursor' = [stamp |-> stamp'[F!Last(shown')], id |-> F!Last(shown')]
  <2>1. more
    BY <1>3, <1>14
  <2>2. F!Last(shown') = F!Last(page)
    BY <1>11, <2>1
  <2>3. cursor' = Place(F!Last(page))
    BY <1>3, <2>1
  <2> QED
    BY <1>2, <1>11, <2>1, <2>2, <2>3 DEF Place
<1>15. ASSUME NEW r \in due'
       PROVE  F!Ahead(r)' \/ \E i \in 1 .. Len(new) : new[i] = r
  <2>1. r \in due /\ r \in F!Listed
    BY <1>2 DEF ScrollOK, F!TypeOK
  <2>2. CASE \E i \in 1 .. Len(old) : old[i] = r
    <3>1. PICK i \in 1 .. Len(old) : old[i] = r
      BY <2>2
    <3>2. i \in 1 .. Len(new) /\ new[i] = r
      BY <1>6, <3>1
    <3> QED
      BY <3>2
  <2>3. CASE F!Ahead(r)
    <3>1. r \in AheadRows
      BY <2>1, <2>3, AheadIsAsked
    <3>2. CASE \E j \in 1 .. Len(page) : page[j] = r
      <4>1. PICK j \in 1 .. Len(page) : page[j] = r
        BY <3>2
      <4>2. new[Len(old) + j] = page[j]
        BY <1>6
      <4>3. Len(old) + j \in 1 .. Len(new)
        BY <1>6
      <4> QED
        BY <4>1, <4>2, <4>3
    <3>3. CASE more /\ F!Before(F!Last(page), r)
      <4>1. F!Before(F!Last(new), r)'
        BY <1>2, <1>11, <3>3, OrderStays
      <4> QED
        BY <1>3, <3>3, <4>1 DEF F!Ahead
    <3> QED
      BY <1>1, <3>1, <3>2, <3>3 DEF Shows, PageOf
  <2> QED
    BY <2>1, <2>2, <2>3 DEF ScrollOK
<1>16. ASSUME ~ over'
       PROVE  \E r \in F!Listed' : F!Beyond(cursor, r)'
  <2> PICK l : l = F!Last(page)
    OBVIOUS
  <2>1. more /\ cursor' = Place(l) /\ l \in Written
    BY <1>3, <1>4, <1>11, <1>16
  <2>2. PICK r \in AheadRows : F!Before(l, r)
    BY <1>11, <2>1
  <2>3. r \in F!Listed' /\ r \in Written
    BY <1>4
  <2>4. F!Beyond(Place(l), r)
    BY <1>4, <2>1, <2>2, <2>3, BeyondIsBehind
  <2>5. F!Beyond(cursor, r)'
    BY <1>2, <2>1, <2>4 DEF F!Beyond
  <2> QED
    BY <2>3, <2>5
<1>17. IsFiniteSet(Written)' /\ (\A i \in 1 .. Len(shown) : shown[i] \in Written)'
  BY <1>4, <1>9 DEF ScrollOK
<1>18. (~over => IF shown = <<>> THEN cursor = None ELSE cursor = Place(F!Last(shown)))'
  BY <1>14 DEF Place
<1>19. (\A r \in due : F!Ahead(r) \/ \E i \in 1 .. Len(shown) : shown[i] = r)'
  BY <1>15
<1>20. (~over /\ cursor # None /\ ~left => \E r \in F!Listed : F!Beyond(cursor, r))'
  BY <1>16
<1> QED
  BY <1>12, <1>13, <1>17, <1>18, <1>19, <1>20 DEF ScrollOK

\* What happens between two pages keeps it: rows keep their stamps, what becomes
\* due is ahead of the reader, and unless a row leaves the listed ones stay.
LEMMA KeptBetweenPages ==
    ASSUME F!ConstantsOK, ScrollOK, F!TypeOK',
           UNCHANGED <<newest, cursor, over, shown>>,
           Written \subseteq Written', IsFiniteSet(Written'),
           \A r \in Written : stamp'[r] = stamp[r],
           \A r \in due' : r \in due \/ (r \in Written /\ F!Ahead(r)),
           left' \/ (left' = left /\ F!Listed \subseteq F!Listed')
    PROVE  ScrollOK'
<1>1. \A i \in 1 .. Len(shown) : shown[i] \in Written
  BY DEF ScrollOK
<1>2. due \subseteq Written /\ F!Listed \subseteq Written
  BY ListedIsWritten DEF ScrollOK, F!TypeOK
<1>3. shown # <<>> => F!Last(shown) \in Written
  <2>1. shown # <<>> => Len(shown) \in 1 .. Len(shown)
    BY LenProperties DEF ScrollOK, F!TypeOK
  <2> QED
    BY <1>1, <2>1 DEF F!Last
<1>4. F!NoRepeats'
  <2>1. ASSUME NEW i \in 1 .. Len(shown), NEW j \in 1 .. Len(shown), i < j
        PROVE  F!Before(shown[i], shown[j])'
    <3> PICK a \in Written : a = shown[i]
      BY <1>1
    <3> PICK b \in Written : b = shown[j]
      BY <1>1
    <3>1. F!Before(a, b)
      BY <2>1 DEF ScrollOK, F!NoRepeats
    <3>2. F!Before(a, b)'
      BY <3>1, OrderStays
    <3> QED
      BY <3>2
  <2> QED
    BY <2>1 DEF F!NoRepeats
<1>5. (~over => IF shown = <<>> THEN cursor = None ELSE cursor = Place(F!Last(shown)))'
  BY <1>3 DEF ScrollOK, Place
<1>6. ASSUME NEW r \in Written
      PROVE  F!Ahead(r)' <=> F!Ahead(r)
  <2> PICK l : l = F!Last(shown)
    OBVIOUS
  <2>1. CASE shown = <<>>
    BY <2>1 DEF F!Ahead
  <2>2. CASE shown # <<>>
    <3>1. F!Before(l, r)' <=> F!Before(l, r)
      BY <1>3, <2>2, OrderStays
    <3>2. F!Last(shown)' = l
      BY DEF F!Last
    <3>3. F!Before(F!Last(shown), r)' <=> F!Before(F!Last(shown), r)
      BY <3>1, <3>2
    <3> QED
      BY <2>2, <3>3 DEF F!Ahead
  <2> QED
    BY <2>1, <2>2
<1>7. ASSUME NEW r \in due'
      PROVE  (F!Ahead(r) \/ \E i \in 1 .. Len(shown) : shown[i] = r)'
  <2>1. r \in Written /\ (F!Ahead(r) \/ \E i \in 1 .. Len(shown) : shown[i] = r)
    BY <1>2 DEF ScrollOK
  <2> QED
    BY <1>6, <2>1
<1>8. ASSUME ~ over', cursor' # None, ~ left'
      PROVE  (\E r \in F!Listed : F!Beyond(cursor, r))'
  <2>1. PICK r \in F!Listed : F!Beyond(cursor, r)
    BY <1>8 DEF ScrollOK
  <2>2. r \in F!Listed' /\ stamp'[r] = stamp[r]
    BY <1>2, <1>8
  <2>3. F!Beyond(cursor, r)'
    BY <2>1, <2>2 DEF F!Beyond
  <2> QED
    BY <2>2, <2>3
<1>9. (\A i \in 1 .. Len(shown) : shown[i] \in Written)'
  BY <1>1
<1>10. (\A r \in due : F!Ahead(r) \/ \E i \in 1 .. Len(shown) : shown[i] = r)'
  BY <1>7
<1>11. (~over /\ cursor # None /\ ~left => \E r \in F!Listed : F!Beyond(cursor, r))'
  BY <1>8
<1>12. IsFiniteSet(Written)'
  OBVIOUS
<1> QED
  BY <1>4, <1>5, <1>9, <1>10, <1>11, <1>12 DEF ScrollOK

LEMMA KeptByTick ==
    ASSUME F!ConstantsOK, ScrollOK, F!Tick
    PROVE  ScrollOK'
<1>1. UNCHANGED <<newest, stamp, status, cursor, over, left, due, shown>>
  BY DEF F!Tick
<1>2. clock \in 1 .. MaxClock /\ MaxClock \in Nat /\ clock < MaxClock /\ clock' = clock + 1
  BY DEF F!Tick, ScrollOK, F!TypeOK, F!ConstantsOK
<1>3. clock' \in 1 .. MaxClock /\ 1 .. clock \subseteq 1 .. clock'
  BY <1>2
<1>4. F!Listed' = F!Listed /\ Written' = Written
  BY <1>1 DEF F!Listed, Written
<1>5. F!TypeOK'
  <2>1. stamp' \in [{r \in Rows : status'[r] # "none"} -> 1 .. clock']
    BY <1>1, <1>3 DEF ScrollOK, F!TypeOK
  <2> QED
    BY <1>1, <1>3, <1>4, <2>1 DEF ScrollOK, F!TypeOK
<1> QED
  BY <1>1, <1>4, <1>5, KeptBetweenPages DEF ScrollOK

LEMMA KeptByWrite ==
    ASSUME F!ConstantsOK, ScrollOK, NEW r \in Rows, F!Write(r)
    PROVE  ScrollOK'
<1>1. /\ UNCHANGED <<clock, newest, cursor, over, left, due, shown>>
      /\ status[r] = "none" /\ status' = [status EXCEPT ![r] = "written"]
      /\ stamp' = [x \in Written \cup {r} |-> IF x = r THEN clock ELSE stamp[x]]
  BY DEF F!Write, Written
<1>2. F!TypeOK /\ IsFiniteSet(Written)
  BY DEF ScrollOK
<1>3. r \notin Written /\ Written' = Written \cup {r}
  BY <1>1, <1>2 DEF F!TypeOK, Written
<1>4. F!Listed' = F!Listed
  BY <1>1, <1>2 DEF F!TypeOK, F!Listed
<1>5. status' \in [Rows -> F!Statuses]
  BY <1>1, <1>2 DEF F!TypeOK, F!Statuses
<1>6. Written' = {x \in Rows : status'[x] # "none"}
  <2>1. Written = {x \in Rows : status[x] # "none"}
    BY <1>2 DEF F!TypeOK, Written
  <2> QED
    BY <1>1, <1>2, <1>3, <2>1 DEF F!TypeOK
<1>7. \A x \in Written' : stamp'[x] \in 1 .. clock'
  <2>1. clock \in 1 .. clock
    BY <1>2 DEF F!TypeOK, F!ConstantsOK
  <2>2. \A x \in Written : stamp[x] \in 1 .. clock
    BY <1>2 DEF F!TypeOK, Written
  <2> QED
    BY <1>1, <1>3, <2>1, <2>2
<1>8. stamp' \in [{x \in Rows : status'[x] # "none"} -> 1 .. clock']
  BY <1>1, <1>3, <1>6, <1>7
<1>9. F!TypeOK'
  BY <1>1, <1>2, <1>4, <1>5, <1>8 DEF F!TypeOK
<1>10. IsFiniteSet(Written')
  BY <1>2, <1>3, FS_AddElement
<1>11. \A x \in Written : stamp'[x] = stamp[x]
  BY <1>1, <1>3
<1>12. left' = left /\ F!Listed \subseteq F!Listed'
  BY <1>1, <1>4
<1> QED
  BY <1>1, <1>3, <1>9, <1>10, <1>11, <1>12, KeptBetweenPages

LEMMA KeptByEnters ==
    ASSUME F!ConstantsOK, ScrollOK, NEW r \in Rows, status[r] # "none", F!Enters(r)
    PROVE  ScrollOK'
<1>1. /\ UNCHANGED <<clock, newest, stamp, cursor, over, left, shown>>
      /\ status' = [status EXCEPT ![r] = "listed"]
      /\ due' = IF F!Ahead(r) THEN due \cup {r} ELSE due
  BY DEF F!Enters
<1>2. F!TypeOK /\ IsFiniteSet(Written)
  BY DEF ScrollOK
<1>3. r \in Written /\ Written' = Written
  BY <1>1, <1>2 DEF F!TypeOK, Written
<1>4. F!Listed' = F!Listed \cup {r}
  BY <1>1, <1>2 DEF F!TypeOK, F!Listed
<1>5. status' \in [Rows -> F!Statuses]
  BY <1>1, <1>2 DEF F!TypeOK, F!Statuses
<1>6. {x \in Rows : status'[x] # "none"} = {x \in Rows : status[x] # "none"}
  BY <1>1, <1>2 DEF F!TypeOK
<1>7. stamp' \in [{x \in Rows : status'[x] # "none"} -> 1 .. clock']
  BY <1>1, <1>2, <1>6 DEF F!TypeOK
<1>8. due' \subseteq F!Listed'
  BY <1>1, <1>2, <1>4 DEF F!TypeOK
<1>9. F!TypeOK'
  BY <1>1, <1>2, <1>5, <1>7, <1>8 DEF F!TypeOK
<1>10. \A x \in due' : x \in due \/ (x \in Written /\ F!Ahead(x))
  BY <1>1, <1>3
<1> QED
  BY <1>1, <1>2, <1>3, <1>4, <1>9, <1>10, KeptBetweenPages

LEMMA KeptByLeave ==
    ASSUME F!ConstantsOK, ScrollOK, NEW r \in Rows, F!Leave(r)
    PROVE  ScrollOK'
<1>1. /\ UNCHANGED <<clock, newest, stamp, cursor, over, shown>>
      /\ status[r] = "listed" /\ status' = [status EXCEPT ![r] = "hidden"]
      /\ left' = TRUE /\ due' = due \ {r}
  BY DEF F!Leave
<1>2. F!TypeOK /\ IsFiniteSet(Written)
  BY DEF ScrollOK
<1>3. Written' = Written
  BY <1>1 DEF Written
<1>4. F!Listed' = F!Listed \ {r}
  BY <1>1, <1>2 DEF F!TypeOK, F!Listed
<1>5. status' \in [Rows -> F!Statuses]
  BY <1>1, <1>2 DEF F!TypeOK, F!Statuses
<1>6. {x \in Rows : status'[x] # "none"} = {x \in Rows : status[x] # "none"}
  BY <1>1, <1>2 DEF F!TypeOK
<1>7. stamp' \in [{x \in Rows : status'[x] # "none"} -> 1 .. clock']
  BY <1>1, <1>2, <1>6 DEF F!TypeOK
<1>8. due' \subseteq F!Listed'
  BY <1>1, <1>2, <1>4 DEF F!TypeOK
<1>9. F!TypeOK'
  BY <1>1, <1>2, <1>5, <1>7, <1>8 DEF F!TypeOK
<1> QED
  BY <1>1, <1>2, <1>3, <1>9, KeptBetweenPages

LEMMA ScrollInit ==
    ASSUME F!ConstantsOK, F!Init
    PROVE  ScrollOK
<1>1. /\ clock = 1 /\ newest \in BOOLEAN /\ stamp = [r \in {} |-> 0]
      /\ status = [r \in Rows |-> "none"] /\ cursor = None /\ over = FALSE /\ left = FALSE
      /\ due = {} /\ shown = <<>>
  BY DEF F!Init
<1>2. Written = {} /\ IsFiniteSet(Written)
  BY <1>1, FS_EmptySet DEF Written
<1>3. F!TypeOK
  <2>1. clock \in 1 .. MaxClock
    BY <1>1 DEF F!ConstantsOK
  <2>2. {r \in Rows : status[r] # "none"} = {}
    BY <1>1
  <2>3. stamp \in [{r \in Rows : status[r] # "none"} -> 1 .. clock]
    BY <1>1, <2>2
  <2>4. status \in [Rows -> F!Statuses]
    BY <1>1 DEF F!Statuses
  <2>5. shown \in Seq(Rows)
    BY <1>1, EmptySeq
  <2> QED
    BY <1>1, <2>1, <2>3, <2>4, <2>5 DEF F!TypeOK
<1>4. Len(shown) = 0
  BY <1>1
<1> QED
  BY <1>1, <1>2, <1>3, <1>4 DEF ScrollOK, F!NoRepeats

LEMMA ScrollNext ==
    ASSUME F!ConstantsOK, ScrollOK, F!Next \/ UNCHANGED feedVars
    PROVE  ScrollOK'
<1>1. CASE F!Tick
  BY <1>1, KeptByTick
<1>2. ASSUME NEW r \in Rows, F!Write(r) \/ F!Land(r) \/ F!Leave(r) \/ F!Return(r)
      PROVE  ScrollOK'
  BY <1>2, KeptByWrite, KeptByEnters, KeptByLeave DEF F!Land, F!Return
<1>3. ASSUME NEW limit \in Limits, F!Page(limit)
      PROVE  ScrollOK'
  BY <1>3, KeptByPage
<1>4. CASE UNCHANGED feedVars
  <2>1. UNCHANGED <<clock, newest, stamp, status, cursor, over, left, due, shown>>
    BY <1>4 DEF feedVars
  <2>2. F!Listed' = F!Listed /\ Written' = Written
    BY <2>1 DEF F!Listed, Written
  <2>3. F!TypeOK'
    BY <2>1, <2>2 DEF ScrollOK, F!TypeOK
  <2> QED
    BY <2>1, <2>2, <2>3, KeptBetweenPages DEF ScrollOK
<1> QED
  BY <1>1, <1>2, <1>3, <1>4 DEF F!Next

LEMMA FeedSteps == MCNext => F!Next \/ UNCHANGED feedVars
BY DEF MCNext

LEMMA ScrollInductive == MCSpec => []ScrollOK
<1>1. F!ConstantsOK
  BY InstancesOK
<1>2. MCInit => ScrollOK
  BY <1>1, ScrollInit DEF MCInit
<1>3. ScrollOK /\ [MCNext]_<<moving, vars, threadVars, tagVars, textVars, feedVars>> => ScrollOK'
  BY <1>1, FeedSteps, ScrollNext
<1> QED
  BY <1>2, <1>3, PTL DEF MCSpec

\* A scroll never shows a row twice nor goes back, and a scroll that came to its
\* end has shown every row that lay ahead of it and stayed: list_feed,
\* list_comments and list_replies, whatever is written, removed or refiled
\* between two pages, and for lists and pages of any size.
THEOREM EveryRowOnceTheorem == MCSpec => []EveryRowOnce
<1>1. ScrollOK => EveryRowOnce
  BY DEF ScrollOK, EveryRowOnce, F!EveryRowOnce, F!NothingSkipped, F!Ahead
<1> QED
  BY <1>1, ScrollInductive, PTL

\* A next_cursor of _split_page leads to another row, or one left the list since
\* it was handed out.
THEOREM CursorTheorem == MCSpec => CursorLeadsOn
<1>1. F!ConstantsOK
  BY InstancesOK
<1>2. ASSUME ScrollOK, F!Next \/ UNCHANGED feedVars,
             cursor # None, shown' = shown, over', ~over
      PROVE  left
  <2>1. PICK limit \in Limits : F!Page(limit)
    BY <1>2 DEF F!Next, F!Tick, F!Write, F!Land, F!Leave, F!Return, F!Enters, feedVars
  <2>2. PICK page, more : Shows(limit, page, more)
    BY <1>1, <1>2, <2>1, PageShows
  <2>3. ~ more
    BY <1>2, <2>2 DEF Shows, PageOf
  <2>4. page \in Seq(Rows) /\ shown \in Seq(Rows)
    <3>1. AheadRows \subseteq Rows
      BY DEF AheadRows, F!Listed
    <3>2. page \in Seq(AheadRows)
      BY <2>2 DEF Shows, PageOf
    <3> QED
      BY <1>2, <3>1, <3>2 DEF ScrollOK, F!TypeOK
  <2>5. Len(page) = 0
    <3> PICK both : both = shown \o page
      OBVIOUS
    <3>1. Len(both) = Len(shown) + Len(page) /\ Len(shown) \in Nat /\ Len(page) \in Nat
      BY <2>4, Joined
    <3>2. both = shown
      BY <1>2, <2>2 DEF Shows
    <3> QED
      BY <3>1, <3>2
  <2>6. ASSUME NEW r \in AheadRows PROVE FALSE
    BY <2>2, <2>3, <2>5, <2>6 DEF Shows, PageOf
  <2>7. ~ left => \E r \in F!Listed : F!Beyond(cursor, r)
    BY <1>2 DEF ScrollOK
  <2> QED
    BY <2>6, <2>7 DEF AheadRows
<1>3. ScrollOK /\ [MCNext]_<<moving, vars, threadVars, tagVars, textVars, feedVars>>
        => [cursor # None /\ shown' = shown /\ over' /\ ~over => left]_F!vars
  BY <1>2, FeedSteps
<1> QED
  BY <1>3, ScrollInductive, PTL DEF MCSpec, CursorLeadsOn, F!CursorLeadsOn

-----------------------------------------------------------------------------
(* The hashtags of a post.                                                   *)

\* Tag rows that a table or a handler may hold.
TagRows == UNION {[I -> TagNames] : I \in SUBSET TagIds}

\* Rows of different tags: uq_tag_per_post.
Different(rows) == \A i, j \in DOMAIN rows : rows[i] = rows[j] => i = j

\* What an edit relies on: no tag is stored twice, and a handler that is to
\* commit an edit has a text.
TagsOK ==
    /\ T!TypeOK
    /\ tag \in TagRows /\ Different(tag)
    /\ editor \in [Slots -> [pc : {"idle", "edit", "delete"}, new : Bodies \cup {None},
                             old : Bodies \cup {None}, rows : TagRows]]
    /\ \A q \in Slots : editor[q].pc = "edit" => editor[q].new \in Bodies

\* The instance of PostTags counts as the other parts do.
LEMMA OneMeasure ==
    /\ \A S : T!Cardinality(S) = Cardinality(S)
    /\ \A S : T!IsFiniteSet(S) <=> IsFiniteSet(S)
<1>1. \A S : T!Cardinality(S) = Cardinality(S)
  BY DEF T!Cardinality, Cardinality
<1>2. \A S : T!IsFiniteSet(S) <=> IsFiniteSet(S)
  BY DEF T!IsFiniteSet, IsFiniteSet
<1> QED
  BY <1>1, <1>2

\* What an INSERT of tags adds: each of them once, under an id of its own.
Inserts(new, add) ==
    /\ new \in [DOMAIN new -> add]
    /\ DOMAIN new \subseteq TagIds \ tagUsed
    /\ Different(new)
    /\ T!TagSet(new) = add

LEMMA FreshRowsInsert ==
    ASSUME T!ConstantsOK, NEW add, IsFiniteSet(add), NEW new \in T!FreshRows(add)
    PROVE  Inserts(new, add)
<1>1. PICK I \in T!Fresh(T!Cardinality(add)) : new \in [I -> add]
  BY DEF T!FreshRows
<1>2. T!TagSet(new) = add
  BY DEF T!FreshRows
<1>3. I \subseteq TagIds \ tagUsed /\ Cardinality(I) = Cardinality(add)
  BY <1>1, OneMeasure DEF T!Fresh
<1>4. IsFiniteSet(I)
  <2>1. IsFiniteSet(TagIds)
    BY OneMeasure DEF T!ConstantsOK
  <2> QED
    BY <1>3, <2>1, FS_Subset
<1>5. new \in Surjection(I, add)
  BY <1>1, <1>2 DEF Surjection, T!TagSet
<1>6. new \in Injection(I, add)
  BY <1>3, <1>4, <1>5, FS_SurjSameCardinalityImpliesInj
<1>7. Different(new)
  BY <1>1, <1>6 DEF Injection, IsInjective, Different
<1> QED
  BY <1>1, <1>2, <1>3, <1>7 DEF Inserts

\* The tags of a text, and those of them that an edit adds, are finitely many.
LEMMA TagsAreFew ==
    ASSUME T!ConstantsOK, NEW b \in Bodies, NEW rows
    PROVE  /\ IsFiniteSet(TagsOf[b]) /\ TagsOf[b] \subseteq TagNames
           /\ IsFiniteSet(T!Added(rows, b)) /\ T!Added(rows, b) \subseteq TagsOf[b]
<1>1. IsFiniteSet(TagsOf[b]) /\ TagsOf[b] \subseteq TagNames
  BY OneMeasure DEF T!ConstantsOK
<1>2. T!Added(rows, b) \subseteq TagsOf[b]
  BY DEF T!Added
<1> QED
  BY <1>1, <1>2, FS_Subset

\* The tags of some rows.
TagsAt(table, keep) == {table[i] : i \in keep}

\* Rows carry the tags that were kept and those that were added.
Carries(rows, table, keep, add) == T!TagSet(rows) = TagsAt(table, keep) \cup add

\* The rows that an edit leaves.
Joins(table, keep, new) ==
    [i \in keep \cup DOMAIN new |-> IF i \in keep THEN table[i] ELSE new[i]]

\* Rows kept and rows inserted have different tags when no inserted tag was
\* stored.
LEMMA JoinedRows ==
    ASSUME NEW table \in TagRows, Different(table), DOMAIN table \subseteq tagUsed,
           NEW add \in SUBSET TagNames, add \cap T!TagSet(table) = {},
           NEW new, Inserts(new, add), NEW keep \in SUBSET DOMAIN table
    PROVE  /\ Joins(table, keep, new) \in TagRows
           /\ Different(Joins(table, keep, new))
           /\ DOMAIN Joins(table, keep, new) = keep \cup DOMAIN new
           /\ Carries(Joins(table, keep, new), table, keep, add)
<1> PICK rows : rows = Joins(table, keep, new)
  OBVIOUS
<1>1. /\ DOMAIN rows = keep \cup DOMAIN new
      /\ \A i \in keep : rows[i] = table[i]
      /\ \A i \in DOMAIN new : rows[i] = new[i]
      /\ rows = [i \in DOMAIN rows |-> rows[i]]
      /\ keep \cap DOMAIN new = {}
  BY DEF Joins, Inserts
<1>2. PICK I \in SUBSET TagIds : table \in [I -> TagNames]
  BY DEF TagRows
<1>3. /\ \A i \in keep : table[i] \in TagNames /\ table[i] \in T!TagSet(table) /\ i \in TagIds
      /\ \A i \in DOMAIN new : new[i] \in add /\ new[i] \in TagNames /\ i \in TagIds
  BY <1>2 DEF Inserts, T!TagSet
<1>4. rows \in [DOMAIN rows -> TagNames] /\ DOMAIN rows \in SUBSET TagIds
  BY <1>1, <1>3
<1>5. rows \in TagRows
  BY <1>4 DEF TagRows
<1>6. ASSUME NEW i \in DOMAIN rows, NEW j \in DOMAIN rows, rows[i] = rows[j]
      PROVE  i = j
  <2>1. CASE i \in keep /\ j \in keep
    BY <1>1, <1>6, <2>1 DEF Different
  <2>2. CASE i \in DOMAIN new /\ j \in DOMAIN new
    BY <1>1, <1>6, <2>2 DEF Different, Inserts
  <2>3. CASE i \in keep /\ j \in DOMAIN new
    BY <1>1, <1>3, <1>6, <2>3
  <2>4. CASE i \in DOMAIN new /\ j \in keep
    BY <1>1, <1>3, <1>6, <2>4
  <2> QED
    BY <1>1, <2>1, <2>2, <2>3, <2>4
<1>7. T!TagSet(rows) = TagsAt(table, keep) \cup add
  <2>1. T!TagSet(new) = add
    BY DEF Inserts
  <2>2. ASSUME NEW t \in T!TagSet(rows) PROVE t \in TagsAt(table, keep) \cup add
    BY <1>1, <1>3, <2>2 DEF T!TagSet, TagsAt
  <2>3. ASSUME NEW i \in keep PROVE table[i] \in T!TagSet(rows)
    BY <1>1 DEF T!TagSet
  <2>4. ASSUME NEW t \in add PROVE t \in T!TagSet(rows)
    <3>1. PICK i \in DOMAIN new : new[i] = t
      BY <2>1 DEF T!TagSet
    <3> QED
      BY <1>1, <3>1 DEF T!TagSet
  <2> QED
    BY <2>2, <2>3, <2>4 DEF TagsAt
<1> QED
  BY <1>1, <1>5, <1>6, <1>7 DEF Different, Carries

LEMMA IdleEditor ==
    /\ T!Idle.pc = "idle" /\ T!Idle.new = None
    /\ T!Idle \in [pc : {"idle", "edit", "delete"}, new : Bodies \cup {None},
                   old : Bodies \cup {None}, rows : TagRows]
<1>1. T!NoRows \in TagRows
  <2>1. T!NoRows \in [{} -> TagNames]
    BY DEF T!NoRows
  <2> QED
    BY <2>1 DEF TagRows
<1> QED
  BY <1>1 DEF T!Idle

\* The type of the handlers' rows follows from what they are.
LEMMA RowsOfEditor ==
    ASSUME NEW rows \in TagRows
    PROVE  T!TagSet(rows) \subseteq TagNames /\ rows \in [DOMAIN rows -> TagNames]
BY DEF TagRows, T!TagSet

LEMMA TagsInit ==
    ASSUME T!ConstantsOK, T!Init
    PROVE  TagsOK
<1>1. /\ body = None /\ postRemoved = FALSE /\ tag = T!NoRows /\ tagUsed = {}
      /\ editor = [q \in Slots |-> T!Idle]
  BY DEF T!Init
<1>2. T!NoRows = [i \in {} |-> 0] /\ T!Idle.rows = T!NoRows
  BY DEF T!NoRows, T!Idle
<1>3. tag \in TagRows /\ Different(tag) /\ DOMAIN tag = {}
  <2>1. tag \in [{} -> TagNames]
    BY <1>1, <1>2
  <2> QED
    BY <2>1 DEF TagRows, Different
<1>4. editor \in [Slots -> [pc : {"idle", "edit", "delete"}, new : Bodies \cup {None},
                            old : Bodies \cup {None}, rows : TagRows]]
  BY <1>1, IdleEditor
<1>5. \A q \in Slots : editor[q].pc = "idle" /\ DOMAIN editor[q].rows = {}
  BY <1>1, <1>2, IdleEditor
<1>6. T!TypeOK
  BY <1>1, <1>3, <1>4, <1>5, RowsOfEditor DEF T!TypeOK
<1> QED
  BY <1>3, <1>4, <1>5, <1>6 DEF TagsOK

\* A step that leaves the tables alone or inserts new rows keeps TagsOK when the
\* handler it moves is well typed.
LEMMA KeptByEditor ==
    ASSUME TagsOK, NEW q \in Slots, NEW l,
           l \in [pc : {"idle", "edit", "delete"}, new : Bodies \cup {None},
                  old : Bodies \cup {None}, rows : TagRows],
           l.pc = "edit" => l.new \in Bodies,
           DOMAIN l.rows \subseteq tagUsed',
           editor' = [editor EXCEPT ![q] = l],
           body' \in Bodies \cup {None}, postRemoved' \in BOOLEAN,
           tagUsed' \subseteq TagIds, tagUsed \subseteq tagUsed', DOMAIN tag' \subseteq tagUsed',
           tag' \in TagRows, Different(tag')
    PROVE  TagsOK'
<1>1. editor' \in [Slots -> [pc : {"idle", "edit", "delete"}, new : Bodies \cup {None},
                             old : Bodies \cup {None}, rows : TagRows]]
  BY DEF TagsOK
<1>2. \A p \in Slots : editor'[p] = IF p = q THEN l ELSE editor[p]
  BY DEF TagsOK
<1>3. \A p \in Slots : editor'[p].pc = "edit" => editor'[p].new \in Bodies
  BY <1>2 DEF TagsOK
<1>4. \A p \in Slots : DOMAIN editor'[p].rows \subseteq tagUsed'
  BY <1>2 DEF TagsOK, T!TypeOK
<1>5. tag' \in [DOMAIN tag' -> TagNames]
  BY RowsOfEditor
<1>6. \A p \in Slots : T!TagSet(editor'[p].rows) \subseteq TagNames
  BY <1>1, RowsOfEditor
<1>7. T!TypeOK'
  BY <1>1, <1>4, <1>5, <1>6 DEF T!TypeOK, T!TagSet
<1>8. Different(tag)'
  BY DEF Different
<1> QED
  BY <1>1, <1>3, <1>7, <1>8 DEF TagsOK

LEMMA KeptByCreate ==
    ASSUME T!ConstantsOK, TagsOK, NEW q \in Slots, NEW b \in Bodies, T!Create(q, b)
    PROVE  TagsOK'
<1>1. PICK new \in T!FreshRows(TagsOf[b]) : tag' = new /\ tagUsed' = tagUsed \cup DOMAIN new
  BY DEF T!Create
<1>2. body' = b /\ postRemoved' = postRemoved /\ editor' = editor
  BY DEF T!Create
<1>3. Inserts(new, TagsOf[b]) /\ TagsOf[b] \subseteq TagNames
  BY TagsAreFew, FreshRowsInsert
<1>4. tag' \in TagRows /\ Different(tag') /\ DOMAIN tag' \subseteq tagUsed'
  BY <1>1, <1>3 DEF Inserts, TagRows
<1>5. editor' = [editor EXCEPT ![q] = editor[q]]
  BY <1>2 DEF TagsOK
<1>6. tagUsed' \subseteq TagIds
  BY <1>1, <1>3 DEF Inserts, TagsOK, T!TypeOK
<1>7. /\ editor[q] \in [pc : {"idle", "edit", "delete"}, new : Bodies \cup {None},
                        old : Bodies \cup {None}, rows : TagRows]
      /\ editor[q].pc = "edit" => editor[q].new \in Bodies
      /\ DOMAIN editor[q].rows \subseteq tagUsed
  BY DEF TagsOK, T!TypeOK
<1> QED
  BY <1>1, <1>2, <1>4, <1>5, <1>6, <1>7, KeptByEditor DEF TagsOK, T!TypeOK

\* A step that reads keeps it.
LEMMA KeptByReader ==
    ASSUME TagsOK, NEW q \in Slots, NEW l,
           l \in [pc : {"idle", "edit", "delete"}, new : Bodies \cup {None},
                  old : Bodies \cup {None}, rows : TagRows],
           l.pc = "edit" => l.new \in Bodies,
           DOMAIN l.rows \subseteq tagUsed,
           editor' = [editor EXCEPT ![q] = l],
           postRemoved' \in BOOLEAN, UNCHANGED <<body, tag, tagUsed>>
    PROVE  TagsOK'
<1>1. /\ body' \in Bodies \cup {None} /\ tagUsed' \subseteq TagIds
      /\ DOMAIN tag' \subseteq tagUsed' /\ tag' \in TagRows /\ Different(tag')
  BY DEF TagsOK, T!TypeOK
<1> QED
  BY <1>1, KeptByEditor

LEMMA KeptByEditRead ==
    ASSUME TagsOK, NEW q \in Slots, NEW b \in Bodies, T!EditRead(q, b)
    PROVE  TagsOK'
<1> DEFINE l == [pc |-> "edit", new |-> b, old |-> body, rows |-> tag]
<1>1. editor' = [editor EXCEPT ![q] = l] /\ UNCHANGED <<body, tag, tagUsed>> /\ postRemoved' = postRemoved
  BY DEF T!EditRead
<1>2. /\ l \in [pc : {"idle", "edit", "delete"}, new : Bodies \cup {None},
                old : Bodies \cup {None}, rows : TagRows]
      /\ l.pc = "edit" => l.new \in Bodies
      /\ DOMAIN l.rows \subseteq tagUsed
  BY DEF TagsOK, T!TypeOK
<1>3. postRemoved' \in BOOLEAN
  BY <1>1 DEF TagsOK, T!TypeOK
<1> HIDE DEF l
<1> QED
  BY <1>1, <1>2, <1>3, KeptByReader

\* What an edit that is not refused writes.
EditWrites(q, new) ==
    LET b == editor[q].new
        add == T!Added(editor[q].rows, b)
        keep == DOMAIN tag \ T!Dropped(editor[q].rows, b)
    IN  /\ Inserts(new, add)
        /\ tag' = Joins(tag, keep, new)
        /\ tagUsed' = tagUsed \cup DOMAIN new
        /\ body' = IF b = editor[q].old THEN body ELSE b

LEMMA EditCommits ==
    ASSUME T!ConstantsOK, TagsOK, NEW q \in Slots, T!EditCommit(q)
    PROVE  \/ /\ T!Clashes(T!Added(editor[q].rows, editor[q].new))
              /\ UNCHANGED <<body, tag, tagUsed>>
           \/ /\ ~ T!Clashes(T!Added(editor[q].rows, editor[q].new))
              /\ \E new : EditWrites(q, new)
<1> PICK b : b = editor[q].new
  OBVIOUS
<1> PICK add : add = T!Added(editor[q].rows, b)
  OBVIOUS
<1> PICK keep : keep = DOMAIN tag \ T!Dropped(editor[q].rows, b)
  OBVIOUS
<1>1. b \in Bodies
  BY DEF T!EditCommit, TagsOK
<1>2. CASE T!Clashes(add)
  BY <1>2 DEF T!EditCommit
<1>3. CASE ~ T!Clashes(add)
  <2>1. PICK new \in T!FreshRows(add) :
            /\ tag' = [i \in keep \cup DOMAIN new |-> IF i \in keep THEN tag[i] ELSE new[i]]
            /\ tagUsed' = tagUsed \cup DOMAIN new
    BY <1>3 DEF T!EditCommit
  <2>2. body' = IF b = editor[q].old THEN body ELSE b
    BY <1>3 DEF T!EditCommit
  <2>3. Inserts(new, add)
    BY <1>1, TagsAreFew, FreshRowsInsert
  <2>4. tag' = Joins(tag, keep, new)
    BY <2>1 DEF Joins
  <2> QED
    BY <1>3, <2>1, <2>2, <2>3, <2>4 DEF EditWrites
<1> QED
  BY <1>2, <1>3

LEMMA KeptByEditCommit ==
    ASSUME T!ConstantsOK, TagsOK, NEW q \in Slots, T!EditCommit(q)
    PROVE  TagsOK'
<1>1. editor' = [editor EXCEPT ![q] = T!Idle] /\ postRemoved' = postRemoved /\ postRemoved \in BOOLEAN
  BY DEF T!EditCommit, T!Ends, TagsOK, T!TypeOK
<1>2. T!Idle.pc = "idle" /\ DOMAIN T!Idle.rows = {}
  BY DEF T!Idle, T!NoRows
<1>3. CASE UNCHANGED <<body, tag, tagUsed>>
  BY <1>1, <1>2, <1>3, IdleEditor, KeptByReader
<1>4. ASSUME NEW new, EditWrites(q, new), ~ T!Clashes(T!Added(editor[q].rows, editor[q].new))
      PROVE  TagsOK'
  <2> PICK b : b = editor[q].new
    OBVIOUS
  <2> PICK add : add = T!Added(editor[q].rows, b)
    OBVIOUS
  <2> PICK keep : keep = DOMAIN tag \ T!Dropped(editor[q].rows, b)
    OBVIOUS
  <2>1. /\ Inserts(new, add)
        /\ tag' = Joins(tag, keep, new)
        /\ tagUsed' = tagUsed \cup DOMAIN new
        /\ body' = IF b = editor[q].old THEN body ELSE b
    BY <1>4 DEF EditWrites
  <2>2. b \in Bodies
    BY DEF T!EditCommit, TagsOK
  <2>3. add \in SUBSET TagNames
    BY <2>2, TagsAreFew
  <2>4. add \cap T!TagSet(tag) = {}
    BY <1>4 DEF T!Clashes
  <2>5. tag \in TagRows /\ Different(tag) /\ DOMAIN tag \subseteq tagUsed /\ tagUsed \subseteq TagIds
        /\ body \in Bodies \cup {None}
    BY DEF TagsOK, T!TypeOK
  <2>6. tag' \in TagRows /\ Different(tag') /\ DOMAIN tag' = keep \cup DOMAIN new
    <3> PICK table : table = tag
      OBVIOUS
    <3>1. table \in TagRows /\ Different(table) /\ DOMAIN table \subseteq tagUsed
      BY <2>5
    <3>2. add \cap T!TagSet(table) = {} /\ keep \in SUBSET DOMAIN table
      BY <2>4
    <3>3. /\ Joins(table, keep, new) \in TagRows /\ Different(Joins(table, keep, new))
          /\ DOMAIN Joins(table, keep, new) = keep \cup DOMAIN new
      BY <2>1, <2>3, <3>1, <3>2, JoinedRows
    <3> QED
      BY <2>1, <3>3
  <2>7. tagUsed' \subseteq TagIds /\ tagUsed \subseteq tagUsed' /\ DOMAIN tag' \subseteq tagUsed'
    BY <2>1, <2>5, <2>6 DEF Inserts
  <2>8. body' \in Bodies \cup {None}
    BY <2>1, <2>2, <2>5
  <2> QED
    BY <1>1, <1>2, <2>6, <2>7, <2>8, IdleEditor, KeptByEditor
<1> QED
  BY <1>3, <1>4, EditCommits

LEMMA KeptByDeleteRead ==
    ASSUME TagsOK, NEW q \in Slots, T!DeleteRead(q)
    PROVE  TagsOK'
<1> DEFINE l == [T!Idle EXCEPT !.pc = "delete"]
<1>1. editor[q] = T!Idle /\ UNCHANGED <<body, tag, tagUsed>> /\ postRemoved' = postRemoved
  BY DEF T!DeleteRead
<1>2. editor' = [editor EXCEPT ![q] = l]
  BY <1>1 DEF T!DeleteRead
<1>3. /\ l \in [pc : {"idle", "edit", "delete"}, new : Bodies \cup {None},
                old : Bodies \cup {None}, rows : TagRows]
      /\ l.pc = "delete" /\ l.rows = T!Idle.rows
  BY IdleEditor DEF T!Idle
<1>4. DOMAIN l.rows = {}
  BY <1>3 DEF T!Idle, T!NoRows
<1>5. postRemoved' \in BOOLEAN
  BY <1>1 DEF TagsOK, T!TypeOK
<1> HIDE DEF l
<1> QED
  BY <1>1, <1>2, <1>3, <1>4, <1>5, KeptByReader

LEMMA KeptByDeleteCommit ==
    ASSUME TagsOK, NEW q \in Slots, T!DeleteCommit(q)
    PROVE  TagsOK'
<1>1. editor' = [editor EXCEPT ![q] = T!Idle] /\ postRemoved' = TRUE /\ UNCHANGED <<body, tag, tagUsed>>
  BY DEF T!DeleteCommit, T!Ends
<1>2. DOMAIN T!Idle.rows = {}
  BY DEF T!Idle, T!NoRows
<1> QED
  BY <1>1, <1>2, IdleEditor, KeptByReader

LEMMA TagsNext ==
    ASSUME T!ConstantsOK, TagsOK, T!Next \/ UNCHANGED tagVars
    PROVE  TagsOK'
<1>1. ASSUME NEW q \in Slots, NEW b \in Bodies, T!Create(q, b) \/ T!EditRead(q, b)
      PROVE  TagsOK'
  BY <1>1, KeptByCreate, KeptByEditRead
<1>2. ASSUME NEW q \in Slots, T!EditCommit(q) \/ T!DeleteRead(q) \/ T!DeleteCommit(q)
      PROVE  TagsOK'
  BY <1>2, KeptByEditCommit, KeptByDeleteRead, KeptByDeleteCommit
<1>3. CASE UNCHANGED tagVars
  <2>1. UNCHANGED <<body, postRemoved, tag, tagUsed, editor>>
    BY <1>3 DEF tagVars
  <2>2. T!TypeOK'
    BY <2>1 DEF TagsOK, T!TypeOK, T!TagSet
  <2> QED
    BY <2>1, <2>2 DEF TagsOK, Different
<1> QED
  BY <1>1, <1>2, <1>3 DEF T!Next

LEMMA TagsSteps == MCNext => T!Next \/ UNCHANGED tagVars
BY DEF MCNext

LEMMA TagsInductive == MCSpec => []TagsOK
<1>1. T!ConstantsOK
  BY InstancesOK
<1>2. MCInit => TagsOK
  BY <1>1, TagsInit DEF MCInit
<1>3. TagsOK /\ [MCNext]_<<moving, vars, threadVars, tagVars, textVars, feedVars>> => TagsOK'
  BY <1>1, TagsSteps, TagsNext
<1> QED
  BY <1>2, <1>3, PTL DEF MCSpec

\* A handler at an edit comes to its end by committing it.
LEMMA EditEnds ==
    ASSUME TagsOK, NEW q \in Slots, editor[q].pc = "edit", editor'[q] = T!Idle,
           T!Next \/ UNCHANGED tagVars
    PROVE  T!EditCommit(q)
<1>1. editor[q] # T!Idle
  BY IdleEditor
<1>2. PICK p \in Slots : \/ \E b \in Bodies : T!Create(p, b) \/ T!EditRead(p, b)
                         \/ T!EditCommit(p) \/ T!DeleteRead(p) \/ T!DeleteCommit(p)
  BY <1>1 DEF T!Next, tagVars
<1>3. editor' # editor
  BY <1>1
<1>4. ~ \E b \in Bodies : T!Create(p, b)
  BY <1>3 DEF T!Create
<1>5. p = q
  <2>1. \E l : editor' = [editor EXCEPT ![p] = l]
    BY <1>2, <1>4 DEF T!EditRead, T!EditCommit, T!DeleteRead, T!DeleteCommit, T!Ends
  <2>2. p # q => editor'[q] = editor[q]
    BY <2>1 DEF TagsOK
  <2> QED
    BY <1>1, <2>2
<1> QED
  BY <1>1, <1>2, <1>4, <1>5 DEF T!EditRead, T!DeleteRead, T!DeleteCommit

\* An edit that ran alone, one that commits while the rows it loaded are still
\* the table, leaves exactly the tags of its text, each in one row: whatever
\* drift races left behind, the next _sync_tags repairs it, for any tags and any
\* number of edits in flight.
THEOREM RepairTheorem == MCSpec => EditRepairs
<1>1. T!ConstantsOK
  BY InstancesOK
<1>2. ASSUME TagsOK, T!Next \/ UNCHANGED tagVars, NEW q \in Slots,
             editor[q].pc = "edit", editor'[q] = T!Idle, editor[q].rows = tag
      PROVE  /\ T!TagSet(tag') = TagsOf[editor[q].new]
             /\ T!Cardinality(DOMAIN tag') = T!Cardinality(TagsOf[editor[q].new])
  <2> PICK b : b = editor[q].new
    OBVIOUS
  <2> PICK table : table = tag
    OBVIOUS
  <2>0a. PICK add : add = T!Added(table, b)
    OBVIOUS
  <2>0b. PICK keep : keep = DOMAIN table \ T!Dropped(table, b)
    OBVIOUS
  <2>1. T!EditCommit(q) /\ b \in Bodies
    BY <1>2, EditEnds DEF TagsOK
  <2>2. add = TagsOf[b] \ T!TagSet(table) /\ keep = {i \in DOMAIN table : table[i] \in TagsOf[b]}
    BY <2>0a, <2>0b DEF T!Added, T!Dropped
  <2>3. ~ T!Clashes(add)
    BY <2>2 DEF T!Clashes
  <2>4. PICK new : EditWrites(q, new)
    BY <1>1, <1>2, <2>0a, <2>1, <2>3, EditCommits
  <2>5. Inserts(new, add) /\ tag' = Joins(table, keep, new)
    BY <1>2, <2>0a, <2>0b, <2>4 DEF EditWrites
  <2>6. add \in SUBSET TagNames /\ IsFiniteSet(TagsOf[b])
    BY <1>1, <2>0a, <2>1, TagsAreFew
  <2>7. table \in TagRows /\ Different(table) /\ DOMAIN table \subseteq tagUsed
        /\ add \cap T!TagSet(table) = {} /\ keep \in SUBSET DOMAIN table
    BY <1>2, <2>2 DEF TagsOK, T!TypeOK
  <2>8. PICK rows :
          /\ rows = Joins(table, keep, new) /\ rows \in TagRows /\ Different(rows)
          /\ T!TagSet(rows) = TagsAt(table, keep) \cup add
    <3>1. /\ Joins(table, keep, new) \in TagRows /\ Different(Joins(table, keep, new))
          /\ Carries(Joins(table, keep, new), table, keep, add)
      BY <2>5, <2>6, <2>7, JoinedRows
    <3> QED
      BY <3>1 DEF Carries
  <2>9. T!TagSet(rows) = TagsOf[b]
    <3>1. TagsAt(table, keep) = TagsOf[b] \cap T!TagSet(table)
      BY <2>2 DEF T!TagSet, TagsAt
    <3> QED
      BY <2>2, <2>8, <3>1
  <2>10. Cardinality(DOMAIN rows) = Cardinality(TagsOf[b])
    <3>1. rows \in [DOMAIN rows -> TagsOf[b]]
      BY <2>8, <2>9 DEF TagRows, T!TagSet
    <3>2. rows \in Injection(DOMAIN rows, TagsOf[b])
      BY <2>8, <3>1 DEF Different, Injection, IsInjective
    <3>3. rows \in Surjection(DOMAIN rows, TagsOf[b])
      BY <2>9, <3>1 DEF Surjection, T!TagSet
    <3> QED
      BY <2>6, <3>2, <3>3, FS_Injection
  <2> QED
    BY <2>5, <2>8, <2>9, <2>10, OneMeasure
<1>3. TagsOK /\ [MCNext]_<<moving, vars, threadVars, tagVars, textVars, feedVars>>
        => [\A q \in Slots :
              editor[q].pc = "edit" /\ editor'[q] = T!Idle /\ editor[q].rows = tag
                 => /\ T!TagSet(tag') = TagsOf[editor[q].new]
                    /\ T!Cardinality(DOMAIN tag') = T!Cardinality(TagsOf[editor[q].new])]_(T!vars)
  BY <1>2, TagsSteps
<1> QED
  BY <1>3, TagsInductive, PTL DEF MCSpec, EditRepairs, T!EditRepairs

-----------------------------------------------------------------------------
(* A step of MCCommunity is a step of one part, so what Reactions and        *)
(* Threads do by themselves they do here.                                    *)

HP == INSTANCE ThreadsProofs WITH
        Users <- Authors, Moderators <- {}, Reqs <- Slots, req <- thread

LEMMA ReactionSteps == MCSpec => Spec
<1>1. MCInit => Init
  BY DEF MCInit
<1>2. [MCNext]_<<moving, vars, threadVars, tagVars, textVars, feedVars>> => [Next]_vars
  BY DEF MCNext
<1> QED
  BY <1>1, <1>2, PTL DEF MCSpec, Spec

LEMMA SameConstants == HP!ConstantsOK
BY InstancesOK DEF H!ConstantsOK, HP!ConstantsOK

LEMMA SameInit == H!Init => HP!Init
BY DEF H!Init, HP!Init, H!Idle, HP!Idle

LEMMA SameNext == H!Next => HP!Next
BY DEF H!Next, HP!Next,
   H!CreatePost, H!ShareRead, H!DeletePostRead, H!CommentRead, H!ShareCommit,
   H!DeletePostCommit, H!ParentRead, H!CommentCommit, H!DeleteCommentRead,
   H!DeleteCommentCommit, H!Ends, H!Goes, H!CanDelete, H!NewPost, H!Credited,
   H!Commentable, H!ShareCredited, H!Answerable, H!ReplyCounted, H!CommentCounted,
   H!Decremented, H!Idle,
   HP!CreatePost, HP!ShareRead, HP!DeletePostRead, HP!CommentRead, HP!ShareCommit,
   HP!DeletePostCommit, HP!ParentRead, HP!CommentCommit, HP!DeleteCommentRead,
   HP!DeleteCommentCommit, HP!Ends, HP!Goes, HP!CanDelete, HP!NewPost, HP!Credited,
   HP!Commentable, HP!ShareCredited, HP!Answerable, HP!ReplyCounted, HP!CommentCounted,
   HP!Decremented, HP!Idle

LEMMA ThreadSteps == MCSpec => HP!Spec
<1>1. MCInit => HP!Init
  BY SameInit DEF MCInit
<1>2. [MCNext]_<<moving, vars, threadVars, tagVars, textVars, feedVars>> => [HP!Next]_(HP!vars)
  BY SameNext DEF MCNext, threadVars, HP!vars
<1> QED
  BY <1>1, <1>2, PTL DEF MCSpec, HP!Spec

\* The instance of Threads counts as ThreadsProofs does.
LEMMA SameCount == \A S : H!Cardinality(S) = HP!Cardinality(S)
BY DEF H!Cardinality, HP!Cardinality

LEMMA SameConversation ==
    /\ \A p : H!SharesOf(p) = HP!SharesOf(p)
    /\ \A c : H!RepliesTo(c) = HP!RepliesTo(c)
    /\ \A p : H!Conversation(p) = HP!Conversation(p)
BY DEF H!SharesOf, HP!SharesOf, H!RepliesTo, HP!RepliesTo, H!Conversation, HP!Conversation

\* Reactions: an account holds at most one reaction to a target, and no count
\* exceeds the reactions there are, however react and unreact overlap.
THEOREM CountedOnceTheorem == MCSpec => []CountedOnce
BY ReactionSteps, CountedOnceInvariant, PTL

\* Posts and comments: shares credit an original, replies stay in their thread,
\* both are counted exactly and a comment count is never too high, however
\* create_post, create_comment and their removals overlap.
THEOREM ConversationExactTheorem == MCSpec => []ConversationExact
<1>1. HP!ConversationExact => ConversationExact
  BY SameCount, SameConversation
  DEF ConversationExact, H!ConversationExact, HP!ConversationExact,
      H!SharesPointAtOriginals, HP!SharesPointAtOriginals,
      H!ShareCountExact, HP!ShareCountExact, H!RepliesStayInThread, HP!RepliesStayInThread,
      H!ReplyCountExact, HP!ReplyCountExact, H!NeverOvercounts, HP!NeverOvercounts
<1> QED
  BY <1>1, ThreadSteps, HP!ConversationTheorem, SameConstants, PTL

\* A count falls short only by an unreact whose reaction, or the deletion of a
\* comment that, somebody else has deleted.
THEOREM OnlyDoubledDriftsTheorem == MCSpec => OnlyDoubledDrifts
<1>1. HP!OnlyDoubleDeleteDrifts => H!OnlyDoubleDeleteDrifts
  <2>1. [\A p \in DOMAIN post :
            HP!Missing(p)' > HP!Missing(p) =>
                \E q \in Slots : HP!Stale(q) /\ comment[thread[q].comment].post = p]_(HP!vars)
        => [\A p \in DOMAIN post :
              H!Missing(p)' > H!Missing(p) =>
                  \E q \in Slots : H!Stale(q) /\ comment[thread[q].comment].post = p]_(H!vars)
    <3>1. ASSUME NEW p
          PROVE  H!Missing(p) = HP!Missing(p) /\ H!Missing(p)' = HP!Missing(p)'
      <4>1. H!Missing(p) = HP!Missing(p)
        BY SameCount, SameConversation DEF H!Missing, HP!Missing
      <4>2. H!Conversation(p)' = HP!Conversation(p)'
        BY DEF H!Conversation, HP!Conversation
      <4>3. H!Missing(p)' = HP!Missing(p)'
        BY SameCount, <4>2 DEF H!Missing, HP!Missing
      <4> QED
        BY <4>1, <4>3
    <3>2. \A q : H!Stale(q) <=> HP!Stale(q)
      BY DEF H!Stale, HP!Stale
    <3> QED
      BY <3>1, <3>2 DEF H!vars, HP!vars
  <2> QED
    BY <2>1, PTL DEF HP!OnlyDoubleDeleteDrifts, H!OnlyDoubleDeleteDrifts
<1> QED
  BY <1>1, ReactionSteps, DriftTheorem, ThreadSteps, HP!DriftTheorem, SameConstants, PTL
  DEF OnlyDoubledDrifts

\* Once it is removed and the requests in flight have ended, a target gains no
\* reaction and a post no comment (_target_or_404, _post_or_404).
THEOREM RemovedIsQuietTheorem == MCSpec => RemovedIsQuiet
<1>1. HP!RemovedPostIsQuiet => H!RemovedPostIsQuiet
  <2>1. [\A p \in Posts :
            HP!Quiet(p) =>
                /\ HP!Quiet(p)'
                /\ \A c \in DOMAIN comment' : comment'[c].post = p => c \in DOMAIN comment]_(HP!vars)
        => [\A p \in Posts :
              H!Quiet(p) =>
                  /\ H!Quiet(p)'
                  /\ \A c \in DOMAIN comment' : comment'[c].post = p => c \in DOMAIN comment]_(H!vars)
    BY DEF H!Quiet, HP!Quiet, H!vars, HP!vars
  <2> QED
    BY <2>1, PTL DEF HP!RemovedPostIsQuiet, H!RemovedPostIsQuiet
<1> QED
  BY <1>1, ReactionSteps, RemovedGainsNothingTheorem, ThreadSteps, HP!RemovedPostTheorem,
     SameConstants, PTL
  DEF RemovedIsQuiet

-----------------------------------------------------------------------------
(* The types of all parts.                                                   *)

LEMMA TextInductive == MCSpec => []X!TypeOK
<1>1. MaxText \in Nat
  BY InstancesOK DEF X!ConstantsOK
<1>2. MCInit => X!TypeOK
  BY <1>1 DEF MCInit, X!Init, X!TypeOK
<1>3. ASSUME X!TypeOK, X!Next \/ UNCHANGED textVars
      PROVE  X!TypeOK'
  <2>1. CASE UNCHANGED text
    BY <1>3, <2>1 DEF X!TypeOK
  <2>2. ASSUME NEW c \in X!Characters, X!Type(c)
        PROVE  X!TypeOK'
    <3>1. /\ Append(text, c) \in Seq(X!Characters)
          /\ Len(Append(text, c)) = Len(text) + 1 /\ Len(text) \in Nat
      BY <1>3, <2>2, AppendProperties, LenProperties DEF X!TypeOK
    <3>2. text' = Append(text, c) /\ Len(text) < MaxText
      BY <2>2 DEF X!Type
    <3>3. Len(text) + 1 <= MaxText
      BY <1>1, <3>1, <3>2
    <3> QED
      BY <3>1, <3>2, <3>3 DEF X!TypeOK, X!Characters, X!TagCharacters, X!WordCharacters, X!Letters
  <2> QED
    BY <1>3, <2>1, <2>2 DEF X!Next, textVars
<1>4. MCNext => X!Next \/ UNCHANGED textVars
  BY DEF MCNext
<1>5. X!TypeOK /\ [MCNext]_<<moving, vars, threadVars, tagVars, textVars, feedVars>> => X!TypeOK'
  BY <1>3, <1>4
<1> QED
  BY <1>2, <1>5, PTL DEF MCSpec

\* The tables, texts, lists and handlers of every part are well typed.
THEOREM TypesTheorem == MCSpec => []TypesOK
<1>1. HP!TypeOK => H!TypeOK
  BY DEF HP!TypeOK, H!TypeOK, HP!PostRow, H!PostRow, HP!CommentRow, H!CommentRow,
         HP!Request, H!Request, HP!Stages, H!Stages
<1>2. MCSpec => []H!TypeOK
  BY <1>1, ThreadSteps, HP!TypeInvariant, SameConstants, PTL
<1>3. MCSpec => []TypeOK
  BY ReactionSteps, TypeInvariant, PTL
<1>4. MCSpec => [](T!TypeOK /\ F!TypeOK)
  <2>1. TagsOK => T!TypeOK
    BY DEF TagsOK
  <2>2. ScrollOK => F!TypeOK
    BY DEF ScrollOK
  <2> QED
    BY <2>1, <2>2, TagsInductive, ScrollInductive, PTL
<1> QED
  BY <1>2, <1>3, <1>4, TextInductive, PTL DEF TypesOK

-----------------------------------------------------------------------------
(* A fold over the places of a text.                                       *)

\* Every set of numbers has a least one.
LEMMA LeastNumber ==
    ASSUME NEW N \in SUBSET Nat, N # {}
    PROVE  \E x \in N : \A y \in N : x <= y
<1> DEFINE Less == {p \in Nat \X Nat : p[1] < p[2]}
<1>1. IsWellFoundedOn(Less, Nat)
  BY NatLessThanWellFounded, Zenon DEF OpToRel
<1>2. \E x \in N : \A y \in N : ~ (<<y, x>> \in Less)
  <2> HIDE DEF Less
  <2> QED
    BY <1>1, WFMin
<1>3. PICK x \in N : \A y \in N : <<y, x>> \notin Less
  BY <1>2
<1>4. ASSUME NEW y \in N PROVE x <= y
  <2>1. x \in Nat /\ y \in Nat /\ ~ (y < x)
    BY <1>3
  <2> QED
    BY <2>1
<1> QED
  BY <1>4

\* The greatest place of a run of places is its last.
LEMMA LastPlace ==
    ASSUME NEW n \in Nat
    PROVE  /\ \A d \in SUBSET (1 .. n) : d # {} => X!Max(d) \in d
           /\ \A k \in 1 .. n : X!Max(1 .. k) = k /\ (1 .. k) \ {k} = 1 .. k - 1
<1>1. ASSUME NEW d \in SUBSET (1 .. n), d # {} PROVE \E x \in d : \A y \in d : x >= y
  <2> DEFINE V == {n - x : x \in d}
  <2>a. \A x \in d : x \in 1 .. n /\ n - x \in Nat
    OBVIOUS
  <2>1. V \in SUBSET Nat /\ V # {}
    BY <1>1, <2>a
  <2>2. PICK v \in V : \A y \in V : v <= y
    <3> HIDE DEF V
    <3> QED
      BY <2>1, LeastNumber
  <2>3. PICK x \in d : v = n - x
    BY <2>2
  <2>4. \A y \in d : n - x <= n - y
    BY <2>2, <2>3
  <2>5. \A y \in d : x >= y
    BY <2>4, <2>a
  <2> QED
    BY <2>5
<1>2. \A d \in SUBSET (1 .. n) : d # {} => X!Max(d) \in d /\ \A y \in d : X!Max(d) >= y
  BY <1>1 DEF X!Max
<1>3. ASSUME NEW k \in 1 .. n PROVE X!Max(1 .. k) = k /\ (1 .. k) \ {k} = 1 .. k - 1
  <2>1. 1 .. k \in SUBSET (1 .. n) /\ k \in 1 .. k
    OBVIOUS
  <2>2. X!Max(1 .. k) \in 1 .. k /\ X!Max(1 .. k) >= k
    BY <1>2, <2>1
  <2> QED
    BY <2>2
<1> QED
  BY <1>2, <1>3

\* A fold over a sequence, place by place, keeps to A if each step does.
Folds(g, n, base, st) ==
    \A d \in SUBSET (1 .. n) :
       g[d] = IF d = {} THEN base ELSE st[<<X!Max(d), g[d \ {X!Max(d)}]>>]

\* For every base and step that keep to A there is such a fold.
LEMMA FoldOverPlaces ==
    ASSUME NEW n \in Nat, NEW A, NEW base \in A, NEW st,
           \A k \in 1 .. n, a \in A : st[<<k, a>>] \in A
    PROVE  \E g \in [SUBSET (1 .. n) -> A] : Folds(g, n, base, st)
<1> DEFINE W == 1 .. n
           Part(c, g) == \A d \in SUBSET W : Cardinality(d) <= c =>
                             g[d] = IF d = {} THEN base ELSE st[<<X!Max(d), g[d \ {X!Max(d)}]>>]
           Bad == {c \in Nat : ~ \E g \in [SUBSET W -> A] : Part(c, g)}
<1>a. IsFiniteSet(W)
  <2>1. 1 \in Int /\ n \in Int
    OBVIOUS
  <2> QED
    BY <2>1, FS_Interval
<1>b. \A d \in SUBSET W : d # {} => X!Max(d) \in d
  BY LastPlace
<1>c. \A k \in W, a \in A : st[<<k, a>>] \in A
  OBVIOUS
<1> HIDE DEF W
<1>1. \A d \in SUBSET W : IsFiniteSet(d) /\ Cardinality(d) \in Nat
  BY <1>a, FS_Subset, FS_CardinalityType
<1>2. ASSUME NEW d \in SUBSET W, d # {}
      PROVE  /\ X!Max(d) \in W /\ d \ {X!Max(d)} \in SUBSET W
             /\ Cardinality(d \ {X!Max(d)}) = Cardinality(d) - 1
  BY <1>1, <1>2, <1>b, FS_RemoveElement
<1>3. \A d \in SUBSET W : d # {} => Cardinality(d) # 0
  BY <1>1, FS_EmptySet
<1>4. Bad = {}
  <2> SUFFICES ASSUME Bad # {} PROVE FALSE
    OBVIOUS
  <2>1. PICK m \in Bad : \A y \in Bad : m <= y
    BY LeastNumber
  <2>2. m \in Nat \ {0}
    <3>1. [d \in SUBSET W |-> base] \in [SUBSET W -> A]
      OBVIOUS
    <3>2. Part(0, [d \in SUBSET W |-> base])
      BY <1>1, <1>3
    <3> HIDE DEF Part
    <3> QED
      BY <2>1, <3>1, <3>2
  <2>3. PICK g \in [SUBSET W -> A] : Part(m - 1, g)
    <3>1. m - 1 \in Nat /\ ~ (m <= m - 1)
      BY <2>2
    <3> HIDE DEF Part
    <3> QED
      BY <2>1, <3>1
  <2> DEFINE h == [d \in SUBSET W |->
                      IF Cardinality(d) = m THEN st[<<X!Max(d), g[d \ {X!Max(d)}]>>] ELSE g[d]]
  <2>4. h \in [SUBSET W -> A]
    <3>1. ASSUME NEW d \in SUBSET W PROVE h[d] \in A
      <4>1. CASE Cardinality(d) = m
        <5>1. d # {}
          BY <2>2, <4>1, FS_EmptySet
        <5>2. X!Max(d) \in W /\ g[d \ {X!Max(d)}] \in A
          BY <1>2, <5>1
        <5> QED
          BY <1>c, <4>1, <5>2
      <4>2. CASE Cardinality(d) # m
        BY <4>2
      <4> QED
        BY <4>1, <4>2
    <3> QED
      BY <3>1
  <2>5. Part(m, h)
    <3> SUFFICES ASSUME NEW d \in SUBSET W, Cardinality(d) <= m
                 PROVE  h[d] = IF d = {} THEN base ELSE st[<<X!Max(d), h[d \ {X!Max(d)}]>>]
      OBVIOUS
    <3>1. CASE d = {}
      <4>1. Cardinality(d) = 0 /\ 0 <= m - 1
        BY <2>2, <3>1, FS_EmptySet
      <4>2. h[d] = g[d]
        BY <2>2, <4>1
      <4> QED
        BY <2>3, <3>1, <4>1, <4>2
    <3>2. CASE d # {}
      <4>1. /\ d \ {X!Max(d)} \in SUBSET W
            /\ Cardinality(d \ {X!Max(d)}) = Cardinality(d) - 1
            /\ Cardinality(d) \in Nat
        BY <1>1, <1>2, <3>2
      <4>2. h[d \ {X!Max(d)}] = g[d \ {X!Max(d)}]
        BY <2>2, <4>1
      <4>3. CASE Cardinality(d) = m
        BY <3>2, <4>2, <4>3
      <4>4. CASE Cardinality(d) <= m - 1
        <5>1. h[d] = g[d]
          BY <2>2, <4>1, <4>4
        <5> QED
          BY <2>3, <3>2, <4>2, <4>4, <5>1
      <4> QED
        BY <2>2, <4>1, <4>3, <4>4
    <3> QED
      BY <3>1, <3>2
  <2> HIDE DEF h, Part
  <2> QED
    BY <2>1, <2>4, <2>5
<1>5. Cardinality(W) \in Nat /\ \A d \in SUBSET W : Cardinality(d) <= Cardinality(W)
  BY <1>1, <1>a, FS_Subset
<1>6. PICK g \in [SUBSET W -> A] : Part(Cardinality(W), g)
  <2> HIDE DEF Part
  <2> QED
    BY <1>4, <1>5
<1>7. \A d \in SUBSET W :
         g[d] = IF d = {} THEN base ELSE st[<<X!Max(d), g[d \ {X!Max(d)}]>>]
  BY <1>5, <1>6
<1> QED
  BY <1>7 DEF Folds, W
-----------------------------------------------------------------------------
(* Folding a tag.                                                          *)

\* What a character of a tag folds to.
Part(c) == IF c \in X!Letters THEN Fold[c] ELSE <<c>>

\* The characters of a tag that fold to themselves.
Plain == {c \in X!TagCharacters : Part(c) = <<c>>}

\* A character folds to characters that fold to themselves, at least one.
LEMMA PartsArePlain ==
    ASSUME NEW c \in X!TagCharacters
    PROVE  Part(c) \in Seq(Plain) /\ Len(Part(c)) \in Nat /\ Len(Part(c)) >= 1
<1>1. X!Letters = DOMAIN Fold /\ X!Letters \subseteq X!TagCharacters
  BY DEF X!Letters, X!TagCharacters, X!WordCharacters
<1>2. /\ \A l \in X!Letters : Fold[l] \in Seq(X!Letters) /\ Fold[l] # <<>>
      /\ \A l \in X!Letters : \A d \in X!Range(Fold[l]) : Fold[d] = <<d>>
  BY <1>1, InstancesOK DEF X!ConstantsOK
<1>3. CASE c \in X!Letters
  <2> DEFINE s == Fold[c]
  <2>1. Part(c) = s /\ s \in Seq(X!Letters) /\ s # <<>>
    BY <1>2, <1>3 DEF Part
  <2>2. \A d \in X!Range(s) : Fold[d] = <<d>>
    BY <1>2, <1>3
  <2> HIDE DEF s
  <2>3. /\ Len(s) \in Nat /\ DOMAIN s = 1 .. Len(s)
        /\ \A i \in 1 .. Len(s) : s[i] \in X!Letters
    BY <2>1, LenProperties, ElementOfSeq
  <2>4. Len(s) # 0
    BY <2>1, EmptySeq
  <2>5. ASSUME NEW i \in 1 .. Len(s) PROVE s[i] \in Plain
    <3>1. s[i] \in X!Range(s)
      BY <2>3 DEF X!Range
    <3>2. Part(s[i]) = <<s[i]>>
      BY <2>2, <2>3, <3>1 DEF Part
    <3> QED
      BY <1>1, <2>3, <3>2 DEF Plain
  <2>6. s \in Seq(Plain)
    BY <2>1, <2>3, <2>5
  <2> QED
    BY <2>1, <2>3, <2>4, <2>6
<1>4. CASE c \notin X!Letters
  <2>1. Part(c) = <<c>>
    BY <1>4 DEF Part
  <2>2. c \in Plain
    BY <2>1 DEF Plain
  <2>3. <<c>> \in Seq(Plain) /\ Len(<<c>>) = 1
    BY <2>2
  <2> QED
    BY <2>1, <2>3
<1> QED
  BY <1>3, <1>4

\* Folded, character by character.
FoldedBy(t, run) ==
    /\ run \in [0 .. Len(t) -> Seq(Plain)]
    /\ run[0] = <<>>
    /\ \A i \in 1 .. Len(t) : run[i] = run[i - 1] \o Part(t[i])
    /\ X!Folded(t) = run[Len(t)]

\* Folded is what the characters fold to, one after the other.
LEMMA FoldedInTurn ==
    ASSUME NEW t \in Seq(X!TagCharacters)
    PROVE  \E run : FoldedBy(t, run)
<1> DEFINE n == Len(t)
           seqs == [k \in DOMAIN t |-> IF t[k] \in X!Letters THEN Fold[t[k]] ELSE <<t[k]>>]
           Flat(g) == g = [i \in 1 .. n |-> IF i = 1 THEN seqs[i] ELSE g[i - 1] \o seqs[i]]
           FlatTo(m, g) == \A i \in 1 .. m : g[i] = IF i = 1 THEN seqs[i] ELSE g[i - 1] \o seqs[i]
           flat == CHOOSE g : Flat(g)
<1>1. n \in Nat /\ DOMAIN t = 1 .. n /\ \A i \in 1 .. n : t[i] \in X!TagCharacters
  OBVIOUS
<1>2. /\ seqs = [k \in 1 .. n |-> Part(t[k])]
      /\ \A i \in 1 .. n : seqs[i] = Part(t[i])
  BY <1>1 DEF Part
<1>3. \A i \in 1 .. n : seqs[i] \in Seq(Plain)
  BY <1>1, <1>2, PartsArePlain
<1>4. seqs \in Seq(Seq(Plain)) /\ Len(seqs) = n
  <2>1. seqs \in [1 .. n -> Seq(Plain)]
    BY <1>1, <1>3
  <2> HIDE DEF seqs
  <2> QED
    BY <1>1, <2>1
<1>5. X!Folded(t) = IF n = 0 THEN seqs ELSE flat[n]
  <2>1. X!Folded(t) = X!FlattenSeq(seqs)
    BY DEF X!Folded
  <2> HIDE DEF seqs
  <2> QED
    BY <1>4, <2>1 DEF X!FlattenSeq
<1> HIDE DEF seqs
<1> DEFINE Bad == {m \in Nat : m <= n /\ ~ \E g \in [1 .. n -> Seq(Plain)] : FlatTo(m, g)}
<1>6. Bad = {}
  <2> SUFFICES ASSUME Bad # {} PROVE FALSE
    OBVIOUS
  <2>1. PICK m \in Bad : \A y \in Bad : m <= y
    <3> HIDE DEF Bad
    <3> QED
      BY LeastNumber DEF Bad
  <2>2. m # 0
    <3>1. [i \in 1 .. n |-> <<>>] \in [1 .. n -> Seq(Plain)]
      BY EmptySeq
    <3>2. FlatTo(0, [i \in 1 .. n |-> <<>>])
      OBVIOUS
    <3> HIDE DEF FlatTo
    <3> QED
      BY <2>1, <3>1, <3>2
  <2>3. m \in 1 .. n /\ m - 1 \in Nat /\ m - 1 <= n /\ ~ (m <= m - 1)
    BY <1>1, <2>1, <2>2
  <2>4. PICK g \in [1 .. n -> Seq(Plain)] : FlatTo(m - 1, g)
    <3> HIDE DEF FlatTo
    <3> QED
      BY <2>1, <2>3
  <2> DEFINE next == IF m = 1 THEN seqs[m] ELSE g[m - 1] \o seqs[m]
             h == [g EXCEPT ![m] = next]
  <2>5. next \in Seq(Plain)
    <3>1. CASE m = 1
      BY <1>3, <2>3, <3>1
    <3>2. CASE m # 1
      <4>1. m - 1 \in 1 .. n
        BY <1>1, <2>3, <3>2
      <4>2. g[m - 1] \in Seq(Plain) /\ seqs[m] \in Seq(Plain)
        BY <1>3, <2>3, <4>1
      <4> QED
        BY <3>2, <4>2, ConcatProperties
    <3> QED
      BY <3>1, <3>2
  <2>6. /\ h \in [1 .. n -> Seq(Plain)] /\ h[m] = next
        /\ \A i \in 1 .. n : i # m => h[i] = g[i]
    <3> HIDE DEF next
    <3> QED
      BY <2>3, <2>5
  <2> HIDE DEF h
  <2>7. FlatTo(m, h)
    <3> SUFFICES ASSUME NEW i \in 1 .. m
                 PROVE  h[i] = IF i = 1 THEN seqs[i] ELSE h[i - 1] \o seqs[i]
      OBVIOUS
    <3>1. i \in 1 .. n /\ (i # 1 => i - 1 \in 1 .. n /\ i - 1 # m) /\ (i # m => i \in 1 .. m - 1)
      BY <1>1, <2>3
    <3>2. i # 1 => h[i - 1] = g[i - 1]
      BY <2>6, <3>1
    <3>3. CASE i = m
      BY <2>6, <3>2, <3>3
    <3>4. CASE i # m
      BY <2>4, <2>6, <3>1, <3>2, <3>4
    <3> QED
      BY <3>3, <3>4
  <2> HIDE DEF FlatTo
  <2> QED
    BY <2>1, <2>6, <2>7
<1>7. PICK g \in [1 .. n -> Seq(Plain)] : FlatTo(n, g)
  <2> HIDE DEF FlatTo
  <2> QED
    BY <1>1, <1>6
<1>8. Flat(g)
  BY <1>7
<1>9. Flat(flat)
  BY <1>8
<1> HIDE DEF flat
<1>10. \A i \in 1 .. n : flat[i] = IF i = 1 THEN seqs[i] ELSE flat[i - 1] \o seqs[i]
  BY <1>9
<1> DEFINE Wrong == {m \in Nat : m \in 1 .. n /\ flat[m] \notin Seq(Plain)}
<1>11. Wrong = {}
  <2> SUFFICES ASSUME Wrong # {} PROVE FALSE
    OBVIOUS
  <2>1. PICK m \in Wrong : \A y \in Wrong : m <= y
    <3> HIDE DEF Wrong
    <3> QED
      BY LeastNumber DEF Wrong
  <2>2. CASE m = 1
    BY <1>3, <1>10, <2>1, <2>2
  <2>3. CASE m # 1
    <3>1. m \in 1 .. n /\ m - 1 \in 1 .. n /\ m - 1 \in Nat /\ ~ (m <= m - 1)
      BY <1>1, <2>1, <2>3
    <3>2. flat[m - 1] \in Seq(Plain) /\ seqs[m] \in Seq(Plain)
      BY <1>3, <2>1, <3>1
    <3>3. flat[m] \in Seq(Plain)
      BY <1>10, <2>3, <3>1, <3>2, ConcatProperties
    <3> QED
      BY <2>1, <3>3
  <2> QED
    BY <2>2, <2>3
<1>12. \A i \in 1 .. n : flat[i] \in Seq(Plain)
  BY <1>1, <1>11
<1> DEFINE run == [i \in 0 .. n |-> IF i = 0 THEN <<>> ELSE flat[i]]
<1>13. run \in [0 .. n -> Seq(Plain)] /\ run[0] = <<>>
  <2>1. <<>> \in Seq(Plain)
    BY EmptySeq
  <2>2. \A i \in 0 .. n : i # 0 => i \in 1 .. n
    BY <1>1
  <2>3. 0 \in 0 .. n
    BY <1>1
  <2> QED
    BY <1>12, <2>1, <2>2, <2>3
<1>14. ASSUME NEW i \in 1 .. n PROVE run[i] = run[i - 1] \o Part(t[i])
  <2>1. i \in 0 .. n /\ i - 1 \in 0 .. n /\ i # 0 /\ (i # 1 => i - 1 # 0)
    BY <1>1
  <2>2. run[i] = flat[i] /\ run[i - 1] = IF i = 1 THEN <<>> ELSE flat[i - 1]
    BY <2>1
  <2>3. i = 1 => <<>> \o seqs[i] = seqs[i]
    BY <1>3, ConcatEmptySeq
  <2> QED
    BY <1>2, <1>10, <2>2, <2>3
<1>15. X!Folded(t) = run[n]
  <2>1. CASE n = 0
    <3>1. seqs = <<>>
      BY <1>4, <2>1, EmptySeq
    <3> QED
      BY <1>5, <1>13, <2>1, <3>1
  <2>2. CASE n # 0
    BY <1>1, <1>5, <2>2
  <2> QED
    BY <2>1, <2>2
<1> HIDE DEF run
<1> QED
  BY <1>13, <1>14, <1>15 DEF FoldedBy

\* t goes on where s ends.
Begins(s, t) == Len(s) <= Len(t) /\ \A j \in 1 .. Len(s) : t[j] = s[j]

\* Folding lengthens a text, and what is folded first stays at its beginning.
LEMMA FoldedGrows ==
    ASSUME NEW t \in Seq(X!TagCharacters), NEW run, FoldedBy(t, run)
    PROVE  \A i \in 0 .. Len(t) :
              /\ Len(run[i]) >= i
              /\ \A k \in 0 .. i : Begins(run[k], run[i])
<1> DEFINE n == Len(t)
           OK(i) == Len(run[i]) >= i /\ \A k \in 0 .. i : Begins(run[k], run[i])
           Bad == {i \in Nat : i <= n /\ ~ OK(i)}
<1>1. n \in Nat /\ \A i \in 1 .. n : t[i] \in X!TagCharacters
  OBVIOUS
<1>2. /\ \A i \in 0 .. n : run[i] \in Seq(Plain) /\ Len(run[i]) \in Nat
      /\ run[0] = <<>>
      /\ \A i \in 1 .. n : run[i] = run[i - 1] \o Part(t[i])
  <2>1. \A i \in 0 .. n : run[i] \in Seq(Plain)
    BY DEF FoldedBy
  <2>2. \A i \in 0 .. n : Len(run[i]) \in Nat
    BY <2>1, LenProperties
  <2> QED
    BY <2>1, <2>2 DEF FoldedBy
<1>3. OK(0)
  <2>1. Len(run[0]) = 0 /\ \A k \in 0 .. 0 : k = 0
    BY <1>2, EmptySeq
  <2>2. Begins(run[0], run[0])
    BY <2>1 DEF Begins
  <2> QED
    BY <2>1, <2>2
<1>4. ASSUME NEW i \in 1 .. n, OK(i - 1) PROVE OK(i)
  <2> DEFINE a == run[i - 1]  b == run[i]  c == Part(t[i])
  <2>1. i - 1 \in 0 .. n /\ i \in 0 .. n /\ \A k \in 0 .. i : k = i \/ k \in 0 .. i - 1
    BY <1>1
  <2>2. a \in Seq(Plain) /\ b \in Seq(Plain) /\ Len(a) \in Nat /\ Len(b) \in Nat /\ b = a \o c
    BY <1>2, <2>1
  <2>3. c \in Seq(Plain) /\ Len(c) \in Nat /\ Len(c) >= 1
    BY <1>1, PartsArePlain
  <2>4. Len(a) >= i - 1 /\ \A k \in 0 .. i - 1 : Begins(run[k], a)
    BY <1>4
  <2>a. \A k \in 0 .. i - 1 : Len(run[k]) \in Nat
    <3>1. \A k \in 0 .. i - 1 : k \in 0 .. n
      BY <1>1
    <3> QED
      BY <1>2, <3>1
  <2>b. Begins(b, b)
    BY <2>2 DEF Begins
  <2> HIDE DEF a, b, c
  <2>5. /\ Len(b) = Len(a) + Len(c)
        /\ \A j \in 1 .. Len(a) + Len(c) : b[j] = IF j <= Len(a) THEN a[j] ELSE c[j - Len(a)]
    BY <2>2, <2>3, ConcatProperties
  <2>6. Len(b) >= i
    BY <2>2, <2>3, <2>4, <2>5
  <2>7. ASSUME NEW k \in 0 .. i - 1 PROVE Begins(run[k], b)
    <3>1. Len(run[k]) <= Len(a) /\ \A j \in 1 .. Len(run[k]) : a[j] = run[k][j]
      BY <2>4 DEF Begins
    <3>2. \A j \in 1 .. Len(run[k]) : j \in 1 .. Len(a) + Len(c) /\ j <= Len(a)
      BY <2>2, <2>3, <2>a, <3>1
    <3>3. Len(run[k]) <= Len(b)
      BY <2>2, <2>3, <2>5, <2>a, <3>1
    <3> QED
      BY <2>5, <3>1, <3>2, <3>3 DEF Begins
  <2> QED
    BY <2>1, <2>6, <2>7, <2>b DEF b
<1> HIDE DEF OK
<1>5. Bad = {}
  <2> SUFFICES ASSUME Bad # {} PROVE FALSE
    OBVIOUS
  <2>1. PICK m \in Bad : \A y \in Bad : m <= y
    <3> HIDE DEF Bad
    <3> QED
      BY LeastNumber DEF Bad
  <2>2. m # 0
    BY <1>3, <2>1
  <2>3. m \in 1 .. n /\ m - 1 \in Nat /\ m - 1 <= n /\ ~ (m <= m - 1)
    BY <1>1, <2>1, <2>2
  <2> QED
    BY <1>4, <2>1, <2>3
<1>6. \A i \in 0 .. n : OK(i)
  BY <1>1, <1>5
<1> QED
  BY <1>6 DEF OK

\* A tag folds to a plain one that is not shorter.
LEMMA FoldedTyped ==
    ASSUME NEW t \in Seq(X!TagCharacters)
    PROVE  X!Folded(t) \in Seq(Plain) /\ Len(X!Folded(t)) \in Nat /\ Len(X!Folded(t)) >= Len(t)
<1>1. PICK run : FoldedBy(t, run)
  BY FoldedInTurn
<1>2. Len(t) \in Nat /\ Len(t) \in 0 .. Len(t)
  OBVIOUS
<1>3. X!Folded(t) = run[Len(t)] /\ run[Len(t)] \in Seq(Plain)
  BY <1>1, <1>2 DEF FoldedBy
<1>4. Len(run[Len(t)]) >= Len(t)
  BY <1>1, <1>2, FoldedGrows
<1> QED
  BY <1>3, <1>4, LenProperties

\* The beginning of a text folds to a beginning.
LEMMA FoldedPrefix ==
    ASSUME NEW t \in Seq(X!TagCharacters), NEW m \in 0 .. Len(t),
           NEW s \in Seq(X!TagCharacters), Len(s) = m, \A i \in 1 .. m : s[i] = t[i]
    PROVE  Begins(X!Folded(s), X!Folded(t))
<1>1. PICK run : FoldedBy(t, run)
  BY FoldedInTurn
<1>2. PICK part : FoldedBy(s, part)
  BY FoldedInTurn
<1>3. Len(t) \in Nat /\ m \in Nat /\ m <= Len(t) /\ m \in 0 .. m /\ Len(t) \in 0 .. Len(t)
  OBVIOUS
<1> DEFINE Bad == {i \in Nat : i <= m /\ part[i] # run[i]}
<1>4. Bad = {}
  <2> SUFFICES ASSUME Bad # {} PROVE FALSE
    OBVIOUS
  <2>1. PICK i \in Bad : \A y \in Bad : i <= y
    <3> HIDE DEF Bad
    <3> QED
      BY LeastNumber DEF Bad
  <2>2. i # 0
    BY <1>1, <1>2, <2>1 DEF FoldedBy
  <2>3. i \in 1 .. m /\ i \in 1 .. Len(t) /\ i - 1 \in Nat /\ i - 1 <= m /\ ~ (i <= i - 1)
    BY <1>3, <2>1, <2>2
  <2>4. part[i - 1] = run[i - 1]
    BY <2>1, <2>3
  <2>5. part[i] = part[i - 1] \o Part(s[i]) /\ run[i] = run[i - 1] \o Part(t[i])
    BY <1>1, <1>2, <2>3 DEF FoldedBy
  <2> QED
    BY <2>1, <2>3, <2>4, <2>5
<1>5. part[m] = run[m]
  BY <1>3, <1>4
<1>6. X!Folded(s) = run[m] /\ X!Folded(t) = run[Len(t)]
  BY <1>1, <1>2, <1>5 DEF FoldedBy
<1>7. Begins(run[m], run[Len(t)])
  BY <1>1, <1>3, FoldedGrows
<1> QED
  BY <1>6, <1>7

\* What is folded folds to itself.
LEMMA FoldedStays ==
    ASSUME NEW t \in Seq(Plain)
    PROVE  X!Folded(t) = t
<1>1. /\ t \in Seq(X!TagCharacters) /\ Len(t) \in Nat
      /\ \A i \in 1 .. Len(t) : t[i] \in Plain /\ Part(t[i]) = <<t[i]>>
  <2>1. \A i \in 1 .. Len(t) : t[i] \in Plain
    BY ElementOfSeq
  <2>2. Plain \subseteq X!TagCharacters
    BY DEF Plain
  <2>3. t \in Seq(X!TagCharacters)
    BY <2>2, SeqMonotonic
  <2> QED
    BY <2>1, <2>3, LenProperties DEF Plain
<1>2. PICK run : FoldedBy(t, run)
  BY <1>1, FoldedInTurn
<1> DEFINE n == Len(t)
           OK(i) == Len(run[i]) = i /\ \A j \in 1 .. i : run[i][j] = t[j]
           Bad == {i \in Nat : i <= n /\ ~ OK(i)}
<1>3. /\ \A i \in 0 .. n : run[i] \in Seq(Plain)
      /\ run[0] = <<>>
      /\ \A i \in 1 .. n : run[i] = run[i - 1] \o <<t[i]>>
      /\ X!Folded(t) = run[n]
  BY <1>1, <1>2 DEF FoldedBy
<1>4. OK(0)
  BY <1>3, EmptySeq
<1>5. ASSUME NEW i \in 1 .. n, OK(i - 1) PROVE OK(i)
  <2>1. i - 1 \in 0 .. n /\ i \in Nat
    BY <1>1
  <2>2. run[i - 1] \in Seq(Plain) /\ t[i] \in Plain /\ run[i] = run[i - 1] \o <<t[i]>>
    BY <1>1, <1>3, <2>1
  <2>3. Len(run[i - 1]) = i - 1 /\ \A j \in 1 .. i - 1 : run[i - 1][j] = t[j]
    BY <1>5
  <2>4. run[i - 1] \o <<t[i]>> = Append(run[i - 1], t[i])
    BY <2>2, AppendIsConcat
  <2>5. /\ Len(Append(run[i - 1], t[i])) = Len(run[i - 1]) + 1
        /\ \A j \in 1 .. Len(run[i - 1]) : Append(run[i - 1], t[i])[j] = run[i - 1][j]
        /\ Append(run[i - 1], t[i])[Len(run[i - 1]) + 1] = t[i]
    BY <2>2, AppendProperties
  <2>6. \A j \in 1 .. i : j = i \/ j \in 1 .. i - 1
    BY <2>1
  <2>7. Len(run[i]) = i /\ run[i][i] = t[i] /\ \A j \in 1 .. i - 1 : run[i][j] = t[j]
    BY <2>1, <2>2, <2>3, <2>4, <2>5
  <2> QED
    BY <2>6, <2>7
<1> HIDE DEF OK
<1>6. Bad = {}
  <2> SUFFICES ASSUME Bad # {} PROVE FALSE
    OBVIOUS
  <2>1. PICK m \in Bad : \A y \in Bad : m <= y
    <3> HIDE DEF Bad
    <3> QED
      BY LeastNumber DEF Bad
  <2>2. m # 0
    BY <1>4, <2>1
  <2>3. m \in 1 .. n /\ m - 1 \in Nat /\ m - 1 <= n /\ ~ (m <= m - 1)
    BY <1>1, <2>1, <2>2
  <2> QED
    BY <1>5, <2>1, <2>3
<1>7. OK(n) /\ n \in 0 .. n
  BY <1>1, <1>6
<1> QED
  BY <1>3, <1>7, SeqEqual DEF OK
-----------------------------------------------------------------------------
(* The characters that make a tag.                                         *)

\* r are the characters of a tag that follow place i, up to the first that is
\* none.
Follows(t, i, r) ==
    /\ r \in Seq(X!TagCharacters) /\ Len(r) \in 0 .. Len(t) - i
    /\ \A j \in 1 .. Len(r) : r[j] = t[i + j]
    /\ Len(r) = Len(t) - i \/ t[i + Len(r) + 1] \notin X!TagCharacters

\* Run finds them.
LEMMA RunFollows ==
    ASSUME NEW t \in Seq(X!Characters), NEW i \in 1 .. Len(t)
    PROVE  Follows(t, i, X!Run(t, i))
<1> DEFINE rest == SubSeq(t, i + 1, Len(t))
           stops == {n \in DOMAIN rest : rest[n] \notin X!TagCharacters}
           m == Len(t) - i
<1>1. Len(t) \in Nat /\ m \in Nat /\ i \in Nat /\ i + 1 \in Int /\ Len(t) \in Int
  OBVIOUS
<1>2. /\ rest \in Seq(X!Characters) /\ Len(rest) = m /\ DOMAIN rest = 1 .. m
      /\ \A j \in 1 .. m : rest[j] = t[i + j]
  <2>1. \A j \in i + 1 .. Len(t) : t[j] \in X!Characters
    <3>1. \A j \in i + 1 .. Len(t) : j \in 1 .. Len(t)
      OBVIOUS
    <3> QED
      BY <3>1, ElementOfSeq
  <2>2. /\ rest \in Seq(X!Characters)
        /\ Len(rest) = IF i + 1 <= Len(t) THEN Len(t) - (i + 1) + 1 ELSE 0
        /\ \A j \in 1 .. Len(t) - (i + 1) + 1 : rest[j] = t[i + 1 + j - 1]
    BY <1>1, <2>1, SubSeqProperties
  <2> HIDE DEF rest
  <2>3. Len(t) - (i + 1) + 1 = m /\ (~ (i + 1 <= Len(t)) => m = 0)
    BY <1>1
  <2>4. Len(rest) = m
    BY <2>2, <2>3
  <2>5. \A j \in 1 .. m : i + 1 + j - 1 = i + j
    BY <1>1
  <2> QED
    BY <2>2, <2>3, <2>4, <2>5, LenProperties
<1>3. X!Run(t, i) = IF stops = {} THEN rest ELSE SubSeq(rest, 1, X!Min(stops) - 1)
  BY DEF X!Run
<1> HIDE DEF rest
<1>4. CASE stops = {}
  <2>1. \A j \in 1 .. m : rest[j] \in X!TagCharacters
    BY <1>2, <1>4
  <2> HIDE DEF m, stops
  <2>2. rest \in Seq(X!TagCharacters)
    BY <1>1, <1>2, <2>1
  <2>3. X!Run(t, i) = rest
    BY <1>3, <1>4
  <2> QED
    BY <1>1, <1>2, <2>2, <2>3 DEF Follows, m
<1>5. CASE stops # {}
  <2>1. \E x \in stops : \A y \in stops : x <= y
    <3>1. stops \in SUBSET Nat
      BY <1>1, <1>2
    <3> HIDE DEF stops
    <3> QED
      BY <1>5, <3>1, LeastNumber
  <2> DEFINE e == X!Min(stops)
  <2>2. e \in stops /\ \A y \in stops : e <= y
    <3> HIDE DEF stops
    <3> QED
      BY <2>1 DEF X!Min
  <2> HIDE DEF e
  <2>3. e \in 1 .. m /\ rest[e] \notin X!TagCharacters
    BY <1>2, <2>2
  <2>4. \A j \in 1 .. e - 1 : j \in 1 .. m /\ rest[j] \in X!TagCharacters
    <3>1. \A j \in 1 .. e - 1 : j \in 1 .. m /\ ~ (e <= j)
      BY <1>1, <2>3
    <3> QED
      BY <1>2, <2>2, <3>1
  <2> DEFINE r == SubSeq(rest, 1, e - 1)
  <2>5. /\ r \in Seq(X!TagCharacters) /\ Len(r) = e - 1
        /\ \A j \in 1 .. e - 1 : r[j] = rest[j]
    <3> HIDE DEF m
    <3>1. e \in Int /\ e - 1 \in Int /\ 1 \in Int /\ 1 <= e
      BY <1>1, <2>3
    <3>2. /\ r \in Seq(X!TagCharacters)
          /\ Len(r) = IF 1 <= e - 1 THEN e - 1 - 1 + 1 ELSE 0
          /\ \A j \in 1 .. e - 1 - 1 + 1 : r[j] = rest[1 + j - 1]
      BY <2>4, <3>1, SubSeqProperties
    <3> HIDE DEF r
    <3>3. e - 1 - 1 + 1 = e - 1 /\ (~ (1 <= e - 1) => e - 1 = 0)
      BY <3>1
    <3>4. \A j \in 1 .. e - 1 : 1 + j - 1 = j
      BY <3>1
    <3> QED
      BY <3>2, <3>3, <3>4
  <2>6. X!Run(t, i) = r
    BY <1>3, <1>5 DEF e
  <2> HIDE DEF r, stops
  <2>7. Len(r) \in 0 .. m /\ i + Len(r) + 1 = i + e
    BY <1>1, <2>3, <2>5
  <2>8. t[i + e] \notin X!TagCharacters
    BY <1>2, <2>3
  <2>9. \A j \in 1 .. Len(r) : r[j] = t[i + j]
    BY <1>2, <2>4, <2>5
  <2> QED
    BY <2>5, <2>6, <2>7, <2>8, <2>9 DEF Follows
<1> QED
  BY <1>4, <1>5

\* A run within the beginning of a text does not change with what follows a
\* character that ends it.
LEMMA RunStays ==
    ASSUME NEW t \in Seq(X!Characters), NEW s \in Seq(X!Characters), Begins(s, t),
           Len(s) < Len(t), t[Len(s) + 1] \notin X!TagCharacters, NEW i \in 1 .. Len(s)
    PROVE  X!Run(s, i) = X!Run(t, i)
<1> DEFINE r == X!Run(s, i)  q == X!Run(t, i)
<1>1. Len(s) \in Nat /\ Len(t) \in Nat /\ i \in 1 .. Len(t)
  OBVIOUS
<1>2. Follows(s, i, r) /\ Follows(t, i, q)
  BY <1>1, RunFollows
<1>3. \A j \in 1 .. Len(s) : t[j] = s[j]
  BY DEF Begins
<1> HIDE DEF r, q
<1>4. /\ r \in Seq(X!TagCharacters) /\ Len(r) \in 0 .. Len(s) - i
      /\ q \in Seq(X!TagCharacters) /\ Len(q) \in 0 .. Len(t) - i
      /\ \A j \in 1 .. Len(r) : r[j] = s[i + j] /\ r[j] \in X!TagCharacters
      /\ \A j \in 1 .. Len(q) : q[j] = t[i + j] /\ q[j] \in X!TagCharacters
  BY <1>2, ElementOfSeq DEF Follows
<1>5. \A j \in 1 .. Len(r) : i + j \in 1 .. Len(s)
  BY <1>1, <1>4
<1>6. \A j \in 1 .. Len(r) : t[i + j] \in X!TagCharacters
  BY <1>3, <1>4, <1>5
<1>7. ~ (Len(r) < Len(q))
  <2> SUFFICES ASSUME Len(r) < Len(q) PROVE FALSE
    OBVIOUS
  <2>1. Len(r) + 1 \in 1 .. Len(q) /\ i + (Len(r) + 1) = i + Len(r) + 1
    BY <1>1, <1>4
  <2>2. t[i + Len(r) + 1] \in X!TagCharacters
    <3>1. t[i + (Len(r) + 1)] \in X!TagCharacters
      BY <1>4, <2>1
    <3> QED
      BY <2>1, <3>1
  <2>3. CASE Len(r) = Len(s) - i
    <3>1. i + Len(r) + 1 = Len(s) + 1
      BY <1>1, <2>3
    <3> QED
      BY <2>2, <3>1
  <2>4. CASE Len(r) # Len(s) - i
    <3>1. i + Len(r) + 1 \in 1 .. Len(s)
      BY <1>1, <1>4, <2>4
    <3>2. s[i + Len(r) + 1] \notin X!TagCharacters
      BY <1>2, <2>4 DEF Follows
    <3> QED
      BY <1>3, <2>2, <3>1, <3>2
  <2> QED
    BY <2>3, <2>4
<1>8. ~ (Len(q) < Len(r))
  <2> SUFFICES ASSUME Len(q) < Len(r) PROVE FALSE
    OBVIOUS
  <2>1. Len(q) + 1 \in 1 .. Len(r) /\ i + (Len(q) + 1) = i + Len(q) + 1 /\ Len(q) # Len(t) - i
    BY <1>1, <1>4
  <2>2. t[i + Len(q) + 1] \in X!TagCharacters
    <3>1. t[i + (Len(q) + 1)] \in X!TagCharacters
      BY <1>6, <2>1
    <3> QED
      BY <2>1, <3>1
  <2> QED
    BY <1>2, <2>1, <2>2 DEF Follows
<1>9. Len(r) = Len(q)
  BY <1>1, <1>4, <1>7, <1>8
<1>10. \A j \in 1 .. Len(r) : r[j] = q[j]
  BY <1>3, <1>4, <1>5, <1>9
<1>11. r = q
  BY <1>4, <1>9, <1>10, SeqEqual
<1> QED
  BY <1>11 DEF r, q

\* A text is cut to its beginning.
LEMMA CutIs ==
    ASSUME NEW C, NEW t \in Seq(C)
    PROVE  /\ X!Cut(t) \in Seq(C)
           /\ Len(X!Cut(t)) = IF Len(t) <= MaxTagLength THEN Len(t) ELSE MaxTagLength
           /\ \A j \in 1 .. Len(X!Cut(t)) : X!Cut(t)[j] = t[j]
           /\ Len(t) <= MaxTagLength => X!Cut(t) = t
<1>1. MaxTagLength \in Nat /\ Len(t) \in Nat
  BY InstancesOK DEF X!ConstantsOK
<1> DEFINE m == X!Min({MaxTagLength, Len(t)})
<1>2. m = IF Len(t) <= MaxTagLength THEN Len(t) ELSE MaxTagLength
  <2>1. \E x \in {MaxTagLength, Len(t)} : \A y \in {MaxTagLength, Len(t)} : x <= y
    BY <1>1
  <2>2. m \in {MaxTagLength, Len(t)} /\ \A y \in {MaxTagLength, Len(t)} : m <= y
    BY <2>1 DEF X!Min
  <2> HIDE DEF m
  <2> QED
    BY <1>1, <2>2
<1>3. X!Cut(t) = SubSeq(t, 1, m)
  BY DEF X!Cut
<1> HIDE DEF m
<1>4. m \in Nat /\ m <= Len(t) /\ m \in Int /\ 1 \in Int
  BY <1>1, <1>2
<1>5. \A j \in 1 .. m : t[j] \in C
  <2>1. \A j \in 1 .. m : j \in 1 .. Len(t)
    BY <1>1, <1>4
  <2> QED
    BY <2>1, ElementOfSeq
<1> DEFINE c == SubSeq(t, 1, m)
<1>6. /\ c \in Seq(C) /\ Len(c) = IF 1 <= m THEN m - 1 + 1 ELSE 0
      /\ \A j \in 1 .. m - 1 + 1 : c[j] = t[1 + j - 1]
  BY <1>4, <1>5, SubSeqProperties
<1>7. X!Cut(t) = c
  BY <1>3
<1> HIDE DEF c
<1>8. m - 1 + 1 = m /\ (~ (1 <= m) => m = 0) /\ \A j \in 1 .. m : 1 + j - 1 = j
  BY <1>4
<1>9. c \in Seq(C) /\ Len(c) = m /\ \A j \in 1 .. m : c[j] = t[j]
  BY <1>6, <1>8
<1>10. Len(t) <= MaxTagLength => c = t
  BY <1>2, <1>9, SeqEqual
<1> QED
  BY <1>2, <1>7, <1>9, <1>10
-----------------------------------------------------------------------------
(* The tags of a text, place by place.                                     *)

\* The tag that starts at place i.
TagAt(t, i) == X!Folded(X!Cut(X!Run(t, i)))

\* The loop of extract_tags over the places of a text.
TagsBy(t, limit, run) ==
    /\ run \in [0 .. Len(t) -> Seq(Seq(Plain))]
    /\ run[0] = <<>>
    /\ \A i \in 1 .. Len(t) :
          run[i] = IF X!Starts(t, i) THEN X!Collected(run[i - 1], TagAt(t, i), limit)
                   ELSE run[i - 1]
    /\ X!Tags(t, limit) = run[Len(t)]

\* It is plain.
LEMMA TagTyped ==
    ASSUME NEW t \in Seq(X!Characters), NEW i \in 1 .. Len(t)
    PROVE  TagAt(t, i) \in Seq(Plain)
<1>1. X!Run(t, i) \in Seq(X!TagCharacters)
  BY RunFollows DEF Follows
<1>2. X!Cut(X!Run(t, i)) \in Seq(X!TagCharacters)
  BY <1>1, CutIs
<1> QED
  BY <1>2, FoldedTyped DEF TagAt

\* One more tag goes to the end.
LEMMA CollectedIs ==
    ASSUME NEW C, NEW tags \in Seq(C), NEW new \in C, NEW limit
    PROVE  LET after == X!Collected(tags, new, limit)
           IN  /\ after \in Seq(C) /\ Begins(tags, after)
               /\ \/ after = tags
                  \/ /\ ~ (Len(tags) >= limit) /\ X!HasLetter(new)
                     /\ \A j \in 1 .. Len(tags) : tags[j] # new
                     /\ Len(after) = Len(tags) + 1 /\ after[Len(tags) + 1] = new
<1> DEFINE after == X!Collected(tags, new, limit)
<1>1. Len(tags) \in Nat /\ DOMAIN tags = 1 .. Len(tags)
  OBVIOUS
<1>2. CASE Len(tags) >= limit \/ ~ X!HasLetter(new) \/ new \in X!Range(tags)
  <2>1. after = tags
    BY <1>2 DEF X!Collected
  <2> QED
    BY <1>1, <2>1 DEF Begins
<1>3. CASE ~ (Len(tags) >= limit \/ ~ X!HasLetter(new) \/ new \in X!Range(tags))
  <2>1. after = Append(tags, new)
    BY <1>3 DEF X!Collected
  <2> HIDE DEF after
  <2>2. /\ after \in Seq(C) /\ Len(after) = Len(tags) + 1
        /\ \A j \in 1 .. Len(tags) : after[j] = tags[j]
        /\ after[Len(tags) + 1] = new
    BY <2>1, AppendProperties
  <2>3. Begins(tags, after)
    BY <1>1, <2>2 DEF Begins
  <2>4. \A j \in 1 .. Len(tags) : tags[j] # new
    BY <1>1, <1>3 DEF X!Range
  <2> QED
    BY <1>3, <2>2, <2>3, <2>4 DEF after
<1> QED
  BY <1>2, <1>3

\* There is such a course of the loop for every text.
LEMMA TagsInTurn ==
    ASSUME NEW t \in Seq(X!Characters), NEW limit
    PROVE  \E run : TagsBy(t, limit, run)
<1> DEFINE n == Len(t)
           A == Seq(Seq(Plain))
           take(tags, i) == IF X!Starts(t, i) THEN X!Collected(tags, TagAt(t, i), limit) ELSE tags
           st == [p \in (1 .. n) \X A |-> take(p[2], p[1])]
           places == [i \in DOMAIN t |-> i]
           Takes(g) == g = [d \in SUBSET DOMAIN places |->
                             IF d = {} THEN <<>>
                             ELSE take(g[d \ {X!Max(d)}], places[X!Max(d)])]
           fold == CHOOSE g : Takes(g)
<1>1. n \in Nat /\ DOMAIN t = 1 .. n /\ <<>> \in A
  BY EmptySeq
<1>2. X!Tags(t, limit) = fold[DOMAIN places]
  BY DEF X!Tags, X!FoldLeft, X!MapThenFoldSet, TagAt
<1>3. DOMAIN places = 1 .. n /\ \A i \in 1 .. n : places[i] = i
  BY <1>1
<1>4. ASSUME NEW tags \in A, NEW i \in 1 .. n PROVE take(tags, i) \in A
  <2>1. TagAt(t, i) \in Seq(Plain)
    BY TagTyped
  <2>2. X!Collected(tags, TagAt(t, i), limit) \in A
    BY <2>1, CollectedIs
  <2> QED
    BY <2>2
<1> HIDE DEF take, A, places
<1>5. \A k \in 1 .. n, a \in A : st[<<k, a>>] = take(a, k) /\ st[<<k, a>>] \in A
  BY <1>4
<1>6. PICK g \in [SUBSET (1 .. n) -> A] : Folds(g, n, <<>>, st)
  <2> HIDE DEF n, st
  <2> QED
    BY <1>1, <1>5, FoldOverPlaces
<1>7. \A d \in SUBSET (1 .. n) : d # {} => X!Max(d) \in 1 .. n /\ d \ {X!Max(d)} \in SUBSET (1 .. n)
  BY <1>1, LastPlace
<1>8. Takes(g)
  <2>1. \A d \in SUBSET (1 .. n) : d # {} => g[d \ {X!Max(d)}] \in A
    BY <1>6, <1>7
  <2>2. g = [d \in SUBSET (1 .. n) |-> g[d]]
    BY <1>6
  <2>3. ASSUME NEW d \in SUBSET (1 .. n), d # {}
        PROVE  st[<<X!Max(d), g[d \ {X!Max(d)}]>>] = take(g[d \ {X!Max(d)}], places[X!Max(d)])
    BY <1>3, <1>5, <1>7, <2>1, <2>3
  <2> HIDE DEF st, n
  <2>4. \A d \in SUBSET (1 .. n) :
          g[d] = IF d = {} THEN <<>> ELSE take(g[d \ {X!Max(d)}], places[X!Max(d)])
    BY <1>6, <2>3 DEF Folds
  <2> QED
    BY <1>3, <2>2, <2>4
<1>9. Takes(fold)
  BY <1>8
<1> HIDE DEF fold, st
<1>10. ASSUME NEW k \in 1 .. n PROVE fold[1 .. k] = take(fold[1 .. k - 1], k)
  <2>1. X!Max(1 .. k) = k /\ (1 .. k) \ {k} = 1 .. k - 1
    BY <1>1, LastPlace
  <2>2. 1 .. k \in SUBSET DOMAIN places /\ 1 .. k # {} /\ places[k] = k
    BY <1>1, <1>3
  <2>3. fold[1 .. k] = take(fold[(1 .. k) \ {X!Max(1 .. k)}], places[X!Max(1 .. k)])
    BY <1>9, <2>2
  <2> QED
    BY <2>1, <2>2, <2>3
<1>11. fold[1 .. 0] = <<>>
  <2>1. 1 .. 0 = {}
    OBVIOUS
  <2> QED
    BY <1>3, <1>9, <2>1
<1> DEFINE Bad == {k \in Nat : k <= n /\ fold[1 .. k] \notin A}
<1>12. Bad = {}
  <2> SUFFICES ASSUME Bad # {} PROVE FALSE
    OBVIOUS
  <2>1. PICK k \in Bad : \A y \in Bad : k <= y
    <3> HIDE DEF Bad
    <3> QED
      BY LeastNumber DEF Bad
  <2>2. k # 0
    BY <1>1, <1>11, <2>1
  <2>3. k \in 1 .. n /\ k - 1 \in Nat /\ k - 1 <= n /\ ~ (k <= k - 1)
    BY <1>1, <2>1, <2>2
  <2>4. fold[1 .. k - 1] \in A
    BY <2>1, <2>3
  <2>5. fold[1 .. k] \in A
    BY <1>4, <1>10, <2>3, <2>4
  <2> QED
    BY <2>1, <2>5
<1>13. \A k \in 0 .. n : fold[1 .. k] \in A
  BY <1>1, <1>12
<1> DEFINE run == [k \in 0 .. n |-> fold[1 .. k]]
<1>14. run \in [0 .. n -> A] /\ run[0] = <<>> /\ run[n] = X!Tags(t, limit)
  <2>1. 0 \in 0 .. n /\ n \in 0 .. n
    BY <1>1
  <2> QED
    BY <1>2, <1>3, <1>11, <1>13, <2>1
<1>15. ASSUME NEW i \in 1 .. n PROVE run[i] = take(run[i - 1], i)
  <2>1. i \in 0 .. n /\ i - 1 \in 0 .. n
    BY <1>1
  <2> QED
    BY <1>10, <2>1
<1> HIDE DEF run
<1> QED
  BY <1>14, <1>15 DEF TagsBy, take, A

\* The tags of a text are different, within the limit, and as they are stored.
LEMMA TagsSound ==
    ASSUME NEW t \in Seq(X!Characters), NEW limit \in Nat, NEW run, TagsBy(t, limit, run)
    PROVE  \A i \in 0 .. Len(t) :
              /\ Len(run[i]) <= limit
              /\ \A j \in 1 .. Len(run[i]) : X!HasLetter(run[i][j])
              /\ \A j, k \in 1 .. Len(run[i]) : run[i][j] = run[i][k] => j = k
              /\ \A k \in 0 .. i : Begins(run[k], run[i])
<1> DEFINE n == Len(t)
           Sound(tags) == /\ Len(tags) <= limit
                          /\ \A j \in 1 .. Len(tags) : X!HasLetter(tags[j])
                          /\ \A j, k \in 1 .. Len(tags) : tags[j] = tags[k] => j = k
           OK(i) == Sound(run[i]) /\ \A k \in 0 .. i : Begins(run[k], run[i])
           Bad == {i \in Nat : i <= n /\ ~ OK(i)}
<1>1. /\ n \in Nat /\ run[0] = <<>>
      /\ \A i \in 0 .. n : run[i] \in Seq(Seq(Plain)) /\ Len(run[i]) \in Nat
  <2>1. \A i \in 0 .. n : run[i] \in Seq(Seq(Plain))
    BY DEF TagsBy
  <2> QED
    BY <2>1, LenProperties DEF TagsBy
<1>2. OK(0)
  <2>1. Len(run[0]) = 0 /\ 1 .. 0 = {} /\ \A k \in 0 .. 0 : k = 0
    BY <1>1, EmptySeq
  <2>2. Sound(run[0])
    BY <2>1
  <2>3. Begins(run[0], run[0])
    BY <2>1 DEF Begins
  <2> QED
    BY <2>1, <2>2, <2>3
<1>3. ASSUME NEW i \in 1 .. n, OK(i - 1) PROVE OK(i)
  <2> DEFINE a == run[i - 1]  b == run[i]  new == TagAt(t, i)
  <2>1. i - 1 \in 0 .. n /\ i \in 0 .. n /\ \A k \in 0 .. i : k = i \/ k \in 0 .. i - 1
    BY <1>1
  <2>2. /\ a \in Seq(Seq(Plain)) /\ b \in Seq(Seq(Plain)) /\ Len(a) \in Nat /\ Len(b) \in Nat
        /\ new \in Seq(Plain)
    BY <1>1, <2>1, TagTyped
  <2>3. b = IF X!Starts(t, i) THEN X!Collected(a, new, limit) ELSE a
    BY DEF TagsBy
  <2>4. Sound(a) /\ \A k \in 0 .. i - 1 : Begins(run[k], a)
    BY <1>3
  <2>a. \A k \in 0 .. i - 1 : Len(run[k]) \in Nat
    <3>1. \A k \in 0 .. i - 1 : k \in 0 .. n
      BY <1>1
    <3> QED
      BY <1>1, <3>1
  <2> HIDE DEF a, b, new, Sound
  <2>5. /\ Begins(a, b)
        /\ \/ b = a
           \/ /\ ~ (Len(a) >= limit) /\ X!HasLetter(new)
              /\ \A j \in 1 .. Len(a) : a[j] # new
              /\ Len(b) = Len(a) + 1 /\ b[Len(a) + 1] = new
    <3>1. Begins(a, a)
      BY <2>2 DEF Begins
    <3> QED
      BY <2>2, <2>3, <3>1, CollectedIs
  <2>6. Sound(b)
    <3>1. CASE b = a
      BY <2>4, <3>1
    <3>2. CASE b # a
      <4>1. /\ ~ (Len(a) >= limit) /\ X!HasLetter(new)
            /\ \A j \in 1 .. Len(a) : a[j] # new
            /\ Len(b) = Len(a) + 1 /\ b[Len(a) + 1] = new
            /\ \A j \in 1 .. Len(a) : b[j] = a[j]
        BY <2>5, <3>2 DEF Begins
      <4>2. \A j \in 1 .. Len(b) : j = Len(a) + 1 \/ j \in 1 .. Len(a)
        BY <2>2, <4>1
      <4>3. Len(b) <= limit
        BY <2>2, <4>1
      <4>4. \A j \in 1 .. Len(b) : X!HasLetter(b[j])
        BY <2>4, <4>1, <4>2 DEF Sound
      <4>5. \A j, k \in 1 .. Len(b) : b[j] = b[k] => j = k
        BY <2>4, <4>1, <4>2 DEF Sound
      <4> QED
        BY <4>3, <4>4, <4>5 DEF Sound
    <3> QED
      BY <3>1, <3>2
  <2>7. ASSUME NEW k \in 0 .. i - 1 PROVE Begins(run[k], b)
    <3>1. Len(run[k]) <= Len(a) /\ \A j \in 1 .. Len(run[k]) : a[j] = run[k][j]
      BY <2>4 DEF Begins
    <3>2. Len(a) <= Len(b) /\ \A j \in 1 .. Len(a) : b[j] = a[j]
      BY <2>5 DEF Begins
    <3>3. Len(run[k]) <= Len(b) /\ \A j \in 1 .. Len(run[k]) : j \in 1 .. Len(a)
      BY <2>2, <2>a, <3>1, <3>2
    <3> QED
      BY <3>1, <3>2, <3>3 DEF Begins
  <2>8. Begins(b, b)
    BY <2>2 DEF Begins
  <2> QED
    BY <2>1, <2>6, <2>7, <2>8 DEF b
<1> HIDE DEF OK
<1>4. Bad = {}
  <2> SUFFICES ASSUME Bad # {} PROVE FALSE
    OBVIOUS
  <2>1. PICK m \in Bad : \A y \in Bad : m <= y
    <3> HIDE DEF Bad
    <3> QED
      BY LeastNumber DEF Bad
  <2>2. m # 0
    BY <1>2, <2>1
  <2>3. m \in 1 .. n /\ m - 1 \in Nat /\ m - 1 <= n /\ ~ (m <= m - 1)
    BY <1>1, <2>1, <2>2
  <2> QED
    BY <1>3, <2>1, <2>3
<1>5. \A i \in 0 .. n : OK(i)
  BY <1>1, <1>4
<1> QED
  BY <1>5 DEF OK, Sound

\* A beginning is a prefix.
LEMMA PrefixIs ==
    ASSUME NEW C, NEW a \in Seq(C), NEW b \in Seq(C), Begins(a, b)
    PROVE  X!IsPrefix(a, b)
<1> DEFINE n == Len(a)  s == SubSeq(a, 1, n)  t == SubSeq(b, 1, n)
<1>1. /\ n \in Nat /\ n \in Int /\ 1 \in Int /\ Len(b) \in Nat /\ n <= Len(b)
      /\ \A j \in 1 .. n : b[j] = a[j] /\ a[j] \in C
  BY DEF Begins
<1>2. /\ s \in Seq(C) /\ Len(s) = IF 1 <= n THEN n - 1 + 1 ELSE 0
      /\ \A j \in 1 .. n - 1 + 1 : s[j] = a[1 + j - 1]
  <2> HIDE DEF n
  <2> QED
    BY <1>1, SubSeqProperties
<1>3. /\ t \in Seq(C) /\ Len(t) = IF 1 <= n THEN n - 1 + 1 ELSE 0
      /\ \A j \in 1 .. n - 1 + 1 : t[j] = b[1 + j - 1]
  <2>1. \A j \in 1 .. n : b[j] \in C
    BY <1>1
  <2> HIDE DEF n
  <2> QED
    BY <1>1, <2>1, SubSeqProperties
<1> HIDE DEF s, t, n
<1>4. \A j \in 1 .. n - 1 + 1 : 1 + j - 1 \in 1 .. n
  BY <1>1
<1>5. Len(s) = Len(t) /\ \A j \in 1 .. Len(s) : j \in 1 .. n - 1 + 1
  BY <1>1, <1>2, <1>3
<1>6. \A j \in 1 .. Len(s) : s[j] = t[j]
  BY <1>1, <1>2, <1>3, <1>4, <1>5
<1>7. s = t
  BY <1>2, <1>3, <1>5, <1>6, SeqEqual
<1> QED
  BY <1>1, <1>7 DEF X!IsPrefix, s, t, n

\* The tags of a text are sound.
LEMMA TagsAreSoundLemma == X!TypeOK => X!TagsAreSound
<1> SUFFICES ASSUME X!TypeOK, NEW limit \in TagLimits
             PROVE  LET tags == X!Tags(text, limit)
                    IN  /\ X!IsInjective(tags)
                        /\ Len(tags) <= limit
                        /\ \A n \in DOMAIN tags :
                              /\ X!HasLetter(tags[n])
                              /\ X!Folded(tags[n]) = tags[n]
                              /\ X!Range(tags[n]) \subseteq X!TagCharacters
  BY DEF X!TagsAreSound
<1> DEFINE tags == X!Tags(text, limit)
<1>1. text \in Seq(X!Characters) /\ limit \in Nat
  BY InstancesOK DEF X!TypeOK, X!ConstantsOK
<1>2. PICK run : TagsBy(text, limit, run)
  BY <1>1, TagsInTurn
<1>3. Len(text) \in 0 .. Len(text)
  BY <1>1, LenProperties
<1>4. tags = run[Len(text)] /\ tags \in Seq(Seq(Plain))
  BY <1>2, <1>3 DEF TagsBy
<1>5. /\ Len(tags) <= limit
      /\ \A j \in 1 .. Len(tags) : X!HasLetter(tags[j])
      /\ \A j, k \in 1 .. Len(tags) : tags[j] = tags[k] => j = k
  BY <1>1, <1>2, <1>3, <1>4, TagsSound
<1> HIDE DEF tags
<1>6. DOMAIN tags = 1 .. Len(tags)
  BY <1>4, LenProperties
<1>7. ASSUME NEW n \in 1 .. Len(tags)
      PROVE  X!Folded(tags[n]) = tags[n] /\ X!Range(tags[n]) \subseteq X!TagCharacters
  <2>1. tags[n] \in Seq(Plain)
    BY <1>4, ElementOfSeq
  <2>2. \A j \in DOMAIN tags[n] : tags[n][j] \in Plain
    BY <2>1, ElementOfSeq, LenProperties
  <2> QED
    BY <2>1, <2>2, FoldedStays DEF X!Range, Plain
<1> QED
  BY <1>5, <1>6, <1>7 DEF X!IsInjective, tags

\* The tags of what is finished come first among the tags of a text.
LEMMA FinishedLemma == X!TypeOK => X!FinishedTagsStay
<1> SUFFICES ASSUME X!TypeOK, NEW limit \in TagLimits
             PROVE  X!IsPrefix(X!Tags(X!Settled(text), limit), X!Tags(text, limit))
  BY DEF X!FinishedTagsStay
<1> DEFINE t == text
           breaks == {n \in DOMAIN t : t[n] \notin X!TagCharacters}
           e == IF breaks = {} THEN 0 ELSE X!Max(breaks) - 1
           s == X!Settled(t)
<1>1. /\ t \in Seq(X!Characters) /\ limit \in Nat /\ Len(t) \in Nat /\ DOMAIN t = 1 .. Len(t)
      /\ Len(t) \in 0 .. Len(t)
  BY InstancesOK, LenProperties DEF X!TypeOK, X!ConstantsOK
<1>2. /\ e \in 0 .. Len(t)
      /\ e # 0 => e < Len(t) /\ t[e + 1] \notin X!TagCharacters
  <2>1. CASE breaks = {}
    BY <1>1, <2>1
  <2>2. CASE breaks # {}
    <3>1. breaks \in SUBSET (1 .. Len(t))
      BY <1>1
    <3>2. X!Max(breaks) \in breaks
      <4> HIDE DEF breaks
      <4> QED
        BY <1>1, <2>2, <3>1, LastPlace
    <3> DEFINE b == X!Max(breaks)
    <3>3. b \in 1 .. Len(t) /\ t[b] \notin X!TagCharacters /\ e = b - 1
      BY <1>1, <2>2, <3>2
    <3> HIDE DEF b, breaks, e
    <3>4. e + 1 = b /\ e \in 0 .. Len(t) /\ e < Len(t)
      BY <1>1, <3>3
    <3> QED
      BY <3>3, <3>4
  <2> QED
    BY <2>1, <2>2
<1>3. s = SubSeq(t, 1, e)
  BY DEF X!Settled
<1> HIDE DEF e, s, t
<1>4. s \in Seq(X!Characters) /\ Len(s) = e /\ \A j \in 1 .. e : t[j] = s[j]
  <2>1. \A j \in 1 .. e : t[j] \in X!Characters
    <3>1. \A j \in 1 .. e : j \in 1 .. Len(t)
      BY <1>1, <1>2
    <3> QED
      BY <1>1, <3>1, ElementOfSeq
  <2>2. e \in Int /\ 1 \in Int
    BY <1>2
  <2>3. /\ s \in Seq(X!Characters) /\ Len(s) = IF 1 <= e THEN e - 1 + 1 ELSE 0
        /\ \A j \in 1 .. e - 1 + 1 : s[j] = t[1 + j - 1]
    BY <1>3, <2>1, <2>2, SubSeqProperties
  <2>4. e - 1 + 1 = e /\ (~ (1 <= e) => e = 0) /\ \A j \in 1 .. e : 1 + j - 1 = j
    BY <1>2
  <2> QED
    BY <2>3, <2>4
<1>5. Begins(s, t)
  BY <1>1, <1>2, <1>4 DEF Begins
<1>6. PICK run : TagsBy(t, limit, run)
  BY <1>1, TagsInTurn
<1>7. PICK part : TagsBy(s, limit, part)
  BY <1>4, TagsInTurn
<1> DEFINE Bad == {i \in Nat : i <= e /\ part[i] # run[i]}
<1>8. Bad = {}
  <2> SUFFICES ASSUME Bad # {} PROVE FALSE
    OBVIOUS
  <2>1. PICK i \in Bad : \A y \in Bad : i <= y
    <3> HIDE DEF Bad
    <3> QED
      BY LeastNumber DEF Bad
  <2>2. i # 0
    BY <1>6, <1>7, <2>1 DEF TagsBy
  <2>3. /\ i \in 1 .. e /\ i \in 1 .. Len(t) /\ i \in 1 .. Len(s)
        /\ i - 1 \in Nat /\ i - 1 <= e /\ ~ (i <= i - 1) /\ e # 0
    BY <1>1, <1>2, <1>4, <2>1, <2>2
  <2>4. part[i - 1] = run[i - 1]
    BY <2>1, <2>3
  <2>5. X!Run(s, i) = X!Run(t, i)
    BY <1>1, <1>2, <1>4, <1>5, <2>3, RunStays
  <2>6. X!Starts(s, i) <=> X!Starts(t, i)
    <3>1. t[i] = s[i] /\ (i > 1 => t[i - 1] = s[i - 1])
      <4>1. i > 1 => i - 1 \in 1 .. e
        BY <1>2, <2>3
      <4> QED
        BY <1>4, <2>3, <4>1
    <3> QED
      BY <3>1 DEF X!Starts
  <2>7. part[i] = IF X!Starts(s, i) THEN X!Collected(part[i - 1], TagAt(s, i), limit)
                  ELSE part[i - 1]
    BY <1>7, <2>3 DEF TagsBy
  <2>8. run[i] = IF X!Starts(t, i) THEN X!Collected(run[i - 1], TagAt(t, i), limit)
                 ELSE run[i - 1]
    BY <1>6, <2>3 DEF TagsBy
  <2>9. TagAt(s, i) = TagAt(t, i)
    BY <2>5 DEF TagAt
  <2> QED
    BY <2>1, <2>4, <2>6, <2>7, <2>8, <2>9
<1>9. part[e] = run[e]
  BY <1>2, <1>8
<1>10. X!Tags(s, limit) = run[e] /\ X!Tags(t, limit) = run[Len(t)]
  BY <1>4, <1>6, <1>7, <1>9 DEF TagsBy
<1>11. Begins(run[e], run[Len(t)])
  BY <1>1, <1>2, <1>6, TagsSound
<1>12. run[e] \in Seq(Seq(Plain)) /\ run[Len(t)] \in Seq(Seq(Plain))
  BY <1>1, <1>2, <1>6 DEF TagsBy
<1>13. X!IsPrefix(X!Tags(s, limit), X!Tags(t, limit))
  BY <1>10, <1>11, <1>12, PrefixIs
<1> QED
  BY <1>13 DEF s, t

\* Folding the whole tag and cutting it is folding the cut tag, unless that
\* made it too long.
LEMMA FoundLemma == X!TypeOK => X!WrittenTagIsFound
<1> SUFFICES ASSUME X!TypeOK, NEW i \in DOMAIN text, Len(TagAt(text, i)) <= MaxTagLength
             PROVE  X!Looked(X!Run(text, i)) = TagAt(text, i)
  BY DEF X!WrittenTagIsFound, TagAt
<1> DEFINE r == X!Run(text, i)  c == X!Cut(r)  found == X!Folded(c)  whole == X!Folded(r)
<1>1. MaxTagLength \in Nat
  BY InstancesOK DEF X!ConstantsOK
<1>2. r \in Seq(X!TagCharacters)
  <2>1. text \in Seq(X!Characters) /\ i \in 1 .. Len(text)
    BY LenProperties DEF X!TypeOK
  <2> QED
    BY <2>1, RunFollows DEF Follows
<1>3. TagAt(text, i) = found /\ X!Looked(r) = X!Cut(whole)
  BY DEF TagAt, X!Looked
<1>4. Len(found) <= MaxTagLength
  BY <1>3
<1> HIDE DEF r
<1>5. /\ c \in Seq(X!TagCharacters)
      /\ Len(c) = IF Len(r) <= MaxTagLength THEN Len(r) ELSE MaxTagLength
      /\ \A j \in 1 .. Len(c) : c[j] = r[j]
      /\ Len(r) <= MaxTagLength => c = r
  BY <1>2, CutIs
<1> HIDE DEF c
<1>6. found \in Seq(Plain) /\ Len(found) \in Nat /\ Len(found) >= Len(c)
  BY <1>5, FoldedTyped
<1>7. whole \in Seq(Plain) /\ Len(whole) \in Nat
  BY <1>2, FoldedTyped
<1>8. CASE Len(r) <= MaxTagLength
  <2>1. whole = found
    BY <1>5, <1>8
  <2> HIDE DEF found, whole
  <2>2. X!Cut(whole) = whole
    BY <1>4, <1>7, <2>1, CutIs
  <2> QED
    BY <1>3, <2>1, <2>2 DEF r
<1>9. CASE ~ (Len(r) <= MaxTagLength)
  <2>1. Len(r) \in Nat /\ Len(c) = MaxTagLength /\ Len(c) \in 0 .. Len(r)
    <3>1. Len(r) \in Nat
      BY <1>2, LenProperties
    <3> QED
      BY <1>1, <1>5, <1>9, <3>1
  <2>2. Begins(found, whole)
    BY <1>2, <1>5, <2>1, FoldedPrefix
  <2> HIDE DEF found, whole
  <2>3. Len(found) = MaxTagLength
    BY <1>1, <1>4, <1>6, <2>1
  <2>4. MaxTagLength <= Len(whole) /\ \A j \in 1 .. MaxTagLength : whole[j] = found[j]
    BY <2>2, <2>3 DEF Begins
  <2>5. /\ X!Cut(whole) \in Seq(Plain)
        /\ Len(X!Cut(whole)) = IF Len(whole) <= MaxTagLength THEN Len(whole) ELSE MaxTagLength
        /\ \A j \in 1 .. Len(X!Cut(whole)) : X!Cut(whole)[j] = whole[j]
    BY <1>7, CutIs
  <2>6. Len(X!Cut(whole)) = MaxTagLength
    BY <1>1, <1>7, <2>4, <2>5
  <2>7. \A j \in 1 .. Len(X!Cut(whole)) : X!Cut(whole)[j] = found[j]
    BY <2>4, <2>5, <2>6
  <2>8. X!Cut(whole) = found
    BY <1>6, <2>3, <2>5, <2>6, <2>7, SeqEqual
  <2> QED
    BY <1>3, <2>8 DEF r
<1> QED
  BY <1>8, <1>9

\* Whatever text is typed, of whatever length and alphabet: its tags are
\* different, within their limit and as they are stored; a finished tag keeps
\* its place whatever is typed behind it; and a tag that folding does not make
\* too long is found as it is written (extract_tags, normalise_tag).
THEOREM TagsHoldTheorem == MCSpec => []TagsHold
<1>1. X!TypeOK => TagsHold
  BY TagsAreSoundLemma, FinishedLemma, FoundLemma DEF TagsHold, X!TagsHold
<1> QED
  BY <1>1, TextInductive, PTL

=============================================================================
