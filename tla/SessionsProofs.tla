--------------------------- MODULE SessionsProofs ---------------------------
(***************************************************************************)
(* Theorems about Sessions for any number of accounts, rows and handlers    *)
(* and any lifetimes: the type invariant, the ceiling of a family, that a   *)
(* dead family stays dead, and what the purge takes.                        *)
(***************************************************************************)
EXTENDS Sessions, TLAPS

\* What the handlers rely on between their steps: a user to issue a session
\* to, a process that went down without leaving requests behind, and families
\* named by rows that were issued.
HandlersOK ==
    /\ \A q \in Reqs : req[q].pc \in {"register", "create"} => req[q].user \in Users
    /\ ~up => \A q \in Reqs : req[q] = Idle
    /\ \A r \in DOMAIN sess : sess[r].family \in issued

\* The inductive invariant of the type correctness proof.
TInv == TypeOK /\ HandlersOK

-----------------------------------------------------------------------------
(* Rows and requests.                                                        *)

\* An idle request is a request.
LEMMA IdleRequest == Idle \in Request /\ Idle.pc = "idle"
BY DEF Idle, Request, Stages

\* A login's row is a row.
LEMMA NewRowType ==
    ASSUME NEW u \in Users, NEW f \in Rows, NEW t \in Int
    PROVE  NewRow(u, f, t) \in SessionRow
BY TTLAssumption DEF NewRow, SessionRow

\* A rotation's row is a row of the same family, owner and ceiling, and its
\* refresh window ends within that ceiling.
LEMMA RotatedRowType ==
    ASSUME NEW s \in SessionRow, NEW t \in Int
    PROVE  /\ RotatedRow(s, t) \in SessionRow
           /\ RotatedRow(s, t).family = s.family
           /\ RotatedRow(s, t).user = s.user
           /\ RotatedRow(s, t).familyExp = s.familyExp
           /\ RotatedRow(s, t).refreshExp <= s.familyExp
<1> DEFINE exp == Earlier(t + RefreshTTL, s.familyExp)
<1>1. s.familyExp \in Int /\ exp \in Int /\ exp <= s.familyExp /\ t + AccessTTL \in Int
  BY TTLAssumption DEF SessionRow, Earlier
<1> HIDE DEF exp
<1>2. RotatedRow(s, t) =
        [s EXCEPT !.accessExp = t + AccessTTL, !.refreshExp = exp,
                  !.revoked = FALSE, !.rotated = FALSE]
  BY DEF RotatedRow, exp
<1> QED
  BY <1>1, <1>2 DEF SessionRow

\* Retiring a row changes its two marks only.
LEMMA RetiredType ==
    ASSUME NEW s \in SessionRow
    PROVE  /\ Retired(s) \in SessionRow
           /\ Retired(s).revoked
           /\ Retired(s).family = s.family
           /\ Retired(s).user = s.user
           /\ Retired(s).familyExp = s.familyExp
           /\ Retired(s).refreshExp = s.refreshExp
BY DEF Retired, SessionRow

\* So does revoking one.
LEMMA RevokedType ==
    ASSUME NEW s \in SessionRow
    PROVE  /\ [s EXCEPT !.revoked = TRUE] \in SessionRow
           /\ [s EXCEPT !.revoked = TRUE].revoked
           /\ [s EXCEPT !.revoked = TRUE].family = s.family
           /\ [s EXCEPT !.revoked = TRUE].user = s.user
           /\ [s EXCEPT !.revoked = TRUE].familyExp = s.familyExp
           /\ [s EXCEPT !.revoked = TRUE].refreshExp = s.refreshExp
BY DEF SessionRow

\* Revoking a family keeps every row, with its family, owner and times.
LEMMA FamilyRevokedType ==
    ASSUME sess \in [DOMAIN sess -> SessionRow], NEW f
    PROVE  /\ DOMAIN FamilyRevoked(f) = DOMAIN sess
           /\ FamilyRevoked(f) \in [DOMAIN sess -> SessionRow]
           /\ \A r \in DOMAIN sess :
                 /\ FamilyRevoked(f)[r].family = sess[r].family
                 /\ FamilyRevoked(f)[r].user = sess[r].user
                 /\ FamilyRevoked(f)[r].familyExp = sess[r].familyExp
                 /\ FamilyRevoked(f)[r].refreshExp = sess[r].refreshExp
                 /\ sess[r].revoked => FamilyRevoked(f)[r].revoked
BY RevokedType DEF FamilyRevoked, Family

-----------------------------------------------------------------------------
(* Type correctness.                                                         *)

\* Init establishes the invariant.
LEMMA TypeInit == Init => TInv
BY TTLAssumption, IdleRequest DEF Init, TInv, TypeOK, HandlersOK, Idle

\* Every step preserves it.
LEMMA TypeStep == TInv /\ [Next]_vars => TInv'
<1> SUFFICES ASSUME TInv, [Next]_vars PROVE TInv'
  OBVIOUS
<1> USE DEF TInv
<1>1. ASSUME NEW q \in Reqs, NEW u \in Users, RegisterRead(q, u) PROVE TInv'
  BY <1>1 DEF RegisterRead, Goes, Starts, TypeOK, HandlersOK, Idle, Request, Stages
<1>2. ASSUME NEW q \in Reqs, NEW u \in Users, Login(q, u) PROVE TInv'
  BY <1>2 DEF Login, Goes, Starts, TypeOK, HandlersOK, Idle, Request, Stages
<1>3. ASSUME NEW q \in Reqs, NEW r \in Rows, RefreshRead(q, r) PROVE TInv'
  <2>1. /\ Goes(q, "revoke", NoUser, r, 0) \/ Goes(q, "rotateUser", NoUser, r, clock)
        /\ r \in DOMAIN sess /\ clock \in Int
    BY <1>3 DEF RefreshRead, TypeOK
  <2> QED
    BY <1>3, <2>1 DEF RefreshRead, Goes, Starts, TypeOK, HandlersOK, Idle, Request, Stages
<1>4. ASSUME NEW q \in Reqs, NEW r \in Rows, LogoutRead(q, r) PROVE TInv'
  BY <1>4 DEF LogoutRead, Goes, Starts, TypeOK, HandlersOK, Idle, Request, Stages
<1>5. ASSUME NEW q \in Reqs, RegisterCommit(q) PROVE TInv'
  BY <1>5 DEF RegisterCommit, At, Ends, TypeOK, HandlersOK, Idle, Request, Stages
<1>6. ASSUME NEW q \in Reqs, NEW r \in Rows, CreateSession(q, r) PROVE TInv'
  <2>1. /\ NewRow(req[q].user, r, clock) \in SessionRow
        /\ NewRow(req[q].user, r, clock).family = r
    BY <1>6, NewRowType DEF CreateSession, At, TypeOK, HandlersOK, NewRow
  <2>2. /\ DOMAIN sess' = DOMAIN sess \cup {r}
        /\ sess' \in [DOMAIN sess' -> SessionRow]
        /\ \A x \in DOMAIN sess' : sess'[x].family \in issued'
    BY <1>6, <2>1 DEF CreateSession, TypeOK, HandlersOK
  <2>3. req' \in [Reqs -> Request] /\ req'[q] = Idle
        /\ \A p \in Reqs \ {q} : req'[p] = req[p]
    BY <1>6, IdleRequest DEF CreateSession, Ends, TypeOK
  <2> QED
    BY <1>6, <2>2, <2>3, IdleRequest DEF CreateSession, At, TypeOK, HandlersOK
<1>7. ASSUME NEW q \in Reqs, RefreshUser(q) PROVE TInv'
  BY <1>7 DEF RefreshUser, At, Ends, TypeOK, HandlersOK, Idle, Request, Stages
<1>8. ASSUME NEW q \in Reqs, NEW r \in Rows, RotateCommit(q, r) PROVE TInv'
  <2> DEFINE old == req[q].tok
  <2>1. old \in DOMAIN sess /\ sess[old] \in SessionRow /\ req[q].at \in Int
    BY <1>8 DEF RotateCommit, At, TypeOK, Request
  <2>2. /\ RotatedRow(sess[old], req[q].at) \in SessionRow
        /\ RotatedRow(sess[old], req[q].at).family = sess[old].family
        /\ Retired(sess[old]) \in SessionRow
        /\ Retired(sess[old]).family = sess[old].family
    BY <2>1, RotatedRowType, RetiredType
  <2>3. /\ DOMAIN sess' = DOMAIN sess \cup {r}
        /\ sess' \in [DOMAIN sess' -> SessionRow]
        /\ \A x \in DOMAIN sess' : sess'[x].family \in issued'
    BY <1>8, <2>1, <2>2 DEF RotateCommit, TypeOK, HandlersOK
  <2>4. req' \in [Reqs -> Request] /\ req'[q] = Idle
        /\ \A p \in Reqs \ {q} : req'[p] = req[p]
    BY <1>8, IdleRequest DEF RotateCommit, Ends, TypeOK
  <2> QED
    BY <1>8, <2>3, <2>4, IdleRequest DEF RotateCommit, At, TypeOK, HandlersOK
<1>9. ASSUME NEW q \in Reqs, RevokeFamily(q) PROVE TInv'
  <2>1. /\ DOMAIN sess' = DOMAIN sess
        /\ sess' \in [DOMAIN sess' -> SessionRow]
        /\ \A x \in DOMAIN sess' : sess'[x].family = sess[x].family
    BY <1>9, FamilyRevokedType DEF RevokeFamily, TypeOK
  <2>2. req' \in [Reqs -> Request] /\ req'[q] = Idle
        /\ \A p \in Reqs \ {q} : req'[p] = req[p]
    BY <1>9, IdleRequest DEF RevokeFamily, Ends, TypeOK
  <2> QED
    BY <1>9, <2>1, <2>2, IdleRequest DEF RevokeFamily, At, TypeOK, HandlersOK
<1>10. ASSUME NEW u \in Users, SetActive(u) PROVE TInv'
  BY <1>10 DEF SetActive, TypeOK, HandlersOK
<1>11. CASE Tick
  BY <1>11, TTLAssumption DEF Tick, TypeOK, HandlersOK
<1>12. CASE Crash
  BY <1>12, IdleRequest DEF Crash, TypeOK, HandlersOK
<1>13. CASE Boot
  BY <1>13, IdleRequest DEF Boot, TypeOK, HandlersOK
<1>14. CASE UNCHANGED vars
  BY <1>14 DEF vars, TypeOK, HandlersOK
<1> QED
  BY <1>1, <1>2, <1>3, <1>4, <1>5, <1>6, <1>7, <1>8, <1>9, <1>10, <1>11, <1>12,
     <1>13, <1>14
  DEF Next, Arrive, Step

\* The type invariant holds for every value of the constants.
THEOREM TypeCorrect == Spec => []TInv
BY TypeInit, TypeStep, PTL DEF Spec

\* In particular TypeOK.
THEOREM TypeInvariant == Spec => []TypeOK
BY TypeCorrect, PTL DEF TInv

-----------------------------------------------------------------------------
(* The ceiling of a family.                                                  *)

\* A table in which the rows of a family share owner and ceiling, and no
\* refresh window ends beyond it.
Ceiling(S) ==
    /\ \A r, s \in DOMAIN S : S[r].family = S[s].family =>
          S[r].user = S[s].user /\ S[r].familyExp = S[s].familyExp
    /\ \A r \in DOMAIN S : S[r].refreshExp <= S[r].familyExp

\* Rewriting rows in place keeps the ceiling when families, owners and times
\* stay; so does forgetting rows.
LEMMA CeilingKept ==
    ASSUME NEW S, NEW T, Ceiling(S), DOMAIN T \subseteq DOMAIN S,
           \A r \in DOMAIN T : /\ T[r].family = S[r].family
                               /\ T[r].user = S[r].user
                               /\ T[r].familyExp = S[r].familyExp
                               /\ T[r].refreshExp = S[r].refreshExp
    PROVE  Ceiling(T)
BY DEF Ceiling

\* A login opens a family of its own: its name was never issued before.
LEMMA CeilingCreate ==
    ASSUME TInv, FamilyCeiling, NEW q \in Reqs, NEW r \in Rows, CreateSession(q, r)
    PROVE  FamilyCeiling'
<1> DEFINE new == NewRow(req[q].user, r, clock)
<1>1. new.family = r /\ new.refreshExp <= new.familyExp
  BY TTLAssumption DEF NewRow, TInv, TypeOK
<1> HIDE DEF new
<1>2. /\ DOMAIN sess' = DOMAIN sess \cup {r}
      /\ \A x \in DOMAIN sess' : sess'[x] = IF x = r THEN new ELSE sess[x]
  BY DEF CreateSession, new
<1>3. r \notin DOMAIN sess /\ \A x \in DOMAIN sess : sess[x].family # r
  BY DEF TInv, TypeOK, HandlersOK, CreateSession
<1> QED
  BY <1>1, <1>2, <1>3 DEF FamilyCeiling

\* A rotation chains a row of the same family, under the same ceiling.
LEMMA CeilingRotate ==
    ASSUME TInv, FamilyCeiling, NEW q \in Reqs, NEW r \in Rows, RotateCommit(q, r)
    PROVE  FamilyCeiling'
<1> DEFINE old == req[q].tok
           new == RotatedRow(sess[old], req[q].at)
           ret == Retired(sess[old])
<1>1. old \in DOMAIN sess /\ sess[old] \in SessionRow /\ req[q].at \in Int
  BY DEF RotateCommit, At, TInv, TypeOK, Request
<1>2. /\ new.family = sess[old].family
      /\ new.user = sess[old].user
      /\ new.familyExp = sess[old].familyExp
      /\ new.refreshExp <= new.familyExp
      /\ ret.family = sess[old].family
      /\ ret.user = sess[old].user
      /\ ret.familyExp = sess[old].familyExp
      /\ ret.refreshExp = sess[old].refreshExp
  BY <1>1, RotatedRowType, RetiredType
<1>3. /\ DOMAIN sess' = DOMAIN sess \cup {r}
      /\ \A x \in DOMAIN sess' :
            sess'[x] = IF x = r THEN new ELSE IF x = old THEN ret ELSE sess[x]
  BY DEF RotateCommit
<1> HIDE DEF new, ret, old
<1>4. r \notin DOMAIN sess
  BY DEF TInv, TypeOK, RotateCommit
<1> QED
  BY <1>1, <1>2, <1>3, <1>4 DEF FamilyCeiling

\* Every step keeps the ceiling of every family.
LEMMA CeilingStep == TInv /\ FamilyCeiling /\ [Next]_vars => FamilyCeiling'
<1> SUFFICES ASSUME TInv, FamilyCeiling, [Next]_vars PROVE FamilyCeiling'
  OBVIOUS
<1>1. ASSUME NEW q \in Reqs, NEW r \in Rows, CreateSession(q, r) PROVE FamilyCeiling'
  BY <1>1, CeilingCreate
<1>2. ASSUME NEW q \in Reqs, NEW r \in Rows, RotateCommit(q, r) PROVE FamilyCeiling'
  BY <1>2, CeilingRotate
<1>3. ASSUME NEW q \in Reqs, RevokeFamily(q) PROVE FamilyCeiling'
  <2>1. Ceiling(sess)
    BY DEF Ceiling, FamilyCeiling
  <2>2. Ceiling(sess')
    BY <1>3, <2>1, FamilyRevokedType, CeilingKept DEF RevokeFamily, TInv, TypeOK
  <2> QED
    BY <2>2 DEF Ceiling, FamilyCeiling
<1>4. CASE Boot
  BY <1>4 DEF Boot, FamilyCeiling
<1>5. CASE UNCHANGED sess
  BY <1>5 DEF FamilyCeiling
<1> QED
  BY <1>1, <1>2, <1>3, <1>4, <1>5
  DEF Next, Arrive, Step, RegisterRead, Login, RefreshRead, LogoutRead,
      RegisterCommit, RefreshUser, SetActive, Tick, Crash, vars

\* All rows of a login share owner and ceiling, and no refresh window outlives
\* that ceiling: rotate_session never extends a login.
THEOREM CeilingInvariant == Spec => []FamilyCeiling
<1>1. Init => FamilyCeiling
  BY DEF Init, FamilyCeiling
<1> QED
  BY <1>1, TypeCorrect, CeilingStep, PTL DEF Spec

-----------------------------------------------------------------------------
(* The purge.                                                                *)

\* Only the boot's purge removes rows.
LEMMA OnlyBootRemoves ==
    ASSUME TInv, [Next]_vars, ~Boot
    PROVE  DOMAIN sess \subseteq DOMAIN sess'
<1>1. ASSUME NEW q \in Reqs, RevokeFamily(q) PROVE DOMAIN sess \subseteq DOMAIN sess'
  BY <1>1 DEF RevokeFamily, FamilyRevoked
<1>2. ASSUME NEW q \in Reqs, NEW r \in Rows, CreateSession(q, r)
      PROVE  DOMAIN sess \subseteq DOMAIN sess'
  BY <1>2 DEF CreateSession
<1>3. ASSUME NEW q \in Reqs, NEW r \in Rows, RotateCommit(q, r)
      PROVE  DOMAIN sess \subseteq DOMAIN sess'
  BY <1>3 DEF RotateCommit
<1> QED
  BY <1>1, <1>2, <1>3
  DEF Next, Arrive, Step, RegisterRead, Login, RefreshRead, LogoutRead,
      RegisterCommit, RefreshUser, SetActive, Tick, Crash, vars

\* Whatever purge_expired deletes goes family by family, and nothing of such a
\* family could still be exchanged or admit a request.
THEOREM PurgeTheorem == Spec => PurgeTakesSpentFamilies
<1> DEFINE Whole ==
      \A r \in DOMAIN sess \ DOMAIN sess' :
          /\ Family(sess[r].family) \cap DOMAIN sess' = {}
          /\ ~RefreshTokenValid(sess[r], clock)
          /\ ~Admitted(sess[r], clock)
<1>1. TInv /\ FamilyCeiling /\ [Next]_vars => [Whole]_vars
  <2> SUFFICES ASSUME TInv, FamilyCeiling, Boot PROVE Whole
    BY OnlyBootRemoves DEF Whole
  <2> TAKE r \in DOMAIN sess \ DOMAIN sess'
  <2>1. DOMAIN sess' = DOMAIN sess \ Purged(clock)
    BY DEF Boot
  <2>2. r \in DOMAIN sess /\ sess[r].familyExp < clock
    BY <2>1 DEF Purged
  <2>3. clock \in Int /\ sess[r].familyExp \in Int
    BY <2>2 DEF TInv, TypeOK, SessionRow
  <2>4. ~RefreshTokenValid(sess[r], clock) /\ ~Admitted(sess[r], clock)
    BY <2>2, <2>3 DEF RefreshTokenValid, Admitted
  <2>5. \A s \in DOMAIN sess : sess[s].family = sess[r].family => s \in Purged(clock)
    BY <2>2 DEF FamilyCeiling, Purged
  <2> QED
    BY <2>1, <2>4, <2>5 DEF Family
<1> QED
  BY <1>1, TypeCorrect, CeilingInvariant, PTL DEF Spec, PurgeTakesSpentFamilies

-----------------------------------------------------------------------------
(* A dead family stays dead.                                                 *)

Exchanging == {"rotateUser", "rotate"}

\* What a step must not do to a dead family: add a row, unrevoke one, or let a
\* handler set out to exchange one.
LEMMA DeadKept ==
    ASSUME NEW f \in Rows, Dead(f), issued \subseteq issued',
           \A x \in DOMAIN sess' : sess'[x].family = f =>
               /\ x \in DOMAIN sess /\ sess[x].family = f
               /\ sess[x].revoked => sess'[x].revoked,
           \A q \in Reqs : req'[q].pc \in Exchanging /\ req'[q].tok \in Family(f) =>
               req[q].pc \in Exchanging /\ req[q].tok = req'[q].tok
    PROVE  Dead(f)'
BY DEF Dead, AllRevoked, Live, Family, Rotating, Exchanging

\* A handler that sets out to exchange a row found it unrevoked.
LEMMA DeadRefreshRead ==
    ASSUME TInv, NEW f \in Rows, Dead(f),
           NEW q \in Reqs, NEW r \in Rows, RefreshRead(q, r)
    PROVE  Dead(f)'
<1>1. r \in Family(f) => ~RefreshTokenValid(sess[r], clock)
  BY DEF Dead, AllRevoked, Live, Family, RefreshTokenValid
<1>2. req'[q].pc \in Exchanging => req'[q].tok \notin Family(f)
  BY <1>1 DEF RefreshRead, Goes, Exchanging, TInv, TypeOK
<1>3. /\ \A p \in Reqs \ {q} : req'[p] = req[p]
      /\ sess' = sess /\ issued' = issued
  BY DEF RefreshRead, Goes, TInv, TypeOK
<1> QED
  BY <1>2, <1>3, DeadKept

\* A new login is another family.
LEMMA DeadCreate ==
    ASSUME TInv, NEW f \in Rows, Dead(f),
           NEW q \in Reqs, NEW r \in Rows, CreateSession(q, r)
    PROVE  Dead(f)'
<1>1. /\ DOMAIN sess' = DOMAIN sess \cup {r}
      /\ sess'[r].family = r
      /\ \A x \in DOMAIN sess \ {r} : sess'[x] = sess[x]
  BY DEF CreateSession, NewRow
<1>2. f # r
  BY DEF Dead, AllRevoked, CreateSession
<1>3. /\ req'[q].pc = "idle"
      /\ \A p \in Reqs \ {q} : req'[p] = req[p]
      /\ issued \subseteq issued'
  BY DEF CreateSession, Ends, Idle, TInv, TypeOK
<1> QED
  BY <1>1, <1>2, <1>3, DeadKept DEF Exchanging

\* A rotation in flight belongs to another family, and so does its new row.
LEMMA DeadRotate ==
    ASSUME TInv, NEW f \in Rows, Dead(f),
           NEW q \in Reqs, NEW r \in Rows, RotateCommit(q, r)
    PROVE  Dead(f)'
<1> DEFINE old == req[q].tok
           new == RotatedRow(sess[old], req[q].at)
           ret == Retired(sess[old])
<1>1. old \in DOMAIN sess /\ sess[old] \in SessionRow /\ req[q].at \in Int
  BY DEF RotateCommit, At, TInv, TypeOK, Request
<1>2. sess[old].family # f
  BY <1>1 DEF Dead, Rotating, Family, RotateCommit, At
<1>3. new.family # f /\ ret.family # f
  BY <1>1, <1>2, RotatedRowType, RetiredType
<1>4. /\ DOMAIN sess' = DOMAIN sess \cup {r}
      /\ \A x \in DOMAIN sess' :
            sess'[x] = IF x = r THEN new ELSE IF x = old THEN ret ELSE sess[x]
  BY DEF RotateCommit
<1> HIDE DEF new, ret, old
<1>5. /\ req'[q].pc = "idle"
      /\ \A p \in Reqs \ {q} : req'[p] = req[p]
      /\ issued \subseteq issued'
  BY DEF RotateCommit, Ends, Idle, TInv, TypeOK
<1> QED
  BY <1>3, <1>4, <1>5, DeadKept DEF Exchanging

\* No step revives a dead family.
LEMMA DeadStep ==
    ASSUME TInv, [Next]_vars, NEW f \in Rows, Dead(f)
    PROVE  Dead(f)'
<1>1. ASSUME NEW q \in Reqs, NEW r \in Rows, RefreshRead(q, r) PROVE Dead(f)'
  BY <1>1, DeadRefreshRead
<1>2. ASSUME NEW q \in Reqs, NEW r \in Rows, CreateSession(q, r) PROVE Dead(f)'
  BY <1>2, DeadCreate
<1>3. ASSUME NEW q \in Reqs, NEW r \in Rows, RotateCommit(q, r) PROVE Dead(f)'
  BY <1>3, DeadRotate
<1>4. ASSUME NEW q \in Reqs, RevokeFamily(q) PROVE Dead(f)'
  <2>1. /\ DOMAIN sess' = DOMAIN sess
        /\ \A x \in DOMAIN sess' : /\ sess'[x].family = sess[x].family
                                   /\ sess[x].revoked => sess'[x].revoked
    BY <1>4, FamilyRevokedType DEF RevokeFamily, TInv, TypeOK
  <2>2. /\ req'[q].pc = "idle"
        /\ \A p \in Reqs \ {q} : req'[p] = req[p]
        /\ issued' = issued
    BY <1>4 DEF RevokeFamily, Ends, Idle, TInv, TypeOK
  <2> QED
    BY <2>1, <2>2, DeadKept DEF Exchanging
<1>5. ASSUME NEW q \in Reqs, NEW u \in Users, RegisterRead(q, u) \/ Login(q, u)
      PROVE  Dead(f)'
  BY <1>5, DeadKept DEF RegisterRead, Login, Goes, Exchanging, TInv, TypeOK
<1>6. ASSUME NEW q \in Reqs, NEW r \in Rows, LogoutRead(q, r) PROVE Dead(f)'
  BY <1>6, DeadKept DEF LogoutRead, Goes, Exchanging, TInv, TypeOK
<1>7. ASSUME NEW q \in Reqs, RegisterCommit(q) PROVE Dead(f)'
  BY <1>7, DeadKept DEF RegisterCommit, Ends, Idle, Exchanging, TInv, TypeOK, Request
<1>8. ASSUME NEW q \in Reqs, RefreshUser(q) PROVE Dead(f)'
  BY <1>8, DeadKept DEF RefreshUser, At, Ends, Idle, Exchanging, TInv, TypeOK, Request
<1>9. CASE Crash
  BY <1>9, DeadKept DEF Crash, Idle, Exchanging
<1>10. CASE Boot
  BY <1>10, DeadKept DEF Boot
<1>11. CASE UNCHANGED <<sess, issued, req>>
  BY <1>11, DeadKept
<1> QED
  BY <1>1, <1>2, <1>3, <1>4, <1>5, <1>6, <1>7, <1>8, <1>9, <1>10, <1>11
  DEF Next, Arrive, Step, SetActive, Tick, vars

\* Once every row of a login is revoked and none of its rotations is in flight,
\* no request, crash or purge ever gives it a usable row again.
THEOREM DeadStays == Spec => DeadStaysDead
<1>1. TInv /\ [Next]_vars => [\A f \in Rows : Dead(f) => Dead(f)']_vars
  BY DeadStep
<1> QED
  BY <1>1, TypeCorrect, PTL DEF Spec, DeadStaysDead

-----------------------------------------------------------------------------
(* Sessions implements LoginFamilies.                                        *)

AbsVars == <<issued, LiveRows, Grants>>

AbsStep == Families!Next \/ UNCHANGED AbsVars

\* Handlers that neither start nor end an exchange leave the grants alone.
LEMMA GrantsKept ==
    ASSUME \A q \in Reqs :
               /\ req'[q].pc \in Exchanging <=> req[q].pc \in Exchanging
               /\ req[q].pc \in Exchanging =>
                     /\ req'[q].tok = req[q].tok
                     /\ sess'[req[q].tok].family = sess[req[q].tok].family
    PROVE  Grants' = Grants
BY DEF Grants, Exchanging

\* Steps that touch neither the rows nor an exchange are stutters.
LEMMA QuietStep ==
    ASSUME TInv, UNCHANGED <<sess, issued>>, NEW q \in Reqs,
           \A p \in Reqs \ {q} : req'[p] = req[p],
           req[q].pc \notin Exchanging, req'[q].pc \notin Exchanging
    PROVE  AbsStep
<1>1. Grants' = Grants
  BY GrantsKept
<1>2. LiveRows' = LiveRows
  BY DEF LiveRows, Live, Family
<1> QED
  BY <1>1, <1>2 DEF AbsStep, AbsVars

\* create_session opens a family.
LEMMA CreateOpens ==
    ASSUME TInv, NEW q \in Reqs, NEW r \in Rows, CreateSession(q, r)
    PROVE  AbsStep
<1> DEFINE new == NewRow(req[q].user, r, clock)
<1>1. new.family = r /\ ~new.revoked
  BY DEF NewRow
<1> HIDE DEF new
<1>2. /\ DOMAIN sess' = DOMAIN sess \cup {r}
      /\ \A x \in DOMAIN sess' : sess'[x] = IF x = r THEN new ELSE sess[x]
      /\ issued' = issued \cup {r} /\ r \notin issued
  BY DEF CreateSession, new
<1>3. r \notin DOMAIN sess /\ \A x \in DOMAIN sess : sess[x].family # r
  BY DEF TInv, TypeOK, HandlersOK, CreateSession
<1>4. \A f \in Rows : Live(f)' = IF f = r THEN {r} ELSE Live(f)
  BY <1>1, <1>2, <1>3 DEF Live, Family
<1>5. LiveRows' = [LiveRows EXCEPT ![r] = {r}]
  BY <1>4 DEF LiveRows
<1>6. /\ \A p \in Reqs \ {q} : req'[p] = req[p]
      /\ req'[q].pc \notin Exchanging /\ req[q].pc \notin Exchanging
      /\ \A p \in Reqs : req[p].pc \in Exchanging => req[p].tok \in DOMAIN sess
  BY DEF CreateSession, At, Ends, Idle, Exchanging, TInv, TypeOK
<1>7. Grants' = Grants
  BY <1>2, <1>3, <1>6, GrantsKept
<1> QED
  BY <1>2, <1>5, <1>7 DEF AbsStep, Families!Next, Families!Open

\* rotate_session, having found a row unrevoked, holds a grant.
LEMMA RefreshGrants ==
    ASSUME TInv, NEW q \in Reqs, NEW r \in Rows, RefreshRead(q, r)
    PROVE  AbsStep
<1>1. /\ r \in DOMAIN sess /\ sess[r].family \in Rows
      /\ req[q].pc = "idle"
      /\ UNCHANGED <<sess, issued>>
      /\ \A p \in Reqs \ {q} : req'[p] = req[p]
  BY DEF RefreshRead, Goes, Starts, Idle, TInv, TypeOK, SessionRow
<1>2. CASE Goes(q, "revoke", NoUser, r, 0)
  <2>1. req'[q].pc = "revoke"
    BY <1>2 DEF Goes, TInv, TypeOK
  <2> QED
    BY <1>1, <2>1, QuietStep DEF Exchanging
<1>3. CASE RefreshTokenValid(sess[r], clock) /\ Goes(q, "rotateUser", NoUser, r, clock)
  <2>1. req'[q].pc = "rotateUser" /\ req'[q].tok = r
    BY <1>3 DEF Goes, TInv, TypeOK
  <2>2. r \in LiveRows[sess[r].family]
    BY <1>1, <1>3 DEF LiveRows, Live, Family, RefreshTokenValid
  <2>3. Grants' = [Grants EXCEPT ![q] = <<sess[r].family, r>>]
    BY <1>1, <2>1 DEF Grants
  <2>4. LiveRows' = LiveRows
    BY <1>1 DEF LiveRows, Live, Family
  <2> QED
    BY <1>1, <2>2, <2>3, <2>4 DEF AbsStep, Families!Next, Families!Grant
<1> QED
  BY <1>2, <1>3 DEF RefreshRead

\* A rotation refused for its account's sake gives its grant up.
LEMMA RefusalLapses ==
    ASSUME TInv, NEW q \in Reqs, RefreshUser(q)
    PROVE  AbsStep
<1>1. /\ UNCHANGED <<sess, issued>>
      /\ req[q].pc = "rotateUser"
      /\ \A p \in Reqs \ {q} : req'[p] = req[p]
  BY DEF RefreshUser, At, Ends, TInv, TypeOK
<1>2. LiveRows' = LiveRows
  BY <1>1 DEF LiveRows, Live, Family
<1>3. CASE req'[q].pc = "rotate" /\ req'[q].tok = req[q].tok
  <2>1. Grants' = Grants
    BY <1>1, <1>3, GrantsKept DEF Exchanging
  <2> QED
    BY <1>1, <1>2, <2>1 DEF AbsStep, AbsVars
<1>4. CASE req'[q].pc = "idle"
  <2>1. Grants' = [c \in Reqs |-> IF c \in {q} THEN NoRow ELSE Grants[c]]
    BY <1>1, <1>4 DEF Grants
  <2> QED
    BY <1>1, <1>2, <2>1 DEF AbsStep, Families!Next, Families!Lapse
<1> QED
  BY <1>3, <1>4 DEF RefreshUser, At, Ends, Idle, TInv, TypeOK, Request

\* The commit of a rotation spends its grant for one new row.
LEMMA RotateExchanges ==
    ASSUME TInv, NEW q \in Reqs, NEW r \in Rows, RotateCommit(q, r)
    PROVE  AbsStep
<1> DEFINE old == req[q].tok
           new == RotatedRow(sess[old], req[q].at)
           ret == Retired(sess[old])
           fam == sess[old].family
<1>1. /\ old \in DOMAIN sess /\ sess[old] \in SessionRow /\ req[q].at \in Int
      /\ old \in Rows /\ fam \in Rows
  BY DEF RotateCommit, At, TInv, TypeOK, Request, SessionRow
<1>2. new.family = fam /\ ret.family = fam /\ ret.revoked
  BY <1>1, RotatedRowType, RetiredType
<1>3. ~new.revoked
  BY <1>1 DEF RotatedRow, SessionRow
<1>4. /\ DOMAIN sess' = DOMAIN sess \cup {r}
      /\ \A x \in DOMAIN sess' :
            sess'[x] = IF x = r THEN new ELSE IF x = old THEN ret ELSE sess[x]
      /\ issued' = issued \cup {r} /\ r \notin issued
  BY DEF RotateCommit
<1>5. /\ req'[q].pc = "idle" /\ req[q].pc = "rotate"
      /\ \A p \in Reqs \ {q} : req'[p] = req[p]
      /\ \A p \in Reqs : req[p].pc \in {"rotateUser", "rotate"} => req[p].tok \in DOMAIN sess
  BY DEF RotateCommit, At, Ends, Idle, TInv, TypeOK
<1>6. r \notin DOMAIN sess
  BY <1>4 DEF TInv, TypeOK
<1>7. Grants[q] = <<fam, old>>
  BY <1>5 DEF Grants
<1> HIDE DEF new, ret, old, fam
<1>8. \A f \in Rows : Live(f)' = IF f = fam THEN (Live(f) \ {old}) \cup {r} ELSE Live(f)
  <2>1. sess[old].family = fam
    BY DEF fam
  <2> QED
    BY <1>1, <1>2, <1>3, <1>4, <1>6, <2>1 DEF Live, Family
<1>9. LiveRows' = [LiveRows EXCEPT ![fam] = (@ \ {old}) \cup {r}]
  BY <1>8 DEF LiveRows
<1>10. \A p \in Reqs : req[p].pc \in {"rotateUser", "rotate"} =>
          sess'[req[p].tok].family = sess[req[p].tok].family
  <2>1. sess[old].family = fam
    BY DEF fam
  <2> QED
    BY <1>2, <1>4, <1>5, <1>6, <2>1
<1>11. Grants' = [Grants EXCEPT ![q] = NoRow]
  BY <1>5, <1>10 DEF Grants
<1> QED
  BY <1>1, <1>4, <1>7, <1>9, <1>11 DEF AbsStep, Families!Next, Families!Exchange

\* revoke_family closes the family.
LEMMA RevokeCloses ==
    ASSUME TInv, NEW q \in Reqs, RevokeFamily(q)
    PROVE  AbsStep
<1> DEFINE fam == sess[req[q].tok].family
<1>1. /\ DOMAIN sess' = DOMAIN sess
      /\ \A x \in DOMAIN sess : sess'[x].family = sess[x].family
      /\ fam \in Rows
  BY FamilyRevokedType DEF RevokeFamily, At, TInv, TypeOK, SessionRow
<1>2. \A x \in DOMAIN sess : sess'[x].revoked <=> (sess[x].revoked \/ sess[x].family = fam)
  <2>1. ASSUME NEW x \in DOMAIN sess, sess[x].family = fam PROVE sess'[x].revoked = TRUE
    BY <2>1, RevokedType DEF RevokeFamily, FamilyRevoked, Family, TInv, TypeOK
  <2>2. ASSUME NEW x \in DOMAIN sess, sess[x].family # fam PROVE sess'[x] = sess[x]
    BY <2>2 DEF RevokeFamily, FamilyRevoked, Family
  <2> QED
    BY <2>1, <2>2
<1>3. /\ req'[q].pc \notin Exchanging /\ req[q].pc \notin Exchanging
      /\ \A p \in Reqs \ {q} : req'[p] = req[p]
      /\ \A p \in Reqs : req[p].pc \in Exchanging => req[p].tok \in DOMAIN sess
      /\ issued' = issued
  BY DEF RevokeFamily, At, Ends, Idle, Exchanging, TInv, TypeOK
<1> HIDE DEF fam
<1>4. Grants' = Grants
  BY <1>1, <1>3, GrantsKept
<1>5. LiveRows' = [f \in Rows |-> IF f \in {fam} THEN {} ELSE LiveRows[f]]
  BY <1>1, <1>2 DEF LiveRows, Live, Family
<1> QED
  BY <1>1, <1>3, <1>4, <1>5 DEF AbsStep, Families!Next, Families!Close

\* The purge closes the families it takes.
LEMMA PurgeCloses ==
    ASSUME TInv, FamilyCeiling, Boot
    PROVE  AbsStep
<1> DEFINE F == {f \in Rows : \E r \in Purged(clock) : sess[r].family = f}
<1>1. /\ DOMAIN sess' = DOMAIN sess \ Purged(clock)
      /\ \A x \in DOMAIN sess' : sess'[x] = sess[x]
      /\ UNCHANGED <<issued, req>>
      /\ \A p \in Reqs : req[p].pc \notin Exchanging
  BY DEF Boot, TInv, HandlersOK, Idle, Exchanging
<1>2. \A x, y \in DOMAIN sess :
         x \in Purged(clock) /\ sess[x].family = sess[y].family => y \in Purged(clock)
  BY DEF FamilyCeiling, Purged
<1>3. Purged(clock) \subseteq DOMAIN sess
  BY DEF Purged
<1>4. LiveRows' = [f \in Rows |-> IF f \in F THEN {} ELSE LiveRows[f]]
  BY <1>1, <1>2, <1>3 DEF LiveRows, Live, Family
<1>5. Grants' = Grants
  BY <1>1, GrantsKept
<1>6. F \in SUBSET Rows
  OBVIOUS
<1> QED
  BY <1>1, <1>4, <1>5, <1>6 DEF AbsStep, Families!Next, Families!Close

\* A crash takes every grant.
LEMMA CrashLapses ==
    ASSUME TInv, Crash
    PROVE  AbsStep
<1>1. UNCHANGED <<sess, issued>> /\ \A q \in Reqs : req'[q].pc = "idle"
  BY DEF Crash, Idle
<1>2. LiveRows' = LiveRows
  BY <1>1 DEF LiveRows, Live, Family
<1>3. Grants' = [c \in Reqs |-> IF c \in Reqs THEN NoRow ELSE Grants[c]]
  BY <1>1 DEF Grants
<1>4. Reqs \in SUBSET Reqs
  OBVIOUS
<1> QED
  BY <1>1, <1>2, <1>3, <1>4 DEF AbsStep, Families!Next, Families!Lapse

\* Every step of Sessions is a step of LoginFamilies or a stutter.
LEMMA RefinementStep == TInv /\ FamilyCeiling /\ [Next]_vars => AbsStep
<1> SUFFICES ASSUME TInv, FamilyCeiling, [Next]_vars PROVE AbsStep
  OBVIOUS
<1>1. ASSUME NEW q \in Reqs, NEW u \in Users, RegisterRead(q, u) \/ Login(q, u)
      PROVE  AbsStep
  BY <1>1, QuietStep DEF RegisterRead, Login, Goes, Starts, Idle, Exchanging, TInv, TypeOK
<1>2. ASSUME NEW q \in Reqs, NEW r \in Rows, LogoutRead(q, r) PROVE AbsStep
  BY <1>2, QuietStep DEF LogoutRead, Goes, Starts, Idle, Exchanging, TInv, TypeOK
<1>3. ASSUME NEW q \in Reqs, RegisterCommit(q) PROVE AbsStep
  BY <1>3, QuietStep
  DEF RegisterCommit, At, Ends, Idle, Exchanging, TInv, TypeOK, Request
<1>4. ASSUME NEW q \in Reqs, NEW r \in Rows, RefreshRead(q, r) PROVE AbsStep
  BY <1>4, RefreshGrants
<1>5. ASSUME NEW q \in Reqs, NEW r \in Rows, CreateSession(q, r) PROVE AbsStep
  BY <1>5, CreateOpens
<1>6. ASSUME NEW q \in Reqs, RefreshUser(q) PROVE AbsStep
  BY <1>6, RefusalLapses
<1>7. ASSUME NEW q \in Reqs, NEW r \in Rows, RotateCommit(q, r) PROVE AbsStep
  BY <1>7, RotateExchanges
<1>8. ASSUME NEW q \in Reqs, RevokeFamily(q) PROVE AbsStep
  BY <1>8, RevokeCloses
<1>9. CASE Boot
  BY <1>9, PurgeCloses
<1>10. CASE Crash
  BY <1>10, CrashLapses
<1>11. CASE UNCHANGED <<sess, issued, req>>
  BY <1>11 DEF AbsStep, AbsVars, LiveRows, Live, Family, Grants
<1> QED
  BY <1>1, <1>2, <1>3, <1>4, <1>5, <1>6, <1>7, <1>8, <1>9, <1>10, <1>11
  DEF Next, Arrive, Step, SetActive, Tick, vars

\* The tables and handlers of the session layer implement the abstract login
\* families, with any number of overlapping requests.
THEOREM Refinement == Spec => ImplementsFamilies
<1>1. Init => Families!Init
  BY DEF Init, Families!Init, LiveRows, Live, Family, Grants, Idle
<1>2. TInv /\ FamilyCeiling /\ [Next]_vars => [Families!Next]_AbsVars
  BY RefinementStep DEF AbsStep
<1> QED
  BY <1>1, <1>2, TypeCorrect, CeilingInvariant, PTL
  DEF Spec, ImplementsFamilies, Families!Spec, AbsVars

=============================================================================
