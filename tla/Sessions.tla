------------------------------ MODULE Sessions ------------------------------
(***************************************************************************)
(* Bearer-token sessions: app/sessions.py, the AuthSession table of         *)
(* app/models.py, the handlers of app/routers/auth.py that drive them and   *)
(* the purge that app/main.py runs on boot.                                 *)
(*                                                                          *)
(* A request slot (an element of Reqs) runs one handler at a time.  Every   *)
(* await between two database statements is a point where another request   *)
(* may run, so a handler is one action per read and one action for its      *)
(* write transaction.  A branch that answers an error without touching the  *)
(* database changes nothing and is the absence of a step: the guards of the *)
(* actions below are the conditions under which the code goes on.           *)
(***************************************************************************)
EXTENDS Integers, FiniteSets

CONSTANTS
    Users,             \* e-mail addresses that may register
    Rows,              \* ids of auth_sessions rows; a row stands for its two tokens
    Reqs,              \* request slots: how many handlers may be in flight at once
    NoUser, NoRow,     \* "no value" of a request's fields
    AccessTTL,         \* access_token_ttl_minutes
    RefreshTTL,        \* refresh_token_ttl_days
    FamilyTTL,         \* session_absolute_ttl_days
    MaxTime,           \* bound: the last instant of the modelled clock
    TurnstileEnabled,  \* settings.turnstile_enabled
    SecretSet          \* settings.turnstile_secret is not empty

ASSUME TTLAssumption ==
    /\ AccessTTL \in Nat /\ RefreshTTL \in Nat /\ FamilyTTL \in Nat
    /\ RefreshTTL <= FamilyTTL
    /\ MaxTime \in Nat

ASSUME NoneAssumption == NoUser \notin Users /\ NoRow \notin Rows

ASSUME FlagAssumption == TurnstileEnabled \in BOOLEAN /\ SecretSet \in BOOLEAN

VARIABLES
    clock,    \* what utcnow() returns
    account,  \* the users table: "none" (no such row), "active" or "inactive"
    sess,     \* the auth_sessions table: a function whose domain is its rows
    issued,   \* row ids ever generated; a 256-bit token never comes up twice
    req,      \* what each request slot is doing
    up        \* the server process is running

vars == <<clock, account, sess, issued, req, up>>

(***************************************************************************)
(* A row of auth_sessions.  family_id is a random string of its own; it is  *)
(* named here by the row that the login created.  revoked_at and rotated_at *)
(* are only ever compared with None.                                        *)
(***************************************************************************)
SessionRow ==
    [user: Users, family: Rows, accessExp: Int, refreshExp: Int, familyExp: Int,
     revoked: BOOLEAN, rotated: BOOLEAN]

Stages == {"idle", "register", "create", "rotateUser", "rotate", "revoke"}

\* A handler's locals: the account, the token it presented, the instant it
\* captured as "now".
Request == [pc: Stages, user: Users \cup {NoUser}, tok: Rows \cup {NoRow}, at: Int]

Idle == [pc |-> "idle", user |-> NoUser, tok |-> NoRow, at |-> 0]

Family(f) == {r \in DOMAIN sess : sess[r].family = f}

-----------------------------------------------------------------------------
(* Validity tests of the AuthSession model.                                 *)

AccessTokenValid(s, t) == ~s.revoked /\ s.accessExp > t

\* Mutant of RefreshTokenValid: an explicit logout is forgotten.
RefreshIgnoresRevoked(s, t) == ~s.rotated /\ s.refreshExp > t /\ s.familyExp > t

RefreshTokenValid(s, t) ==
    /\ ~s.revoked
    /\ ~s.rotated
    /\ s.refreshExp > t
    /\ s.familyExp > t

(* resolve_access_token guards every authenticated endpoint and only reads:  *)
(* the token's own test, the family ceiling, and an active account.          *)
Admitted(s, t) ==
    /\ AccessTokenValid(s, t)
    /\ s.familyExp > t
    /\ account[s.user] = "active"

-----------------------------------------------------------------------------
(* What the write transactions store.                                       *)

NewRow(u, f, t) ==
    [user |-> u, family |-> f,
     accessExp |-> t + AccessTTL, refreshExp |-> t + RefreshTTL,
     familyExp |-> t + FamilyTTL, revoked |-> FALSE, rotated |-> FALSE]

Earlier(a, b) == IF a <= b THEN a ELSE b

\* Mutant of RotatedRow: the ceiling slides along with the refresh window.
CeilingSlides(s, t) ==
    [s EXCEPT !.accessExp = t + AccessTTL, !.refreshExp = t + RefreshTTL,
              !.familyExp = t + FamilyTTL, !.revoked = FALSE, !.rotated = FALSE]

\* The row that a rotation of s at time t chains into the family.
RotatedRow(s, t) ==
    [s EXCEPT !.accessExp = t + AccessTTL,
              !.refreshExp = Earlier(t + RefreshTTL, s.familyExp),
              !.revoked = FALSE, !.rotated = FALSE]

\* Mutant of Retired: the presented row stays unrevoked.
RetiredOnlyMarked(s) == [s EXCEPT !.rotated = TRUE]

\* The presented row, retired.
Retired(s) == [s EXCEPT !.rotated = TRUE, !.revoked = TRUE]

\* Mutant of FamilyRevoked: WHERE id = f instead of WHERE family_id = f.
OnlyRootRevoked(f) ==
    [r \in DOMAIN sess |-> IF r = f THEN [sess[r] EXCEPT !.revoked = TRUE] ELSE sess[r]]

\* revoke_family's UPDATE ... WHERE family_id = f AND revoked_at IS NULL.
FamilyRevoked(f) ==
    [r \in DOMAIN sess |->
        IF r \in Family(f) THEN [sess[r] EXCEPT !.revoked = TRUE] ELSE sess[r]]

\* Mutant of Purged: rows go by their own refresh expiry.
PurgedByRefresh(t) == {r \in DOMAIN sess : sess[r].refreshExp < t}

\* purge_expired's DELETE ... WHERE family_expires_at < cutoff.
Purged(t) == {r \in DOMAIN sess : sess[r].familyExp < t}

-----------------------------------------------------------------------------
(* verify_turnstile: true only for a parsed body whose success is true.      *)

SiteverifyOutcomes == {"success", "rejected", "malformed", "unreachable"}

Verified(outcome) == ~TurnstileEnabled \/ (SecretSet /\ outcome = "success")

-----------------------------------------------------------------------------
Init ==
    /\ clock = 0
    /\ account = [u \in Users |-> "none"]
    /\ sess = [r \in {} |-> 0]
    /\ issued = {}
    /\ req = [q \in Reqs |-> Idle]
    /\ up = TRUE

Starts(q) == up /\ req[q] = Idle
Goes(q, pc, u, r, t) ==
    req' = [req EXCEPT ![q] = [pc |-> pc, user |-> u, tok |-> r, at |-> t]]
At(q, stage) == up /\ req[q].pc = stage
Ends(q) == req' = [req EXCEPT ![q] = Idle]

(* register: the challenge and the look-up of the address ...                *)
RegisterRead(q, u) ==
    /\ Starts(q)
    /\ \E outcome \in SiteverifyOutcomes : Verified(outcome)
    /\ account[u] = "none"
    /\ Goes(q, "register", u, NoRow, 0)
    /\ UNCHANGED <<clock, account, sess, issued, up>>

(* ... then the INSERT of the user, which the unique address refuses when    *)
(* another registration came first.                                          *)
RegisterCommit(q) ==
    /\ At(q, "register")
    /\ IF account[req[q].user] = "none"
         THEN /\ account' = [account EXCEPT ![req[q].user] = "active"]
              /\ req' = [req EXCEPT ![q].pc = "create"]
         ELSE /\ Ends(q)
              /\ UNCHANGED account
    /\ UNCHANGED <<clock, sess, issued, up>>

(* login: the challenge, the look-up and the password; an upgrade of the     *)
(* hash, when one is due, touches nothing modelled here.                     *)
Login(q, u) ==
    /\ Starts(q)
    /\ \E outcome \in SiteverifyOutcomes : Verified(outcome)
    /\ account[u] = "active"
    /\ Goes(q, "create", u, NoRow, 0)
    /\ UNCHANGED <<clock, account, sess, issued, up>>

(* create_session.  The bound: a login starts only when its ceiling falls    *)
(* within the modelled clock.                                                *)
CreateSession(q, r) ==
    /\ At(q, "create")
    /\ r \notin issued
    /\ clock + FamilyTTL <= MaxTime
    /\ sess' = [x \in DOMAIN sess \cup {r} |->
                  IF x = r THEN NewRow(req[q].user, r, clock) ELSE sess[x]]
    /\ issued' = issued \cup {r}
    /\ Ends(q)
    /\ UNCHANGED <<clock, account, up>>

(* rotate_session reads the presented row: a row already rotated is a        *)
(* replay, a valid one goes on, anything else is refused.                    *)
RefreshRead(q, r) ==
    /\ Starts(q)
    /\ r \in DOMAIN sess
    /\ \/ /\ sess[r].rotated
          /\ Goes(q, "revoke", NoUser, r, 0)
       \/ /\ ~sess[r].rotated
          /\ RefreshTokenValid(sess[r], clock)
          /\ Goes(q, "rotateUser", NoUser, r, clock)
    /\ UNCHANGED <<clock, account, sess, issued, up>>

(* ... then the account: refused unless it is active.                        *)
RefreshUser(q) ==
    /\ At(q, "rotateUser")
    /\ IF account[sess[req[q].tok].user] = "active"
         THEN req' = [req EXCEPT ![q].pc = "rotate"]
         ELSE Ends(q)
    /\ UNCHANGED <<clock, account, sess, issued, up>>

(* ... then retires the row it read and chains a new one, in one commit.     *)
RotateCommit(q, r) ==
    /\ At(q, "rotate")
    /\ r \notin issued
    /\ LET old == req[q].tok
       IN  sess' = [x \in DOMAIN sess \cup {r} |->
                      IF x = r THEN RotatedRow(sess[old], req[q].at)
                      ELSE IF x = old THEN Retired(sess[old])
                      ELSE sess[x]]
    /\ issued' = issued \cup {r}
    /\ Ends(q)
    /\ UNCHANGED <<clock, account, up>>

(* logout: whoever presents the access token of a row that exists, valid or  *)
(* not, signs its family out.                                                *)
LogoutRead(q, r) ==
    /\ Starts(q)
    /\ r \in DOMAIN sess
    /\ Goes(q, "revoke", NoUser, r, 0)
    /\ UNCHANGED <<clock, account, sess, issued, up>>

(* revoke_family, for a logout or for a replay.                              *)
RevokeFamily(q) ==
    /\ At(q, "revoke")
    /\ sess' = FamilyRevoked(sess[req[q].tok].family)
    /\ Ends(q)
    /\ UNCHANGED <<clock, account, issued, up>>

(* An operator flips is_active in the database: no endpoint does.            *)
SetActive(u) ==
    /\ account[u] # "none"
    /\ account' = [account EXCEPT ![u] = IF @ = "active" THEN "inactive" ELSE "active"]
    /\ UNCHANGED <<clock, sess, issued, req, up>>

Tick ==
    /\ clock < MaxTime
    /\ clock' = clock + 1
    /\ UNCHANGED <<account, sess, issued, req, up>>

(* The process dies: what was not committed is lost.                         *)
Crash ==
    /\ up
    /\ up' = FALSE
    /\ req' = [q \in Reqs |-> Idle]
    /\ UNCHANGED <<clock, account, sess, issued>>

\* Mutant of Boot: the purge also runs beside the requests.
PurgeAnytime ==
    /\ up' = TRUE
    /\ sess' = [r \in DOMAIN sess \ Purged(clock) |-> sess[r]]
    /\ UNCHANGED <<clock, account, issued, req>>

(* lifespan: purge_expired runs before the first request is served.          *)
Boot ==
    /\ ~up
    /\ up' = TRUE
    /\ sess' = [r \in DOMAIN sess \ Purged(clock) |-> sess[r]]
    /\ UNCHANGED <<clock, account, issued, req>>

Step(q) ==
    \/ RegisterCommit(q)
    \/ \E r \in Rows : CreateSession(q, r)
    \/ RefreshUser(q)
    \/ \E r \in Rows : RotateCommit(q, r)
    \/ RevokeFamily(q)

Arrive(q) ==
    \/ \E u \in Users : RegisterRead(q, u) \/ Login(q, u)
    \/ \E r \in Rows : RefreshRead(q, r) \/ LogoutRead(q, r)

Next ==
    \/ \E q \in Reqs : Arrive(q) \/ Step(q)
    \/ \E u \in Users : SetActive(u)
    \/ Tick
    \/ Crash
    \/ Boot

Spec == Init /\ [][Next]_vars

(* Handlers in flight run on: the event loop starves no task.  Time passes.  *)
(* Clients, operators, crashes and restarts owe nothing.                     *)
Fairness == WF_vars(Tick) /\ \A q \in Reqs : WF_vars(Step(q))

FairSpec == Spec /\ Fairness

-----------------------------------------------------------------------------
(* Properties.                                                               *)

\* The variables hold what the tables and the handlers' locals may hold, and
\* a row that a handler has loaded does not vanish under it.
TypeOK ==
    /\ clock \in 0..MaxTime
    /\ account \in [Users -> {"none", "active", "inactive"}]
    /\ issued \subseteq Rows
    /\ DOMAIN sess \subseteq issued
    /\ sess \in [DOMAIN sess -> SessionRow]
    /\ req \in [Reqs -> Request]
    /\ \A q \in Reqs : req[q].pc \in {"rotateUser", "rotate", "revoke"} =>
                        req[q].tok \in DOMAIN sess
    /\ up \in BOOLEAN

\* All rows of one login belong to one account and expire together, and no
\* refresh token outlives that ceiling however often it was rotated.
FamilyCeiling ==
    /\ \A r, s \in DOMAIN sess :
          sess[r].family = sess[s].family =>
              /\ sess[r].user = sess[s].user
              /\ sess[r].familyExp = sess[s].familyExp
    /\ \A r \in DOMAIN sess : sess[r].refreshExp <= sess[r].familyExp

Live(f) == {r \in Family(f) : ~sess[r].revoked}

AllRevoked(f) == f \in issued /\ Live(f) = {}

Rotating(f) ==
    \E q \in Reqs : /\ req[q].pc \in {"rotateUser", "rotate"}
                    /\ req[q].tok \in Family(f)

\* A signed-out family none of whose rotations is still in flight.
Dead(f) == AllRevoked(f) /\ ~Rotating(f)

\* Whatever is presented afterwards, in whatever order handlers, crashes and
\* purges interleave, a dead family never gets a usable row again.
DeadStaysDead == [][\A f \in Rows : Dead(f) => Dead(f)']_vars

\* What the tables and the handlers in flight look like to LoginFamilies.
LiveRows == [f \in Rows |-> Live(f)]
Grants ==
    [q \in Reqs |-> IF req[q].pc \in {"rotateUser", "rotate"}
                    THEN <<sess[req[q].tok].family, req[q].tok>>
                    ELSE NoRow]

Families == INSTANCE LoginFamilies WITH
    Tokens <- Rows, Clients <- Reqs, None <- NoRow,
    issued <- issued, live <- LiveRows, grant <- Grants

\* The session layer keeps the promise of LoginFamilies whatever overlaps:
\* every row beyond a login's first comes from one rotation that found its
\* predecessor unrevoked.
ImplementsFamilies == Families!Spec

\* The purge removes a family as a whole or not at all, and never one whose
\* access or refresh token could still be used.
PurgeTakesSpentFamilies ==
    [][\A r \in DOMAIN sess \ DOMAIN sess' :
          /\ Family(sess[r].family) \cap DOMAIN sess' = {}
          /\ ~RefreshTokenValid(sess[r], clock)
          /\ ~Admitted(sess[r], clock)]_vars

\* "Logout and reuse detection take effect immediately": once every row of a
\* family is revoked it stays so.
RevocationSticks == [][\A f \in Rows : AllRevoked(f) => AllRevoked(f)']_vars

\* A replayed refresh token (and a logout) ends with its whole family revoked
\* unless the process dies first.
ReplayEndsFamily ==
    \A q \in Reqs, f \in Rows :
        (At(q, "revoke") /\ req[q].tok \in Family(f)) ~> (AllRevoked(f) \/ ~up)

Spent(f) ==
    \A r \in Family(f) :
        ~RefreshTokenValid(sess[r], clock) /\ ~Admitted(sess[r], clock)

\* "A session cannot be extended indefinitely by refreshing": every login
\* reaches a point after which none of its tokens is ever accepted again.
SessionsEnd == \A f \in Rows : (f \in issued) ~> []Spent(f)

=============================================================================
