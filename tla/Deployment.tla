----------------------------- MODULE Deployment -----------------------------
(***************************************************************************)
(* A deployment over its restarts: Startup brings the database up, Roles    *)
(* answers requests while it is up, and both share the roles table.  A      *)
(* crash takes the requests in flight with it.  An account of a database    *)
(* older than users.role_slug gets the default role from the ALTER, before  *)
(* the role it names has been seeded.                                       *)
(***************************************************************************)
EXTENDS Integers

CONSTANTS
    Tables, Indexes, Additions, OnAddition, LateIndexes, RolesTable, TopicsTable,
    StoredRoles, DefaultRoles, DefaultTopics,                      \* of Startup
    Accounts, Slugs, Weights, NewSlugs, DefaultSlug, AssignWeight, Reqs,
                                                                   \* of Roles
    UsersTable, RoleColumn,  \* the users table and its column role_slug
    Bare,                    \* role_slug of an account in a table without it
    None                     \* no value

VARIABLES
    tables, columns, indexes, topics, phase, todo, missing, torn,  \* of Startup
    account, req, bar, tops,                                       \* of Roles
    role                                                           \* of both

startupVars == <<tables, columns, indexes, topics, phase, todo, missing, torn>>
rolesVars == <<account, req, bar, tops>>
vars == <<role, startupVars, rolesVars>>

S == INSTANCE Startup
R == INSTANCE Roles

HasColumn(cs) == <<UsersTable, RoleColumn>> \in cs

\* What users.role_slug may hold in the database found at first.
InitialRoles ==
    IF UsersTable \notin tables THEN {None}
    ELSE IF HasColumn(columns) THEN DOMAIN role \cup {None}
    ELSE {Bare, None}

\* What a role table may hold before a request makes a role.
OldRoles == UNION {[D -> Weights] : D \in SUBSET (Slugs \ NewSlugs)}

\* The role that everybody gets may not hand out roles.
Harmless(r) == DefaultSlug \in DOMAIN r => r[DefaultSlug] < AssignWeight

ASSUME ConstantsAssumption ==
    /\ S!ConstantsOK /\ R!ConstantsOK
    /\ StoredRoles \cup {DefaultRoles} \subseteq OldRoles
    /\ \A r \in StoredRoles \cup {DefaultRoles} : Harmless(r)
    /\ DefaultSlug \in DOMAIN DefaultRoles
    /\ <<UsersTable, RoleColumn>> \in S!ToSet(Additions)
    /\ Bare \notin Slugs \cup {None}

-----------------------------------------------------------------------------
Init ==
    /\ S!Init
    /\ account \in [Accounts -> InitialRoles]
    /\ req = [q \in Reqs |-> R!Idle]
    /\ R!Remember

\* A boot adds users.role_slug with its default and leaves accounts alone else.
Boot ==
    /\ S!Boot
    /\ account' = IF HasColumn(columns') /\ ~HasColumn(columns)
                    THEN [a \in Accounts |->
                            IF account[a] = Bare THEN DefaultSlug ELSE account[a]]
                    ELSE account
    /\ UNCHANGED <<req, bar, tops>>

Serve ==
    /\ phase = "up"
    /\ R!Next
    /\ UNCHANGED startupVars

\* The process dies with the requests it was answering.
Crash ==
    /\ S!Crash
    /\ req' = [q \in Reqs |-> R!Idle]
    /\ UNCHANGED <<account, bar, tops>>

Next == Boot \/ Serve \/ Crash

Spec == Init /\ [][Next]_vars

-----------------------------------------------------------------------------
(* Properties.                                                               *)

\* The tables and the boot hold what they may hold, and so do the handlers'
\* locals: only a server that is up has requests in flight.
TypeOK ==
    /\ S!TypeOK
    /\ phase = "up" => R!TypeOK
    /\ phase # "up" => \A q \in Reqs : req[q] = R!Idle
    /\ \A a \in Accounts : account[a] \in Slugs \cup {None, Bare}

\* Every account a server answers for has a role with a row: the weight of an
\* account is what every right is decided by.
RolesResolve == \A a \in Accounts : account[a] \in DOMAIN role \cup {None}

\* A server that answers requests is complete, and has a role for every
\* account, whatever it started from; an index that it lacks was lost in one of
\* two ways (Startup).
UpIsComplete == S!UpIsComplete /\ S!IndexGaps /\ (phase = "up" => RolesResolve)

\* No sequence of calls and restarts takes an account, or a new role, to the
\* top (Roles).
NoEscalation == R!NoEscalation

\* What was handed out stands: no boot and no request touches a role that has a
\* row (Startup), and an account at the top is moved by nobody but itself
\* (Roles).
LadderStands == S!RetunedSurvive /\ R!TopsStay

=============================================================================
