------------------------------- MODULE Roles -------------------------------
(***************************************************************************)
(* The role ladder: create_role and assign_role of app/routers/roles.py,    *)
(* the guard of app/deps.py in front of them and the role a registration    *)
(* gives, over the roles table and users.role_slug.  Rights are weights;    *)
(* "nobody promotes themselves or a peer past themselves".                  *)
(***************************************************************************)
EXTENDS Integers

CONSTANTS
    Accounts,
    Slugs,         \* role slugs
    Weights,       \* weights a role may have
    NewSlugs,      \* the slugs callers make roles under
    DefaultSlug,   \* DEFAULT_ROLE_SLUG
    AssignWeight,  \* what "roles.assign" costs
    Reqs,          \* request slots
    None           \* no value

\* RoleCreate admits the weights 0 to 1000.
ConstantsOK ==
    /\ Weights \subseteq 0..1000
    /\ AssignWeight \in Nat
    /\ NewSlugs \subseteq Slugs
    /\ None \notin Slugs \cup Accounts

VARIABLES
    role,     \* the roles table: a function from slugs to weights
    account,  \* role_slug of each account, None while it does not exist
    req,      \* what each request slot is doing
    bar,      \* history: the heaviest weight held at first, or AssignWeight
    tops      \* history: the accounts that held it

vars == <<role, account, req, bar, tops>>

\* A handler's locals: the manager and the role it was loaded with, the target
\* and its role, the role to grant or make and the weight to make it with.
Idle == [pc |-> "idle", manager |-> None, held |-> None, target |-> None,
         had |-> None, slug |-> None, weight |-> 0]

Request ==
    [pc: {"idle", "admitted", "create", "target", "assign"},
     manager: Accounts \cup {None}, held: Slugs \cup {None},
     target: Accounts \cup {None}, had: Slugs \cup {None},
     slug: Slugs \cup {None}, weight: Weights \cup {0}]

\* User.role_weight.
Weight(a) == IF account[a] \in DOMAIN role THEN role[account[a]] ELSE 0

\* What the history variables remember of the initial ladder.
Remember ==
    /\ bar = LET held == {Weight(a) : a \in Accounts} \cup {AssignWeight}
             IN  CHOOSE w \in held : \A v \in held : v <= w
    /\ tops = {a \in Accounts : Weight(a) = bar}

-----------------------------------------------------------------------------
Init ==
    /\ role \in UNION {[S -> Weights] : S \in SUBSET (Slugs \ NewSlugs)}
    /\ DefaultSlug \in DOMAIN role
    /\ role[DefaultSlug] < AssignWeight
    /\ account \in [Accounts -> DOMAIN role \cup {None}]
    /\ req = [q \in Reqs |-> Idle]
    /\ Remember

Ends(q) == req' = [req EXCEPT ![q] = Idle]

(* register: a new account starts with the default role, which a foreign key *)
(* wants to exist.                                                           *)
Register(a) ==
    /\ account[a] = None
    /\ DefaultSlug \in DOMAIN role
    /\ account' = [account EXCEPT ![a] = DefaultSlug]
    /\ UNCHANGED <<role, req, bar, tops>>

(* require_capability("roles.assign"): load the caller with their role.      *)
Admit(q, a) ==
    /\ req[q] = Idle
    /\ Weight(a) >= AssignWeight
    /\ req' = [req EXCEPT ![q] =
                 [Idle EXCEPT !.pc = "admitted", !.manager = a, !.held = account[a]]]
    /\ UNCHANGED <<role, account, bar, tops>>

\* create_role: the new role must be lighter than its maker.
Creatable(w, held) == w < role[held]

(* create_role: look for the slug, compare the weights ...                   *)
CreateLook(q, s, w) ==
    /\ req[q].pc = "admitted"
    /\ IF s \notin DOMAIN role /\ Creatable(w, req[q].held)
         THEN req' = [req EXCEPT ![q].pc = "create", ![q].slug = s, ![q].weight = w]
         ELSE Ends(q)
    /\ UNCHANGED <<role, account, bar, tops>>

(* ... then insert the row, refused when the slug was taken meanwhile.       *)
CreateCommit(q) ==
    /\ req[q].pc = "create"
    /\ role' = [s \in DOMAIN role \cup {req[q].slug} |->
                  IF s \in DOMAIN role THEN role[s] ELSE req[q].weight]
    /\ Ends(q)
    /\ UNCHANGED <<account, bar, tops>>

(* assign_role: load the target; the caller themselves is not loaded again.  *)
AssignTarget(q, t) ==
    /\ req[q].pc = "admitted"
    /\ IF account[t] # None
         THEN req' = [req EXCEPT
                        ![q].pc = "target", ![q].target = t,
                        ![q].had = IF t = req[q].manager THEN req[q].held ELSE account[t]]
         ELSE Ends(q)
    /\ UNCHANGED <<role, account, bar, tops>>

\* Mutant of Changeable: a peer may be changed.
PeersChangeable(r) == role[r.had] <= role[r.held] \/ r.target = r.manager

\* The target must be lighter than the manager, or the manager.
Changeable(r) == role[r.had] < role[r.held] \/ r.target = r.manager

\* Mutant of Grantable: one's own level may be granted.
GrantableAtLevel(s, held) == role[s] <= role[held]

\* The granted role must be lighter than the manager.
Grantable(s, held) == role[s] < role[held]

(* ... load the role, compare the weights as they were loaded ...            *)
AssignRole(q, s) ==
    /\ req[q].pc = "target"
    /\ IF s \in DOMAIN role /\ Changeable(req[q]) /\ Grantable(s, req[q].held)
         THEN req' = [req EXCEPT ![q].pc = "assign", ![q].slug = s]
         ELSE Ends(q)
    /\ UNCHANGED <<role, account, bar, tops>>

(* ... then write the slug, unless the target was loaded with it.            *)
AssignCommit(q) ==
    /\ req[q].pc = "assign"
    /\ account' = IF req[q].slug = req[q].had THEN account
                  ELSE [account EXCEPT ![req[q].target] = req[q].slug]
    /\ Ends(q)
    /\ UNCHANGED <<role, bar, tops>>

Next ==
    \/ \E a \in Accounts : Register(a)
    \/ \E q \in Reqs :
          \/ \E a \in Accounts : Admit(q, a) \/ AssignTarget(q, a)
          \/ \E s \in NewSlugs, w \in Weights : CreateLook(q, s, w)
          \/ CreateCommit(q)
          \/ \E s \in Slugs : AssignRole(q, s)
          \/ AssignCommit(q)

Spec == Init /\ [][Next]_vars

-----------------------------------------------------------------------------
(* Properties.                                                               *)

\* The variables hold what the tables and the handlers' locals may hold, and
\* what a handler has loaded keeps its row.
TypeOK ==
    /\ DOMAIN role \subseteq Slugs
    /\ role \in [DOMAIN role -> Weights]
    /\ account \in [Accounts -> DOMAIN role \cup {None}]
    /\ req \in [Reqs -> Request]
    /\ \A q \in Reqs :
          /\ req[q].pc # "idle" => req[q].held \in DOMAIN role
          /\ req[q].pc \in {"target", "assign"} => req[q].had \in DOMAIN role
          /\ req[q].pc = "assign" => req[q].slug \in DOMAIN role

\* No sequence of calls, racing or not, takes an account to the heaviest weight
\* that was held at first: who is that heavy was so from the beginning.
\* Nor does the ladder grow a rung at that height.
NoEscalation ==
    /\ \A a \in Accounts : Weight(a) >= bar => a \in tops
    /\ \A s \in NewSlugs \cap DOMAIN role : role[s] < bar

\* "Admins cannot demote each other": an account at the top is moved by nobody
\* but itself, not even by a request that loaded it before.
TopsStay ==
    [][\A a \in tops :
          Weight(a) >= bar /\ account'[a] # account[a] =>
              \E q \in Reqs : req[q].pc = "assign" /\ req[q].manager = a
                              /\ req[q].target = a /\ req'[q] = Idle]_vars

=============================================================================
