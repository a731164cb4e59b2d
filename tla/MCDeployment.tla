---------------------------- MODULE MCDeployment ----------------------------
(* Deployment with four tables, two default roles and a role of its own.     *)
EXTENDS Deployment, TLC

CONSTANTS roles, topics_, users, attempts,
          ix_weight, ix_email, ix_role_slug, ix_started,
          role_slug, user, admin, owner

MCTables == <<roles, topics_, users, attempts>>

MCIndexes ==
    (roles :> <<ix_weight>>) @@ (topics_ :> <<>>)
        @@ (users :> <<ix_email, ix_role_slug>>) @@ (attempts :> <<ix_started>>)

MCAdditions == <<<<users, role_slug>>>>

MCOnAddition == ix_role_slug :> <<users, role_slug>>

MCLateIndexes == <<ix_started>>

MCDefaultRoles == (user :> 1) @@ (admin :> 3)

\* Nothing yet; the defaults; a retuned default and a heavier role; one role
\* that lacks its companion.
MCStoredRoles ==
    {[s \in {} |-> 0],
     MCDefaultRoles,
     (user :> 2) @@ (admin :> 3) @@ (owner :> 4),
     (admin :> 4)}

Symmetry == Permutations(Accounts) \cup Permutations(Reqs)

=============================================================================
