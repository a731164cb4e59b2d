--------------------------- MODULE LoginFamilies ---------------------------
(***************************************************************************)
(* What the session layer promises of a login, without tables, clocks or    *)
(* handler stages.  A family of tokens is opened once and named by the      *)
(* token it was opened with.  A client that presents a live token is        *)
(* granted an exchange, and every further token comes from one grant.  A    *)
(* closed family grants nothing any more.                                   *)
(***************************************************************************)
CONSTANTS
    Tokens,
    Clients,   \* who may hold a grant: as many as exchanges may overlap
    None       \* no grant

VARIABLES
    issued,  \* tokens handed out so far
    live,    \* live[f]: the tokens of family f that may still be presented
    grant    \* grant[c]: the family and token c may exchange, or None

Init ==
    /\ issued = {}
    /\ live = [f \in Tokens |-> {}]
    /\ grant = [c \in Clients |-> None]

Open(f) ==
    /\ f \notin issued
    /\ issued' = issued \cup {f}
    /\ live' = [live EXCEPT ![f] = {f}]
    /\ UNCHANGED grant

Grant(c, f, t) ==
    /\ t \in live[f]
    /\ grant' = [grant EXCEPT ![c] = <<f, t>>]
    /\ UNCHANGED <<issued, live>>

\* The exchanged token is spent, even if its family was closed meanwhile.
Exchange(c, f, old, new) ==
    /\ grant[c] = <<f, old>>
    /\ new \notin issued
    /\ issued' = issued \cup {new}
    /\ live' = [live EXCEPT ![f] = (@ \ {old}) \cup {new}]
    /\ grant' = [grant EXCEPT ![c] = None]

\* Grants lapse: a refusal takes one, a crash all of them.
Lapse(C) ==
    /\ grant' = [c \in Clients |-> IF c \in C THEN None ELSE grant[c]]
    /\ UNCHANGED <<issued, live>>

\* A logout or a replay closes one family, a purge any number of them.
Close(F) ==
    /\ live' = [f \in Tokens |-> IF f \in F THEN {} ELSE live[f]]
    /\ UNCHANGED <<issued, grant>>

Next ==
    \/ \E f \in Tokens : Open(f)
    \/ \E c \in Clients, f, t \in Tokens : Grant(c, f, t)
    \/ \E c \in Clients, f, old, new \in Tokens : Exchange(c, f, old, new)
    \/ \E C \in SUBSET Clients : Lapse(C)
    \/ \E F \in SUBSET Tokens : Close(F)

Spec == Init /\ [][Next]_<<issued, live, grant>>

=============================================================================
