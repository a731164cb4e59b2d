------------------------------- MODULE Slugs -------------------------------
(***************************************************************************)
(* The address of a test: _unique_slug of app/routers/content.py, and what  *)
(* create_test, update_test and delete_test do with a test's title and      *)
(* slug.  A title stands for the slugs that _unique_slug tries for it, one  *)
(* after the other: the slugified title and the same with -2, -3 ...        *)
(***************************************************************************)
EXTENDS Naturals, Sequences, FiniteSets

CONSTANTS
    Tests,       \* ids of tests rows; finite, which bounds a behaviour
    Titles,
    Candidates,  \* the slugs tried for each title; bound: as many as this
    Reqs,        \* request slots
    None         \* no value

ConstantsOK ==
    /\ IsFiniteSet(Tests)
    /\ \A t \in Titles :
          /\ Len(Candidates[t]) \in Nat /\ DOMAIN Candidates[t] = 1 .. Len(Candidates[t])
          /\ Len(Candidates[t]) > Cardinality(Tests)
          /\ \A m, n \in DOMAIN Candidates[t] : Candidates[t][m] = Candidates[t][n] => m = n
    /\ None \notin Tests \cup Titles

VARIABLES
    named,     \* title and slug of each test: a function whose domain is its row ids
    usedTest,  \* ids ever inserted
    req        \* what each request slot is doing

vars == <<named, usedTest, req>>

CandidatesOf(t) == {Candidates[t][n] : n \in DOMAIN Candidates[t]}

Slugs == UNION {CandidatesOf(t) : t \in Titles}

TestRow == [title: Titles, slug: Slugs]

\* A handler's locals: the test it renames, None in create_test, and its row as
\* loaded; the title; the number of the candidate to try next.  fresh is a
\* history variable: nobody else has committed since the handler began.
Idle == [pc |-> "idle", id |-> None, was |-> None, title |-> None, next |-> 1, fresh |-> TRUE]

Init ==
    /\ named = [i \in {} |-> None]
    /\ usedTest = {}
    /\ req = [q \in Reqs |-> Idle]

Goes(q, locals) == req' = [req EXCEPT ![q] = locals]

\* The end of a handler that commits.
Commits(q) ==
    req' = [r \in Reqs |-> IF r = q \/ req[r] = Idle THEN Idle
                           ELSE [req[r] EXCEPT !.fresh = FALSE]]

(* create_test.                                                              *)
Create(q, t) ==
    /\ req[q] = Idle
    /\ Goes(q, [Idle EXCEPT !.pc = "probe", !.title = t])
    /\ UNCHANGED <<named, usedTest>>

(* update_test: load the test; a title that differs needs a slug.            *)
RenameRead(q, i, t) ==
    /\ req[q] = Idle
    /\ i \in DOMAIN named
    /\ named[i].title # t
    /\ Goes(q, [Idle EXCEPT !.pc = "probe", !.id = i, !.was = named[i], !.title = t])
    /\ UNCHANGED <<named, usedTest>>

\* The tests whose slugs are taken for the one with this id.
Others(id) == DOMAIN named \ {id}

Held(id) == {named[i].slug : i \in Others(id)}

\* Mutant of Candidate: the slug of a renamed test is made from its old title.
CandidateOfLoaded(q) ==
    Candidates[IF req[q].id = None THEN req[q].title ELSE req[q].was.title][req[q].next]

Candidate(q) == Candidates[req[q].title][req[q].next]

(* One turn of the loop of _unique_slug, a SELECT of its own.                *)
Probe(q) ==
    /\ req[q].pc = "probe"
    /\ IF Candidate(q) \in Held(req[q].id)
         THEN /\ req[q].next < Len(Candidates[req[q].title])
              /\ Goes(q, [req[q] EXCEPT !.next = @ + 1])
         ELSE Goes(q, [req[q] EXCEPT !.pc = "commit"])
    /\ UNCHANGED <<named, usedTest>>

\* The unique slug, against the rows other than this one.
Clashes(id, slug) == \E i \in DOMAIN named \ {id} : named[i].slug = slug

(* The INSERT of create_test.                                                *)
CreateCommit(q, i) ==
    /\ req[q].pc = "commit" /\ req[q].id = None
    /\ i \notin usedTest
    /\ IF Clashes(i, Candidate(q))
         THEN UNCHANGED <<named, usedTest>>
         ELSE /\ named' = [j \in DOMAIN named \cup {i} |->
                            IF j = i THEN [title |-> req[q].title, slug |-> Candidate(q)]
                            ELSE named[j]]
              /\ usedTest' = usedTest \cup {i}
    /\ Commits(q)

\* The flush writes the columns whose value is not the one loaded.
Stored(asked, loaded, stored) == IF asked = loaded THEN stored ELSE asked

(* The UPDATE of update_test; that the test is gone fails it.                *)
RenameCommit(q) ==
    /\ req[q].pc = "commit" /\ req[q].id # None
    /\ LET i == req[q].id
           was == req[q].was
           slug == Stored(Candidate(q), was.slug, named[i].slug)
       IN  named' = IF i \notin DOMAIN named \/ Clashes(i, slug) THEN named
                    ELSE [named EXCEPT ![i] =
                            [title |-> Stored(req[q].title, was.title, @.title),
                             slug |-> slug]]
    /\ Commits(q)
    /\ UNCHANGED usedTest

(* delete_test, taken as one step.                                           *)
Delete(q, i) ==
    /\ req[q] = Idle
    /\ i \in DOMAIN named
    /\ named' = [j \in DOMAIN named \ {i} |-> named[j]]
    /\ Commits(q)
    /\ UNCHANGED usedTest

Next ==
    \E q \in Reqs :
        \/ \E t \in Titles : Create(q, t) \/ \E i \in DOMAIN named : RenameRead(q, i, t)
        \/ Probe(q)
        \/ \E i \in Tests : CreateCommit(q, i) \/ Delete(q, i)
        \/ RenameCommit(q)

Spec == Init /\ [][Next]_vars

-----------------------------------------------------------------------------
(* Properties.                                                               *)

\* The variables hold what the tables and the handlers' locals may hold.
TypeOK ==
    /\ named \in [DOMAIN named -> TestRow]
    /\ DOMAIN named \subseteq usedTest /\ usedTest \subseteq Tests
    /\ \A q \in Reqs :
          /\ req[q].pc \in {"idle", "probe", "commit"}
          /\ req[q].pc # "idle" => req[q].next \in DOMAIN Candidates[req[q].title]

Ended(q) == req[q].pc = "commit" /\ req'[q] = Idle

\* "A slug nobody else holds": a handler that nobody's commit overtook is never
\* refused, and the test it wrote has the first candidate that was free, its
\* own old slug included.
AloneGetsFirstFree ==
    [][\A q \in Reqs :
          Ended(q) /\ req[q].fresh =>
              \E i \in DOMAIN named' :
                  /\ i = req[q].id \/ (req[q].id = None /\ i \notin DOMAIN named)
                  /\ named'[i].title = req[q].title
                  /\ named'[i].slug = Candidate(q)
                  /\ \A n \in 1 .. req[q].next - 1 :
                        \E j \in DOMAIN named' \ {i} :
                            named'[j].slug = Candidates[req[q].title][n]]_vars

Fits(row) == row.slug \in CandidatesOf(row.title)

\* The address says the title: a test gets one that does not only from a rename
\* that another commit overtook, whose loaded slug was the one it wanted.
SlugFitsTitle ==
    [][\A i \in DOMAIN named' :
          ~Fits(named'[i]) =>
              \/ i \in DOMAIN named /\ ~Fits(named[i])
              \/ \E q \in Reqs : /\ Ended(q) /\ req[q].id = i /\ ~req[q].fresh
                                 /\ req[q].was.slug = Candidate(q)]_vars

\* An author alone gets the first free address of the title, and an address
\* that says another title is the work of two.
SlugsSettle == AloneGetsFirstFree /\ SlugFitsTitle

=============================================================================
