------------------------------ MODULE Startup ------------------------------
(***************************************************************************)
(* The boot of the application: init_db of app/database.py, which brings an *)
(* empty or an older SQLite database up to the current schema and seeds it, *)
(* and which a crash may cut off anywhere.                                  *)
(*                                                                          *)
(* The sqlite3 driver opens a transaction for INSERT and UPDATE, not for    *)
(* DDL: although create_all and the ALTERs run inside engine.begin(), each  *)
(* CREATE and ALTER is durable the moment it has run.                       *)
(***************************************************************************)
EXTENDS Integers, Sequences, SequencesExt

CONSTANTS
    Tables,         \* the tables, in the order create_all makes them
    Indexes,        \* the indexes declared on each table, in order
    Additions,      \* the <<table, column>> pairs of _add_missing_columns
    OnAddition,     \* for the indexes on such a column: that column
    LateIndexes,    \* the indexes of _create_missing_indexes
    RolesTable, TopicsTable,
    StoredRoles,    \* what the roles table of an older database may hold
    DefaultRoles,   \* DEFAULT_ROLES: the weight of each slug
    DefaultTopics,  \* DEFAULT_TOPICS
    None            \* no index

IndexesOf(t) == ToSet(Indexes[t])

IndexesOn(ts) == UNION {IndexesOf(t) : t \in ts}

DeclaredIndexes == IndexesOn(ToSet(Tables))

\* A schema: what is added and created late belongs to it.
ConstantsOK ==
    /\ Tables \in Seq(ToSet(Tables)) /\ {RolesTable, TopicsTable} \subseteq ToSet(Tables)
    /\ \A t \in ToSet(Tables) : Indexes[t] \in Seq(DeclaredIndexes)
    /\ None \notin DeclaredIndexes
    /\ Additions \in Seq(ToSet(Additions))
    /\ \A a \in ToSet(Additions) : a[1] \in ToSet(Tables)
    /\ LateIndexes \in Seq(DeclaredIndexes)

VARIABLES
    tables,   \* tables that exist
    columns,  \* columns of Additions that exist
    indexes,  \* indexes that exist
    role,     \* the roles table: a function from slugs to weights
    topics,   \* the topics table
    phase,    \* how far the boot has come
    todo,     \* the statements of this phase still to run
    missing,  \* the defaults that a seeding found missing
    torn      \* history: tables that a crash cut off from their indexes

schemaVars == <<tables, columns, indexes, topics, phase, todo, missing, torn>>
vars == <<role, schemaVars>>

NoRoles == [s \in {} |-> 0]

Phases == {"down", "create", "alter", "index", "roles", "seed roles",
           "topics", "seed topics", "up"}

ColumnsOf(t) == {a \in ToSet(Additions) : a[1] = t}

\* A database that an earlier version of the program left behind: it may lack
\* tables, columns and the indexes that came with them, and rows of the seeds.
Older ==
    /\ tables \in SUBSET ToSet(Tables)
    /\ columns \in SUBSET UNION {ColumnsOf(t) : t \in tables}
    /\ \E new \in SUBSET (ToSet(LateIndexes) \cup DOMAIN OnAddition) :
          /\ \A i \in DOMAIN OnAddition : OnAddition[i] \notin columns => i \in new
          /\ indexes = IndexesOn(tables) \ new
    /\ role \in IF RolesTable \in tables THEN StoredRoles ELSE {NoRoles}
    /\ topics \in IF TopicsTable \in tables THEN SUBSET DefaultTopics ELSE {{}}

-----------------------------------------------------------------------------
Init ==
    /\ Older
    /\ phase = "down"
    /\ todo = <<>>
    /\ missing = {}
    /\ torn = {}

\* CREATE TABLE, then a CREATE INDEX for each index declared on the table.
Creation(t) ==
    <<[table |-> t, index |-> None]>>
        \o [k \in DOMAIN Indexes[t] |-> [table |-> t, index |-> Indexes[t][k]]]

(* create_all looks up which tables are missing, all at once ...             *)
Begin ==
    /\ phase = "down"
    /\ phase' = "create"
    /\ todo' = FlattenSeq([k \in DOMAIN Tables |->
                             IF Tables[k] \in tables THEN <<>> ELSE Creation(Tables[k])])
    /\ UNCHANGED <<tables, columns, indexes, role, topics, missing, torn>>

(* ... and creates them, each with its columns and then its indexes.         *)
CreateStatement ==
    /\ phase = "create"
    /\ todo # <<>>
    /\ LET s == Head(todo)
       IN  IF s.index = None
             THEN /\ tables' = tables \cup {s.table}
                  /\ columns' = columns \cup ColumnsOf(s.table)
                  /\ UNCHANGED indexes
             ELSE /\ indexes' = indexes \cup {s.index}
                  /\ UNCHANGED <<tables, columns>>
    /\ todo' = Tail(todo)
    /\ UNCHANGED <<role, topics, phase, missing, torn>>

\* The statements of a phase have run: the next one begins.
Proceed(from, to, statements) ==
    /\ phase = from
    /\ todo = <<>>
    /\ phase' = to
    /\ todo' = statements
    /\ UNCHANGED <<tables, columns, indexes, role, topics, missing, torn>>

(* _add_missing_columns: look one table up, add the column when the table is *)
(* there without it.                                                         *)
AddColumn ==
    /\ phase = "alter"
    /\ todo # <<>>
    /\ columns' = IF Head(todo)[1] \in tables THEN columns \cup {Head(todo)} ELSE columns
    /\ todo' = Tail(todo)
    /\ UNCHANGED <<tables, indexes, role, topics, phase, missing, torn>>

(* _create_missing_indexes: CREATE INDEX IF NOT EXISTS.                      *)
CreateIndex ==
    /\ phase = "index"
    /\ todo # <<>>
    /\ indexes' = indexes \cup {Head(todo)}
    /\ todo' = Tail(todo)
    /\ UNCHANGED <<tables, columns, role, topics, phase, missing, torn>>

\* Mutant of Missing: seeds go into an empty table only.
MissingIfEmpty(defaults, present) == IF present = {} THEN defaults ELSE {}

\* The defaults that have no row yet.
Missing(defaults, present) == defaults \ present

(* _seed_roles and _seed_topics: read what is there ...                      *)
SeedRead(from, commit, next, defaults, present) ==
    /\ phase = from
    /\ todo = <<>>
    /\ missing' = Missing(defaults, present)
    /\ phase' = IF missing' = {} THEN next ELSE commit
    /\ UNCHANGED <<tables, columns, indexes, role, topics, todo, torn>>

\* Mutant of Seeded: the missing roles take the place of the others.
SeededInstead(rows, slugs) == [s \in slugs |-> DefaultRoles[s]]

\* The roles with the missing ones added.
Seeded(rows, slugs) ==
    [s \in DOMAIN rows \cup slugs |-> IF s \in DOMAIN rows THEN rows[s] ELSE DefaultRoles[s]]

(* ... and insert what is missing, in one commit.                            *)
SeedRolesCommit ==
    /\ phase = "seed roles"
    /\ role' = Seeded(role, missing)
    /\ missing' = {}
    /\ phase' = "topics"
    /\ UNCHANGED <<tables, columns, indexes, topics, todo, torn>>

SeedTopicsCommit ==
    /\ phase = "seed topics"
    /\ topics' = topics \cup missing
    /\ missing' = {}
    /\ phase' = "up"
    /\ UNCHANGED <<tables, columns, indexes, role, todo, torn>>

(* The process dies: what was committed stays.                               *)
Crash ==
    /\ phase # "down"
    /\ phase' = "down"
    /\ todo' = <<>>
    /\ missing' = {}
    /\ torn' = IF phase = "create"
                 THEN torn \cup {s.table : s \in {x \in ToSet(todo) : x.table \in tables}}
                 ELSE torn
    /\ UNCHANGED <<tables, columns, indexes, role, topics>>

Boot ==
    \/ Begin
    \/ CreateStatement
    \/ Proceed("create", "alter", Additions)
    \/ AddColumn
    \/ Proceed("alter", "index", LateIndexes)
    \/ CreateIndex
    \/ Proceed("index", "roles", <<>>)
    \/ SeedRead("roles", "seed roles", "topics", DOMAIN DefaultRoles, DOMAIN role)
    \/ SeedRolesCommit
    \/ SeedRead("topics", "seed topics", "up", DefaultTopics, topics)
    \/ SeedTopicsCommit

Next == Boot \/ Crash

Spec == Init /\ [][Next]_vars

-----------------------------------------------------------------------------
(* Properties.                                                               *)

\* The variables hold what the database and the boot may hold.
TypeOK ==
    /\ tables \subseteq ToSet(Tables)
    /\ columns \subseteq UNION {ColumnsOf(t) : t \in tables}
    /\ indexes \subseteq IndexesOn(tables)
    /\ topics \subseteq DefaultTopics
    /\ DOMAIN role # {} => RolesTable \in tables
    /\ topics # {} => TopicsTable \in tables
    /\ phase \in Phases
    /\ missing \subseteq DOMAIN DefaultRoles \cup DefaultTopics
    /\ missing # {} <=> phase \in {"seed roles", "seed topics"}
    /\ torn \subseteq tables

\* A server that answers requests has every table, every added column, every
\* late index and a row for every default role and topic, whatever database it
\* was started on and however many boots were cut off before.
UpIsComplete ==
    phase = "up" =>
        /\ tables = ToSet(Tables)
        /\ columns = ToSet(Additions)
        /\ ToSet(LateIndexes) \subseteq indexes
        /\ DOMAIN DefaultRoles \subseteq DOMAIN role
        /\ topics = DefaultTopics

\* An index that a running server lacks was lost in one of two ways: a crash
\* fell between the CREATE TABLE and the CREATE INDEX of a table, or the index
\* is on a column that was added to a table older than it.  No later boot
\* brings it back.
IndexGaps ==
    phase = "up" =>
        \A t \in tables : \A i \in IndexesOf(t) \ indexes :
            t \in torn \/ i \in DOMAIN OnAddition

\* "A deployment that has retuned a weight, or added a role of its own, must
\* survive a restart unchanged": no step touches a role that has a row.
RetunedSurvive ==
    [][\A s \in DOMAIN role : s \in DOMAIN role' /\ role'[s] = role[s]]_vars

=============================================================================
