------------------------------ MODULE PostTags ------------------------------
(***************************************************************************)
(* The hashtags of one post: create_post, update_post and _sync_tags of     *)
(* app/routers/community.py over the community_post_tags table.  Posts do   *)
(* not share tag rows, so one post stands for each of them.                 *)
(*                                                                          *)
(* An edit loads the post with its tag rows, computes the difference        *)
(* between those rows and the tags of the new body, and writes body and     *)
(* difference in one commit.                                                *)
(***************************************************************************)
EXTENDS Integers, FiniteSets

CONSTANTS
    Bodies,   \* texts a post may have
    Tags,     \* hashtags
    TagsOf,   \* extract_tags: the tags of each body
    Ids,      \* ids of tag rows; finite, which bounds a behaviour
              \* (numbers only to take them in order: they are never compared)
    Reqs,     \* request slots
    None      \* no value

ConstantsOK ==
    /\ TagsOf \in [Bodies -> SUBSET Tags]
    /\ \A b \in Bodies : IsFiniteSet(TagsOf[b])
    /\ Ids \subseteq Nat /\ IsFiniteSet(Ids)
    /\ None \notin Bodies \cup Tags

VARIABLES
    body,     \* the text of the post, None before it is written
    removed,  \* its deleted_at is set
    tag,      \* its tag rows: a function from row ids to tags
    used,     \* tag row ids ever generated
    req       \* what each request slot is doing

vars == <<body, removed, tag, used, req>>

NoRows == [i \in {} |-> 0]

\* A handler's locals: the text to store, the text and the tag rows it loaded.
Idle == [pc |-> "idle", new |-> None, old |-> None, rows |-> NoRows]

TagSet(rows) == {rows[i] : i \in DOMAIN rows}

-----------------------------------------------------------------------------
Init ==
    /\ body = None
    /\ removed = FALSE
    /\ tag = NoRows
    /\ used = {}
    /\ req = [q \in Reqs |-> Idle]

Ends(q) == req' = [req EXCEPT ![q] = Idle]

\* Mutant of Dropped: an edit only ever adds tags.
NothingDropped(rows, b) == {}

\* The loaded rows whose tag body b no longer mentions.
Dropped(rows, b) == {i \in DOMAIN rows : rows[i] \notin TagsOf[b]}

\* The tags of body b that no loaded row carries.
Added(rows, b) == TagsOf[b] \ TagSet(rows)

\* The unique constraint uq_tag_per_post refuses one of the inserted rows.
Clashes(add) == add \cap TagSet(tag) # {}

\* The next row ids, as many as needed.
Fresh(n) ==
    {I \in SUBSET (Ids \ used) :
        Cardinality(I) = n /\ \A i \in I, j \in (Ids \ used) \ I : i < j}

\* The rows that insert the tags of add, each under a fresh id.
FreshRows(add) ==
    {new \in UNION {[I -> add] : I \in Fresh(Cardinality(add))} : TagSet(new) = add}

(* create_post: the text and all of its tags.                                *)
Create(q, b) ==
    /\ req[q] = Idle
    /\ body = None
    /\ body' = b
    /\ \E new \in FreshRows(TagsOf[b]) :
          /\ tag' = new
          /\ used' = used \cup DOMAIN new
    /\ UNCHANGED <<removed, req>>

(* update_post: load the post and its tags, refused once it is removed ...   *)
EditRead(q, b) ==
    /\ req[q] = Idle
    /\ body # None
    /\ ~removed
    /\ req' = [req EXCEPT ![q] = [pc |-> "edit", new |-> b, old |-> body, rows |-> tag]]
    /\ UNCHANGED <<body, removed, tag, used>>

(* ... then write what changed, in one commit.  The ORM leaves out a text    *)
(* equal to the one it loaded, a DELETE of a row that is gone only warns,    *)
(* and a refused INSERT undoes the edit.                                     *)
EditCommit(q) ==
    /\ req[q].pc = "edit"
    /\ LET new == req[q].new
           add == Added(req[q].rows, new)
           keep == DOMAIN tag \ Dropped(req[q].rows, new)
       IN  IF Clashes(add)
             THEN UNCHANGED <<body, tag, used>>
             ELSE /\ body' = IF new = req[q].old THEN body ELSE new
                  /\ \E fresh \in FreshRows(add) :
                        /\ tag' = [i \in keep \cup DOMAIN fresh |->
                                     IF i \in keep THEN tag[i] ELSE fresh[i]]
                        /\ used' = used \cup DOMAIN fresh
    /\ Ends(q)
    /\ UNCHANGED removed

(* delete_post: load the post ...                                            *)
DeleteRead(q) ==
    /\ req[q] = Idle
    /\ body # None
    /\ ~removed
    /\ req' = [req EXCEPT ![q].pc = "delete"]
    /\ UNCHANGED <<body, removed, tag, used>>

(* ... then set deleted_at; text and tags stay.                              *)
DeleteCommit(q) ==
    /\ req[q].pc = "delete"
    /\ removed' = TRUE
    /\ Ends(q)
    /\ UNCHANGED <<body, tag, used>>

Next ==
    \E q \in Reqs :
        \/ \E b \in Bodies : Create(q, b) \/ EditRead(q, b)
        \/ EditCommit(q)
        \/ DeleteRead(q)
        \/ DeleteCommit(q)

Spec == Init /\ [][Next]_vars

-----------------------------------------------------------------------------
(* Properties.                                                               *)

\* The variables hold what the tables and the handlers' locals may hold.
TypeOK ==
    /\ body \in Bodies \cup {None}
    /\ removed \in BOOLEAN
    /\ used \subseteq Ids
    /\ DOMAIN tag \subseteq used
    /\ tag \in [DOMAIN tag -> Tags]
    /\ \A q \in Reqs :
          /\ req[q].pc \in {"idle", "edit", "delete"}
          /\ req[q].new \in Bodies \cup {None}
          /\ req[q].old \in Bodies \cup {None}
          /\ DOMAIN req[q].rows \subseteq used
          /\ TagSet(req[q].rows) \subseteq Tags

\* An edit that ran alone leaves exactly the tags of its text, each once,
\* whatever drift earlier races left behind: the next edit repairs the index,
\* and a tag feed and the trending count see the post once per tag.
EditRepairs ==
    [][\A q \in Reqs :
          req[q].pc = "edit" /\ req'[q] = Idle /\ req[q].rows = tag
              => /\ TagSet(tag') = TagsOf[req[q].new]
                 /\ Cardinality(DOMAIN tag') = Cardinality(TagsOf[req[q].new])]_vars

=============================================================================
