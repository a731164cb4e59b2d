------------------------------ MODULE Threads ------------------------------
(***************************************************************************)
(* Posts, shares and threaded comments of app/routers/community.py, with    *)
(* the counters that live on the parent row: share_count and comment_count  *)
(* of a post, reply_count of a comment.  Bodies and topics are left out:    *)
(* editing one (update_comment) changes no row modelled here.               *)
(***************************************************************************)
EXTENDS Integers, FiniteSets

CONSTANTS
    Users,
    Moderators,   \* users whose role weighs at least MODERATE_WEIGHT
    Posts,        \* ids of post rows; finite, which bounds a behaviour
    Comments,     \* ids of comment rows; likewise
    Reqs,         \* request slots
    None          \* no value

ConstantsOK ==
    /\ Moderators \subseteq Users
    /\ None \notin Posts \cup Comments \cup Users

VARIABLES
    post,     \* the community_posts table: a function whose domain is its row ids
    comment,  \* the community_comments table, likewise
    req       \* what each request slot is doing

vars == <<post, comment, req>>

PostRow ==
    [author: Users, shares: Posts \cup {None}, deleted: BOOLEAN,
     shareCount: Nat, commentCount: Nat]

CommentRow ==
    [author: Users, post: Posts, parent: Comments \cup {None}, deleted: BOOLEAN,
     replyCount: Nat]

Stages == {"idle", "share", "deletePost", "parent", "comment", "deleteComment"}

\* A handler's locals: who, and the post and comment it has loaded.
Request ==
    [pc: Stages, user: Users \cup {None}, post: Posts \cup {None},
     comment: Comments \cup {None}]

Idle == [pc |-> "idle", user |-> None, post |-> None, comment |-> None]

SharesOf(p) == {s \in DOMAIN post : post[s].shares = p}

RepliesTo(c) == {d \in DOMAIN comment : comment[d].parent = c}

\* The comments a reader of p still sees, replies included.
Conversation(p) == {c \in DOMAIN comment : comment[c].post = p /\ ~comment[c].deleted}

-----------------------------------------------------------------------------
Init ==
    /\ post = [p \in {} |-> 0]
    /\ comment = [c \in {} |-> 0]
    /\ req = [q \in Reqs |-> Idle]

Ends(q) == req' = [req EXCEPT ![q] = Idle]

Goes(q, pc, u, p, c) ==
    req' = [req EXCEPT ![q] = [pc |-> pc, user |-> u, post |-> p, comment |-> c]]

\* can_delete: the author, or anyone heavy enough to moderate.
CanDelete(author, u) == author = u \/ u \in Moderators

NewPost(u, original) ==
    [author |-> u, shares |-> original, deleted |-> FALSE,
     shareCount |-> 0, commentCount |-> 0]

\* create_post without a share: one INSERT.
CreatePost(q, u, p) ==
    /\ req[q] = Idle
    /\ p \notin DOMAIN post
    /\ post' = [x \in DOMAIN post \cup {p} |-> IF x = p THEN NewPost(u, None) ELSE post[x]]
    /\ UNCHANGED <<comment, req>>

\* The post a share of p points at: what p shares, or p itself.
Credited(p) == IF post[p].shares = None THEN p ELSE post[p].shares

\* A post that can be shared or commented on.
Commentable(p) == p \in DOMAIN post /\ ~post[p].deleted

(* create_post with a share: load the original ...                           *)
ShareRead(q, u, p) ==
    /\ req[q] = Idle
    /\ Commentable(p)
    /\ Goes(q, "share", u, Credited(p), None)
    /\ UNCHANGED <<post, comment>>

\* UPDATE ... SET share_count = share_count + 1 WHERE id = original.
ShareCredited(x, original) ==
    IF x = original THEN [post[x] EXCEPT !.shareCount = @ + 1] ELSE post[x]

(* ... then credit it and insert the share in one commit, or roll both back  *)
(* when the topic turns out to be unknown.                                   *)
ShareCommit(q, p) ==
    /\ req[q].pc = "share"
    /\ p \notin DOMAIN post
    /\ \/ post' = [x \in DOMAIN post \cup {p} |->
                     IF x = p THEN NewPost(req[q].user, req[q].post)
                     ELSE ShareCredited(x, req[q].post)]
       \/ UNCHANGED post
    /\ Ends(q)
    /\ UNCHANGED comment

(* delete_post: load the post; one already removed needs no write ...        *)
DeletePostRead(q, u, p) ==
    /\ req[q] = Idle
    /\ Commentable(p)
    /\ CanDelete(post[p].author, u)
    /\ Goes(q, "deletePost", None, p, None)
    /\ UNCHANGED <<post, comment>>

(* ... then set deleted_at.                                                  *)
DeletePostCommit(q) ==
    /\ req[q].pc = "deletePost"
    /\ post' = [post EXCEPT ![req[q].post].deleted = TRUE]
    /\ Ends(q)
    /\ UNCHANGED comment

(* create_comment: load the post; a reply goes on to load its parent ...     *)
CommentRead(q, u, p) ==
    /\ req[q] = Idle
    /\ Commentable(p)
    /\ \/ Goes(q, "comment", u, p, None)
       \/ \E c \in DOMAIN comment : Goes(q, "parent", u, p, c)
    /\ UNCHANGED <<post, comment>>

\* A comment that a reply in post p may name as its parent.
Answerable(c, p) == comment[c].post = p /\ ~comment[c].deleted

(* ... which must belong to the same post and not be removed ...             *)
ParentRead(q) ==
    /\ req[q].pc = "parent"
    /\ IF Answerable(req[q].comment, req[q].post)
         THEN req' = [req EXCEPT ![q].pc = "comment"]
         ELSE Ends(q)
    /\ UNCHANGED <<post, comment>>

\* Mutant of ReplyCounted: a reply to a reply counts at the root.
ReplyCountedAtRoot(x, parent) ==
    IF parent # None /\ x = parent /\ comment[x].parent = None
    THEN [comment[x] EXCEPT !.replyCount = @ + 1] ELSE comment[x]

\* UPDATE ... SET reply_count = reply_count + 1 WHERE id = parent.
ReplyCounted(x, parent) ==
    IF x = parent THEN [comment[x] EXCEPT !.replyCount = @ + 1] ELSE comment[x]

\* Mutant of CommentCounted: replies are left out.
OnlyRootsCounted(n, parent) == IF parent = None THEN n + 1 ELSE n

\* UPDATE ... SET comment_count = comment_count + 1, replies included.
CommentCounted(n, parent) == n + 1

(* ... then insert the comment and move both counts in one commit.           *)
CommentCommit(q, c) ==
    /\ req[q].pc = "comment"
    /\ c \notin DOMAIN comment
    /\ comment' = [x \in DOMAIN comment \cup {c} |->
                     IF x = c THEN [author |-> req[q].user, post |-> req[q].post,
                                    parent |-> req[q].comment, deleted |-> FALSE,
                                    replyCount |-> 0]
                     ELSE ReplyCounted(x, req[q].comment)]
    /\ post' = [post EXCEPT ![req[q].post].commentCount =
                                CommentCounted(@, req[q].comment)]
    /\ Ends(q)

(* delete_comment: load the comment; one already removed needs no write ...  *)
DeleteCommentRead(q, u, c) ==
    /\ req[q] = Idle
    /\ c \in DOMAIN comment
    /\ CanDelete(comment[c].author, u)
    /\ ~comment[c].deleted
    /\ Goes(q, "deleteComment", None, None, c)
    /\ UNCHANGED <<post, comment>>

\* ... WHERE comment_count > 0.
Decremented(n) == IF n > 0 THEN n - 1 ELSE n

(* ... then set deleted_at and uncount it in one commit.                     *)
DeleteCommentCommit(q) ==
    /\ req[q].pc = "deleteComment"
    /\ LET c == req[q].comment
       IN  /\ comment' = [comment EXCEPT ![c].deleted = TRUE]
           /\ post' = [post EXCEPT ![comment[c].post].commentCount = Decremented(@)]
    /\ Ends(q)

Next ==
    \E q \in Reqs :
        \/ \E u \in Users, p \in Posts :
              \/ CreatePost(q, u, p)
              \/ ShareRead(q, u, p)
              \/ DeletePostRead(q, u, p)
              \/ CommentRead(q, u, p)
        \/ \E p \in Posts : ShareCommit(q, p)
        \/ DeletePostCommit(q)
        \/ ParentRead(q)
        \/ \E c \in Comments : CommentCommit(q, c)
        \/ \E u \in Users, c \in Comments : DeleteCommentRead(q, u, c)
        \/ DeleteCommentCommit(q)

Spec == Init /\ [][Next]_vars

-----------------------------------------------------------------------------
(* Properties.                                                               *)

\* The variables hold what the tables and the handlers' locals may hold.
TypeOK ==
    /\ DOMAIN post \subseteq Posts
    /\ post \in [DOMAIN post -> PostRow]
    /\ DOMAIN comment \subseteq Comments
    /\ comment \in [DOMAIN comment -> CommentRow]
    /\ req \in [Reqs -> Request]

\* "Never chained": whatever is shared is an original, so a share renders one
\* level deep.
SharesPointAtOriginals ==
    \A p \in DOMAIN post :
        post[p].shares # None =>
            post[p].shares \in DOMAIN post /\ post[post[p].shares].shares = None

\* Concurrent shares lose no credit: an original counts exactly its shares.
ShareCountExact ==
    \A p \in DOMAIN post : post[p].shareCount = Cardinality(SharesOf(p))

\* A reply answers a comment of its own post, so no conversation leaks into
\* another one.
RepliesStayInThread ==
    \A c \in DOMAIN comment :
        comment[c].parent # None =>
            /\ comment[c].parent \in DOMAIN comment
            /\ comment[comment[c].parent].post = comment[c].post

\* A comment counts every reply it ever got: removing one leaves the count.
ReplyCountExact ==
    \A c \in DOMAIN comment : comment[c].replyCount = Cardinality(RepliesTo(c))

\* A post never claims more conversation than a reader finds under it.
NeverOvercounts ==
    \A p \in DOMAIN post : post[p].commentCount <= Cardinality(Conversation(p))

Quiet(p) ==
    /\ p \in DOMAIN post /\ post[p].deleted
    /\ \A q \in Reqs : req[q].pc \in {"parent", "comment"} => req[q].post # p

\* However shares, replies and removals overlap, a share leads to an original
\* and a reply to its own thread, both are counted exactly, and a comment count
\* is never too high.
ConversationExact ==
    /\ SharesPointAtOriginals /\ ShareCountExact
    /\ RepliesStayInThread /\ ReplyCountExact
    /\ NeverOvercounts

\* A removed post, once the comments in flight have ended, gains no comment,
\* whatever is requested afterwards.
RemovedPostIsQuiet ==
    [][\A p \in Posts :
          Quiet(p) =>
              /\ Quiet(p)'
              /\ \A c \in DOMAIN comment' : comment'[c].post = p => c \in DOMAIN comment]_vars

Missing(p) == Cardinality(Conversation(p)) - post[p].commentCount

Stale(q) == req[q].pc = "deleteComment" /\ comment[req[q].comment].deleted

\* "Counts are maintained, not computed": the one step that makes a comment
\* count fall short is a deletion of a comment that another request deleted
\* after this one had loaded it.
OnlyDoubleDeleteDrifts ==
    [][\A p \in DOMAIN post :
          Missing(p)' > Missing(p) =>
              \E q \in Reqs : Stale(q) /\ comment[req[q].comment].post = p]_vars

=============================================================================
