--------------------------- MODULE ThreadsProofs ---------------------------
(***************************************************************************)
(* Theorems about Threads for any number of accounts, posts, comments and   *)
(* requests in flight: the type invariant, that shares and replies lead     *)
(* where they should and are counted exactly, that a comment count is never *)
(* too high, that a removed post goes quiet, and what alone makes a comment *)
(* count drift.                                                             *)
(***************************************************************************)
EXTENDS Threads, FiniteSetTheorems, TLAPS

\* What a request has loaded is still there: rows are never deleted, an
\* original stays an original and a comment stays in its post.
Loaded(rq) ==
    /\ rq.pc \in {"share", "parent", "comment"} => rq.user \in Users
    /\ rq.pc \in {"share", "deletePost", "parent", "comment"} => rq.post \in DOMAIN post
    /\ rq.pc = "share" => post[rq.post].shares = None
    /\ rq.pc \in {"parent", "deleteComment"} => rq.comment \in DOMAIN comment
    /\ rq.pc = "comment" /\ rq.comment # None =>
          rq.comment \in DOMAIN comment /\ comment[rq.comment].post = rq.post

\* What the handlers rely on between their steps.
HandlersOK ==
    /\ IsFiniteSet(DOMAIN post)
    /\ IsFiniteSet(DOMAIN comment)
    /\ \A c \in DOMAIN comment : comment[c].post \in DOMAIN post
    /\ \A q \in Reqs : Loaded(req[q])

\* The inductive invariant of the type correctness proof: a share needs to know
\* that the original it credits is one.
TInv == TypeOK /\ HandlersOK /\ SharesPointAtOriginals

IInv == TInv /\ ConversationExact

-----------------------------------------------------------------------------
(* Rows and requests.                                                        *)

\* Rows stay and keep what ties them to one another.
RowsKept ==
    /\ DOMAIN post \subseteq DOMAIN post'
    /\ DOMAIN comment \subseteq DOMAIN comment'
    /\ \A p \in DOMAIN post : /\ post'[p].shares = post[p].shares
                              /\ post[p].deleted => post'[p].deleted
    /\ \A c \in DOMAIN comment : /\ comment'[c].post = comment[c].post
                                 /\ comment'[c].parent = comment[c].parent
                                 /\ comment[c].deleted => comment'[c].deleted

\* An idle request is a request and has loaded nothing.
LEMMA IdleRequest == Idle \in Request /\ Idle.pc = "idle" /\ Loaded(Idle)
BY DEF Idle, Request, Stages, Loaded

\* A request that ends leaves the others as they are.
LEMMA EndsType ==
    ASSUME TypeOK, NEW q \in Reqs, Ends(q)
    PROVE  /\ req' \in [Reqs -> Request]
           /\ req'[q] = Idle
           /\ \A p \in Reqs \ {q} : req'[p] = req[p]
BY IdleRequest DEF TypeOK, Ends

\* So does one that goes on.
LEMMA GoesType ==
    ASSUME TypeOK, NEW q \in Reqs, NEW pc \in Stages, NEW u \in Users \cup {None},
           NEW p \in Posts \cup {None}, NEW c \in Comments \cup {None},
           Goes(q, pc, u, p, c)
    PROVE  /\ req' \in [Reqs -> Request]
           /\ req'[q] = [pc |-> pc, user |-> u, post |-> p, comment |-> c]
           /\ \A r \in Reqs \ {q} : req'[r] = req[r]
BY DEF TypeOK, Goes, Request

\* What a request has loaded is there after every step that keeps the rows.
LEMMA StaysLoaded ==
    ASSUME TInv, RowsKept, NEW q \in Reqs
    PROVE  /\ req'[q] = req[q] => Loaded(req[q])'
           /\ req'[q] = Idle => Loaded(req[q])'
BY DEF TInv, HandlersOK, RowsKept, Loaded, Idle

-----------------------------------------------------------------------------
(* Each write, and what it does to the rows.                                 *)

\* An insertion of a post.
LEMMA CreatePostRows ==
    ASSUME TInv, NEW q \in Reqs, NEW u \in Users, NEW p \in Posts, CreatePost(q, u, p)
    PROVE  /\ RowsKept
           /\ DOMAIN post' = DOMAIN post \cup {p}
           /\ p \notin DOMAIN post
           /\ post'[p] = NewPost(u, None)
           /\ \A x \in DOMAIN post : post'[x] = post[x]
           /\ post' \in [DOMAIN post' -> PostRow]
<1>1. NewPost(u, None) \in PostRow
  BY DEF NewPost, PostRow
<1>2. /\ DOMAIN post' = DOMAIN post \cup {p}
      /\ p \notin DOMAIN post
      /\ post'[p] = NewPost(u, None)
      /\ \A x \in DOMAIN post : post'[x] = post[x]
      /\ UNCHANGED <<comment, req>>
  BY DEF CreatePost
<1>3. post' \in [DOMAIN post' -> PostRow]
  BY <1>1 DEF CreatePost, TInv, TypeOK
<1> QED
  BY <1>2, <1>3 DEF RowsKept

\* An insertion of a share, with its credit.
LEMMA ShareRows ==
    ASSUME TInv, NEW q \in Reqs, NEW p \in Posts, ShareCommit(q, p), post' # post
    PROVE  /\ RowsKept
           /\ DOMAIN post' = DOMAIN post \cup {p}
           /\ p \notin DOMAIN post
           /\ req[q].post \in DOMAIN post
           /\ post'[p] = NewPost(req[q].user, req[q].post)
           /\ \A x \in DOMAIN post :
                 post'[x] = IF x = req[q].post
                            THEN [post[x] EXCEPT !.shareCount = @ + 1] ELSE post[x]
           /\ post' \in [DOMAIN post' -> PostRow]
<1>1. /\ req[q].user \in Users
      /\ req[q].post \in DOMAIN post /\ req[q].post \in Posts
  BY DEF ShareCommit, TInv, TypeOK, HandlersOK, Loaded
<1>2. post' = [x \in DOMAIN post \cup {p} |->
                 IF x = p THEN NewPost(req[q].user, req[q].post)
                 ELSE ShareCredited(x, req[q].post)]
      /\ p \notin DOMAIN post /\ UNCHANGED comment
  BY DEF ShareCommit
<1>3. NewPost(req[q].user, req[q].post) \in PostRow
  BY <1>1 DEF NewPost, PostRow
<1>4. \A x \in DOMAIN post : /\ post[x] \in PostRow
                             /\ ShareCredited(x, req[q].post) \in PostRow
                             /\ ShareCredited(x, req[q].post).shares = post[x].shares
                             /\ ShareCredited(x, req[q].post).deleted = post[x].deleted
  BY DEF ShareCredited, PostRow, TInv, TypeOK
<1>5. post' \in [DOMAIN post' -> PostRow]
  BY <1>2, <1>3, <1>4
<1>6. RowsKept
  BY <1>2, <1>4 DEF RowsKept
<1> QED
  BY <1>1, <1>2, <1>5, <1>6 DEF ShareCredited

\* A removal of a post.
LEMMA DeletePostRows ==
    ASSUME TInv, NEW q \in Reqs, DeletePostCommit(q)
    PROVE  /\ RowsKept
           /\ DOMAIN post' = DOMAIN post
           /\ \A x \in DOMAIN post : /\ post'[x].shares = post[x].shares
                                     /\ post'[x].shareCount = post[x].shareCount
                                     /\ post'[x].commentCount = post[x].commentCount
           /\ post' \in [DOMAIN post' -> PostRow]
BY DEF DeletePostCommit, RowsKept, TInv, TypeOK, PostRow

\* An insertion of a comment, counted at its post and at its parent.
LEMMA CommentRows ==
    ASSUME TInv, NEW q \in Reqs, NEW c \in Comments, CommentCommit(q, c)
    PROVE  /\ RowsKept
           /\ c \notin DOMAIN comment
           /\ DOMAIN comment' = DOMAIN comment \cup {c}
           /\ comment'[c] = [author |-> req[q].user, post |-> req[q].post,
                             parent |-> req[q].comment, deleted |-> FALSE,
                             replyCount |-> 0]
           /\ \A x \in DOMAIN comment :
                 comment'[x] = IF x = req[q].comment
                               THEN [comment[x] EXCEPT !.replyCount = @ + 1] ELSE comment[x]
           /\ comment' \in [DOMAIN comment' -> CommentRow]
           /\ DOMAIN post' = DOMAIN post
           /\ req[q].post \in DOMAIN post
           /\ \A x \in DOMAIN post :
                 /\ post'[x].shares = post[x].shares
                 /\ post'[x].shareCount = post[x].shareCount
                 /\ post'[x].commentCount = IF x = req[q].post THEN post[x].commentCount + 1
                                            ELSE post[x].commentCount
           /\ post' \in [DOMAIN post' -> PostRow]
<1> DEFINE row == [author |-> req[q].user, post |-> req[q].post,
                   parent |-> req[q].comment, deleted |-> FALSE, replyCount |-> 0]
<1>1. /\ req[q].user \in Users /\ req[q].post \in DOMAIN post /\ req[q].post \in Posts
      /\ req[q].comment \in Comments \cup {None}
  BY DEF CommentCommit, TInv, TypeOK, HandlersOK, Loaded, Request
<1>2. row \in CommentRow
  BY <1>1 DEF CommentRow
<1> HIDE DEF row
<1>3. /\ comment' = [x \in DOMAIN comment \cup {c} |->
                       IF x = c THEN row ELSE ReplyCounted(x, req[q].comment)]
      /\ c \notin DOMAIN comment
  BY DEF CommentCommit, row
<1>4. \A x \in DOMAIN comment :
         /\ comment[x] \in CommentRow
         /\ ReplyCounted(x, req[q].comment) =
              IF x = req[q].comment THEN [comment[x] EXCEPT !.replyCount = @ + 1]
              ELSE comment[x]
         /\ ReplyCounted(x, req[q].comment) \in CommentRow
         /\ ReplyCounted(x, req[q].comment).post = comment[x].post
         /\ ReplyCounted(x, req[q].comment).parent = comment[x].parent
         /\ ReplyCounted(x, req[q].comment).deleted = comment[x].deleted
  BY DEF ReplyCounted, CommentRow, TInv, TypeOK
<1>5. comment' \in [DOMAIN comment' -> CommentRow]
  BY <1>2, <1>3, <1>4
<1>6. post' = [post EXCEPT ![req[q].post].commentCount = @ + 1]
  BY DEF CommentCommit, CommentCounted
<1>7. /\ DOMAIN post' = DOMAIN post
      /\ \A x \in DOMAIN post :
            /\ post'[x].shares = post[x].shares
            /\ post'[x].deleted = post[x].deleted
            /\ post'[x].shareCount = post[x].shareCount
            /\ post'[x].commentCount = IF x = req[q].post THEN post[x].commentCount + 1
                                       ELSE post[x].commentCount
      /\ post' \in [DOMAIN post' -> PostRow]
  BY <1>1, <1>6 DEF PostRow, TInv, TypeOK
<1>8. RowsKept
  BY <1>3, <1>4, <1>7 DEF RowsKept
<1> QED
  BY <1>1, <1>3, <1>4, <1>5, <1>7, <1>8 DEF row

\* A removal of a comment, uncounted at its post.
LEMMA DeleteCommentRows ==
    ASSUME TInv, NEW q \in Reqs, DeleteCommentCommit(q)
    PROVE  LET c == req[q].comment
           IN  /\ RowsKept
               /\ c \in DOMAIN comment
               /\ comment[c].post \in DOMAIN post
               /\ DOMAIN comment' = DOMAIN comment
               /\ \A x \in DOMAIN comment :
                     /\ comment'[x].post = comment[x].post
                     /\ comment'[x].parent = comment[x].parent
                     /\ comment'[x].replyCount = comment[x].replyCount
                     /\ comment'[x].deleted <=> (x = c \/ comment[x].deleted)
               /\ comment' \in [DOMAIN comment' -> CommentRow]
               /\ DOMAIN post' = DOMAIN post
               /\ \A x \in DOMAIN post :
                     /\ post'[x].shares = post[x].shares
                     /\ post'[x].shareCount = post[x].shareCount
                     /\ post'[x].commentCount =
                           IF x = comment[c].post THEN Decremented(post[x].commentCount)
                           ELSE post[x].commentCount
               /\ post' \in [DOMAIN post' -> PostRow]
<1> DEFINE c == req[q].comment
           d == comment[c].post
<1>1. c \in DOMAIN comment /\ d \in DOMAIN post
  BY DEF DeleteCommentCommit, TInv, HandlersOK, Loaded
<1>2. /\ comment' = [comment EXCEPT ![c].deleted = TRUE]
      /\ post' = [post EXCEPT ![d].commentCount = Decremented(@)]
  BY DEF DeleteCommentCommit
<1> HIDE DEF c, d
<1>3. /\ DOMAIN comment' = DOMAIN comment
      /\ \A x \in DOMAIN comment :
            /\ comment'[x].post = comment[x].post
            /\ comment'[x].parent = comment[x].parent
            /\ comment'[x].replyCount = comment[x].replyCount
            /\ comment'[x].deleted <=> (x = c \/ comment[x].deleted)
      /\ comment' \in [DOMAIN comment' -> CommentRow]
  BY <1>1, <1>2 DEF CommentRow, TInv, TypeOK
<1>4. \A n \in Nat : Decremented(n) \in Nat
  BY DEF Decremented
<1>5. /\ DOMAIN post' = DOMAIN post
      /\ \A x \in DOMAIN post :
            /\ post'[x].shares = post[x].shares
            /\ post'[x].deleted = post[x].deleted
            /\ post'[x].shareCount = post[x].shareCount
            /\ post'[x].commentCount = IF x = d THEN Decremented(post[x].commentCount)
                                       ELSE post[x].commentCount
      /\ post' \in [DOMAIN post' -> PostRow]
  BY <1>1, <1>2, <1>4 DEF PostRow, TInv, TypeOK
<1>6. RowsKept
  BY <1>3, <1>5 DEF RowsKept
<1> QED
  BY <1>1, <1>3, <1>5, <1>6 DEF c, d

\* The other steps write no row.
LEMMA OtherSteps ==
    ASSUME [Next]_vars,
           ~ \E q \in Reqs, u \in Users, p \in Posts : CreatePost(q, u, p),
           ~ \E q \in Reqs, p \in Posts : ShareCommit(q, p) /\ post' # post,
           ~ \E q \in Reqs : DeletePostCommit(q) \/ DeleteCommentCommit(q),
           ~ \E q \in Reqs, c \in Comments : CommentCommit(q, c)
    PROVE  UNCHANGED <<post, comment>>
BY DEF Next, vars, ShareRead, DeletePostRead, CommentRead, ParentRead, DeleteCommentRead,
       ShareCommit

\* Whatever a step does, the rows stay.
LEMMA StepKeepsRows ==
    ASSUME TInv, [Next]_vars
    PROVE  RowsKept
<1>1. ASSUME UNCHANGED <<post, comment>> PROVE RowsKept
  BY <1>1 DEF RowsKept
<1> QED
  BY <1>1, CreatePostRows, ShareRows, DeletePostRows, CommentRows, DeleteCommentRows,
     OtherSteps

-----------------------------------------------------------------------------
(* Type correctness.                                                         *)

\* Init establishes the invariant.
LEMMA TypeInit == Init => TInv
BY IdleRequest, FS_EmptySet
DEF Init, TInv, TypeOK, HandlersOK, Loaded, SharesPointAtOriginals, Idle

\* Every step leaves well-typed tables, finite ones, with every comment in a
\* post and every share at an original.
LEMMA TablesStep ==
    ASSUME ConstantsOK, TInv, [Next]_vars
    PROVE  /\ DOMAIN post' \subseteq Posts /\ post' \in [DOMAIN post' -> PostRow]
           /\ DOMAIN comment' \subseteq Comments
           /\ comment' \in [DOMAIN comment' -> CommentRow]
           /\ IsFiniteSet(DOMAIN post') /\ IsFiniteSet(DOMAIN comment')
           /\ \A c \in DOMAIN comment' : comment'[c].post \in DOMAIN post'
           /\ SharesPointAtOriginals'
<1> DEFINE T == /\ DOMAIN post' \subseteq Posts /\ post' \in [DOMAIN post' -> PostRow]
                /\ DOMAIN comment' \subseteq Comments
                /\ comment' \in [DOMAIN comment' -> CommentRow]
                /\ IsFiniteSet(DOMAIN post') /\ IsFiniteSet(DOMAIN comment')
                /\ \A c \in DOMAIN comment' : comment'[c].post \in DOMAIN post'
                /\ SharesPointAtOriginals'
<1>1. ASSUME NEW q \in Reqs, NEW u \in Users, NEW p \in Posts, CreatePost(q, u, p)
      PROVE  T
  <2>1. IsFiniteSet(DOMAIN post') /\ UNCHANGED comment
    BY <1>1, CreatePostRows, FS_AddElement DEF TInv, HandlersOK, CreatePost
  <2>2. SharesPointAtOriginals'
    <3>1. /\ DOMAIN post' = DOMAIN post \cup {p} /\ p \notin DOMAIN post
          /\ post'[p].shares = None
          /\ \A x \in DOMAIN post : post'[x].shares = post[x].shares
      <4>1. /\ RowsKept
            /\ DOMAIN post' = DOMAIN post \cup {p} /\ p \notin DOMAIN post
            /\ post'[p] = NewPost(u, None)
        BY <1>1, CreatePostRows
      <4> QED
        BY <4>1 DEF NewPost, RowsKept
    <3> QED
      BY <3>1 DEF TInv, SharesPointAtOriginals
  <2> QED
    BY <1>1, <2>1, <2>2, CreatePostRows DEF TInv, TypeOK, HandlersOK
<1>2. ASSUME NEW q \in Reqs, NEW p \in Posts, ShareCommit(q, p), post' # post
      PROVE  T
  <2>1. IsFiniteSet(DOMAIN post') /\ UNCHANGED comment
    BY <1>2, ShareRows, FS_AddElement DEF TInv, HandlersOK, ShareCommit
  <2>2. SharesPointAtOriginals'
    <3>1. post[req[q].post].shares = None /\ req[q].post \in DOMAIN post
      BY <1>2 DEF ShareCommit, TInv, HandlersOK, Loaded
    <3>2. /\ DOMAIN post' = DOMAIN post \cup {p} /\ p \notin DOMAIN post
          /\ post'[p].shares = req[q].post
          /\ \A x \in DOMAIN post : post'[x].shares = post[x].shares
      <4>1. /\ RowsKept
            /\ DOMAIN post' = DOMAIN post \cup {p} /\ p \notin DOMAIN post
            /\ post'[p] = NewPost(req[q].user, req[q].post)
        BY <1>2, ShareRows
      <4> QED
        BY <4>1 DEF NewPost, RowsKept
    <3> QED
      BY <3>1, <3>2 DEF TInv, SharesPointAtOriginals
  <2>3. DOMAIN post' = DOMAIN post \cup {p} /\ post' \in [DOMAIN post' -> PostRow]
    BY <1>2, ShareRows
  <2> QED
    BY <2>1, <2>2, <2>3 DEF TInv, TypeOK, HandlersOK
<1>3. ASSUME NEW q \in Reqs, DeletePostCommit(q) PROVE T
  <2>1. UNCHANGED comment
    BY <1>3 DEF DeletePostCommit
  <2> QED
    BY <1>3, <2>1, DeletePostRows DEF TInv, TypeOK, HandlersOK, SharesPointAtOriginals
<1>4. ASSUME NEW q \in Reqs, NEW c \in Comments, CommentCommit(q, c) PROVE T
  <2>1. /\ DOMAIN comment' = DOMAIN comment \cup {c}
        /\ comment'[c].post = req[q].post /\ req[q].post \in DOMAIN post
        /\ comment' \in [DOMAIN comment' -> CommentRow]
        /\ DOMAIN post' = DOMAIN post /\ post' \in [DOMAIN post' -> PostRow]
        /\ \A x \in DOMAIN post : post'[x].shares = post[x].shares
        /\ RowsKept
    <3>1. /\ DOMAIN comment' = DOMAIN comment \cup {c}
          /\ req[q].post \in DOMAIN post
          /\ comment' \in [DOMAIN comment' -> CommentRow]
          /\ DOMAIN post' = DOMAIN post /\ post' \in [DOMAIN post' -> PostRow]
          /\ RowsKept
      BY <1>4, CommentRows
    <3>2. comment'[c].post = req[q].post
      BY <1>4 DEF CommentCommit
    <3> QED
      BY <3>1, <3>2 DEF RowsKept
  <2>2. IsFiniteSet(DOMAIN comment')
    BY <2>1, FS_AddElement DEF TInv, HandlersOK
  <2>3. \A x \in DOMAIN comment' : comment'[x].post \in DOMAIN post'
    BY <2>1 DEF TInv, HandlersOK, RowsKept
  <2>4. SharesPointAtOriginals'
    BY <2>1 DEF TInv, SharesPointAtOriginals
  <2> QED
    BY <2>1, <2>2, <2>3, <2>4 DEF TInv, TypeOK, HandlersOK
<1>5. ASSUME NEW q \in Reqs, DeleteCommentCommit(q) PROVE T
  <2>1. SharesPointAtOriginals'
    BY <1>5, DeleteCommentRows DEF TInv, SharesPointAtOriginals
  <2> QED
    BY <1>5, <2>1, DeleteCommentRows DEF TInv, TypeOK, HandlersOK
<1>6. ASSUME UNCHANGED <<post, comment>> PROVE T
  BY <1>6 DEF TInv, TypeOK, HandlersOK, SharesPointAtOriginals
<1> QED
  BY <1>1, <1>2, <1>3, <1>4, <1>5, <1>6, OtherSteps

\* Every step leaves requests that are well typed and have loaded what is there.
LEMMA RequestsStep ==
    ASSUME ConstantsOK, TInv, [Next]_vars
    PROVE  req' \in [Reqs -> Request] /\ \A r \in Reqs : Loaded(req[r])'
<1> DEFINE R == req' \in [Reqs -> Request] /\ \A r \in Reqs : Loaded(req[r])'
<1>1. RowsKept /\ TypeOK
  BY StepKeepsRows DEF TInv
<1>2. ASSUME NEW q \in Reqs, Ends(q) PROVE R
  BY <1>1, <1>2, EndsType, StaysLoaded
<1>3. ASSUME NEW q \in Reqs, NEW pc \in Stages, NEW u \in Users \cup {None},
             NEW p \in Posts \cup {None}, NEW c \in Comments \cup {None},
             Goes(q, pc, u, p, c), UNCHANGED <<post, comment>>,
             Loaded([pc |-> pc, user |-> u, post |-> p, comment |-> c])
      PROVE  R
  <2>1. /\ req' \in [Reqs -> Request]
        /\ req'[q] = [pc |-> pc, user |-> u, post |-> p, comment |-> c]
        /\ \A r \in Reqs \ {q} : req'[r] = req[r]
    BY <1>1, <1>3, GoesType
  <2>2. Loaded(req[q])'
    BY <1>3, <2>1 DEF Loaded
  <2> QED
    BY <1>1, <2>1, <2>2, StaysLoaded
<1>4. ASSUME NEW q \in Reqs, NEW u \in Users, NEW p \in Posts, ShareRead(q, u, p) PROVE R
  <2>1. /\ Credited(p) \in DOMAIN post /\ Credited(p) \in Posts
        /\ post[Credited(p)].shares = None
    BY <1>4 DEF ShareRead, Commentable, Credited, TInv, TypeOK, SharesPointAtOriginals
  <2> QED
    BY <1>3, <1>4, <2>1 DEF ShareRead, Loaded, Stages
<1>5. ASSUME NEW q \in Reqs, NEW u \in Users, NEW p \in Posts, DeletePostRead(q, u, p)
      PROVE  R
  BY <1>3, <1>5 DEF DeletePostRead, Commentable, Loaded, Stages
<1>6. ASSUME NEW q \in Reqs, NEW u \in Users, NEW p \in Posts, CommentRead(q, u, p) PROVE R
  <2>1. CASE Goes(q, "comment", u, p, None)
    BY <1>3, <1>6, <2>1 DEF CommentRead, Commentable, Loaded, Stages
  <2>2. ASSUME NEW c \in DOMAIN comment, Goes(q, "parent", u, p, c) PROVE R
    <3>1. c \in Comments
      BY DEF TInv, TypeOK
    <3> QED
      BY <1>3, <1>6, <2>2, <3>1 DEF CommentRead, Commentable, Loaded, Stages
  <2> QED
    BY <1>6, <2>1, <2>2 DEF CommentRead
<1>7. ASSUME NEW q \in Reqs, ParentRead(q) PROVE R
  <2>1. CASE req' = [req EXCEPT ![q].pc = "comment"] /\ Answerable(req[q].comment, req[q].post)
    <3>1. /\ Loaded(req[q]) /\ req[q] \in Request /\ req[q].pc = "parent"
          /\ UNCHANGED <<post, comment>>
      BY <1>7 DEF ParentRead, TInv, TypeOK, HandlersOK
    <3>2. /\ req' \in [Reqs -> Request]
          /\ req'[q] = [req[q] EXCEPT !.pc = "comment"]
          /\ \A r \in Reqs \ {q} : req'[r] = req[r]
      BY <1>1, <2>1, <3>1 DEF TypeOK, Request, Stages
    <3>3. Loaded(req[q])'
      BY <2>1, <3>1, <3>2 DEF Loaded, Answerable, Request
    <3> QED
      BY <1>1, <3>2, <3>3, StaysLoaded
  <2> QED
    BY <1>2, <1>7, <2>1 DEF ParentRead
<1>8. ASSUME NEW q \in Reqs, NEW u \in Users, NEW c \in Comments, DeleteCommentRead(q, u, c)
      PROVE  R
  BY <1>3, <1>8 DEF DeleteCommentRead, Loaded, Stages
<1>9. ASSUME UNCHANGED req PROVE R
  BY <1>1, <1>9, StaysLoaded DEF TypeOK
<1> QED
  BY <1>2, <1>4, <1>5, <1>6, <1>7, <1>8, <1>9
  DEF Next, vars, CreatePost, ShareCommit, DeletePostCommit, CommentCommit,
      DeleteCommentCommit

\* Every step preserves the invariant.
LEMMA TypeStep == ASSUME ConstantsOK PROVE TInv /\ [Next]_vars => TInv'
BY TablesStep, RequestsStep DEF TInv, TypeOK, HandlersOK

\* The type invariant, with what the handlers rely on, for any constants.
THEOREM TypeCorrect == ASSUME ConstantsOK PROVE Spec => []TInv
<1>1. Init => TInv
  BY TypeInit
<1>2. TInv /\ [Next]_vars => TInv'
  BY TypeStep
<1> QED
  BY <1>1, <1>2, PTL DEF Spec

\* In particular TypeOK.
THEOREM TypeInvariant == ASSUME ConstantsOK PROVE Spec => []TypeOK
BY TypeCorrect, PTL DEF TInv

-----------------------------------------------------------------------------
(* The counters.                                                             *)

\* What is counted is finite.
LEMMA CountedFinite ==
    ASSUME TInv, NEW x
    PROVE  /\ IsFiniteSet(SharesOf(x)) /\ Cardinality(SharesOf(x)) \in Nat
           /\ IsFiniteSet(RepliesTo(x)) /\ Cardinality(RepliesTo(x)) \in Nat
           /\ IsFiniteSet(Conversation(x)) /\ Cardinality(Conversation(x)) \in Nat
<1>1. /\ SharesOf(x) \in SUBSET DOMAIN post
      /\ RepliesTo(x) \in SUBSET DOMAIN comment
      /\ Conversation(x) \in SUBSET DOMAIN comment
  BY DEF SharesOf, RepliesTo, Conversation
<1>2. IsFiniteSet(DOMAIN post) /\ IsFiniteSet(DOMAIN comment)
  BY DEF TInv, HandlersOK
<1> QED
  BY <1>1, <1>2, FS_Subset, FS_CardinalityType

\* A new post has no shares, and one more post that shares nothing leaves the
\* shares of every other.
LEMMA SharesAfterCreate ==
    ASSUME ConstantsOK, TInv, NEW q \in Reqs, NEW u \in Users, NEW p \in Posts,
           CreatePost(q, u, p)
    PROVE  \A x \in DOMAIN post' : SharesOf(x)' = IF x = p THEN {} ELSE SharesOf(x)
<1>1. /\ RowsKept
      /\ DOMAIN post' = DOMAIN post \cup {p} /\ p \notin DOMAIN post
      /\ post'[p] = NewPost(u, None)
  BY CreatePostRows
<1>2. /\ post'[p].shares = None
      /\ \A x \in DOMAIN post : post'[x].shares = post[x].shares
  BY <1>1 DEF NewPost, RowsKept
<1>3. \A x \in DOMAIN post' : x # None
  BY <1>1 DEF ConstantsOK, TInv, TypeOK
<1>4. \A s \in DOMAIN post : post[s].shares # p
  BY <1>1, <1>3 DEF TInv, SharesPointAtOriginals
<1> QED
  BY <1>1, <1>2, <1>3, <1>4 DEF SharesOf

\* A share is one more share of its original alone.
LEMMA SharesAfterShare ==
    ASSUME ConstantsOK, TInv, NEW q \in Reqs, NEW p \in Posts, ShareCommit(q, p),
           post' # post
    PROVE  \A x \in DOMAIN post' :
               SharesOf(x)' = IF x = p THEN {}
                              ELSE IF x = req[q].post THEN SharesOf(x) \cup {p}
                              ELSE SharesOf(x)
<1>1. /\ RowsKept
      /\ DOMAIN post' = DOMAIN post \cup {p} /\ p \notin DOMAIN post
      /\ req[q].post \in DOMAIN post
      /\ post'[p] = NewPost(req[q].user, req[q].post)
  BY ShareRows
<1>2. /\ post'[p].shares = req[q].post
      /\ \A x \in DOMAIN post : post'[x].shares = post[x].shares
  BY <1>1 DEF NewPost, RowsKept
<1>3. p # None
  BY DEF ConstantsOK
<1>4. \A s \in DOMAIN post : post[s].shares # p
  BY <1>1, <1>3 DEF TInv, SharesPointAtOriginals
<1> QED
  BY <1>1, <1>2, <1>4 DEF SharesOf

\* The count of shares is exact after every step.
LEMMA ShareCountStep ==
    ASSUME ConstantsOK, TInv, ShareCountExact, [Next]_vars
    PROVE  ShareCountExact'
<1>1. ASSUME NEW q \in Reqs, NEW u \in Users, NEW p \in Posts, CreatePost(q, u, p)
      PROVE  ShareCountExact'
  <2>1. /\ DOMAIN post' = DOMAIN post \cup {p}
        /\ post'[p].shareCount = 0
        /\ \A x \in DOMAIN post : x # p /\ post'[x].shareCount = post[x].shareCount
    <3>1. /\ DOMAIN post' = DOMAIN post \cup {p} /\ p \notin DOMAIN post
          /\ post'[p] = NewPost(u, None)
          /\ \A x \in DOMAIN post : post'[x] = post[x]
      BY <1>1, CreatePostRows
    <3> QED
      BY <3>1 DEF NewPost
  <2>2. \A x \in DOMAIN post' : SharesOf(x)' = IF x = p THEN {} ELSE SharesOf(x)
    BY <1>1, SharesAfterCreate
  <2> QED
    BY <2>1, <2>2, FS_EmptySet DEF ShareCountExact
<1>2. ASSUME NEW q \in Reqs, NEW p \in Posts, ShareCommit(q, p), post' # post
      PROVE  ShareCountExact'
  <2> DEFINE o == req[q].post
  <2>1. /\ DOMAIN post' = DOMAIN post \cup {p} /\ p \notin DOMAIN post
        /\ o \in DOMAIN post
        /\ post'[p].shareCount = 0
        /\ post'[o].shareCount = post[o].shareCount + 1
        /\ \A x \in DOMAIN post \ {o} : post'[x].shareCount = post[x].shareCount
    <3>1. /\ DOMAIN post' = DOMAIN post \cup {p} /\ p \notin DOMAIN post
          /\ o \in DOMAIN post
          /\ post'[p] = NewPost(req[q].user, o)
          /\ \A x \in DOMAIN post :
                post'[x] = IF x = o THEN [post[x] EXCEPT !.shareCount = @ + 1] ELSE post[x]
      BY <1>2, ShareRows
    <3>2. post'[o].shareCount = post[o].shareCount + 1
      <4>1. post'[o] = [post[o] EXCEPT !.shareCount = @ + 1] /\ post[o] \in PostRow
        BY <3>1 DEF TInv, TypeOK
      <4> QED
        BY <4>1 DEF PostRow
    <3> QED
      BY <3>1, <3>2 DEF NewPost
  <2>2. \A x \in DOMAIN post' :
           SharesOf(x)' = IF x = p THEN {}
                          ELSE IF x = o THEN SharesOf(x) \cup {p} ELSE SharesOf(x)
    BY <1>2, SharesAfterShare
  <2>3. Cardinality(SharesOf(o) \cup {p}) = Cardinality(SharesOf(o)) + 1
    <3>1. p \notin SharesOf(o)
      BY <2>1 DEF SharesOf
    <3> QED
      BY <3>1, CountedFinite, FS_AddElement
  <2> HIDE DEF o
  <2>4. ASSUME NEW x \in DOMAIN post' PROVE post'[x].shareCount = Cardinality(SharesOf(x))'
    <3>1. CASE x = p
      BY <2>1, <2>2, <3>1, FS_EmptySet
    <3>2. CASE x = o
      BY <2>1, <2>2, <2>3, <3>2 DEF ShareCountExact
    <3>3. CASE x # p /\ x # o
      BY <2>1, <2>2, <3>3 DEF ShareCountExact
    <3> QED
      BY <3>1, <3>2, <3>3
  <2> QED
    BY <2>4 DEF ShareCountExact
<1>3. ASSUME DOMAIN post' = DOMAIN post,
             \A x \in DOMAIN post : /\ post'[x].shares = post[x].shares
                                    /\ post'[x].shareCount = post[x].shareCount
      PROVE  ShareCountExact'
  <2>1. \A x \in DOMAIN post : SharesOf(x)' = SharesOf(x)
    BY <1>3 DEF SharesOf
  <2> QED
    BY <1>3, <2>1 DEF ShareCountExact
<1>4. ASSUME NEW q \in Reqs, DeletePostCommit(q) PROVE ShareCountExact'
  BY <1>3, <1>4, DeletePostRows
<1>5. ASSUME NEW q \in Reqs, NEW c \in Comments, CommentCommit(q, c) PROVE ShareCountExact'
  BY <1>3, <1>5, CommentRows
<1>6. ASSUME NEW q \in Reqs, DeleteCommentCommit(q) PROVE ShareCountExact'
  BY <1>3, <1>6, DeleteCommentRows
<1>7. ASSUME UNCHANGED <<post, comment>> PROVE ShareCountExact'
  BY <1>3, <1>7
<1> QED
  BY <1>1, <1>2, <1>4, <1>5, <1>6, <1>7, OtherSteps

\* A reply is one more reply of its parent alone, and one more comment of its
\* post's conversation alone.
LEMMA RepliesAfterComment ==
    ASSUME ConstantsOK, TInv, RepliesStayInThread,
           NEW q \in Reqs, NEW c \in Comments, CommentCommit(q, c)
    PROVE  /\ RepliesStayInThread'
           /\ \A x \in DOMAIN comment' :
                 RepliesTo(x)' = IF x = c THEN {}
                                 ELSE IF x = req[q].comment THEN RepliesTo(x) \cup {c}
                                 ELSE RepliesTo(x)
           /\ \A p \in DOMAIN post :
                 Conversation(p)' = IF p = req[q].post THEN Conversation(p) \cup {c}
                                    ELSE Conversation(p)
<1>1. /\ RowsKept
      /\ DOMAIN comment' = DOMAIN comment \cup {c} /\ c \notin DOMAIN comment
      /\ \A x \in DOMAIN comment :
            comment'[x] = IF x = req[q].comment
                          THEN [comment[x] EXCEPT !.replyCount = @ + 1] ELSE comment[x]
  BY CommentRows
<1>2. /\ comment'[c].parent = req[q].comment
      /\ comment'[c].post = req[q].post
      /\ ~comment'[c].deleted
  BY DEF CommentCommit
<1>3. \A x \in DOMAIN comment : comment'[x].deleted = comment[x].deleted
  BY <1>1 DEF TInv, TypeOK, CommentRow
<1>4. /\ c # None
      /\ req[q].comment # None =>
            req[q].comment \in DOMAIN comment /\ comment[req[q].comment].post = req[q].post
  BY DEF ConstantsOK, CommentCommit, TInv, HandlersOK, Loaded
<1>5. RepliesStayInThread'
  BY <1>1, <1>2, <1>4 DEF RepliesStayInThread, RowsKept
<1>6. \A d \in DOMAIN comment : comment[d].parent # c
  BY <1>1, <1>4 DEF RepliesStayInThread
<1>7. \A x \in DOMAIN comment' :
         RepliesTo(x)' = IF x = c THEN {}
                         ELSE IF x = req[q].comment THEN RepliesTo(x) \cup {c}
                         ELSE RepliesTo(x)
  BY <1>1, <1>2, <1>4, <1>6 DEF RepliesTo, RowsKept
<1>8. \A p \in DOMAIN post :
         Conversation(p)' = IF p = req[q].post THEN Conversation(p) \cup {c}
                            ELSE Conversation(p)
  BY <1>1, <1>2, <1>3 DEF Conversation, RowsKept
<1> QED
  BY <1>5, <1>7, <1>8

\* The count of replies is exact after every step, and replies stay in their
\* thread.
LEMMA ReplyCountStep ==
    ASSUME ConstantsOK, TInv, RepliesStayInThread, ReplyCountExact, [Next]_vars
    PROVE  RepliesStayInThread' /\ ReplyCountExact'
<1>1. ASSUME NEW q \in Reqs, NEW c \in Comments, CommentCommit(q, c)
      PROVE  RepliesStayInThread' /\ ReplyCountExact'
  <2> DEFINE o == req[q].comment
  <2>1. /\ RepliesStayInThread'
        /\ \A x \in DOMAIN comment' :
              RepliesTo(x)' = IF x = c THEN {}
                              ELSE IF x = o THEN RepliesTo(x) \cup {c} ELSE RepliesTo(x)
    BY <1>1, RepliesAfterComment
  <2>2. /\ DOMAIN comment' = DOMAIN comment \cup {c} /\ c \notin DOMAIN comment
        /\ \A x \in DOMAIN comment :
              comment'[x] = IF x = o THEN [comment[x] EXCEPT !.replyCount = @ + 1]
                            ELSE comment[x]
    BY <1>1, CommentRows
  <2>3. comment'[c].replyCount = 0
    BY <1>1 DEF CommentCommit
  <2> HIDE DEF o
  <2>4. ASSUME NEW x \in DOMAIN comment'
        PROVE  comment'[x].replyCount = Cardinality(RepliesTo(x))'
    <3>1. CASE x = c
      BY <2>1, <2>3, <3>1, FS_EmptySet
    <3>2. CASE x = o /\ x # c
      <4>1. x \in DOMAIN comment /\ comment[x] \in CommentRow
        BY <2>2, <3>2 DEF TInv, TypeOK
      <4>2. comment'[x].replyCount = comment[x].replyCount + 1
        BY <2>2, <3>2, <4>1 DEF CommentRow
      <4>3. Cardinality(RepliesTo(x) \cup {c}) = Cardinality(RepliesTo(x)) + 1
        <5>1. c \notin RepliesTo(x)
          BY <2>2 DEF RepliesTo
        <5> QED
          BY <5>1, CountedFinite, FS_AddElement
      <4> QED
        BY <2>1, <3>2, <4>1, <4>2, <4>3 DEF ReplyCountExact
    <3>3. CASE x # o /\ x # c
      BY <2>1, <2>2, <3>3 DEF ReplyCountExact
    <3> QED
      BY <3>1, <3>2, <3>3
  <2> QED
    BY <2>1, <2>4 DEF ReplyCountExact
<1>2. ASSUME DOMAIN comment' = DOMAIN comment,
             \A x \in DOMAIN comment : /\ comment'[x].post = comment[x].post
                                       /\ comment'[x].parent = comment[x].parent
                                       /\ comment'[x].replyCount = comment[x].replyCount
      PROVE  RepliesStayInThread' /\ ReplyCountExact'
  <2>1. \A x \in DOMAIN comment : RepliesTo(x)' = RepliesTo(x)
    BY <1>2 DEF RepliesTo
  <2> QED
    BY <1>2, <2>1 DEF ReplyCountExact, RepliesStayInThread
<1>3. ASSUME NEW q \in Reqs, DeleteCommentCommit(q)
      PROVE  RepliesStayInThread' /\ ReplyCountExact'
  BY <1>2, <1>3, DeleteCommentRows
<1>4. ASSUME UNCHANGED comment PROVE RepliesStayInThread' /\ ReplyCountExact'
  BY <1>2, <1>4
<1> QED
  BY <1>1, <1>3, <1>4, OtherSteps DEF CreatePost, ShareCommit, DeletePostCommit

\* Under a post p after a step: what is claimed is there, and where the claim
\* falls short by more than before, a stale deletion has been at work.
NoWorse(p) ==
    /\ post'[p].commentCount <= Cardinality(Conversation(p)')
    /\ p \in DOMAIN post /\ Missing(p)' > Missing(p) =>
          \E q \in Reqs : Stale(q) /\ comment[req[q].comment].post = p

\* A comment is counted together with its row.
LEMMA NoWorseComment ==
    ASSUME ConstantsOK, IInv, NEW q \in Reqs, NEW c \in Comments, CommentCommit(q, c),
           NEW p \in DOMAIN post
    PROVE  NoWorse(p)
<1>1. /\ Conversation(p)' = IF p = req[q].post THEN Conversation(p) \cup {c}
                            ELSE Conversation(p)
      /\ c \notin Conversation(p)
  <2>1. c \notin DOMAIN comment
    BY DEF CommentCommit
  <2> QED
    BY <2>1, RepliesAfterComment DEF IInv, ConversationExact, Conversation
<1>2. post'[p].commentCount = IF p = req[q].post THEN post[p].commentCount + 1
                              ELSE post[p].commentCount
  BY CommentRows DEF IInv
<1>3. /\ IsFiniteSet(Conversation(p)) /\ Cardinality(Conversation(p)) \in Nat
      /\ post[p].commentCount \in Nat /\ post[p].commentCount <= Cardinality(Conversation(p))
  BY CountedFinite DEF IInv, TInv, TypeOK, PostRow, ConversationExact, NeverOvercounts
<1>4. Cardinality(Conversation(p) \cup {c}) = Cardinality(Conversation(p)) + 1
  BY <1>1, <1>3, FS_AddElement
<1> QED
  BY <1>1, <1>2, <1>3, <1>4 DEF NoWorse, Missing

\* A comment is uncounted together with its removal, but for one that was
\* removed already.
LEMMA NoWorseDeletion ==
    ASSUME ConstantsOK, IInv, NEW q \in Reqs, DeleteCommentCommit(q), NEW p \in DOMAIN post
    PROVE  NoWorse(p)
<1> DEFINE c == req[q].comment
<1>1. /\ c \in DOMAIN comment
      /\ DOMAIN comment' = DOMAIN comment
      /\ \A x \in DOMAIN comment : /\ comment'[x].post = comment[x].post
                                   /\ comment'[x].deleted <=> (x = c \/ comment[x].deleted)
      /\ post'[p].commentCount = IF p = comment[c].post THEN Decremented(post[p].commentCount)
                                 ELSE post[p].commentCount
  BY DeleteCommentRows DEF IInv
<1> HIDE DEF c
<1>2. Conversation(p)' = Conversation(p) \ {c}
  <2>1. \A x : x \in Conversation(p)' <=> x \in DOMAIN comment /\ comment[x].post = p
                                         /\ ~(x = c \/ comment[x].deleted)
    <3>1. \A x : x \in Conversation(p)' <=> x \in DOMAIN comment' /\ comment'[x].post = p
                                            /\ ~comment'[x].deleted
      BY Zenon DEF Conversation
    <3>2. \A x \in DOMAIN comment : /\ comment'[x].post = comment[x].post
                                    /\ comment'[x].deleted <=> (x = c \/ comment[x].deleted)
      BY <1>1
    <3>3. DOMAIN comment' = DOMAIN comment
      BY <1>1
    <3> QED
      BY <3>1, <3>2, <3>3, Zenon
  <2>2. \A x : x \in Conversation(p) <=> x \in DOMAIN comment /\ comment[x].post = p
                                         /\ ~comment[x].deleted
    BY Zenon DEF Conversation
  <2> QED
    BY <2>1, <2>2, Zenon
<1>3. /\ IsFiniteSet(Conversation(p)) /\ Cardinality(Conversation(p)) \in Nat
      /\ post[p].commentCount \in Nat /\ post[p].commentCount <= Cardinality(Conversation(p))
  BY CountedFinite DEF IInv, TInv, TypeOK, PostRow, ConversationExact, NeverOvercounts
<1>4. CASE c \in Conversation(p)
  <2>1. p = comment[c].post
    BY <1>4 DEF Conversation
  <2>2. /\ Cardinality(Conversation(p))' = Cardinality(Conversation(p)) - 1
        /\ Cardinality(Conversation(p)) > 0
    BY <1>2, <1>3, <1>4, FS_RemoveElement, FS_EmptySet
  <2> QED
    BY <1>1, <1>3, <2>1, <2>2 DEF NoWorse, Missing, Decremented
<1>5. CASE c \notin Conversation(p)
  <2>1. Conversation(p)' = Conversation(p)
    BY <1>2, <1>5
  <2>2. CASE p = comment[c].post
    <3>1. Stale(q)
      BY <1>1, <1>5, <2>2 DEF Conversation, Stale, DeleteCommentCommit, c
    <3> QED
      BY <1>1, <1>3, <2>1, <2>2, <3>1 DEF NoWorse, Decremented, c
  <2>3. CASE p # comment[c].post
    BY <1>1, <1>3, <2>1, <2>3 DEF NoWorse, Missing
  <2> QED
    BY <2>2, <2>3
<1> QED
  BY <1>4, <1>5

\* No step makes a comment count worse, but for a stale deletion.
LEMMA CommentCountStep ==
    ASSUME ConstantsOK, IInv, [Next]_vars, NEW p \in DOMAIN post'
    PROVE  NoWorse(p)
<1>1. ASSUME NEW q \in Reqs, NEW c \in Comments, CommentCommit(q, c) PROVE NoWorse(p)
  BY <1>1, NoWorseComment, CommentRows DEF IInv
<1>2. ASSUME NEW q \in Reqs, DeleteCommentCommit(q) PROVE NoWorse(p)
  BY <1>2, NoWorseDeletion, DeleteCommentRows DEF IInv
<1>3. ASSUME UNCHANGED comment,
             p \in DOMAIN post => post'[p].commentCount = post[p].commentCount,
             p \notin DOMAIN post => post'[p].commentCount = 0
      PROVE  NoWorse(p)
  <2>1. Conversation(p)' = Conversation(p) /\ Cardinality(Conversation(p)) \in Nat
    BY <1>3, CountedFinite DEF Conversation, IInv
  <2>2. p \in DOMAIN post => post[p].commentCount \in Nat
    BY DEF IInv, TInv, TypeOK, PostRow
  <2> QED
    BY <1>3, <2>1, <2>2 DEF NoWorse, Missing, IInv, ConversationExact, NeverOvercounts
<1>4. ASSUME NEW q \in Reqs, NEW u \in Users, NEW s \in Posts, CreatePost(q, u, s)
      PROVE  NoWorse(p)
  BY <1>3, <1>4 DEF CreatePost, NewPost
<1>5. ASSUME NEW q \in Reqs, NEW s \in Posts, ShareCommit(q, s), post' # post
      PROVE  NoWorse(p)
  <2>1. \A x \in DOMAIN post :
           [post[x] EXCEPT !.shareCount = @ + 1].commentCount = post[x].commentCount
    BY DEF IInv, TInv, TypeOK, PostRow
  <2>2. /\ post' = [x \in DOMAIN post \cup {s} |->
                      IF x = s THEN NewPost(req[q].user, req[q].post)
                      ELSE ShareCredited(x, req[q].post)]
        /\ s \notin DOMAIN post /\ UNCHANGED comment
    BY <1>5 DEF ShareCommit
  <2>3. ASSUME p \in DOMAIN post PROVE post'[p].commentCount = post[p].commentCount
    BY <2>1, <2>2, <2>3 DEF ShareCredited
  <2>4. ASSUME p \notin DOMAIN post PROVE post'[p].commentCount = 0
    BY <2>2, <2>4 DEF NewPost
  <2> QED
    BY <1>3, <2>2, <2>3, <2>4
<1>6. ASSUME NEW q \in Reqs, DeletePostCommit(q) PROVE NoWorse(p)
  <2>1. /\ DOMAIN post' = DOMAIN post
        /\ \A x \in DOMAIN post : post'[x].commentCount = post[x].commentCount
    BY <1>6, DeletePostRows DEF IInv
  <2> QED
    BY <1>3, <1>6, <2>1 DEF DeletePostCommit
<1>7. ASSUME UNCHANGED <<post, comment>> PROVE NoWorse(p)
  BY <1>3, <1>7
<1> QED
  BY <1>1, <1>2, <1>4, <1>5, <1>6, <1>7, OtherSteps

\* The whole invariant is inductive.
LEMMA Inductive == ASSUME ConstantsOK PROVE Spec => []IInv
<1>1. Init => IInv
  BY TypeInit
  DEF Init, IInv, ConversationExact, SharesPointAtOriginals, ShareCountExact,
      RepliesStayInThread, ReplyCountExact, NeverOvercounts
<1>2. IInv /\ [Next]_vars => IInv'
  <2> SUFFICES ASSUME IInv, [Next]_vars PROVE IInv'
    OBVIOUS
  <2>1. TInv'
    BY TypeStep DEF IInv
  <2>2. ShareCountExact' /\ RepliesStayInThread' /\ ReplyCountExact'
    BY ShareCountStep, ReplyCountStep DEF IInv, ConversationExact
  <2>3. NeverOvercounts'
    BY CommentCountStep DEF NoWorse, NeverOvercounts
  <2> QED
    BY <2>1, <2>2, <2>3 DEF IInv, TInv, ConversationExact
<1> QED
  BY <1>1, <1>2, PTL DEF Spec

\* However shares, replies and removals of any number of requests overlap, a
\* share leads to an original and a reply to its own thread, both are counted
\* exactly, and a comment count is never too high (create_post,
\* create_comment, delete_comment).
THEOREM ConversationTheorem == ASSUME ConstantsOK PROVE Spec => []ConversationExact
BY Inductive, PTL DEF IInv

-----------------------------------------------------------------------------
(* Action properties.                                                        *)

\* "Counts are maintained, not computed": only a deletion of a comment that
\* another request deleted after this one had loaded it makes a comment count
\* fall short.
THEOREM DriftTheorem == ASSUME ConstantsOK PROVE Spec => OnlyDoubleDeleteDrifts
<1>1. IInv /\ [Next]_vars =>
        [\A p \in DOMAIN post :
            Missing(p)' > Missing(p) =>
                \E q \in Reqs : Stale(q) /\ comment[req[q].comment].post = p]_vars
  <2> SUFFICES ASSUME IInv, [Next]_vars, NEW p \in DOMAIN post, Missing(p)' > Missing(p)
               PROVE  \E q \in Reqs : Stale(q) /\ comment[req[q].comment].post = p
    OBVIOUS
  <2>1. p \in DOMAIN post'
    BY StepKeepsRows DEF IInv, RowsKept
  <2> QED
    BY <2>1, CommentCountStep DEF NoWorse
<1> QED
  BY <1>1, Inductive, PTL DEF Spec, OnlyDoubleDeleteDrifts

\* A removed post stays quiet: only a request that loads its post first and
\* finds it in place can comment on it.
LEMMA QuietStep ==
    ASSUME IInv, [Next]_vars, NEW p \in Posts, Quiet(p)
    PROVE  /\ Quiet(p)'
           /\ \A c \in DOMAIN comment' : comment'[c].post = p => c \in DOMAIN comment
<1>1. RowsKept /\ TypeOK
  BY StepKeepsRows DEF IInv, TInv
<1>2. ASSUME NEW c \in DOMAIN comment', c \notin DOMAIN comment
      PROVE  comment'[c].post # p
  <2>1. PICK q \in Reqs, d \in Comments : CommentCommit(q, d)
    <3>1. ASSUME NEW q \in Reqs, DeleteCommentCommit(q) PROVE FALSE
      BY <1>2, <3>1, DeleteCommentRows DEF IInv
    <3> QED
      BY <1>2, <3>1, OtherSteps DEF CreatePost, ShareCommit, DeletePostCommit
  <2>2. c = d
    BY <1>2, <2>1 DEF CommentCommit
  <2>3. comment'[c].post = req[q].post
    BY <2>1, <2>2 DEF CommentCommit
  <2> QED
    BY <2>1, <2>3 DEF CommentCommit, Quiet
<1>3. p \in DOMAIN post' /\ post'[p].deleted
  BY <1>1 DEF RowsKept, Quiet
<1> DEFINE R == \A r \in Reqs : req'[r].pc \in {"parent", "comment"} => req'[r].post # p
<1>4. ASSUME NEW q \in Reqs, Ends(q) PROVE R
  BY <1>1, <1>4, EndsType DEF Quiet, Idle
<1>5. ASSUME NEW q \in Reqs, NEW u \in Users, NEW s \in Posts, ShareRead(q, u, s) PROVE R
  BY <1>1, <1>5 DEF ShareRead, Goes, Quiet, TypeOK
<1>6. ASSUME NEW q \in Reqs, NEW u \in Users, NEW s \in Posts, DeletePostRead(q, u, s)
      PROVE  R
  BY <1>1, <1>6 DEF DeletePostRead, Goes, Quiet, TypeOK
<1>7. ASSUME NEW q \in Reqs, NEW u \in Users, NEW s \in Posts, CommentRead(q, u, s) PROVE R
  <2>1. s # p
    BY <1>7 DEF CommentRead, Commentable, Quiet
  <2> QED
    BY <1>1, <1>7, <2>1 DEF CommentRead, Goes, Quiet, TypeOK
<1>8. ASSUME NEW q \in Reqs, ParentRead(q) PROVE R
  <2>1. CASE req' = [req EXCEPT ![q].pc = "comment"]
    BY <1>1, <1>8, <2>1 DEF ParentRead, Quiet, TypeOK, Request
  <2> QED
    BY <1>4, <1>8, <2>1 DEF ParentRead
<1>9. ASSUME NEW q \in Reqs, NEW u \in Users, NEW c \in Comments, DeleteCommentRead(q, u, c)
      PROVE  R
  BY <1>1, <1>9 DEF DeleteCommentRead, Goes, Quiet, TypeOK
<1>10. ASSUME UNCHANGED req PROVE R
  BY <1>10 DEF Quiet
<1>11. R
  BY <1>4, <1>5, <1>6, <1>7, <1>8, <1>9, <1>10
  DEF Next, vars, CreatePost, ShareCommit, DeletePostCommit, CommentCommit,
      DeleteCommentCommit
<1> QED
  BY <1>2, <1>3, <1>11 DEF Quiet

\* Once a post is removed and the comments in flight have ended, no later
\* request of any number adds a comment to it (_get_post refuses it).
THEOREM RemovedPostTheorem == ASSUME ConstantsOK PROVE Spec => RemovedPostIsQuiet
<1>1. IInv /\ [Next]_vars =>
        [\A p \in Posts :
            Quiet(p) =>
                /\ Quiet(p)'
                /\ \A c \in DOMAIN comment' :
                      comment'[c].post = p => c \in DOMAIN comment]_vars
  BY QuietStep
<1> QED
  BY <1>1, Inductive, PTL DEF Spec, RemovedPostIsQuiet

=============================================================================
