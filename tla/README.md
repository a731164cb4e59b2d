# Verification project for the Egress backend

Egress is the API behind an English-test preparation site: FastAPI handlers over
SQLAlchemy's `AsyncSession` and SQLite, one uvicorn worker. This directory holds
TLA+ models of the parts whose correctness depends on order - what two requests
may do to each other between two `await`s, what a crash leaves behind, what a
late or repeated call may still change - and of its algorithms: marking, bands,
study plans, hashtags. Every definition is translated from the
code; `PROJECT.json` maps each one to its lines.

## 1. Inventory

| Component | State | Operations | What makes it correct |
|---|---|---|---|
| Sessions and sign-in (`app/sessions.py`, `routers/auth.py`, `turnstile.py`, `main.py`) | `users`, `auth_sessions` | register, login, refresh, logout, token check, purge on boot | every token of a login comes from one exchange of an earlier one, under one fixed ceiling; a revoked login stays revoked; a replay revokes the login; every login ends; the purge takes only what is spent |
| Reactions (`routers/community.py`) | `community_reactions`, `reaction_count` | react, unreact | one reaction per user and target; counts equal rows |
| Posts, shares, comments (`routers/community.py`, `app/community.py`) | `community_posts`, `community_comments`, their counters | create, share, remove, comment, reply | shares never chain; replies stay in their thread; counters equal what they count |
| Hashtags (`_sync_tags`, `extract_tags`) | `community_post_tags` | create, edit, look up | tags are those of the text, and found as written |
| Attempts (`routers/attempts.py`) | `attempts`, `attempt_answers`, `attempt_criterion_scores` | start, save, submit, score criteria, predict | one open sitting; nothing changes after submission; marked once; the band follows from the scores |
| Marking and band tables (`marking.py`, `content.py`) | none | `mark_question`, `band_for_raw`, `overall_from_criteria` | marks are a pairing with the key; a key that passes the review is accepted; more marks never lower a band; rounding |
| Study plan store (`routers/study_plan.py`) | `study_plans`, `study_tasks` | create plan, create/move/delete task | positions of a day are distinct; one plan per user |
| Study plan generator (`app/study_plan.py`) | none | `generate_plan` | a week is handed out in full and within its hours; no skill starves; no ties |
| Content authoring (`routers/content.py`, `review_test`) | `tests`, `test_question_groups`, `test_questions` | create, update, publish, reorder, delete | a published test can be sat; numbers are not claimed twice; positions are contiguous; slugs are unique |
| Roles (`roles.py`, `routers/roles.py`) | `roles`, `users.role_slug` | create, assign | nobody grants a weight at or above their own |
| Keyset pagination (`app/community.py`, `_paginate`) | none | list feed, list comments | a scroll shows nothing twice and skips nothing that stays |
| Startup (`database.py`) | the schema | create tables, add columns and indexes, seed | every step idempotent across crashes |
| Admin statistics, request schemas, seed script | none | read only, declarative, one-off | not modelled |

The components meet in the database: a removed post or comment is a reaction
target that is refused; an author's edit of a question or a deleted test reaches
into attempts through foreign keys; every authenticated handler first passes the
token check of the session layer.

### How the code executes

* A request has its own `AsyncSession`. Handlers share one event loop and change
  over at any `await`, so between a handler's read and its commit other handlers
  run, commits included. Nothing in the code takes a lock across that gap.
* A statement that writes takes SQLite's write lock until the commit, so
  [first write ... commit] is one atomic step. The reads before it are not part
  of it: `pysqlite` opens a transaction at the first write only.
* The ORM writes the columns that differ from what it loaded. An UPDATE of a row
  that is gone raises `StaleDataError` and rolls back; a DELETE of one only
  warns. A unique or foreign-key violation rolls the whole commit back.
  Foreign keys, with their cascades, are on (`database.py:13-29`).
* A crash loses what is not committed. The purge of expired sessions runs on boot,
  before the first request.

Each model therefore splits a handler into one action per read that later steps
depend on and one per write transaction. A branch that answers an error without
writing is the absence of a step. A client that disconnects, or a process that
dies, in the middle of a handler is a slot that never takes its next step, which
every model without fairness allows; `Sessions` models the crash itself, since a
restart does something there.

### What is hard

Interleaved handlers that act on rows read earlier (every router); replay and
logout racing a rotation; expiry and purge against a family that is still in use;
a double tap on react, unreact, start or submit; an autosave that lands after the
submission; authors editing a paper that is being sat; scoring criteria in two
commits; positions computed from a maximum that has moved; two authors at one paper,
one of whom publishes it; a scroll through a list that changes; a boot cut off
between two DDL statements; chains of role calls; and arithmetic: half-even rounding,
shares carried from week to week, weeks cut short, a cap that outranks the key.
`PROJECT.json` lists each hazard at its line with the properties that would catch it.

## 2. Modules

| Module | Models | State |
|---|---|---|
| `Sessions` | the session layer, with interleaved handlers, clock, crash and boot | `clock`, `account` (users), `sess` (auth_sessions), `issued`, `req`, `up` |
| `LoginFamilies` | the abstract promise: a login is opened once, a live token is granted an exchange, each grant yields one token, a closed login grants nothing | `issued`, `live`, `grant` |
| `Reactions` | react and unreact | `reaction` (rows by id), `count`, `removed`, `used`, `req` |
| `Threads` | posts, shares, comments and their counters | `post`, `comment`, `req` |
| `PostTags` | tag synchronisation of one post | `body`, `tag` (rows by id), `removed`, `used`, `req` |
| `HashTags` | `extract_tags` and `normalise_tag` over a text as it is typed | `text` |
| `Feed` | keyset pagination: a reader scrolling a list that changes | `clock`, `stamp`, `status` (the list), `cursor`, `over`, `due`, `shown` |
| `Attempts` | start, save, submit, score, with authors editing | `published`, `dropped`, `key`, `attempt`, `answer`, `score`, `used`, `req` |
| `Marking` | `mark_attempt`, item by item, the band tables, and the part of the review that looks at a key | `paper`, `results`, `raw`, `max`, `needsRubric`, `band` |
| `Prediction` | the bands a candidate collects, and `band_prediction` | `history` |
| `Rounding` | Python's `round` | |
| `StudyPlan` | one account's plan and its tasks | `plans`, `task` (rows by id), `used`, `req` |
| `PlanGenerator` | `generate_plan`, week by week | `intake`, `week`, `credit`, `tasks` |
| `Content` | the authors of one paper: its row, groups and items, and the review | `test`, `group`, `question` (rows by id), `used`, `req` |
| `Slugs` | the addresses of several tests: create, rename, delete | `named`, `usedTest`, `req` |
| `Startup` | `init_db`, statement by statement, on any older database | `tables`, `columns`, `indexes`, `role`, `topics`, `phase`, `todo` |
| `Roles` | create and assign roles, register | `role`, `account`, `req` |
| `Deployment` | `Startup` and `Roles` over crashes and restarts, sharing the roles table | both |
| `MC...`, `MCPapers` | finite constants, symmetry, and the papers to mark | `moving` |
| `SessionsProofs`, `ThreadsProofs`, `AttemptsProofs`, `DeploymentProofs` | theorems about the module of that name | |
| `StudyPlanProofs` | theorems about `StudyPlan`, and about `PlanGenerator` as a part of `MCStudyPlan` | |
| `MCAttemptsProofs` | theorems about sittings that do not overlap, `Marking` and the history of bands, as parts of `MCAttempts` | |
| `CommunityProofs` | theorems about `Reactions`, `Feed`, `PostTags` and `HashTags`, and about the five parts of `MCCommunity` together | |
| `ContentProofs` | theorems about `Content`, and about `Slugs` as a part of `MCContent` | |

`req[q]` is what request slot `q` is doing: the stage reached (`pc`) and the
handler's locals. A row keeps its id for life, because the ORM addresses the row
it loaded by id: a second row of the same meaning is another row.

Actions and code, for `Sessions`: `RegisterRead`, `RegisterCommit` and `Login`,
each followed by `CreateSession`; `RefreshRead`, `RefreshUser`, `RotateCommit` for
`rotate_session`, with `RevokeFamily` instead when the row is a replay;
`LogoutRead`, `RevokeFamily` for `revoke_by_access_token`; `Crash` and `Boot` for
the process and `lifespan`. In the other modules an action named `...Read`,
`...Look` or `...Target` is a handler's read and the `...Commit` its transaction;
`MoveLook`, `GroupOrder`, `QuestionOrder`, `Number` and `Probe` are the queries in
between. In the pure algorithms an action is a turn of the loop in the code:
`MarkItem` and `Finish` of `mark_attempt`, `Week` and `Taper` of `generate_plan`.
`Remove` of `Reactions`, `Leave` of `Feed`, and `SetKey`, `SetStatus`,
`DeleteQuestion` and `DeleteTest` of `Attempts`, stand for handlers of which only the
effect on the modelled tables matters; `Threads` and `Content` have them in full.
`Tick`, `SetActive`, `Crash` and `Type` are the environment: the clock, an operator's
SQL (no endpoint changes `is_active`), the process, an author at the keyboard.

**Composition.** `Deployment` runs `Startup` and `Roles` on one roles table: an ALTER
gives the accounts of an old database the default role before the seeds have a row
for it, and a crash takes the role requests in flight with it. `MCCommunity`,
`MCAttempts`, `MCStudyPlan` and `MCContent` explore their parts side by side: `moving`
is fixed at first and names the part that takes steps. That loses nothing, because no
step of one part reads or writes a variable of another; where the code's components
do meet, the meeting is an action of the part that feels it (`Remove`, `Leave`,
`SetKey`, `DeleteTest`). Parts that never meet share model values, which keeps the
symmetry group small; `SymmetryIsSound` in `MCCommunity` says what that relies on.

**Abstractions.** A token is the row it belongs to (256 random bits do not repeat); a
family is named by its first row; `revoked_at` and `rotated_at` are Booleans,
since they are only compared with `None`; days and minutes are ticks; passwords
and hashes are left out; posts and comments are one kind of reaction target;
bodies are model values with a constant set of tags each in `PostTags`, and sequences
of classes of characters in `HashTags`; in `Attempts` an answer is right when
it equals the key and earns one mark, and a band is named by the number it is a
function of (`Averaged` for a paper marked by criteria), while `Marking` and `Prediction` have
the real ones, doubled so that half bands are integers, and `Prediction` the scores, in any
number of parts of a half band (`Grain`), as the code takes every number from 0 to 9; of
`score_criteria` it has the commit of the band, and `Attempts` that of the scores, sittings
scored while open, and submissions that overlap; a text to mark is its norm and its words; a skill's credit is
multiplied by the sum of the weights, which makes it an integer (where two
credits are equal Python's float errors decide; the model lets either go first); a
paper's row is whether its texts pass the review (`head`); a title is the sequence of
slugs tried for it; a row and the children it loads with it (`selectin`) are read in
one step.

## 3. Runs

| Run | Question | Result |
|---|---|---|
| `sessions_race` | two handlers in flight, crashes, purges: does a family keep one owner and ceiling, does a dead one stay dead, is only spent state purged, do the tables implement `LoginFamilies`? | holds |
| `sessions_live` | does a replay end with its family revoked; does every login end? | holds under fairness |
| `sessions_revived` | does a revoked family stay revoked? | violated: a rotation in flight inserts its row afterwards |
| `community_race` | three handlers at the reactions, two at posts and comments: one reaction each, counters exact or never too high, falling short only after a doubled request (`CountedOnce`, `ConversationExact`, `OnlyDoubledDrifts`), removed targets left alone (`RemovedIsQuiet`). Hashtags: does the next undisturbed edit repair the index; are tags sound and found as written (`EditRepairs`, `TagsHold`)? A scroll: every row once, every cursor leading on (`EveryRowOnce`, `CursorLeadsOn`)? | holds |
| `attempts_race` | two handlers and an author: does a submitted result settle; has a partial marking no band? One handler: one open sitting, frozen answers, marked once (`Serial...`). Marking: is every mark a pairing with the key, are bands in order (`MarksFollowKey`, `BandsInOrder`)? Estimates: between the bands they stand on, falling only with a setback? | holds |
| `attempts_band_lost` | does a fully scored attempt show its average? | violated: scoring, then submitting |
| `marking_key_rejected` | does whoever writes the reviewed key earn the mark? | violated: a group that changed its type keeps a cap the review no longer looks at |
| `prediction_quarter` | does an average of .25 go up, as the docstring has it? | violated: half-even takes 6.25 to 6 |
| `study_plan_race` | two handlers: at most one plan, no task without it; who can give two sessions one place? The generator: weeks full and within their hours, nobody starved, days in order | holds |
| `study_plan_ties` | one handler: are the places of a day distinct? | violated: a move to a day whose last place is 0 |
| `content_race` | two authors: does the publish gate hold, are new numbers free, do moves leave contiguous positions, do tests get the first free slug, unless overtaken? | holds |
| `deployment_restart` | boots cut off anywhere, on any database, with role calls in between: is a server that is up complete, does anybody climb to the top, does what was handed out stand? | holds |

The five violations are the findings of `PROJECT.json`, each against a sentence of
the repository's documentation or comments. The race runs state what remains true
in spite of the races, with the exact window in the property itself: `DeadStaysDead`
excuses a family with a rotation in flight, `OnlyDoubledDrifts` names the two steps
that make a counter drift, `EditRepairs` asks for an edit whose loaded rows are still
the table, `ResultSettles` for an attempt without a save or submission in flight,
`TiesNeedOverlap` excuses a position computed from a day that has changed and the
first place of a day, the properties of `Content` and `Slugs` a handler since whose
first read somebody else has committed (`fresh`, a history variable), and `GateHolds`
also the call that publishes and takes a text away at once. `MarksFollowKey` leaves
out the cap that a type does not take, `WeeksFilled` a mock week of fewer than three
hours, `UpIsComplete` the indexes that no boot brings back. The part "serial" of
`attempts_race` shows that the handlers of an attempt are right when nothing
overlaps; with overlap an autosave or a second submission in flight still changes a
submitted attempt, which `ResultSettles` bounds. `ImplementsFamilies` allows two
overlapping refreshes of one token a grant each, so a login may fork; what it excludes
is any other token.

**Where code and comment part**, beside the findings:

* `marking.py:81-83` says `over_word_limit` is set "when the answer was right but broke
  the word cap"; it is set for a wrong answer too (138-140).
* `database.py:81` wants an empty and an old database to "converge on the same
  schema"; an index on an added column, and any index lost to a crash between CREATE
  TABLE and CREATE INDEX - unique ones included - is never created (`IndexGaps`).
* `study_plan.py:196-197`: a mock week still costs more than was asked for when fewer
  than three hours were asked for, as its mock alone takes three.
* `study_plan.py:202-203` interleaves "so consecutive sessions are not all the same
  skill"; the queue takes the skill with most left, so that 3, 1, 1, 1 begins with
  three of the first. No property asks for more.
* `community.py:106` calls `normalise_tag` "the stored form of a tag"; a tag of fifty
  sharp s is stored with a hundred characters (the column has fifty) and looked up with
  fifty (`WrittenTagIsFound` excuses tags that folding makes too long). A `#` behind a
  combining mark starts a tag, behind a letter it does not.

**Bounds.** Row ids and the clock bound a behaviour; a slot can be reused
without limit.
Sessions: three rows are a login and two rotations, or two logins and a rotation,
enough for a fork and for a replay of either fork;
lifetimes 1, 2 and 3 make the access, refresh and ceiling expiries distinct and the
clock of 4 reaches past the ceiling of a login made at 0 or 1, so that the purge has
something to take (3 in the live run, whose properties need no purge). A login starts
only when its ceiling falls inside the clock; otherwise the end of the clock, not the
code, would decide whether it ends. Reactions: two users, three rows, three slots:
a doubled unreact beside somebody else's reaction. Threads: three posts make a share
of a share, three comments a reply to a reply or two racing replies, and one account
suffices because no property there is about who acts. `PostTags`: texts with none, one
and both of two tags, five row ids. `HashTags`: every text of six characters out of
eight classes - a letter, its capital, a letter that folds to two, a digit, a mark, `#`,
`/`, a blank - with tags of two characters and limits of one and two: two tags, one tag
twice in two spellings, one tag too many. Feed: four rows with two stamps, so that
some share one, and pages of one and two. Attempts: one sitting, a paper with a key
and one with criteria, two responses and two scores so that a change can be seen; the
serial part has two sittings and two questions. Marking: every item of up to two key
entries and three responses out of five texts (blank, punctuation alone, one word, one
word with a stray full stop, two words), with and without a cap of one, papers of three
items, and papers of every length to forty. Prediction: a window of two and three
attempts a skill, so that one falls out of it; bands that end in .0
and .5, averages that end in .25 and .75, and one of scores that are no half bands. Study plan: two plans are a regeneration; two tasks generated, one a day, and
two added make every tie of two and of three; nothing is appended or moved once a task
stands at `MaxPos` (positions grow with every move to and fro), and the windows need
positions up to 2. Generator: a start on each weekday, the shortest horizon, one of ten
days and one of five weeks, hours from the least (1) to the most (40) with those at
which the rounding, the mock and the number of study days change, and five profiles of
gaps. Content: two groups and two items are a move, a gap, a double and an overlap of
numbers; items span one number, and two once patched, so that covering and printing
differ; a body of `PATCH /questions` moves an item, or renumbers and lengthens it. Slugs: two tests, two titles of one slug and
one that is slugified to the second slug of the others. Deployment: four tables with
indexes of each kind, one added column, two default roles, four sets of stored roles,
three accounts.

**Symmetry** is used where ids are interchangeable and the run has no liveness
property; the MC modules leave named papers and texts out of it.

**Fairness**, in `sessions_live` only: weak fairness of `Tick` (time passes) and of
each slot's `Step` (the event loop resumes every awaiting task, and SQLite answers).
Clients, operators, crashes and restarts owe nothing, so `ReplayEndsFamily` excuses a
process that has died.

**Deadlock** is checked in `Sessions` and `Deployment`. The other runs stop: a paper is
marked, a plan made, a text full, or the row ids have run out and everything is
removed.

## 4. Proofs

TLC checks the runs' instances; the theorems below hold for every value of the
constants that the modules' assumptions allow: any number of accounts, rows, items
and requests in flight, any lifetimes, page sizes, texts and schemas. Every theorem
is about the specification that a run explores, or about the module it instantiates.

The pattern is the same throughout. A property of the tables alone is not inductive,
because a handler acts on what it loaded some steps ago. The strengthening, `IInv`,
therefore says for each stage of a handler what its locals still have to do with the
tables (`Loaded`, `HandlersOK`, `LocalsOK`); a lemma for each write says what it does
to the rows; and one lemma for each action keeps `IInv`. The action properties follow
from `IInv` and a look at the actions that touch what they are about.

**`SessionsProofs`** (assumes that a refresh window is not longer than the ceiling):

* `TypeInvariant`, with `TInv`: a handler that will issue a session has a user, the row
  it loaded is still there, a process that is down has no requests (else a boot's
  purge could take a loaded row), and every family is named by an issued row.
* `CeilingInvariant`: a login's row opens a family no row belongs to; a rotation copies
  owner, family and ceiling and cuts the refresh window at it.
* `DeadStays`: a dead family has no unrevoked row for `RefreshRead` to accept and no
  rotation in flight to commit, and a new login is another family.
* `PurgeTheorem`: the common ceiling makes the purge take families whole, and both
  validity tests compare with that ceiling.
* `Refinement`: every step of `Sessions` is a step or a stutter of `LoginFamilies`:
  `CreateSession` opens, a `RefreshRead` that accepts its row grants, `RotateCommit`
  exchanges, a refusal or a crash lets grants lapse, `RevokeFamily` closes one family
  and a purge all it takes. `TInv` is what makes a grant well defined.

**`ThreadsProofs`**: `TypeInvariant`; `ConversationTheorem`, for which the invariant keeps
that a share or reply in flight holds an original, respectively a comment of the same
post that hangs from none, both never deleted from the tables; `DriftTheorem` and
`RemovedPostTheorem`. Its module is instantiated by others, so its theorems take
`ConstantsOK` as a hypothesis, which `MCCommunity` assumes and TLC evaluates.

**`AttemptsProofs`** (the questions are finite, which a raw score needs):
`TypeInvariant`, over authors who delete rows that handlers hold; `PartialMarkingTheorem`,
for which a band in flight belongs to an attempt whose scores are complete as long as it
exists, as scores go only with their attempt; `ResultSettlesTheorem`, from "no save or
submission is let in to a submitted attempt". Its last section is about handlers that do
not overlap: by `AloneInv` nobody then saves to or submits what is submitted, a sitting
about to be inserted is the first of its user and test, and an open sitting has earned no
mark, so that `AloneStep` can say what each step leaves alone.

**`MCAttemptsProofs`**, about `MCAttempts`:

* `SerialSittingsTheorem` and `SerialResultTheorem`: with one handler at a time a user has
  one open sitting per test, the raw score covers the marks, answers stay and an attempt
  is marked once - what the code's comments promise, and what fails as soon as two
  handlers overlap. The part "serial" is a second instance of `Attempts`; the `Same...`
  lemmas identify it with the instance of which `AttemptsProofs` speaks, whose invariant is
  then used as it stands.
* `BandsInOrderTheorem`, for a paper with any number of items: `RoundedInOrder` says that
  rounding to the even half keeps the order, `LookedInOrder` that a lookup does, also from
  a harder table to an easier one, and `TablesBanded` what is needed of the tables
  themselves. Of the papers it uses only that they are lists of items that span a number
  of marks each.
* `MarksTheorem`, for any papers, texts and caps. `mark_question` strikes from the key the first
  entry that an answer equals, one answer after the other. Which of several equal entries is
  struck does not matter: pairings with the rest of the key and pairings with the whole key
  that leave one such entry out are the same (`StruckPairs`, by swapping two entries). So
  the loop finds as many as there are answers exactly when an injective pairing exists
  (`MatchedAll`), which is how the property states it, and the invariant is that every result
  made so far is the one the key asks for (`MarkedAsKeyed`, kept by `MarkItemAsKeyed`). That
  the key itself is earned (`KeyIsEarned`) rests on what `ItemOK` of `Marking` assumes:
  `normalise` adds no words to a text.
* `EstimateTheorem`, for histories of any length: `RoundedNearest` says that rounding misses
  a fraction by at most half, `RoundedBetween` that it does not leave the bounds of what is
  averaged, for scores in parts of any size, and the sums of bands lie between as many
  times the lowest and the highest (`SumBounds`). `HistoryInv` ties an attempt's band to the scores it was made from.
* `FallsTheorem`, the action property over the same histories, with any window: a step puts an
  attempt in front or gives one a band (`StepGrown`), so of the attempts that count all move
  along, and at most one joins them or takes the place of another (`LatestMoves`). Sums over
  different sets can be compared because any member may go first (`SumSplit`, `SumCarried`); so
  the mean does not fall (`MeanRises`), nor what it is rounded to, although halves go to the
  even neighbour and the two fractions have different denominators (`RoundedRises`).
* `TypesTheorem`, from `PartsInv`, the invariants of the four parts.

**`StudyPlanProofs`**, about `StudyPlan` and `MCStudyPlan`: `TypeInvariant`; `OnePlanTheorem`;
`TiesTheorem`. A day has a last place because its positions are bounded, which the
invariant carries as a number that no place exceeds. `TypesTheorem` adds what `generate_plan`
makes, for any horizon, hours and first day the request schema allows: every task lies on
a day of the plan (`DaysInPlan`, `MockInPlan`), a session's place in the queue is a number
(`PlaceType`) and at most three sessions share a day (`Frame`), the weights add up to
something to divide by (`WeightsAddUp`), and a share is a whole number of sessions
(`AllocationsType`). The weights are any the schema allows.

Three more theorems about the generator, for every intake and however ties between
credits are settled, follow from `PlanInv` (`PlanInductive`):

* `StarvesTheorem`. Each skill's drills are its share of all drills less its credit
  (`SharesKept`), so that nobody starves as long as every credit stays within a session,
  below T, the sum of the weights, and above -T. That alone is not inductive. A skill gets a
  slot left over only if it is among those with most left of what they are owed; that none is
  then too far ahead, and that the whole sessions never hand out more than the week has
  (which would leave nothing to correct with), needs `CreditsOK`: the credits add up to
  nothing, no skill is more than three quarters of a session ahead, no two together are
  ahead by more than a session and their weights, and of any two the one with the greater
  weight is not ahead out of proportion (`Balanced`). `CreditsKept` shows that a week keeps
  this, from `LuckyRest`, `StaysBalanced` and `PairStays`, which are integer arithmetic
  about four numbers. The last uses that weights lie between 2 and 20, as the schema and the
  rounding of gaps have them; for others, as 1, 5, 21 and 21, the property fails.
* `WeeksTheorem`. A week's counts add up to its slots (`Deal`); the queue of its sessions
  has exactly the places from 0 on, because its order is a strict one (`PlacesOrdered`) and
  as many different numbers below N as there are numbers below N are all of them
  (`QueueFull`); and dividing places among the days leaves none over, as there are no more
  slots than places (`SlotsFit`, `DayOfPlace`, `DrillsPlaced`). Its minutes are then those
  of so many drills and a mock (`WeekMinutes`), and rounding adds less than half a drill
  (`RoundedUp`).
* `PlacesTheorem`. A day's places start at 0 and have no gap, as those of the queue have
  none (`DrillsOn`, `NoGaps`); weeks do not overlap and end before the last three days
  (`WeeksApart`); a mock's day takes no drills (`MockOnStudyDay`).

**`ContentProofs`**: `TypeInvariant`; `GateTheorem`; `FreshNumbersTheorem`; `MovesTheorem`, whose
lemmas say what inserting a row into an ordered list of any length does to every place,
so that "contiguous" is preserved and not only checked for two items; `SlugsTheorem` and
`TypesTheorem`, about `MCContent`. The invariant says of each handler what is true as long
as nobody has committed since its first read (`FreshOK`) and what is true regardless
(`LocalsOK`). For slugs it assumes, as `Slugs` does, that the candidates of a title are
distinct and more than there are tests: in the code they never end.

**`DeploymentProofs`**: `TypeInvariant`; `UpIsCompleteTheorem`, by an invariant on how far the
statements of a boot have come (`Progress`: what has run has had its effect, what has
not is in `todo`) and on what an index can be missing for (`Gaps`); `NoEscalationTheorem`,
whose invariant bounds the weight of every role, account and handler's local by the
heaviest held at first (`BarOK`), over boots, seeds and crashes; `LadderStandsTheorem`. It
assumes that the database's roles are ones an older version stored and that the
default role is among the defaults (`ConstantsAssumption`).

**`CommunityProofs`**, about `Reactions`, which `MCCommunity` extends, and about `MCCommunity`:

* `TypeInvariant`; `CountedOnceInvariant`, where a handler that loaded a reaction still
  knows its user and target, so that what it adds or takes is one member of the set
  that is counted; `RemovedGainsNothingTheorem`; `DriftTheorem`, that only an unreact whose
  reaction somebody else deleted makes a count fall short. Row ids are numbers there, as
  the database's rowids are.
* `EveryRowOnceTheorem` and `CursorTheorem`, from `ScrollOK`: the cursor is the place of the
  row shown last (so that "beyond the cursor" and "behind what was shown" are one thing),
  a row that is due lies ahead or was shown, and the row that made a page promise
  another is still ahead unless a row has left. `PageIsFirst` says what a page is: the
  least rows of those asked for, in order, whatever their number.
* `RepairTheorem`, from `TagsOK`: no tag has two rows, and an edit in flight holds a text.
* `TagsHoldTheorem`, for texts of any length over any characters, with any folding that gives
  each letter at least one letter and only such as fold no further (`ConstantsOK` of
  `HashTags`; `str.casefold` is idempotent). `TagsInTurn` gives the tags of a text as the last value of a
  function of the places passed, so that what holds of them can be shown place by place
  (`TagsSound`). A finished tag stays because a run that ended within a text ends there
  in every longer one (`RunStays`) and the tags of the shorter text are the first of the longer
  (`PrefixIs`). A tag is found as written because folding what is folded changes nothing and
  folding never shortens (`FoldedStays`, `FoldedGrows`), so that a cut before folding and one
  after agree unless folding has lengthened the tag.
* `CountedOnceTheorem`, `ConversationExactTheorem`, `OnlyDoubledDriftsTheorem`,
  `RemovedIsQuietTheorem` and `TypesTheorem` carry the theorems of the parts over to their
  composition: a step of `MCNext` is a step of one part and leaves the variables of the
  others alone, so `MCSpec` implies each part's `Spec`. The assumption
  `SymmetryIsSound` of `MCCommunity` serves TLC; no proof uses it.

**Induction.** The library's induction theorems cannot be instantiated by the provers
here, so where a proof needs induction (`LeastNumber`, in most of the modules) it takes
the least number that is an exception and derives a contradiction; this is how what
`FlattenSeq` makes of the tables, finite bounds and greatest members are obtained, and what
a fold over a sequence yields: `FoldOverPlaces` and `FoldedInTurn` turn the library's
recursion, which takes a sequence from its end, into a function of the places that is
given place by place. Sums need it twice. The library defines one as a `CHOOSE` of a function that recurs over the subsets
of the set summed over: `SumExists` shows that there is such a function, from one that is
right for the subsets of each size, and only then can `SumType` and `SumBounds` say what its
value is.

**Only model-checked**: liveness and `ENABLED` (`sessions_live`), which are out of the prover's
reach.

## 5. Not modelled

Password hashing, client addresses, `PATCH /me` and `forgot-password` (no session
state); hydration and listings; topics and edit timestamps; the encoding of a cursor
(one that the server did not hand out is refused and has no effect); what `normalise`
does to a text, character by character; `answer_matches`, which only a test calls; the
columns of a study task that are merely overwritten and the titles of generated ones;
the texts of groups and items and the rule on speaking parts in `Content`, which make
it and the session layer "partly" modelled. Admin statistics only read; the schemas are
declarative, and their bounds are the ranges of the models' inputs; the seed script
runs once and calls the authoring endpoints.

## 6. Plan

Done: the session layer with its proofs; the community; attempts, marking and
estimates; the study plan and its generator; authoring and slugs; roles and startup.

Proved: every invariant the passing runs check, and every action property but liveness.

Abstract specifications worth stating: an attempt as open, then handed in once; a
counter as the size of what it counts; a scroll as a walk of a fixed order.
