# Formal verification of Quran One's sync, accounts and library

TLA+ models of the Quran One app (`lib/`, Flutter) and its server (`backend/`, Django), checked
with TLC and proved about with TLAPS. Paths below are relative to the repository root.

## The system

| Component | Source | State | Operations | Hard behaviour |
|---|---|---|---|---|
| Server merge of pushed cards | `backend/apps/sync/services.py`, `models.py` | `sync_hifz_card`, `sync_conflict` | `merge_hifz_cards` | concurrent transactions, row locks, insert races, deadlocks, a payload that raises, a batch sent again |
| Server push and pull views | `backend/apps/sync/views.py` | the same, `sync_device` | `PushView`, `PullView` | two clocks, a page limit, a time stamp taken after the read |
| Client write queue | `lib/core/database/daos/outbox_dao.dart`, `tables_sync.dart`, `lib/core/sync/outbox_controller.dart` | `OutboxEntries` | enqueue, pending, defer, markFailed, deleteEntry, drain | drains that overlap, edits during a push, kills, lost answers, 429 |
| Client merge rules | `lib/core/sync/merge_rules.dart`, `sync_entity.dart` | none | lastWrite, furthest, incomingWins | order, repetition and route of updates |
| Client sync engine | `lib/core/sync/sync_engine.dart` | `SyncCursors`, the local store | run: drain, pull, apply, setCursor | reviews and other pushes between its awaits, kills, failed drains |
| Connectivity | `connectivity_service_impl.dart` | last reported state | isOnline, changes | transitions, captive portals |
| Guest data claim | `claim_guest_data.dart` | orphans, outbox | call | a kill between enqueue and mark |
| Client token handling | `auth_interceptor.dart`, `token_store.dart`, `rotation_recovery.dart`, `auth_api.dart` | token pair | attach, refresh, retry | several 401s, a lost refresh answer |
| Client session state | `session_watcher.dart`, `session_policy.dart`, `auth_controller.dart`, `app_lock.dart` | session | sign in and out, expiry, lock | timers and resumes |
| Sessions and one-time tokens | `backend/apps/accounts/auth_views.py`, `tokens.py`, `session_security.py`, `tasks.py` | outstanding and blacklisted refresh tokens, `OneTimeToken` | login, refresh, logout, logout-all, forgot, reset, change, prune, sweep | a refresh during a revocation, two issues at once, a prune under a loop, mail tasks |
| User accounts | `backend/apps/accounts/views.py`, `models.py`, `serializers.py`, `backend/apps/core/security.py` | user and profile rows | register, edit, change password, request deletion, erase | rows loaded long before they are saved as a whole |
| Content packs | `backend/apps/content/*` | packs, versions, stored objects | upload, edit, revoke, withdraw, download, nightly check | immutability against edits, damage and a slow device |
| Scripture and bookmarks | `backend/apps/quran/*`, `backend/apps/core/pagination.py` | verified text, bookmarks | read, bookmark create, patch, list, pull | a list walked while it changes, a pull that is cut |
| Billing | `backend/apps/billing/*`, `profile_repositories.dart` | subscriptions, events | webhook, entitlement | repeated and simultaneous notifications |
| HTTP cache and retry | `cache_interceptor.dart`, `retry_interceptor.dart`, `response_cache.dart` | cache entries | request, response, error | stale answers, order of interceptors |
| Reading position | `reading_position_recorder.dart`, `reading_pace.dart` | candidate, last write | onVisible, flush, reset | saves that are not awaited |
| Prayer countdown, home selection, guards, deep links | `countdown.dart`, `daily_selection.dart`, `quick_action.dart`, `guards.dart`, `deep_links.dart` | none or a timer | pure functions | boundaries |
| Startup, theme, widgets, localisation | the rest of `lib/` | view state | | not modelled: presentation and start-up wiring |

How they meet: a local change is stored and enqueued; a transition to online, or a run of the
engine, drains the queue into `PushView`, which merges the cards in one transaction; the engine
then reads its cursor, calls `PullView`, applies what comes by the rule of its entity, and stores
the server's time as the next cursor. The row of a pushed change and the card of an applied one
are shared state between the user, the drains and the engine, and none of them locks anything on
the device. The server only locks rows it finds.

Apart from the cards, the server's services meet only in the user: accounts own the sessions, links,
profiles and bookmarks, and a deletion reaches all of them with the sweep.

Two limits of the repository shape the models. `SyncEngine.run` takes `drain`, `pull` and `apply`
as callbacks and nothing calls it yet: `drain` is modelled as `OutboxController.drain`, `pull` as
`PullView`, `apply` as the rule `sync_entity.dart` registers. And the screen that reviews a card
is not there: a review adds a repetition, takes the device's time, and enqueues what it stores.

## What makes it correct

1. A review that the server has acknowledged is never lost again, whoever pushes what when;
   concurrent pushes leave what the same pushes leave one after another, and a push that failed
   leaves nothing.
2. Of each version the server overwrites, the scheduling fields and the clock are on record, in
   order.
3. A local write leaves the queue only once it has reached the server, and is delivered or parked.
4. Copies that have received the same updates agree, and hold the best of them.
5. A pull never undoes an unsent review, and the cursor passes a change not applied only where a
   page was cut or the change came too late for it.
6. A session that was revoked and a link that was used are dead for good. What a revocation leaves
   alive, and what the list of sessions leaves out, is a session that was refreshed.
7. A request does not take back what another has written to the same user or profile; where the
   code saves whole rows and does, it is the only way.
8. Two devices on one version of a pack hold the same bytes, and the nightly check finds what is
   damaged.
9. A list of bookmarks is complete for whoever walks it, and an event of a store is kept once.

## Modules

`HifzMerge` is `merge_hifz_cards` and the view around it. A request is a handler with a program
counter (`idle`, `scan` in the loop, `create` between a lookup that found nothing and the insert,
`committed`, `failed`), the rows its transaction wrote (`work`) and locked (`locked`). One
action is one iteration of the loop up to the next point where another transaction can be seen:
`RejectMalformed` (the guard), `LookupMiss`/`Create`/`CreateRaises` (the row is missing, and may
be there by the time of the insert), `MergeWin`/`MergeLose`/`MergeRaises` (it is there and
locked), `Commit`, and, from PostgreSQL, `DeadlockVictim` and `ConnectionLost`. A card is its
repetitions, its clock, a body for the columns the merge copies without reading, its time of the
last review, its revision, its id and its conflict rows. A payload is an unrestricted dict and the
merge assigns every key of it, so it may bring any of these (`Merged`, `Created`): the revision a
row ends with is one more than what the payload says (`counterSet` is the history of that), and an
id that is not the row's makes `save` insert a second row, which the unique constraint refuses
(`SameRecord`, third case of `MergeRaises`). Cards are taken to have different ids. A conflict row
holds what `_snapshot` takes, which is neither `last_reviewed_at` nor the revision. Payloads come in three forms because the code mixes them: the ayah of a request
is a primary key where the ORM calls need an object, and its clock a string where the comparison
needs a datetime.

`Outbox` is the table and the drain. The table is the one `OutboxDao` imports
(`tables_sync.dart`), with one row per entity and with `deferUntil`, `queuedAt` and `lastError`;
`AppDatabase` registers the older one of `tables.dart`, which has none of these, so as it stands
the DAO fits a table the database does not have. `Enqueued` coalesces because the row's id is
taken to be the permanent id of the record (`TECHNICAL_ARCHITECTURE.md:574`): the upsert's only
conflict target is that id, and an enqueue under another id would raise on the unique key. A
version is the number of the local write it carries. A drain reads a snapshot
(`ReadQueue`), takes its rows in the order of `queuedAt` (`Push`), and handles the four kinds of
answer: `Acknowledged`, `RateLimited`, `Unreachable`, `Refused` and, for the latter, the read and
the write of `markFailed` (`MarkFailed`) as two steps. `Write` is the coalescing enqueue, which
keeps `attempts` and `deferUntil`. `Connect`, `Disconnect` and `SyncRun` start drains; `Kill` ends
them all and keeps the table. The server may take a push up before its answer is lost
(`ServerAccepts` then `Unreachable`) or after (`LatePushArrives`). To take up is not to store:
`PushView` answers 200 for a card its merge rejects and for bookmarks and positions it does not
look at, and the drain deletes the row for either. `reached` is therefore the newest version the
server has taken up, and what it makes of it is left to `HifzMerge` and `SyncEngine`.

`MergeRules` has the rules as operators; `Replicas` uses them: copies on devices and the server
that fold in updates (`Deliver`) and each other (`Exchange`), with the set of updates that has
reached each copy by whatever way.

`SyncEngine` composes the queue, the server's merge and the pull, seen from one device: a run
(`Start`, `PushRow`, `PushAnswered`, `PushRefused`, `DrainReturns`, `ServePage`, `StampPage`,
`Apply`, `SetCursor`, `PullFails`, `Kill`), the user (`Review`), other devices (`OthersPush`) and
the clocks (`Tick`; one time for all, so that what is found does not rest on a skewed clock).
`ServePage` and `StampPage` are separate as `server_time` is taken after the cards were read.

`Delivery` is what the queue promises, without drains, attempts, answers and kills: the queue
carries the last change of an entity (`Change`), changes that were made reach the server
(`Deliver`), and an entity leaves the queue once its last change has reached it or, if it was
changed during its own push, once any change has (`Release`). `Outbox` implements it
(`ImplementsDelivery`, the instance at its end).

`Sessions` is the server's side of signing in. The views of the JWT library are not in the
repository; they are modelled as the version `pyproject.toml:8` pins, simplejwt 5.3.1, has them.
A login creates a row in the outstanding table (`Authenticate`, `MintLogin`). A refresh checks a
token, blacklists it, which creates a row without a user if it has none, and answers with a token
that has no row (`RefreshCheck`, `RotateBlacklist`, `MintRotated`); a logout checks and blacklists
(`LogoutCheck`, `Logout`). `LogoutAll`, `ChangePassword` and `ResetPassword` start a revocation,
which reads the rows of the user once (`ListOutstanding`) and blacklists them one by one
(`BlacklistNext`, `Revoked`) or, in the transaction of a reset, together (`ResetCommit`).
`RequestFails` may end any request after any statement, as `ATOMIC_REQUESTS` is off. `Prune`,
`Expire` and `DeleteAccount` run in between.

`ResetLinks` is the one-time token of a password reset: `ForgotPassword`, `InvalidateLinks`,
`CreateLink` and `QueueMail` are the statements of an issue; `SendReset` is the mail task, which
may be repeated; `ConsumeLink` and `ResetDone` are the transaction with its two row locks;
`Disable`, `Sweep`, `Erase` and `Lapse` are what may happen meanwhile.

`AccountRow` is the user's row: a request holds the row as it loaded it (`LoadForUpdate`,
`LoadForChange`) and writes all of it (`SaveMe`) or some columns (`SavePassword`, `MarkDeleted`);
`Register` and `CreateProfile` are two statements, and `ViewProfile` may come first.
`Account` declares the requests the three modules share. `Profiles` is the profile's content:
`Find`, `Miss` and `Insert` are `get_or_create`, `Save` is the PATCH that writes every column.

`Catalogue` is one content pack: the rows of its versions under `ContentPackVersion.save` and the
admin forms (`Upload`, `EditDraft`, `Withdraw`, `Revoke`, `DeleteVersion`, `Due`), the stored
objects (`Damage`) and the devices (`Download`, `Install`). The answer to a download names no
version: the `version` of a copy is the row its checksum and its bytes came from. `PackCheck` extends it with the
nightly task (`VerifyStart`, `VerifyNext`, `VerifyEnd`). `Webhooks` is `StoreWebhookView` as the
two statements of `get_or_create`. `Bookmarks` is the bookmark endpoint (`Create`, `Patch`), its
cursor pages (`StartWalk`, `NextPage`) and the bookmarks of a pull (`Pull`).

`MC_Client`, `MC_Accounts` and `MC_Library` check several modules that share no variable in one run: which one
runs is chosen in the initial state, and the others stand still.

`MC_*` give the constants values, `*_proofs` hold the theorems. Operators under a "Mutant" comment
are wrong variants of the definition below them: each property is checked to fail when the one is
put in place of the other.

## Runs

| Run | Instance | Shows |
|---|---|---|
| `hifz_merge` | 2 requests, 2 cards, 5 batches, fairness | `NoAckedReviewLost`, `ProgressIsAcked`, `HistoryIsComplete`, `NeverOverwrittenBlindly`, `ResponseIsTruthful`, `CommitsAreSerial`, and `EveryPushAnswered` |
| `outbox` | 1 entity, 2 drains, 2 edits, 2 attempts | `ForgottenOnlyByOverlap`, `ParkedOnlyByRefusals`, and the refinement of `Delivery` |
| `outbox_live` | 2 entities, 1 drain, batch of 1, 1 edit, 1 attempt, fairness | `EveryRowIsResolved` |
| `client` | 2 cards, 2 runs, pages of 1, 2 repetitions, 2 times; 3 copies, 4 versions | `UnsentReviewIsKept`, `AheadIsQueued`, `OnlyCutOrLateIsSkipped`; `CardsAreBest`, `PagesAreFurthest`, `MarksAreLatest` |
| `accounts` | 2 requests, 3 refresh tokens, 2 links, 4 passwords | `SurvivorsWereRefreshed`, `ListShowsFirstTokens`, `DeadTokenStaysDead`; `WorksOnce`, `TwoLinksOnlyByOverlap`, `LockHolds`, `DeadLinkStaysDead`; `ProfileMissingOnlyIfCutShort`, `TakenBackOnlyByProfileScreen` |
| `library` | 2 versions, 2 payloads, 2 devices; 2 workers, 2 events; 3 bookmarks, pages of 1; 2 fields, 4 edits | `SameVersionSameBytes`, `VerifyIsRight`, `FirstDeliveryStays`, `WalkIsComplete`, `LacksOnlyCutOrLate`, `SetBackOnlyByOverlap` |
| `hifz_primary_key`, `outbox_forgets`, `replicas_order`, `sync_late`, `revocation_survives`, `deletion_undone` | | what the code does against what it says, below |

Bounds. Two requests are enough for every conflict of the merge, as a card is locked or inserted
by one transaction against another; the batches hold opposite lock orders, one card twice, both
ways to be incomplete and the raw form of a request. Two drains cover the overlap of any pair; a
batch of one row makes the second entity wait behind the first. Two cards let a page be applied
half, and pages of one card are cut whenever both have changed; two runs cover every overlap of a
pair, and are interleaved while the cards are at their first repetition or there is only one of
them (`InBounds` in `MC_Client`); two repetitions and two times let repetitions and clocks
disagree. `MaxEdits`, `MaxReps`
and `MaxTime` only bound counters. `BatchSize`, `MaxAttempts` and `PullLimit` are the code's
limits made small so that they are reached. `refusals` in `Outbox` counts up to the limit only.
`client` takes a view of the state that leaves out a history its properties do not read. The
batches of `hifz_merge` also bring a revision, a time of review and an id of their own.

In `accounts` two requests give every overlap of a pair; three tokens are a login, its successor
and a second login or a second successor; two links let an old one meet a new one, and
`MaxPassword` bounds a counter. In `library` two versions are enough for a newer one to appear
between a device's request and its installation; `MaxTime`, `MaxWrites` and `MaxEdits` bound
counters; `PageSize` of 1 and `PullLimit` of 2 among 3 rows make every page and every cut happen,
and `Skew` of 1 is the tolerance of five minutes against a clock of steps. The services have no
fairness: what is checked of them is safety. These two runs switch the deadlock check off, since
their counters end and a pack, a table or an account may be left alone for ever.

Fairness. `HifzMerge` assumes that a request's handler goes on, that the database picks a victim
of a deadlock, and that a lock that is freed again and again is granted (PostgreSQL queues its
waiters); it does not assume that anyone pushes or that connections hold. `Outbox` assumes that a
drain that is killed or cut off again and again now and then gets through each of its steps, that
deferrals run out and that the network goes and comes back: nothing else in the code starts a
drain by itself, `SyncEngine.run` having no caller.

## What is proved

For all values of the constants, each from an inductive invariant:

* `HifzMerge_proofs`: a transaction only writes rows it has locked or inserted, so the committed
  row it started from does not move; each write wins over what it replaces; hence what a
  transaction sees covers the payloads it has been through (`AckedReviewsAreSafe`), and each
  row's log is a strictly rising chain that agrees with the revision until a payload sets it
  (`HistoriesAreComplete`), and holds what `_snapshot` takes of each replaced card
  (`OverwritesAreRecorded`). The
  invariant adds to the properties that locks exclude each other, that a written row extends the
  committed one, and that what was scanned is covered: without these a commit could undo another.
* `PushesAreSerializable`, in the same module, compares a commit with a reference that merges the
  batch alone (`MergedBatch`, a recursive function on the table). A merge of the payloads behind a
  transaction is a sequence of tables, from the committed one to the one the transaction sees.
  Each payload adds a table to it (`PayloadInTurn`, `MergeGrows`). A commit of another request
  changes the table the sequence starts at, but only in cards that this request has not locked,
  and the payloads behind it have theirs locked (`ScannedIsLocked`): so the sequence can be begun
  anew at the changed table (`MergeMoves`). That two such sequences end alike is an induction over
  the batch, done here by the least place at which they differ (`LeastElement`, from the
  well-foundedness of the naturals).
  It follows that a push that is sent again changes nothing (`RetriesAreHarmless`): its payloads
  are covered by the cards, so each table of the sequence is the one it starts at.
* `ProgressWasAcked`: what a transaction has written, or keeps as overwritten, stands in the table
  already or in the part of its batch that is behind it, and a commit acknowledges the batch.
  With `AckedReviewsAreSafe`, the progress of a card is the best that was acknowledged for it.
* `PushesDoNotBlock`, the safety part of `EveryPushAnswered`: of finitely many requests, if each
  that is in its transaction waits for another, then a smallest non-empty set in which everybody
  waits for a member is a cycle (`WaitsEndInCycle`), which the database breaks; and a lock is
  held only by a request that is in its transaction (`LocksAreFreed`).
* `ResponsesAreTruthful`: the conflicts of a response are the cardinality of a set of pairs, a
  card and a place in its log, that the transaction has added and nobody else can (`CountInv`).
  Each overwritten version adds one pair; what a request had scanned is applied or rejected.
* `Outbox_proofs`: a row carries the newest write, and a snapshot a drain holds carries it too
  unless the entity was written meanwhile; a push that is acknowledged was taken up, and a failure
  being recorded was answered (`WritesForgottenOnlyByOverlap`, `RowsParkedOnlyByRefusals`,
  `RowsDeletedOnlyWhenReached`; `DeletedOnlyWhenReached` is not in a run, as `Delivery` has it in
  the guard of `Release`). None of them says that the server keeps what reaches it.
* `Replicas_proofs`: the order behind each rule is total up to ties, so folding keeps the best
  (`BestCardSurvives`, `FurthestPageSurvives`, `LatestMarkSurvives`). Two copies of the same
  updates therefore agree up to ties (`CopiesAgree`; `replicas_order` shows the tie), and no fold
  takes a copy back (`ProgressStays`). Ties are all that keeps bookmarks apart: without two
  versions of one time, `SameUpdatesSameMark` holds too (`MarksAgreeWithoutTies`).
* `Outbox_proofs` also proves that each step of the queue is a step of `Delivery` or leaves it
  alone (`QueueImplementsDelivery`), with the invariant above: an acknowledgement removes a row
  whose version has reached the server, or one that was edited during the push.
* `SyncEngine_proofs`: both sides rank versions alike and the server's only rise, so a page is
  never ahead of the server; a card of the device is covered by the server's, or is what its row
  carries, or was reviewed during a drain; what a drain has pushed has arrived
  (`UnsentReviewsAreKept`, `ProgressIsQueued`), for any number of runs at once. No step takes
  a card back on either side (`CardsOnlyRise`).
* `CursorSkipsOnlyCutOrLate`, in the same module, holds for any number of runs and any page size:
  each run has a bound, the cursor it will save, and what is still to be applied of its page, what
  the device has, and `left`, the cards it will pass unseen, together cover the server up to that
  bound. Two things only put a card in `left`: a page it was cut from, and its arrival after that
  page was read with a time the run's cursor covers.
* `Sessions_proofs`: a token's login is the one of the token it was minted for; a login's own
  token that is usable has a row and a rotated one has none (`ListIsExact`); a token of a login a
  revocation has listed is blacklisted, still to be blacklisted, or comes from a refresh before
  the listing or during the revocation (`RevocationsHold`). The rest of the invariant says what a
  request may hold at each of its steps.
* `ResetLinks_proofs`: the locks exclude each other, and a request that has checked a link holds
  its row until it has consumed it; two live links need two issues at once.
* `AccountRow_proofs`: a request that loaded the row after its last write holds the row as it is,
  and a new password has a higher number than any that is held, so only a stale save of the whole
  row takes anything back (`OnlyProfileScreenTakesBack`); `ProfilesFollow`.
* `Library_proofs`, packs: a version that was never withdrawn or deleted stays published with the
  checksum the devices were sent (`VersionsAreImmutable`); an object nobody touched since the
  check began compares as it did then (`CheckIsRight`).
* Store events: a worker that has found no row inserts only if there is still none, so what is
  recorded first stays (`FirstDeliveriesStay`). Profiles: a request that holds the profile and is
  not counted as overlapped holds it as it is, so only an overlapped save sets a field back
  (`PreferencesSetBackOnlyByOverlap`).
* Bookmarks: a row's place in the list is the order of its creation and never changes, so a row
  that was there when the walk began is on a page or behind the cursor; a page holds the rows
  with fewer than `PageSize` rows before them, and as a row before another has fewer still, it is
  all of what is behind the old cursor and not behind the new one (`WalksAreComplete`). A row the pulling device lacks was cut from a full page, was written
  behind the cursor, or is still ahead of it (`PullsLackOnlyCutOrLate`).
* `ServicesAreIndependent`: each step of `LibrarySpec` is a step of one of the services and leaves
  the variables of the others alone, so a behaviour of the composition is one of each service,
  and what is proved of each holds of all together (`ServicesTypeCorrect`, `LibraryIsCorrect`).

The proofs assume what the modules state: positive limits, times and counters that are naturals,
and model values that are no records or tokens. `MC_Library` adds that its one model value for
"none" is not a profile.

`RetriesChangeNothing`, `SomeoneGoesOn`, `NothingTakenBack`, `SameUpdatesSameProgress`,
`CopiesOnlyAdvance` and `DeletedOnlyWhenReached` are proved and not part of a run.

Only model-checked: `EveryPushAnswered` and `EveryRowIsResolved`, as liveness under fairness is out
of the prover's reach.

## Disagreements between code and documents

Shown by a run:

* `hifz_primary_key`: `services.py:46` passes the primary key of an ayah as the relation, which
  raises; `test_sync_merge.py:25-40` expects the card to be created.
* `outbox_forgets`: `outbox_controller.dart:42` deletes a row by id, and with it an edit that
  coalesced into it during the push; `tables_sync.dart:3-6` says nothing is lost.
* `replicas_order`: `lastWrite` keeps the local side of a tie and is not commutative, as
  `merge_rules.dart:5-7` requires. `merge_rules_test.dart` expects the incoming side to win.
* `sync_late`: `PullView` reads the cards (`views.py:81`) before the clock (87) that becomes the
  cursor, so a card pushed in between is in no page; `tables_sync.dart:32-34` and
  `merge_rules.dart:68-71` exclude a skipped window.
* `revocation_survives`: a login that was refreshed before a revocation goes on working after it,
  as the token it holds has no row for `_revoke_all` to read (`auth_views.py:30`);
  `auth_views.py:99-102` says "Every outstanding refresh token dies on every device".
* `deletion_undone`: a PATCH of `/me` saves every column of a user it loaded before the deletion
  was requested (`accounts/serializers.py:20`), so the account is active again and never erased;
  `accounts/views.py:49-51` says "Marked now, erased by a scheduled task".

Seen while modelling, without a run of their own:

* `PullView` compares the time the writing device gave a card with a cursor that is a time of the
  server (`views.py:78`), so a review made offline before the cursor and pushed after it is never
  pulled. `OnlyCutOrLateIsSkipped` lets it go as late, and asks that nothing else is skipped.
* `run` ignores `hasMore` and moves the cursor to `server_time`, so cards past the 500th are
  skipped; `docs/TECHNICAL_ARCHITECTURE.md:685-689` pulls again. `OnlyCutOrLateIsSkipped` lets
  them go as cut.
* `run` pulls after a drain that gave up, as `drain` does not say so; "local truth reaches the
  server" (`sync_engine.dart:37`) does not hold then. `UnsentReviewIsKept` holds all the same.
* With two runs at once the cursor can go back, which `TECHNICAL_ARCHITECTURE.md:731` excludes; it
  pulls cards again and skips none.
* The queue is not strictly FIFO (`outbox_dao.dart:30`): a coalesced write renews `queuedAt`, and
  deferred rows are passed over.
* A row enqueued while online waits for the next transition to online.
* The losing incoming version of a push is not preserved (`services.py:65-66` against line 3).
* The bookmarks and positions of a push are validated, ignored and answered with 200
  (`views.py:45`), and the client's drain deletes their rows; `serializers.py:34-39` says "One round
  trip carries every entity type".
* The record of an overwritten card omits `last_reviewed_at`, which the merge overwrites
  (`services.py:80-89` and 59-60); `models.py:86-93` says "the data still exists".
* A payload's `revision` replaces the row's before one is added (`services.py:59-61`), so the
  counter can fall behind the conflict rows or jump; `models.py:37` says "every write keeps a
  revision counter". A new card takes its revision, and its id, from the payload as well.
* A payload whose `id` is not the row's makes the whole push raise (`services.py:59-62`).
* `AppDatabase` registers the outbox table of `tables.dart:53-65`, without the unique key and the
  columns `OutboxDao` uses. With the table it imports, an enqueue of a pending entity under another
  row id would raise instead of coalescing (`outbox_dao.dart:18-19`).
* A page is applied change by change, not in one transaction (`TECHNICAL_ARCHITECTURE.md:730`).

* A password change says it spares the current session (`auth_views.py:137-139`,
  `test_auth_security.py:163`); `_revoke_all` revokes every one. A lost answer to a refresh is to
  be forgiven for a while (`test_auth_security.py:170`); the server has no such grace.
* A session that was refreshed is not in the list of sessions (`ListShowsFirstTokens`): it reads the
  outstanding rows, of which `session_security.py:59` expects "one row per refresh".
* `SessionListView` compares the `jti` of a refresh token with that of the access token, so no
  session is ever the current one, and it looks devices up by that `jti`, which is never theirs.
* `auth_views.py` is not in `urls.py`; two of its throttle scopes have no rate. No code issues
  the token `VerifyEmailView` consumes, and `User` has no `email_verified_at`.
* `ChangePasswordView` checks the password of the row loaded at authentication, so a change can
  follow a reset that came in between.
* An address is unique with its case and looked up without it (`email__iexact`, `first()`).
* The retention sweep promises more (refresh tokens, tombstones, logs) than it deletes.
* A draft is published by no `save()`: setting the date is already refused as an edit of a
  published version. The admin's form may clear the date and rewrite, and a deleted version's
  number may be used again: the two ways `SameVersionSameBytes` allows for.
* The catalogue lists a version before its date (`content/serializers.py`), the download waits
  for it; a download accepts a subscription past its `expires_at`, `EntitlementView` does not.
* Store events are never processed, and nothing writes a `Subscription`.
* The id a client gives a bookmark is ignored (`core/models.py:8-16` wants it kept), so a repeated
  POST makes a second one; a PATCH is not last-write-wins (`quran/models.py:170-172`).
* `ImmutableModel.save` refuses every row that has a key, a new surah too.
* On the client, `SecureTokenStore.exchange` throws, `AuthApi.exchange` keeps neither token, and
  Dio takes a 401 for an answer, so `AuthInterceptor.onError` never sees one.

## Not modelled

* The parts of the client that nothing calls or binds: the guest claim, the interceptor's token
  store and `RotationRecovery`, the cache interceptor, the session watcher, the recorder of
  reading positions. A model would have to invent what surrounds them.
* The bookmarks and positions of a push, which the server ignores; `DeviceViewSet` and
  `last_sync_at`, which no handler reads; the `since` parameter of the bookmark list.
* Who may download a premium pack: a read of subscriptions that nothing in the repository writes.
* `VerifyEmailView`, `revoke_all_sessions`, `LoginAttemptGuard`, `touch` and the security headers:
  no path leads to them. The admin's form for users, which saves whole rows as the profile screen
  does.
* `?ordering=` on the list of bookmarks, which `OrderingFilter` (`settings/base.py:127-130`) accepts
  and the cursor follows: `WalkIsComplete` is about the list as the app's code would ask for it, and
  its mutant is that of a client that asks for `client_updated_at`.
* Pure functions and presentation: prayer times and countdown, selection and ranking on the home
  screen, guards and deep links, themes, numerals and screens.

## What is left

When the client's token store is bound, the interceptor against `Sessions`, with lost answers and
queued 401s. The composition of `Sessions`, `ResetLinks` and `AccountRow` is an alternative, not
an interleaving: requests of the three meet only in the user's row.
