# A verification project for the Ludus engine and its editor

Ludus (the Python package is `wavemaker`) is a self-hosted backend for games: a
FastAPI and PostgreSQL service made of a *platform* and of *apps* on it (content,
economy, inventory, leaderboard, media, progression), extended by plugins, and a
Next.js editor in front of it. This directory holds TLA+ models of the parts of
it whose correctness depends on interleaving, failure and order, the TLC runs
that check them on small instances, and theorems about them that TLAPS checks.

`tlc -config X.cfg M` runs a check and `tlapm M.tla` a proof; `PROJECT.json` lists
the runs, the source lines every definition stands for, a mutation of the code for
every property that shows the property can fail, the hazards of the code and the
disagreements found.

## 1. The system

### How it runs

One process serves HTTP. Routes written as plain `def` run in a thread pool; a few
`async def` routes (saving waves and levels) run on the event loop. Every request opens
a database session of its own (`platform/identity/http.py:35`), and closing it
rolls back what was not committed. PostgreSQL runs at its default isolation, read
committed, and no handler retries: a serialization problem, a deadlock or a broken
connection is an error 500. So the concurrency that matters is *statements of
different transactions interleaving*, with row locks between them; and the
failures that matter are a request that stops between two statements, an answer
lost after the commit, and a process that dies between two file operations.

### Components

| component | state it keeps | operations | what makes it correct |
|---|---|---|---|
| wallets (economy) | `economy_balance`: an amount per player and currency | grant, spend, credit (the platform's currency port) | no update lost, none below zero or past `bigint`, none without a player |
| rewards (progression) | `progression_xp` | reward | XP and all credits together or not at all |
| sessions | `refresh_token`: a row per session, live until `revoked_at` | sign in, renew, end every session of an account | a token buys at most one session; an ended session stays ended |
| editor session client | the refresh cookie (a browser's), an access token and a renewal in flight (a tab's) | `apiFetch`, `signIn`, `signOut`, `restoreSession` | no needless sign-out, no call left waiting, a sign-out lasts |
| players, API keys | `player`, `api_key`, the tokens handed out | start a session (upsert), rename, page, mint and revoke | one player per identifier; a walk returns each player at rest once; no token stands in for another |
| inventory | `inventory_item`, `inventory_schema`, `inventory_entry` | save items, replace the schema, grant in batches | holdings are the sum of the grants that were kept; a refused line leaves no trace |
| the XP curve (progression) | `progression_stage` | replace, read progress, tell a reward's stage | a curve is one somebody sent, whole; a stage fits the curve it is told by |
| leaderboard | boards, one best score per player and board | save board, submit, page, rank | of two scores the better stays; pages neither skip nor repeat |
| levels (content) | `wave_level`, its members by position, which level is active | create, replace, delete, activate; delete waves, one or a batch | one active level; a list is one that was asked for; no request fails through another's doing |
| serving (content) | published waves, the active level; the client's copy | poll, list, document, active level, each by tag | "unchanged" means the copy is what is published; polls settle |
| wave documents (content) | documents, their play order | save, import, publish | an import whole or not at all; orders without collision |
| media | a row and a blob per asset, mixes | add, remove, mix, read | a row has its bytes; what is left after a failure is only garbage |
| plugins | the registry's files and index, a directory and a receipt per plugin | publish, install, remove, mount, serve screens | what runs from the registry is what a trusted key signed |
| app migrations | the database's catalog, a ledger of who owns what | run an app's migrations and judge them | an app changes only what it made or was handed |
| application start | the registry of apps, routers and the ledger port | register, migrate, mount, report | a failing plugin stays out and the others are served |
| editor content module | the wave being edited, its timelines | load, edit blocks, convert, save, simulate | what is shown as saved is what the engine has, under its own id |
| editor shell | modules loaded for the apps and plugins of the engine | load, fail, show | a plugin that fails does not stop the others |

### Interactions

A *reward* calls the economy through `platform/currency.py`: the caller's session goes
along, so the ledger writes in the caller's transaction and never ends it. The
economy's own *grant* sends the same statement and commits. Per-player tables refer
to `player` with `on delete cascade`. The *editor* reaches the engine through its own
server's routes: `/api/login`, `/api/refresh` and `/api/logout` hold the refresh token
in a cookie no script can read, while pages hold the access token in memory. Deleting
waves takes them out of levels by foreign key, in the deleting transaction. A *game
client* compares `/status` with what it has, and asks again for what moved.

### What is hard

`PROJECT.json` lists the hazards at their lines; section 5 has those that no property covers. The families are: statements of two
transactions interleaving over the same rows (wallets, sessions, levels, entries);
values read without a lock and used later (the player of a reward, the token of a
renewal, the schema of an item); one part of several that fails (rewards, grants,
assets, app migrations); values checked and used after something replaced them (an archive in the registry, a schema); deadlock between transactions that lock in the order
a client chose; a shared renewal in the editor that several calls await and that may
throw; answers that arrive after something else happened (a renewal after a sign-out);
and a crash between writing bytes and naming them in a row.

## 2. The modules

| module | models | how |
|---|---|---|
| `Rows` | PostgreSQL's rows, row locks, commit, rollback and rings of waiters (external) | used with `INSTANCE` wherever requests lock rows |
| `PlayerLedger` | what grant, spend and reward promise | abstract: each request is one step |
| `RewardTxn` | `economy/adapters/postgres.py`, `progression/adapters/postgres.py` | one action per statement |
| `Curve` | the rest of progression: the curve, progress, the answer to a reward | one action per statement |
| `Boards` | `apps/leaderboard` | a submission is its upsert and the reads after it; a walk is a page a step |
| `Grants` | `apps/inventory`: granting | a line and its savepoint are a step |
| `Items` | `apps/inventory`: items and their schema | read, check, save |
| `Waves` | `apps/content`: documents, imports, publication | one action per upsert |
| `Apps` | the apps that share only the service | `Boards`, `Grants`, `Items`, `Curve` and `Waves` side by side |
| `LevelBook` | what `WaveStore` promises about levels (`content/application/ports.py`) | abstract: each request is one step |
| `Levels` | `content/adapters/postgres.py`, everything that writes levels or their members | one action per statement and row |
| `Serving` | `content/adapters/http.py`, `domain/hashing.py`, and the client of `docs/concepts/caching.md` | the authors' writes are whole; the reads for one answer are not |
| `Media` | `apps/media` over `platform/storage/blobs.py` | one action per file operation or commit |
| `Sessions` | `platform/identity/sessions.py` | one action per statement |
| `Players` | `platform/identity`: players, keys and the reading of tokens | authenticate, take the time, upsert |
| `PluginStore` | `platform/plugins` and the start of a service, `platform/http/factory.py` | one action per file read, checked, unpacked or renamed |
| `AppMigrations` | `platform/plugins/migrations.py`, `platform/persistence/catalog.py` | a migration is any statements, one a step |
| `PlatformParts` | the platform's parts | `Sessions`, `Players`, `PluginStore`, `AppMigrations` and `Media` side by side |
| `EditorSession` | `editor/src/lib/api.ts` and the session routes | extends `Sessions`: its calls drive the engine's handlers |
| `WaveEditor` | the editor's `stores/editor.ts`, `lib/timeline.ts`, `screens/WaveEditor.tsx` | one action per edit, call, answer and arrival |
| `Editor` | a page of the editor | `EditorSession` and `WaveEditor` side by side |
| `Listing` | lists that are kept as rows with positions: `NthOf`, `Closed` | used by `Levels`, `LevelBook`, `Curve` and `WaveEditor` |
| `RewardTxn_proofs`, `Levels_proofs`, `LevelBook_proofs`, `Serving_proofs`, `Apps_proofs`, `PlatformParts_proofs`, `Editor_proofs` | | the theorems of section 4 |
| `Numbers` | | what these proofs need of the natural numbers and of lists |

`Apps`, `PlatformParts` and `Editor` are what the proofs are about: every part may take the next step.
Every `MC*` module gives the constants of its module values for TLC. `MCApps`, `MCPlatform` and `MCEditorSession` hold several
components each. These share no state, so a variable `part`, chosen in the initial state, says which of them a
behaviour is about; the others stand still, and their state spaces add up and do not multiply.
An operator whose name has an underscore and a capital after it
(`Fits_Unchecked`) is a mutation: a plausible bug that some property has to notice.
Nothing else refers to it.

### Rewards, grants and spends: `RewardTxn`

Each client is a connection with one transaction. `Receive` is the request after
validation; `phase` and `at` say which statement comes next. A *credit* is one
`insert ... on conflict do update`, which is `AddToRow`, `InsertRow` or one of the
refusals, by what the newest version of the row is once the lock is had; a *spend* is
one `update`, which sees only rows committed before it began and then works on the
newest version. The foreign key of an insert takes a key share lock on the player
(`keyShare`). `BeginRemoval` and `FinishRemoval` are a `delete from player` by an
operator: the player's row first, then the cascade over the rows committed by then. A
reward looks the player up (`FindPlayer`) without a lock before it writes. `Fail` is a
lost connection or a dead process, and `DeadlockAbort` what PostgreSQL does to a
cycle of waits. `Rows` keeps for each row the committed version (`store`), the newest
(`draft`) and the lock (`holder`).

`added` and `credited` are auxiliary: what an open transaction has added, and what
committed ones have.

### Sessions: `Sessions`

Renewing is `ReadToken` (a plain select), `Rotate` (the update), `CheckAccount`, `Issue`
(insert and commit). Presenting a revoked token is `FindLive`, `RevokeRow` for each row
found, `CommitEnding`: an `update` that locks its rows in turn and sees only the rows
committed before it. `Fail` rolls back, and `Issue` may lose its answer. Time passes by
`Expire`, operators act by `Disable`. The auxiliary `heirOf` remembers the token
each was bought with, `ended` the sessions a caller was told are over.

### The editor's side: `EditorSession`

A caller is one call of a tab; `job` says where it is. `Refreshing(b)` is
`refreshInFlight` of tab `b`, and all of `Awaiting(b)` go on together when it settles.
`Serve` and `ServeFails` are the engine's steps of `Sessions`. `excuse` records that
something happened which may end a session (a sign-out, an expiry, a disabled account,
an answer that was lost), so that `NoNeedlessSignOut` speaks of the remaining
behaviours only.

### Levels: `Levels` and `LevelBook`

Each operation is a list of statements, `Plan`, in the order the code sends them, and the
orders are what the properties are about. A statement with a `where` is `Scan` (it
picks its rows from what is committed when it begins), then `WriteFound`, `ShareFound` or `Skip`
for one row at a time (it waits for the row's lock and looks at the newest version again),
then `Scanned`, or `Refuse` when the code finds too few rows. Scans take their rows in
any order, as nothing in the code fixes one. `InsertMembers` is one insert of many
rows; `PassUnique` and `ViolateUnique` are what the partial unique index says to the row an
activation has just written. `overlapped` is auxiliary.

`create_level` and `update_level` are called by `async def` routes, so a single process
serves one of them at a time; activations and deletes run in threads. The store is written,
and tested (`test_level_storage.py`, twelve threads), for replacements that overlap, and the model lets
everything overlap: it is the service with one process or several.

In `LevelBook` a request is settled in one step: `Settle` (a refusal, at a moment when it is true), `Write`,
`Delete`, `Drop` or `Activate`. `Levels` maps its committed rows to the book's lists,
and a statement that has found a row missing to a settled refusal (`Verdict`).

### Serving: `Serving`

Authors write whole (`LevelBook` says why that is enough), and the parts of one answer or of one
launch are read at different moments. A hash is modelled by its input, so two tags are equal exactly when
what they were taken over is. The client is not in the repository: it is the "well-behaved client" of
`docs/concepts/caching.md`, which keeps a list together with the list's own tag once all its documents
are there. A client that kept the *polled* hash with a list fetched later could take an old hash
that comes back, after a wave is published and withdrawn, for its newer list.

### The apps' own tables: `Boards`, `Grants`, `Items`, `Curve`, `Waves`

*Boards.* `Write` is the upsert of a submission. It compares with the newest version of the entry, in the direction that
the statement's snapshot has of the board, and an editor may save the board between the two; `ways` remembers the
directions a board has had, so that `BestIsKept` can speak of scores sent while there was one. `ReadPage` reads a
page by the key of the last row shown (`Beyond`); `still` holds the players whose entry has not moved since the walk began, which are those that
`WalkedOnce` promises exactly once.

*Grants.* `Apply` is one line: the savepoint, the statement, and either the lock that stays or the refusal that is rolled back to the
savepoint, which is to give back the lock. `Finish` commits only when no line was refused. Lines take their locks in the client's order, so two
grants may wait for each other and one then fails; `OneLineIsSafe` says that a grant of one line never stands in such a ring.
`granted` is auxiliary: the sum of the grants that were kept.

*Items.* `StartSave`, `Check`, `Save`: the schema is read in the second and the item is written in the third, and `ReplaceSchema` may come between. The
code does not promise that an item fits the schema in force, so `ItemsFitASchema` says what it does promise: the item
fits one that was in force while it was being saved (`since`).

*Curve.* `Lock`, `Delete`, `Insert` are the replacement under the project's advisory lock; `TellProgress` and `TellReward` read without one. `StageOfTheXp` says that
every stage told belongs to the XP told and to *a* curve that was in force, not that it is the curve of the reward's moment.

*Waves.* `Write` upserts one document of an import, waits for rows and for orders that another transaction has taken or given up (`Contested`), and
`Commit` ends all of them together. `book` is what the imports and changes that were answered add up to.

### The platform: `Players`, `PluginStore`, `AppMigrations`, `Media`

*Players.* Authenticating a key (`StartSession`), taking the time (`TakeTime`) and the upsert (`Upsert`) are three steps: a key may be revoked in between, and a later
request may have written a later time. `ListPlayers` is a page of a walk by (last seen, id). `tokens` are signed claims; `Act` presents any
of them to any route.

*PluginStore.* The registry is `file` and `index`; `find`, `Verify`, `Fit`, `Stage`, `Aside`, `Place` are the install, and `Abandon` is its
failure or its death at any of them. Publishers, whoever may write the registry's directory (`Misplace`, `EditIndex`, bounded by `Meddled`), an operator who
removes or copies in a plugin, and a starting service interleave with it. An archive *is* its bytes and its checksum; what its manifest says is `Declares`. `signed`
is auxiliary: what each key has signed.

*AppMigrations.* `Begin` takes the advisory lock and lists the catalog; the statements of the app's migrations (`Create`, `Alter`, `Drop`, `WriteRows`, and `Escape`, a `COMMIT` of their own)
follow in any order and number; `Judge` lists the catalog again, and keeps everything or rolls it back (`Refuse`, `Break`).
The platform's own history (`migrate`) is not under the advisory lock. `maker` is auxiliary: who really made an object, or `Unjudged`
when a commit escaped the judgement or the history ran within a run.

*Media.* An upload is `Upload`, `Receive` (chunks into `<id>.partial`), `Finish` (rename), `AddRow`; a removal is the row and then the bytes;
serving is the row and then the bytes. `Crash` may come anywhere. `doubtful` are assets whose commit went unheard, `stranded` the files a crash left.

### The wave screen: `WaveEditor`

The store belongs to the page and outlives the screen, and so do calls under way: an answer may arrive when the screen shows another wave,
and `Opened` loads it all the same. `save` sends whatever the store has to the address of the wave the *screen* is of. `toTimeline` and `toSequence` are the conversions:
a jump that takes no time is folded into the block after it. Of two such jumps in a row the code keeps the second and says so
(`timeline.ts:85`); what a folded jump fires is dropped as well. `CleanIsStored` therefore compares what is *played*.

## 3. The runs

| run | instance | what it shows |
|---|---|---|
| `reward_txn` | 3 clients, 1 player, 2 projects, 2 currencies and XP, 8 requests, `MaxStored` 3 | the four invariants, `WholeOrNothing`, and that `RewardTxn` implements `PlayerLedger` |
| `reward_txn_live` | 3 clients, 3 rewards that lock 3 currencies in a ring | every request is answered |
| `levels` | 2 authors, 2 levels, 2 waves, every operation, lists in two orders | `Levels` implements `LevelBook`, batch deletes and deadlocks included; no constraint is ever reached; of two that wait for each other, both activate or one is a batch delete; an activation alone works |
| `levels_race` | as `levels` | two activations at once: see the findings |
| `serving` | 2 waves, 2 texts, 1 level, 4 stamps | "unchanged" means the client has what is published; a polling client gets there; a withdrawn wave does not look current |
| `serving_level_tag` | 2 waves, 1 level, every list | a reordered level is "not modified": see the findings |
| `apps` | 2 requests in each of leaderboards (twice), grants, the catalogue of items, the curve, the waves | the better score stays and a walk misses nobody; grants add up, of items that exist, and one line is never stuck; items fit a schema of their time; a curve is whole and a stage fits; imports are whole |
| `platform` | 2 requests in each of sessions, players (twice), plugins (twice), app migrations, media | rows of tokens are locked only to be revoked, and what bought another is revoked for good; one player per identifier, walked once; no token stands in for another; what runs was signed; apps change only their own; rows have bytes, and refusals leave none |
| `sessions_fork`, `sessions_revived` | 2 callers, 3 or 4 tokens | two promises that overlap breaks: see the findings |
| `editor_one_tab` | 2 callers of 1 tab, 3 tokens; and a wave screen, of one wave or of two | a shared renewal signs nobody out, frees everyone who awaits it and keeps the cookie live; no wave is stored under another's id; what is clean was stored |
| `editor_two_tabs` | 2 callers, 2 tabs | see the findings |

**Bounds.** Rows of different players and accounts never meet, so one of each is
enough. Three clients are needed for a cycle of waits longer than two, and for a third
transaction to act on what two others left. `MaxStored` is the largest `bigint`: with 3
and amounts of 1 and 2, sums stop below, at and above it. `MaxToken` bounds how many tokens a
behaviour issues: two renewals of one token need three, and a session that outlives
the ending of all others needs four.
Levels are locked one by one, so two show everything two
activations can do to each other; one of them has the lists of one wave and of two in either order, the
other none, since what matters between two levels is which is active. A level id is used once, as `uuid4`
makes it, which bounds `levels`. Two authors suffice for a replacement against a replacement, a delete or a
batch; a third adds another holder of what is waited for. With four authors a ring
of two single deletes and two replacements can form, each waiting for the next: `DeadlocksAreKnown` is about two requests that wait for
each other, and says nothing of longer rings. `MaxStamp` counts the writes of waves: two waves
saved and published take four, and each further one is a save, a withdrawal or a
publication between two fetches.

In `apps` and `platform` two requests meet, as every hazard there is of a pair: what one read or wrote against what the other did in between.
A race on a board has two players and two scores, at a range where any two compare, a walk three players and pages of one or two, so that a tie
falls on the edge of a page. Grants have two lines over two items, the least for locks in opposite orders, and a quantity of one fills an entry. Imports have two documents, two orders, and
so every collision. The plugin store has two archives of one version of a plugin, one of the next, and one of a plugin whose tables overlap with it and
which does not unpack; one part installs one plugin against every meddling, the other installs two at a time. A migration has three statements:
one object made, altered and filled, or one that is refused between two, or one that escapes before the others. An upload has a `LIMIT` of two chunks, so a file may be at it or past
it, and two ids, one to mix and one that comes of it. `MaxTime` of the players' clock is two: an earlier, an equal and a later moment.
The wave screen has an instance for drawing one row (two blocks, sequences that end in an instant jump or have two in a row), one for a second rule, and one for two screens of two
waves whose calls answer in any order.

**Fairness.** `RewardTxn` assumes that a handler runs on (weak fairness of `FindPlayer`
and `Commit`), that PostgreSQL breaks each deadlock (weak fairness of `DeadlockAbort`) and
that a lock's waiters get it in turn (strong fairness of `Statement` and
`FinishRemoval`: a lock that is free again and again is not always somebody
else's). Nothing is assumed of `Fail`, `Receive` or of operators. `Serving` assumes a
client that keeps polling and a network that stops failing at some time; authors may stop or go on.
The others state no fairness and have no liveness property. That a waiting call of the editor is freed is the invariant `NobodyWaitsAlone`, which
needs none beyond the engine's answering or failing; that requests over rows and advisory locks do not wait for ever is PostgreSQL's doing, as in `RewardTxn`.

**Deadlock.** TLC checks it in every run: some request can always arrive, or something
under way can always go on.

**Mutations.** For every property of a passing run `PROJECT.json` names a mutation of a definition under which TLC finds that property violated, in the run's own
instance: a comparison without its tie-break, a lock taken after the delete, a receipt written for bytes read again, an order of two
statements swapped.

## 4. The proofs

A theorem holds for every value of the constants: any number of clients, players, waves or tokens, sets of requests that
may be infinite, lists and grants of any length. What is assumed of the constants is a named `ASSUME` of the
module that declares them, or a named assumption which the theorem states; TLC evaluates all of them in the runs.

| theorem | states | assumes |
|---|---|---|
| `RewardTxn_proofs!TypeCorrect` | `TypeOK`: no stored amount is negative or too large | `ConstantsAssumption`, `RequestsAssumption` |
| `RewardTxn_proofs!NoLostUpdate` | `BalanceIsSumOfCommits` | the same |
| `RewardTxn_proofs!RowsHavePlayers` | `NoOrphanRows` | the same |
| `RewardTxn_proofs!NewestVersions` | `VersionsAgree` | the same |
| `RewardTxn_proofs!RewardIsWhole` | `WholeOrNothing`, an action property | the same |
| `RewardTxn_proofs!RewardImplementsLedger` | `RewardTxn` implements `PlayerLedger` | the same |
| `Levels_proofs!LocksHaveReasons` | the invariant of `Levels` | `ConstantsAssumption`, `PlanAssumption` |
| `Levels_proofs!NoRuleIsReached` | `RulesNeverReached` | the same |
| `Levels_proofs!WaitsAreKnown` | `DeadlocksAreKnown` | the same |
| `Levels_proofs!LoneIsNotRefused` | `LoneActivationWorks`, an action property | the same |
| `LevelBook_proofs!LevelsImplementTheBook` | `ImplementsLevelBook`: `Levels` implements `LevelBook` | these and `RequestsAssumption` |
| `Serving_proofs!UnchangedIsSafe` | `PlaysWhatIsPublished` | that `Absent`, for "nothing cached", is no list of summaries |
| `Serving_proofs!WithdrawnIsSeen` | `LevelShowsNoDraft` | `ServingAssumption` |
| `Apps_proofs!BetterScoreStays` | `BestIsKept` | `BoardsAssumption` |
| `Apps_proofs!WalkShowsEntriesOnce` | `WalkedOnce` | `BoardsAssumption` |
| `Apps_proofs!HoldingsStayOfItems` | `HoldingsAreOfItems` | `AppsAssumption` |
| `Apps_proofs!OneLineStaysSafe` | `OneLineIsSafe` | `AppsAssumption` |
| `Apps_proofs!GrantsStayAddedUp` | `GrantsAddUp` | `AppsAssumption` |
| `Apps_proofs!ItemsStayFit` | `ItemsFitASchema` | `AppsAssumption` |
| `Apps_proofs!CurveStaysWhole` | `CurveIsWhole` | `AppsAssumption` |
| `Apps_proofs!StageIsOfTheXp` | `StageOfTheXp` | `AppsAssumption` |
| `Apps_proofs!CatalogueStaysWhole` | `CatalogueIsWhole` | `AppsAssumption` |
| `PlatformParts_proofs!SessionsShareAPlayer` | `OnePlayerEach` | `PlatformAssumption` |
| `PlatformParts_proofs!WalkShowsPlayersOnce` | `PlayersWalkedOnce` | `PlatformAssumption` |
| `PlatformParts_proofs!NoTokenIsTakenForAnother` | `NoTokenStandsIn` | `PlatformAssumption` |
| `PlatformParts_proofs!OnlySignedIsPlaced` | `RunsWhatWasSigned` | `PlatformAssumption` |
| `PlatformParts_proofs!ScreensAreSigned` | `ScreenIsVouched` | `PlatformAssumption` |
| `PlatformParts_proofs!LedgerStaysTrue` | `LedgerIsTrue` | `PlatformAssumption` |
| `PlatformParts_proofs!AppsKeepToTheirOwn` | `OnlyItsOwn`, an action property | `PlatformAssumption` |
| `PlatformParts_proofs!RowsKeepTheirBytes` | `RowsHaveBytes` | `PlatformAssumption` |
| `PlatformParts_proofs!NothingStaysBehind` | `NothingLeftBehind` | `PlatformAssumption` |
| `Editor_proofs!SessionTypes`, `LocksRevoke`, `SpentTokens` | `TypeOK`, `LocksAreRevocations`, `RotatedIsRevoked` of `Sessions` | `SessionsAssumption` |
| `Editor_proofs!NothingRevives` | `RevokedForGood`, an action property | `SessionsAssumption` |
| `Editor_proofs!EditorUsesSessions` | `EditorSpec => Spec`: what is proved of `Sessions` holds in the editor | `EditorAssumption` |
| `Editor_proofs!SomeoneRenews` | `NobodyWaitsAlone`, with any number of tabs | `EditorAssumption` |
| `Editor_proofs!OneTabStaysSignedIn` | `NoNeedlessSignOut`, if `AllInOneTab` | `EditorAssumption` |
| `Editor_proofs!OneTabKeepsLiveCookie` | `CookieIsLive`, if `AllInOneTab` | `EditorAssumption` |
| `Editor_proofs!WavesKeepTheirNames` | `NoWaveUnderAnothersName` | none |
| `Editor_proofs!CleanStaysStored` | `CleanIsStored` | `WaveEditorAssumption` |

### The arguments

*Rewards.* `BalanceIsSumOfCommits` and `NoOrphanRows` are not inductive: a commit
replaces `store` by `draft`, so one has to know what `draft` is. `VersionsAgree` says it: the
newest version is the committed one plus what the lock's holder added, a row without a
lock has no other version, and a row only an open transaction has seen belongs to a
player whom that transaction's key share lock protects. `Inv` is the conjunction of
the four. Its preservation has one lemma for each way a step can change rows: `RollbackInv`
(every refusal and failure), `ExecutedInv` (every statement that succeeds), `CommitInv`,
`RemovalInv`; `NextInv` sorts the actions into these.

*Rewards implement the ledger.* A commit maps to the whole request of `PlayerLedger`, which adds up the parts of the request; so one more
invariant, `Served`, says that what a transaction has added by its k-th statement is the sum of the first k parts. Refusals and failures map to the ledger's, everything else to a stutter.

*Levels.* Everything is about who may hold which row. `Local`, request by request: every row a request has locked is one that its statements up to
this step lock (`LocksFit`, `MayHold`); once past its first statements it *has* its level and its waves (`LevelHeld`,
`WavesShared`) and what it shares is stored (`SharedStay`); the rows a scan has still to visit or has passed over are what the statement would pick
(`ScanFits`); and what it has deleted is gone (`MembersGone`, `StoodDown`, `Fresh`). `RowsAgree` is about the rows: a version nobody has committed says who wrote it. From
these, no insert meets a row, a wave or a position that a constraint would refuse. For `WaitsAreKnown`, a request that waits either holds nothing at all, or the
row it waits for is of a kind that nobody holds who could wait for it in turn, which leaves the pairs of the statement. An attempt to prove this of rings of any
length failed, and for good reason: two single deletes and two replacements can form a ring of four. The property now says that it is about pairs.
A lone activation is in no ring, since whoever waits for it holds nothing (`LoneOnNoCycle`), and the index has nothing to say against it.

*Levels implement the book.* A commit is one step of the book, so one has to know what an open transaction has written although its statements ran row by row.
`BookInv` says it: the committed members of a level are finitely many, at positions no two share, so they are a list (`StoredAreLists`); members nobody has committed are of waves
their writer shares (`MembersAreShared`); and of each request (`Writes`), by the statement it is at, its level and its list are written (`LevelWritten`, `MembersWritten`), no other level is
active when its activation commits (`AloneActive`), the waves it deletes are gone from every list (`WavesDropped`), and its answer is the list it sent (`Tells`). `NextImplements` then has a step for each action:
a `Scan` or a `Skip` that leaves too little for the statement settles the refusal, which is true at that moment, `Commit` is the book's write, delete, drop or activation, and all else is a
stutter. Deleting a wave leaves gaps among the positions: that a list which several waves leave, at once or one after the other, closes up to the same list is `ClosedTwice`.

*Serving.* The poll compares summaries, in which there is no document. `Inv` says that no time in a row or in a
list the client has seen is in the future (`StampsArePast`); every write takes a later one, so a summary that is
still a published wave's vouches for the document that was fetched after it. That is kept for the list the client holds and for as much as it
has of the list it is fetching (`ListVouches`, `FetchedVouch`), and a fetch that is given up half-way keeps both.

*Boards.* A commit stores what was compared some steps before. `BetterIsWritten` says that it is still the better one: the entry's lock
has kept the version it was compared with, its board cannot be deleted under it (`EntriesHaveBoards`), and if all comparisons went one way, that is the
way the board has.

*The walks.* The cursor divides the rows: those at or before it have been shown once if they have not moved since, those beyond it not at all. A page is
a count of the rows before it, so one has to know that in a finite set of rows beyond the cursor a page is what the order puts first, and that it is empty only if nothing is beyond.

*Grants.* The newest versions of the entries satisfy what the committed ones do, since a commit makes them so (`VersionsAreOfItems`); and `NewestIsLocked`
says that an unlocked entry has no other version, so that a delete, which waits for the locks, leaves none behind. For `GrantsAddUp` the
newest version of a held entry is the committed one plus the sum of a grant's lines up to where it is (`SumsInv`). A grant of one line is in no ring since it holds nothing while it waits.

*Items, the curve, imports.* A save keeps what its check found (`SavesAreChecked`) and `since` never forgets a schema meanwhile. An insert of a curve adds to what its delete left, so one has to know that it left
nothing: only the holder of the advisory lock is past `Lock` (`HolderWrites`), so the rows its delete found are those still there. What an import has written so far is, of
every wave it holds, what its first documents make of the committed row, and that row stays until the import ends.

*Stages.* A reader sees the rows of one commit, so they are what somebody sent, whose thresholds ascend as its positions do (`CurveTyped`). That the highest stage whose
threshold is met and the first that is not are those of the sent list is then a fact about the two orders (`CurveInOrder`, `StageIsFound`): what is met is a beginning of the list.

*Players.* What was answered is the id in the row (`AnsweredIsStored`), no two rows share an id, and the ids which requests in flight would give a new player are
nobody else's (`FreshIds`), which is what a random id is taken to be. That no token stands in for another rests on what was signed: claims of a kind are made by one route only.

*Plugins.* Nothing in the registry need be what it was when an install checked it. The invariant follows the bytes: an install past its check
carries an archive and a trusted key with a statement of that key about that archive, and statements never go away
(`InstallsAreChecked`); so every receipt on the disk vouches for its tree (`ReceiptsVouch`), whoever removes and copies directories meanwhile, and so does every screen.

*Migrations.* A run is judged by what was there when it began; the advisory lock makes that what is there still, so the ledger that was true then is the one it is judged by (`MigrationsInv`).
The last disjunct of `OnlyItsOwn` was too weak to be proved as it first stood: an object that was filled and then dropped is neither changed nor written.

*Media.* Every file is the bytes of a row, or belongs to a request under way, or is doubtful, or was left by a crash (`LeftoversAreKnown`); every row's bytes were renamed
before the row and are removed after it.

*Sessions and the editor.* When `Issue` commits, the token it was bought with becomes revoked only if the handler still
holds that row, and a commit revives nothing only if all that is ever written under a lock is "revoked".
`LocksAreRevocations` says both. So the fork of finding 1 is as bad as it gets: two heirs, but never a spent token that works again. In a browser with one tab there is one renewal at a time, it alone revokes,
and it revokes the token it was given; so the cookie is live whenever somebody may present it (`Calm`). The hypothesis `AllInOneTab` is what the run `editor_two_tabs` shows to be needed.

*The wave screen.* A store that is not dirty shows a document the engine has or had of its wave, as it was drawn (`CleanIsDrawn`); it got there by an answer, so every answer under way carries such a
document, also one for a screen that is gone or one that another author's save has overtaken (`AnswersAreHeld`), and every document sent or stored is typed and accepted by the schema. It
remains that drawing a sequence and writing it out again changes nothing that plays (`PlaysTheSame`). What comes out is the sequence without the jumps that another overtakes, in
its order (`Shown`), a folded jump being written anew; so its playing steps are those of the sequence. The schema is needed: a jump without a target is not written again.

### How sums and lists are proved

The library's induction theorems take a predicate, which none of the provers here instantiates. `Numbers` has what replaces them: that < is well-founded on the naturals
is among the library's theorems for a *set*, and gives `Least`, `UpTo` (induction over a set of numbers) and `Recursion` (a recursive function exists, so that its equation holds). The sums
of a request's parts or of a grant's lines are recursive functions and these are what unfolds them.

Lists that the code sorts or filters (a level's members, a curve, the blocks of a row) are `Closed` over a set of positions: item n is at the position with n - 1 below it, which
defines it by a cardinality and by no recursion. `Nth` says that there is such a position, `OnlyOrder` that a numbering which ascends is this one, `ClosedIsList`, `ClosedAt` and `ClosedLast` what the items
are, and `ClosedTwice` that to close up twice is to close up once.

### What is only model-checked

- Liveness (`EveryRequestAnswered`, `Settles`) and everything with ENABLED, which this prover does not reason about.
- The violations of section 5: each is a behaviour that TLC shows.

Every invariant, action property and refinement of a passing run is stated by a theorem.

## 5. Findings

1. *Two renewals of a token that overlap fork the session* (`sessions_fork`). The select of
   the row takes no lock and the update does not look at `revoked_at` again.
2. *A renewal that overlaps the ending of all sessions survives it* (`sessions_revived`).
3. *Two tabs renew separately* (`editor_two_tabs`): `refreshInFlight` is a page's, the
   cookie a browser's.
4. *An activation that meets another is a 500* (`levels_race`): the index refuses the second, and nothing catches it.
5. *A changed level is "not modified"* (`serving_level_tag`): the active level's tag leaves out its order, its
   name and which level it is.

Other things the models follow the code in, where no document says otherwise, so that there is no property:

- Signing out while a renewal is in flight does not last (`api.ts:115`): the renewal's answer sets the cookie again.
- The refresh route clears the cookie on any answer of the engine that is not ok, a 500
  as well as a rejection (`route.ts:34`); the comment there speaks of a rejected token only.
- Edits made while a save is under way are replaced by the older document when the answer comes (`WaveEditor.tsx:110`), and nothing disables the timeline meanwhile.
- Two of `POST /waves` with one id may both be answered 201, the second having replaced the first (`admin.py:124`): the look-up and the upsert are two statements.
- An upgrade killed between its two renames leaves no plugin there (`install.py:166`), and migrations run before the move stay although the move fails (`install.py:112`).
- A screen's address carries the version read when the service started, while its bytes are read from the disk when asked for (`ui.py:256`), so an upgrade under a running service shows.

Hazards outside the models: two publishers may each write an index without the other's entry (`index.py:102`; `PluginStore` has the two steps, its instance one publisher);
the rename of a blob is not followed by a sync of its directory (`blobs.py:187`); a mixer outlives a service that is killed
(`process.py:59`); a wave that is deleted between the commit of its save and the select of its summary is a 500, although it was stored
(`content/adapters/postgres.py:188`).

## 6. What is not modelled

In the modules above: the values in answers (balances, ranks), authorization and roles but for `Players`,
a reward while no app holds currency (it is refused before anything is written), statement
time-outs, and the order in which the cascade visits rows: `FinishRemoval` deletes them in
one step once all their locks are free. A tab that gives up on a renewal while the
engine still works on it is not modelled either: the engine finishes or fails first.
In `Levels`: names, descriptions and dates of a level; publishing, which locks a wave's row for one statement.
In `Serving`: `/waves/batch` and single summaries, which read the same rows, and `app-config`, which `Waves` writes.
Players are removed only in `RewardTxn`; the tables of the other apps refer to `player` in the same way, and its argument (`NoOrphanRows`) is theirs.
In `PluginStore` the names, types and routes that a plugin's code may not take are part of what an install refuses, and the code itself is not run.
In `Media` the mixer is what it may end as. Schemas, media types and documents are members of small sets.

Components left out:

- *The preview's simulation* (`simulator/`) is arithmetic on real numbers, a frame at a time, and changes nothing anyone else reads. The *level screen*
  edits a list of its own and sends it whole, which is `Levels`' replacement.
- *The editor's shell* loads modules once, when a page opens, and skips one that fails; its *screens* are views of one request at a time.
- *Configuration, the CLI and deployment* have no state that steps of two actors share. Of *application start*, settings, the engine and its directories are
  opened by one thread before anything else runs; what interleaves with installs and migrations is in `PluginStore` and `AppMigrations`.

## 7. What is left

The models are complete as far as the code has state that more than one actor changes, and their safety is proved. What
could still be said is more than the runs ask: which rings of more than two waiters there can be in `Levels`; and, with a prover for it, the two liveness properties could be proved.
