# onedrive-sync: specifications, model checking, proofs

TLA+ specifications of the daemon in `src/daemon/src`, checked with TLC on small
instances and, where stated, proved with TLAPS for every instance. The daemon
mounts a OneDrive account as a FUSE file system, keeps a SQLite copy of the
drive's metadata, and synchronises both ways every thirty seconds.

## 1. The system

| component | state | operations | who it talks to |
|---|---|---|---|
| scheduler (`scheduler/simple_scheduler.rs`) | the mutex `sync_running`, the ticker's handle | tick, spawn a cycle, shut down | spawns `SyncCycle::run`; stopped by `main.rs` |
| sync cycle (`tasks/delta_update.rs`) | nothing that outlives a cycle; the delta link in `sync_state`, rows in `processing_items`, `download_queue` | fetch the delta, store one row per change, run the processor, run the downloads | Graph API, all repositories |
| sync processor (`sync/sync_processor.rs`) | `processing_items` | housekeeping, squash, remote rows, local rows, parent chains | strategy, Graph API, fuse table |
| strategy (`sync/sync_strategy.rs`, `sync/conflicts.rs`) | none | find conflicts of a remote or a local row, resolve some | repositories |
| FUSE (`fuse/*.rs`) | `drive_items_with_fuse`, `local/<inode>`, open handles | lookup, readdir, create, write, release, rename, unlink, mkdir, rmdir, open, read | writes local rows for the processor; queues downloads |
| D-Bus server (`dbus_server/*.rs`) | the settings in memory (`RwLock`) | queries, pause, full reset, add/remove a sync folder, fetch a file, resolve a conflict | repositories, settings file, token file |
| authentication (`auth/*.rs`) | the tokens in `secrets.json` (the check for a key ring answers no, `token_store.rs`) | sign in, load, refresh, save | every Graph call |
| configuration (`lib/src/config.rs`) | `settings.json` | read, write defaults, save | daemon, file handler process |
| connectivity, status broadcast | none that is kept | check, emit D-Bus signals | the applet; the broker (`message_broker.rs`) has no user |
| start and stop (`main.rs`, `app_state.rs`) | tasks, shutdown channel | start in order, wait for a signal, stop | everyone |

Threads of control that interleave: the ticker; the cycle it spawns; the FUSE
session thread (one request at a time); D-Bus method calls; the status and
connectivity loops; the other clients of the OneDrive account. They share the
SQLite database, one statement at a time: **no handler opens a transaction**, so
every pair of statements is a place where another thread, a failure or a kill
may come in between. Nearly every hazard below comes from that.

What is hard here, and the properties each component answers to:

* the delta link, the rows and the database are three commits: no change may
  fall between them (`NothingMissed`), rows keep the order of the changes
  (`RowsInOrder`), and the database reaches what the server has (`Converges`);
* a row goes `new -> processing -> done` over several statements, and a retry
  comes after younger rows of the same item (`RegressesOnlyOnRetry`);
* downloads go through two directories and a queue, beside open handles and D-Bus
  calls that write the same file (`SyncFoldersMirrored`, `WritesKept`,
  `FreshWhenQuiet`);
* a file the user creates gets a temporary id, which its handler replaces in two
  tables with two statements while the user goes on: each change and each
  deletion must reach OneDrive or leave a row (`ChangesRecorded`,
  `EditsRecorded`), once (`OneCopy`), in the right file (`OwnContent`), and only
  deletions may delete (`DeletesOnlyUnlinked`);
* rules rewrite the rows of an item before they are sent; whatever they make of
  them, OneDrive gets what the user has (`Converges`), and the loop that tries
  failed rows again returns (`CycleEnds`);
* both sides change one file: no version may be replaced that nobody has seen
  (`UnseenKept`, `EditsKept`), a conflict that is shown can be answered
  (`Answerable`), and answers that race the cycle and each other are carried out
  (`OneSideKept`, `ChoiceCarriedOut`);
* a folder goes while items are made in it: their parents are rebuilt, one row and
  one id at a time (`ParentComes`, `NewItemsKept`, `Arrives`);
* four tasks refresh one token file, and a reset removes it in their midst
  (`TokensAgree`, `OneAccount`, `StartsUp`); two processes and any number of calls
  save one settings file without a lock (`ChoicesKept`, `FolderComplete`);
* cycles must not overlap although each takes its mutex after it was spawned
  (`OneCycleAtATime`, `ImplementsSerialExecutor`).

## 2. The modules

### SerialExecutor, Scheduler, SchedulerProofs

`SerialExecutor` is what the scheduler promises: a cycle is submitted once,
starts after that, runs alone and ends at most once. `Scheduler` is the code: the
ticker's `try_lock` (`TickLock`), `tokio::spawn` (`Spawn`), the end of the `if
let` scope that drops the guard (`TickUnlock`), the task's own
`lock().await` (`Lock`), the end of the cycle (`Finish`), and the shutdown of
`main.rs` (`Signal`, `StopTaskManager`, `Exit`). tokio's mutex is external and
fair: `Release` hands it to the first waiter. A tick that finds the mutex taken
only logs; it is a stuttering step.

### DeltaSync, DeltaSyncProofs

The remote half of a cycle. One action is the code between two awaits another
actor can tell apart:

    Start FetchPage* StoreLink StoreRow* ListRows
      ( BeginRow ( ApplyContent [Enqueue] | ApplyDelete | MoveOnServer StoreMoved ) FinishRow )*
    ListDownloads ( FetchContent MarkCompleted MoveToLocal )* Finish

and beside it each way out: `FetchFails`, `StoreLinkFails`, `StoreRowFails` (`?`
leaves the cycle), `RowFails` (the row becomes `error`),
`ApplyDeleteFailsQuietly` (the handler warns and goes on), `DownloadFails`
(`failed`), `DownloadAborts`, and `Crash` anywhere. Other clients change the
drive at any moment (`RemoteChange`), and the server may forget a token
(`Expire`). A change of an item is a record: its etag (the clock value of the
change), its content, its parent and whether it is deleted. `cut` is a history
variable: the changes the daemon held and dropped, or overwrote with an older
one.

Left out of it: local rows (the local half), names and missing parents
(FolderTree), restoring a deleted item. Rows `done` and `completed` are kept where
the code deletes them; no query selects them.

### LocalChanges, LocalChangesProofs

The local half: the user's requests through FUSE, the rows they leave, and the
half of the cycle that squashes those rows and sends them. An action is about one
statement or one request, because an entry read by one step may have another id,
name or deletion mark when the next step stores it.

* A request is an action of the user (`Create`, `Write`, `Release`, `Rename`,
  `Unlink`, `Replace`), which does what precedes the first store, followed by the
  statements it leaves in `fuse`: `FuseSelect` then `FuseUpdate` or `FuseInsert`
  (the two statements of `store_drive_item_with_fuse`), `FuseReread` (the lookup
  a rename unwraps), `FuseMark`, `FuseRow`. fuser serves one request at a time.
* The cycle is `Start`, a `Squash` per id (`SquashStops` leaves a rule half done),
  then rows in id order: `Begin` or `SetConflicted`, the handler, `FinishRow`.
  Handlers are `UploadNew RewriteEntry RewriteRows GetItem` for a create,
  `UploadChange`, `DeleteOnServer`, `Relocate` for the others, and `StoreAnswer`,
  `RowAnswered`. `HandlerRefused` is every way to fail that the state decides,
  `HandlerFails` those it does not, `HandlerPanics` the `unwrap` of a missing
  entry, and `Outcome` lets an answer get lost after the server did its part.
* `recent` stands for the column `last_status_update`: a row touched less than
  5 s ago is not selected. `TimePasses` empties it, between cycles or during a
  slow request.
* An inode is the index of an entry, a temporary id is minus the inode it was
  made for, a OneDrive id is an index in `server`. `want` is history: what the
  user wants of every file, all the places it had, and whether a request or a
  handler about it was cut short. A file of OneDrive has history too: the inode
  it was made for, the one its content came from, the last row that gave it a
  place, and whether a row took it to a place the user never gave it (`stray`) or
  came after a younger one (`undone`); both are named in 5.

Left out of it: changes by other clients (TwoWaySync), `setattr` and handles
(OpenFiles), new and removed folders (FolderTree), the rules for the trash,
requests on handles of unlinked files, content that is not on disk, and names that
differ in case only.

### TwoWaySync, TwoWaySyncProofs

One file that the user and another client change, through both halves of the
cycle. OneDrive is a log per id: the etag is its length, the ctag the content at
its end. Where `LocalChanges` takes requests and squashing apart, one action is a
whole request here; what is taken apart is what races: the row as it was listed
(`Listed`), the check of a remote row (`Begin`, `CheckRemote`), its parking in
`conflicted` (`Park`), its handler (`Apply`, `FinishRow`), the check of a local
row and its handler (`CheckLocal`, `Send`, `SendNew`, `StoreAnswer`), the download
(`FetchContent`, `MoveToLocal`; downloads are queued by id, and an entry whose id is
replaced leaves the one of the old id behind), and beside them each call of `resolve_conflict`:
`Ask` reads both rows, `Cancel` writes the loser, `Requeue` the winner,
`RenameEntry` the entry's id. `DayPasses` is the midnight (UTC) at which a row in
conflict becomes selectable (hazard at `processing_item_repository.rs:615`).
`known` is history: from which versions each content was made, which is how
`UnseenKept` tells an overwritten version from one that was taken into account.
`unseen` is history too: versions that slipped in without being compared, through
one of the windows of section 5 (no ctag, the answer of a rename, a kill between
the fetch of a content and its move, a remote row that creates).

### FolderTree, FolderTreeProofs

mkdir, rmdir and create, deletions of folders by other clients, and the cycle
that brings new items to a parent that may be gone. The walk up a chain of parents
is one lookup per step (`Climb`), its rebuilding one statement per step
(`RebuildEntry`, `RebuildRow`, `Reparent`, `DropRow`, `StoreAgain`). When OneDrive has
created an item (`Send`), its temporary id is replaced one statement after the other,
in the entry, its rows, the entries and the rows of its children (`ReplaceId`,
`ReplaceRowId`, `ReplaceParents`, `ReplaceRowParents`; the download queue, which no step
here reads, goes with the first). Requests of the user, a failure (`HandlerFails`) and a kill come between any
two of these. A row left with its own old id makes the `unwrap()` of its entry
panic, which ends the cycle (`HandlerPanics`). A deleted parent of a remote item is
fetched and put back by `Restore` and `Reset`. Items have the path and the parent, since the code goes
by the one or the other: creating and deleting is by path, checks are by
parent. `Reports` is what the delta says of a deleted folder: OneDrive may
report it alone or with everything in it.

Three variables are history. `removed`: the items removed by the user or on OneDrive,
there by another client or by an rmdir that goes by path. `lost`: those
that fell into a window of section 5 (a row lost between two statements, a folder
revived while its rmdir waits, a Delete by path for an entry that
still has its temporary id, which stores the entry back). `cut`: ids replaced in the entries while
rows may still name them: set by `ReplaceId`, cleared by `ReplaceRowParents`, and
left by a failure or kill on the way, or by a `FuseRow` that read the id before.

`ParentComes`, of each row to create, says that its parent has an id of OneDrive, or
is deleted and will be rebuilt, or is itself about to be created, unless the row
names the parent by an id in `cut`. `Arrives` says that what waits
is on OneDrive in the end, unless one of the item's *own* parents hinders it
(`Hindered`): one that the delta never reported as deleted (`Stale`), one that no
row creates (`Uncreated`), or a row, of the item or of a parent that waits too, which names
its parent by an id in `cut` or by a path it has not got on OneDrive (`Misled`).
What happened to other folders excuses nothing.

### OpenFiles, MCOpenFiles, OpenFilesProofs

One file's content on disk. A path and the file at it are two things: a rename
(`MoveToLocal`) gives the path another file while handles stay on the old one. FUSE
opens, writes, sets the time and releases (`Open`, `Write`, `SetTime`,
`Release`, `ReleaseStore`); `FuseRow` stores the row. The cycle takes the
remote version (`RemoteUpdate`), uploads (`Upload UploadRead UploadSend`) and
downloads (`Fetch SaveDownload Complete MoveToLocal`). `ensure_local_by_ino` checks,
fetches and writes in place (`Ask Get Truncate Fill`).

### Account, AccountProofs

The phases of `main.rs` until the daemon is up, each with its exit; systemd
starts it again. `Load Refresh SaveOpen SaveWrite` is `get_valid_token`, for the
main task, the cycle, the status task and D-Bus calls. A stored profile that cannot
be read is fetched like one that is not there (`FetchProfile`); the exits of `main.rs`
that are about the mount point (`:299-323`) are left out with mounting. Saving truncates first, so a
reader or a kill can come between; of a file that `full_reset` has removed
meanwhile the write goes nowhere (`WriteOrphan`). The reset is four statements
(`ResetRows` to `ResetFile`) that may each fail. External: what OneDrive answers,
the browser, in which a page of an earlier attempt may still be open
(`ConsentStale`).

### Settings, MCSettings, SettingsProofs

The settings in memory behind their lock and in the file. A call reads the
folders, saves (`SaveOpen`, `SaveWrite`), takes the lock (`Lock`) and, for an added
folder, queues its files (`Query`, `QueueFiles`); `toggle_sync_pause` holds the lock
while it saves. The cycle asks once whether it is paused and, for each item
it has stored, whether it is in a sync folder (`StoreItem`, `Decide`, `QueueItem`).
The file handler (`HandlerStart`, `HandlerQueue`) is another process; like each
start it reads the file, and writes the defaults over one it cannot read.

## 3. The runs

| run | instance | shows |
|---|---|---|
| `Scheduler` | 4 cycles | mutual exclusion, no cycle spawned while one runs, every spawned cycle ends, refinement of `SerialExecutor` |
| `DeltaSync` | 2 items, 2 folders, 4 changes, no failure | nothing missed, sync folders mirrored (but for files moved into one, see 5), convergence |
| `DeltaSyncFaults` | 2 items, 2 folders, 3 changes, 1 failure, 1 crash, tokens expire | order of rows; what may be missed is exactly the named windows; an entry goes back only on a retry out of order or by the answer of a move |
| `DeltaSyncCrash` | 1 item, 1 crash | *violation*: changes between the link and the rows are lost |
| `LocalChanges` | 2 names, 2 folders, 1 file on both sides, 3 operations between cycles | convergence, one copy, no overwriting, no wrong deletion (the last two until a file strays, see 5), cycles return |
| `LocalChangesOverlap` | 3 names, 1 folder, 3 operations during cycles, slow requests | every change and deletion is recorded, was cut short, or was undone by a row tried again (see 5) |
| `LocalChangesFaults` | 3 names, 1 folder, 2 operations during cycles, 1 failure, 1 crash | no edit forgotten |
| `TwoWaySync` | 1 file, 1 change on each side, 2 answers, 1 failure or kill | no version replaced unseen, conflicts can be answered, answers are carried out |
| `FolderTree` | a folder in a folder, 3 events (requests, changes, failures, kills, also between the statements that replace an id) | new items keep a parent, are not forgotten, and arrive unless a parent of their own hinders them |
| `MCOpenFiles` (`OpenFiles`) | 2 writes, 2 handles, 2 D-Bus calls, 3 versions, 1 failure or kill | writes kept, sync folders fresh |
| `Account` | 2 accounts, 1 D-Bus call, 3 expiries, revocations or resets, 2 failures or kills | tokens and account agree, the daemon comes up |
| `MCSettings` (`Settings`) | 2 folders, 2 calls, 5 events, 1 failure or kill | choices kept, folders complete |

Bounds. Four tasks let a running one, two waiters and a ticker meet. Two items
are enough for a page to be cut between them and for a row of one to come
between two rows of the other; three or four changes make an item created,
changed and moved or deleted, with another change in between; the failures the
properties distinguish need one fault and one crash, and a retry after a crash
both. In `LocalChanges` three operations are the shortest history in which a row
is being processed, one waits and one is being written; they also reach every
rule of `squash_local_changes`. `LocalChanges` needs two folders for moves,
`LocalChangesOverlap` three names instead, so that two renames and a create
do not reuse a name (`Reuse = FALSE`: reusing one is a known disagreement, 5).

`TwoWaySync`: one change on each side reaches each cell of the conflict matrix, and
two answers are what it takes to cancel both sides. A second change on a side is not
always another conflict of the same kind: larger instances (two changes on each
side with one answer and one failure or kill, or two and three without an answer),
which take hours, showed `UnseenKept` and `EditsKept` the windows `Hidden` and
`Selectable`, and hold with them. `FolderTree`: with two levels a chain has two
links to rebuild; three events are a folder removed, an item made in it, and one
more removal, item, failure or kill, as between two of the statements that replace
the id of a rebuilt folder while its child waits (825690 states). `Reports = {"top", "all"}`
was run for the invariants (1047812 states); the run has `{"all"}`, where `Stale`
excuses nothing. `OpenFiles`: the third version comes while the
second is being fetched, the second call while the first writes. `Account`: two
tasks refreshing and a reset between the truncation and the write of the first
need three events; a torn file and a failed start after it, two faults.
`Settings`: two calls overlap and each adds a folder, while the handler opens a file
and another client changes one. Every bound is a guard of an action, no state
constraint is used. Symmetry is used in `MCOpenFiles` and `MCSettings` only, which
check invariants of modules that do not distinguish the members of the sets
exchanged; liveness is checked without.

`CHECK_DEADLOCK FALSE` where the system may stop: `Scheduler` after `Exit`, and
`MCSettings` once the user has paused the cycle and the bounds are used up. All other
runs check that there is always a next step.

Fairness. `Scheduler`: weak fairness of each runnable task and of the ticker once
it holds the mutex (the runtime polls ready tasks, a cycle returns because its
requests do), none of the signal. `DeltaSync`: weak fairness of the steps of the
cycle taken together; none of the other clients, of failures or of crashes.
`LocalChanges`, `FolderTree`: weak fairness of the steps of a request and of the
steps of the cycle; strong fairness of `TimePasses`, since it is enabled only now
and then, between two cycles, and ticks are 30 s apart; none of the user, failures
or crashes. `TwoWaySync`: the same, with weak fairness of each call once made and
strong fairness of `DayPasses`. `Account`: weak fairness of `Main`, what `main.rs` does
up to the loop and systemd's restart (`Restart=on-failure`), and of `Consent`: a user
who is asked signs in; none of the other tasks. `Request`, `Cycle`, `Main` contain
failing steps, but those are bounded. `OpenFiles` and `Settings` state safety only.

## 4. The proofs

Every theorem is proved without a bound: for every set of items, folders, names,
accounts and calls, and every number of changes, failures and kills. Each proof
module begins with its invariant and says why the property is not inductive
without it; then come the lemmas about the operators (what an update of a row, an
entry or a log leaves alone), one lemma per action or group of actions, and the
theorems.

| module | theorem | property | hypothesis |
|---|---|---|---|
| `SchedulerProofs` | `TypeCorrect`, `MutualExclusion`, `NoPileUp`, `SchedulerIsSerial` | `TypeOK`, `OneCycleAtATime`, `SpawnsOnlyWhenIdle`, `ImplementsSerialExecutor` | |
| `DeltaSyncProofs` | `TypeCorrect`, `RowsAreInOrder`, `RegressesOnRetry`, `MissedWasCut` | `TypeOK`, `RowsInOrder`, `RegressesOnlyOnRetry`, `MissedOnlyIfCut` | |
| | `NothingIsMissed`, `FoldersAreMirrored` | `NothingMissed`, `SyncFoldersMirrored` | while `Unharmed` |
| `LocalChangesProofs` | `TypeCorrect` | `TypeOK` | |
| | `OwnContentKept`, `OnlyUnlinkedDeleted`, `EditsAreRecorded` | `OwnContent`, `DeletesOnlyUnlinked`, `EditsRecorded` | `~Reuse` |
| | `OneCopyOfEach` | `OneCopy` | while nothing failed and nobody was killed (`Unharmed`) |
| `TwoWaySyncProofs` | `TypeCorrect`, `OneSideIsKept`, `ConflictsAreAnswerable` | `TypeOK`, `OneSideKept`, `Answerable` | |
| `FolderTreeProofs` | `TypesAreKept`, `TablesStaySound` | `TypeOK` and the invariant | |
| | `ParentsCome`, `NewItemsAreKept` | `ParentComes`, `NewItemsKept` | |
| `OpenFilesProofs` | `TypeCorrect`, `NoWriteDropped`, `QuietIsFresh` | `TypeOK`, `WritesKept`, `FreshWhenQuiet` | |
| `AccountProofs` | `TypeCorrect`, `TokensStay`, `NoMixing` | `TypeOK`, `TokensAgree`, `OneAccount` | |
| `SettingsProofs` | `TypeCorrect`, `ChoicesAreKept`, `FoldersAreComplete` | `TypeOK`, `ChoicesKept`, `FolderComplete` | |

The hypotheses are those of the runs. `Unharmed` (no failure and no kill so far)
is what the run `DeltaSync` fixes with `MaxFaults = 0`; the theorem lets them
happen later. `~Reuse` is the constant of all three runs of `LocalChanges`: no
name is given to a second file, which is a known disagreement (5). Assumptions on
constants: names that stand for nobody or for an owner of their own are not
members of the sets beside them (`OwnersDiffer`, `NobodyIsNone`, `ActorsDiffer`),
sync folders are folders (`FoldersAssumption`), there is a name and a folder
(`PlacesAssumption`), bounds are natural numbers (`BoundsAssumption`,
`SizesAssumption`).

**Scheduler.** `OneCycleAtATime` is not inductive by itself, since a
release makes the head of the queue run; the invariant `Inv` adds that the owner
is exactly the running task, that the ticker's guard and the mutex agree, and
that waiters are queued tasks, each once. The refinement maps the six states of
a task to four phases; a release becomes `Start` or nothing when the ticker lets
go, `End` or `Handover` when a cycle does.

**DeltaSync.** Four invariants, one on the other.

* `Inv`, for types and the order of rows. The code indexes `rows` and `queue` with
  what it listed, so `InRange` says that these exist, and that nothing is fetched
  and not stored outside the three steps that fetch, save and store. Where a new
  row comes from: `Clocks` bounds the link, the token and every etag by the
  server's clock; `Fetched` puts what was fetched between the saved link and the
  token; `Unstored` says that after the link is saved, a change not yet stored is
  newer than each row of its item. A crash empties `acc`, which keeps all of
  them: the rows lost leave a gap, never a swap.
* `Behind`, for `RegressesOnRetry`: no row and no fetched change is newer than the
  server's item, and the answer of a move is not older than the row it was sent
  for. Only `ApplyContent` and `StoreMoved` give an entry another version, at least
  that of the row at hand; so the newer version it replaces, when it came from a
  row, came from one that `RowsInOrder` puts after the row at hand.
* `Traced`, for `MissedWasCut`: where the last version of each item is, between the
  server and the table, through every failure and kill. It is fetched or will be
  (`Gathered`), has a row that waits or is at hand, is in the table, or was recorded
  in `cut` by the step that dropped it.
* `InTurn`, for `NothingIsMissed`: without failures every row waits in the cycle that
  listed it (`Listed`), the version the link covers comes after all older ones
  (`Awaited`, `Newest`), the entries are behind what waits (`Older`), and the
  handler of the last version leaves the item as the server has it (`Landed`).
  `Supplied` adds, for `FoldersAreMirrored`, that a change of content queues a
  download and that what is in a file is not older than the row that came before
  the one that waits.

**LocalChanges.** `Inv` says that every id in a table, a row, the request or
the cycle belongs to a file, though an id is replaced in one table at a time;
that needs what each handler holds between two statements (`SoundCycle`,
`SoundRequest`). Uploads and deletions go by name, so the other three theorems
need `Placed`: whatever has a place and an id, also an answer or the entry a
request has read, has a place that this file had at some time; since no two files
had the same, a request that finds a file by place finds its own. `Carrying`
follows the content: a file that is not deleted and not cut has a row that sends it,
a request that will store one, or a copy with this content; rows of deletions
exist for deleted files only, and the rules of squashing keep one row that sends.
The squashing operators choose the first and the last of a set of rows; that
there is one is the lemma `LastOf`, from the well-foundedness of `<`.

`OneCopyOfEach` rests on `Single`, which needs no `Placed`: names may be used again. A file
without a copy has at most one row that creates it, be it in the table or with the
request (`CreateRows`, `CreateAsked`), since squashing gives the last row of an item the
Create of the first and removes that one; a file with a copy has none but the row
at hand, whose temporary id is replaced in the entry and then in the rows
(`CreateAtHand`). An upload makes a copy for the inode of the content it reads, so it
has to be the inode the temporary id stands for (`OwnInode`). When the id OneDrive answers
is in the table already, the row is tried again; that is harmless because the
upload then went into a file that was there (`Fresh`).

**TwoWaySync.** Two ids count versions, and the entry, the rows, the listed rows,
the calls and the queue change from one to the other at different steps;
`Numbered` says which log each of them is about and that the old one ends with a
deletion before anything has the new id. `OneSide` extends `OneSideKept` to calls
that have queued a winner and not yet returned: a winner is made `new` by the last
statement, and no other step of a call or the cycle cancels it afterwards.

`ConflictsAreAnswerable` speaks of states before the first answer, in which there is
one id and no call at work (`Open`). What could fail is that the local row of a
conflict is sent: `CheckLocal` compares it, by etag, with the first remote row in
conflict, which need not be the one it belongs to. So `Apart` says of this first
row that either its etag is neither the entry's nor that of any local row that
waits, and so each of them is held back (`Clear`); or it is the echo of a change made
here, and then the local rows with its etag go out before the cycle ends (`Echo`), so
that none of them is there when the next change comes. That needs in which step
of the cycle a row can have which status (`InTurn`), and that rows still to come
are newer than those in conflict, while what the entry and the local rows are
about has been applied (`InOrder`). `Paired` is then `Answerable` with the kind of
row that the matrix of conflicts asks for, `Spared` that what is being sent
meanwhile sends no content.

**FolderTree.** Its invariant `Inv` (theorem `TablesStaySound`) has nine parts: types;
the root (`Root`); ids, which name one entry each, temporary ones being minus
the inode (`Identity`); what OneDrive has (`Made`); rows and parents that name
something that is or was there (`RowsSound`); the parent of a row to create
(`Parents`), which, like the id of the row itself, is in the table or in `cut` (`Named`); what the request of FUSE and the row of the cycle hold between two
statements (`FuseSound`, `CycleSound`); and that somebody takes care of each
entry OneDrive has not (`Cared`). `ParentComes` by itself is not inductive. Each statement that replaces
an id is a step of its own, so `CycleSound` says what has been replaced before which
(`Replacements`: the entry has its new id and OneDrive has the item; `Renamed`: no
row to create has the old id as its own). Only when the last one is
through may the id leave `cut`: by then no row has it as its id or as
its parent's, and FUSE, if it still holds it, puts it back (`FuseRow`). `ReplaceStep` is
what the four share. `Cared` makes `NewItemsKept` inductive. The frame lemmas
(`EntriesStep`, `RowsStep`, `ServerEffect`, `LeaveStep`) say what is left to show for a
step that changes entries, rows or items only. No induction over the tree is
needed: the model takes the walk up a chain one lookup at a time, and what lies
below a folder is the least set that is closed under children, so a proof uses
closure and minimality.

**OpenFiles.** `Paths` says which files the paths and the steps under way name;
`Seen`, that an entry a request has read is not ahead of OneDrive. `Kept`: a write
that is not lost and not uploaded is in the file of the local copy and somebody
waits to upload it; a request or an upload that has read older content does not
forget it. `Fresh` says what each step of a download has at hand when the entry has
the newest version, or that a newer row comes.

**Account.** Each task carries tokens from the load of the file to the write over
it, so the file is right only if every token carried is: `Carried`, which needs
`Roles` (only main signs in, and nobody else works then) and `Names` (what the
reset has cleared so far).

**Settings.** `ChoicesKept` speaks of moments with no call: in between, `MemAgrees`
says that memory is ahead by the one toggle that holds the lock, `FileAgrees` that
the file is torn or ahead by the one call that saves. `FolderComplete` needs
`FileComplete`: folders a start will read back were complete when the daemon ended.

Model-checked only:

* every liveness property (`SpawnedCycleEnds`, both `Converges`, `CycleEnds`,
  `ChoiceCarriedOut`, `Arrives`, `StartsUp`): the proof system does not reach
  liveness under fairness;
* `ChangesRecorded` of `LocalChanges`: beside the content, the name would have to be
  followed through each rule of squashing;
* `UnseenKept` and `EditsKept` of `TwoWaySync`: they speak of the history `known`,
  over which each step of both halves of the cycle would need an invariant, with
  answers at work in between.

## 5. Disagreements between the code and what is said of it

One is a run (section 3), with its quotation in `PROJECT.json`. The others were
met while modelling, as TLC counterexamples or by reading; where a property
holds only outside one of them, the model names the window (`cut`, `lost`,
`late`, `missed`, `unseen`, `stray`, `undone`, `Hidden`) and the property excepts it.
Those that take more events than the runs have (*Undone* by a refusal, *Strayed*,
*Revived*, *Behind another conflict*, *Not held back*) came from failed proofs; TLC
then found the histories in larger instances.

The remote half:

* **Expired token.** `delta_update.rs:132` has "Token expired, restart delta sync" for
  an error that is "410"; `onedrive_client.rs:810` wraps errors in a context, and
  `to_string()` prints the outermost only. The arm never matches and each later
  cycle fails.
* **Failed download.** `delta_update.rs:243` says "Skip and retry next cycle as per your
  strategy"; `get_pending_downloads` selects `pending` only, and nothing turns
  `failed` back.
* **Exit.** `main.rs:439` says "Wait for all tasks to complete", but the ticker
  drops the handle of the cycle it spawns: only the ticker is awaited, and a
  running cycle is cut off. `Scheduler` has it (`Exit` kills what runs).
* **Echo.** A remote move is sent back to the server (`MoveOnServer`): when the
  item was moved again in between, the daemon undoes the younger move.
* **Moved into a sync folder.** `handle_remote_move` queues no download, though
  the folders chosen "should be downloaded automatically" (`README.md:32`);
  `SyncFoldersMirrored` therefore excepts `MovedIn`.
* **Deleted remotely.** `ApplyDelete` looks for the content under the item's id in
  `downloads/` (`sync_processor.rs:684`); files there and in `local/` are named by
  inode, so the content stays.

The local half (lines without a file are of `sync_processor.rs`):

* **Move and rename.** "Different parent = Move operation" (`operations.rs:931`):
  `handle_local_move` sends the parent only, the file keeps its old name on
  OneDrive, though `Fuse.md:65` has "Move/rename file".
* **Rename race.** "We need to obtain Modified item" (`operations.rs:928`) unwraps a
  lookup by the new name; the answer of an older rename may store the server's name
  in between, and the panic ends the FUSE thread.
* **Endless retry.** "this is to avoid processing the same item multiple times"
  (`processing_item_repository.rs:514`): two rows that keep failing, each for more
  than 5 s, are tried in turn and the cycle never returns. No request has a timeout.
* **Deleted locally.** `handle_local_delete` stores the entry of the row, which
  is not marked deleted, as its last step (`:1264`, "Mark as deleted in FUSE
  database"); the name is back until the delta brings the deletion.
* **Undone.** A row that failed is tried again after a younger one of the same
  file (`:65`): a retried rename undoes the later one. The failure may be a refusal:
  a rename whose row is begun while the create of the file waits is refused,
  and the next one overtakes it (five requests during cycles). `ChangesRecorded`
  excepts it as `undone`.
* **Strayed.** A rename, a move and a rename of one file are three rows with
  three places. If the place of the move is taken on OneDrive, the move is refused
  and the second rename gives the file its name in the old folder, a
  place the user never gave it; a new file that gets this place is then uploaded by
  name over it. It takes two folders, two files on both sides and four requests
  (`Synced = 2`, `MaxOps = 4`), beyond the run; `OwnContent`, `DeletesOnlyUnlinked`
  and `EditsRecorded` except it as `Strayed`.
* **Reused names.** Squashing drops a rename (`:342`) whose old name another file
  has taken meanwhile; its create then replaces the first file's content.
* **Ghost.** A `release` between the lookup and the store of the upsert
  (`drive_item_with_fuse_repository.rs:50`), while the handler replaces the
  temporary id, inserts a second entry.
* **Two creates, orphans.** A kill or a failed statement in the middle of a squashing
  rule leaves two `Create` rows (`:278`), which make two files (so `OneCopyOfEach` says
  `Unharmed`), or a row of a file that is gone (`:174`); a row of an entry that was
  rewritten makes `unwrap` panic (`:1143`).
* **Stuck.** A row is set to `processing` (`:527`), and no query selects that
  state: a kill there leaves it for ever. `Recorded` excepts it as `cut`.
* **Edit, rename and move at once.** With `move` among the operations of
  `LocalChangesOverlap` and three of them, `ChangesRecorded` fails: the store
  of an upload's stale entry takes the new name back, and a move sends no name.

Both halves (`TwoWaySync`):

* **No ctag.** The entry may have no ctag; two edits are then not compared and the
  second replaces the first, though a conflict is promised (internalDocs `Sync.md:208`).
* **Answer of a rename.** It is stored with the server's etag and ctag and so
  hides a remote edit that has not been fetched.
* **Echo in conflict.** The row of the daemon's own upload, met by a deletion,
  is set to `conflicted` with no local row to choose; a second conflicting remote row
  is left in the same way when the first is answered with `UseRemote`, as is a
  conflict of names.
* **Answer and handler.** `resolve_conflict` renames the entry of a row whose
  handler has begun: an `unwrap` panics and the row stays `processing`. Other local
  rows of the old id panic likewise.
* **Late write.** A write during the download of the same file is replaced when
  the download is moved.
* **Parked.** `last_status_update` is written in two formats and compared as text: a
  local row in conflict waits until midnight UTC.
* **Behind another conflict.** A local row is compared with the first pending remote
  row only (`processing_item_repository.rs:981`, `LIMIT 1`). If that one is no conflict
  for it, a second remote change that is parked in conflict is not looked at, and the
  edit is sent over it. `UnseenKept` excepts it as `Hidden`.
* **Answered against one row.** `UseRemote` against a local deletion cancels that row.
  An edit of the same file whose row is in conflict too is sent later over the
  version that was chosen.
* **Not held back.** Downloads start when no row is selectable; a local row in conflict,
  or one that an answer has queued less than 5 s ago, is not. Another remote
  change, which may be a rename that leaves the content alone, then fetches content
  over the edit that waits for an answer. `EditsKept` excepts it.
* **Newer than checked.** A download fetches the newest content, not the version its row
  was compared as; a kill between the fetch and the move leaves the old content
  under the new tags, and the next edit replaces what was never here.
* **Deleted twice.** A deletion that OneDrive has carried out without its
  answer arriving is retried with 404 for ever.

Folders (`FolderTree`):

* Two new items in one deleted folder rebuild it twice ("A" and "A 1").
* "deleted remotely" (`is_parent_deleted_remotely`) asks the local table only: an rmdir
  of a folder with rows of new children brings the folder back.
* Restoring a parent sets its first row to `new`; that is usually the user's own
  pending deletion, which then deletes the restored folder with what is newer in it.
* Deletions go by path and are retried, so they delete what is at that path later.
* A mkdir reads the parent's id before it is replaced: its row has a parent nobody
  knows and fails for ever. A kill between the deletion and the store of a
  reordered row loses it.
* **Revived.** Rebuilding the parents of a new folder clears the folder's own deletion
  mark (`update_item_parent_and_reorder`), also while its rmdir row waits. Squashing
  then drops the row that creates it with the one that deletes it, and what was made
  in it meanwhile waits for ever. It takes four events, one more than the run.
* The statements that replace an id (`sync_processor.rs:896-917`) are no transaction. A
  failure or kill after `:903` and before `:916` leaves a child's row with a parent id that
  no entry has: "Deleted parent not found in local DB" (`:1767`) in each cycle, for
  ever. Before `:908` the row keeps its own old id, and the `unwrap()` of its entry
  (`:865`) ends the cycle. `cut` names both.
* A rebuilt folder may get another name on OneDrive ("A 1"); the rows of new folders in
  it keep the old `parent_path`, by which they are created: elsewhere, or never (`Misled`).
* If the delta reports only the top folder, parents below are never seen as deleted
  and uploads into them are refused for ever. Rows that update something in a
  deleted folder are not rescued.

Content on disk (`OpenFiles`):

* Writes through a handle opened before a download was moved over `local/<ino>`
  succeed, store a row, and go to a file that has no name.
* `ensure_local_by_ino` writes in place: an answer that comes late replaces newer
  content or the user's writes, a second caller is given a half-written file
  (`server.rs:388`), and a kill leaves a truncated file that counts as the copy.
* Outside sync folders a stale copy stays after a remote update; an edit uploads it
  over the newer version. The same happens between a remote row and its download.
* setattr on a file without a copy stores a row that fails in each cycle; `create`
  opens its handle write-only, so reads through it fail; `release` stores a stale
  entry again; a `create` whose open fails leaves an entry without a row.

Account:

* `full_reset` says "Delete SQLite DB and token file" and "exiting for restart"
  (`server.rs:465`, `:476`), the dialog "delete ALL data including all sync folders,
  downloaded files, database records" and that the daemon will restart
  (`ui/src/app/dialog.rs:57`). The code clears three tables, the
  profile and the token file; entries, files and settings stay. Its panic ends the
  handler's task only; the hook unmounts FUSE and the process goes on without
  tokens, so systemd restarts nothing.
* A cycle or a refresh under way at the reset stores the link or tokens of the
  old account again.
* `authenticate` accepts each file it can parse: with a revoked or empty refresh
  token (`unwrap_or_default`) the user is never asked, and without a stored profile
  the daemon ends and restarts for ever. After a torn file another account can sign
  in and meets the link and entries of the first.
* The callback takes the code of a page of an earlier attempt (there is no `state`) and
  the daemon ends; `get_user_profile` unwraps None after a reset (`server.rs:186`);
  `expires_at - 300` underflows for small values.

Settings:

* `should_download` says exact folder matching and uses `starts_with(folder)`: "Docs"
  matches "Docs2"; `add_sync_folder` queues "/folder/%". The model keeps the folders
  apart.
* Two overlapping calls save over each other: memory has both, the file one.
* A settings file that is being written by one process is replaced by defaults by
  another one that reads it; sync folders and the pause are gone at the next start.
* A toggle whose save fails is kept in memory. An added folder whose queueing fails
  cannot be added again, and its files are not downloaded. `remove_sync_folder` says
  "delete downloaded files" (`server.rs:544`) and deletes paths that do not exist.
* The file handler queues ids that the table does not know, which
  `process_download_queue` unwraps.

## 6. Plan

Done: the remote half, the local half, both on one file with the answers to a
conflict, folders, content on disk, account and tokens, settings and file handler;
and the proofs of section 4. What is left:

1. `UnseenKept` and `EditsKept` of `TwoWaySync`, with an invariant over `known`: which
   versions the file on disk, the staged content and each waiting row know of.
2. `ChangesRecorded` of `LocalChanges`: `Carrying` extended by names.
3. Where a bound may be spared: local renames and moves of folders in `FolderTree`.

## 7. Not modelled

HTTP, JSON and SQL text, logging, the log ring buffer, notifications, the
first-start wizard, mounting, thumbnails (`fetch_thumbnail` fills a cache for the UI; it
has the partial-file race of `ensure_local_by_ino`), the lists and statistics the UI asks
for.

The desktop UI and the applet hold copies of the daemon's answers in one message
loop each; nothing in the daemon depends on them. By reading: the status
subscription's task is dropped (`ui/src/pages/status/page.rs`, `applet/src/applet.rs`), and
an answer to "load more" that comes after new filters replaces the list.

Without a caller: `message_broker.rs`, `dbus_server/message_handler.rs`, upload sessions in
`onedrive_client.rs`, handles 0 and 1 in the FUSE helpers. The cached repository answers
`None` to every lookup, so it is the repository below it. `move_file_to_its_new_name`
renames `local/<ino>` to itself, since inodes outlive ids.

Folders renamed or moved with what is in them, the rules for the trash, conflicts of
names between two items, and names that differ in case only are left out of the
modules that would have them; section 2 says so for each.
