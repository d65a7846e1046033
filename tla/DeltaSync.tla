------------------------------ MODULE DeltaSync ------------------------------
(***************************************************************************)
(* The remote half of one sync cycle (daemon/src/tasks/delta_update.rs and *)
(* the remote handlers of daemon/src/sync/sync_processor.rs) against a     *)
(* OneDrive that other clients change at any moment.                       *)
(*                                                                         *)
(*   fetch the pages of the delta since the saved link; save the new link; *)
(*   store one processing row per change; process the open rows in id      *)
(*   order; download what the handlers queued.                             *)
(*                                                                         *)
(* One action is the code between two awaits that other actors can tell    *)
(* apart.  A statement or a request may fail (Fault) and the process may   *)
(* be killed between any two (Crash); both are bounded.  A failure of the  *)
(* statement that records a failure ends the cycle as a Crash does.        *)
(*                                                                         *)
(* Assumed here: no local change is pending, parents are known and names   *)
(* do not collide, so that detect_remote_conflicts finds nothing.  Rows    *)
(* `done` and queue rows `completed` are kept: hause_keeping deletes them, *)
(* and no query of this half selects them.                                 *)
(***************************************************************************)
EXTENDS Naturals, Sequences

CONSTANTS
    Items,          \* OneDrive ids
    Folders,        \* parents an item may have
    SyncFolders,    \* settings.download_folders
    MaxChanges,     \* bound: changes made by other clients
    MaxFaults,      \* bound: statements and requests that fail
    MaxCrashes,     \* bound: kills of the process
    TokensExpire    \* the server may forget old delta tokens (HTTP 410)

ASSUME FoldersAssumption == SyncFolders \subseteq Folders /\ Folders # {}
ASSUME BoundsAssumption ==
    /\ MaxChanges \in Nat /\ MaxFaults \in Nat /\ MaxCrashes \in Nat
    /\ TokensExpire \in BOOLEAN

VARIABLES
    \* OneDrive
    cloud,          \* the last change of every item
    clock,          \* etag of the last change; a delta token is a clock value
    horizon,        \* tokens below it are forgotten
    \* the database and the data directory: survive a crash
    link,           \* the latest sync_state row, 0 when there is none
    rows,           \* processing_items of change_type remote, by id
    db,             \* drive_items_with_fuse; etag 0 when there is no row
    queue,          \* download_queue, by id
    staged,         \* content of downloads/<ino>, 0 when there is no file
    local,          \* content of local/<ino>, 0 when there is no file
    \* the cycle: lost in a crash
    pc,
    token,          \* current_token
    acc,            \* all_items not yet stored as rows
    todo,           \* ids of rows, then of downloads, listed and not handled
    cur,            \* the row or download at hand, 0 when there is none
    answer,         \* etag returned by move_item
    \* bounds and history
    faults, crashes,
    cut             \* changes the daemon held and dropped, or overwrote

onedrive == <<cloud, clock, horizon>>
disk == <<link, rows, db, queue, staged, local>>
cycle == <<pc, token, acc, todo, cur, answer>>
vars == <<onedrive, disk, cycle, faults, crashes, cut>>

\* What the delta says of an item.  `content` stands for size and dates.
Change == [item : Items, etag : Nat, content : Nat, parent : Folders, deleted : BOOLEAN]

Unknown(i) == [item |-> i, etag |-> 0, content |-> 0,
               parent |-> CHOOSE f \in Folders : TRUE, deleted |-> FALSE]

Operations == {"create", "update", "delete", "move"}
RowStates == {"new", "processing", "error", "done"}
Row == [change : Change, op : Operations, status : RowStates]
Download == [item : Items, status : {"pending", "completed", "failed", "removed"}]

PCs == {"idle", "fetching", "saving", "storing", "rows", "applying", "moved",
        "enqueueing", "finishing", "downloads", "downloaded", "completed"}

TypeOK ==
    /\ cloud \in [Items -> Change]
    /\ \A i \in Items : cloud[i].item = i
    /\ clock \in Nat /\ horizon \in Nat /\ link \in Nat
    /\ rows \in Seq(Row)
    /\ db \in [Items -> Change]
    /\ queue \in Seq(Download)
    /\ staged \in [Items -> Nat] /\ local \in [Items -> Nat]
    /\ pc \in PCs /\ token \in Nat
    /\ acc \subseteq Change /\ todo \subseteq Nat
    /\ cur \in Nat /\ answer \in Nat
    /\ faults \in Nat /\ crashes \in Nat
    /\ cut \subseteq Change

Init ==
    /\ cloud = [i \in Items |-> Unknown(i)]
    /\ clock = 0 /\ horizon = 0 /\ link = 0
    /\ rows = << >>
    /\ db = [i \in Items |-> Unknown(i)]
    /\ queue = << >>
    /\ staged = [i \in Items |-> 0]
    /\ local = [i \in Items |-> 0]
    /\ pc = "idle" /\ token = 0 /\ acc = {} /\ todo = {} /\ cur = 0 /\ answer = 0
    /\ faults = 0 /\ crashes = 0
    /\ cut = {}

-----------------------------------------------------------------------------
\* OneDrive (external): other clients change items; deletion is final.

Put(change) ==
    /\ cloud' = [cloud EXCEPT ![change.item] = [change EXCEPT !.etag = clock + 1]]
    /\ clock' = clock + 1

Exists(i) == cloud[i].etag # 0 /\ ~cloud[i].deleted

RemoteChange(i) ==
    /\ clock < MaxChanges
    /\ \/ /\ cloud[i].etag = 0
          /\ \E f \in Folders :
                Put([cloud[i] EXCEPT !.content = clock + 1, !.parent = f])
       \/ Exists(i) /\ Put([cloud[i] EXCEPT !.content = clock + 1])
       \/ Exists(i) /\ \E f \in Folders \ {cloud[i].parent} :
                Put([cloud[i] EXCEPT !.parent = f])
       \/ Exists(i) /\ Put([cloud[i] EXCEPT !.deleted = TRUE])
    /\ UNCHANGED <<horizon, disk, cycle, faults, crashes, cut>>

\* The server forgets the tokens it has given out so far.
Expire ==
    /\ TokensExpire /\ horizon = 0 /\ clock > 0
    /\ horizon' = clock + 1
    /\ UNCHANGED <<cloud, clock, disk, cycle, faults, crashes, cut>>

\* The request without a token is always answered.
Expired(t) == t # 0 /\ t < horizon

-----------------------------------------------------------------------------
\* Failures.

Fault == faults < MaxFaults /\ faults' = faults + 1

\* The cycle returns, with or without an error: what it held in memory is gone.
EndCycle ==
    /\ pc' = "idle" /\ token' = 0 /\ acc' = {} /\ todo' = {} /\ cur' = 0 /\ answer' = 0

\* The changes only the running cycle knows of: rows not stored yet although
\* the link is saved, and the row marked `processing`, which no query selects.
Held ==
    (IF pc = "storing" THEN acc ELSE {})
    \union (IF pc \in {"applying", "moved", "enqueueing", "finishing"}
            THEN {rows[cur].change} ELSE {})

Crash ==
    /\ pc # "idle"
    /\ crashes < MaxCrashes
    /\ crashes' = crashes + 1
    /\ cut' = cut \union Held
    /\ EndCycle
    /\ UNCHANGED <<onedrive, disk, faults>>

-----------------------------------------------------------------------------
\* get_delta_changes.

Start ==
    /\ pc = "idle"
    /\ pc' = "fetching"
    /\ token' = link
    /\ UNCHANGED <<onedrive, disk, acc, todo, cur, answer, faults, crashes, cut>>

\* Mutant: the items of the last page replace those of the pages before.
FetchPage_LastPageOnly ==
    /\ pc = "fetching"
    /\ ~Expired(token)
    /\ \E end \in {clock} \union (token + 1)..clock :
          /\ acc' = {cloud[i] : i \in {j \in Items :
                                    token < cloud[j].etag /\ cloud[j].etag <= end}}
          /\ token' = end
          /\ pc' = IF end < clock THEN "fetching" ELSE "saving"
    /\ UNCHANGED <<onedrive, disk, todo, cur, answer, faults, crashes, cut>>

\* One page.  The server cuts pages where it likes, in the order of the
\* changes; a page before the last carries a next_link, the last a delta_link.
FetchPage ==
    /\ pc = "fetching"
    /\ ~Expired(token)
    /\ \E end \in {clock} \union (token + 1)..clock :
          /\ acc' = acc \union {cloud[i] : i \in {j \in Items :
                                    token < cloud[j].etag /\ cloud[j].etag <= end}}
          /\ token' = end
          /\ pc' = IF end < clock THEN "fetching" ELSE "saving"
    /\ UNCHANGED <<onedrive, disk, todo, cur, answer, faults, crashes, cut>>

\* Mutant: the link of the last page fetched is saved although a page is missing.
FetchFails_SavesToken ==
    /\ pc = "fetching"
    /\ Fault
    /\ link' = token
    /\ EndCycle
    /\ UNCHANGED <<onedrive, rows, db, queue, staged, local, crashes, cut>>

\* A request that fails ends the cycle, a 410 included: the client wraps each
\* error in a context, to_string() shows the outermost context only, so the
\* arm for "410", which would drop the token, never matches.
FetchFails ==
    /\ pc = "fetching"
    /\ \/ Expired(token) /\ UNCHANGED faults
       \/ Fault
    /\ EndCycle
    /\ UNCHANGED <<onedrive, disk, crashes, cut>>

StoreLink ==
    /\ pc = "saving"
    /\ link' = token
    /\ pc' = "storing"
    /\ UNCHANGED <<onedrive, rows, db, queue, staged, local, token, acc, todo, cur,
                   answer, faults, crashes, cut>>

StoreLinkFails ==
    /\ pc = "saving"
    /\ Fault
    /\ EndCycle
    /\ UNCHANGED <<onedrive, disk, crashes, cut>>

-----------------------------------------------------------------------------
\* SyncCycle::run: one row per change.

\* Mutants: only the etag is compared; a move is taken for a rename, an
\* operation the delta never produces.
Detect_EtagOnly(c) ==
    LET existing == db[c.item] IN
    IF c.deleted THEN "delete"
    ELSE IF existing.etag = 0 THEN "create"
    ELSE IF existing.parent # c.parent THEN "move"
    ELSE IF existing.etag # c.etag THEN "update"
    ELSE "no_change"

Detect_Rename(c) ==
    LET existing == db[c.item] IN
    IF c.deleted THEN "delete"
    ELSE IF existing.etag = 0 THEN "create"
    ELSE IF existing.parent # c.parent THEN "rename"
    ELSE IF existing.etag # c.etag THEN "update"
    ELSE "no_change"

\* detect_change_operation, against the database and not against older rows.
Detect(c) ==
    LET existing == db[c.item] IN
    IF c.deleted THEN "delete"
    ELSE IF existing.etag = 0 THEN "create"
    ELSE IF existing.parent # c.parent THEN "move"
    ELSE IF existing.etag # c.etag \/ existing.content # c.content THEN "update"
    ELSE "no_change"

\* Mutant: the delta is walked backwards.
Oldest_Newest(c) == c \in acc /\ \A d \in acc : c.etag >= d.etag

\* The changes come in the order of the delta.
Oldest(c) == c \in acc /\ \A d \in acc : c.etag <= d.etag

StoreRow ==
    /\ pc = "storing"
    /\ \E c \in acc :
          /\ Oldest(c)
          /\ acc' = acc \ {c}
          /\ rows' = IF Detect(c) = "no_change" THEN rows
                     ELSE Append(rows, [change |-> c, op |-> Detect(c), status |-> "new"])
    /\ UNCHANGED <<onedrive, link, db, queue, staged, local, pc, token, todo, cur,
                   answer, faults, crashes, cut>>

\* An INSERT fails: `?` leaves run(), and the changes not stored are dropped.
StoreRowFails ==
    /\ pc = "storing"
    /\ acc # {}
    /\ Fault
    /\ cut' = cut \union Held
    /\ EndCycle
    /\ UNCHANGED <<onedrive, disk, crashes>>

-----------------------------------------------------------------------------
\* process_all_items: the remote rows.

\* get_unprocessed_items_by_change_type.
ListRows ==
    /\ pc = "storing"
    /\ acc = {}
    /\ todo' = {r \in DOMAIN rows : rows[r].status \in {"new", "error"}}
    /\ pc' = "rows"
    /\ UNCHANGED <<onedrive, disk, token, acc, cur, answer, faults, crashes, cut>>

SetStatus(s) == rows' = [rows EXCEPT ![cur].status = s]

\* process_single_item and process_remote_item up to the handler: the row goes
\* through `validated`, selected by the same queries as `new`, to `processing`.
BeginRow ==
    /\ pc = "rows"
    /\ \E r \in todo :
          /\ \A s \in todo : r <= s
          /\ rows' = [rows EXCEPT ![r].status = "processing"]
          /\ todo' = todo \ {r}
          /\ cur' = r
    /\ pc' = "applying"
    /\ UNCHANGED <<onedrive, link, db, queue, staged, local, token, acc, answer,
                   faults, crashes, cut>>

\* The younger states of the item that storing the row at hand overwrites
\* (history): the changes of younger rows already applied, and a younger entry.
Overwritten ==
    LET c == rows[cur].change IN
    {rows[r].change : r \in {s \in DOMAIN rows :
        s > cur /\ rows[s].change.item = c.item /\ rows[s].status = "done"}}
    \union {d \in {db[c.item]} : c.etag < d.etag}

\* setup_fuse_metadata: the row of the item is replaced, whatever it holds.
Store(c) ==
    /\ db' = [db EXCEPT ![c.item] = c]
    /\ cut' = cut \union Overwritten

ShouldDownload(c) == c.parent \in SyncFolders

\* Mutant: the existing row is read after it was replaced.
ApplyContent_ReadsAfterStore ==
    LET row == rows[cur] IN
    /\ pc = "applying"
    /\ row.op \in {"create", "update"}
    /\ Store(row.change)
    /\ pc' = IF row.op = "create" /\ ShouldDownload(row.change)
             THEN "enqueueing" ELSE "finishing"
    /\ UNCHANGED <<onedrive, link, rows, queue, staged, local, token, acc, todo, cur,
                   answer, faults, crashes>>

\* handle_remote_create and handle_remote_update up to add_to_download_queue.
ApplyContent ==
    LET row == rows[cur]
        existing == db[row.change.item]
        fresh == \/ row.op = "create"
                 \/ existing.etag # 0 /\ existing.etag # row.change.etag
    IN
    /\ pc = "applying"
    /\ row.op \in {"create", "update"}
    /\ Store(row.change)
    /\ pc' = IF fresh /\ ShouldDownload(row.change) THEN "enqueueing" ELSE "finishing"
    /\ UNCHANGED <<onedrive, link, rows, queue, staged, local, token, acc, todo, cur,
                   answer, faults, crashes>>

Enqueue ==
    /\ pc = "enqueueing"
    /\ queue' = Append(queue, [item |-> rows[cur].change.item, status |-> "pending"])
    /\ pc' = "finishing"
    /\ UNCHANGED <<onedrive, link, rows, db, staged, local, token, acc, todo, cur,
                   answer, faults, crashes, cut>>

\* handle_remote_delete: the item leaves the queue and its row is marked.  The
\* file removed is downloads/<onedrive id>; content lives under the inode.
Dequeued(i) == [q \in DOMAIN queue |->
                   IF queue[q].item = i THEN [queue[q] EXCEPT !.status = "removed"]
                   ELSE queue[q]]
MarkedDeleted(i) == [db EXCEPT ![i].deleted = (db[i].etag # 0)]

ApplyDelete ==
    LET i == rows[cur].change.item IN
    /\ pc = "applying"
    /\ rows[cur].op = "delete"
    /\ queue' = Dequeued(i)
    /\ db' = MarkedDeleted(i)
    /\ pc' = "finishing"
    /\ UNCHANGED <<onedrive, link, rows, staged, local, token, acc, todo, cur,
                   answer, faults, crashes, cut>>

\* When one of the two statements fails the handler warns and goes on.
ApplyDeleteFailsQuietly ==
    LET i == rows[cur].change.item IN
    /\ pc = "applying"
    /\ rows[cur].op = "delete"
    /\ Fault
    /\ \/ db' = MarkedDeleted(i) /\ UNCHANGED <<queue, cut>>
       \/ /\ queue' = Dequeued(i)
          /\ cut' = cut \union {rows[cur].change}
          /\ UNCHANGED db
    /\ pc' = "finishing"
    /\ UNCHANGED <<onedrive, link, rows, staged, local, token, acc, todo, cur,
                   answer, crashes>>

\* handle_remote_move sends the parent of the row to the server, where the item
\* may have moved on, ...
MoveOnServer ==
    LET c == rows[cur].change IN
    /\ pc = "applying"
    /\ rows[cur].op = "move"
    /\ Exists(c.item)
    /\ IF cloud[c.item].parent = c.parent
       THEN UNCHANGED <<cloud, clock>>
       ELSE Put([cloud[c.item] EXCEPT !.parent = c.parent])
    /\ answer' = cloud'[c.item].etag
    /\ pc' = "moved"
    /\ UNCHANGED <<horizon, disk, token, acc, todo, cur, faults, crashes, cut>>

\* ... and stores the row with the etag of the answer.  Nothing is queued.
StoreMoved ==
    /\ pc = "moved"
    /\ Store([rows[cur].change EXCEPT !.etag = answer])
    /\ pc' = "finishing"
    /\ UNCHANGED <<onedrive, link, rows, queue, staged, local, token, acc, todo, cur,
                   answer, faults, crashes>>

FinishRow ==
    /\ pc = "finishing"
    /\ SetStatus("done")
    /\ pc' = "rows" /\ cur' = 0 /\ answer' = 0
    /\ UNCHANGED <<onedrive, link, db, queue, staged, local, token, acc, todo,
                   faults, crashes, cut>>

\* A statement or a request of the handler fails: process_all_items marks the
\* row `error` and goes on with the next.
RowFails ==
    /\ pc \in {"applying", "moved", "enqueueing", "finishing"}
    /\ \/ Fault
       \/ /\ pc = "applying" /\ rows[cur].op = "move"
          /\ ~Exists(rows[cur].change.item)
          /\ UNCHANGED faults
    /\ SetStatus("error")
    /\ pc' = "rows" /\ cur' = 0 /\ answer' = 0
    /\ UNCHANGED <<onedrive, link, db, queue, staged, local, token, acc, todo,
                   crashes, cut>>

-----------------------------------------------------------------------------
\* process_download_queue, after the local rows (not modelled here).

ListDownloads ==
    /\ pc = "rows"
    /\ todo = {}
    /\ todo' = {q \in DOMAIN queue : queue[q].status = "pending"}
    /\ pc' = "downloads"
    /\ UNCHANGED <<onedrive, disk, token, acc, cur, answer, faults, crashes, cut>>

SetDownload(q, s) == queue' = [queue EXCEPT ![q].status = s]

\* download_file writes the content the server has now to downloads/<ino>.
\* Rows queued in the same second come in any order.
FetchContent ==
    /\ pc = "downloads"
    /\ \E q \in todo :
          /\ Exists(queue[q].item)
          /\ staged' = [staged EXCEPT ![queue[q].item] = cloud[queue[q].item].content]
          /\ cur' = q
          /\ todo' = todo \ {q}
    /\ pc' = "downloaded"
    /\ UNCHANGED <<onedrive, link, rows, db, queue, local, token, acc, answer,
                   faults, crashes, cut>>

\* The download fails, or the item is gone: mark_download_failed.
DownloadFails ==
    /\ pc = "downloads"
    /\ \E q \in todo :
          /\ \/ Fault
             \/ ~Exists(queue[q].item) /\ UNCHANGED faults
          /\ SetDownload(q, "failed")
          /\ todo' = todo \ {q}
    /\ UNCHANGED <<onedrive, link, rows, db, staged, local, pc, token, acc, cur,
                   answer, crashes, cut>>

MarkCompleted ==
    /\ pc = "downloaded"
    /\ SetDownload(cur, "completed")
    /\ pc' = "completed"
    /\ UNCHANGED <<onedrive, link, rows, db, staged, local, token, acc, todo, cur,
                   answer, faults, crashes, cut>>

\* move_downloaded_file_to_local_folder.
MoveToLocal ==
    LET i == queue[cur].item IN
    /\ pc = "completed"
    /\ local' = [local EXCEPT ![i] = staged[i]]
    /\ staged' = [staged EXCEPT ![i] = 0]
    /\ pc' = "downloads" /\ cur' = 0
    /\ UNCHANGED <<onedrive, link, rows, db, queue, token, acc, todo, answer,
                   faults, crashes, cut>>

\* `?` on mark_download_completed or on the move: the cycle returns.
DownloadAborts ==
    /\ pc \in {"downloaded", "completed"}
    /\ Fault
    /\ EndCycle
    /\ UNCHANGED <<onedrive, disk, crashes, cut>>

Finish ==
    /\ pc = "downloads"
    /\ todo = {}
    /\ EndCycle
    /\ UNCHANGED <<onedrive, disk, faults, crashes, cut>>

-----------------------------------------------------------------------------
Fetch == Start \/ FetchPage \/ FetchFails \/ StoreLink \/ StoreLinkFails
            \/ StoreRow \/ StoreRowFails
ProcessRows == ListRows \/ BeginRow \/ ApplyContent \/ Enqueue \/ ApplyDelete
            \/ ApplyDeleteFailsQuietly
            \/ MoveOnServer \/ StoreMoved \/ FinishRow \/ RowFails
Downloads == ListDownloads \/ FetchContent \/ DownloadFails \/ MarkCompleted
            \/ MoveToLocal \/ DownloadAborts \/ Finish

Next ==
    \/ \E i \in Items : RemoteChange(i)
    \/ Expire
    \/ Fetch \/ ProcessRows \/ Downloads
    \/ Crash

\* The ticker starts a cycle every 30 s and a cycle goes on until it returns;
\* a request is answered or fails.  Nobody has to change an item.
Fairness == WF_vars(Fetch \/ ProcessRows \/ Downloads)

Spec == Init /\ [][Next]_vars /\ Fairness

-----------------------------------------------------------------------------
\* Properties.

\* Two rows of one item are in the order of their changes, and every row is
\* covered by the link: a change is never stored twice, although the rows are
\* written after the link, in a cycle that may fail or be killed at each step
\* (sync_processor.rs relies on the id order to apply changes in turn).
RowsInOrder ==
    /\ \A r, s \in DOMAIN rows :
          r < s /\ rows[r].change.item = rows[s].change.item
             => rows[r].change.etag < rows[s].change.etag
    /\ \A r \in DOMAIN rows : rows[r].change.etag <= link

\* The database shows the item as the server has it.
Reflected(i) ==
    \/ db[i] = cloud[i]
    \/ cloud[i].deleted /\ (db[i].deleted \/ db[i].etag = 0)

\* The change is in the daemon's hands: it will be applied without being
\* fetched again.
InHand(c) ==
    \/ c \in Held
    \/ \E r \in DOMAIN rows : rows[r].change = c /\ rows[r].status \in {"new", "error"}

\* A change the saved link covers is applied or in hand: the server will not
\* send it again, so nothing else could bring it (Sync.md:276 "Maintains sync
\* state across sessions").
NothingMissed ==
    \A i \in Items : cloud[i].etag <= link => Reflected(i) \/ InHand(cloud[i])

\* With failures and crashes the only changes missed are those in the window
\* between the link and their row, those of a row cut off while `processing`,
\* a deletion whose mark failed quietly, and those an older row overwrote (a
\* retry, or a row of a move the daemon has made itself).
MissedOnlyIfCut ==
    \A i \in Items :
        cloud[i].etag <= link => Reflected(i) \/ InHand(cloud[i]) \/ cloud[i] \in cut

\* An entry of the database goes back to an older version only when a row is
\* applied after the turn of a younger row of the item, that is on a retry, or
\* when the newer version came with the answer to a move that the daemon sent.
RegressesOnlyOnRetry ==
    [][\A i \in Items : db'[i].etag < db[i].etag =>
          \/ \E r \in DOMAIN rows : /\ r > cur
                                    /\ rows[r].change.item = i
                                    /\ rows[r].status # "new"
          \/ \A r \in DOMAIN rows : /\ rows[r].change.item = i
                                    /\ rows[r].change.etag = db[i].etag
                                    => rows[r].status = "new"]_vars

Queued(i) == \E q \in DOMAIN queue : queue[q].item = i /\ queue[q].status = "pending"

\* A move that the daemon processed put the item into its folder: the handler
\* never asks should_download.
MovedIn(i) == \E r \in DOMAIN rows : /\ rows[r].op = "move" /\ rows[r].status = "done"
                                     /\ rows[r].change.item = i
                                     /\ rows[r].change.parent \in SyncFolders

\* Between cycles, a file in a folder chosen for download has its content on
\* disk or in the queue (README.md:32), unless it was moved into that folder.
SyncFoldersMirrored ==
    pc = "idle" => \A i \in Items :
        db[i].etag # 0 /\ ~db[i].deleted /\ db[i].parent \in SyncFolders /\ Exists(i)
            => Queued(i) \/ local[i] >= db[i].content \/ MovedIn(i)

\* Once the other clients are quiet the database converges to the server.
Converges == <>[](\A i \in Items : Reflected(i))

=============================================================================
