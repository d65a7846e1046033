----------------------------- MODULE FolderTree -----------------------------
(***************************************************************************)
(* Folders: what mkdir and rmdir leave (daemon/src/fuse), how a new item   *)
(* whose parent is deleted gets a new chain of parents, how temporary ids  *)
(* of parents are replaced in their children (daemon/src/sync/             *)
(* sync_processor.rs), and how a deleted parent of a remote item is        *)
(* restored (sync_strategy.rs).                                            *)
(*                                                                         *)
(* An entry's inode is its index in db, the temporary id it had is minus   *)
(* that, a OneDrive id is an index in server.  The root is 1 in both.      *)
(* Each FUSE request, each step of the rebuilding of a chain, each request *)
(* to OneDrive and each statement that replaces an id is an action, since  *)
(* nothing is done in a transaction.                                       *)
(*                                                                         *)
(* Assumed here: two clients do not use one name in one folder, nothing is *)
(* renamed or moved, and the daemon is not told of its own changes.        *)
(***************************************************************************)
EXTENDS Integers, SequencesExt

CONSTANTS
    Names,          \* what the user calls new items
    Reports,        \* what the delta reports of a deleted folder: "top", the folder
                    \* alone, or "all", everything that was in it too
    MaxEvents       \* bound: operations of the user, changes by other clients,
                    \* requests and statements that fail, and kills, together

ASSUME SizesAssumption ==
    /\ MaxEvents \in Nat
    /\ Reports \subseteq {"top", "all"}

VARIABLES
    server,         \* OneDrive: the items ever created there
    feed,           \* the changes of other clients the delta has still to report
    db,             \* drive_items_with_fuse
    rows,           \* processing_items, by id
    recent,         \* rows whose last_status_update is less than 5 s ago
    fuse,           \* the FUSE request at work
    pc, todo, cur, item,    \* the cycle
    chain, under,   \* inodes still to be rebuilt, and the one they go under
    answer,         \* the OneDrive id of the item created
    events,
    removed,        \* history: inodes removed, by the user or on OneDrive
    lost,           \* history: inodes whose content or row went in a named window
    cut             \* history: ids replaced in the entries while rows may still
                    \* name them as their own or their parent's

cycle == <<pc, todo, cur, item, chain, under, answer>>
history == <<removed, lost, cut>>
vars == <<server, feed, db, rows, recent, fuse, cycle, events, history>>

\* A name is <<n, k>>, where k counts what OneDrive appends to a name in use.
Name == (Names \union {"folder", "theirs"}) \X Nat
Item == [path : Seq(Name), parent : Nat, folder : BOOLEAN, live : BOOLEAN, by : Nat]
Entry == [id : Int, pid : Int, pino : Nat, folder : BOOLEAN, deleted : BOOLEAN,
          path : Seq(Name)]
\* `dir` is the parent_path of the row.
Row == [type : {"remote", "local"}, op : {"create", "delete"}, id : Int, pid : Int,
        dir : Seq(Name), name : Name, folder : BOOLEAN,
        status : {"new", "validated", "processing", "done", "error", "conflicted", "gone"}]

NewRow(type, op, e) ==
    [type |-> type, op |-> op, id |-> e.id, pid |-> e.pid, dir |-> Front(e.path),
     name |-> Last(e.path), folder |-> e.folder, status |-> "new"]
NoRow == [type |-> "local", op |-> "create", id |-> 0, pid |-> 0, dir |-> << >>,
          name |-> <<"folder", 0>>, folder |-> FALSE, status |-> "gone"]
Open == {"new", "validated", "error", "conflicted"}
Idle == [pc |-> "idle", ino |-> 0, row |-> NoRow]
\* The entry has its OneDrive id, and not yet everything that names it.
Replacements == {"rowid", "parents", "rowparents"}

TypeOK ==
    /\ server \in Seq(Item) /\ db \in Seq(Entry)
    /\ \A i \in DOMAIN db : db[i].pino \in 0..Len(db)
    /\ feed \in Seq([op : {"create", "delete"}, id : DOMAIN server])
    /\ rows \in Seq(Row) /\ recent \subseteq DOMAIN rows
    /\ fuse.pc \in {"idle", "insert", "row"} /\ fuse.row \in Row
    /\ pc \in {"idle", "listed", "restore", "reset", "apply", "climb", "rebuild", "made",
               "drop", "again", "begun", "created", "fetch", "closing"} \union Replacements
    /\ todo \subseteq DOMAIN rows /\ cur \in 0..Len(rows) /\ item \in Row
    /\ chain \in Seq(DOMAIN db) /\ under \in 0..Len(db) /\ answer \in 0..Len(server)
    /\ removed \union lost \subseteq DOMAIN db /\ cut \subseteq Int

\* A folder in a folder, on both sides.
Init ==
    /\ server = [i \in 1..3 |-> [path |-> [k \in 1..i - 1 |-> <<"folder", 0>>], parent |-> i - 1,
                                 folder |-> TRUE, live |-> TRUE, by |-> i]]
    /\ db = [i \in 1..3 |-> [id |-> i, pid |-> i - 1, pino |-> i - 1, folder |-> TRUE,
                             deleted |-> FALSE, path |-> server[i].path]]
    /\ feed = << >> /\ rows = << >> /\ recent = {} /\ fuse = Idle
    /\ pc = "idle" /\ todo = {} /\ cur = 0 /\ item = NoRow
    /\ chain = << >> /\ under = 0 /\ answer = 0
    /\ events = 0
    /\ removed = {} /\ lost = {} /\ cut = {}

Event == events < MaxEvents /\ events' = events + 1

-----------------------------------------------------------------------------
\* The tables.

Known(id) == \E i \in DOMAIN db : db[i].id = id
Inode(id) == CHOOSE i \in DOMAIN db : db[i].id = id
Free(dir, name) == \A i \in DOMAIN db :
    db[i].pino = dir /\ ~db[i].deleted => Last(db[i].path) # name

\* is_parent_deleted_remotely asks the table, not OneDrive.
ParentDeleted(id) == ~Known(id) \/ db[Inode(id)].deleted

\* get_children_by_parent_ino, and their children: the least set that has them.
Descendants(dir) ==
    LET live == {j \in DOMAIN db : ~db[j].deleted}
        Closed(S) == \A j \in live : db[j].pino \in S \union {dir} => j \in S
    IN  {j \in live : \A S \in SUBSET live : Closed(S) => j \in S}

\* update_status_by_id
SetStatus(r, status) ==
    /\ rows' = [rows EXCEPT ![r].status = IF @ = "gone" THEN @ ELSE status]
    /\ recent' = IF status \in Open THEN recent \union {r} ELSE recent \ {r}

NewEntry(name, dir, folder) ==
    [id |-> -(Len(db) + 1), pid |-> db[dir].id, pino |-> dir, folder |-> folder,
     deleted |-> FALSE, path |-> Append(db[dir].path, name)]

-----------------------------------------------------------------------------
\* Other clients.

Live(n) == server[n].live
TreeOf(n) == {m \in DOMAIN server : Live(m) /\ IsPrefix(server[n].path, server[m].path)}
\* The inodes whose items are in it.
MadeIn(n) == {server[m].by : m \in TreeOf(n)} \ {0}
InOrder(S) ==
    [k \in 1..Cardinality(S) |-> CHOOSE n \in S : Cardinality({m \in S : m < n}) = k - 1]
\* OneDrive deletes a folder with what is in it.
Deleted(n) ==
    /\ server' = [m \in DOMAIN server |-> [server[m] EXCEPT !.live = @ /\ m \notin TreeOf(n)]]
    /\ \E report \in Reports :
          LET told == IF report = "all" THEN InOrder(TreeOf(n)) ELSE <<n>>
          IN  feed' = feed \o [k \in DOMAIN told |-> [op |-> "delete", id |-> told[k]]]

RemoteChange ==
    /\ Event
    /\ UNCHANGED <<db, rows, recent, fuse, cycle, lost, cut>>

RemoteDelete(n) ==
    /\ RemoteChange
    /\ n > 1 /\ Live(n) /\ server[n].folder
    /\ Deleted(n)
    /\ removed' = removed \union MadeIn(n)

RemoteCreate(n) ==
    /\ RemoteChange
    /\ Live(n) /\ server[n].folder
    /\ server' = Append(server, [path |-> Append(server[n].path, <<"theirs", Len(server)>>), parent |-> n,
                                 folder |-> FALSE, live |-> TRUE, by |-> 0])
    /\ feed' = Append(feed, [op |-> "create", id |-> Len(server) + 1])
    /\ UNCHANGED removed

-----------------------------------------------------------------------------
\* The user.

Permitted ==
    /\ fuse.pc = "idle"
    /\ Event
    /\ UNCHANGED <<server, feed, rows, recent, cycle, lost, cut>>

\* apply_local_change_to_db_repository reads the parent's entry, ...
Make(dir, n, folder) ==
    /\ Permitted
    /\ db[dir].folder /\ ~db[dir].deleted /\ Free(dir, <<n, 0>>)
    /\ LET e == NewEntry(<<n, 0>>, dir, folder)
       IN  fuse' = [pc |-> "insert", ino |-> dir, row |-> NewRow("local", "create", e)]
    /\ UNCHANGED <<db, removed>>
Mkdir(dir, n) == Make(dir, n, TRUE)
Create(dir, n) == Make(dir, n, FALSE)

\* ... and inserts the new one, with the id the parent had when it was read.
FuseInsert ==
    /\ fuse.pc = "insert"
    /\ LET i == Len(db) + 1
           e == [id |-> -i, pid |-> fuse.row.pid, pino |-> fuse.ino, folder |-> fuse.row.folder,
                 deleted |-> FALSE, path |-> Append(fuse.row.dir, fuse.row.name)]
       IN  /\ db' = Append(db, e)
           /\ fuse' = [pc |-> "row", ino |-> i, row |-> NewRow("local", "create", e)]
    /\ UNCHANGED <<server, feed, rows, recent, cycle, events, history>>

\* The children's entries and that of the directory are marked, then it alone
\* gets a row.
Rmdir(dir) ==
    /\ Permitted
    /\ dir > 1 /\ db[dir].folder /\ ~db[dir].deleted
    /\ LET gone == {dir} \union Descendants(dir)
       IN  /\ db' = [i \in DOMAIN db |-> [db[i] EXCEPT !.deleted = @ \/ i \in gone]]
           /\ removed' = removed \union gone
    /\ fuse' = [pc |-> "row", ino |-> dir, row |-> NewRow("local", "delete", db[dir])]

\* create_processing_item.  The parent may have got its OneDrive id since it was
\* read.
FuseRow ==
    /\ fuse.pc = "row"
    /\ rows' = Append(rows, fuse.row)
    /\ fuse' = Idle
    /\ cut' = IF Known(fuse.row.pid) THEN cut ELSE cut \union {fuse.row.pid}
    /\ UNCHANGED <<server, feed, db, recent, cycle, removed, lost, events>>

\* The row is not stored; the user is told nothing.
FuseRowFails ==
    /\ fuse.pc = "row"
    /\ Event
    /\ fuse' = Idle
    /\ lost' = lost \union {fuse.ino}
    /\ UNCHANGED <<server, feed, db, rows, recent, cycle, removed, cut>>

TimePasses ==
    /\ recent # {} /\ pc = "idle"
    /\ recent' = {}
    /\ UNCHANGED <<server, feed, db, rows, fuse, cycle, events, history>>

-----------------------------------------------------------------------------
\* The cycle: delta, housekeeping, squashing, and the list of remote rows.

\* squash_create_delete_sequence
Squashed(table) ==
    LET Of(op, id) == {r \in DOMAIN table : table[r].type = "local" /\ table[r].op = op
                            /\ table[r].id = id /\ table[r].status \notin {"done", "gone"}}
    IN  [r \in DOMAIN table |->
            IF \/ table[r].status = "done"
               \/ /\ table[r].type = "local"
                  /\ Of("create", table[r].id) # {} /\ Of("delete", table[r].id) # {}
            THEN NoRow ELSE table[r]]

\* Mutant: what is new on OneDrive is reported as an update.
Reported_AsUpdate ==
    [k \in DOMAIN feed |-> LET n == server[feed[k].id] IN
        NewRow("remote", IF feed[k].op = "create" THEN "update" ELSE "delete",
               [id |-> feed[k].id, pid |-> n.parent, path |-> n.path, folder |-> n.folder])]
Reported ==
    [k \in DOMAIN feed |-> LET n == server[feed[k].id] IN
        NewRow("remote", feed[k].op, [id |-> feed[k].id, pid |-> n.parent, path |-> n.path,
                                      folder |-> n.folder])]

Start ==
    /\ pc = "idle"
    /\ rows' = Squashed(rows \o Reported) /\ recent' = recent \ {r \in DOMAIN rows' : rows'[r] = NoRow}
    /\ todo' = {r \in DOMAIN rows' : /\ rows'[r].type = "remote"
                                    /\ rows'[r].status \in {"new", "validated", "error"}}
    /\ feed' = << >>
    /\ pc' = "listed"
    /\ UNCHANGED <<server, db, fuse, cur, item, chain, under, answer, events, history>>

Leave(next) == pc' = next /\ cur' = 0 /\ item' = NoRow
EndCycle == Leave("idle") /\ todo' = {} /\ chain' = << >> /\ under' = 0 /\ answer' = 0

\* What is lost with the process: the row FUSE has not stored, the one the cycle
\* works on before OneDrive has the item, and the one of a folder just rebuilt.
Unstored == IF fuse.pc = "row" THEN {fuse.ino} ELSE {}
InWindow == (IF pc \in {"begun", "again"} /\ Known(item.id) THEN {Inode(item.id)} ELSE {})
              \union (IF pc = "created" THEN {Inode(item.id)} ELSE {})
              \union (IF pc = "made" THEN {under} ELSE {})
Crash ==
    /\ pc # "idle" \/ fuse.pc # "idle"
    /\ Event
    /\ EndCycle /\ fuse' = Idle
    /\ lost' = lost \union Unstored \union InWindow
    /\ UNCHANGED <<server, feed, db, rows, recent, removed, cut>>

\* Mutant: a row that failed is done with.
RowError_Done == SetStatus(cur, "done") /\ Leave("listed")

\* The handler returns an error: the row is tried again.
RowError == SetStatus(cur, "error") /\ Leave("listed")

-----------------------------------------------------------------------------
\* The remote rows.

\* ModifyOnParentDelete
Orphan(row) == row.op # "delete" /\ Known(row.pid) /\ db[Inode(row.pid)].deleted

CheckRemote ==
    /\ pc = "listed"
    /\ \E r \in todo :
          /\ \A s \in todo : r <= s
          /\ cur' = r /\ item' = rows[r] /\ todo' = todo \ {r}
          /\ pc' = IF Orphan(rows[r]) THEN "restore" ELSE "apply"
    /\ UNCHANGED <<server, feed, db, rows, recent, fuse, chain, under, answer, events,
                   history>>

\* The entry made of what OneDrive says of an item.
Fetched(n) ==
    [id |-> n, pid |-> server[n].parent, folder |-> server[n].folder, deleted |-> FALSE,
     path |-> server[n].path,
     pino |-> IF Known(server[n].parent) THEN Inode(server[n].parent) ELSE 0]

\* auto_resolve_remote_conflicts: restore_parent_from_onedrive gets the parent
\* and stores it as not deleted, or leaves the conflict to the user.
Restore ==
    /\ pc = "restore"
    /\ \/ /\ Live(item.pid)
          /\ db' = [db EXCEPT ![Inode(item.pid)] = Fetched(item.pid)]
          /\ pc' = "reset" /\ UNCHANGED <<rows, recent, cur, item, events>>
       \/ /\ IF Live(item.pid) THEN Event ELSE UNCHANGED events
          /\ SetStatus(cur, "conflicted") /\ Leave("listed") /\ UNCHANGED db
    /\ UNCHANGED <<server, feed, fuse, todo, chain, under, answer, history>>

\* The first row of the parent, of whatever kind and status, becomes new.
Reset ==
    /\ pc = "reset"
    /\ LET rs == {r \in DOMAIN rows : rows[r].id = item.pid /\ rows[r].status # "gone"}
       IN  \/ rs = {} /\ UNCHANGED <<rows, recent>>
           \/ \E r \in rs : (\A s \in rs : r <= s) /\ SetStatus(r, "new")
    /\ pc' = "apply"
    /\ UNCHANGED <<server, feed, db, fuse, todo, cur, item, chain, under, answer,
                   events, history>>

\* process_remote_item; the children of a deleted folder are not marked.
Apply ==
    /\ pc = "apply"
    /\ IF item.op = "delete"
       THEN db' = [i \in DOMAIN db |-> [db[i] EXCEPT !.deleted = @ \/ db[i].id = item.id]]
       ELSE IF Known(item.id) THEN db' = [db EXCEPT ![Inode(item.id)] = Fetched(item.id)]
       ELSE db' = Append(db, Fetched(item.id))
    /\ SetStatus(cur, "done") /\ Leave("listed")
    /\ UNCHANGED <<server, feed, fuse, todo, chain, under, answer, events, history>>

-----------------------------------------------------------------------------
\* The local rows: a new item whose parent is deleted.

\* Mutant: the query leaves out the rows in error.
Selectable_NoErrors == {r \in DOMAIN rows : rows[r].type = "local" /\ rows[r].status = "new"} \ recent
Selectable == {r \in DOMAIN rows : rows[r].type = "local" /\ rows[r].status \in Open} \ recent
NextRow(r) == r \in Selectable /\ \A s \in Selectable : r <= s

Begin(r) ==
    /\ pc = "listed" /\ todo = {} /\ NextRow(r)
    /\ item' = rows[r] /\ cur' = r
    /\ IF rows[r].op = "create" /\ ParentDeleted(rows[r].pid)
       THEN SetStatus(r, "validated") /\ pc' = "climb"
       ELSE SetStatus(r, "processing") /\ pc' = "begun"
    /\ UNCHANGED <<server, feed, db, fuse, todo, chain, under, answer, events, history>>

\* recreate_parent_chain_with_fuse_pattern looks up one parent after the other,
\* to the first that is not deleted.
Above == IF chain = << >> THEN item.pid ELSE db[Head(chain)].pid
Climb ==
    /\ pc = "climb" /\ Known(Above)
    /\ IF db[Inode(Above)].deleted
       THEN chain' = <<Inode(Above)>> \o chain /\ UNCHANGED <<pc, under>>
       ELSE under' = Inode(Above) /\ pc' = "rebuild" /\ UNCHANGED chain
    /\ UNCHANGED <<server, feed, db, rows, recent, fuse, todo, cur, item, answer, events,
                   history>>

\* "Deleted parent not found in local DB"
NoAncestor ==
    /\ pc = "climb" /\ ~Known(Above)
    /\ RowError /\ chain' = << >>
    /\ UNCHANGED <<server, feed, db, fuse, todo, under, answer, events, history>>

\* apply_local_folder_creation, ...
RebuildEntry ==
    /\ pc = "rebuild" /\ chain # << >>
    /\ db' = Append(db, NewEntry(Last(db[Head(chain)].path), under, TRUE))
    /\ under' = Len(db) + 1 /\ chain' = Tail(chain)
    /\ pc' = "made"
    /\ UNCHANGED <<server, feed, rows, recent, fuse, todo, cur, item, answer, events,
                   history>>

\* ... create_processing_item_for_folder
RebuildRow ==
    /\ pc = "made"
    /\ rows' = Append(rows, NewRow("local", "create", db[under]))
    /\ pc' = "rebuild"
    /\ UNCHANGED <<server, feed, db, recent, fuse, todo, cur, item, chain, under,
                   answer, events, history>>

\* Rmdir's row for it still waits.
Removing(i) ==
    \/ fuse.pc = "row" /\ fuse.row.op = "delete" /\ fuse.ino = i
    \/ \E r \in DOMAIN rows : /\ rows[r].type = "local" /\ rows[r].op = "delete"
                             /\ rows[r].id = db[i].id /\ rows[r].status \notin {"done", "gone"}

\* update_item_parent_and_reorder: the entry, if there is one, is no longer
\* deleted; squashing drops its row if it had been removed by itself; ...
Moved == [item EXCEPT !.pid = db[under].id, !.dir = db[under].path, !.status = "new"]
Reparent ==
    /\ pc = "rebuild" /\ chain = << >>
    /\ db' = [i \in DOMAIN db |-> IF db[i].id # item.id THEN db[i]
                 ELSE [db[i] EXCEPT !.pino = under, !.pid = Moved.pid, !.deleted = FALSE]]
    /\ item' = Moved
    /\ lost' = lost \union {i \in DOMAIN db : db[i].id = item.id /\ Removing(i)}
    /\ pc' = "drop"
    /\ UNCHANGED <<server, feed, rows, recent, fuse, todo, cur, chain, under, answer,
                   events, removed, cut>>

\* ... the row is deleted ...
DropRow ==
    /\ pc = "drop"
    /\ rows' = [rows EXCEPT ![cur] = NoRow] /\ recent' = recent \ {cur}
    /\ pc' = "again"
    /\ UNCHANGED <<server, feed, db, fuse, todo, cur, item, chain, under, answer,
                   events, history>>

\* ... and stored again, after those of the folders.
StoreAgain ==
    /\ pc = "again"
    /\ rows' = Append(rows, item)
    /\ Leave("listed") /\ under' = 0
    /\ UNCHANGED <<server, feed, db, recent, fuse, todo, chain, answer, events,
                   history>>

-----------------------------------------------------------------------------
\* The local rows: the requests.

At(path) == {n \in DOMAIN server : Live(n) /\ server[n].path = path}
Granted ==
    IF item.op = "delete" THEN Known(item.id) /\ At(db[Inode(item.id)].path) # {}
    ELSE IF item.folder THEN At(item.dir) # {}
    ELSE item.pid > 0 /\ item.pid \in DOMAIN server /\ Live(item.pid)

\* unwrap() of the entry: the row kept an id that was replaced.  The task of the
\* cycle dies.
Panics == item.op = "create" /\ ~Known(item.id)
HandlerPanics ==
    /\ pc = "begun" /\ Panics
    /\ EndCycle
    /\ UNCHANGED <<server, feed, db, rows, recent, fuse, events, history>>

\* A request or a statement fails, or OneDrive refuses.
HandlerFails ==
    /\ \/ pc = "begun" /\ ~Panics /\ ~Granted /\ UNCHANGED events
       \/ /\ pc \in {"begun", "created", "fetch", "climb", "rebuild", "made", "drop", "again"}
                    \union Replacements
          /\ Event
    /\ RowError /\ chain' = << >> /\ under' = 0 /\ answer' = 0
    /\ lost' = lost \union (IF pc = "begun" THEN {} ELSE InWindow)
    /\ UNCHANGED <<server, feed, db, fuse, todo, removed, cut>>

\* create_folder in the folder the parent_path names, with another name if that
\* one is in use; upload_new_file_to_parent into the folder of the parent's id.
FreeName(path, name) == CHOOSE k \in 0..Len(server) :
    /\ At(Append(path, <<name[1], k>>)) = {}
    /\ \A l \in 0..k - 1 : At(Append(path, <<name[1], l>>)) # {}
Send ==
    /\ pc = "begun" /\ item.op = "create" /\ ~Panics /\ Granted
    /\ \E n \in IF item.folder THEN At(item.dir) ELSE {item.pid} :
          LET path == server[n].path
              name == <<item.name[1], FreeName(path, item.name)>>
          IN  server' = Append(server, [path |-> Append(path, name), parent |-> n,
                            folder |-> item.folder, live |-> TRUE, by |-> Inode(item.id)])
    /\ answer' = Len(server) + 1
    /\ pc' = "created"
    /\ UNCHANGED <<feed, db, rows, recent, fuse, todo, cur, item, chain, under, events,
                   history>>

\* update_onedrive_id of the download queue and of the entries: from here on rows
\* may name an id that no entry has, ...
ReplaceId ==
    /\ pc = "created"
    /\ db' = [i \in DOMAIN db |-> [db[i] EXCEPT !.id = IF @ = item.id THEN answer ELSE @]]
    /\ cut' = cut \union {item.id}
    /\ pc' = "rowid"
    /\ UNCHANGED <<server, feed, rows, recent, fuse, todo, cur, item, chain, under,
                   answer, events, removed, lost>>

\* ... update_onedrive_id of the rows, ...
ReplaceRowId ==
    /\ pc = "rowid"
    /\ rows' = [r \in DOMAIN rows |-> [rows[r] EXCEPT !.id = IF @ = item.id THEN answer ELSE @]]
    /\ pc' = "parents"
    /\ UNCHANGED <<server, feed, db, recent, fuse, todo, cur, item, chain, under,
                   answer, events, history>>

\* ... update_parent_id_for_children of the entries, ...
ReplaceParents ==
    /\ pc = "parents"
    /\ db' = [i \in DOMAIN db |-> [db[i] EXCEPT !.pid = IF @ = item.id THEN answer ELSE @]]
    /\ pc' = "rowparents"
    /\ UNCHANGED <<server, feed, rows, recent, fuse, todo, cur, item, chain, under,
                   answer, events, history>>

\* Mutant: the rows of the children keep the temporary id.
ReplaceRowParents_None ==
    /\ pc = "rowparents"
    /\ item' = [item EXCEPT !.id = answer] /\ cut' = cut \ {item.id}
    /\ pc' = "fetch"
    /\ UNCHANGED <<server, feed, db, rows, recent, fuse, todo, cur, chain, under,
                   answer, events, removed, lost>>

\* ... and of the rows.  A failure or a kill on the way leaves the id to them.
ReplaceRowParents ==
    /\ pc = "rowparents"
    /\ rows' = [r \in DOMAIN rows |-> [rows[r] EXCEPT !.pid = IF @ = item.id THEN answer ELSE @]]
    /\ item' = [item EXCEPT !.id = answer] /\ cut' = cut \ {item.id}
    /\ pc' = "fetch"
    /\ UNCHANGED <<server, feed, db, recent, fuse, todo, cur, chain, under, answer,
                   events, removed, lost>>

\* get_item_by_id and setup_fuse_metadata; a failure is only logged.
Fetch ==
    /\ pc = "fetch"
    /\ \/ Live(answer) /\ db' = [db EXCEPT ![Inode(answer)] = Fetched(answer)] /\ UNCHANGED events
       \/ (IF Live(answer) THEN Event ELSE UNCHANGED events) /\ UNCHANGED db
    /\ pc' = "closing" /\ answer' = 0
    /\ UNCHANGED <<server, feed, rows, recent, fuse, todo, cur, item, chain, under,
                   history>>

\* handle_local_delete deletes by the virtual path of the entry, and stores the
\* item of the row, which is not marked as deleted.  What the user has made since
\* rmdir in a folder that was restored, or is now at that path, goes with it.
DeleteOnServer ==
    /\ pc = "begun" /\ item.op = "delete" /\ Granted
    /\ \E n \in At(db[Inode(item.id)].path) :
          /\ Deleted(n)
          /\ removed' = removed \union MadeIn(n)
    /\ lost' = lost \union (IF item.id < 0 THEN {Inode(item.id)} ELSE {})
    /\ db' = [db EXCEPT ![Inode(item.id)] =
                 [@ EXCEPT !.pid = item.pid, !.deleted = FALSE,
                           !.pino = IF Known(item.pid) THEN Inode(item.pid) ELSE 0]]
    /\ pc' = "closing"
    /\ UNCHANGED <<rows, recent, fuse, todo, cur, item, chain, under, answer, cut,
                   events>>

FinishRow ==
    /\ pc = "closing"
    /\ SetStatus(cur, "done") /\ Leave("listed")
    /\ UNCHANGED <<server, feed, db, fuse, todo, chain, under, answer, events, history>>

Finish ==
    /\ pc = "listed" /\ todo = {} /\ Selectable = {}
    /\ EndCycle
    /\ UNCHANGED <<server, feed, db, rows, recent, fuse, events, history>>

-----------------------------------------------------------------------------
User ==
    \E dir \in DOMAIN db : Rmdir(dir) \/ \E n \in Names : Mkdir(dir, n) \/ Create(dir, n)
OtherClients == \E n \in DOMAIN server : RemoteDelete(n) \/ RemoteCreate(n)
FuseStep == FuseInsert \/ FuseRow \/ FuseRowFails
Cycle ==
    \/ Start \/ CheckRemote \/ Restore \/ Reset \/ Apply \/ Finish
    \/ \E r \in DOMAIN rows : Begin(r)
    \/ Climb \/ NoAncestor \/ RebuildEntry \/ RebuildRow \/ Reparent \/ DropRow \/ StoreAgain
    \/ HandlerPanics \/ HandlerFails \/ Send
    \/ ReplaceId \/ ReplaceRowId \/ ReplaceParents \/ ReplaceRowParents
    \/ Fetch \/ DeleteOnServer \/ FinishRow

Next == User \/ OtherClients \/ FuseStep \/ Cycle \/ TimePasses \/ Crash

\* A request of the user is carried through; cycles are started and go on until
\* they return; ticks are 30 s apart, so it happens again and again that 5 s
\* pass between cycles.
Fairness == WF_vars(FuseStep) /\ WF_vars(Cycle) /\ SF_vars(TimePasses)

Spec == Init /\ [][Next]_vars /\ Fairness

-----------------------------------------------------------------------------
\* Properties.

\* Waits to be created, or is being created.
Waits(r, i) ==
    /\ rows[r].op = "create" /\ rows[r].type = "local" /\ rows[r].id = db[i].id
    /\ rows[r].status \in Open \/ (r = cur /\ rows[r].status = "processing")
\* Its row is about to be stored.
Making(i) == (pc = "made" /\ i = under) \/ (pc = "again" /\ db[i].id = item.id)
OnServer(i) == \E n \in DOMAIN server : Live(n) /\ server[n].by = i

\* The parent of a row to create is in the table, and has a OneDrive id, or is
\* deleted and will be rebuilt, or a row will create it, however mkdir, rmdir, the
\* statements that replace an id and recreate_parent_chain_and_reorder_item
\* interleave.  A row has an id that no entry has for its parent's only while those
\* statements are at work, or if a failure or a kill cut them short before the rows
\* of the children had theirs, or if FUSE had read the id and stored the row after
\* the last of them.
ParentComes ==
    \A r \in DOMAIN rows : \A i \in DOMAIN db :
        Waits(r, i) =>
            \/ rows[r].pid \in cut
            \/ \E p \in DOMAIN db :
                  /\ db[p].id = rows[r].pid
                  /\ \/ db[p].id > 0 \/ db[p].deleted \/ p \in lost \/ Making(p)
                     \/ \E s \in DOMAIN rows : Waits(s, p)

\* What the user made and did not remove is not forgotten while its parents are
\* deleted, restored or rebuilt around it: OneDrive has it or a row waits, unless
\* another client removed it or it was in a window at which `lost` is set.
NewItemsKept ==
    \A i \in 4..Len(db) :
        \/ i \in removed \union lost
        \/ db[i].id > 0 /\ server[db[i].id].by = 0
        \/ OnServer(i) \/ i \in Unstored \/ Making(i)
        \/ \E r \in DOMAIN rows : Waits(r, i)

\* The entries of the parents, up from an id.
Ancestors(id) ==
    LET up[S \in SUBSET DOMAIN db] ==
            LET T == S \union {p \in DOMAIN db : \E j \in S : db[j].pid = db[p].id}
            IN  IF T = S THEN S ELSE up[T]
    IN  up[{p \in DOMAIN db : db[p].id = id}]
\* A folder that OneDrive has deleted with the one it was in, of which alone the
\* delta told.
Stale(p) == "top" \in Reports /\ db[p].id > 0 /\ ~db[p].deleted /\ ~Live(db[p].id)
\* A folder that no row creates.
Uncreated(p) == db[p].id < 0 /\ p \in lost
\* The folder that is to get it has another path on OneDrive than the row says.
Misled(r) == /\ rows[r].folder /\ rows[r].pid \in DOMAIN server
             /\ rows[r].dir # server[rows[r].pid].path
\* One of the item's own parents hinders it: OneDrive deleted it and the delta
\* never says so, its row is gone, or the row of the item or of a parent names a
\* parent by a replaced id, or by a path that is not its own.
Hindered(r) ==
    LET above == Ancestors(rows[r].pid)
    IN  \/ \E p \in above : Stale(p) \/ Uncreated(p)
        \/ \E s \in DOMAIN rows : /\ rows[s].pid \in cut \/ Misled(s)
                                  /\ s = r \/ \E p \in above : Waits(s, p)
\* What waits gets there: a deleted chain of parents is rebuilt and uploaded from
\* the top in the end, unless one of the item's own parents hinders it.
Arrives ==
    <>[](\A i \in DOMAIN db \ (removed \union lost) :
            OnServer(i) \/ \A r \in DOMAIN rows : Waits(r, i) => Hindered(r))

=============================================================================
