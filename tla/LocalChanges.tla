----------------------------- MODULE LocalChanges -----------------------------
(***************************************************************************)
(* The local half: what the user does to files through FUSE                *)
(* (daemon/src/fuse), the rows this leaves in processing_items, and the    *)
(* half of the sync cycle that squashes them and sends them to OneDrive    *)
(* (daemon/src/sync/sync_processor.rs).                                    *)
(*                                                                         *)
(* fuser handles one request at a time; the cycle runs beside it.  Neither *)
(* opens a transaction, so an action here is about one statement or one    *)
(* request: the entry read by one step may have got another id, name or    *)
(* deletion mark when the next step stores it.                             *)
(*                                                                         *)
(* Assumed here: nothing changes remotely, folders exist on both sides and *)
(* are not the root or the trash, content is on disk.  An entry's inode is *)
(* its index in db; the temporary id of the file created as inode i is -i, *)
(* and a OneDrive id is an index in server.                                *)
(***************************************************************************)
EXTENDS Integers, Sequences

CONSTANTS
    Names, Folders,
    Synced,         \* number of files that are on both sides at the start
    Ops,            \* what the user does
    Overlap,        \* the user works while a cycle runs
    Reuse,          \* a name one file had may be given to another
    Slow,           \* a request may take 5 s
    MaxOps,         \* bound: operations of the user
    MaxFaults,      \* bound: statements and requests that fail
    MaxCrashes      \* bound: kills of the process

ASSUME PlacesAssumption == Names # {} /\ Folders # {}
ASSUME SizesAssumption ==
    /\ Synced \in Nat /\ MaxOps \in Nat /\ MaxFaults \in Nat /\ MaxCrashes \in Nat
    /\ Overlap \in BOOLEAN /\ Reuse \in BOOLEAN /\ Slow \in BOOLEAN
    /\ Ops \subseteq {"create", "write", "release", "rename", "move", "moverename",
                      "unlink", "replace"}

VARIABLES
    server,         \* OneDrive: the files ever created there
    db,             \* drive_items_with_fuse
    disk,           \* local/<ino>; 0 when there is no file
    rows,           \* processing_items of change_type local, by id
    recent,         \* rows whose last_status_update is less than 5 s ago
    fuse,           \* the FUSE request at work
    pc,             \* the cycle
    todo,           \* ids still to be squashed
    cur, item,      \* the row at hand and what was read of it
    answer,         \* the entry the handler is about to store
    want,           \* history: what the user wants of every inode, and its places
    ops, faults, crashes

request == <<fuse, ops, want>>
cycle == <<pc, todo, cur, item, answer>>
bounds == <<faults, crashes>>
vars == <<server, db, disk, rows, recent, request, cycle, bounds>>

Place == [dir : Folders, name : Names]
Nowhere == CHOOSE p \in Place : TRUE

\* `at` is the parent and name of the entry, `path` its virtual_path, which a
\* rename does not touch.
Entry == [id : Int, at : Place, path : Place, deleted : BOOLEAN]
NoEntry == [id |-> 0, at |-> Nowhere, path |-> Nowhere, deleted |-> FALSE]
At(id, p) == [id |-> id, at |-> p, path |-> p, deleted |-> FALSE]

\* `done` rows are deleted by hause_keeping before anything lists them: "gone".
\* `validated` is selected by the same queries as `new`.
Row == [id : Int, op : {"create", "update", "rename", "move", "delete"}, at : Place,
        status : {"new", "processing", "error", "conflicted", "gone"}]
\* Mutant: an operation that the queries of the cycle do not know.
NewRow_Modify(e, op) == [id |-> e.id, op |-> IF op = "update" THEN "modify" ELSE op,
                         at |-> e.at, status |-> "new"]
NewRow(e, op) == [id |-> e.id, op |-> op, at |-> e.at, status |-> "new"]

\* A file of OneDrive.  History: the inode it was created for, the inode its
\* content was read from, the last row that gave it a place, and whether a row
\* gave it a place the user never did, or one older than it had.
File == [at : Place, content : Nat, live : BOOLEAN, owner : Nat, by : Nat,
         placed : Nat, stray : BOOLEAN, undone : BOOLEAN]
Made(p, content, i, r) ==
    [at |-> p, content |-> content, live |-> TRUE, owner |-> i, by |-> i,
     placed |-> r, stray |-> FALSE, undone |-> FALSE]
\* History: what the user wants of the file, all the places it had, and whether
\* a request about it was cut short before its row was there, or the cycle while
\* a row of it was `processing`, which no query selects.
Wish == [at : Place, content : Nat, live : BOOLEAN, been : SUBSET Place, cut : BOOLEAN]
Wanted(p, c) == [at |-> p, content |-> c, live |-> TRUE, been |-> {p}, cut |-> FALSE]

Idle == [pc |-> "idle", entry |-> NoEntry, rows |-> << >>]

TypeOK ==
    /\ server \in Seq(File) /\ db \in Seq(Entry) /\ disk \in Seq(Nat)
    /\ rows \in Seq(Row) /\ recent \subseteq DOMAIN rows
    /\ fuse \in [pc : {"idle", "select", "update", "insert", "reread", "row", "mark",
                      "dead"}, entry : Entry, rows : Seq(Row)]
    /\ pc \in {"idle", "squash", "loop", "begun", "entries", "rows", "get",
               "answered", "stored", "closing"}
    /\ todo \subseteq Int /\ cur \in Nat /\ item \in Row /\ answer \in Entry
    /\ want \in Seq(Wish) /\ Len(want) = Len(db) /\ Len(disk) = Len(db)
    /\ ops \in 0..MaxOps /\ faults \in 0..MaxFaults /\ crashes \in 0..MaxCrashes

Init ==
    /\ \E place \in [1..Synced -> Place] :
          /\ \A i, j \in 1..Synced : i # j => place[i] # place[j]
          /\ server = [i \in 1..Synced |-> Made(place[i], 1, i, 0)]
          /\ db = [i \in 1..Synced |-> At(i, place[i])]
          /\ want = [i \in 1..Synced |-> Wanted(place[i], 1)]
    /\ disk = [i \in 1..Synced |-> 1]
    /\ rows = << >> /\ recent = {}
    /\ fuse = Idle /\ ops = 0
    /\ pc = "idle" /\ todo = {} /\ cur = 0 /\ item = NewRow(NoEntry, "create")
    /\ answer = NoEntry
    /\ faults = 0 /\ crashes = 0

Fault == faults < MaxFaults /\ faults' = faults + 1 /\ UNCHANGED crashes

-----------------------------------------------------------------------------
\* The database.

Live == {i \in DOMAIN db : ~db[i].deleted}

\* get_drive_item_with_fuse_by_parent_ino_and_name...: the first live entry.
Shown(i) == i \in Live /\ \A j \in Live : db[j].at = db[i].at => i <= j
Free(p) == \A i \in Live : db[i].at # p

Known(id) == \E i \in DOMAIN db : db[i].id = id
\* Mutant: the id of the row at hand is taken for the inode of its entry.
Inode_OfRow(id) == IF cur \in DOMAIN db THEN cur ELSE CHOOSE i \in DOMAIN db : db[i].id = id
Inode(id) == CHOOSE i \in DOMAIN db : db[i].id = id

\* UPDATE ... WHERE onedrive_id = ?
Update(e) == [i \in DOMAIN db |-> IF db[i].id = e.id THEN e ELSE db[i]]

\* INSERT: the entry gets a new inode, for which there is no file.
Insert(e, content, wish) ==
    /\ db' = Append(db, e)
    /\ disk' = Append(disk, content)
    /\ want' = Append(want, wish)
Ghost == [at |-> Nowhere, content |-> 0, live |-> FALSE, been |-> {}, cut |-> FALSE]

\* History: the inode of the file an id was given for.
FileOf(id) == IF id < 0 THEN -id ELSE server[id].owner

-----------------------------------------------------------------------------
\* FUSE: the requests of the user.  Each leaves what is still to be done in
\* `fuse`; the steps that do it follow.

\* No file but i ever had the name p.
Own(i, p) == \A j \in DOMAIN want : j # i => p \notin want[j].been
Permitted(op) ==
    /\ op \in Ops
    /\ fuse.pc = "idle"
    /\ Overlap \/ pc = "idle"
    /\ ops < MaxOps
    /\ ops' = ops + 1

Cut(files) ==
    want' = [i \in DOMAIN want |-> IF i \in files THEN [want[i] EXCEPT !.cut = TRUE] ELSE want[i]]
Requested == {FileOf(fuse.rows[k].id) : k \in DOMAIN fuse.rows}
Processed == IF cur = 0 THEN {} ELSE {FileOf(rows[cur].id)}

\* create: the entry with a temporary id and the empty file; then the row.
Create(p) ==
    LET e == At(-(Len(db) + 1), p) IN
    /\ Permitted("create")
    /\ Free(p)
    /\ Reuse \/ Own(0, p)
    /\ Insert(e, ops + 2, Wanted(p, ops + 2))
    /\ fuse' = [pc |-> "row", entry |-> e, rows |-> <<NewRow(e, "create")>>]
    /\ UNCHANGED <<server, rows, recent, cycle, bounds>>

\* write through an open handle: the content changes and the entry is read.
Write(i) ==
    /\ Permitted("write")
    /\ i \in Live /\ disk[i] # 0
    /\ disk' = [disk EXCEPT ![i] = ops + 2]
    /\ want' = [want EXCEPT ![FileOf(db[i].id)].content = ops + 2]
    /\ fuse' = [pc |-> "row", entry |-> db[i], rows |-> <<NewRow(db[i], "update")>>]
    /\ UNCHANGED <<server, db, rows, recent, cycle, bounds>>

\* release stores the entry it read, with the size and times of the file.
Release(i) ==
    /\ Permitted("release")
    /\ i \in Live /\ disk[i] # 0
    /\ fuse' = [pc |-> "select", entry |-> db[i], rows |-> << >>]
    /\ UNCHANGED <<server, db, disk, rows, recent, want, cycle, bounds>>

\* rename to a free place stores the entry with its new place, ...
Rename(i, p) ==
    /\ Permitted(IF p.dir = db[i].at.dir THEN "rename"
                 ELSE IF p.name = db[i].at.name THEN "move" ELSE "moverename")
    /\ Shown(i) /\ Free(p)
    /\ Reuse \/ Own(FileOf(db[i].id), p)
    /\ want' = [want EXCEPT ![FileOf(db[i].id)].at = p, ![FileOf(db[i].id)].been = @ \union {p}]
    /\ fuse' = [pc |-> "select", entry |-> [db[i] EXCEPT !.at = p],
                rows |-> <<NewRow(db[i], IF p.dir = db[i].at.dir THEN "rename" ELSE "move")>>]
    /\ UNCHANGED <<server, db, disk, rows, recent, cycle, bounds>>

\* unlink stores the entry as deleted; its row carries it as it was.
Unlink(i) ==
    /\ Permitted("unlink")
    /\ Shown(i)
    /\ want' = [want EXCEPT ![FileOf(db[i].id)].live = FALSE]
    /\ fuse' = [pc |-> "select", entry |-> [db[i] EXCEPT !.deleted = TRUE],
                rows |-> <<NewRow(db[i], "delete")>>]
    /\ UNCHANGED <<server, db, disk, rows, recent, cycle, bounds>>

\* Mutant: the target of a replacement has no row.
Replace_NoUpdate(i, j) ==
    /\ Permitted("replace")
    /\ i # j /\ Shown(i) /\ Shown(j)
    /\ disk[i] # 0 /\ disk[j] # 0
    /\ disk' = [disk EXCEPT ![i] = 0, ![j] = disk[i]]
    /\ want' = [want EXCEPT ![FileOf(db[i].id)].live = FALSE,
                            ![FileOf(db[j].id)].content = want[FileOf(db[i].id)].content]
    /\ fuse' = [pc |-> "mark", entry |-> db[i],
                rows |-> <<NewRow(db[i], "delete"), NewRow(db[i], "delete")>>]
    /\ UNCHANGED <<server, db, rows, recent, cycle, bounds>>

\* rename over another file: handle_replace_operation moves the content,
\* deletes the entry of the source, and leaves two Delete rows of the source
\* and an Update row of the target.
Replace(i, j) ==
    /\ Permitted("replace")
    /\ i # j /\ Shown(i) /\ Shown(j)
    /\ disk[i] # 0 /\ disk[j] # 0
    /\ disk' = [disk EXCEPT ![i] = 0, ![j] = disk[i]]
    /\ want' = [want EXCEPT ![FileOf(db[i].id)].live = FALSE,
                            ![FileOf(db[j].id)].content = want[FileOf(db[i].id)].content]
    /\ fuse' = [pc |-> "mark", entry |-> db[i],
                rows |-> <<NewRow(db[i], "delete"), NewRow(db[i], "delete"),
                           NewRow(db[j], "update")>>]
    /\ UNCHANGED <<server, db, rows, recent, cycle, bounds>>

-----------------------------------------------------------------------------
\* FUSE: the statements of a request.

\* store_drive_item_with_fuse looks the id up, ...
FuseSelect ==
    /\ fuse.pc = "select"
    /\ fuse' = [fuse EXCEPT !.pc = IF Known(fuse.entry.id) THEN "update" ELSE "insert"]
    /\ UNCHANGED <<server, db, disk, rows, recent, ops, want, cycle, bounds>>

\* What follows the store: a rename reads the entry again, the others insert
\* their rows, release has none.
AfterStore ==
    IF fuse.rows = << >> THEN Idle
    ELSE [fuse EXCEPT !.pc = IF Head(fuse.rows).op \in {"rename", "move"} THEN "reread"
                             ELSE "row"]

\* ... and updates the row of that id, if it still has it, or inserts one.
FuseUpdate ==
    /\ fuse.pc = "update"
    /\ db' = Update(fuse.entry)
    /\ fuse' = AfterStore
    /\ UNCHANGED <<server, disk, rows, recent, ops, want, cycle, bounds>>

FuseInsert ==
    /\ fuse.pc = "insert"
    /\ Insert(fuse.entry, 0, Ghost)
    /\ fuse' = AfterStore
    /\ UNCHANGED <<server, rows, recent, ops, cycle, bounds>>

\* rename looks the entry up under its new name for the row, and unwraps.
FuseReread ==
    /\ fuse.pc = "reread"
    /\ \/ \E i \in DOMAIN db :
             /\ Shown(i) /\ db[i].at = fuse.entry.at
             /\ fuse' = [pc |-> "row", entry |-> db[i],
                         rows |-> <<NewRow(db[i], Head(fuse.rows).op)>>]
             /\ UNCHANGED want
       \/ /\ Free(fuse.entry.at)
          /\ fuse' = [Idle EXCEPT !.pc = "dead"]
          /\ Cut(Requested)
    /\ UNCHANGED <<server, db, disk, rows, recent, ops, cycle, bounds>>

\* delete_drive_item_with_fuse of the source of a replacement.
FuseMark ==
    /\ fuse.pc = "mark"
    /\ db' = [i \in DOMAIN db |-> IF db[i].id = fuse.entry.id
                                  THEN [db[i] EXCEPT !.deleted = TRUE] ELSE db[i]]
    /\ fuse' = [fuse EXCEPT !.pc = "row"]
    /\ UNCHANGED <<server, disk, rows, recent, ops, want, cycle, bounds>>

RowLeft == IF Len(fuse.rows) = 1 THEN Idle ELSE [fuse EXCEPT !.rows = Tail(fuse.rows)]

\* create_processing_item: last_status_update is set 6 s back, the row may be
\* selected at once.
FuseRow ==
    /\ fuse.pc = "row"
    /\ rows' = Append(rows, Head(fuse.rows))
    /\ fuse' = RowLeft
    /\ UNCHANGED <<server, db, disk, recent, ops, want, cycle, bounds>>

\* The INSERT of the row fails: that is logged, the user is told nothing.
FuseRowFails ==
    /\ fuse.pc = "row"
    /\ Fault
    /\ fuse' = RowLeft
    /\ Cut({FileOf(Head(fuse.rows).id)})
    /\ UNCHANGED <<server, db, disk, rows, recent, ops, cycle>>

-----------------------------------------------------------------------------
\* The cycle: squash_local_changes.

EndCycle == pc' = "idle" /\ todo' = {} /\ cur' = 0

\* The process is killed: what the cycle and the request held is gone.
Crash ==
    /\ pc # "idle" \/ fuse.pc # "idle"
    /\ crashes < MaxCrashes
    /\ crashes' = crashes + 1
    /\ EndCycle
    /\ fuse' = Idle /\ Cut(Requested \union Processed)
    /\ UNCHANGED <<server, db, disk, rows, recent, ops, item, answer, faults>>

\* Five seconds pass while nothing happens or a request is under way.
TimePasses ==
    /\ pc = "idle" \/ (Slow /\ pc \in {"begun", "get"})
    /\ recent # {}
    /\ recent' = {}
    /\ UNCHANGED <<server, db, disk, rows, request, cycle, bounds>>

RowsOf(id) == {r \in DOMAIN rows : rows[r].id = id /\ rows[r].status # "gone"}
\* Mutant: the first of several rows is kept.
Last_First(rs) == CHOOSE r \in rs : \A s \in rs : r <= s
Last(rs) == CHOOSE r \in rs : \A s \in rs : s <= r
OfOp(rs, op) == {r \in rs : rows[r].op = op}

Start ==
    /\ pc = "idle"
    /\ Overlap \/ fuse.pc \in {"idle", "dead"}
    /\ pc' = "squash"
    /\ todo' = {rows[r].id : r \in {s \in DOMAIN rows : rows[s].status \in {"new", "error"}}}
    /\ UNCHANGED <<server, db, disk, rows, recent, request, cur, item, answer, bounds>>

\* Mutant: after a Create and a modification nothing is removed.
Surplus_KeepsCreates(rs) ==
    IF OfOp(rs, "create") # {} /\ OfOp(rs, "delete") # {} THEN rs
    ELSE IF OfOp(rs, "create") # {} THEN {}
    ELSE {r \in rs : /\ rows[r].op \in {"update", "rename", "move"}
                     /\ r # Last(OfOp(rs, rows[r].op))}

\* The rows of an item that the rules remove: all of them after Create and
\* Delete; all but the last after Create and a modification; else all but the
\* last of each kind of modification.
CreatedAndDeleted(rs) == OfOp(rs, "create") # {} /\ OfOp(rs, "delete") # {}
CreatedAndModified(rs) ==
    OfOp(rs, "create") # {} /\ \E op \in {"update", "rename", "move"} : OfOp(rs, op) # {}
Surplus(rs) ==
    IF CreatedAndDeleted(rs) THEN rs
    ELSE IF CreatedAndModified(rs) THEN rs \ {Last(rs)}
    ELSE {r \in rs : /\ rows[r].op \in {"update", "rename", "move"}
                     /\ r # Last(OfOp(rs, rows[r].op))}

\* squash_create_modify_sequence makes the last row the Create, which also
\* sets its last_status_update; then the rows `gone` are deleted.
Squashed(rs, gone) ==
    LET final == IF CreatedAndModified(rs) THEN rs \ Surplus(rs) ELSE {} IN
    /\ rows' = [r \in DOMAIN rows |->
                   IF r \in gone THEN [rows[r] EXCEPT !.status = "gone"]
                   ELSE IF r \in final THEN [rows[r] EXCEPT !.op = "create"]
                   ELSE rows[r]]
    /\ recent' = recent \union final

Squash(id) ==
    /\ pc = "squash" /\ id \in todo
    /\ Squashed(RowsOf(id), Surplus(RowsOf(id)))
    /\ todo' = todo \ {id}
    /\ UNCHANGED <<server, db, disk, request, pc, cur, item, answer, bounds>>

\* A DELETE fails, or the process is killed, in the middle of a rule.
SquashStops(id) ==
    LET rs == RowsOf(id) IN
    /\ pc = "squash" /\ id \in todo
    /\ \E k \in Surplus(rs) : Squashed(rs, {r \in Surplus(rs) : r < k})
    /\ EndCycle
    /\ \/ Fault /\ UNCHANGED <<fuse, want>>
       \/ /\ crashes < MaxCrashes /\ crashes' = crashes + 1
          /\ fuse' = Idle /\ Cut(Requested)
          /\ UNCHANGED faults
    /\ UNCHANGED <<server, db, disk, ops, item, answer>>

SquashDone ==
    /\ pc = "squash" /\ todo = {}
    /\ pc' = "loop"
    /\ UNCHANGED <<server, db, disk, rows, recent, request, todo, cur, item, answer, bounds>>

-----------------------------------------------------------------------------
\* The cycle: the loop of process_all_items over local rows.

Touch(r, status) ==
    /\ rows' = [rows EXCEPT ![r].status = status]
    /\ recent' = recent \union {r}

\* Mutant: the query without the five seconds.
Selectable_AtOnce == {r \in DOMAIN rows : rows[r].status \in {"new", "error", "conflicted"}}
Selectable == {r \in DOMAIN rows :
                 rows[r].status \in {"new", "error", "conflicted"} /\ r \notin recent}
NextRow(r) == r \in Selectable /\ \A s \in Selectable : r <= s

\* detect_local_conflicts without remote rows: RenameOrMoveToExisting.
Conflict(row) ==
    /\ row.op \in {"rename", "move"}
    /\ \E i \in Live : db[i].id # row.id /\ db[i].at = row.at

Begin(r) ==
    /\ pc = "loop" /\ NextRow(r) /\ ~Conflict(rows[r])
    /\ Touch(r, "processing")
    /\ cur' = r /\ item' = rows[r]
    /\ pc' = "begun"
    /\ UNCHANGED <<server, db, disk, request, todo, answer, bounds>>

SetConflicted(r) ==
    /\ pc = "loop" /\ NextRow(r) /\ Conflict(rows[r])
    /\ Touch(r, "conflicted")
    /\ UNCHANGED <<server, db, disk, request, cycle, bounds>>

Finish ==
    /\ pc = "loop" /\ Selectable = {}
    /\ EndCycle
    /\ UNCHANGED <<server, db, disk, rows, recent, request, item, answer, bounds>>

\* Mutant: a row that failed is done with.
RowError_Done == Touch(cur, "gone") /\ pc' = "loop" /\ cur' = 0

\* The handler returns an error.
RowError == Touch(cur, "error") /\ pc' = "loop" /\ cur' = 0

-----------------------------------------------------------------------------
\* OneDrive (external).  A name is taken once in a folder.

Taken(p) == {s \in DOMAIN server : server[s].live /\ server[s].at = p}
There(id) == id \in DOMAIN server /\ server[id].live

\* PUT parent:/name:/content: replaces the content of the file of that name.
PutNew(p, i, id) ==
    \/ /\ id \in Taken(p)
       /\ server' = [server EXCEPT ![id].content = disk[i], ![id].by = i]
    \/ /\ Taken(p) = {} /\ id = Len(server) + 1
       /\ server' = Append(server, Made(p, disk[i], i, cur))

-----------------------------------------------------------------------------
\* The cycle: the handlers.

Panics == item.op \in {"create", "update"} /\ ~Known(item.id)

\* Where move_item and rename_item would put the file.
Target == IF item.op = "move" THEN [server[item.id].at EXCEPT !.dir = item.at.dir]
          ELSE [server[item.id].at EXCEPT !.name = item.at.name]

\* The request is sent, and the server grants it.
Granted ==
    \/ item.op = "create" /\ Known(item.id) /\ disk[Inode(item.id)] # 0
    \/ item.op = "update" /\ Known(item.id) /\ disk[Inode(item.id)] # 0 /\ There(item.id)
    \/ item.op = "delete" /\ Known(item.id) /\ Taken(db[Inode(item.id)].path) # {}
    \/ /\ item.op \in {"move", "rename"} /\ There(item.id)
       /\ Taken(Target) \subseteq {item.id}

\* The server did what it was asked to; the answer arrives, or is lost and the
\* handler fails.
Outcome(next) ==
    \/ pc' = next /\ UNCHANGED <<rows, recent, cur, bounds>>
    \/ Fault /\ RowError

\* unwrap() of an entry no row of the table has: the task of the cycle dies.
HandlerPanics ==
    /\ pc = "begun" /\ Panics
    /\ EndCycle
    /\ Cut(Processed)
    /\ UNCHANGED <<server, db, disk, rows, recent, fuse, ops, item, answer, bounds>>

\* There is no such entry or file, or the server says 404 or 409.
HandlerRefused ==
    /\ pc = "begun" /\ ~Panics /\ ~Granted
    /\ RowError
    /\ UNCHANGED <<server, db, disk, request, todo, item, answer, bounds>>

\* A request fails before it reaches the server, or a statement fails.
HandlerFails ==
    /\ pc \in {"begun", "entries", "rows", "answered", "stored", "closing"}
    /\ Fault
    /\ RowError
    /\ UNCHANGED <<server, db, disk, request, todo, item, answer>>

\* handle_local_create: upload_new_file_to_parent, ...
UploadNew ==
    /\ pc = "begun" /\ item.op = "create" /\ Granted
    /\ \E id \in 1..Len(server) + 1 :
          /\ PutNew(item.at, Inode(item.id), id)
          /\ answer' = At(id, item.at)
    /\ Outcome("entries")
    /\ UNCHANGED <<db, disk, request, todo, item>>

\* ... update_onedrive_id of the entry, unless another entry has that id, ...
RewriteEntry ==
    /\ pc = "entries"
    /\ IF item.id # answer.id /\ Known(answer.id)
       THEN RowError /\ UNCHANGED db
       ELSE /\ db' = [i \in DOMAIN db |-> IF db[i].id = item.id
                                         THEN [db[i] EXCEPT !.id = answer.id] ELSE db[i]]
            /\ pc' = "rows"
            /\ UNCHANGED <<rows, recent, cur>>
    /\ UNCHANGED <<server, disk, request, todo, item, answer, bounds>>

\* ... update_onedrive_id of the rows, ...
RewriteRows ==
    /\ pc = "rows"
    /\ rows' = [r \in DOMAIN rows |-> IF rows[r].id = item.id
                                      THEN [rows[r] EXCEPT !.id = answer.id] ELSE rows[r]]
    /\ pc' = "get"
    /\ UNCHANGED <<server, db, disk, recent, request, todo, cur, item, answer, bounds>>

\* ... get_item_by_id; when that fails the handler warns and is through.
GetItem ==
    /\ pc = "get"
    /\ \/ /\ answer' = At(answer.id, server[answer.id].at)
          /\ pc' = "answered"
          /\ UNCHANGED bounds
       \/ Fault /\ pc' = "closing" /\ UNCHANGED answer
    /\ UNCHANGED <<server, db, disk, rows, recent, request, todo, cur, item>>

\* handle_local_update: upload_updated_file; what it will store is the entry
\* as it was before the upload.
UploadChange ==
    /\ pc = "begun" /\ item.op = "update" /\ Granted
    /\ LET i == Inode(item.id) IN
          /\ server' = [server EXCEPT ![item.id].content = disk[i], ![item.id].by = i]
          /\ answer' = db[i]
    /\ Outcome("answered")
    /\ UNCHANGED <<db, disk, request, todo, item>>

\* Mutant: the path of the parent is deleted.
DeleteOnServer_Parent ==
    /\ pc = "begun" /\ item.op = "delete" /\ Granted
    /\ server' = [s \in DOMAIN server |->
                     IF server[s].at.dir = db[Inode(item.id)].path.dir
                     THEN [server[s] EXCEPT !.live = FALSE] ELSE server[s]]
    /\ answer' = At(item.id, item.at)
    /\ Outcome("answered")
    /\ UNCHANGED <<db, disk, request, todo, item>>

\* handle_local_delete: delete_item by the virtual path of the entry; what it
\* will store is the item of the row.
DeleteOnServer ==
    /\ pc = "begun" /\ item.op = "delete" /\ Granted
    /\ server' = [s \in DOMAIN server |->
                     IF s \in Taken(db[Inode(item.id)].path)
                     THEN [server[s] EXCEPT !.live = FALSE] ELSE server[s]]
    /\ answer' = At(item.id, item.at)
    /\ Outcome("answered")
    /\ UNCHANGED <<db, disk, request, todo, item>>

\* handle_local_move and handle_local_rename: PATCH of the parent or the name.
Relocate ==
    /\ pc = "begun" /\ item.op \in {"move", "rename"} /\ Granted
    /\ LET f == server[item.id] IN
          server' = [server EXCEPT ![item.id] =
              [f EXCEPT !.at = Target, !.placed = cur,
                        !.stray = f.stray \/ Target \notin want[f.owner].been,
                        !.undone = f.undone \/ cur < f.placed]]
    /\ answer' = At(item.id, Target)
    /\ Outcome("answered")
    /\ UNCHANGED <<db, disk, request, todo, item>>

\* setup_fuse_metadata, or store_drive_item_with_fuse of the update.
StoreAnswer ==
    /\ pc = "answered"
    /\ IF Known(answer.id) THEN db' = Update(answer) /\ UNCHANGED <<disk, want>>
       ELSE Insert(answer, 0, Ghost)
    /\ pc' = IF item.op \in {"update", "delete"} THEN "closing" ELSE "stored"
    /\ UNCHANGED <<server, rows, recent, fuse, ops, todo, cur, item, answer, bounds>>

\* update_processing_item: the row gets the server's item, and the status it
\* had when it was selected.
RowAnswered ==
    /\ pc = "stored"
    /\ rows' = [rows EXCEPT ![cur] = [item EXCEPT !.id = answer.id, !.at = answer.at]]
    /\ recent' = recent \union {cur}
    /\ pc' = "closing"
    /\ UNCHANGED <<server, db, disk, request, todo, cur, item, answer, bounds>>

\* Mutant: all rows of the item are set to done, not the one that was processed.
FinishRow_ByItem ==
    /\ pc = "closing"
    /\ rows' = [r \in DOMAIN rows |-> IF rows[r].id = rows[cur].id
                                      THEN [rows[r] EXCEPT !.status = "gone"] ELSE rows[r]]
    /\ recent' = recent \union {cur}
    /\ pc' = "loop" /\ cur' = 0
    /\ UNCHANGED <<server, db, disk, request, todo, item, answer, bounds>>

FinishRow ==
    /\ pc = "closing"
    /\ Touch(cur, "gone")
    /\ pc' = "loop" /\ cur' = 0
    /\ UNCHANGED <<server, db, disk, request, todo, item, answer, bounds>>

-----------------------------------------------------------------------------
User ==
    \/ \E p \in Place : Create(p) \/ \E i \in DOMAIN db : Rename(i, p)
    \/ \E i \in DOMAIN db : Write(i) \/ Release(i) \/ Unlink(i) \/ \E j \in DOMAIN db : Replace(i, j)

Request == FuseSelect \/ FuseUpdate \/ FuseInsert \/ FuseReread \/ FuseMark
             \/ FuseRow \/ FuseRowFails

Handle == HandlerPanics \/ HandlerRefused \/ HandlerFails
             \/ UploadNew \/ RewriteEntry \/ RewriteRows \/ GetItem
             \/ UploadChange \/ DeleteOnServer \/ Relocate
             \/ StoreAnswer \/ RowAnswered \/ FinishRow

Cycle ==
    \/ Start \/ SquashDone \/ Finish
    \/ \E id \in todo : Squash(id) \/ SquashStops(id)
    \/ \E r \in DOMAIN rows : Begin(r) \/ SetConflicted(r)
    \/ Handle

Next == User \/ Request \/ Cycle \/ TimePasses \/ Crash

\* A request of the file system is carried through; cycles are started and go
\* on until they return; ticks are 30 s apart, so it happens again and again
\* that 5 s pass between cycles.  The user need not do anything.
Fairness == WF_vars(Request) /\ WF_vars(Cycle) /\ SF_vars(TimePasses)

Spec == Init /\ [][Next]_vars /\ Fairness

-----------------------------------------------------------------------------
\* Properties.

Holding == {s \in DOMAIN server : server[s].live}
CopiesOf(i) == {s \in Holding : server[s].owner = i}

\* Every file of OneDrive is one the user has, with its name and content, and
\* the other way round.
OnServer == {[at |-> server[s].at, content |-> server[s].content] : s \in Holding}
Wishes == {[at |-> want[i].at, content |-> want[i].content] :
                i \in {j \in DOMAIN want : want[j].live}}

\* Once the user stops, OneDrive gets what the user has, whatever the rules of
\* squash_local_changes made of the rows and in whatever cycle each was sent.
Converges == <>[](OnServer = Wishes)

\* A file of the user is on OneDrive once: neither the squashed rows nor a
\* repeated upload of handle_local_create makes a second one.
OneCopy == \A s, t \in Holding : server[s].owner = server[t].owner => s = t

\* A rename or a move of a file, each sent without the other because of a failure
\* or a refusal, took its copy to a place the user never gave it.
Strayed == \E s \in DOMAIN server : server[s].stray

\* No file of OneDrive is overwritten with the content of another one, though
\* handle_local_create uploads by name; unless one had strayed.
OwnContent == Strayed \/ \A s \in Holding : server[s].by = server[s].owner

\* The daemon deletes on OneDrive only what the user has deleted, though
\* handle_local_delete deletes by path; unless a file had strayed.
DeletesOnlyUnlinked ==
    [][Strayed \/ \A s \in Holding : ~server'[s].live => ~want[server[s].owner].live]_server

\* No change and no deletion is forgotten: while the name or the content of a
\* file is not the one OneDrive has, or a file the user has deleted is there, a row
\* of it waits or is processed, unless a request was cut short between the store
\* of the entry and its row, or a cycle in a row of it.  A row that failed and was
\* tried again after a younger one may have undone that one's rename or move.
Pending(i) == \E r \in DOMAIN rows :
                 /\ FileOf(rows[r].id) = i
                 /\ rows[r].status \in {"new", "error", "conflicted"} \/ r = cur
Recorded(i) == fuse.pc \notin {"idle", "dead"} \/ Pending(i) \/ want[i].cut
ChangesRecorded ==
    \A i \in {j \in DOMAIN want : ~Recorded(j)} :
        IF want[i].live
        THEN \E s \in CopiesOf(i) :
                /\ server[s].at = want[i].at \/ server[s].undone
                /\ server[s].content = want[i].content
        ELSE CopiesOf(i) = {}

\* The content of a file alone, whatever fails and whenever the process dies.
EditsRecorded ==
    Strayed \/ \A i \in DOMAIN want :
        want[i].live => Recorded(i) \/ \E s \in CopiesOf(i) :
            server[s].content = want[i].content

\* A cycle that was started returns: the rows it tries are each tried once.
CycleEnds == pc # "idle" ~> pc = "idle"

=============================================================================
