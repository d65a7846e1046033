----------------------------- MODULE TwoWaySync -----------------------------
(***************************************************************************)
(* Both halves of the cycle on one file: the user edits it here, another   *)
(* client edits it on OneDrive.  The conflict checks of                    *)
(* daemon/src/sync/sync_strategy.rs, the order in which                    *)
(* sync_processor.rs handles the rows of both sides, and resolve_conflict  *)
(* of daemon/src/dbus_server/server.rs, which runs beside the cycle.       *)
(*                                                                         *)
(* OneDrive keeps a log per file: its etag is the length of the log, its   *)
(* ctag the content at the end, 0 when the file is deleted.                *)
(* The statements of a request of the user, of a squashing rule and of     *)
(* handle_local_create are one action each here, and only the requests of  *)
(* the conflict check fail; LocalChanges takes them apart.                 *)
(*                                                                         *)
(* Assumed here: one file in one folder, no name is used twice; a second   *)
(* answer to the conflict overlaps the first; the statements of one D-Bus  *)
(* call are less than 5 s apart.                                           *)
(***************************************************************************)
EXTENDS Naturals, Sequences

CONSTANTS
    Calls,          \* calls of resolve_conflict, in the order they are made
    Synced,         \* the file is below a folder of settings.download_folders
    LocalOps,       \* what the user does
    MaxRemote,      \* bound: changes by other clients
    MaxLocal,       \* bound: changes by the user
    MaxFaults       \* bound: requests of the conflict check that fail, and kills
                    \* of the process during a call

ASSUME SizesAssumption ==
    /\ MaxRemote \in Nat /\ MaxLocal \in Nat /\ MaxFaults \in Nat
    /\ Synced \in BOOLEAN /\ Calls \subseteq Nat
    /\ LocalOps \subseteq {"update", "delete", "rename"}

VARIABLES
    log,            \* OneDrive: the contents of each id
    token,          \* how much of each log the saved delta link covers
    entry,          \* the file in drive_items_with_fuse
    disk,           \* content of local/<ino>
    rows,           \* processing_items, by id
    recent,         \* rows whose last_status_update is less than 5 s ago
    queue,          \* ids whose download is pending
    pc, todo, cur, item,    \* the cycle; rows and downloads are read when listed
    answer,         \* the entry the handler is about to store
    staged,         \* content of downloads/<ino>
    call,           \* D-Bus calls at work
    remotes, locals, faults,
    known,          \* history: the versions each content was made from
    shown,          \* history: rows get_conflicts has listed
    yielded,        \* history: contents the user gave up in a conflict
    applied,        \* history: contents whose etag the entry has had
    unseen,         \* history: remote contents the entry took over in a window
    late            \* history: edits written while a download was at work

onedrive == <<log, remotes>>
table == <<entry, disk, rows, recent, queue>>
cycle == <<pc, todo, cur, item, answer, staged>>
bounds == <<locals, faults>>
history == <<known, shown, yielded, applied, unseen, late>>
vars == <<onedrive, token, table, cycle, call, bounds, history>>

\* "old" is the id the file has at first, "local" one made by resolve_conflict,
\* "new" the one OneDrive gives it then.
Ids == {"old", "local", "new"}
Tag == Nat          \* 0 is NULL
Contents == 0..Len(known)
\* `own`: last_modified is the one FUSE wrote, not the server's.
Entry == [id : Ids, etag : Tag, ctag : Tag, own : BOOLEAN, deleted : BOOLEAN]
\* `parked`: update_validation_errors_by_id wrote last_status_update as RFC 3339,
\* whose "T" sorts after the " " of datetime('now'): the 5 s rule does not
\* select the row on the same day.
Row == [type : {"remote", "local"}, op : {"create", "update", "rename", "delete"},
        id : Ids, etag : Tag, parked : BOOLEAN,
        status : {"new", "validated", "processing", "done", "error", "conflicted",
                  "cancelled", "gone"}]
NewRow(type, op, id, etag) ==
    [type |-> type, op |-> op, id |-> id, etag |-> etag, parked |-> FALSE, status |-> "new"]

Choices == {"KeepLocal", "UseRemote"}
AtWork == {"cancel", "requeue", "rename"}
NoRow == NewRow("local", "update", "old", 0)
NoAnswer == [id |-> "old", etag |-> 0, ctag |-> 0, own |-> FALSE, deleted |-> FALSE]
\* The rows `win` and `lose`, as Ask read them, and what Requeue will write.
Call == [pc : AtWork \union {"idle", "returned", "crossed", "killed"},
         win : Nat, lose : Nat, row : Row, transformed : BOOLEAN]
NoCall == [pc |-> "idle", win |-> 0, lose |-> 0, row |-> NoRow, transformed |-> FALSE]

TypeOK ==
    /\ log \in [Ids -> Seq(Contents)] /\ token \in [Ids -> Nat]
    /\ \A id \in Ids : token[id] <= Len(log[id])
    /\ entry \in Entry /\ disk \in Contents
    /\ rows \in Seq(Row) /\ recent \subseteq DOMAIN rows /\ queue \subseteq Ids
    /\ pc \in {"idle", "listed", "park", "apply", "begun", "local", "answered", "closing",
               "downloads", "staged"}
    /\ todo \subseteq [at : Nat, row : Row] /\ cur \in Nat /\ item \in Row
    /\ answer \in Entry /\ staged \in Contents
    /\ call \in [Calls -> Call]
    /\ remotes \in 0..MaxRemote /\ locals \in 0..MaxLocal /\ faults \in 0..MaxFaults
    /\ known \in Seq(SUBSET Nat) /\ \A n \in DOMAIN known : known[n] \subseteq DOMAIN known
    /\ shown \subseteq DOMAIN rows
    /\ yielded \union applied \union unseen \union late \subseteq Contents

Init ==
    /\ log = [id \in Ids |-> IF id = "old" THEN <<1>> ELSE << >>]
    /\ token = [id \in Ids |-> IF id = "old" THEN 1 ELSE 0]
    \* the last change was made here (ctag known) or by another client (NULL)
    /\ \E ctag \in {0, 1} :
          entry = [id |-> "old", etag |-> 1, ctag |-> ctag, own |-> ctag = 1, deleted |-> FALSE]
    /\ disk = 1 /\ rows = << >> /\ recent = {} /\ queue = {}
    /\ pc = "idle" /\ todo = {} /\ cur = 0 /\ item = NoRow /\ answer = NoAnswer /\ staged = 0
    /\ call = [c \in Calls |-> NoCall]
    /\ remotes = 0 /\ locals = 0 /\ faults = 0
    /\ known = <<{1}>> /\ shown = {} /\ yielded = {} /\ applied = {1} /\ unseen = {} /\ late = {}

-----------------------------------------------------------------------------
Top(id) == IF log[id] = << >> THEN 0 ELSE log[id][Len(log[id])]
\* Mutant: counts from one too far.
Etag_OneMore(id) == Len(log[id]) + 1
Etag(id) == Len(log[id])
Exists(id) == Top(id) # 0

\* Mutant: a row in conflict is no longer pending.
Pending_NotConflicted == {"new", "validated", "error"}
Pending == {"new", "validated", "conflicted", "error"}
\* get_pending_processing_item_by_drive_item_id_and_change_type: the first one
PendingOf(id, type) ==
    {r \in DOMAIN rows : rows[r].id = id /\ rows[r].type = type /\ rows[r].status \in Pending}
First(rs) == CHOOSE r \in rs : \A s \in rs : r <= s

\* update_status_by_id; the row may have been deleted meanwhile.
SetStatus(r, status) ==
    /\ rows' = IF rows[r].status = "gone" THEN rows
               ELSE [rows EXCEPT ![r].status = status, ![r].parked = FALSE]
    /\ recent' = recent \union {r}

Fault == faults < MaxFaults /\ faults' = faults + 1 /\ UNCHANGED locals

Made(from) == Append(known, from \union {Len(known) + 1})
Knows(d) == IF d = 0 THEN {} ELSE known[d]
Content == Len(known) + 1

-----------------------------------------------------------------------------
\* Other clients, and the user.

RemoteEdit ==
    /\ remotes < MaxRemote /\ remotes' = remotes + 1
    /\ \E id \in Ids : Exists(id) /\
          \/ /\ log' = [log EXCEPT ![id] = Append(@, Content)]
             /\ known' = Made(Knows(Top(id)))
          \/ \E c \in {0, Top(id)} :        \* deleted; renamed or moved within the folder
                log' = [log EXCEPT ![id] = Append(@, c)] /\ UNCHANGED known
    /\ UNCHANGED <<token, table, cycle, call, bounds, shown, yielded, applied, unseen, late>>

LocalChange(op) ==
    /\ op \in LocalOps
    /\ ~entry.deleted
    /\ locals < MaxLocal /\ locals' = locals + 1
    /\ rows' = Append(rows, NewRow("local", op, entry.id, entry.etag))
    /\ UNCHANGED <<onedrive, token, recent, queue, cycle, call, faults,
                   shown, yielded, applied>>

\* The versions the table has, or is about to have, and the disk has not.
Coming == (IF entry.id \in queue THEN {log[entry.id][entry.etag]} ELSE {})
            \union (IF pc = "apply" /\ item.op # "delete" THEN {log[item.id][item.etag]} ELSE {})
            \union (IF pc = "staged" THEN {staged} ELSE {})

Write ==
    /\ disk # 0
    /\ LocalChange("update")
    /\ disk' = Content /\ known' = Made(Knows(disk))
    /\ unseen' = unseen \union Coming
    /\ late' = IF pc \in {"downloads", "staged"} THEN late \union {Content} ELSE late
    /\ UNCHANGED entry

Unlink ==
    /\ LocalChange("delete")
    /\ entry' = [entry EXCEPT !.deleted = TRUE]
    /\ unseen' = unseen \union Coming
    /\ UNCHANGED <<disk, known, late>>

Rename ==
    /\ LocalChange("rename")
    /\ UNCHANGED <<entry, disk, known, unseen, late>>

TimePasses ==
    /\ recent # {} /\ pc = "idle"
    /\ \A c \in Calls : call[c].pc \notin AtWork
    /\ recent' = {}
    /\ UNCHANGED <<onedrive, token, entry, disk, rows, queue, cycle, call, bounds, history>>

\* Midnight, UTC: "2025-01-01T..." sorts before "2025-01-02 ...".
DayPasses ==
    /\ pc = "idle" /\ \E r \in DOMAIN rows : rows[r].parked
    /\ rows' = [r \in DOMAIN rows |-> [rows[r] EXCEPT !.parked = FALSE]]
    /\ UNCHANGED <<onedrive, token, entry, disk, recent, queue, cycle, call, bounds, history>>

-----------------------------------------------------------------------------
\* The cycle: delta, housekeeping, squashing, and the list of remote rows.

\* detect_change_operation
Detected(id) ==
    IF ~Exists(id) THEN "delete"
    ELSE IF entry.id # id THEN "create"
    ELSE IF entry.etag # Etag(id) \/ entry.own THEN "update" ELSE "none"
Reported(id) ==
    IF Etag(id) = token[id] \/ Detected(id) = "none" THEN << >>
    ELSE <<NewRow("remote", Detected(id), id, Etag(id))>>

\* What squash_changes_for_drive_item keeps of the rows rs of one id, done rows
\* being deleted before; cancelled and conflicted rows take part.
Kept(table_, rs) ==
    LET OfOp(op) == {r \in rs : table_[r].op = op}
        LastOf(s) == {r \in s : \A t \in s : t <= r}
    IN  IF OfOp("create") # {} /\ OfOp("delete") # {} THEN {}
        ELSE IF OfOp("create") # {} THEN LastOf(rs)
        ELSE OfOp("delete") \union LastOf(OfOp("update")) \union LastOf(OfOp("rename"))

Squashed(table_) ==
    LET Of(id) == {r \in DOMAIN table_ : table_[r].type = "local" /\ table_[r].id = id
                                           /\ table_[r].status \notin {"done", "gone"}}
        Open(id) == \E r \in Of(id) : table_[r].status \in {"new", "validated", "error"}
        Keep == UNION {IF Open(id) THEN Kept(table_, Of(id)) ELSE Of(id) : id \in Ids}
        Creates(r) == \E s \in Of(table_[r].id) : table_[s].op = "create"
    IN  [r \in DOMAIN table_ |->
            IF table_[r].status = "done" \/ (table_[r].type = "local" /\ r \notin Keep)
            THEN [table_[r] EXCEPT !.status = "gone"]
            ELSE IF table_[r].type = "local" /\ Open(table_[r].id) /\ Creates(r)
            THEN [table_[r] EXCEPT !.op = "create"] ELSE table_[r]]

Listed(table_) ==
    {[at |-> r, row |-> table_[r]] :
        r \in {r \in DOMAIN table_ : /\ table_[r].type = "remote"
                                    /\ table_[r].status \in {"new", "validated", "error"}}}

Start ==
    /\ pc = "idle"
    /\ token' = [id \in Ids |-> Etag(id)]
    /\ rows' = Squashed(rows \o Reported("old") \o Reported("new"))
    /\ todo' = Listed(rows')
    /\ pc' = "listed"
    /\ UNCHANGED <<onedrive, entry, disk, recent, queue, cur, item, answer, staged,
                   call, bounds, history>>

Returned(c) == [c EXCEPT !.pc = "returned", !.row = NoRow, !.transformed = FALSE]

EndCycle ==
    pc' = "idle" /\ todo' = {} /\ cur' = 0 /\ item' = NoRow /\ answer' = NoAnswer /\ staged' = 0

Crash ==
    /\ \E c \in Calls : call[c].pc \in AtWork
    /\ Fault
    /\ EndCycle
    /\ call' = [c \in Calls |-> IF call[c].pc \in AtWork THEN [Returned(call[c]) EXCEPT !.pc = "killed"]
                                ELSE call[c]]
    /\ unseen' = IF pc = "staged" THEN unseen \union {staged} ELSE unseen
    /\ UNCHANGED <<onedrive, token, table, known, shown, yielded, applied, late>>

-----------------------------------------------------------------------------
\* The remote rows, in the state in which they were listed.

\* detect_remote_conflicts against the first pending local row: `fetched` is
\* the ctag get_item_by_id returned, 0 when that request failed.
Compares(row, l) ==
    row.op = "update" /\ rows[l].op = "update" /\ entry.id = row.id /\ entry.ctag # 0
\* Mutant: content against content is no conflict.
RemoteConflict_NoContent(row, l, fetched) ==
    \/ row.op = "update" /\ rows[l].op = "delete"
    \/ row.op = "delete" /\ rows[l].op # "delete"
    \/ row.op = "create" /\ rows[l].op = "create"
RemoteConflict(row, l, fetched) ==
    \/ /\ Compares(row, l)
       /\ IF fetched = 0 THEN entry.etag # row.etag ELSE entry.ctag # fetched
    \/ row.op = "update" /\ rows[l].op = "delete"
    \/ row.op = "delete" /\ rows[l].op # "delete"
    \/ row.op = "create" /\ rows[l].op = "create"

\* get_conflicts
Conflicts(table_) == {r \in DOMAIN table_ : table_[r].status = "conflicted"}

Begin(r, row, next) ==
    /\ cur' = r /\ item' = row /\ pc' = next
    /\ SetStatus(r, IF next = "park" THEN "conflicted" ELSE "validated")
    /\ shown' = shown \union Conflicts(rows')

\* `unseen` gets the content the check compares with nothing.
CheckRemote ==
    /\ pc = "listed"
    /\ \E next \in todo :
          LET row == next.row
              locs == PendingOf(row.id, "local")
          IN  /\ \A other \in todo : next.at <= other.at
              /\ todo' = todo \ {next}
              /\ \E fetched \in {Top(row.id), 0} :
                    /\ IF fetched = Top(row.id) THEN UNCHANGED bounds
                       ELSE locs # {} /\ Compares(row, First(locs)) /\ Fault
                    /\ Begin(next.at, row,
                             IF locs # {} /\ RemoteConflict(row, First(locs), fetched)
                             THEN "park" ELSE "apply")
              /\ unseen' = IF locs # {} /\ (row.op = "create" \/ (row.op = "update" /\ entry.ctag = 0))
                           THEN unseen \union {log[row.id][row.etag]} ELSE unseen
    /\ UNCHANGED <<onedrive, token, entry, disk, queue, answer, staged, call,
                   known, yielded, applied, late>>

Back == pc' = (IF item.type = "remote" THEN "listed" ELSE "local") /\ cur' = 0 /\ item' = NoRow

\* update_validation_errors_by_id
Park ==
    /\ pc = "park"
    /\ rows' = IF rows[cur].status = "gone" THEN rows ELSE [rows EXCEPT ![cur].parked = TRUE]
    /\ Back
    /\ UNCHANGED <<onedrive, token, entry, disk, recent, queue, todo, answer,
                   staged, call, bounds, history>>

\* process_remote_item: create, update and rename store the row's item, without
\* a ctag, and queue the content when the etag is another one.
Apply ==
    /\ pc = "apply"
    /\ SetStatus(cur, "processing")
    /\ IF item.op = "delete"
       THEN /\ entry' = IF entry.id = item.id THEN [entry EXCEPT !.deleted = TRUE] ELSE entry
            /\ queue' = IF entry.id = item.id THEN queue \ {item.id} ELSE queue
            /\ UNCHANGED applied
       ELSE /\ entry.id = item.id
            /\ entry' = [id |-> item.id, etag |-> item.etag, ctag |-> 0, own |-> FALSE,
                         deleted |-> FALSE]
            /\ queue' = IF Synced /\ (item.op = "create" \/ entry.etag # item.etag)
                        THEN queue \union {item.id} ELSE queue
            /\ applied' = applied \union {log[item.id][item.etag]}
    /\ pc' = "closing"
    /\ UNCHANGED <<onedrive, token, disk, todo, cur, item, answer, staged, call, bounds,
                   known, shown, yielded, unseen, late>>

FinishRow ==
    /\ pc = "closing"
    /\ SetStatus(cur, "done")
    /\ Back
    /\ UNCHANGED <<onedrive, token, entry, disk, queue, todo, answer, staged,
                   call, bounds, history>>

-----------------------------------------------------------------------------
\* The local rows, selected one by one.

Selectable ==
    {r \in DOMAIN rows : /\ rows[r].type = "local" /\ rows[r].status \in Pending
                         /\ r \notin recent /\ ~rows[r].parked}

\* detect_local_conflicts against the first pending remote row
LocalConflict(row, r) ==
    \/ row.op = "create"
    \/ row.op = "update" /\ (rows[r].op = "delete" \/ rows[r].etag # row.etag)
    \/ row.op = "delete" /\ rows[r].etag # row.etag
    \/ row.op = "rename" /\ rows[r].op = "delete"

CheckLocal ==
    /\ (pc = "listed" /\ todo = {}) \/ pc = "local"
    /\ Selectable # {}
    /\ LET r == First(Selectable)
           rems == PendingOf(rows[r].id, "remote")
       IN  Begin(r, rows[r], IF rems # {} /\ LocalConflict(rows[r], First(rems))
                             THEN "park" ELSE "begun")
    /\ UNCHANGED <<onedrive, token, entry, disk, queue, todo, answer, staged, call, bounds,
                   known, yielded, applied, unseen, late>>

\* The error arm of process_all_items: the row may be tried again after 5 s.
RowError(r) == SetStatus(r, "error") /\ Back

Known == entry.id = item.id
Served == /\ item.op = "create" \/ Exists(item.id)
          /\ item.op = "rename" \/ Known
Unwraps == item.op \in {"create", "update"} /\ ~Known

\* unwrap() of an entry that has another id by now: the task of the cycle dies,
\* the row stays `processing`.
Panics ==
    /\ pc = "begun" /\ Unwraps
    /\ rows' = [rows EXCEPT ![cur].status = "processing"]
    /\ EndCycle
    /\ UNCHANGED <<onedrive, token, entry, disk, recent, queue, call, bounds, history>>

\* 404, or an entry that is gone.
Refused ==
    /\ pc = "begun" /\ ~Unwraps /\ ~Served
    /\ RowError(cur)
    /\ UNCHANGED <<onedrive, token, entry, disk, queue, todo, answer, staged, call, bounds, history>>

Append_(id, c) == log' = [log EXCEPT ![id] = Append(@, c)] /\ UNCHANGED remotes

\* handle_local_update: PUT by id; it will store the entry as it was before,
\* with the tags of the answer.  handle_local_rename stores the server's item,
\* handle_local_delete, which deletes by path, the item of the row.
Send ==
    /\ pc = "begun" /\ Served
    /\ \/ /\ item.op = "update"
          /\ Append_(item.id, disk)
          /\ answer' = [entry EXCEPT !.etag = Etag(item.id) + 1, !.ctag = disk, !.own = TRUE]
       \/ /\ item.op = "delete"
          /\ Append_(item.id, 0)
          /\ answer' = [id |-> item.id, etag |-> item.etag, ctag |-> 0, own |-> FALSE,
                        deleted |-> FALSE]
       \/ /\ item.op = "rename"
          /\ Append_(item.id, Top(item.id))
          /\ answer' = [id |-> item.id, etag |-> Etag(item.id) + 1, ctag |-> Top(item.id),
                        own |-> FALSE, deleted |-> FALSE]
    /\ SetStatus(cur, "processing")
    /\ pc' = "answered"
    /\ UNCHANGED <<token, entry, disk, queue, todo, cur, item, staged, call, bounds, history>>

StoreAnswer ==
    /\ pc = "answered"
    /\ entry' = IF entry.id = answer.id THEN answer ELSE entry
    /\ applied' = IF entry.id = answer.id /\ answer.etag # 0
                  THEN applied \union {log[answer.id][answer.etag]} ELSE applied
    /\ unseen' = IF item.op = "rename" THEN unseen \union {log[answer.id][answer.etag]} ELSE unseen
    /\ pc' = "closing" /\ answer' = NoAnswer
    /\ UNCHANGED <<onedrive, token, disk, rows, recent, queue, todo, cur, item,
                   staged, call, bounds, known, shown, yielded, late>>

\* handle_local_create: PUT by name; the new id replaces the one made here.  Its
\* log goes on where that of the old id ended, so that no etag is used twice.
SendNew ==
    /\ pc = "begun" /\ item.op = "create" /\ Served
    /\ log' = [log EXCEPT !["new"] = Append(IF Etag("new") = 0 THEN log["old"] ELSE @, disk)]
    /\ UNCHANGED remotes
    /\ entry' = [id |-> "new", etag |-> Len(log'["new"]), ctag |-> disk, own |-> FALSE,
                 deleted |-> FALSE]
    /\ rows' = [r \in DOMAIN rows |->
                  [rows[r] EXCEPT !.id = IF @ = item.id THEN "new" ELSE @,
                                  !.status = IF r = cur THEN "processing" ELSE @]]
    /\ applied' = applied \union {disk}
    /\ pc' = "closing"
    /\ UNCHANGED <<token, disk, recent, queue, todo, cur, item, answer, staged, call, bounds,
                   known, shown, yielded, unseen, late>>

-----------------------------------------------------------------------------
\* The downloads of the cycle.

\* Mutant: the downloads do not wait for the local rows.
Downloads_BeforeLocal ==
    /\ (pc = "listed" /\ todo = {}) \/ pc = "local"
    /\ pc' = IF queue # {} THEN "downloads" ELSE "idle"
    /\ UNCHANGED <<onedrive, token, table, todo, cur, item, answer, staged, call, bounds,
                   history>>
Downloads ==
    /\ (pc = "listed" /\ todo = {}) \/ pc = "local"
    /\ Selectable = {}
    /\ pc' = IF queue # {} THEN "downloads" ELSE "idle"
    /\ UNCHANGED <<onedrive, token, table, todo, cur, item, answer, staged, call, bounds,
                   history>>

\* The content the server has now; after a 404 the download is `failed`, which
\* no query selects again.
FetchContent ==
    /\ pc = "downloads"
    /\ \E id \in queue :
          /\ queue' = queue \ {id}
          /\ staged' = Top(id)
          /\ pc' = IF Exists(id) THEN "staged" ELSE IF queue' # {} THEN "downloads" ELSE "idle"
    /\ UNCHANGED <<onedrive, token, entry, disk, rows, recent, todo, cur, item, answer, call,
                   bounds, history>>

MoveToLocal ==
    /\ pc = "staged"
    /\ disk' = staged
    /\ pc' = (IF queue # {} THEN "downloads" ELSE "idle") /\ staged' = 0
    /\ UNCHANGED <<onedrive, token, entry, rows, recent, queue, todo, cur, item, answer,
                   call, bounds, history>>

-----------------------------------------------------------------------------
\* resolve_conflict: reads, cancels the loser, then queues the winner again,
\* transformed or as it is.

Opposite(type) == IF type = "local" THEN "remote" ELSE "local"

\* transform_operation_after_conflict_resolution
Transformed(choice, win, lose) ==
    IF choice = "KeepLocal" /\ win.op \in {"update", "rename"} /\ lose.op = "delete"
    THEN [win EXCEPT !.op = "create", !.id = "local"]
    ELSE IF choice = "UseRemote" /\ win.op = "update" /\ lose.op = "delete"
    THEN [win EXCEPT !.op = "create"]
    ELSE IF choice = "KeepLocal" /\ win.op = "create" /\ lose.op = "create"
    THEN [win EXCEPT !.op = "update"] ELSE win

\* The answer to what get_conflicts once showed.  One copy under a new id is
\* enough: no second is made.
Ask(c, r, choice) ==
    LET others == PendingOf(rows[r].id, Opposite(rows[r].type))
        local == IF rows[r].type = "local" THEN r ELSE First(others)
        remote == IF rows[r].type = "local" THEN First(others) ELSE r
        win == IF choice = "KeepLocal" THEN local ELSE remote
        lose == IF choice = "KeepLocal" THEN remote ELSE local
        row == Transformed(choice, rows[win], rows[lose])
    IN  /\ call[c].pc = "idle" /\ \A d \in Calls : d < c => call[d].pc \in AtWork
        /\ r \in shown /\ rows[r].status # "gone"
        /\ others # {}
        /\ row.id = "local" => entry.id = "old"
        /\ call' = [call EXCEPT ![c] = [pc |-> "cancel", win |-> win, lose |-> lose, row |-> row,
                                        transformed |-> row # rows[win]]]
        /\ yielded' = yielded \union
               (IF choice = "KeepLocal" THEN {log[rows[remote].id][rows[remote].etag]} ELSE {disk})
        /\ UNCHANGED <<onedrive, token, table, cycle, bounds, known, shown, applied, unseen, late>>

Cancel(c) ==
    /\ call[c].pc = "cancel"
    /\ SetStatus(call[c].lose, "cancelled")
    /\ call' = [call EXCEPT ![c].pc = "requeue"]
    /\ UNCHANGED <<onedrive, token, entry, disk, queue, cycle, bounds, history>>

\* update_processing_item of the transformed row, or update_status_by_id
\* Mutant: the winner keeps its status.
Requeue_KeepsStatus(c) ==
    /\ call[c].pc = "requeue"
    /\ call' = [call EXCEPT ![c] = Returned(@)]
    /\ UNCHANGED <<onedrive, token, table, cycle, bounds, history>>
Requeue(c) ==
    LET row == call[c].row
        win == call[c].win IN
    /\ call[c].pc = "requeue"
    /\ IF call[c].transformed /\ rows[win].status # "gone"
       THEN /\ rows' = [rows EXCEPT ![win] = [row EXCEPT !.status = "new", !.parked = FALSE]]
            /\ recent' = recent \union {win}
       ELSE SetStatus(win, "new")
    /\ call' = [call EXCEPT ![c] = IF row.id = "local" THEN [@ EXCEPT !.pc = "rename"]
                                   ELSE Returned(@)]
    /\ UNCHANGED <<onedrive, token, entry, disk, queue, cycle, bounds, history>>

\* update_onedrive_id of the entry; "crossed" when the cycle holds a row of the
\* old id, whose handler unwraps.
\* Mutant: the entry keeps the old id.
RenameEntry_Not(c) ==
    /\ call[c].pc = "rename"
    /\ call' = [call EXCEPT ![c] = Returned(@)]
    /\ UNCHANGED <<onedrive, token, table, cycle, bounds, history>>
RenameEntry(c) ==
    /\ call[c].pc = "rename"
    /\ entry' = [entry EXCEPT !.id = IF @ = "old" THEN "local" ELSE @]
    /\ call' = [call EXCEPT ![c] = IF pc = "begun" THEN [Returned(@) EXCEPT !.pc = "crossed"]
                                   ELSE Returned(@)]
    /\ UNCHANGED <<onedrive, token, disk, rows, recent, queue, cycle, bounds, history>>

Answer(c) == Cancel(c) \/ Requeue(c) \/ RenameEntry(c)

-----------------------------------------------------------------------------
User == Write \/ Unlink \/ Rename
Cycle == Start \/ CheckRemote \/ Park \/ Apply \/ FinishRow \/ CheckLocal \/ Panics \/ Refused
           \/ Send \/ StoreAnswer \/ SendNew \/ Downloads \/ FetchContent \/ MoveToLocal

Next ==
    \/ RemoteEdit \/ User \/ TimePasses \/ DayPasses \/ Cycle \/ Crash
    \/ \E c \in Calls : Answer(c) \/ \E r \in shown, choice \in Choices : Ask(c, r, choice)

\* Cycles are started and return; a call, once made, is carried out; time passes.
\* Nobody has to edit or to answer a conflict.
Fairness == WF_vars(Cycle) /\ SF_vars(TimePasses) /\ SF_vars(DayPasses)
              /\ WF_vars(\E c \in Calls : Answer(c))

Spec == Init /\ [][Next]_vars /\ Fairness

-----------------------------------------------------------------------------
\* Properties.

\* In conflict, and not the first of the pending rows, which alone is compared.
Hidden(id) == {log[id][rows[r].etag] : r \in {r \in PendingOf(id, "remote") :
                   \E s \in PendingOf(id, "remote") : s < r}}

\* The daemon replaces or deletes on OneDrive only a version whose content was
\* here when the user made the change, one the user gave up, one the delta had
\* not reported yet, or one that slipped in: before its download, by the answer
\* to a rename, behind another conflict, or when there was no ctag to compare.
UnseenKept ==
    [][remotes' = remotes =>
         \A id \in Ids :
            LET top == Top(id)
                new == log'[id][Len(log'[id])]
            IN  Exists(id) /\ log'[id] # log[id] /\ new # top =>
                    \/ top \in (IF new = 0 THEN Knows(disk) ELSE Knows(new))
                    \/ top \in yielded \union unseen \union Hidden(id)
                    \/ Etag(id) > token[id]]_log

\* A download replaces an edit that OneDrive never had only when the user gave
\* the edit up, wrote it while the download was at work, or its row waits and is not
\* selected, in conflict or for 5 s after an answer: no download waits for that one.
EditsKept ==
    [][disk # staged /\ disk' = staged /\ pc = "staged" =>
         \/ disk \in Knows(staged) \union yielded \union late
         \/ ~(PendingOf(entry.id, "local") \subseteq Selectable)]_disk

\* A conflict shown can be answered: while nobody has answered one, the row of
\* a remote change in conflict has a pending local row.  The echo of a change
\* made here may stay in conflict with nothing.
Answerable ==
    \A r \in DOMAIN rows :
        rows[r].type = "remote" /\ rows[r].status = "conflicted" =>
            \/ PendingOf(rows[r].id, "local") # {}
            \/ log[rows[r].id][rows[r].etag] \in applied
            \/ yielded # {}

\* Two answers to one conflict, however their statements interleave, never
\* leave both its sides cancelled.
OneSideKept ==
    LET Pair(c) == {call[c].win, call[c].lose} IN
    (\A c, d \in Calls : call[c].pc = "returned" /\ Pair(c) = Pair(d)) =>
        \A c \in Calls : \E r \in Pair(c) : rows[r].status # "cancelled"

\* The side chosen is carried out, unless another answer cancels it, it meets a
\* further conflict, or the file is gone from OneDrive; with no kill, and no
\* answer that crosses the handler of the same row.
ChoiceCarriedOut ==
    []<>(\A c \in Calls : call[c].pc = "returned" =>
            LET row == rows[call[c].win] IN
            \/ row.status \in {"done", "gone", "cancelled", "conflicted"}
            \/ row.id # "local" /\ ~Exists(row.id)
            \/ \E d \in Calls : call[d].pc \in {"crossed", "killed"})

=============================================================================
