------------------------------ MODULE Settings ------------------------------
(***************************************************************************)
(* The sync folders and the pause: settings.json (lib/src/config.rs), its  *)
(* copy in the daemon's memory behind a RwLock, the D-Bus calls that       *)
(* change them (daemon/src/dbus_server/server.rs), the sync cycle that     *)
(* obeys them, and the file handler, a second process of the same program  *)
(* that the desktop starts to open a file (handle_file_path of main.rs).   *)
(*                                                                         *)
(* A call reads the folders, saves the new ones to the file without the    *)
(* lock, takes the lock, changes the memory, and queues the folder's files *)
(* for download.  One file stands for a folder's files.                    *)
(*                                                                         *)
(* External: the clients of D-Bus, the desktop, other OneDrive clients.    *)
(* How a download can go wrong is the subject of DeltaSync and OpenFiles.  *)
(***************************************************************************)
EXTENDS Integers, FiniteSets

CONSTANTS
    Folders,        \* folders with a file each
    Calls,          \* D-Bus calls under way at one time
    MaxEvents,      \* bound: calls, files opened, and changes of other clients
    MaxFaults       \* bound: writes, statements and downloads that fail, kills

ASSUME SizesAssumption == MaxEvents \in Nat /\ MaxFaults \in Nat

Handler == "handler"
Nobody == "nobody"
Actors == Calls \union {Handler}

ASSUME ActorsDiffer == Handler \notin Calls /\ Nobody \notin Calls

VARIABLES
    up,             \* the daemon runs
    mem,            \* config().settings of the daemon
    lock,           \* the call that holds its write guard
    file,           \* settings.json
    actor,          \* the step of each call and of the file handler
    cycle,          \* the step of the sync cycle, and the folder of its item
    news,           \* folders whose file has a version the table lacks
    entry,          \* folders whose file is in drive_items_with_fuse
    copy,           \* the local copy of the file
    queue,          \* download_queue: folders whose file has a pending row
    events, faults,
    wish,           \* history: the settings after the calls that took effect
    overlap,        \* history: calls were saving at the same time
    cut,            \* history: the file was lost or left behind in a named window
    missed          \* history: files whose row was lost in a named window

disk == <<file, entry, copy, queue>>
history == <<wish, overlap, cut, missed>>
vars == <<up, mem, lock, disk, actor, cycle, news, events, faults, history>>

Value == [folders : SUBSET Folders, paused : BOOLEAN]
Default == [folders |-> {}, paused |-> FALSE]
Op == {"add", "remove", "toggle", "default"}
Idle == [pc |-> "idle", op |-> "default", arg |-> {}, val |-> Default]
NoItem == [pc |-> "idle", item |-> {}]
Unreadable == [state |-> "empty", val |-> Default]
Whole(v) == [state |-> "whole", val |-> v]
Content == [state : {"whole", "empty"}, val : Value]
Step == [pc : {"idle", "save", "write", "lock", "query", "queue", "open"},
         op : Op, arg : SUBSET Folders, val : Value]
Item == [pc : {"idle", "run", "decide", "queue"}, item : SUBSET Folders]

Types ==
    /\ up \in BOOLEAN /\ mem \in Value
    /\ lock \in Calls \union {Nobody}
    /\ file \in Content /\ actor \in [Actors -> Step] /\ cycle \in Item
    /\ news \subseteq Folders /\ entry \subseteq Folders /\ queue \subseteq Folders
    /\ copy \in [Folders -> {"none", "old", "new"}]
    /\ events \in 0..MaxEvents /\ faults \in 0..MaxFaults
    /\ wish \in Value /\ overlap \in BOOLEAN /\ cut \in BOOLEAN /\ missed \subseteq Folders
LockHeld == lock # Nobody => \/ actor[lock].pc \in {"query", "queue"}
                             \/ actor[lock].pc \in {"save", "write"} /\ actor[lock].op = "toggle"
AtRest == ~up => mem = Default /\ lock = Nobody /\ cycle = NoItem /\ \A c \in Calls : actor[c] = Idle
TypeOK == Types /\ LockHeld /\ AtRest

Init ==
    /\ up = FALSE /\ mem = Default /\ lock = Nobody
    /\ file = Whole(Default)
    /\ actor = [a \in Actors |-> Idle] /\ cycle = NoItem
    /\ news = {} /\ entry = {} /\ copy = [f \in Folders |-> "none"] /\ queue = {}
    /\ events = 0 /\ faults = 0
    /\ wish = Default /\ overlap = FALSE /\ cut = FALSE /\ missed = {}

Event == events < MaxEvents /\ events' = events + 1
Fault == faults < MaxFaults /\ faults' = faults + 1
Go(a, pc) == actor' = [actor EXCEPT ![a].pc = pc]
Stop(a) == actor' = [actor EXCEPT ![a] = Idle]

\* What a call makes of settings, and how both lists of them change.
Apply(op, f, v) ==
    [folders |-> IF op = "add" THEN v.folders \union f
                 ELSE IF op = "remove" THEN v.folders \ f ELSE v.folders,
     paused |-> IF op = "toggle" THEN ~v.paused ELSE v.paused]

-----------------------------------------------------------------------------
\* ProjectConfig::new: at the start of the daemon and of the file handler.

\* Settings that cannot be read are replaced by the defaults; folders that come
\* back with an older list have no rows for what was stored without them.
Start ==
    /\ ~up /\ up' = TRUE
    /\ mem' = file.val
    /\ file' = Whole(file.val)
    /\ cut' = (cut \/ overlap \/ file.state # "whole")
    /\ missed' = missed \union (mem'.folders \ wish.folders)
    /\ UNCHANGED <<lock, entry, copy, queue, actor, cycle, news, events, faults,
                   wish, overlap>>

HandlerStart(f) ==
    /\ actor[Handler].pc = "idle" /\ Event
    /\ actor' = [actor EXCEPT ![Handler] =
                    [pc |-> IF file.state = "whole" THEN "open" ELSE "save",
                     op |-> "default", arg |-> {f}, val |-> Default]]
    /\ cut' = (cut \/ file.state # "whole")
    /\ UNCHANGED <<up, mem, lock, disk, cycle, news, faults, wish, overlap, missed>>

\* handle_virtual_file: the item is looked up by its path and queued.
HandlerQueue ==
    /\ actor[Handler].pc = "open"
    /\ queue' = queue \union (actor[Handler].arg \intersect entry)
    /\ Stop(Handler)
    /\ UNCHANGED <<up, mem, lock, file, entry, copy, cycle, news, events, faults, history>>

-----------------------------------------------------------------------------
\* The calls.

Begin(c, op, f) ==
    /\ up /\ lock = Nobody /\ actor[c].pc = "idle" /\ Event
    /\ actor' = [actor EXCEPT ![c] = [pc |-> "save", op |-> op, arg |-> f,
                                      val |-> Apply(op, f, mem)]]
    /\ overlap' = (overlap \/ \E d \in Calls : actor[d].pc # "idle")
    /\ UNCHANGED <<up, disk, cycle, news, faults, wish, cut, missed>>

\* add_sync_folder and remove_sync_folder work on a copy.
Add(c, f) == f \notin mem.folders /\ Begin(c, "add", {f}) /\ UNCHANGED <<mem, lock>>
Remove(c, f) == f \in mem.folders /\ Begin(c, "remove", {f}) /\ UNCHANGED <<mem, lock>>

\* toggle_sync_pause changes the memory first, and holds the lock to its end.
Toggle(c) == Begin(c, "toggle", {}) /\ mem' = Apply("toggle", {}, mem) /\ lock' = c

\* save_to_file: fs::write empties the file ...
SaveOpen(a) ==
    /\ actor[a].pc = "save"
    /\ file' = Unreadable
    /\ Go(a, "write")
    /\ UNCHANGED <<up, mem, lock, entry, copy, queue, cycle, news, events, faults, history>>

\* ... and writes, over what another call has written since; the end of a longer
\* text stays, and what is there is no JSON.
SaveWrite(a) ==
    /\ actor[a].pc = "write"
    /\ \/ file' = Whole(actor[a].val)
       \/ file.state = "whole" /\ file.val # actor[a].val /\ file' = Unreadable
    /\ IF actor[a].op = "toggle"
       THEN Stop(a) /\ lock' = Nobody /\ wish' = Apply("toggle", {}, wish)
       ELSE Go(a, IF a = Handler THEN "open" ELSE "lock") /\ UNCHANGED <<lock, wish>>
    /\ UNCHANGED <<up, mem, entry, copy, queue, cycle, news, events, faults,
                   overlap, cut, missed>>

\* Mutant: the lock stays with a toggle that fails.
SaveFails_KeepsLock(a) ==
    /\ actor[a].pc \in {"save", "write"} /\ Fault
    /\ Stop(a)
    /\ cut' = (cut \/ actor[a].pc = "write" \/ actor[a].op = "toggle")
    /\ UNCHANGED <<up, mem, lock, disk, cycle, news, events, wish, overlap, missed>>

\* The call returns; the memory keeps what a toggle has made of it.
SaveFails(a) ==
    /\ actor[a].pc \in {"save", "write"} /\ Fault
    /\ Stop(a)
    /\ lock' = IF lock = a THEN Nobody ELSE lock
    /\ cut' = (cut \/ actor[a].pc = "write" \/ actor[a].op = "toggle")
    /\ UNCHANGED <<up, mem, disk, cycle, news, events, wish, overlap, missed>>

\* Mutant: the memory becomes the copy the call has saved.
Lock_Copy(c) ==
    /\ actor[c].pc = "lock" /\ lock = Nobody
    /\ lock' = c
    /\ mem' = actor[c].val
    /\ wish' = Apply(actor[c].op, actor[c].arg, wish)
    /\ Go(c, "query")
    /\ UNCHANGED <<up, disk, cycle, news, events, faults, overlap, cut, missed>>

Lock(c) ==
    /\ actor[c].pc = "lock" /\ lock = Nobody
    /\ lock' = c
    /\ mem' = Apply(actor[c].op, actor[c].arg, mem)
    /\ wish' = Apply(actor[c].op, actor[c].arg, wish)
    /\ Go(c, "query")
    /\ UNCHANGED <<up, disk, cycle, news, events, faults, overlap, cut, missed>>

\* Mutant: files with a local copy are left out.
Query_SkipsLocal(c) ==
    /\ actor[c].pc = "query"
    /\ actor' = [actor EXCEPT ![c].pc = "queue",
                              ![c].arg = {f \in @ \intersect entry :
                                             actor[c].op = "add" /\ copy[f] = "none"}]
    /\ UNCHANGED <<up, mem, lock, disk, cycle, news, events, faults, history>>

\* get_files_by_virtual_path_prefix.  remove_sync_folder deletes nothing: the
\* path it makes of each file, downloads/<id>, is not where files are.
Query(c) ==
    /\ actor[c].pc = "query"
    /\ actor' = [actor EXCEPT ![c].pc = "queue",
                              ![c].arg = {f \in @ \intersect entry : actor[c].op = "add"}]
    /\ UNCHANGED <<up, mem, lock, disk, cycle, news, events, faults, history>>

QueueFiles(c) ==
    /\ actor[c].pc = "queue"
    /\ queue' = queue \union actor[c].arg
    /\ Stop(c) /\ lock' = Nobody
    /\ UNCHANGED <<up, mem, file, entry, copy, cycle, news, events, faults, history>>

\* A query or a row that fails is logged, and the call succeeds.
QueueFails(c) ==
    /\ actor[c].pc \in {"query", "queue"} /\ Fault
    /\ missed' = IF actor[c].op = "add" THEN missed \union actor[c].arg ELSE missed
    /\ Stop(c) /\ lock' = Nobody
    /\ UNCHANGED <<up, mem, disk, cycle, news, events, wish, overlap, cut>>

-----------------------------------------------------------------------------
\* The sync cycle.

CycleStart ==
    /\ up /\ cycle = NoItem /\ lock = Nobody
    /\ ~mem.paused
    /\ cycle' = [pc |-> "run", item |-> {}]
    /\ UNCHANGED <<up, mem, lock, disk, actor, news, events, faults, history>>

CycleEnd ==
    /\ cycle.pc = "run"
    /\ cycle' = NoItem
    /\ UNCHANGED <<up, mem, lock, disk, actor, news, events, faults, history>>

\* handle_remote_create and handle_remote_update store the entry, ...
StoreItem(f) ==
    /\ cycle.pc = "run" /\ f \in news
    /\ news' = news \ {f} /\ entry' = entry \union {f}
    /\ copy' = [copy EXCEPT ![f] = IF @ = "none" THEN "none" ELSE "old"]
    /\ cycle' = [pc |-> "decide", item |-> {f}]
    /\ UNCHANGED <<up, mem, lock, file, queue, actor, events, faults, history>>

\* ... ask should_download, which waits for the lock, ...
Decide ==
    /\ cycle.pc = "decide" /\ lock = Nobody
    /\ cycle' = IF cycle.item \subseteq mem.folders THEN [cycle EXCEPT !.pc = "queue"]
                ELSE [pc |-> "run", item |-> {}]
    /\ UNCHANGED <<up, mem, lock, disk, actor, news, events, faults, history>>

\* ... and queue the file.
QueueItem ==
    /\ cycle.pc = "queue"
    /\ \/ queue' = queue \union cycle.item /\ UNCHANGED <<faults, missed>>
       \/ Fault /\ missed' = missed \union cycle.item /\ UNCHANGED queue
    /\ cycle' = [pc |-> "run", item |-> {}]
    /\ UNCHANGED <<up, mem, lock, file, entry, copy, actor, news, events, wish, overlap, cut>>

\* process_download_queue: a row that fails is not tried again.
Download(f) ==
    /\ cycle.pc = "run" /\ f \in queue
    /\ queue' = queue \ {f}
    /\ \/ /\ copy' = [copy EXCEPT ![f] = "new"] /\ missed' = missed \ {f}
          /\ UNCHANGED faults
       \/ /\ Fault /\ missed' = missed \union {f} /\ UNCHANGED copy
    /\ UNCHANGED <<up, mem, lock, file, entry, actor, cycle, news, events, wish, overlap, cut>>

-----------------------------------------------------------------------------
\* The rest of the world.

RemoteChange(f) ==
    /\ f \notin news /\ Event
    /\ news' = news \union {f}
    /\ UNCHANGED <<up, mem, lock, disk, actor, cycle, faults, history>>

\* The daemon is killed; a file handler goes on.  A call between its save and the
\* lock has taken effect on the file.
Kill ==
    /\ up /\ Fault
    /\ up' = FALSE /\ mem' = Default /\ lock' = Nobody /\ cycle' = NoItem
    /\ actor' = [a \in Actors |-> IF a = Handler THEN actor[a] ELSE Idle]
    /\ LET saved == {c \in Calls : actor[c].pc = "lock"}
       IN  IF saved = {} THEN wish' = wish
           ELSE \E c \in saved : wish' = Apply(actor[c].op, actor[c].arg, wish)
    /\ cut' = (cut \/ \E c \in Calls : actor[c].pc = "write")
    /\ missed' = missed \union cycle.item \union
           UNION {actor[c].arg : c \in {d \in Calls : /\ actor[d].op = "add"
                                                      /\ actor[d].pc \in {"lock", "query", "queue"}}}
    /\ UNCHANGED <<disk, news, events, overlap>>

Call(c) ==
    \/ \E f \in Folders : Add(c, f) \/ Remove(c, f)
    \/ Toggle(c) \/ Lock(c) \/ Query(c) \/ QueueFiles(c) \/ QueueFails(c)
Cycle ==
    \/ CycleStart \/ CycleEnd \/ Decide \/ QueueItem
    \/ \E f \in Folders : StoreItem(f) \/ Download(f)

Next ==
    \/ Start \/ Kill \/ HandlerQueue \/ Cycle
    \/ \E c \in Calls : Call(c)
    \/ \E a \in Actors : SaveOpen(a) \/ SaveWrite(a) \/ SaveFails(a)
    \/ \E f \in Folders : HandlerStart(f) \/ RemoteChange(f)

Spec == Init /\ [][Next]_vars

-----------------------------------------------------------------------------
\* Properties.

Quiet == \A a \in Actors : actor[a].pc \in {"idle", "open"}

\* What the user has chosen by calls that took effect is what the daemon obeys
\* (add_sync_folder, remove_sync_folder, toggle_sync_pause), even if the calls
\* overlap, and what it starts with the next time if they do not; unless a write
\* failed, was cut by a kill, or was met by a reader, who writes the defaults.
ChoicesKept ==
    Quiet /\ ~cut =>
        /\ up => mem = wish
        /\ ~overlap => file = Whole(wish)

\* Every file of a sync folder is there in its newest version the table knows, or
\* queued, whichever comes first of the folder's call and the cycle's item
\* (add_sync_folder, handle_remote_create, handle_remote_update), unless its row
\* failed or a kill cut the queueing.
FolderComplete ==
    \A f \in (mem.folders \intersect entry) \ missed :
        \/ copy[f] = "new" \/ f \in queue \/ f \in cycle.item
        \/ \E c \in Calls : actor[c].op = "add" /\ f \in actor[c].arg

=============================================================================
