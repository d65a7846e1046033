----------------------------- MODULE OpenFiles ------------------------------
(***************************************************************************)
(* The content of one file on disk: the handles FUSE gives out for it      *)
(* (daemon/src/fuse/operations.rs, file_handles.rs), the download queue    *)
(* that moves a newer content over it (tasks/delta_update.rs,              *)
(* file_manager.rs), ensure_local_by_ino of the D-Bus interface, which     *)
(* writes it in place (dbus_server/server.rs), and the upload that reads   *)
(* it (sync/sync_processor.rs).                                            *)
(*                                                                         *)
(* A path and the file at it are two things: files[f] is a content on      *)
(* disk, `local` and `downloads` say which file local/<ino> and            *)
(* downloads/<ino> name, and a handle stays on its file when a rename      *)
(* gives the path another one.  FUSE answers one request at a time, the    *)
(* cycle does one thing at a time; D-Bus calls run beside both.            *)
(*                                                                         *)
(* Left to other modules: conflicts of both sides (TwoWaySync), names and  *)
(* temporary ids (LocalChanges).  Handles 0 and 1 are never given out.     *)
(***************************************************************************)
EXTENDS Integers, Sequences, FiniteSets

CONSTANTS
    Callers,        \* D-Bus calls under way at one time
    Edits,          \* what the user writes, one write each
    MaxVersion,     \* bound: versions on OneDrive
    MaxHandles,     \* bound: handles ever given out
    MaxFaults       \* bound: requests, renames and statements that fail, and kills

ASSUME SizesAssumption ==
    /\ MaxVersion \in Nat \ {0} /\ MaxHandles \in Nat /\ MaxFaults \in Nat

VARIABLES
    synced,         \* the file is in a sync folder
    server,         \* versions of the content on OneDrive
    entry,          \* the version the entry has the etag of, 0 for none
    files, local, downloads,
    handles,        \* FileHandleManager: number to file
    nextId,
    fuse,           \* the FUSE request at work, and the entry it has read
    rows,           \* Update rows that wait
    queue,          \* download_queue: "none", "pending", "done", "failed"
    cycle,          \* the cycle: step, content at hand
    call,           \* each ensure_local_by_ino: step, content, file
    faults,
    written,        \* history: writes the user was told have succeeded
    lost,           \* history: writes overwritten or dropped in a named window
    late            \* history: the local copy was saved by a D-Bus call that
                    \* overlapped with something else, or its download went wrong

disk == <<files, local, downloads>>
fusevars == <<handles, nextId, fuse, written>>
tables == <<entry, rows, queue>>
vars == <<synced, server, disk, fusevars, tables, cycle, call, faults, lost, late>>

Content == [base : 0..MaxVersion, edits : SUBSET Edits, whole : BOOLEAN]
Nothing == [base |-> 0, edits |-> {}, whole |-> FALSE]
Idle == [pc |-> "idle", of |-> Nothing]

TypeOK ==
    /\ synced \in BOOLEAN
    /\ server \in Seq(Content) /\ Len(server) <= MaxVersion
    /\ entry \in 0..Len(server) /\ rows \in Nat
    /\ files \in Seq(Content) /\ {local, downloads} \subseteq 0..Len(files)
    /\ nextId \in 0..MaxHandles /\ DOMAIN handles \subseteq 1..nextId
    /\ \A h \in DOMAIN handles : handles[h] \in DOMAIN files
    /\ fuse.pc \in {"idle", "row", "release"} /\ fuse.entry \in 0..MaxVersion
    /\ queue \in {"none", "pending", "done", "failed"}
    /\ cycle.pc \in {"idle", "fetched", "saved", "completed", "upload", "read"}
    /\ cycle.of \in Content
    /\ call \in [Callers -> [pc : {"idle", "asked", "got", "saving"}, of : Content,
                             file : 0..Len(files)]]
    /\ written \union lost \subseteq Edits /\ faults \in 0..MaxFaults

\* A file that was downloaded, or one that is on OneDrive only.
Init ==
    /\ synced \in BOOLEAN
    /\ server = <<[base |-> 1, edits |-> {}, whole |-> TRUE]>> /\ entry = 1
    /\ \/ files = server /\ local = 1
       \/ ~synced /\ files = << >> /\ local = 0
    /\ downloads = 0
    /\ handles = << >> /\ nextId = 0 /\ fuse = [pc |-> "idle", entry |-> 0]
    /\ rows = 0 /\ queue = "none" /\ cycle = Idle
    /\ call = [c \in Callers |-> [pc |-> "idle", of |-> Nothing, file |-> 0]]
    /\ faults = 0 /\ written = {} /\ lost = {} /\ late = FALSE

Fault == faults < MaxFaults /\ faults' = faults + 1
Uploaded == UNION {server[v].edits : v \in DOMAIN server}
\* Writes that are in a file and nowhere else.
Unsaved(f) == IF f = 0 THEN {} ELSE files[f].edits \ Uploaded

-----------------------------------------------------------------------------
\* Other clients.

Change ==
    /\ Len(server) < MaxVersion
    /\ server' = Append(server, [base |-> Len(server) + 1, edits |-> {}, whole |-> TRUE])
    /\ UNCHANGED <<synced, disk, fusevars, tables, cycle, call, faults, lost, late>>

-----------------------------------------------------------------------------
\* FUSE.

Ready == fuse.pc = "idle"

\* Mutant: the number is not counted.
Open_NotCounted ==
    /\ Ready /\ local # 0 /\ nextId < MaxHandles
    /\ handles' = [h \in DOMAIN handles \union {nextId + 1} |->
                      IF h = nextId + 1 THEN local ELSE handles[h]]
    /\ UNCHANGED <<synced, server, disk, nextId, fuse, tables, cycle, call, faults, written, lost, late>>

\* register_file.  The file opened is the one the path names now.
Open ==
    /\ Ready /\ local # 0 /\ nextId < MaxHandles
    /\ nextId' = nextId + 1
    /\ handles' = [h \in DOMAIN handles \union {nextId'} |->
                      IF h = nextId' THEN local ELSE handles[h]]
    /\ UNCHANGED <<synced, server, disk, fuse, tables, cycle, call, faults, written, lost, late>>

\* Mutant: only direct writes leave a row.
Write_NoRow(h, e) ==
    /\ Ready /\ h \in DOMAIN handles /\ e \notin written
    /\ files' = [files EXCEPT ![handles[h]].edits = @ \union {e}]
    /\ written' = written \union {e}
    /\ lost' = IF handles[h] = local THEN lost ELSE lost \union {e}
    /\ UNCHANGED <<synced, server, local, downloads, handles, nextId, fuse, tables, cycle,
                   call, faults, late>>

\* write_with_handle, and then the row.  A file that the path no longer names is
\* read by nobody after its handles are closed.
Write(h, e) ==
    /\ Ready /\ h \in DOMAIN handles /\ e \notin written
    /\ files' = [files EXCEPT ![handles[h]].edits = @ \union {e}]
    /\ written' = written \union {e}
    /\ lost' = IF handles[h] = local THEN lost ELSE lost \union {e}
    /\ fuse' = [pc |-> "row", entry |-> 0]
    /\ UNCHANGED <<synced, server, local, downloads, handles, nextId, tables, cycle, call,
                   faults, late>>

\* setattr with a time: the entry is marked, and a row is stored whether the file
\* is there or not.
SetTime ==
    /\ Ready
    /\ rows = 0     \* bound: one row that carries nothing
    /\ fuse' = [pc |-> "row", entry |-> 0]
    /\ UNCHANGED <<synced, server, disk, handles, nextId, tables, cycle, call, faults, written,
                   lost, late>>

\* create_processing_item; a failure is only logged.
FuseRow ==
    /\ fuse.pc = "row"
    /\ fuse' = [pc |-> "idle", entry |-> 0]
    /\ \/ rows' = rows + 1 /\ UNCHANGED <<faults, lost>>
       \/ Fault /\ lost' = lost \union Unsaved(local) /\ UNCHANGED rows
    /\ UNCHANGED <<synced, server, disk, handles, nextId, entry, queue, cycle, call, written,
                   late>>

\* release reads the entry, looks at the file, ...
Release(h) ==
    /\ Ready /\ h \in DOMAIN handles
    /\ handles' = [k \in DOMAIN handles \ {h} |-> handles[k]]
    /\ fuse' = IF local = 0 THEN fuse ELSE [pc |-> "release", entry |-> entry]
    /\ UNCHANGED <<synced, server, disk, nextId, tables, cycle, call, faults, written, lost,
                   late>>

\* ... and stores all columns of the entry again.
ReleaseStore ==
    /\ fuse.pc = "release"
    /\ entry' = fuse.entry
    /\ fuse' = [pc |-> "idle", entry |-> 0]
    /\ UNCHANGED <<synced, server, disk, handles, nextId, rows, queue, cycle, call, faults,
                   written, lost, late>>

-----------------------------------------------------------------------------
\* The cycle: remote rows, ...

EtagChanged == entry # Len(server)

\* Mutant: the entry is compared after it was stored.
RemoteUpdate_StoresFirst ==
    /\ cycle.pc = "idle" /\ EtagChanged
    /\ entry' = Len(server)
    /\ queue' = IF synced /\ entry' # Len(server) THEN "pending" ELSE queue
    /\ UNCHANGED <<synced, server, disk, fusevars, rows, cycle, call, faults, lost, late>>

\* handle_remote_update.  Outside the sync folders the local copy, if there is
\* one, stays as it is.
RemoteUpdate ==
    /\ cycle.pc = "idle" /\ EtagChanged
    /\ queue' = IF synced THEN "pending" ELSE queue
    /\ entry' = Len(server)
    /\ UNCHANGED <<synced, server, disk, fusevars, rows, cycle, call, faults, lost, late>>

\* ... local rows: handle_local_update reads the file, ...
Upload ==
    /\ cycle.pc = "idle" /\ rows > 0
    /\ cycle' = [pc |-> "upload", of |-> Nothing] /\ rows' = rows - 1
    /\ UNCHANGED <<synced, server, disk, fusevars, entry, queue, call, faults, lost, late>>

UploadRead ==
    /\ cycle.pc = "upload" /\ local # 0
    /\ cycle' = [pc |-> "read", of |-> files[local]]
    /\ UNCHANGED <<synced, server, disk, fusevars, tables, call, faults, lost, late>>

\* ... sends what it has read, and stores the answer.
UploadSend ==
    /\ cycle.pc = "read" /\ Len(server) < MaxVersion
    /\ server' = Append(server, cycle.of)
    /\ entry' = Len(server')
    /\ cycle' = Idle
    /\ UNCHANGED <<synced, disk, fusevars, rows, queue, call, faults, lost, late>>

\* The row is tried again.  A row of a file that is not there fails each time.
UploadFails ==
    /\ \/ cycle.pc = "upload" /\ local = 0 /\ UNCHANGED faults
       \/ cycle.pc = "read" /\ Len(server) = MaxVersion /\ UNCHANGED faults
       \/ cycle.pc \in {"upload", "read"} /\ Fault
    /\ cycle' = Idle /\ rows' = rows + 1
    /\ UNCHANGED <<synced, server, disk, fusevars, entry, queue, call, lost, late>>

\* ... and the download queue: the content is fetched, ...
Fetch ==
    /\ cycle.pc = "idle" /\ queue = "pending"
    /\ cycle' = [pc |-> "fetched", of |-> server[Len(server)]]
    /\ UNCHANGED <<synced, server, disk, fusevars, tables, call, faults, lost, late>>

FetchFails ==
    /\ cycle.pc \in {"idle", "fetched"} /\ queue = "pending" /\ Fault
    /\ queue' = "failed" /\ cycle' = Idle /\ late' = TRUE
    /\ UNCHANGED <<synced, server, disk, fusevars, entry, rows, call, lost>>

\* ... written to downloads/<ino>, ...
SaveDownload ==
    /\ cycle.pc = "fetched"
    /\ IF downloads = 0
       THEN files' = Append(files, cycle.of) /\ downloads' = Len(files')
       ELSE files' = [files EXCEPT ![downloads] = cycle.of] /\ UNCHANGED downloads
    /\ cycle' = [pc |-> "saved", of |-> Nothing]
    /\ UNCHANGED <<synced, server, local, fusevars, tables, call, faults, lost, late>>

\* ... the row is completed, ...
Complete ==
    /\ cycle.pc = "saved"
    /\ queue' = "done" /\ cycle' = [pc |-> "completed", of |-> Nothing]
    /\ UNCHANGED <<synced, server, disk, fusevars, entry, rows, call, faults, lost, late>>

\* ... and the file is given the path local/<ino>, whoever has the old one open.
MoveToLocal ==
    /\ cycle.pc = "completed"
    /\ cycle' = Idle
    /\ \/ /\ local' = downloads /\ downloads' = 0
          /\ lost' = lost \union Unsaved(local) /\ UNCHANGED <<faults, late>>
       \/ Fault /\ late' = TRUE /\ UNCHANGED <<local, downloads, lost>>
    /\ UNCHANGED <<synced, server, files, fusevars, tables, call>>

-----------------------------------------------------------------------------
\* ensure_local_by_ino.

SetCall(c, pc, of, f) == call' = [call EXCEPT ![c] = [pc |-> pc, of |-> of, file |-> f]]

\* With a file at the path, whatever is in it, the call returns at once.
Ask(c) ==
    /\ call[c].pc = "idle" /\ local = 0
    /\ SetCall(c, "asked", Nothing, 0)
    /\ UNCHANGED <<synced, server, disk, fusevars, tables, cycle, faults, lost, late>>

Get(c) ==
    /\ call[c].pc = "asked"
    /\ SetCall(c, "got", server[Len(server)], 0)
    /\ UNCHANGED <<synced, server, disk, fusevars, tables, cycle, faults, lost, late>>

\* save_downloaded_file_r: fs::write empties the file there is, or makes one, ...
Truncate(c) ==
    /\ call[c].pc = "got"
    /\ late' = TRUE
    /\ lost' = lost \union Unsaved(local)
    /\ IF local = 0
       THEN files' = Append(files, Nothing) /\ local' = Len(files')
       ELSE files' = [files EXCEPT ![local] = Nothing] /\ UNCHANGED local
    /\ SetCall(c, "saving", call[c].of, local')
    /\ UNCHANGED <<synced, server, downloads, fusevars, tables, cycle, faults>>

\* ... and writes into it from the start.
Fill(c) ==
    /\ call[c].pc = "saving"
    /\ files' = [files EXCEPT ![call[c].file] = call[c].of]
    /\ lost' = lost \union Unsaved(call[c].file)
    /\ SetCall(c, "idle", Nothing, 0)
    /\ UNCHANGED <<synced, server, local, downloads, fusevars, tables, cycle, faults, late>>

CallFails(c) ==
    /\ call[c].pc # "idle" /\ Fault
    /\ SetCall(c, "idle", Nothing, 0)
    /\ UNCHANGED <<synced, server, disk, fusevars, tables, cycle, lost, late>>

\* A kill: handles are gone, a row in work stays `processing`, files stay.
Crash ==
    /\ Fault
    /\ handles' = << >> /\ fuse' = [pc |-> "idle", entry |-> 0]
    /\ cycle' = Idle
    /\ call' = [c \in Callers |-> [pc |-> "idle", of |-> Nothing, file |-> 0]]
    /\ lost' = IF fuse.pc = "row" \/ cycle.pc \in {"upload", "read"}
               THEN lost \union Unsaved(local) ELSE lost
    /\ late' = (late \/ cycle.pc = "completed")
    /\ UNCHANGED <<synced, server, disk, tables, nextId, written>>

-----------------------------------------------------------------------------
User == Open \/ SetTime \/ \E h \in DOMAIN handles : Release(h) \/ \E e \in Edits : Write(h, e)
Cycle ==
    \/ RemoteUpdate \/ Upload \/ UploadRead \/ UploadSend \/ UploadFails
    \/ Fetch \/ FetchFails \/ SaveDownload \/ Complete \/ MoveToLocal
Call(c) == Ask(c) \/ Get(c) \/ Truncate(c) \/ Fill(c) \/ CallFails(c)

Next == Change \/ User \/ FuseRow \/ ReleaseStore \/ Cycle \/ (\E c \in Callers : Call(c)) \/ Crash

Spec == Init /\ [][Next]_vars

-----------------------------------------------------------------------------
\* Properties.

\* A write the user was told has succeeded is never silently dropped: it was
\* uploaded, or it is in the file an upload would read and a row to upload it
\* waits or is at work and has yet to read, unless the file was replaced, or the
\* row lost, in one of the windows at which `lost` is set.
WritesKept ==
    \A e \in written :
        \/ e \in lost \union Uploaded
        \/ cycle.pc = "read" /\ e \in cycle.of.edits
        \/ /\ local # 0 /\ e \in files[local].edits
           /\ rows > 0 \/ fuse.pc = "row" \/ cycle.pc = "upload"

\* In a sync folder, once the table has OneDrive's newest version and no download
\* is due, local/<ino> has its content or writes made upon it, unless a download
\* failed for good, or ensure_local_by_ino wrote an answer it had got before.
FreshWhenQuiet ==
    synced /\ entry = Len(server) /\ queue # "pending" /\ cycle.pc # "completed" /\ ~late
        => files[local].base = server[entry].base

=============================================================================
