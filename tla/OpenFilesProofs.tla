--------------------------- MODULE OpenFilesProofs ---------------------------
(***************************************************************************)
(* OpenFiles for every number of callers, writes, versions, handles and    *)
(* failures: types, that no write is dropped unseen, and that the local    *)
(* copy is the newest one when nothing is due.                             *)
(*                                                                         *)
(* None of the three is inductive.  Paths says which file a step at work   *)
(* will find; Seen, that an entry a request has read is not ahead of       *)
(* OneDrive, and is the newest only if the table is; Kept, that a write in *)
(* the content an upload has read is still in the file as well; Fresh,     *)
(* what the content at hand has to be when nothing newer is known.         *)
(***************************************************************************)
EXTENDS OpenFiles, SequenceTheorems, TLAPS

\* The path of a download never names the file of the local copy, a file in a
\* sync folder stays there, and what a step has stored stays.
Paths ==
    /\ downloads # 0 => downloads # local
    /\ synced => local # 0
    /\ cycle.pc \in {"saved", "completed"} => downloads # 0
    /\ \A c \in Callers : call[c].pc = "saving" => call[c].file # 0 /\ late

Seen ==
    /\ Len(server) >= 1
    /\ fuse.entry <= Len(server)
    /\ fuse.pc = "release" /\ fuse.entry = Len(server) => entry = Len(server)

\* Something will upload the write, or is about to ask for it.
Waiting(e) ==
    \/ rows > 0 \/ fuse.pc = "row" \/ cycle.pc = "upload"
    \/ cycle.pc = "read" /\ e \in cycle.of.edits

Kept ==
    \A e \in written \ (lost \union Uploaded) :
        local # 0 /\ e \in files[local].edits /\ Waiting(e)

Newest == server[Len(server)].base

Fresh ==
    /\ cycle.pc \in {"fetched", "saved"} => queue = "pending"
    /\ cycle.pc = "fetched" /\ entry = Len(server) => cycle.of.base = Newest
    /\ cycle.pc \in {"saved", "completed"} /\ entry = Len(server) /\ ~late
          => files[downloads].base = Newest
    /\ cycle.pc = "read" /\ ~late => local # 0 /\ files[local].base = cycle.of.base
    /\ FreshWhenQuiet

Inv == TypeOK /\ Paths /\ Seen

CallType == [pc : {"idle", "asked", "got", "saving"}, of : Content, file : 0..Len(files)]
Reset == [pc |-> "idle", of |-> Nothing, file |-> 0]

-----------------------------------------------------------------------------
\* Files, versions and calls.

\* An empty file is content.
LEMMA NothingIsContent == Nothing \in Content
  BY SizesAssumption DEF Nothing, Content

\* What is known of the files and the versions.
LEMMA FilesAtHand ==
    ASSUME TypeOK
    PROVE  /\ Len(files) \in Nat /\ DOMAIN files = 1..Len(files)
           /\ \A f \in 1..Len(files) : files[f] \in Content
           /\ local \in 0..Len(files) /\ downloads \in 0..Len(files)
           /\ Len(server) \in Nat /\ DOMAIN server = 1..Len(server)
           /\ \A v \in 1..Len(server) : server[v] \in Content
           /\ entry \in 0..Len(server) /\ nextId \in Nat /\ MaxVersion \in Nat
<1>1. files \in Seq(Content) /\ server \in Seq(Content)
  BY DEF TypeOK
<1>2. \A f \in 1..Len(files) : files[f] \in Content
  BY <1>1, ElementOfSeq
<1>3. \A v \in 1..Len(server) : server[v] \in Content
  BY <1>1, ElementOfSeq
<1> QED BY <1>1, <1>2, <1>3, LenProperties, SizesAssumption DEF TypeOK

\* A new file, or a new version.
LEMMA Appended ==
    ASSUME NEW s \in Seq(Content), NEW x \in Content, NEW t, t = Append(s, x)
    PROVE  /\ t \in Seq(Content) /\ Len(s) \in Nat /\ Len(t) = Len(s) + 1
           /\ DOMAIN s = 1..Len(s) /\ DOMAIN t = 1..Len(t)
           /\ \A k \in 1..Len(s) : t[k] = s[k]
           /\ t[Len(s) + 1] = x /\ t[Len(t)] = x
  BY AppendProperties, LenProperties

\* A file gets other content in place.
LEMMA Replaced ==
    ASSUME TypeOK, NEW f \in 1..Len(files), NEW x \in Content,
           files' = [files EXCEPT ![f] = x]
    PROVE  /\ files' \in Seq(Content) /\ Len(files') = Len(files)
           /\ DOMAIN files' = DOMAIN files
           /\ files'[f] = x
           /\ \A k \in 1..Len(files) : k # f => files'[k] = files[k]
<1>1. files \in Seq(Content) /\ DOMAIN files = 1..Len(files)
  BY FilesAtHand DEF TypeOK
<1>2. files' \in Seq(Content) /\ Len(files') = Len(files)
  BY <1>1, ExceptSeq
<1>3. DOMAIN files' = 1..Len(files')
  BY <1>2, LenProperties
<1> QED BY <1>1, <1>2, <1>3

\* What a call that saves or fails, and one that goes on, does to the calls.
LEMMA CallSets ==
    ASSUME TypeOK, NEW c \in Callers, NEW p \in {"idle", "asked", "got", "saving"},
           NEW x \in Content, NEW f \in 0..Len(files'), SetCall(c, p, x, f),
           Len(files') \in Nat, Len(files) <= Len(files')
    PROVE  /\ call' \in [Callers -> CallType']
           /\ call'[c].pc = p /\ call'[c].file = f
           /\ \A d \in Callers : d # c => call'[d] = call[d]
<1> DEFINE r == [pc |-> p, of |-> x, file |-> f]
<1>1. call \in [Callers -> CallType] /\ Len(files) \in Nat
  BY FilesAtHand DEF TypeOK, CallType
<1>2. r \in CallType' /\ r.pc = p /\ r.file = f
  BY DEF CallType
<1>3. CallType \subseteq CallType'
  BY <1>1 DEF CallType
<1>4. call' = [call EXCEPT ![c] = r]
  BY DEF SetCall
<1> HIDE DEF r
<1> QED BY <1>1, <1>2, <1>3, <1>4

\* More files leave the calls what they are.
LEMMA CallsStay ==
    ASSUME TypeOK, call' = call, Len(files') \in Nat, Len(files) <= Len(files')
    PROVE  call' \in [Callers -> CallType']
<1>1. call \in [Callers -> CallType] /\ Len(files) \in Nat
  BY FilesAtHand DEF TypeOK, CallType
<1>2. CallType \subseteq CallType'
  BY <1>1 DEF CallType
<1> QED BY <1>1, <1>2

\* A write adds to one file and leaves every base as it is.
LEMMA WriteSets ==
    ASSUME TypeOK, NEW h \in DOMAIN handles, NEW e \in Edits, Write(h, e)
    PROVE  /\ files' \in Seq(Content) /\ Len(files') = Len(files)
           /\ DOMAIN files' = DOMAIN files
           /\ e \in files'[handles[h]].edits
           /\ \A k \in 1..Len(files) : /\ files'[k].base = files[k].base
                                       /\ files[k].edits \subseteq files'[k].edits
<1> DEFINE f == handles[h]
           x == [files[f] EXCEPT !.edits = files[f].edits \union {e}]
<1>1. f \in 1..Len(files) /\ files[f] \in Content
  BY FilesAtHand DEF TypeOK
<1>2. files' = [files EXCEPT ![f] = x]
  BY DEF Write
<1>3. /\ x \in Content /\ x.base = files[f].base
      /\ e \in x.edits /\ files[f].edits \subseteq x.edits
  BY <1>1 DEF Content
<1> HIDE DEF x
<1> QED BY <1>1, <1>2, <1>3, Replaced

\* What is in a file and nowhere else are writes.
LEMMA UnsavedAreEdits ==
    ASSUME TypeOK, NEW f \in 0..Len(files)
    PROVE  Unsaved(f) \subseteq Edits
  BY FilesAtHand DEF Unsaved, Content

\* A version more: what was uploaded stays uploaded.
LEMMA VersionAdded ==
    ASSUME TypeOK, Seen, Len(server) < MaxVersion, NEW x \in Content,
           server' = Append(server, x)
    PROVE  /\ server' \in Seq(Content) /\ Len(server') = Len(server) + 1
           /\ Len(server') \in Nat /\ Len(server') <= MaxVersion
           /\ server'[Len(server')] = x
           /\ Uploaded' = Uploaded \union x.edits
<1>1. /\ server' \in Seq(Content) /\ Len(server) \in Nat /\ Len(server') = Len(server) + 1
      /\ DOMAIN server = 1..Len(server) /\ DOMAIN server' = 1..Len(server')
      /\ \A k \in 1..Len(server) : server'[k] = server[k]
      /\ server'[Len(server) + 1] = x
  BY Appended DEF TypeOK
<1>2. Uploaded' = Uploaded \union x.edits
  BY <1>1 DEF Uploaded
<1> QED BY <1>1, <1>2, SizesAssumption

-----------------------------------------------------------------------------
\* Types, paths and what has been seen.

\* At the start nothing is open and nothing is due.
LEMMA InitInv == Init => Inv
<1> SUFFICES ASSUME Init PROVE Inv
  OBVIOUS
<1> DEFINE x == [base |-> 1, edits |-> {}, whole |-> TRUE]
<1>1. x \in Content
  BY SizesAssumption DEF Content
<1>2. server = <<x>>
  BY DEF Init
<1> HIDE DEF x
<1>3. server \in Seq(Content) /\ Len(server) = 1
  BY <1>1, <1>2
<1>4. /\ files \in Seq(Content) /\ Len(files) \in Nat
      /\ local \in 0..Len(files) /\ downloads \in 0..Len(files)
      /\ synced => local # 0
  <2>1. CASE files = server /\ local = 1
    BY <1>3, <2>1 DEF Init
  <2>2. CASE ~synced /\ files = << >> /\ local = 0
    <3>1. << >> \in Seq(Content) /\ Len(<< >>) = 0
      BY EmptySeq
    <3> QED BY <2>2, <3>1 DEF Init
  <2> QED BY <2>1, <2>2 DEF Init
<1>5. DOMAIN handles = {}
  BY DEF Init
<1>6. call \in [Callers -> CallType] /\ \A c \in Callers : call[c].pc = "idle"
  BY <1>4, NothingIsContent DEF Init, CallType
<1>7. TypeOK
  <2>1. /\ synced \in BOOLEAN /\ Len(server) <= MaxVersion /\ entry \in 0..Len(server)
        /\ rows \in Nat /\ nextId \in 0..MaxHandles /\ faults \in 0..MaxFaults
        /\ queue \in {"none", "pending", "done", "failed"}
    BY <1>3, SizesAssumption DEF Init
  <2>2. fuse.pc = "idle" /\ fuse.entry = 0 /\ cycle.pc = "idle" /\ cycle.of \in Content
    BY NothingIsContent DEF Init, Idle
  <2>3. written \union lost \subseteq Edits
    BY DEF Init
  <2> QED BY <1>3, <1>4, <1>5, <1>6, <2>1, <2>2, <2>3, SizesAssumption DEF TypeOK, CallType
<1>8. Paths
  BY <1>4, <1>6 DEF Init, Paths, Idle
<1>9. Seen
  BY <1>3 DEF Init, Seen
<1> QED BY <1>7, <1>8, <1>9 DEF Inv

\* The type invariant after a step, from what the step does to each part.
LEMMA TypesFrom ==
    ASSUME TypeOK,
           server' \in Seq(Content), Len(server') <= MaxVersion, Len(server') \in Nat,
           entry' \in 0..Len(server'), rows' \in Nat, synced' = synced,
           files' \in Seq(Content), Len(files') \in Nat, Len(files) <= Len(files'),
           local' \in 0..Len(files'), downloads' \in 0..Len(files'),
           nextId' \in 0..MaxHandles, DOMAIN handles' \subseteq 1..nextId',
           \A h \in DOMAIN handles' : handles'[h] \in 1..Len(files'),
           fuse'.pc \in {"idle", "row", "release"}, fuse'.entry \in 0..MaxVersion,
           queue' \in {"none", "pending", "done", "failed"},
           cycle'.pc \in {"idle", "fetched", "saved", "completed", "upload", "read"},
           cycle'.of \in Content,
           call' \in [Callers -> CallType'],
           written' \union lost' \subseteq Edits, faults' \in 0..MaxFaults
    PROVE  TypeOK'
<1>1. DOMAIN files' = 1..Len(files')
  BY LenProperties
<1> QED BY <1>1 DEF TypeOK, CallType

\* The parts that a step leaves alone.
LEMMA Unchanged ==
    ASSUME TypeOK
    PROVE  /\ server \in Seq(Content) /\ Len(server) <= MaxVersion /\ Len(server) \in Nat
           /\ entry \in 0..Len(server) /\ rows \in Nat
           /\ files \in Seq(Content) /\ Len(files) \in Nat /\ Len(files) <= Len(files)
           /\ local \in 0..Len(files) /\ downloads \in 0..Len(files)
           /\ nextId \in 0..MaxHandles /\ DOMAIN handles \subseteq 1..nextId
           /\ \A h \in DOMAIN handles : handles[h] \in 1..Len(files)
           /\ fuse.pc \in {"idle", "row", "release"} /\ fuse.entry \in 0..MaxVersion
           /\ queue \in {"none", "pending", "done", "failed"}
           /\ cycle.pc \in {"idle", "fetched", "saved", "completed", "upload", "read"}
           /\ cycle.of \in Content
           /\ call \in [Callers -> CallType]
           /\ written \subseteq Edits /\ lost \subseteq Edits
           /\ written \union lost \subseteq Edits /\ faults \in 0..MaxFaults
           /\ MaxVersion \in Nat /\ MaxHandles \in Nat /\ MaxFaults \in Nat
  BY FilesAtHand, SizesAssumption DEF TypeOK, CallType

\* A failure is counted.
LEMMA FaultSets ==
    ASSUME TypeOK, Fault
    PROVE  faults' \in 0..MaxFaults
  BY SizesAssumption DEF Fault, TypeOK

\* Steps that touch neither files nor versions.
LEMMA Alone ==
    ASSUME Inv, UNCHANGED <<synced, server, disk, call, late>>,
           entry' \in 0..Len(server), rows' \in Nat,
           nextId' \in 0..MaxHandles, DOMAIN handles' \subseteq 1..nextId',
           \A h \in DOMAIN handles' : handles'[h] \in 1..Len(files),
           fuse'.pc \in {"idle", "row", "release"}, fuse'.entry \in 0..Len(server),
           fuse'.pc = "release" /\ fuse'.entry = Len(server) => entry' = Len(server),
           queue' \in {"none", "pending", "done", "failed"},
           cycle'.pc \in {"idle", "fetched", "saved", "completed", "upload", "read"},
           cycle'.pc \in {"saved", "completed"} => downloads # 0,
           cycle'.of \in Content,
           written' \union lost' \subseteq Edits, faults' \in 0..MaxFaults
    PROVE  Inv'
<1>1. UNCHANGED <<synced, server, files, local, downloads, call, late>>
  BY DEF disk
<1>2. fuse'.entry \in 0..MaxVersion
  BY Unchanged DEF Inv
<1>3. CallType' = CallType
  BY <1>1 DEF CallType
<1>4. TypeOK'
  BY <1>1, <1>2, <1>3, TypesFrom, Unchanged DEF Inv
<1>5. Paths'
  BY <1>1 DEF Inv, Paths
<1>6. Seen'
  BY <1>1, <1>2 DEF Inv, Seen
<1> QED BY <1>4, <1>5, <1>6 DEF Inv

\* The requests keep them.
LEMMA UserInv ==
    ASSUME Inv, User \/ FuseRow \/ ReleaseStore
    PROVE  Inv'
<1> USE DEF Inv
<1>1. CASE Open
  <2>1. /\ UNCHANGED <<synced, server, disk, fuse, tables, cycle, call, faults, written, lost, late>>
        /\ nextId' = nextId + 1 /\ nextId < MaxHandles /\ local # 0
        /\ handles' = [h \in DOMAIN handles \union {nextId'} |->
                          IF h = nextId' THEN local ELSE handles[h]]
    BY <1>1 DEF Open
  <2>2. nextId' \in 0..MaxHandles /\ DOMAIN handles' \subseteq 1..nextId'
    BY <2>1, Unchanged
  <2>3. \A h \in DOMAIN handles' : handles'[h] \in 1..Len(files)
    BY <2>1, Unchanged
  <2> QED BY <2>1, <2>2, <2>3, Alone, Unchanged DEF tables, Seen, Paths
<1>2. CASE SetTime
  <2>1. /\ UNCHANGED <<synced, server, disk, handles, nextId, tables, cycle, call, faults, written, lost, late>>
        /\ fuse'.pc = "row" /\ fuse'.entry = 0
    BY <1>2 DEF SetTime
  <2> QED BY <2>1, Alone, Unchanged DEF tables, Paths
<1>3. ASSUME NEW h \in DOMAIN handles, Release(h)
      PROVE  Inv'
  <2>1. /\ UNCHANGED <<synced, server, disk, nextId, tables, cycle, call, faults, written, lost, late>>
        /\ handles' = [k \in DOMAIN handles \ {h} |-> handles[k]]
        /\ fuse' = fuse \/ (fuse'.pc = "release" /\ fuse'.entry = entry)
    BY <1>3 DEF Release
  <2>2. /\ DOMAIN handles' \subseteq DOMAIN handles
        /\ \A k \in DOMAIN handles' : handles'[k] = handles[k]
    BY <2>1
  <2>3. /\ fuse'.pc \in {"idle", "row", "release"} /\ fuse'.entry \in 0..Len(server)
        /\ fuse'.pc = "release" /\ fuse'.entry = Len(server) => entry = Len(server)
    BY <2>1, Unchanged DEF Seen
  <2> QED BY <2>1, <2>2, <2>3, Alone, Unchanged DEF tables, Paths
<1>4. ASSUME NEW h \in DOMAIN handles, NEW e \in Edits, Write(h, e)
      PROVE  Inv'
  <2>1. /\ UNCHANGED <<synced, server, local, downloads, handles, nextId, tables, cycle, call, faults, late>>
        /\ written' = written \union {e} /\ lost' \subseteq lost \union {e}
        /\ fuse'.pc = "row" /\ fuse'.entry = 0
    BY <1>4 DEF Write
  <2>2. files' \in Seq(Content) /\ Len(files') = Len(files)
    BY <1>4, WriteSets
  <2>3. CallType' = CallType
    BY <2>2 DEF CallType
  <2>4. TypeOK'
    BY <2>1, <2>2, <2>3, TypesFrom, Unchanged DEF tables
  <2>5. Paths' /\ Seen'
    BY <2>1, Unchanged DEF Paths, Seen, tables
  <2> QED BY <2>4, <2>5
<1>5. CASE FuseRow
  <2>1. /\ UNCHANGED <<synced, server, disk, handles, nextId, entry, queue, cycle, call, written, late>>
        /\ fuse'.pc = "idle" /\ fuse'.entry = 0
        /\ \/ rows' = rows + 1 /\ UNCHANGED <<faults, lost>>
           \/ Fault /\ lost' = lost \union Unsaved(local) /\ UNCHANGED rows
    BY <1>5 DEF FuseRow
  <2>2. rows' \in Nat /\ faults' \in 0..MaxFaults /\ lost' \subseteq Edits
    BY <2>1, FaultSets, UnsavedAreEdits, Unchanged
  <2> QED BY <2>1, <2>2, Alone, Unchanged DEF Paths
<1>6. CASE ReleaseStore
  <2>1. /\ UNCHANGED <<synced, server, disk, handles, nextId, rows, queue, cycle, call, faults, written, lost, late>>
        /\ entry' = fuse.entry /\ fuse'.pc = "idle" /\ fuse'.entry = 0
    BY <1>6 DEF ReleaseStore
  <2>2. entry' \in 0..Len(server)
    BY <2>1, Unchanged DEF Seen
  <2> QED BY <2>1, <2>2, Alone, Unchanged DEF Paths
<1> QED BY <1>1, <1>2, <1>3, <1>4, <1>5, <1>6 DEF User

\* Another client, or the cycle, adds a version.
LEMMA ServerInv ==
    ASSUME Inv, Change \/ UploadSend
    PROVE  Inv'
<1> USE DEF Inv
<1>1. /\ UNCHANGED <<synced, disk, fusevars, rows, queue, call, faults, lost, late>>
      /\ Len(server) < MaxVersion
  BY DEF Change, UploadSend, tables
<1>2. UNCHANGED <<files, local, downloads, handles, nextId, fuse, written>>
  BY <1>1 DEF disk, fusevars
<1>3. CallType' = CallType
  BY <1>2 DEF CallType
<1>4. CASE Change
  <2> DEFINE x == [base |-> Len(server) + 1, edits |-> {}, whole |-> TRUE]
  <2>1. x \in Content
    BY <1>1, Unchanged DEF Content
  <2>2. server' = Append(server, x) /\ UNCHANGED <<entry, cycle>>
    BY <1>4 DEF Change, tables
  <2> HIDE DEF x
  <2>3. /\ server' \in Seq(Content) /\ Len(server') = Len(server) + 1
        /\ Len(server') \in Nat /\ Len(server') <= MaxVersion
    BY <1>1, <2>1, <2>2, VersionAdded
  <2>4. TypeOK'
    BY <1>1, <1>2, <1>3, <2>2, <2>3, TypesFrom, Unchanged
  <2>5. Paths' /\ Seen'
    BY <1>1, <1>2, <2>2, <2>3, Unchanged DEF Paths, Seen
  <2> QED BY <2>4, <2>5
<1>5. CASE UploadSend
  <2>1. server' = Append(server, cycle.of) /\ entry' = Len(server') /\ cycle' = Idle
    BY <1>5 DEF UploadSend
  <2>2. /\ server' \in Seq(Content) /\ Len(server') = Len(server) + 1
        /\ Len(server') \in Nat /\ Len(server') <= MaxVersion
    BY <1>1, <2>1, VersionAdded, Unchanged
  <2>3. cycle'.pc = "idle" /\ cycle'.of \in Content
    BY <2>1, NothingIsContent DEF Idle
  <2>4. TypeOK'
    BY <1>1, <1>2, <1>3, <2>1, <2>2, <2>3, TypesFrom, Unchanged
  <2>5. Paths' /\ Seen'
    BY <1>1, <1>2, <2>1, <2>2, <2>3, Unchanged DEF Paths, Seen
  <2> QED BY <2>4, <2>5
<1> QED BY <1>4, <1>5

\* The cycle keeps them.
LEMMA CycleInv ==
    ASSUME Inv, Cycle
    PROVE  Inv'
<1> USE DEF Inv
<1>1. CASE RemoteUpdate
  <2>1. /\ UNCHANGED <<synced, server, disk, fusevars, rows, cycle, call, faults, lost, late>>
        /\ queue' = (IF synced THEN "pending" ELSE queue) /\ entry' = Len(server)
    BY <1>1 DEF RemoteUpdate
  <2> QED BY <2>1, Alone, Unchanged DEF fusevars, Seen, Paths
<1>2. CASE Upload
  <2>1. /\ UNCHANGED <<synced, server, disk, fusevars, entry, queue, call, faults, lost, late>>
        /\ cycle'.pc = "upload" /\ cycle'.of = Nothing /\ rows > 0 /\ rows' = rows - 1
    BY <1>2 DEF Upload
  <2>2. rows' \in Nat
    BY <2>1, Unchanged
  <2> QED BY <2>1, <2>2, Alone, Unchanged, NothingIsContent DEF fusevars, Seen
<1>3. CASE UploadRead
  <2>1. /\ UNCHANGED <<synced, server, disk, fusevars, tables, call, faults, lost, late>>
        /\ cycle'.pc = "read" /\ cycle'.of = files[local] /\ local # 0
    BY <1>3 DEF UploadRead
  <2>2. cycle'.of \in Content
    BY <2>1, FilesAtHand
  <2> QED BY <2>1, <2>2, Alone, Unchanged DEF fusevars, tables, Seen
<1>4. CASE UploadSend
  BY <1>4, ServerInv
<1>5. CASE UploadFails
  <2>1. /\ UNCHANGED <<synced, server, disk, fusevars, entry, queue, call, lost, late>>
        /\ cycle'.pc = "idle" /\ cycle'.of = Nothing /\ rows' = rows + 1
        /\ faults' = faults \/ Fault
    BY <1>5 DEF UploadFails, Idle
  <2>2. rows' \in Nat /\ faults' \in 0..MaxFaults
    BY <2>1, Unchanged, FaultSets
  <2> QED BY <2>1, <2>2, Alone, Unchanged, NothingIsContent DEF fusevars, Seen
<1>6. CASE Fetch
  <2>1. /\ UNCHANGED <<synced, server, disk, fusevars, tables, call, faults, lost, late>>
        /\ cycle'.pc = "fetched" /\ cycle'.of = server[Len(server)]
    BY <1>6 DEF Fetch
  <2>2. cycle'.of \in Content
    BY <2>1, FilesAtHand DEF Seen
  <2> QED BY <2>1, <2>2, Alone, Unchanged DEF fusevars, tables, Seen
<1>7. CASE FetchFails
  <2>1. /\ UNCHANGED <<synced, server, disk, fusevars, entry, rows, call, lost>>
        /\ cycle'.pc = "idle" /\ cycle'.of = Nothing /\ queue' = "failed" /\ Fault /\ late'
    BY <1>7 DEF FetchFails, Idle
  <2>2. UNCHANGED <<files, local, downloads, handles, nextId, fuse, written>>
    BY <2>1 DEF disk, fusevars
  <2>3. CallType' = CallType
    BY <2>2 DEF CallType
  <2>4. TypeOK'
    BY <2>1, <2>2, <2>3, TypesFrom, Unchanged, FaultSets, NothingIsContent
  <2>5. Paths' /\ Seen'
    BY <2>1, <2>2 DEF Paths, Seen
  <2> QED BY <2>4, <2>5
<1>8. CASE SaveDownload
  <2>1. /\ UNCHANGED <<synced, server, local, fusevars, tables, call, faults, lost, late>>
        /\ cycle'.pc = "saved" /\ cycle'.of = Nothing
        /\ \/ downloads = 0 /\ files' = Append(files, cycle.of) /\ downloads' = Len(files')
           \/ downloads # 0 /\ files' = [files EXCEPT ![downloads] = cycle.of]
              /\ downloads' = downloads
    BY <1>8 DEF SaveDownload
  <2>2. UNCHANGED <<handles, nextId, fuse, written, entry, rows, queue>>
    BY <2>1 DEF fusevars, tables
  <2>3. /\ files' \in Seq(Content) /\ Len(files') \in Nat /\ Len(files) <= Len(files')
        /\ downloads' \in 1..Len(files') /\ downloads' # local
    <3>1. CASE downloads = 0
      <4>1. files' = Append(files, cycle.of) /\ downloads' = Len(files')
        BY <2>1, <3>1
      <4>2. files' \in Seq(Content) /\ Len(files') = Len(files) + 1
        BY <4>1, Appended, Unchanged
      <4> QED BY <4>1, <4>2, Unchanged
    <3>2. CASE downloads # 0
      <4>1. files' = [files EXCEPT ![downloads] = cycle.of] /\ downloads' = downloads
        BY <2>1, <3>2
      <4>2. downloads \in 1..Len(files)
        BY <3>2, Unchanged
      <4>3. files' \in Seq(Content) /\ Len(files') = Len(files)
        BY <4>1, <4>2, Replaced, Unchanged
      <4> QED BY <3>2, <4>1, <4>2, <4>3, Unchanged DEF Paths
    <3> QED BY <3>1, <3>2
  <2>4. call' \in [Callers -> CallType']
    BY <2>1, <2>3, CallsStay
  <2>5. TypeOK'
    BY <2>1, <2>2, <2>3, <2>4, TypesFrom, Unchanged, NothingIsContent
  <2>6. Paths' /\ Seen'
    BY <2>1, <2>2, <2>3 DEF Paths, Seen
  <2> QED BY <2>5, <2>6
<1>9. CASE Complete
  <2>1. /\ UNCHANGED <<synced, server, disk, fusevars, entry, rows, call, faults, lost, late>>
        /\ cycle.pc = "saved" /\ cycle'.pc = "completed" /\ cycle'.of = Nothing
        /\ queue' = "done"
    BY <1>9 DEF Complete
  <2> QED BY <2>1, Alone, Unchanged, NothingIsContent DEF fusevars, Paths, Seen
<1>10. CASE MoveToLocal
  <2>1. /\ UNCHANGED <<synced, server, files, fusevars, tables, call>>
        /\ cycle.pc = "completed" /\ cycle'.pc = "idle" /\ cycle'.of = Nothing
        /\ \/ /\ local' = downloads /\ downloads' = 0
              /\ lost' = lost \union Unsaved(local) /\ UNCHANGED <<faults, late>>
           \/ Fault /\ late' = TRUE /\ UNCHANGED <<local, downloads, lost>>
    BY <1>10 DEF MoveToLocal, Idle
  <2>2. UNCHANGED <<handles, nextId, fuse, written, entry, rows, queue>>
    BY <2>1 DEF fusevars, tables
  <2>3. lost' \subseteq Edits /\ faults' \in 0..MaxFaults
    BY <2>1, FaultSets, UnsavedAreEdits, Unchanged
  <2>4. CallType' = CallType
    BY <2>1 DEF CallType
  <2>5. local' \in 0..Len(files) /\ downloads' \in 0..Len(files)
    BY <2>1, Unchanged
  <2>6. TypeOK'
    BY <2>1, <2>2, <2>3, <2>4, <2>5, TypesFrom, Unchanged, NothingIsContent
  <2>7. Paths' /\ Seen'
    BY <2>1, <2>2 DEF Paths, Seen
  <2> QED BY <2>6, <2>7
<1> QED BY <1>1, <1>2, <1>3, <1>4, <1>5, <1>6, <1>7, <1>8, <1>9, <1>10 DEF Cycle

\* Steps of a call that leave the files alone.
LEMMA CallAlone ==
    ASSUME Inv, NEW c \in Callers, NEW p \in {"idle", "asked", "got"}, NEW x \in Content,
           SetCall(c, p, x, 0),
           UNCHANGED <<synced, server, disk, fusevars, tables, cycle, lost, late>>,
           faults' \in 0..MaxFaults
    PROVE  Inv'
<1> USE DEF Inv
<1>1. UNCHANGED <<files, local, downloads, handles, nextId, fuse, written, entry, rows, queue>>
  BY DEF disk, fusevars, tables
<1>2. /\ call' \in [Callers -> CallType']
      /\ call'[c].pc = p /\ \A d \in Callers : d # c => call'[d] = call[d]
  BY <1>1, CallSets, Unchanged
<1>3. TypeOK'
  BY <1>1, <1>2, TypesFrom, Unchanged
<1>4. Paths' /\ Seen'
  BY <1>1, <1>2 DEF Paths, Seen
<1> QED BY <1>3, <1>4

\* The calls keep them.
LEMMA CallInv ==
    ASSUME Inv, NEW c \in Callers, Call(c)
    PROVE  Inv'
<1> USE DEF Inv
<1>1. CASE Ask(c)
  BY <1>1, CallAlone, NothingIsContent, Unchanged DEF Ask
<1>2. CASE Get(c)
  <2>1. server[Len(server)] \in Content
    BY FilesAtHand DEF Seen
  <2> QED BY <1>2, <2>1, CallAlone, Unchanged DEF Get
<1>3. CASE CallFails(c)
  BY <1>3, CallAlone, NothingIsContent, FaultSets DEF CallFails
<1>4. CASE Truncate(c)
  <2>1. /\ UNCHANGED <<synced, server, downloads, fusevars, tables, cycle, faults>>
        /\ late' = TRUE /\ lost' = lost \union Unsaved(local)
        /\ \/ local = 0 /\ files' = Append(files, Nothing) /\ local' = Len(files')
           \/ local # 0 /\ files' = [files EXCEPT ![local] = Nothing] /\ local' = local
        /\ SetCall(c, "saving", call[c].of, local')
    BY <1>4 DEF Truncate
  <2>2. UNCHANGED <<handles, nextId, fuse, written, entry, rows, queue>>
    BY <2>1 DEF fusevars, tables
  <2>3. /\ files' \in Seq(Content) /\ Len(files') \in Nat /\ Len(files) <= Len(files')
        /\ local' \in 1..Len(files') /\ (downloads # 0 => downloads # local')
    <3>1. CASE local = 0
      <4>1. files' = Append(files, Nothing) /\ local' = Len(files')
        BY <2>1, <3>1
      <4>2. files' \in Seq(Content) /\ Len(files') = Len(files) + 1
        BY <4>1, Appended, Unchanged, NothingIsContent
      <4> QED BY <4>1, <4>2, Unchanged
    <3>2. CASE local # 0
      <4>1. files' = [files EXCEPT ![local] = Nothing] /\ local' = local
        BY <2>1, <3>2
      <4>2. local \in 1..Len(files)
        BY <3>2, Unchanged
      <4>3. files' \in Seq(Content) /\ Len(files') = Len(files)
        BY <4>1, <4>2, Replaced, NothingIsContent
      <4> QED BY <3>2, <4>1, <4>2, <4>3, Unchanged DEF Paths
    <3> QED BY <3>1, <3>2
  <2>4. call[c].of \in Content
    BY Unchanged DEF CallType
  <2>5. local' \in 0..Len(files')
    BY <2>3
  <2>6. /\ call' \in [Callers -> CallType'] /\ call'[c].file = local'
        /\ \A d \in Callers : d # c => call'[d] = call[d]
    BY <2>1, <2>3, <2>4, <2>5, CallSets
  <2>7. lost' \subseteq Edits
    BY <2>1, UnsavedAreEdits, Unchanged
  <2>8. downloads' \in 0..Len(files')
    BY <2>1, <2>3, Unchanged
  <2>9. TypeOK'
    BY <2>1, <2>2, <2>3, <2>5, <2>6, <2>7, <2>8, TypesFrom, Unchanged
  <2>10. Paths' /\ Seen'
    BY <2>1, <2>2, <2>3, <2>6 DEF Paths, Seen
  <2> QED BY <2>9, <2>10
<1>5. CASE Fill(c)
  <2>1. /\ UNCHANGED <<synced, server, local, downloads, fusevars, tables, cycle, faults, late>>
        /\ call[c].pc = "saving"
        /\ files' = [files EXCEPT ![call[c].file] = call[c].of]
        /\ lost' = lost \union Unsaved(call[c].file)
        /\ SetCall(c, "idle", Nothing, 0)
    BY <1>5 DEF Fill
  <2>2. UNCHANGED <<handles, nextId, fuse, written, entry, rows, queue>>
    BY <2>1 DEF fusevars, tables
  <2>3. call[c].file \in 1..Len(files) /\ call[c].of \in Content
    BY <2>1, Unchanged DEF CallType, Paths
  <2>4. files' \in Seq(Content) /\ Len(files') = Len(files)
    BY <2>1, <2>3, Replaced
  <2>5. /\ call' \in [Callers -> CallType'] /\ call'[c].pc = "idle"
        /\ \A d \in Callers : d # c => call'[d] = call[d]
    BY <2>1, <2>4, CallSets, Unchanged, NothingIsContent
  <2>6. lost' \subseteq Edits
    BY <2>1, <2>3, UnsavedAreEdits, Unchanged
  <2>7. TypeOK'
    BY <2>1, <2>2, <2>4, <2>5, <2>6, TypesFrom, Unchanged
  <2>8. Paths' /\ Seen'
    BY <2>1, <2>2, <2>5 DEF Paths, Seen
  <2> QED BY <2>7, <2>8
<1> QED BY <1>1, <1>2, <1>3, <1>4, <1>5 DEF Call

\* Every step of the file system and of the cycle keeps the types and the paths.
LEMMA NextInv == Inv /\ [Next]_vars => Inv'
<1> SUFFICES ASSUME Inv, [Next]_vars PROVE Inv'
  OBVIOUS
<1>1. CASE Crash
  <2>1. /\ UNCHANGED <<synced, server, disk, tables, nextId, written>>
        /\ Fault /\ handles' = << >> /\ fuse'.pc = "idle" /\ fuse'.entry = 0
        /\ cycle'.pc = "idle" /\ cycle'.of = Nothing
        /\ call' = [c \in Callers |-> Reset]
        /\ lost' \subseteq lost \union Unsaved(local)
    BY <1>1 DEF Crash, Idle, Reset
  <2>2. UNCHANGED <<files, local, downloads, entry, rows, queue>>
    BY <2>1 DEF disk, tables
  <2>3. Reset \in CallType' /\ Reset.pc = "idle"
    BY <2>2, Unchanged, NothingIsContent DEF CallType, Reset, Inv
  <2>4. call' \in [Callers -> CallType'] /\ \A c \in Callers : call'[c].pc = "idle"
    <3> HIDE DEF Reset
    <3> QED BY <2>1, <2>3
  <2>5. DOMAIN handles' = {}
    BY <2>1
  <2>6. faults' \in 0..MaxFaults /\ lost' \subseteq Edits
    BY <2>1, FaultSets, UnsavedAreEdits, Unchanged DEF Inv
  <2>7. TypeOK'
    BY <2>1, <2>2, <2>4, <2>5, <2>6, TypesFrom, Unchanged, NothingIsContent DEF Inv
  <2>8. Paths' /\ Seen'
    BY <2>1, <2>2, <2>4, Unchanged DEF Inv, Paths, Seen
  <2> QED BY <2>7, <2>8 DEF Inv
<1>2. CASE UNCHANGED vars
  BY <1>2 DEF vars, disk, fusevars, tables, Inv, TypeOK, Paths, Seen
<1> QED BY <1>1, <1>2, ServerInv, UserInv, CycleInv, CallInv DEF Next

\* Inv holds in every reachable state.
LEMMA Invariance == Spec => []Inv
  BY InitInv, NextInv, PTL DEF Spec

\* However requests, calls, the cycle and kills mix: handles are on files that
\* exist, paths name files, and the counters stay in their bounds.
THEOREM TypeCorrect == Spec => []TypeOK
<1>1. Inv => TypeOK
  BY DEF Inv
<1> QED BY <1>1, Invariance, PTL

-----------------------------------------------------------------------------
\* No write is dropped unseen.

\* A step at one of the windows: what was only in the local copy is recorded.
LEMMA LostSeen ==
    ASSUME Kept, UNCHANGED <<server, written>>, lost \union Unsaved(local) \subseteq lost'
    PROVE  Kept'
  BY DEF Kept, Unsaved, Uploaded

\* A step that leaves the writes in the local copy, and somebody to upload them.
LEMMA KeptStays ==
    ASSUME Kept, UNCHANGED <<server, written, local>>, lost \subseteq lost',
           local # 0 => files[local].edits \subseteq files'[local].edits,
           \A e \in written : local # 0 /\ e \in files[local].edits /\ Waiting(e)
                                 => Waiting(e)' \/ e \in lost'
    PROVE  Kept'
  BY DEF Kept, Uploaded

\* The requests.
LEMMA KeptUser ==
    ASSUME Inv, Kept, User \/ FuseRow \/ ReleaseStore
    PROVE  Kept'
<1>1. CASE Open \/ SetTime \/ ReleaseStore
  BY <1>1, KeptStays DEF Open, SetTime, ReleaseStore, Waiting, disk, tables
<1>2. ASSUME NEW h \in DOMAIN handles, Release(h)
      PROVE  Kept'
  BY <1>2, KeptStays DEF Release, Ready, Waiting, disk, tables
<1>3. ASSUME NEW h \in DOMAIN handles, NEW e \in Edits, Write(h, e)
      PROVE  Kept'
  <2>1. /\ UNCHANGED <<server, local>> /\ written' = written \union {e}
        /\ lost' = IF handles[h] = local THEN lost ELSE lost \union {e}
        /\ fuse'.pc = "row"
    BY <1>3 DEF Write
  <2>2. /\ e \in files'[handles[h]].edits
        /\ \A k \in 1..Len(files) : files[k].edits \subseteq files'[k].edits
    BY <1>3, WriteSets DEF Inv
  <2>3. handles[h] \in 1..Len(files) /\ local \in 0..Len(files)
    BY Unchanged DEF Inv
  <2>4. Uploaded' = Uploaded
    BY <2>1 DEF Uploaded
  <2> SUFFICES ASSUME NEW d \in written', d \notin lost', d \notin Uploaded
               PROVE  local # 0 /\ d \in files'[local].edits
    BY <2>1, <2>4 DEF Kept, Waiting
  <2>5. CASE d = e
    BY <2>1, <2>2, <2>3, <2>5
  <2>6. CASE d # e
    BY <2>1, <2>2, <2>3, <2>6, Unchanged DEF Kept, Inv
  <2> QED BY <2>5, <2>6
<1>4. CASE FuseRow
  <2>1. /\ UNCHANGED <<server, files, local, cycle, written>>
        /\ \/ rows' = rows + 1 /\ UNCHANGED lost
           \/ lost' = lost \union Unsaved(local)
    BY <1>4 DEF FuseRow, disk
  <2>2. CASE rows' = rows + 1 /\ UNCHANGED lost
    <3>1. rows' > 0
      BY <2>2, Unchanged DEF Inv
    <3> QED BY <2>1, <2>2, <3>1, KeptStays DEF Waiting
  <2> QED BY <2>1, <2>2, LostSeen
<1> QED BY <1>1, <1>2, <1>3, <1>4 DEF User

\* The cycle.
LEMMA KeptCycle ==
    ASSUME Inv, Kept, Cycle
    PROVE  Kept'
<1>1. CASE RemoteUpdate \/ Fetch \/ FetchFails \/ Complete
  BY <1>1, KeptStays DEF RemoteUpdate, Fetch, FetchFails, Complete, Idle, Waiting, disk,
                         fusevars, tables
<1>2. CASE Upload
  BY <1>2, KeptStays DEF Upload, Waiting, disk, fusevars
<1>3. CASE UploadRead
  BY <1>3, KeptStays DEF UploadRead, Waiting, disk, fusevars, tables
<1>4. CASE UploadSend
  <2>1. /\ UNCHANGED <<files, local, fuse, rows, lost, written>>
        /\ cycle.pc = "read" /\ server' = Append(server, cycle.of)
        /\ Len(server) < MaxVersion
    BY <1>4 DEF UploadSend, disk, fusevars
  <2>2. Uploaded' = Uploaded \union cycle.of.edits
    BY <2>1, VersionAdded, Unchanged DEF Inv
  <2> QED BY <2>1, <2>2 DEF Kept, Waiting
<1>5. CASE UploadFails
  <2>1. rows' > 0
    BY <1>5, Unchanged DEF UploadFails, Inv
  <2> QED BY <1>5, <2>1, KeptStays DEF UploadFails, Waiting, disk, fusevars
<1>6. CASE SaveDownload
  <2>1. /\ UNCHANGED <<server, local, fuse, written, rows, lost>>
        /\ cycle.pc = "fetched"
        /\ \/ downloads = 0 /\ files' = Append(files, cycle.of)
           \/ downloads # 0 /\ files' = [files EXCEPT ![downloads] = cycle.of]
    BY <1>6 DEF SaveDownload, fusevars, tables
  <2>2. local # 0 => files'[local] = files[local]
    <3>1. CASE downloads = 0
      BY <2>1, <3>1, Appended, Unchanged DEF Inv
    <3>2. CASE downloads # 0
      <4>1. downloads \in 1..Len(files) /\ downloads # local
        BY <3>2, Unchanged DEF Inv, Paths
      <4> QED BY <2>1, <3>2, <4>1, Replaced, Unchanged DEF Inv
    <3> QED BY <3>1, <3>2
  <2> QED BY <2>1, <2>2, KeptStays DEF Waiting
<1>7. CASE MoveToLocal
  <2>1. /\ UNCHANGED <<server, files, fuse, written, rows>>
        /\ cycle.pc = "completed"
        /\ \/ lost' = lost \union Unsaved(local)
           \/ UNCHANGED <<local, lost>>
    BY <1>7 DEF MoveToLocal, fusevars, tables
  <2>2. CASE UNCHANGED <<local, lost>>
    BY <2>1, <2>2, KeptStays DEF Waiting
  <2> QED BY <2>1, <2>2, LostSeen
<1> QED BY <1>1, <1>2, <1>3, <1>4, <1>5, <1>6, <1>7 DEF Cycle

\* The calls.
LEMMA KeptCall ==
    ASSUME Inv, Kept, NEW c \in Callers, Call(c)
    PROVE  Kept'
<1>1. CASE Ask(c) \/ Get(c) \/ CallFails(c)
  BY <1>1, KeptStays DEF Ask, Get, CallFails, Waiting, disk, fusevars, tables
<1>2. CASE Truncate(c)
  BY <1>2, LostSeen DEF Truncate, fusevars
<1>3. CASE Fill(c)
  <2>1. /\ UNCHANGED <<server, local, fuse, written, rows, cycle>>
        /\ call[c].pc = "saving"
        /\ files' = [files EXCEPT ![call[c].file] = call[c].of]
        /\ lost' = lost \union Unsaved(call[c].file)
    BY <1>3 DEF Fill, fusevars, tables
  <2>2. CASE call[c].file = local
    BY <2>1, <2>2, LostSeen
  <2>3. CASE call[c].file # local
    <3>1. call[c].file \in 1..Len(files) /\ call[c].of \in Content
      BY <2>1, Unchanged DEF CallType, Paths, Inv
    <3>2. local # 0 => files'[local] = files[local]
      BY <2>1, <2>3, <3>1, Replaced, Unchanged DEF Inv
    <3> QED BY <2>1, <3>2, KeptStays DEF Waiting
  <2> QED BY <2>2, <2>3
<1> QED BY <1>1, <1>2, <1>3 DEF Call

\* No step drops a write without recording the window it was lost in.
LEMMA KeptNext == Inv /\ Kept /\ [Next]_vars => Kept'
<1> SUFFICES ASSUME Inv, Kept, [Next]_vars PROVE Kept'
  OBVIOUS
<1>1. CASE Change
  <2> DEFINE x == [base |-> Len(server) + 1, edits |-> {}, whole |-> TRUE]
  <2>1. /\ UNCHANGED <<files, local, fuse, rows, lost, written, cycle>>
        /\ server' = Append(server, x) /\ Len(server) < MaxVersion
    BY <1>1 DEF Change, disk, fusevars, tables
  <2>2. x \in Content /\ x.edits = {}
    BY <2>1, Unchanged DEF Content, Inv
  <2> HIDE DEF x
  <2>3. Uploaded' = Uploaded
    BY <2>1, <2>2, VersionAdded DEF Inv
  <2> QED BY <2>1, <2>3 DEF Kept, Waiting
<1>2. CASE Crash
  <2>1. /\ UNCHANGED <<server, files, local, rows, written>>
        /\ lost' = IF fuse.pc = "row" \/ cycle.pc \in {"upload", "read"}
                   THEN lost \union Unsaved(local) ELSE lost
    BY <1>2 DEF Crash, disk, tables
  <2>2. CASE fuse.pc = "row" \/ cycle.pc \in {"upload", "read"}
    BY <2>1, <2>2, LostSeen
  <2>3. CASE ~(fuse.pc = "row" \/ cycle.pc \in {"upload", "read"})
    BY <2>1, <2>3, KeptStays DEF Waiting
  <2> QED BY <2>2, <2>3
<1>3. CASE UNCHANGED vars
  BY <1>3, KeptStays DEF vars, disk, fusevars, tables, Waiting
<1> QED BY <1>1, <1>2, <1>3, KeptUser, KeptCycle, KeptCall DEF Next

\* However requests, calls, the cycle, failures and kills mix: a write that the
\* user was told has succeeded is on OneDrive, or will be uploaded, or was lost in
\* one of the windows at which `lost` is set.
THEOREM NoWriteDropped == Spec => []WritesKept
<1>1. Init => Kept
  BY DEF Init, Kept
<1>2. Spec => []Kept
  BY <1>1, KeptNext, Invariance, PTL DEF Spec
<1>3. Kept => WritesKept
  BY DEF Kept, WritesKept, Waiting
<1> QED BY <1>2, <1>3, PTL

-----------------------------------------------------------------------------
\* The local copy is the newest one when nothing is due.

\* Steps that leave the versions, the local copy and the download as they are.
LEMMA FreshStays ==
    ASSUME Inv, Fresh, UNCHANGED <<synced, server, local, downloads>>,
           \A k \in 1..Len(files) : files'[k].base = files[k].base,
           entry' = Len(server) => entry = Len(server),
           cycle'.pc \in {"fetched", "saved", "completed", "read"}
              => cycle' = cycle \/ (cycle.pc = "saved" /\ cycle'.pc = "completed"),
           cycle'.pc \in {"fetched", "saved"} => queue' = "pending",
           queue' # "pending" => queue # "pending" \/ late' \/ cycle'.pc = "completed",
           cycle.pc = "completed" /\ cycle'.pc # "completed" => late',
           late => late'
    PROVE  Fresh'
<1>1. Newest' = Newest
  BY DEF Newest
<1>2. local \in 0..Len(files) /\ downloads \in 0..Len(files)
  BY Unchanged DEF Inv
<1>3. entry \in 0..Len(server) /\ synced => local # 0
  BY Unchanged DEF Inv, Paths
<1>4. /\ local # 0 => files'[local].base = files[local].base
      /\ downloads # 0 => files'[downloads].base = files[downloads].base
  BY <1>2
<1>5. cycle'.pc \in {"fetched", "saved"} => queue' = "pending"
  OBVIOUS
<1>6. cycle'.pc = "fetched" /\ entry' = Len(server) => cycle'.of.base = Newest
  BY DEF Fresh
<1>7. cycle'.pc \in {"saved", "completed"} /\ entry' = Len(server) /\ ~late'
         => files'[downloads].base = Newest
  BY <1>4 DEF Fresh, Inv, Paths
<1>8. cycle'.pc = "read" /\ ~late' => local # 0 /\ files'[local].base = cycle'.of.base
  BY <1>4 DEF Fresh
<1>9. ASSUME synced, entry' = Len(server), queue' # "pending", cycle'.pc # "completed", ~late'
      PROVE  files'[local].base = server[entry'].base
  BY <1>3, <1>4, <1>9 DEF Fresh, FreshWhenQuiet, Inv, Paths
<1> QED BY <1>1, <1>5, <1>6, <1>7, <1>8, <1>9 DEF Fresh, FreshWhenQuiet

\* Once a D-Bus call has written to the path nothing is claimed of it.
LEMMA FreshLate ==
    ASSUME Fresh, late', UNCHANGED <<server, entry, cycle, queue>>
    PROVE  Fresh'
<1>1. Newest' = Newest
  BY DEF Newest
<1> QED BY <1>1 DEF Fresh, FreshWhenQuiet

\* The requests.
LEMMA FreshUser ==
    ASSUME Inv, Fresh, User \/ FuseRow \/ ReleaseStore
    PROVE  Fresh'
<1> USE DEF Inv
<1>1. CASE Open \/ SetTime \/ FuseRow
  BY <1>1, FreshStays DEF Open, SetTime, FuseRow, disk, tables, Fresh
<1>2. ASSUME NEW h \in DOMAIN handles, Release(h)
      PROVE  Fresh'
  BY <1>2, FreshStays DEF Release, disk, tables, Fresh
<1>3. ASSUME NEW h \in DOMAIN handles, NEW e \in Edits, Write(h, e)
      PROVE  Fresh'
  <2>1. \A k \in 1..Len(files) : files'[k].base = files[k].base
    BY <1>3, WriteSets
  <2> QED BY <1>3, <2>1, FreshStays DEF Write, tables, Fresh
<1>4. CASE ReleaseStore
  <2>1. entry' = Len(server) => entry = Len(server)
    BY <1>4 DEF ReleaseStore, Seen
  <2> QED BY <1>4, <2>1, FreshStays DEF ReleaseStore, disk, Fresh
<1> QED BY <1>1, <1>2, <1>3, <1>4 DEF User

\* The cycle.
LEMMA FreshCycle ==
    ASSUME Inv, Fresh, Cycle
    PROVE  Fresh'
<1> USE DEF Inv
<1>1. CASE RemoteUpdate
  <2>1. /\ UNCHANGED <<synced, server, files, local, downloads, cycle, late>>
        /\ cycle.pc = "idle" /\ queue' = (IF synced THEN "pending" ELSE queue)
    BY <1>1 DEF RemoteUpdate, disk
  <2> QED BY <2>1 DEF Fresh, FreshWhenQuiet
<1>2. CASE Upload \/ UploadFails
  BY <1>2, FreshStays DEF Upload, UploadFails, Idle, disk, Fresh
<1>3. CASE UploadRead
  <2>1. /\ UNCHANGED <<synced, server, files, local, downloads, entry, queue, late>>
        /\ cycle.pc = "upload" /\ cycle'.pc = "read" /\ cycle'.of = files[local] /\ local # 0
    BY <1>3 DEF UploadRead, disk, tables
  <2> QED BY <2>1 DEF Fresh, FreshWhenQuiet
<1>4. CASE UploadSend
  <2>1. /\ UNCHANGED <<synced, files, local, downloads, queue, late>>
        /\ cycle.pc = "read" /\ cycle'.pc = "idle"
        /\ server' = Append(server, cycle.of) /\ entry' = Len(server')
        /\ Len(server) < MaxVersion
    BY <1>4 DEF UploadSend, Idle, disk
  <2>2. server'[Len(server')] = cycle.of
    BY <2>1, VersionAdded, Unchanged
  <2> QED BY <2>1, <2>2 DEF Fresh, FreshWhenQuiet
<1>5. CASE Fetch
  <2>1. /\ UNCHANGED <<synced, server, files, local, downloads, entry, queue, late>>
        /\ cycle.pc = "idle" /\ queue = "pending"
        /\ cycle'.pc = "fetched" /\ cycle'.of = server[Len(server)]
    BY <1>5 DEF Fetch, disk, tables
  <2> QED BY <2>1 DEF Fresh, FreshWhenQuiet, Newest
<1>6. CASE FetchFails
  BY <1>6, FreshStays DEF FetchFails, Idle, disk, Fresh
<1>7. CASE SaveDownload
  <2>1. /\ UNCHANGED <<synced, server, local, entry, queue, late>>
        /\ cycle.pc = "fetched" /\ cycle'.pc = "saved"
        /\ \/ downloads = 0 /\ files' = Append(files, cycle.of) /\ downloads' = Len(files')
           \/ downloads # 0 /\ files' = [files EXCEPT ![downloads] = cycle.of]
              /\ downloads' = downloads
    BY <1>7 DEF SaveDownload, tables
  <2>2. files'[downloads'] = cycle.of /\ (local # 0 => files'[local] = files[local])
    <3>1. CASE downloads = 0
      BY <2>1, <3>1, Appended, Unchanged
    <3>2. CASE downloads # 0
      <4>1. downloads \in 1..Len(files) /\ downloads # local
        BY <3>2, Unchanged DEF Paths
      <4> QED BY <2>1, <3>2, <4>1, Replaced, Unchanged
    <3> QED BY <3>1, <3>2
  <2>3. Newest' = Newest
    BY <2>1 DEF Newest
  <2> QED BY <2>1, <2>2, <2>3 DEF Fresh, FreshWhenQuiet, Paths
<1>8. CASE Complete
  BY <1>8, FreshStays DEF Complete, disk
<1>9. CASE MoveToLocal
  <2>1. /\ UNCHANGED <<synced, server, files, entry, queue>>
        /\ cycle.pc = "completed" /\ cycle'.pc = "idle"
        /\ \/ local' = downloads /\ downloads' = 0 /\ UNCHANGED late
           \/ late' /\ UNCHANGED <<local, downloads>>
    BY <1>9 DEF MoveToLocal, Idle, tables
  <2> QED BY <2>1 DEF Fresh, FreshWhenQuiet, Newest, Paths
<1> QED BY <1>1, <1>2, <1>3, <1>4, <1>5, <1>6, <1>7, <1>8, <1>9 DEF Cycle

\* The calls.
LEMMA FreshCall ==
    ASSUME Inv, Fresh, NEW c \in Callers, Call(c)
    PROVE  Fresh'
<1> USE DEF Inv
<1>1. CASE Ask(c) \/ Get(c) \/ CallFails(c)
  BY <1>1, FreshStays DEF Ask, Get, CallFails, disk, tables, Fresh
<1>2. CASE Truncate(c) \/ Fill(c)
  BY <1>2, FreshLate DEF Truncate, Fill, tables, Paths
<1> QED BY <1>1, <1>2 DEF Call

\* No step leaves an old copy with nothing due.
LEMMA FreshNext == Inv /\ Fresh /\ [Next]_vars => Fresh'
<1> SUFFICES ASSUME Inv, Fresh, [Next]_vars PROVE Fresh'
  OBVIOUS
<1>1. CASE Change
  <2> DEFINE x == [base |-> Len(server) + 1, edits |-> {}, whole |-> TRUE]
  <2>1. /\ UNCHANGED <<files, local, downloads, entry, cycle, queue, late>>
        /\ server' = Append(server, x) /\ Len(server) < MaxVersion
    BY <1>1 DEF Change, disk, tables
  <2>2. x \in Content
    BY <2>1, Unchanged DEF Content, Inv
  <2> HIDE DEF x
  <2>3. entry' # Len(server')
    BY <2>1, <2>2, VersionAdded, Unchanged DEF Inv
  <2> QED BY <2>1, <2>3 DEF Fresh, FreshWhenQuiet
<1>2. CASE Crash
  <2>1. /\ UNCHANGED <<synced, server, files, local, downloads, entry, queue>>
        /\ cycle'.pc = "idle" /\ late' = (late \/ cycle.pc = "completed")
    BY <1>2 DEF Crash, Idle, disk, tables
  <2> QED BY <2>1, FreshStays
<1>3. CASE UNCHANGED vars
  BY <1>3, FreshStays DEF vars, disk, tables, Fresh
<1> QED BY <1>1, <1>2, <1>3, FreshUser, FreshCycle, FreshCall DEF Next

\* However requests, calls, the cycle, failures and kills mix: in a sync folder
\* the local copy has the newest content once nothing is due, unless a download
\* went wrong or a D-Bus call wrote to the path.
THEOREM QuietIsFresh == Spec => []FreshWhenQuiet
<1>1. Init => Fresh
  <2> SUFFICES ASSUME Init PROVE Fresh
    OBVIOUS
  <2>1. cycle.pc = "idle" /\ entry = 1
    BY DEF Init, Idle
  <2>2. synced => files = server /\ local = 1
    BY DEF Init
  <2> QED BY <2>1, <2>2 DEF Fresh, FreshWhenQuiet
<1>2. Spec => []Fresh
  BY <1>1, FreshNext, Invariance, PTL DEF Spec
<1>3. Fresh => FreshWhenQuiet
  BY DEF Fresh
<1> QED BY <1>2, <1>3, PTL

=============================================================================
