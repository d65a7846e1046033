------------------------- MODULE LocalChangesProofs -------------------------
(***************************************************************************)
(* LocalChanges for every set of names and folders and every bound: types, *)
(* that no file is overwritten with another one's content or deleted       *)
(* against the user's will, that no edit is forgotten, and, while nothing  *)
(* fails, that no file is made twice.                                      *)
(*                                                                         *)
(* None of these is inductive.  The ids in the table, the rows, the        *)
(* request and the cycle name files that exist (Sound ...), though they    *)
(* are replaced one table at a time.  Where no name is used again and no   *)
(* file strayed, all that carries a place and an id agree on the file      *)
(* (Placed); a file without a row that would send its content then has a   *)
(* copy with that content (Carrying).  A file has a row that creates it or *)
(* a copy, not both (Single).                                              *)
(***************************************************************************)
EXTENDS LocalChanges, SequenceTheorems, WellFoundedInduction, TLAPS

Handling == {"begun", "entries", "rows", "get", "answered", "stored", "closing"}
Answering == {"entries", "rows", "get", "answered", "stored"}
Asking == {"select", "update", "insert", "reread", "row", "mark"}

\* The id of a file: an index in server, or minus an inode.
IsId(id, files, inodes) == id \in files \/ (id \in Int /\ id < 0 /\ -id \in inodes)
Sound(id) == IsId(id, DOMAIN server, DOMAIN want)

SoundFiles == \A s \in DOMAIN server : server[s].owner \in DOMAIN want
SoundEntries == \A i \in DOMAIN db : Sound(db[i].id)
SoundRows == \A r \in DOMAIN rows : Sound(rows[r].id)
SoundRequest ==
    /\ fuse.pc \in Asking => Sound(fuse.entry.id)
    /\ fuse.pc \notin Asking => fuse.rows = << >>
    /\ fuse.pc \in {"reread", "row", "mark"} => fuse.rows # << >>
    /\ \A k \in DOMAIN fuse.rows : Sound(fuse.rows[k].id)
SoundCycle ==
    /\ pc \in Handling => cur \in DOMAIN rows /\ Sound(item.id)
    /\ pc \notin Handling => cur = 0
    /\ pc \in Answering => Sound(answer.id)
    /\ pc \in {"entries", "rows", "get"} => answer.id \in DOMAIN server

Inv ==
    /\ TypeOK
    /\ SoundFiles /\ SoundEntries /\ SoundRows /\ SoundRequest /\ SoundCycle

\* The user gave the place p to the file of that id.
Been(id, p) == p \in want[FileOf(id)].been

PlacedFiles ==
    /\ \A i, j \in DOMAIN want : i # j => want[i].been \cap want[j].been = {}
    /\ \A s \in DOMAIN server : /\ server[s].at \in want[server[s].owner].been
                                /\ server[s].by = server[s].owner
PlacedEntries ==
    \A i \in DOMAIN db : /\ Been(db[i].id, db[i].at) /\ Been(db[i].id, db[i].path)
                         /\ disk[i] # 0 => FileOf(db[i].id) = i
PlacedRows == \A r \in DOMAIN rows : Been(rows[r].id, rows[r].at)
PlacedRequest ==
    /\ fuse.pc \in Asking => /\ Been(fuse.entry.id, fuse.entry.at)
                             /\ Been(fuse.entry.id, fuse.entry.path)
    /\ \A k \in DOMAIN fuse.rows : Been(fuse.rows[k].id, fuse.rows[k].at)
PlacedCycle ==
    /\ pc \in Handling => Been(item.id, item.at)
    /\ pc \in Answering => /\ FileOf(answer.id) = FileOf(item.id)
                           /\ Been(answer.id, answer.at) /\ Been(answer.id, answer.path)
Placed == PlacedFiles /\ PlacedEntries /\ PlacedRows /\ PlacedRequest /\ PlacedCycle

\* A row of the file, of those that send content; rows that wait, and those a
\* request has still to insert.
Sends(row, i) == FileOf(row.id) = i /\ row.op \in {"create", "update"}
Waits(r) == IF r = cur THEN pc = "begun" ELSE rows[r].status \in {"new", "error", "conflicted"}
Waiting(i) == \E r \in DOMAIN rows : Sends(rows[r], i) /\ Waits(r)
Asked(i) == \E k \in DOMAIN fuse.rows : Sends(fuse.rows[k], i)
Copied(i) == \E s \in CopiesOf(i) : server[s].content = want[i].content

Gone(row) == row.op = "delete" => ~want[FileOf(row.id)].live
Deletions ==
    /\ \A r \in DOMAIN rows : Gone(rows[r])
    /\ \A k \in DOMAIN fuse.rows : Gone(fuse.rows[k]) /\ fuse.rows[k].status = "new"
    /\ pc \in Handling => Gone(item)
Stuck == \A r \in DOMAIN rows :
            rows[r].status = "processing" /\ r # cur => want[FileOf(rows[r].id)].cut
AtHand == pc \in Handling => /\ rows[cur].op = item.op
                             /\ FileOf(rows[cur].id) = FileOf(item.id)
Storing ==
    /\ fuse.pc \in {"select", "update", "insert", "reread"} =>
          \A k \in DOMAIN fuse.rows : fuse.rows[k].op \notin {"create", "update"}
    /\ fuse.pc = "reread" => Head(fuse.rows).op \in {"rename", "move"}
Contents ==
    \A i \in DOMAIN want : /\ disk[i] # 0 => disk[i] = want[i].content
                           /\ want[i].live => disk[i] # 0
Kept(i) == want[i].live /\ ~want[i].cut => Waiting(i) \/ Asked(i) \/ Copied(i)
Carrying ==
    /\ Deletions /\ Stuck /\ AtHand /\ Storing /\ Contents
    /\ \A i \in DOMAIN want : Kept(i)

Settled == Reuse \/ Strayed \/ (Placed /\ Carrying)

-----------------------------------------------------------------------------
(***************************************************************************)
(* What the statements do to the tables and to the history.                *)
(***************************************************************************)

Statuses == {"new", "processing", "error", "conflicted", "gone"}
Operations == {"create", "update", "rename", "move", "delete"}

\* The sequences as functions.
LEMMA Tables ==
    ASSUME Inv
    PROVE  /\ DOMAIN server = 1..Len(server) /\ DOMAIN db = 1..Len(db)
           /\ DOMAIN rows = 1..Len(rows) /\ DOMAIN want = 1..Len(want)
           /\ DOMAIN disk = DOMAIN db /\ DOMAIN want = DOMAIN db
           /\ DOMAIN fuse.rows = 1..Len(fuse.rows)
           /\ Len(server) \in Nat /\ Len(db) \in Nat /\ Len(rows) \in Nat /\ Len(want) \in Nat
           /\ \A s \in DOMAIN server : server[s] \in File
           /\ \A i \in DOMAIN db : db[i] \in Entry /\ disk[i] \in Nat /\ want[i] \in Wish
           /\ \A r \in DOMAIN rows : rows[r] \in Row
           /\ \A k \in DOMAIN fuse.rows : fuse.rows[k] \in Row
BY DEF Inv, TypeOK

\* A function on the indices of a sequence is a sequence of its length.
LEMMA Rewritten ==
    ASSUME NEW S, NEW s \in Seq(S), NEW t \in [DOMAIN s -> S]
    PROVE  t \in Seq(S) /\ Len(t) = Len(s) /\ DOMAIN t = DOMAIN s
<1>1. DOMAIN s = 1..Len(s) /\ Len(s) \in Nat
  OBVIOUS
<1>2. t \in [1..Len(s) -> S] /\ DOMAIN t = DOMAIN s
  BY <1>1
<1>3. t \in Seq(S)
  BY <1>1, <1>2, SeqDef
<1>4. Len(t) = Len(s)
  BY <1>1, <1>2, <1>3, LenProperties
<1> QED
  BY <1>2, <1>3, <1>4

\* A row gets another status.
LEMMA TouchEffect ==
    ASSUME Inv, NEW r \in DOMAIN rows, NEW status \in Statuses, Touch(r, status)
    PROVE  /\ rows' \in Seq(Row) /\ DOMAIN rows' = DOMAIN rows
           /\ recent' \subseteq DOMAIN rows'
           /\ \A q \in DOMAIN rows :
                 /\ rows'[q].id = rows[q].id /\ rows'[q].op = rows[q].op
                 /\ rows'[q].at = rows[q].at
                 /\ rows'[q].status = IF q = r THEN status ELSE rows[q].status
<1>1. rows \in Seq(Row) /\ rows[r] \in Row /\ recent \subseteq DOMAIN rows
  BY Tables DEF Inv, TypeOK
<1>2. rows' = [rows EXCEPT ![r] = [rows[r] EXCEPT !.status = status]]
  BY DEF Touch
<1> DEFINE row == [rows[r] EXCEPT !.status = status]
<1>3. /\ row \in Row /\ row.id = rows[r].id /\ row.op = rows[r].op
      /\ row.at = rows[r].at /\ row.status = status
  BY <1>1 DEF Row, Statuses
<1> HIDE DEF row
<1>4. rows' = [rows EXCEPT ![r] = row]
  BY <1>2 DEF row
<1>5. rows' \in Seq(Row) /\ DOMAIN rows' = DOMAIN rows
  BY <1>1, <1>3, <1>4
<1> QED
  BY <1>1, <1>3, <1>4, <1>5 DEF Touch

\* Requests are marked as cut short.
LEMMA CutEffect ==
    ASSUME Inv, NEW files, Cut(files)
    PROVE  /\ want' \in Seq(Wish) /\ Len(want') = Len(want) /\ DOMAIN want' = DOMAIN want
           /\ \A i \in DOMAIN want :
                 /\ want'[i].at = want[i].at /\ want'[i].content = want[i].content
                 /\ want'[i].live = want[i].live /\ want'[i].been = want[i].been
                 /\ want'[i].cut = (want[i].cut \/ i \in files)
<1> DEFINE f(i) == IF i \in files THEN [want[i] EXCEPT !.cut = TRUE] ELSE want[i]
<1>1. \A i \in DOMAIN want :
         /\ f(i) \in Wish
         /\ f(i).at = want[i].at /\ f(i).content = want[i].content
         /\ f(i).live = want[i].live /\ f(i).been = want[i].been
         /\ f(i).cut = (want[i].cut \/ i \in files)
  <2> TAKE i \in DOMAIN want
  <2>1. want[i] \in Wish
    BY Tables
  <2>2. want[i].cut \in BOOLEAN
    BY <2>1 DEF Wish
  <2>3. CASE i \in files
    <3>1. f(i) = [want[i] EXCEPT !.cut = TRUE]
      BY <2>3
    <3> HIDE DEF f
    <3> QED
      BY <2>1, <2>2, <2>3, <3>1 DEF Wish
  <2>4. CASE i \notin files
    BY <2>1, <2>2, <2>4
  <2> QED
    BY <2>3, <2>4
<1>2. want' = [i \in DOMAIN want |-> f(i)] /\ want \in Seq(Wish)
  BY DEF Cut, Inv, TypeOK
<1> HIDE DEF f
<1>3. want' \in Seq(Wish) /\ Len(want') = Len(want) /\ DOMAIN want' = DOMAIN want
  <2>1. want' \in [DOMAIN want -> Wish]
    BY <1>1, <1>2
  <2> QED
    BY <1>2, <2>1, Rewritten
<1> QED
  BY <1>1, <1>2, <1>3

\* A stored entry replaces those that have its id.
LEMMA UpdateEffect ==
    ASSUME Inv, NEW e \in Entry
    PROVE  /\ Update(e) \in Seq(Entry) /\ Len(Update(e)) = Len(db)
           /\ DOMAIN Update(e) = DOMAIN db
           /\ \A i \in DOMAIN db :
                 /\ Update(e)[i] = IF db[i].id = e.id THEN e ELSE db[i]
                 /\ Update(e)[i].id = db[i].id
<1>1. db \in Seq(Entry) /\ \A i \in DOMAIN db : db[i] \in Entry
  BY Tables DEF Inv, TypeOK
<1>2. Update(e) \in Seq(Entry) /\ Len(Update(e)) = Len(db) /\ DOMAIN Update(e) = DOMAIN db
  <2>1. Update(e) \in [DOMAIN db -> Entry]
    BY <1>1 DEF Update
  <2> QED
    BY <1>1, <2>1, Rewritten
<1> QED
  BY <1>1, <1>2 DEF Update

\* A new entry gets a new inode.
LEMMA InsertEffect ==
    ASSUME Inv, NEW e \in Entry, NEW content \in Nat, NEW wish \in Wish,
           Insert(e, content, wish)
    PROVE  /\ db' \in Seq(Entry) /\ disk' \in Seq(Nat) /\ want' \in Seq(Wish)
           /\ Len(want') = Len(db') /\ Len(disk') = Len(db')
           /\ DOMAIN db' = DOMAIN db \union {Len(db) + 1}
           /\ DOMAIN want' = DOMAIN want \union {Len(db) + 1}
           /\ Len(db) + 1 \notin DOMAIN want /\ Len(db) + 1 \notin DOMAIN db
           /\ Len(db) + 1 \in Nat
           /\ \A i \in DOMAIN db : db'[i] = db[i] /\ disk'[i] = disk[i] /\ want'[i] = want[i]
           /\ db'[Len(db) + 1] = e /\ disk'[Len(db) + 1] = content
           /\ want'[Len(db) + 1] = wish
<1>1. /\ db \in Seq(Entry) /\ disk \in Seq(Nat) /\ want \in Seq(Wish)
      /\ Len(want) = Len(db) /\ Len(disk) = Len(db)
  BY DEF Inv, TypeOK
<1>2. db' = Append(db, e) /\ disk' = Append(disk, content) /\ want' = Append(want, wish)
  BY DEF Insert
<1> QED
  BY <1>1, <1>2

\* A new row is about the entry as it was read.
LEMMA NewRowFacts ==
    ASSUME NEW e \in Entry, NEW op \in Operations
    PROVE  /\ NewRow(e, op) \in Row /\ NewRow(e, op).id = e.id
           /\ NewRow(e, op).at = e.at /\ NewRow(e, op).op = op
           /\ NewRow(e, op).status = "new"
BY DEF NewRow, Row, Entry, Operations

\* An entry made of an id and a place.
LEMMA AtFacts ==
    ASSUME NEW id \in Int, NEW p \in Place
    PROVE  /\ At(id, p) \in Entry /\ At(id, p).id = id
           /\ At(id, p).at = p /\ At(id, p).path = p
BY DEF At, Entry

\* What stands for nothing has its type.
LEMMA NothingIsTyped == Nowhere \in Place /\ NoEntry \in Entry /\ Ghost \in Wish
<1>1. Nowhere \in Place
  <2>1. PICK d \in Folders, n \in Names : TRUE
    BY PlacesAssumption
  <2>2. [dir |-> d, name |-> n] \in Place
    BY <2>1 DEF Place
  <2> QED
    BY <2>2 DEF Nowhere
<1> QED
  BY <1>1 DEF NoEntry, Entry, Ghost, Wish

\* The request that is none.
LEMMA IdleFacts ==
    /\ Idle.pc = "idle" /\ Idle.rows = << >> /\ Idle.entry = NoEntry
BY DEF Idle

\* An id in use names a file.
LEMMA IdsOfInts ==
    ASSUME Inv, NEW id, Sound(id)
    PROVE  /\ id \in Int /\ FileOf(id) \in DOMAIN want
           /\ FileOf(id) \in Nat /\ id # 0
<1>1. CASE id \in DOMAIN server
  <2>1. id \in Nat \ {0} /\ server[id].owner \in DOMAIN want
    BY <1>1, Tables DEF Inv, SoundFiles
  <2>2. FileOf(id) = server[id].owner
    BY <2>1 DEF FileOf
  <2> QED
    BY <2>1, <2>2, Tables
<1>2. CASE id \in Int /\ id < 0 /\ -id \in DOMAIN want /\ id \notin DOMAIN server
  <2>1. -id \in 1..Len(want) /\ Len(want) \in Nat
    BY <1>2, Tables
  <2> QED
    BY <1>2, <2>1 DEF FileOf
<1> QED
  BY <1>1, <1>2 DEF Sound, IsId

-----------------------------------------------------------------------------
(***************************************************************************)
(* The invariant Inv, one action at a time: the requests.                  *)
(***************************************************************************)

\* A wish changes in one respect.
WishesOf(i, at, content, live, been) ==
    /\ want' \in Seq(Wish) /\ Len(want') = Len(want) /\ DOMAIN want' = DOMAIN want
    /\ \A j \in DOMAIN want \ {i} : want'[j] = want[j]
    /\ want'[i].at = at /\ want'[i].content = content /\ want'[i].live = live
    /\ want'[i].been = been /\ want'[i].cut = want[i].cut

\* What a request may change of the ids.
LEMMA RequestInv ==
    ASSUME Inv,
           fuse' \in [pc : {"idle", "select", "update", "insert", "reread", "row", "mark", "dead"},
                     entry : Entry, rows : Seq(Row)],
           db' \in Seq(Entry), disk' \in Seq(Nat), want' \in Seq(Wish),
           Len(want') = Len(db'), Len(disk') = Len(db'), DOMAIN want \subseteq DOMAIN want',
           SoundEntries', SoundRequest',
           ops' \in 0..MaxOps, faults' \in 0..MaxFaults,
           UNCHANGED <<server, rows, recent, cycle, crashes>>
    PROVE  Inv'
<1>1. TypeOK'
  BY DEF Inv, TypeOK, cycle
<1>2. \A id : Sound(id) => Sound(id)'
  BY DEF Sound, IsId
<1>3. SoundFiles' /\ SoundRows' /\ SoundCycle'
  BY <1>2, Tables DEF Inv, SoundFiles, SoundRows, SoundCycle, cycle
<1> QED
  BY <1>1, <1>3 DEF Inv

\* A request about one entry, which leaves the table alone.
LEMMA AskedInv ==
    ASSUME Inv, NEW p, p \in Asking, NEW e \in Entry, NEW R \in Seq(Row), Sound(e.id),
           fuse' = [pc |-> p, entry |-> e, rows |-> R],
           p \in {"reread", "row", "mark"} => R # << >>,
           \A k \in DOMAIN R : Sound(R[k].id),
           disk' \in Seq(Nat), Len(disk') = Len(disk),
           want' \in Seq(Wish), Len(want') = Len(want),
           ops' \in 0..MaxOps, UNCHANGED <<server, db, rows, recent, cycle, bounds>>
    PROVE  Inv'
<1>1. fuse'.pc = p /\ fuse'.entry = e /\ fuse'.rows = R
  OBVIOUS
<1>2. DOMAIN want' = DOMAIN want
  BY Tables
<1>3. \A id : Sound(id) => Sound(id)'
  BY <1>2 DEF Sound
<1>4. SoundEntries' /\ SoundRequest'
  BY <1>1, <1>3 DEF Inv, SoundEntries, SoundRequest
<1>5. /\ db' \in Seq(Entry) /\ faults' \in 0..MaxFaults /\ Len(want') = Len(db')
      /\ Len(disk') = Len(db')
  BY DEF Inv, TypeOK, bounds
<1> QED
  BY <1>1, <1>2, <1>4, <1>5, RequestInv DEF Asking, bounds

\* What a new request finds.
LEMMA PermittedOps == ASSUME Inv, NEW op, Permitted(op)
                      PROVE  /\ ops' \in 0..MaxOps /\ ops + 2 \in Nat /\ fuse.pc = "idle"
                             /\ fuse.rows = << >> /\ (Overlap \/ pc = "idle")
BY SizesAssumption DEF Permitted, Inv, TypeOK, SoundRequest, Asking

\* The file whose entry a request is about.
LEMMA EntryFacts ==
    ASSUME Inv, NEW i \in DOMAIN db
    PROVE  /\ db[i] \in Entry /\ Sound(db[i].id) /\ FileOf(db[i].id) \in DOMAIN want
           /\ db[i].at \in Place /\ db[i].path \in Place /\ db[i].id \in Int
           /\ want[i] \in Wish /\ want[FileOf(db[i].id)] \in Wish
           /\ \A op \in Operations :
                 /\ NewRow(db[i], op) \in Row /\ NewRow(db[i], op).id = db[i].id
                 /\ NewRow(db[i], op).at = db[i].at
                 /\ NewRow(db[i], op).op = op /\ NewRow(db[i], op).status = "new"
<1>1. db[i] \in Entry /\ Sound(db[i].id)
  BY Tables DEF Inv, SoundEntries
<1>2. FileOf(db[i].id) \in DOMAIN want
  BY <1>1, IdsOfInts
<1>3. want[i] \in Wish /\ want[FileOf(db[i].id)] \in Wish
  BY <1>2, Tables
<1> QED
  BY <1>1, <1>2, <1>3, NewRowFacts DEF Entry

\* A sequence of one row.
LEMMA OneRow ==
    ASSUME NEW row \in Row
    PROVE  /\ <<row>> \in Seq(Row) /\ Len(<<row>>) = 1 /\ DOMAIN <<row>> = {1}
           /\ <<row>>[1] = row /\ <<row>> # << >> /\ Head(<<row>>) = row
OBVIOUS

\* One element of a sequence is replaced.
LEMMA ReplaceOne ==
    ASSUME NEW S, NEW s \in Seq(S), NEW f \in DOMAIN s, NEW w \in S,
           NEW t, t = [s EXCEPT ![f] = w]
    PROVE  /\ t \in Seq(S) /\ Len(t) = Len(s) /\ DOMAIN t = DOMAIN s /\ t[f] = w
           /\ \A j \in DOMAIN s \ {f} : t[j] = s[j]
OBVIOUS

\* What each request of the user does to a wish.
LEMMA WriteWish ==
    ASSUME Inv, NEW f \in DOMAIN want, NEW c \in Nat
    PROVE  \E w \in Wish :
              /\ [want EXCEPT ![f].content = c] = [want EXCEPT ![f] = w]
              /\ w.at = want[f].at /\ w.content = c /\ w.live = want[f].live
              /\ w.been = want[f].been /\ w.cut = want[f].cut
<1>1. want[f] \in Wish
  BY Tables
<1> DEFINE w == [want[f] EXCEPT !.content = c]
<1>2. /\ w \in Wish /\ w.at = want[f].at /\ w.content = c /\ w.live = want[f].live
      /\ w.been = want[f].been /\ w.cut = want[f].cut
  BY <1>1 DEF Wish
<1>3. [want EXCEPT ![f].content = c] = [want EXCEPT ![f] = w]
  OBVIOUS
<1> QED
  BY <1>2, <1>3

\* The wish of a file that is given up.
LEMMA UnlinkWish ==
    ASSUME Inv, NEW f \in DOMAIN want
    PROVE  \E w \in Wish :
              /\ [want EXCEPT ![f].live = FALSE] = [want EXCEPT ![f] = w]
              /\ w.at = want[f].at /\ w.content = want[f].content /\ w.live = FALSE
              /\ w.been = want[f].been /\ w.cut = want[f].cut
<1>1. want[f] \in Wish
  BY Tables
<1> DEFINE w == [want[f] EXCEPT !.live = FALSE]
<1>2. /\ w \in Wish /\ w.at = want[f].at /\ w.content = want[f].content /\ w.live = FALSE
      /\ w.been = want[f].been /\ w.cut = want[f].cut
  BY <1>1 DEF Wish
<1>3. [want EXCEPT ![f].live = FALSE] = [want EXCEPT ![f] = w]
  OBVIOUS
<1> QED
  BY <1>2, <1>3

\* The wish of a file that gets another place.
LEMMA RenameWish ==
    ASSUME Inv, NEW f \in DOMAIN want, NEW p \in Place
    PROVE  \E w \in Wish :
              /\ [want EXCEPT ![f].at = p, ![f].been = @ \union {p}] = [want EXCEPT ![f] = w]
              /\ w.at = p /\ w.content = want[f].content /\ w.live = want[f].live
              /\ w.been = want[f].been \union {p} /\ w.cut = want[f].cut
<1>1. want \in Seq(Wish) /\ want[f] \in Wish
  BY Tables DEF Inv, TypeOK
<1> DEFINE w == [want[f] EXCEPT !.at = p, !.been = @ \union {p}]
<1>2. w \in Wish
  BY <1>1 DEF Wish
<1>3. /\ w.at = p /\ w.content = want[f].content /\ w.live = want[f].live
      /\ w.been = want[f].been \union {p} /\ w.cut = want[f].cut
  BY <1>1 DEF Wish
<1>4. [want EXCEPT ![f].at = p, ![f].been = @ \union {p}] = [want EXCEPT ![f] = w]
  BY <1>1
<1> QED
  BY <1>2, <1>3, <1>4

\* The wish of a file is replaced.
LEMMA WishSet ==
    ASSUME Inv, NEW f \in DOMAIN want, NEW w \in Wish, want' = [want EXCEPT ![f] = w],
           w.cut = want[f].cut
    PROVE  WishesOf(f, w.at, w.content, w.live, w.been)
<1>1. want \in Seq(Wish)
  BY DEF Inv, TypeOK
<1>2. /\ want' \in Seq(Wish) /\ Len(want') = Len(want) /\ DOMAIN want' = DOMAIN want
      /\ want'[f] = w
  BY <1>1, ReplaceOne
<1>3. \A j \in DOMAIN want \ {f} : want'[j] = want[j]
  BY <1>1, ReplaceOne
<1> QED
  BY <1>2, <1>3 DEF WishesOf

\* The effect of each request on the wishes and the files.
LEMMA WriteEffect ==
    ASSUME Inv, NEW i \in DOMAIN db, Write(i), NEW f, f = FileOf(db[i].id)
    PROVE  /\ WishesOf(f, want[f].at, ops + 2, want[f].live, want[f].been)
           /\ disk' \in Seq(Nat) /\ Len(disk') = Len(disk) /\ disk'[i] = ops + 2
           /\ \A j \in DOMAIN db \ {i} : disk'[j] = disk[j]
<1>1. f \in DOMAIN want
  BY EntryFacts
<1>2. ops + 2 \in Nat
  BY SizesAssumption DEF Inv, TypeOK
<1>3. PICK w \in Wish :
         /\ [want EXCEPT ![f].content = ops + 2] = [want EXCEPT ![f] = w]
         /\ w.at = want[f].at /\ w.content = ops + 2 /\ w.live = want[f].live
         /\ w.been = want[f].been /\ w.cut = want[f].cut
  BY <1>1, <1>2, WriteWish
<1>4. want' = [want EXCEPT ![f].content = ops + 2]
  BY DEF Write
<1>5. want' = [want EXCEPT ![f] = w]
  BY <1>3, <1>4
<1>6. WishesOf(f, w.at, w.content, w.live, w.been)
  BY <1>1, <1>3, <1>5, WishSet
<1>7. WishesOf(f, want[f].at, ops + 2, want[f].live, want[f].been)
  BY <1>3, <1>6
<1>8. disk' = [disk EXCEPT ![i] = ops + 2] /\ disk \in Seq(Nat) /\ i \in DOMAIN disk
  BY Tables DEF Write, Inv, TypeOK
<1>9. disk' \in Seq(Nat) /\ Len(disk') = Len(disk) /\ disk'[i] = ops + 2
      /\ \A j \in DOMAIN disk \ {i} : disk'[j] = disk[j]
  BY <1>2, <1>8, ReplaceOne
<1> QED
  BY <1>7, <1>9, Tables

\* What rename changes of the wishes.
LEMMA RenameEffect ==
    ASSUME Inv, NEW i \in DOMAIN db, NEW p \in Place, Rename(i, p),
           NEW f, f = FileOf(db[i].id)
    PROVE  WishesOf(f, p, want[f].content, want[f].live, want[f].been \union {p})
<1>1. f \in DOMAIN want
  BY EntryFacts
<1>2. PICK w \in Wish :
         /\ [want EXCEPT ![f].at = p, ![f].been = @ \union {p}] = [want EXCEPT ![f] = w]
         /\ w.at = p /\ w.content = want[f].content /\ w.live = want[f].live
         /\ w.been = want[f].been \union {p} /\ w.cut = want[f].cut
  BY <1>1, RenameWish
<1>3. want' = [want EXCEPT ![f].at = p, ![f].been = @ \union {p}]
  BY DEF Rename
<1>4. want' = [want EXCEPT ![f] = w]
  BY <1>2, <1>3
<1>5. WishesOf(f, w.at, w.content, w.live, w.been)
  BY <1>1, <1>2, <1>4, WishSet
<1> QED
  BY <1>2, <1>5

\* What unlink changes of the wishes.
LEMMA UnlinkEffect ==
    ASSUME Inv, NEW i \in DOMAIN db, Unlink(i), NEW f, f = FileOf(db[i].id)
    PROVE  WishesOf(f, want[f].at, want[f].content, FALSE, want[f].been)
<1>1. f \in DOMAIN want
  BY EntryFacts
<1>2. PICK w \in Wish :
         /\ [want EXCEPT ![f].live = FALSE] = [want EXCEPT ![f] = w]
         /\ w.at = want[f].at /\ w.content = want[f].content /\ w.live = FALSE
         /\ w.been = want[f].been /\ w.cut = want[f].cut
  BY <1>1, UnlinkWish
<1>3. want' = [want EXCEPT ![f].live = FALSE]
  BY DEF Unlink
<1>4. want' = [want EXCEPT ![f] = w]
  BY <1>2, <1>3
<1>5. WishesOf(f, w.at, w.content, w.live, w.been)
  BY <1>1, <1>2, <1>4, WishSet
<1> QED
  BY <1>2, <1>5

\* The file f is given up and g gets the content c.
Handed(t, f, g, c) ==
    /\ t \in Seq(Wish) /\ Len(t) = Len(want) /\ DOMAIN t = DOMAIN want
    /\ \A k \in DOMAIN want :
          /\ t[k].at = want[k].at /\ t[k].been = want[k].been
          /\ t[k].cut = want[k].cut
          /\ t[k].live = (want[k].live /\ k # f)
          /\ t[k].content = IF k = g THEN c ELSE want[k].content

\* The wishes of two files, one of which gets the content of the other.
LEMMA ReplaceWish ==
    ASSUME Inv, NEW f \in DOMAIN want, NEW g \in DOMAIN want, NEW c \in Nat
    PROVE  Handed([want EXCEPT ![f].live = FALSE, ![g].content = c], f, g, c)
<1>1. want \in Seq(Wish) /\ want[f] \in Wish /\ \A k \in DOMAIN want : want[k].live \in BOOLEAN
  BY Tables DEF Inv, TypeOK, Wish
<1>2. PICK w \in Wish :
         /\ [want EXCEPT ![f].live = FALSE] = [want EXCEPT ![f] = w]
         /\ w.at = want[f].at /\ w.content = want[f].content /\ w.live = FALSE
         /\ w.been = want[f].been /\ w.cut = want[f].cut
  BY UnlinkWish
<1>3. PICK s : s = [want EXCEPT ![f] = w]
  OBVIOUS
<1>4. /\ s \in Seq(Wish) /\ Len(s) = Len(want) /\ DOMAIN s = DOMAIN want /\ s[f] = w
      /\ \A k \in DOMAIN want \ {f} : s[k] = want[k]
  BY <1>1, <1>2, <1>3, ReplaceOne
<1>5. s[g] \in Wish
  BY <1>4
<1> DEFINE v == [s[g] EXCEPT !.content = c]
<1>6. v \in Wish /\ v.content = c /\ v.at = s[g].at /\ v.live = s[g].live
      /\ v.been = s[g].been /\ v.cut = s[g].cut
  BY <1>5 DEF Wish
<1>7. [s EXCEPT ![g].content = c] = [s EXCEPT ![g] = v]
  OBVIOUS
<1>8. [want EXCEPT ![f].live = FALSE, ![g].content = c] = [s EXCEPT ![g].content = c]
  BY <1>2, <1>3
<1> HIDE DEF v
<1>9. PICK t : t = [s EXCEPT ![g] = v]
  OBVIOUS
<1>10. /\ t \in Seq(Wish) /\ Len(t) = Len(s) /\ DOMAIN t = DOMAIN s /\ t[g] = v
       /\ \A k \in DOMAIN s \ {g} : t[k] = s[k]
  BY <1>4, <1>6, <1>9, ReplaceOne
<1>11. ASSUME NEW k \in DOMAIN want
       PROVE  /\ s[k].at = want[k].at /\ s[k].been = want[k].been
              /\ s[k].cut = want[k].cut /\ s[k].content = want[k].content
              /\ s[k].live = (want[k].live /\ k # f)
  BY <1>1, <1>2, <1>4
<1>12. ASSUME NEW k \in DOMAIN want
       PROVE  /\ t[k].at = want[k].at /\ t[k].been = want[k].been
              /\ t[k].cut = want[k].cut /\ t[k].live = (want[k].live /\ k # f)
              /\ t[k].content = IF k = g THEN c ELSE want[k].content
  BY <1>4, <1>6, <1>10, <1>11
<1>13. t = [want EXCEPT ![f].live = FALSE, ![g].content = c]
  BY <1>7, <1>8, <1>9
<1>14. t \in Seq(Wish) /\ Len(t) = Len(want) /\ DOMAIN t = DOMAIN want
  BY <1>4, <1>10
<1> QED
  BY <1>12, <1>13, <1>14 DEF Handed

\* The content moves from one file to the other.
LEMMA ReplaceEffect ==
    ASSUME Inv, NEW i \in DOMAIN db, NEW j \in DOMAIN db, Replace(i, j),
           NEW f, f = FileOf(db[i].id), NEW g, g = FileOf(db[j].id)
    PROVE  /\ want' \in Seq(Wish) /\ Len(want') = Len(want) /\ DOMAIN want' = DOMAIN want
           /\ \A k \in DOMAIN want :
                 /\ want'[k].at = want[k].at /\ want'[k].been = want[k].been
                 /\ want'[k].cut = want[k].cut
                 /\ want'[k].live = (want[k].live /\ k # f)
                 /\ want'[k].content = IF k = g THEN want[f].content ELSE want[k].content
           /\ disk' \in Seq(Nat) /\ Len(disk') = Len(disk)
           /\ \A k \in DOMAIN db :
                 disk'[k] = IF k = j THEN disk[i] ELSE IF k = i THEN 0 ELSE disk[k]
<1>1. f \in DOMAIN want /\ g \in DOMAIN want /\ want[f] \in Wish
  BY EntryFacts
<1>2. PICK c \in Nat : c = want[f].content
  BY <1>1 DEF Wish
<1>3. want' = [want EXCEPT ![f].live = FALSE, ![g].content = c]
  BY <1>2 DEF Replace
<1>4. Handed(want', f, g, c)
  BY <1>1, <1>3, ReplaceWish
<1>6. disk' = [disk EXCEPT ![i] = 0, ![j] = disk[i]] /\ disk \in Seq(Nat)
      /\ DOMAIN disk = DOMAIN db
  BY Tables DEF Replace, Inv, TypeOK
<1>7. disk' \in Seq(Nat) /\ Len(disk') = Len(disk)
      /\ \A k \in DOMAIN db :
            disk'[k] = IF k = j THEN disk[i] ELSE IF k = i THEN 0 ELSE disk[k]
  BY <1>6
<1> QED
  BY <1>2, <1>4, <1>7 DEF Handed

\* An entry at another place, or deleted.
LEMMA EntryChanged ==
    ASSUME NEW e \in Entry, NEW p \in Place
    PROVE  /\ [e EXCEPT !.at = p] \in Entry /\ [e EXCEPT !.at = p].id = e.id
           /\ [e EXCEPT !.at = p].at = p /\ [e EXCEPT !.at = p].path = e.path
           /\ [e EXCEPT !.deleted = TRUE] \in Entry /\ [e EXCEPT !.deleted = TRUE].id = e.id
           /\ [e EXCEPT !.deleted = TRUE].at = e.at /\ [e EXCEPT !.deleted = TRUE].path = e.path
BY DEF Entry

\* A sequence of one row that names a file.
LEMMA OneSound ==
    ASSUME NEW row \in Row, Sound(row.id)
    PROVE  <<row>> \in Seq(Row) /\ <<row>> # << >> /\ \A k \in DOMAIN <<row>> : Sound(<<row>>[k].id)
<1>1. DOMAIN <<row>> = {1} /\ <<row>>[1] = row
  BY OneRow
<1> QED
  BY <1>1, OneRow

\* A sequence of three rows.
LEMMA ThreeRows ==
    ASSUME NEW a \in Row, NEW b \in Row, NEW c \in Row
    PROVE  <<a, b, c>> \in Seq(Row) /\ <<a, b, c>> # << >>
OBVIOUS

\* write changes a content and asks for an Update row: the ids still name files.
LEMMA WriteInv == ASSUME Inv, NEW i \in DOMAIN db, Write(i) PROVE Inv'
<1>1. PICK row \in Row : row = NewRow(db[i], "update") /\ row.id = db[i].id
  BY EntryFacts DEF Operations
<1>2. fuse' = [pc |-> "row", entry |-> db[i], rows |-> <<row>>]
      /\ UNCHANGED <<server, db, rows, recent, cycle, bounds>>
  BY <1>1 DEF Write
<1>3. /\ want' \in Seq(Wish) /\ Len(want') = Len(want)
      /\ disk' \in Seq(Nat) /\ Len(disk') = Len(disk)
  BY WriteEffect DEF WishesOf
<1>4. ops' \in 0..MaxOps
  BY PermittedOps DEF Write
<1>5. PICK e \in Entry : e = db[i] /\ Sound(e.id)
  BY EntryFacts
<1>6. PICK R \in Seq(Row) : R = <<row>> /\ R # << >> /\ \A k \in DOMAIN R : Sound(R[k].id)
  BY <1>1, <1>5, OneSound
<1> QED
  BY <1>2, <1>3, <1>4, <1>5, <1>6, AskedInv DEF Asking

\* release asks for the entry it read to be stored: the ids still name files.
LEMMA ReleaseInv == ASSUME Inv, NEW i \in DOMAIN db, Release(i) PROVE Inv'
<1>1. fuse' = [pc |-> "select", entry |-> db[i], rows |-> << >>]
      /\ UNCHANGED <<server, db, disk, rows, recent, want, cycle, bounds>>
  BY DEF Release
<1>2. disk' \in Seq(Nat) /\ want' \in Seq(Wish) /\ Len(want') = Len(want) /\ Len(disk') = Len(disk)
  BY <1>1 DEF Inv, TypeOK
<1>3. ops' \in 0..MaxOps
  BY PermittedOps DEF Release
<1>4. << >> \in Seq(Row) /\ DOMAIN << >> = {}
  OBVIOUS
<1> QED
  BY <1>1, <1>2, <1>3, <1>4, EntryFacts, AskedInv DEF Asking

\* rename gives a file another place: the ids still name files.
LEMMA RenameInv == ASSUME Inv, NEW i \in DOMAIN db, NEW p \in Place, Rename(i, p) PROVE Inv'
<1>1. PICK op \in Operations : op = IF p.dir = db[i].at.dir THEN "rename" ELSE "move"
  BY DEF Operations
<1>2. PICK row \in Row : row = NewRow(db[i], op) /\ row.id = db[i].id
  BY EntryFacts
<1>3. PICK e \in Entry : e = [db[i] EXCEPT !.at = p] /\ e.id = db[i].id
  <2>1. PICK d \in Entry : d = db[i]
    BY EntryFacts
  <2> QED
    BY <2>1, EntryChanged
<1>4. fuse' = [pc |-> "select", entry |-> e, rows |-> <<row>>]
      /\ UNCHANGED <<server, db, disk, rows, recent, cycle, bounds>>
  BY <1>1, <1>2, <1>3 DEF Rename
<1>5. want' \in Seq(Wish) /\ Len(want') = Len(want) /\ disk' \in Seq(Nat) /\ Len(disk') = Len(disk)
  BY <1>4, RenameEffect DEF WishesOf, Inv, TypeOK
<1>6. ops' \in 0..MaxOps
  BY PermittedOps DEF Rename
<1>7. PICK R \in Seq(Row) : R = <<row>> /\ R # << >> /\ \A k \in DOMAIN R : Sound(R[k].id)
  BY <1>2, EntryFacts, OneSound
<1>8. Sound(e.id)
  BY <1>3, EntryFacts
<1> QED
  BY <1>3, <1>4, <1>5, <1>6, <1>7, <1>8, AskedInv DEF Asking

\* unlink gives a file up: the ids still name files.
LEMMA UnlinkInv == ASSUME Inv, NEW i \in DOMAIN db, Unlink(i) PROVE Inv'
<1>1. PICK row \in Row : row = NewRow(db[i], "delete") /\ row.id = db[i].id
  BY EntryFacts DEF Operations
<1>2. PICK e \in Entry : e = [db[i] EXCEPT !.deleted = TRUE] /\ e.id = db[i].id
  <2>1. PICK q \in Place : TRUE
    BY NothingIsTyped
  <2> QED
    BY <2>1, EntryFacts, EntryChanged
<1>3. fuse' = [pc |-> "select", entry |-> e, rows |-> <<row>>]
      /\ UNCHANGED <<server, db, disk, rows, recent, cycle, bounds>>
  BY <1>1, <1>2 DEF Unlink
<1>4. want' \in Seq(Wish) /\ Len(want') = Len(want) /\ disk' \in Seq(Nat) /\ Len(disk') = Len(disk)
  BY <1>3, UnlinkEffect DEF WishesOf, Inv, TypeOK
<1>5. ops' \in 0..MaxOps
  BY PermittedOps DEF Unlink
<1>6. PICK R \in Seq(Row) : R = <<row>> /\ R # << >> /\ \A k \in DOMAIN R : Sound(R[k].id)
  BY <1>1, EntryFacts, OneSound
<1>7. Sound(e.id)
  BY <1>2, EntryFacts
<1> QED
  BY <1>3, <1>4, <1>5, <1>6, <1>7, AskedInv DEF Asking

\* A file is given up and its content goes to another one: the ids still name files.
LEMMA ReplaceInv == ASSUME Inv, NEW i \in DOMAIN db, NEW j \in DOMAIN db, Replace(i, j) PROVE Inv'
<1>1. PICK row \in Row : row = NewRow(db[i], "delete") /\ row.id = db[i].id
  BY EntryFacts DEF Operations
<1>2. PICK other \in Row : other = NewRow(db[j], "update") /\ other.id = db[j].id
  BY EntryFacts DEF Operations
<1>3. fuse' = [pc |-> "mark", entry |-> db[i], rows |-> <<row, row, other>>]
      /\ UNCHANGED <<server, db, rows, recent, cycle, bounds>>
  BY <1>1, <1>2 DEF Replace
<1>4. /\ want' \in Seq(Wish) /\ Len(want') = Len(want)
      /\ disk' \in Seq(Nat) /\ Len(disk') = Len(disk)
  BY ReplaceEffect
<1>5. ops' \in 0..MaxOps
  BY PermittedOps DEF Replace
<1>6. PICK R \in Seq(Row) : R = <<row, row, other>> /\ R # << >>
  BY <1>1, <1>2, ThreeRows
<1>7. \A k \in DOMAIN R : Sound(R[k].id)
  <2>1. DOMAIN R = {1, 2, 3} /\ R[1] = row /\ R[2] = row /\ R[3] = other
    BY <1>6
  <2> QED
    BY <2>1, <1>1, <1>2, EntryFacts
<1>8. PICK e \in Entry : e = db[i] /\ Sound(e.id)
  BY EntryFacts
<1> QED
  BY <1>3, <1>4, <1>5, <1>6, <1>7, <1>8, AskedInv DEF Asking

\* create adds an inode with a temporary id: the ids still name files.
LEMMA CreateInv == ASSUME Inv, NEW p \in Place, Create(p) PROVE Inv'
<1> DEFINE n == Len(db) + 1
<1>1. PICK e \in Entry : e = At(-n, p) /\ e.id = -n
  BY AtFacts, Tables
<1>2. PICK row \in Row : row = NewRow(e, "create") /\ row.id = e.id
  BY NewRowFacts DEF Operations
<1>3. PICK w \in Wish : w = Wanted(p, ops + 2)
  <2>1. ops + 2 \in Nat
    BY PermittedOps DEF Create
  <2> QED
    BY <2>1 DEF Wanted, Wish
<1>4. /\ Insert(e, ops + 2, w)
      /\ fuse' = [pc |-> "row", entry |-> e, rows |-> <<row>>]
      /\ UNCHANGED <<server, rows, recent, cycle, bounds>>
  BY <1>1, <1>2, <1>3 DEF Create
<1>5. ops' \in 0..MaxOps /\ ops + 2 \in Nat
  BY PermittedOps DEF Create
<1>6. /\ db' \in Seq(Entry) /\ disk' \in Seq(Nat) /\ want' \in Seq(Wish)
      /\ Len(want') = Len(db') /\ Len(disk') = Len(db')
      /\ DOMAIN db' = DOMAIN db \union {n} /\ DOMAIN want' = DOMAIN want \union {n}
      /\ n \in Nat /\ db'[n] = e /\ \A i \in DOMAIN db : db'[i] = db[i]
  BY <1>4, <1>5, InsertEffect
<1>7. \A id : Sound(id) => Sound(id)'
  BY <1>4, <1>6 DEF Sound, IsId
<1>8. Sound(e.id)'
  BY <1>1, <1>6, Tables DEF Sound, IsId
<1>9. SoundEntries' /\ SoundRequest'
  BY <1>2, <1>4, <1>6, <1>7, <1>8, OneRow DEF Inv, SoundEntries, SoundRequest, Asking
<1> QED
  BY <1>2, <1>4, <1>5, <1>6, <1>9, OneRow, RequestInv DEF bounds, Inv, TypeOK

\* A request changed in its stage or its rows.
LEMMA RequestFields ==
    ASSUME Inv
    PROVE  /\ fuse.entry \in Entry /\ fuse.rows \in Seq(Row)
           /\ \A p \in Asking : /\ [fuse EXCEPT !.pc = p].pc = p
                                /\ [fuse EXCEPT !.pc = p].entry = fuse.entry
                                /\ [fuse EXCEPT !.pc = p].rows = fuse.rows
                                /\ [fuse EXCEPT !.pc = p] = [pc |-> p, entry |-> fuse.entry,
                                                             rows |-> fuse.rows]
<1>1. fuse.entry \in Entry /\ fuse.rows \in Seq(Row)
  BY DEF Inv, TypeOK
<1>2. fuse = [pc |-> fuse.pc, entry |-> fuse.entry, rows |-> fuse.rows]
  BY DEF Inv, TypeOK
<1>3. ASSUME NEW p \in Asking
      PROVE  [fuse EXCEPT !.pc = p] = [pc |-> p, entry |-> fuse.entry, rows |-> fuse.rows]
  <2>1. PICK q, e, R : q = fuse.pc /\ e = fuse.entry /\ R = fuse.rows
    OBVIOUS
  <2>2. fuse = [pc |-> q, entry |-> e, rows |-> R]
    BY <1>2, <2>1
  <2>3. [[pc |-> q, entry |-> e, rows |-> R] EXCEPT !.pc = p] = [pc |-> p, entry |-> e, rows |-> R]
    OBVIOUS
  <2> QED
    BY <2>1, <2>2, <2>3
<1> QED
  BY <1>1, <1>3

\* What follows the store is a stage of the same request, or nothing.
LEMMA AfterStoreFacts ==
    ASSUME Inv
    PROVE  \/ AfterStore = Idle /\ fuse.rows = << >>
           \/ \E p \in {"reread", "row"} :
                 /\ fuse.rows # << >>
                 /\ AfterStore = [pc |-> p, entry |-> fuse.entry, rows |-> fuse.rows]
                 /\ p = "reread" <=> Head(fuse.rows).op \in {"rename", "move"}
<1>1. CASE fuse.rows = << >>
  BY <1>1 DEF AfterStore
<1>2. CASE fuse.rows # << >> /\ Head(fuse.rows).op \in {"rename", "move"}
  BY <1>2, RequestFields DEF AfterStore, Asking
<1>3. CASE fuse.rows # << >> /\ Head(fuse.rows).op \notin {"rename", "move"}
  BY <1>3, RequestFields DEF AfterStore, Asking
<1> QED
  BY <1>1, <1>2, <1>3

\* A stage of the request with the entry and the rows it has.
LEMMA StageInv ==
    ASSUME Inv, NEW p, p \in Asking, NEW e \in Entry, NEW R \in Seq(Row),
           Sound(e.id), \A k \in DOMAIN R : Sound(R[k].id),
           p \in {"reread", "row", "mark"} => R # << >>,
           \/ fuse' = [pc |-> p, entry |-> e, rows |-> R]
           \/ fuse' = Idle
           \/ fuse' = [Idle EXCEPT !.pc = "dead"],
           db' \in Seq(Entry), disk' \in Seq(Nat), want' \in Seq(Wish),
           Len(want') = Len(db'), Len(disk') = Len(db'), DOMAIN want \subseteq DOMAIN want',
           SoundEntries', faults' \in 0..MaxFaults,
           UNCHANGED <<server, rows, recent, ops, cycle, crashes>>
    PROVE  Inv'
<1>1. \A id : Sound(id) => Sound(id)'
  BY DEF Sound, IsId
<1>2. ops' \in 0..MaxOps
  BY DEF Inv, TypeOK
<1>3. CASE fuse' = [pc |-> p, entry |-> e, rows |-> R]
  <2>1. fuse'.pc = p /\ fuse'.entry = e /\ fuse'.rows = R
    BY <1>3
  <2>2. SoundRequest'
    BY <1>1, <2>1 DEF SoundRequest
  <2> QED
    BY <1>2, <1>3, <2>2, RequestInv DEF Asking
<1>4. CASE fuse' = Idle \/ fuse' = [Idle EXCEPT !.pc = "dead"]
  <2>1. /\ fuse' \in [pc : {"idle", "dead"}, entry : Entry, rows : Seq(Row)]
        /\ fuse'.pc \in {"idle", "dead"} /\ fuse'.rows = << >>
    <3>1. CASE fuse' = Idle
      BY <3>1, NothingIsTyped DEF Idle
    <3>2. CASE fuse' = [Idle EXCEPT !.pc = "dead"]
      <4>1. [Idle EXCEPT !.pc = "dead"] = [pc |-> "dead", entry |-> NoEntry, rows |-> << >>]
        BY DEF Idle
      <4>2. fuse' = [pc |-> "dead", entry |-> NoEntry, rows |-> << >>]
        BY <3>2, <4>1
      <4> QED
        BY ONLY <4>2, NothingIsTyped
    <3> QED
      BY <1>4, <3>1, <3>2
  <2>2. SoundRequest'
    BY <2>1 DEF SoundRequest, Asking
  <2> QED
    BY <1>2, <2>1, <2>2, RequestInv
<1> QED
  BY <1>3, <1>4

\* What a request holds names files.
LEMMA RequestSound ==
    ASSUME Inv, fuse.pc \in Asking
    PROVE  Sound(fuse.entry.id) /\ \A k \in DOMAIN fuse.rows : Sound(fuse.rows[k].id)
BY DEF Inv, SoundRequest

\* The request looks up the id of its entry: the ids still name files.
LEMMA FuseSelectInv == ASSUME Inv, FuseSelect PROVE Inv'
<1>1. PICK p \in {"update", "insert"} : p = IF Known(fuse.entry.id) THEN "update" ELSE "insert"
  OBVIOUS
<1>2. PICK e \in Entry, R \in Seq(Row) : e = fuse.entry /\ R = fuse.rows
  BY RequestFields
<1>3. fuse' = [pc |-> p, entry |-> e, rows |-> R]
  BY <1>1, <1>2, RequestFields DEF FuseSelect, Asking
<1>4. Sound(e.id) /\ \A k \in DOMAIN R : Sound(R[k].id)
  BY <1>2, RequestSound DEF FuseSelect, Asking
<1>5. UNCHANGED <<server, db, disk, rows, recent, ops, want, cycle, bounds>>
  BY DEF FuseSelect
<1>6. /\ db' \in Seq(Entry) /\ disk' \in Seq(Nat) /\ want' \in Seq(Wish) /\ Len(want') = Len(db')
      /\ Len(disk') = Len(db') /\ SoundEntries' /\ faults' \in 0..MaxFaults
  BY <1>5 DEF Inv, TypeOK, SoundEntries, Sound, bounds
<1> QED
  BY <1>3, <1>4, <1>5, <1>6, StageInv DEF Asking, bounds

\* The request stores its entry over the one of its id: the ids still name files.
LEMMA FuseUpdateInv == ASSUME Inv, FuseUpdate PROVE Inv'
<1>1. PICK e \in Entry, R \in Seq(Row) : e = fuse.entry /\ R = fuse.rows
  BY RequestFields
<1>2. PICK p \in {"reread", "row"} :
         \/ fuse' = Idle
         \/ R # << >> /\ fuse' = [pc |-> p, entry |-> e, rows |-> R]
  BY <1>1, AfterStoreFacts DEF FuseUpdate
<1>3. Sound(e.id) /\ \A k \in DOMAIN R : Sound(R[k].id)
  BY <1>1, RequestSound DEF FuseUpdate, Asking
<1>4. db' = Update(e) /\ UNCHANGED <<server, disk, rows, recent, ops, want, cycle, bounds>>
  BY <1>1 DEF FuseUpdate
<1>5. /\ db' \in Seq(Entry) /\ Len(db') = Len(db) /\ DOMAIN db' = DOMAIN db
      /\ \A i \in DOMAIN db : db'[i].id = db[i].id
  BY <1>4, UpdateEffect
<1>6. SoundEntries'
  BY <1>4, <1>5 DEF Inv, SoundEntries, Sound
<1>7. /\ disk' \in Seq(Nat) /\ want' \in Seq(Wish) /\ Len(want') = Len(db')
      /\ Len(disk') = Len(db') /\ faults' \in 0..MaxFaults
  BY <1>4, <1>5 DEF Inv, TypeOK, bounds
<1>8. CASE fuse' = Idle
  BY <1>3, <1>4, <1>5, <1>6, <1>7, <1>8, StageInv DEF Asking, bounds
<1>9. CASE R # << >> /\ fuse' = [pc |-> p, entry |-> e, rows |-> R]
  BY <1>3, <1>4, <1>5, <1>6, <1>7, <1>9, StageInv DEF Asking, bounds
<1> QED
  BY <1>2, <1>8, <1>9

\* An entry with an id in use gets a new inode.
LEMMA InsertSound ==
    ASSUME Inv, NEW e \in Entry, Sound(e.id), Insert(e, 0, Ghost), UNCHANGED server
    PROVE  /\ db' \in Seq(Entry) /\ disk' \in Seq(Nat) /\ want' \in Seq(Wish)
           /\ Len(want') = Len(db') /\ Len(disk') = Len(db')
           /\ DOMAIN want \subseteq DOMAIN want' /\ SoundEntries'
<1>1. /\ db' \in Seq(Entry) /\ disk' \in Seq(Nat) /\ want' \in Seq(Wish)
      /\ Len(want') = Len(db') /\ Len(disk') = Len(db')
      /\ DOMAIN db' = DOMAIN db \union {Len(db) + 1}
      /\ DOMAIN want' = DOMAIN want \union {Len(db) + 1}
      /\ \A i \in DOMAIN db : db'[i] = db[i]
      /\ db'[Len(db) + 1] = e
  BY NothingIsTyped, InsertEffect
<1>2. \A id : Sound(id) => Sound(id)'
  BY <1>1 DEF Sound, IsId
<1> QED
  BY <1>1, <1>2 DEF Inv, SoundEntries

\* The entry of the request, whose id is gone, gets a new inode: the ids still name files.
LEMMA FuseInsertInv == ASSUME Inv, FuseInsert PROVE Inv'
<1>1. PICK e \in Entry, R \in Seq(Row) : e = fuse.entry /\ R = fuse.rows
  BY RequestFields
<1>2. PICK p \in {"reread", "row"} :
         \/ fuse' = Idle
         \/ R # << >> /\ fuse' = [pc |-> p, entry |-> e, rows |-> R]
  BY <1>1, AfterStoreFacts DEF FuseInsert
<1>3. Sound(e.id) /\ \A k \in DOMAIN R : Sound(R[k].id)
  BY <1>1, RequestSound DEF FuseInsert, Asking
<1>4. Insert(e, 0, Ghost) /\ UNCHANGED <<server, rows, recent, ops, cycle, bounds>>
  BY <1>1 DEF FuseInsert
<1>5. /\ db' \in Seq(Entry) /\ disk' \in Seq(Nat) /\ want' \in Seq(Wish)
      /\ Len(want') = Len(db') /\ Len(disk') = Len(db')
      /\ DOMAIN want \subseteq DOMAIN want' /\ SoundEntries'
  BY <1>3, <1>4, InsertSound
<1>6. faults' \in 0..MaxFaults
  BY <1>4 DEF Inv, TypeOK, bounds
<1>7. CASE fuse' = Idle
  BY <1>3, <1>4, <1>5, <1>6, <1>7, StageInv DEF Asking, bounds
<1>8. CASE R # << >> /\ fuse' = [pc |-> p, entry |-> e, rows |-> R]
  BY <1>3, <1>4, <1>5, <1>6, <1>8, StageInv DEF Asking, bounds
<1> QED
  BY <1>2, <1>7, <1>8

\* rename reads the entry again by its name, or dies: the ids still name files.
LEMMA FuseRereadInv == ASSUME Inv, FuseReread PROVE Inv'
<1>1. /\ UNCHANGED <<server, db, disk, rows, recent, ops, cycle, bounds>>
      /\ fuse.rows # << >> /\ fuse.rows \in Seq(Row) /\ fuse.pc \in Asking
  BY RequestFields DEF FuseReread, Inv, SoundRequest, Asking
<1>2. CASE \E i \in DOMAIN db :
             /\ Shown(i) /\ db[i].at = fuse.entry.at
             /\ fuse' = [pc |-> "row", entry |-> db[i],
                         rows |-> <<NewRow(db[i], Head(fuse.rows).op)>>]
             /\ UNCHANGED want
  <2>1. PICK i \in DOMAIN db :
             /\ fuse' = [pc |-> "row", entry |-> db[i],
                         rows |-> <<NewRow(db[i], Head(fuse.rows).op)>>]
             /\ UNCHANGED want
    BY <1>2
  <2>2. Head(fuse.rows) \in Row
    BY <1>1
  <2>3. PICK op \in Operations : op = Head(fuse.rows).op
    BY <2>2 DEF Row, Operations
  <2>4. PICK e \in Entry : e = db[i] /\ Sound(e.id)
    BY EntryFacts
  <2>5. PICK row \in Row : row = NewRow(e, op) /\ Sound(row.id)
    BY <2>4, NewRowFacts
  <2>6. PICK R \in Seq(Row) : R = <<row>> /\ R # << >> /\ \A k \in DOMAIN R : Sound(R[k].id)
    BY <2>5, OneSound
  <2>7. fuse' = [pc |-> "row", entry |-> e, rows |-> R]
    BY <2>1, <2>3, <2>4, <2>5, <2>6
  <2>8. /\ db' \in Seq(Entry) /\ disk' \in Seq(Nat) /\ want' \in Seq(Wish) /\ Len(want') = Len(db')
        /\ Len(disk') = Len(db') /\ SoundEntries' /\ faults' \in 0..MaxFaults
        /\ DOMAIN want' = DOMAIN want
    BY <1>1, <2>1 DEF Inv, TypeOK, SoundEntries, Sound, bounds
  <2> QED
    BY <1>1, <2>4, <2>6, <2>7, <2>8, StageInv DEF Asking, bounds
<1>3. CASE fuse' = [Idle EXCEPT !.pc = "dead"] /\ Cut(Requested)
  <2>1. want' \in Seq(Wish) /\ Len(want') = Len(want) /\ DOMAIN want' = DOMAIN want
    BY <1>3, CutEffect
  <2>2. /\ db' \in Seq(Entry) /\ disk' \in Seq(Nat) /\ Len(want') = Len(db')
        /\ Len(disk') = Len(db') /\ faults' \in 0..MaxFaults
    BY <1>1, <2>1 DEF Inv, TypeOK, bounds
  <2>3. SoundEntries'
    BY <1>1, <2>1 DEF Inv, SoundEntries, Sound
  <2>4. PICK e \in Entry, R \in Seq(Row) : e = fuse.entry /\ R = fuse.rows
    BY RequestFields
  <2>5. Sound(e.id) /\ \A k \in DOMAIN R : Sound(R[k].id)
    BY <1>1, <2>4, RequestSound
  <2> QED
    BY <1>1, <1>3, <2>1, <2>2, <2>3, <2>4, <2>5, StageInv DEF Asking, bounds
<1> QED
  BY <1>2, <1>3 DEF FuseReread

\* The source of a replacement is marked as deleted: the ids still name files.
LEMMA FuseMarkInv == ASSUME Inv, FuseMark PROVE Inv'
<1>1. PICK e \in Entry, R \in Seq(Row) : e = fuse.entry /\ R = fuse.rows
  BY RequestFields
<1>2. fuse' = [pc |-> "row", entry |-> e, rows |-> R]
  BY <1>1, RequestFields DEF FuseMark, Asking
<1>3. Sound(e.id) /\ R # << >> /\ \A k \in DOMAIN R : Sound(R[k].id)
  BY <1>1, RequestSound DEF FuseMark, Asking, Inv, SoundRequest
<1> DEFINE t == [i \in DOMAIN db |-> IF db[i].id = e.id
                                  THEN [db[i] EXCEPT !.deleted = TRUE] ELSE db[i]]
<1>4. db' = t /\ UNCHANGED <<server, disk, rows, recent, ops, want, cycle, bounds>>
  BY <1>1 DEF FuseMark
<1>5. ASSUME NEW i \in DOMAIN db PROVE t[i] \in Entry /\ t[i].id = db[i].id
  BY Tables DEF Entry
<1>6. t \in [DOMAIN db -> Entry]
  BY <1>5
<1>7. db \in Seq(Entry)
  BY DEF Inv, TypeOK
<1> HIDE DEF t
<1>8. db' \in Seq(Entry) /\ Len(db') = Len(db) /\ DOMAIN db' = DOMAIN db
  BY <1>4, <1>6, <1>7, Rewritten
<1>9. SoundEntries'
  BY <1>4, <1>5, <1>8 DEF Inv, SoundEntries, Sound
<1>10. /\ disk' \in Seq(Nat) /\ want' \in Seq(Wish) /\ Len(want') = Len(db')
       /\ Len(disk') = Len(db') /\ faults' \in 0..MaxFaults
  BY <1>4, <1>8 DEF Inv, TypeOK, bounds
<1> QED
  BY <1>2, <1>3, <1>4, <1>8, <1>9, <1>10, StageInv DEF Asking, bounds

\* The rows a request still has to insert.
LEMMA RowLeftFacts ==
    ASSUME Inv, fuse.pc = "row"
    PROVE  /\ Head(fuse.rows) \in Row /\ fuse.rows # << >>
           /\ \E k \in DOMAIN fuse.rows : Head(fuse.rows) = fuse.rows[k]
           /\ \/ RowLeft = Idle /\ \A k \in DOMAIN fuse.rows : fuse.rows[k] = Head(fuse.rows)
              \/ \E R \in Seq(Row) :
                    /\ R # << >> /\ R = Tail(fuse.rows)
                    /\ RowLeft = [pc |-> "row", entry |-> fuse.entry, rows |-> R]
                    /\ \A k \in DOMAIN R : \E m \in DOMAIN fuse.rows : R[k] = fuse.rows[m]
                    /\ \A m \in DOMAIN fuse.rows :
                          \/ fuse.rows[m] = Head(fuse.rows)
                          \/ \E k \in DOMAIN R : R[k] = fuse.rows[m]
<1>1. fuse.rows \in Seq(Row) /\ fuse.rows # << >>
  BY RequestFields DEF Inv, SoundRequest
<1>2. PICK S \in Seq(Row) : S = fuse.rows /\ S # << >>
  BY <1>1
<1>3. Head(S) \in Row /\ 1 \in DOMAIN S /\ S[1] = Head(S) /\ DOMAIN S = 1..Len(S) /\ Len(S) \in Nat
  BY <1>2
<1>4. CASE Len(S) = 1
  BY <1>2, <1>3, <1>4 DEF RowLeft
<1>5. CASE Len(S) # 1
  <2>1. PICK R \in Seq(Row) : R = Tail(S)
    BY <1>2, HeadTailProperties
  <2>2. Len(R) = Len(S) - 1 /\ DOMAIN R = 1..Len(R) /\ \A k \in DOMAIN R : R[k] = S[k + 1]
    BY <1>2, <2>1, HeadTailProperties
  <2>3. R # << >>
    BY <1>3, <1>5, <2>2
  <2>4. \A k \in DOMAIN R : k + 1 \in DOMAIN S
    BY <1>3, <2>2
  <2>5. \A m \in DOMAIN S : m = 1 \/ (m - 1 \in DOMAIN R /\ R[m - 1] = S[m])
    BY <1>3, <2>2
  <2>6. RowLeft = [fuse EXCEPT !.rows = R]
    BY <1>2, <1>5, <2>1 DEF RowLeft
  <2>7. RowLeft = [pc |-> "row", entry |-> fuse.entry, rows |-> R]
    <3>1. fuse = [pc |-> fuse.pc, entry |-> fuse.entry, rows |-> fuse.rows]
      BY DEF Inv, TypeOK
    <3>2. PICK e, Q : e = fuse.entry /\ Q = fuse.rows
      OBVIOUS
    <3>3. fuse = [pc |-> "row", entry |-> e, rows |-> Q]
      BY <3>1, <3>2
    <3>4. [[pc |-> "row", entry |-> e, rows |-> Q] EXCEPT !.rows = R]
             = [pc |-> "row", entry |-> e, rows |-> R]
      OBVIOUS
    <3> QED
      BY <2>6, <3>2, <3>3, <3>4
  <2>8. \A k \in DOMAIN R : \E m \in DOMAIN S : R[k] = S[m]
    BY <2>2, <2>4
  <2>9. \A m \in DOMAIN S : S[m] = Head(S) \/ \E k \in DOMAIN R : R[k] = S[m]
    BY <1>3, <2>5
  <2>10. \E T \in Seq(Row) :
            /\ T # << >> /\ T = Tail(fuse.rows)
            /\ RowLeft = [pc |-> "row", entry |-> fuse.entry, rows |-> T]
            /\ \A k \in DOMAIN T : \E m \in DOMAIN fuse.rows : T[k] = fuse.rows[m]
            /\ \A m \in DOMAIN fuse.rows :
                  \/ fuse.rows[m] = Head(fuse.rows)
                  \/ \E k \in DOMAIN T : T[k] = fuse.rows[m]
    <3> WITNESS R \in Seq(Row)
    <3> QED
      BY ONLY <1>2, <2>1, <2>3, <2>7, <2>8, <2>9
  <2>11. Head(fuse.rows) \in Row /\ \E k \in DOMAIN fuse.rows : Head(fuse.rows) = fuse.rows[k]
    BY ONLY <1>2, <1>3
  <2> QED
    BY ONLY <1>1, <2>10, <2>11
<1> QED
  BY <1>4, <1>5

\* A new row at the end.
LEMMA AppendRow ==
    ASSUME Inv, NEW row \in Row, rows' = Append(rows, row)
    PROVE  /\ rows' \in Seq(Row) /\ Len(rows) + 1 \notin DOMAIN rows
           /\ DOMAIN rows' = DOMAIN rows \union {Len(rows) + 1}
           /\ rows'[Len(rows) + 1] = row
           /\ \A r \in DOMAIN rows : rows'[r] = rows[r]
BY Tables DEF Inv, TypeOK

\* The first row of the request is inserted: the ids still name files.
LEMMA FuseRowInv == ASSUME Inv, FuseRow PROVE Inv'
<1>1. PICK row \in Row : row = Head(fuse.rows) /\ Sound(row.id)
  BY RowLeftFacts, RequestSound DEF FuseRow, Asking
<1>2. /\ rows' \in Seq(Row) /\ DOMAIN rows' = DOMAIN rows \union {Len(rows) + 1}
      /\ rows'[Len(rows) + 1] = row /\ \A r \in DOMAIN rows : rows'[r] = rows[r]
  BY <1>1, AppendRow DEF FuseRow
<1>3. UNCHANGED <<server, db, disk, recent, ops, want, cycle, bounds>> /\ fuse' = RowLeft
  BY DEF FuseRow
<1>4. /\ fuse' \in [pc : {"idle", "row"}, entry : Entry, rows : Seq(Row)]
      /\ SoundRequest'
  <2>1. CASE RowLeft = Idle
    <3>1. fuse' = [pc |-> "idle", entry |-> NoEntry, rows |-> << >>]
      BY <1>3, <2>1 DEF Idle
    <3> QED
      BY <3>1, NothingIsTyped DEF SoundRequest, Asking
  <2>2. CASE \E R \in Seq(Row) :
                    /\ R # << >>
                    /\ RowLeft = [pc |-> "row", entry |-> fuse.entry, rows |-> R]
                    /\ \A k \in DOMAIN R : \E m \in DOMAIN fuse.rows : R[k] = fuse.rows[m]
    <3>1. PICK R \in Seq(Row) :
                    /\ R # << >>
                    /\ fuse' = [pc |-> "row", entry |-> fuse.entry, rows |-> R]
                    /\ \A k \in DOMAIN R : \E m \in DOMAIN fuse.rows : R[k] = fuse.rows[m]
      BY <1>3, <2>2
    <3>2. fuse'.pc = "row" /\ fuse'.entry = fuse.entry /\ fuse'.rows = R
      BY <3>1
    <3>3. Sound(fuse.entry.id) /\ \A k \in DOMAIN R : Sound(R[k].id)
      BY <3>1, RequestSound DEF FuseRow, Asking
    <3>4. SoundRequest'
      BY <1>3, <3>1, <3>2, <3>3 DEF SoundRequest, Sound, Asking
    <3> QED
      BY <3>1, <3>4, RequestFields
  <2> QED
    BY <2>1, <2>2, RowLeftFacts DEF FuseRow
<1>5. TypeOK'
  BY <1>2, <1>3, <1>4 DEF Inv, TypeOK, cycle, bounds
<1>6. SoundFiles' /\ SoundEntries' /\ SoundRows'
  BY <1>1, <1>2, <1>3 DEF Inv, SoundFiles, SoundEntries, SoundRows, Sound
<1>7. SoundCycle'
  BY <1>2, <1>3 DEF Inv, SoundCycle, Sound, cycle
<1> QED
  BY <1>4, <1>5, <1>6, <1>7 DEF Inv

\* The first row of the request is lost: the ids still name files.
LEMMA FuseRowFailsInv == ASSUME Inv, FuseRowFails PROVE Inv'
<1>1. /\ fuse' = RowLeft /\ Fault /\ Cut({FileOf(Head(fuse.rows).id)})
      /\ UNCHANGED <<server, db, disk, rows, recent, ops, cycle>> /\ fuse.pc = "row"
  BY DEF FuseRowFails
<1>2. want' \in Seq(Wish) /\ Len(want') = Len(want) /\ DOMAIN want' = DOMAIN want
  BY <1>1, CutEffect
<1>3. faults' \in 0..MaxFaults /\ crashes' = crashes
  BY <1>1, SizesAssumption DEF Fault, Inv, TypeOK
<1>4. PICK e \in Entry : e = fuse.entry /\ Sound(e.id)
  BY <1>1, RequestFields, RequestSound DEF Asking
<1>5. /\ db' \in Seq(Entry) /\ disk' \in Seq(Nat) /\ Len(want') = Len(db')
      /\ Len(disk') = Len(db')
  BY <1>1, <1>2 DEF Inv, TypeOK
<1>6. SoundEntries'
  BY <1>1, <1>2 DEF Inv, SoundEntries, Sound
<1>7. CASE RowLeft = Idle
  <2>1. PICK R \in Seq(Row) : R = fuse.rows /\ R # << >> /\ \A k \in DOMAIN R : Sound(R[k].id)
    BY <1>1, RequestFields, RequestSound, RowLeftFacts DEF Asking
  <2>2. fuse' = Idle
    BY <1>1, <1>7
  <2> QED
    BY <1>1, <1>2, <1>3, <1>4, <1>5, <1>6, <2>1, <2>2, StageInv DEF Asking
<1>8. CASE \E R \in Seq(Row) :
                    /\ R # << >>
                    /\ RowLeft = [pc |-> "row", entry |-> fuse.entry, rows |-> R]
                    /\ \A k \in DOMAIN R : \E m \in DOMAIN fuse.rows : R[k] = fuse.rows[m]
  <2>1. PICK R \in Seq(Row) :
                    /\ R # << >>
                    /\ fuse' = [pc |-> "row", entry |-> e, rows |-> R]
                    /\ \A k \in DOMAIN R : \E m \in DOMAIN fuse.rows : R[k] = fuse.rows[m]
    BY <1>1, <1>4, <1>8
  <2>2. \A k \in DOMAIN R : Sound(R[k].id)
    BY <1>1, <2>1, RequestSound DEF Asking
  <2> QED
    BY <1>1, <1>2, <1>3, <1>4, <1>5, <1>6, <2>1, <2>2, StageInv DEF Asking
<1> QED
  BY <1>1, <1>7, <1>8, RowLeftFacts

-----------------------------------------------------------------------------
(***************************************************************************)
(* The invariant Inv: the cycle.                                           *)
(***************************************************************************)

\* More files and more inodes; every id stays an id.
More ==
    /\ DOMAIN server \subseteq DOMAIN server' /\ DOMAIN want \subseteq DOMAIN want'
    /\ server' \in Seq(File) /\ want' \in Seq(Wish)

SameRows ==
    /\ rows' \in Seq(Row) /\ DOMAIN rows' = DOMAIN rows /\ recent' \subseteq DOMAIN rows
    /\ \A r \in DOMAIN rows : rows'[r].id = rows[r].id

Stage(p, T, c, i, a) ==
    /\ p \in {"idle", "squash", "loop", "begun", "entries", "rows", "get",
              "answered", "stored", "closing"}
    /\ T \subseteq Int /\ c \in Nat /\ i \in Row /\ a \in Entry

\* Where files and inodes are only added, an id keeps naming one.
LEMMA MoreSound == ASSUME Inv, More, NEW id, Sound(id) PROVE Sound(id)'
BY DEF More, Sound, IsId

\* What a step of the cycle may change of the ids.
LEMMA CycleInv ==
    ASSUME Inv, More, SoundFiles', SoundEntries', SoundRows', SoundCycle',
           db' \in Seq(Entry), disk' \in Seq(Nat), Len(want') = Len(db'), Len(disk') = Len(db'),
           rows' \in Seq(Row), recent' \subseteq DOMAIN rows',
           Stage(pc', todo', cur', item', answer'),
           faults' \in 0..MaxFaults, crashes' \in 0..MaxCrashes,
           fuse' = fuse \/ fuse' = Idle, ops' = ops
    PROVE  Inv'
<1>1. CASE fuse' = fuse
  <2>1. TypeOK'
    BY <1>1 DEF Inv, TypeOK, More, Stage
  <2>2. SoundRequest'
    BY <1>1, MoreSound DEF Inv, SoundRequest
  <2> QED
    BY <2>1, <2>2 DEF Inv
<1>2. CASE fuse' = Idle
  <2>1. fuse' = [pc |-> "idle", entry |-> NoEntry, rows |-> << >>]
    BY <1>2 DEF Idle
  <2>2. TypeOK'
    BY <2>1, NothingIsTyped DEF Inv, TypeOK, More, Stage
  <2>3. SoundRequest'
    BY <2>1 DEF SoundRequest, Asking
  <2> QED
    BY <2>2, <2>3 DEF Inv
<1> QED
  BY <1>1, <1>2

\* A step that leaves OneDrive and the table alone.
LEMMA RowStepInv ==
    ASSUME Inv, SameRows, SoundCycle',
           UNCHANGED <<server, db, disk>>, want' \in Seq(Wish), Len(want') = Len(want),
           Stage(pc', todo', cur', item', answer'),
           faults' \in 0..MaxFaults, crashes' \in 0..MaxCrashes,
           fuse' = fuse \/ fuse' = Idle, ops' = ops
    PROVE  Inv'
<1>1. DOMAIN want' = DOMAIN want
  BY Tables
<1>2. More
  BY <1>1 DEF More, Inv, TypeOK
<1>3. SoundFiles' /\ SoundEntries' /\ SoundRows'
  BY <1>1, <1>2, MoreSound DEF Inv, SoundFiles, SoundEntries, SoundRows, SameRows
<1>4. /\ db' \in Seq(Entry) /\ disk' \in Seq(Nat) /\ Len(want') = Len(db') /\ Len(disk') = Len(db')
      /\ rows' \in Seq(Row) /\ recent' \subseteq DOMAIN rows'
  BY <1>1 DEF Inv, TypeOK, SameRows
<1> QED
  BY <1>2, <1>3, <1>4, CycleInv

\* The cycle as it is has its types.
LEMMA StageNow == ASSUME Inv PROVE Stage(pc, todo, cur, item, answer)
BY DEF Inv, TypeOK, Stage

\* Rows that do not change.
LEMMA RowsNow == ASSUME Inv, UNCHANGED <<rows, recent>> PROVE SameRows
BY DEF Inv, TypeOK, SameRows

\* The counters of what fails stay in their bounds.
LEMMA BoundsNow ==
    ASSUME Inv
    PROVE  /\ faults \in 0..MaxFaults /\ crashes \in 0..MaxCrashes
           /\ Fault => faults' \in 0..MaxFaults /\ crashes' = crashes
           /\ want \in Seq(Wish)
BY SizesAssumption DEF Inv, TypeOK, Fault

\* A touched row keeps its id.
LEMMA TouchedRows ==
    ASSUME Inv, NEW r \in DOMAIN rows, NEW status \in Statuses, Touch(r, status)
    PROVE  SameRows
BY TouchEffect DEF SameRows

\* Five seconds pass: the ids still name files.
LEMMA TimePassesInv == ASSUME Inv, TimePasses PROVE Inv'
<1>1. UNCHANGED <<server, db, disk, rows, want, fuse, ops, pc, todo, cur, item, answer,
                  faults, crashes>> /\ recent' = {}
  BY DEF TimePasses, request, cycle, bounds
<1>2. SameRows
  BY <1>1 DEF SameRows, Inv, TypeOK
<1>3. SoundCycle'
  BY <1>1 DEF Inv, SoundCycle, Sound
<1> QED
  BY <1>1, <1>2, <1>3, StageNow, BoundsNow, RowStepInv

\* What is left when a cycle ends in the middle.
LEMMA EndedStage ==
    ASSUME Inv, EndCycle, UNCHANGED <<item, answer>>
    PROVE  Stage(pc', todo', cur', item', answer') /\ SoundCycle'
BY DEF Inv, TypeOK, Stage, EndCycle, SoundCycle, Handling, Answering

\* The process is killed: the ids still name files.
LEMMA CrashInv == ASSUME Inv, Crash PROVE Inv'
<1>1. /\ UNCHANGED <<server, db, disk, rows, recent, ops, item, answer, faults>>
      /\ EndCycle /\ fuse' = Idle /\ Cut(Requested \union Processed)
      /\ crashes < MaxCrashes /\ crashes' = crashes + 1
  BY DEF Crash
<1>2. want' \in Seq(Wish) /\ Len(want') = Len(want)
  BY <1>1, CutEffect
<1>3. crashes' \in 0..MaxCrashes /\ faults' \in 0..MaxFaults
  BY <1>1, SizesAssumption DEF Inv, TypeOK
<1> QED
  BY <1>1, <1>2, <1>3, RowsNow, EndedStage, RowStepInv

\* A cycle starts: the ids still name files.
LEMMA StartInv == ASSUME Inv, Start PROVE Inv'
<1>1. /\ UNCHANGED <<server, db, disk, rows, recent, want, fuse, ops, cur, item, answer,
                     faults, crashes>>
      /\ pc = "idle" /\ pc' = "squash"
      /\ todo' = {rows[r].id : r \in {s \in DOMAIN rows : rows[s].status \in {"new", "error"}}}
  BY DEF Start, request, bounds
<1>2. todo' \subseteq Int
  <2>1. \A r \in DOMAIN rows : rows[r].id \in Int
    BY Tables DEF Row
  <2> QED
    BY <1>1, <2>1
<1>3. Stage(pc', todo', cur', item', answer')
  BY <1>1, <1>2, StageNow DEF Stage
<1>4. SoundCycle'
  BY <1>1 DEF Inv, SoundCycle, Handling, Answering
<1> QED
  BY <1>1, <1>3, <1>4, RowsNow, BoundsNow, RowStepInv

\* All items are squashed: the ids still name files.
LEMMA SquashDoneInv == ASSUME Inv, SquashDone PROVE Inv'
<1>1. /\ UNCHANGED <<server, db, disk, rows, recent, want, fuse, ops, todo, cur, item, answer,
                     faults, crashes>>
      /\ pc = "squash" /\ pc' = "loop"
  BY DEF SquashDone, request, bounds
<1>2. Stage(pc', todo', cur', item', answer')
  BY <1>1, StageNow DEF Stage
<1>3. SoundCycle'
  BY <1>1 DEF Inv, SoundCycle, Handling, Answering
<1> QED
  BY <1>1, <1>2, <1>3, RowsNow, BoundsNow, RowStepInv

\* No row is left to select: the ids still name files.
LEMMA FinishInv == ASSUME Inv, Finish PROVE Inv'
<1>1. /\ UNCHANGED <<server, db, disk, rows, recent, want, fuse, ops, item, answer,
                     faults, crashes>>
      /\ EndCycle
  BY DEF Finish, request, bounds
<1> QED
  BY <1>1, EndedStage, RowsNow, BoundsNow, RowStepInv

\* What a rule of squashing does to the rows.
LEMMA SquashedEffect ==
    ASSUME Inv, NEW rs \in SUBSET DOMAIN rows, NEW gone \in SUBSET DOMAIN rows, Squashed(rs, gone)
    PROVE  /\ SameRows
           /\ \A r \in DOMAIN rows :
                 /\ rows'[r].at = rows[r].at
                 /\ r \in gone => rows'[r].status = "gone" /\ rows'[r].op = rows[r].op
                 /\ r \notin gone => rows'[r].status = rows[r].status
                 /\ \/ rows'[r].op = rows[r].op
                    \/ /\ rows'[r].op = "create" /\ CreatedAndModified(rs)
                       /\ r \in rs \ Surplus(rs)
                 /\ (CreatedAndModified(rs) /\ r \in rs \ Surplus(rs) /\ r \notin gone)
                       => rows'[r].op = "create"
<1> DEFINE final == IF CreatedAndModified(rs) THEN rs \ Surplus(rs) ELSE {}
           f(r) == IF r \in gone THEN [rows[r] EXCEPT !.status = "gone"]
                   ELSE IF r \in final THEN [rows[r] EXCEPT !.op = "create"]
                   ELSE rows[r]
<1>1. rows' = [r \in DOMAIN rows |-> f(r)] /\ recent' = recent \union final
  BY DEF Squashed
<1>2. final \subseteq rs
  OBVIOUS
<1>3. ASSUME NEW r \in DOMAIN rows
      PROVE  /\ f(r) \in Row /\ f(r).id = rows[r].id /\ f(r).at = rows[r].at
             /\ r \in gone => f(r).status = "gone" /\ f(r).op = rows[r].op
             /\ r \notin gone => f(r).status = rows[r].status
             /\ f(r).op = rows[r].op \/ (f(r).op = "create" /\ r \in final)
             /\ r \in final /\ r \notin gone => f(r).op = "create"
  <2>1. rows[r] \in Row
    BY Tables
  <2> HIDE DEF final
  <2>2. CASE r \in gone
    BY <2>1, <2>2 DEF Row
  <2>3. CASE r \notin gone /\ r \in final
    BY <2>1, <2>3 DEF Row
  <2>4. CASE r \notin gone /\ r \notin final
    BY <2>1, <2>4
  <2> QED
    BY <2>2, <2>3, <2>4
<1>4. \A r : r \in final <=> CreatedAndModified(rs) /\ r \in rs \ Surplus(rs)
  OBVIOUS
<1> HIDE DEF f, final
<1>5. rows' \in [DOMAIN rows -> Row] /\ rows \in Seq(Row) /\ recent \subseteq DOMAIN rows
  BY <1>1, <1>3 DEF Inv, TypeOK
<1>6. rows' \in Seq(Row) /\ DOMAIN rows' = DOMAIN rows
  BY <1>5, Rewritten
<1>7. SameRows
  BY <1>1, <1>2, <1>3, <1>5, <1>6 DEF SameRows
<1> QED
  BY <1>1, <1>3, <1>4, <1>7

\* The rows of an item and those the rules remove are rows of the table.
LEMMA RowsOfFacts ==
    ASSUME Inv, NEW id
    PROVE  RowsOf(id) \in SUBSET DOMAIN rows /\ Surplus(RowsOf(id)) \in SUBSET RowsOf(id)
BY DEF RowsOf, Surplus

\* The rows of an item are squashed: the ids still name files.
LEMMA SquashInv == ASSUME Inv, NEW id \in todo, Squash(id) PROVE Inv'
<1>1. /\ UNCHANGED <<server, db, disk, want, fuse, ops, pc, cur, item, answer, faults, crashes>>
      /\ Squashed(RowsOf(id), Surplus(RowsOf(id))) /\ todo' = todo \ {id} /\ pc = "squash"
  BY DEF Squash, request, bounds
<1>2. SameRows
  BY <1>1, RowsOfFacts, SquashedEffect
<1>3. Stage(pc', todo', cur', item', answer')
  BY <1>1, StageNow DEF Stage
<1>4. SoundCycle'
  BY <1>1 DEF Inv, SoundCycle, Handling, Answering
<1> QED
  BY <1>1, <1>2, <1>3, <1>4, BoundsNow, RowStepInv

\* The squashing of an item stops in the middle: the ids still name files.
LEMMA SquashStopsInv == ASSUME Inv, NEW id \in todo, SquashStops(id) PROVE Inv'
<1>1. PICK k \in Surplus(RowsOf(id)) :
         Squashed(RowsOf(id), {r \in Surplus(RowsOf(id)) : r < k})
  BY DEF SquashStops
<1>2. SameRows
  <2>1. PICK rs \in SUBSET DOMAIN rows, gone \in SUBSET DOMAIN rows :
           rs = RowsOf(id) /\ gone = {r \in Surplus(RowsOf(id)) : r < k}
    BY RowsOfFacts
  <2> QED
    BY <1>1, <2>1, SquashedEffect
<1>3. EndCycle /\ UNCHANGED <<server, db, disk, ops, item, answer>>
  BY DEF SquashStops
<1>4. CASE Fault /\ UNCHANGED <<fuse, want>>
  BY <1>2, <1>3, <1>4, EndedStage, BoundsNow, RowStepInv
<1>5. CASE /\ crashes < MaxCrashes /\ crashes' = crashes + 1
           /\ fuse' = Idle /\ Cut(Requested) /\ UNCHANGED faults
  <2>1. want' \in Seq(Wish) /\ Len(want') = Len(want)
    BY <1>5, CutEffect
  <2>2. crashes' \in 0..MaxCrashes /\ faults' \in 0..MaxFaults
    BY <1>5, SizesAssumption DEF Inv, TypeOK
  <2> QED
    BY <1>2, <1>3, <1>5, <2>1, <2>2, EndedStage, RowStepInv
<1> QED
  BY <1>4, <1>5 DEF SquashStops

\* A handler at a row: the row, its item and the entry.
LEMMA AtRow ==
    ASSUME Inv, pc \in Handling
    PROVE  /\ cur \in DOMAIN rows /\ Sound(item.id) /\ item \in Row /\ item.id \in Int
           /\ item.at \in Place /\ item.op \in Operations /\ item.status \in Statuses
           /\ answer \in Entry /\ answer.id \in Int /\ FileOf(item.id) \in DOMAIN want
<1>1. cur \in DOMAIN rows /\ Sound(item.id) /\ item \in Row /\ answer \in Entry
  BY DEF Inv, SoundCycle, TypeOK
<1> QED
  BY <1>1, IdsOfInts DEF Row, Entry, Operations, Statuses

\* The inode of an id that has an entry.
LEMMA KnownInode ==
    ASSUME NEW id, Known(id)
    PROVE  Inode(id) \in DOMAIN db /\ db[Inode(id)].id = id
BY DEF Known, Inode

\* The row failed.
LEMMA RowErrorInv ==
    ASSUME Inv, pc \in Handling, RowError
    PROVE  SameRows /\ SoundCycle' /\ pc' = "loop" /\ cur' = 0
<1>1. Touch(cur, "error") /\ pc' = "loop" /\ cur' = 0
  BY DEF RowError
<1>2. SameRows
  <2>1. PICK r \in DOMAIN rows : r = cur
    BY AtRow
  <2> QED
    BY <1>1, <2>1, TouchedRows DEF Statuses
<1>3. SoundCycle'
  BY <1>1 DEF SoundCycle, Handling, Answering
<1> QED
  BY <1>1, <1>2, <1>3

\* A row is taken up: the ids still name files.
LEMMA BeginInv == ASSUME Inv, NEW r \in DOMAIN rows, Begin(r) PROVE Inv'
<1>1. /\ UNCHANGED <<server, db, disk, want, fuse, ops, todo, answer, faults, crashes>>
      /\ Touch(r, "processing") /\ cur' = r /\ item' = rows[r] /\ pc' = "begun"
  BY DEF Begin, request, bounds
<1>2. SameRows
  BY <1>1, TouchedRows DEF Statuses
<1>3. Stage(pc', todo', cur', item', answer')
  BY <1>1, StageNow, Tables DEF Stage
<1>4. SoundCycle'
  BY <1>1, <1>2 DEF Inv, SoundRows, SoundCycle, Sound, SameRows, Handling, Answering
<1> QED
  BY <1>1, <1>2, <1>3, <1>4, BoundsNow, RowStepInv

\* A row is set aside as conflicted: the ids still name files.
LEMMA SetConflictedInv == ASSUME Inv, NEW r \in DOMAIN rows, SetConflicted(r) PROVE Inv'
<1>1. /\ UNCHANGED <<server, db, disk, want, fuse, ops, pc, todo, cur, item, answer, faults, crashes>>
      /\ Touch(r, "conflicted") /\ pc = "loop"
  BY DEF SetConflicted, request, cycle, bounds
<1>2. SameRows
  BY <1>1, TouchedRows DEF Statuses
<1>3. SoundCycle'
  BY <1>1 DEF Inv, SoundCycle, Handling, Answering
<1> QED
  BY <1>1, <1>2, <1>3, StageNow, BoundsNow, RowStepInv

\* The task of the cycle dies: the ids still name files.
LEMMA HandlerPanicsInv == ASSUME Inv, HandlerPanics PROVE Inv'
<1>1. /\ UNCHANGED <<server, db, disk, rows, recent, fuse, ops, item, answer, faults, crashes>>
      /\ EndCycle /\ Cut(Processed)
  BY DEF HandlerPanics, bounds
<1>2. want' \in Seq(Wish) /\ Len(want') = Len(want)
  BY <1>1, CutEffect
<1> QED
  BY <1>1, <1>2, EndedStage, RowsNow, BoundsNow, RowStepInv

\* The request of the handler is refused: the ids still name files.
LEMMA HandlerRefusedInv == ASSUME Inv, HandlerRefused PROVE Inv'
<1>1. /\ UNCHANGED <<server, db, disk, want, fuse, ops, todo, item, answer, faults, crashes>>
      /\ RowError /\ pc \in Handling
  BY DEF HandlerRefused, request, bounds, Handling
<1>2. SameRows /\ SoundCycle' /\ pc' = "loop" /\ cur' = 0
  BY <1>1, RowErrorInv
<1>3. Stage(pc', todo', cur', item', answer')
  BY <1>1, <1>2, StageNow DEF Stage
<1> QED
  BY <1>1, <1>2, <1>3, BoundsNow, RowStepInv

\* A request or a statement of the handler fails: the ids still name files.
LEMMA HandlerFailsInv == ASSUME Inv, HandlerFails PROVE Inv'
<1>1. /\ UNCHANGED <<server, db, disk, want, fuse, ops, todo, item, answer>>
      /\ Fault /\ RowError /\ pc \in Handling
  BY DEF HandlerFails, request, Handling
<1>2. SameRows /\ SoundCycle' /\ pc' = "loop" /\ cur' = 0
  BY <1>1, RowErrorInv
<1>3. Stage(pc', todo', cur', item', answer')
  BY <1>1, <1>2, StageNow DEF Stage
<1> QED
  BY <1>1, <1>2, <1>3, BoundsNow, RowStepInv

\* The row at hand is done: the ids still name files.
LEMMA FinishRowInv == ASSUME Inv, FinishRow PROVE Inv'
<1>1. /\ UNCHANGED <<server, db, disk, want, fuse, ops, todo, item, answer, faults, crashes>>
      /\ Touch(cur, "gone") /\ pc = "closing" /\ pc' = "loop" /\ cur' = 0
  BY DEF FinishRow, request, bounds
<1>2. SameRows
  <2>1. PICK r \in DOMAIN rows : r = cur
    BY <1>1, AtRow DEF Handling
  <2> QED
    BY <1>1, <2>1, TouchedRows DEF Statuses
<1>3. Stage(pc', todo', cur', item', answer')
  BY <1>1, StageNow DEF Stage
<1>4. SoundCycle'
  BY <1>1 DEF SoundCycle, Handling, Answering
<1> QED
  BY <1>1, <1>2, <1>3, <1>4, BoundsNow, RowStepInv

\* The uploaded item is read back: the ids still name files.
LEMMA GetItemInv == ASSUME Inv, GetItem PROVE Inv'
<1>1. /\ UNCHANGED <<server, db, disk, want, rows, recent, fuse, ops, todo, cur, item>>
      /\ pc = "get" /\ pc \in Handling
  BY DEF GetItem, request, Handling
<1>2. cur \in DOMAIN rows /\ Sound(item.id) /\ answer.id \in DOMAIN server /\ Sound(answer.id)
  BY <1>1 DEF Inv, SoundCycle, Handling, Answering
<1>3. CASE answer' = At(answer.id, server[answer.id].at) /\ pc' = "answered" /\ UNCHANGED bounds
  <2>1. server[answer.id] \in File /\ answer.id \in Int
    BY <1>1, <1>2, Tables, AtRow
  <2>2. answer' \in Entry /\ answer'.id = answer.id
    BY <1>3, <2>1, AtFacts DEF File
  <2>3. Stage(pc', todo', cur', item', answer')
    BY <1>1, <1>3, <2>2, StageNow DEF Stage
  <2>4. SoundCycle'
    BY <1>1, <1>2, <1>3, <2>2 DEF SoundCycle, Sound, Handling, Answering
  <2> QED
    BY <1>1, <1>3, <2>3, <2>4, RowsNow, BoundsNow, RowStepInv DEF bounds
<1>4. CASE Fault /\ pc' = "closing" /\ UNCHANGED answer
  <2>1. Stage(pc', todo', cur', item', answer')
    BY <1>1, <1>4, StageNow DEF Stage
  <2>2. SoundCycle'
    BY <1>1, <1>2, <1>4 DEF SoundCycle, Sound, Handling, Answering
  <2> QED
    BY <1>1, <1>4, <2>1, <2>2, RowsNow, BoundsNow, RowStepInv
<1> QED
  BY <1>3, <1>4 DEF GetItem

\* The rows get the id OneDrive gave the file.
LEMMA RewriteRowsEffect ==
    ASSUME Inv, RewriteRows
    PROVE  /\ rows' \in Seq(Row) /\ DOMAIN rows' = DOMAIN rows
           /\ \A r \in DOMAIN rows :
                 /\ rows'[r].id = (IF rows[r].id = item.id THEN answer.id ELSE rows[r].id)
                 /\ rows'[r].op = rows[r].op /\ rows'[r].at = rows[r].at
                 /\ rows'[r].status = rows[r].status
<1> DEFINE f(r) == IF rows[r].id = item.id THEN [rows[r] EXCEPT !.id = answer.id] ELSE rows[r]
<1>1. answer.id \in Int
  BY AtRow DEF RewriteRows, Handling
<1>2. ASSUME NEW r \in DOMAIN rows
      PROVE  /\ f(r) \in Row
             /\ f(r).id = (IF rows[r].id = item.id THEN answer.id ELSE rows[r].id)
             /\ f(r).op = rows[r].op /\ f(r).at = rows[r].at /\ f(r).status = rows[r].status
  BY <1>1, Tables DEF Row
<1>3. rows' = [r \in DOMAIN rows |-> f(r)] /\ rows \in Seq(Row)
  BY DEF RewriteRows, Inv, TypeOK
<1> HIDE DEF f
<1>4. rows' \in [DOMAIN rows -> Row]
  BY <1>2, <1>3
<1> QED
  BY <1>2, <1>3, <1>4, Rewritten

\* The rows get the id OneDrive gave: the ids still name files.
LEMMA RewriteRowsInv == ASSUME Inv, RewriteRows PROVE Inv'
<1>1. /\ UNCHANGED <<server, db, disk, want, recent, fuse, ops, todo, cur, item, answer,
                     faults, crashes>>
      /\ pc = "rows" /\ pc' = "get"
  BY DEF RewriteRows, request, bounds
<1>2. cur \in DOMAIN rows /\ Sound(item.id) /\ answer.id \in DOMAIN server /\ Sound(answer.id)
  BY <1>1 DEF Inv, SoundCycle, Handling, Answering
<1>3. rows' \in Seq(Row) /\ DOMAIN rows' = DOMAIN rows
      /\ \A r \in DOMAIN rows :
            rows'[r].id = IF rows[r].id = item.id THEN answer.id ELSE rows[r].id
  BY RewriteRowsEffect
<1>4. SoundRows' /\ SoundFiles' /\ SoundEntries' /\ More
  BY <1>1, <1>2, <1>3 DEF Inv, SoundRows, SoundFiles, SoundEntries, Sound, More, TypeOK
<1>5. SoundCycle'
  BY <1>1, <1>2, <1>3 DEF SoundCycle, Sound, Handling, Answering
<1>6. Stage(pc', todo', cur', item', answer')
  BY <1>1, StageNow DEF Stage
<1>7. /\ db' \in Seq(Entry) /\ disk' \in Seq(Nat) /\ Len(want') = Len(db')
      /\ Len(disk') = Len(db') /\ recent' \subseteq DOMAIN rows'
      /\ faults' \in 0..MaxFaults /\ crashes' \in 0..MaxCrashes
  BY <1>1, <1>3 DEF Inv, TypeOK
<1> QED
  BY <1>1, <1>3, <1>4, <1>5, <1>6, <1>7, CycleInv

\* A file of OneDrive is made or replaced.
Put(id, w) ==
    /\ w \in File /\ server' \in Seq(File) /\ DOMAIN server' = DOMAIN server \union {id}
    /\ server'[id] = w /\ \A s \in DOMAIN server \ {id} : server'[s] = server[s]

\* Nothing of a file changes but its content.
Overwritten(w, f, content, i) ==
    /\ w \in File /\ w.content = content /\ w.by = i
    /\ w.at = f.at /\ w.live = f.live /\ w.owner = f.owner /\ w.stray = f.stray

\* A file of OneDrive gets a content.
LEMMA FileOverwritten ==
    ASSUME NEW f \in File, NEW c \in Nat, NEW i \in Nat
    PROVE  Overwritten([[f EXCEPT !.content = c] EXCEPT !.by = i], f, c, i)
<1> DEFINE v == [f EXCEPT !.content = c]
           w == [v EXCEPT !.by = i]
<1>1. v \in File
  BY DEF File
<1>2. v.content = c /\ v.at = f.at /\ v.owner = f.owner
  BY DEF File
<1>3. v.live = f.live /\ v.stray = f.stray
  BY DEF File
<1> HIDE DEF v
<1>4. w \in File
  BY <1>1 DEF File
<1>5. w.content = v.content /\ w.by = i /\ w.at = v.at /\ w.owner = v.owner
  BY <1>1 DEF File
<1>6. w.live = v.live /\ w.stray = v.stray
  BY <1>1 DEF File
<1> HIDE DEF w
<1>7. Overwritten(w, f, c, i)
  BY <1>2, <1>3, <1>4, <1>5, <1>6 DEF Overwritten
<1> QED
  BY <1>7 DEF v, w

\* An upload to a file that is there changes no other.
LEMMA ServerOverwritten ==
    ASSUME Inv, NEW id \in DOMAIN server, NEW c \in Nat, NEW i \in Nat,
           server' = [server EXCEPT ![id].content = c, ![id].by = i]
    PROVE  \E w \in File : Put(id, w) /\ Overwritten(w, server[id], c, i)
<1>1. server \in Seq(File)
  BY DEF Inv, TypeOK
<1>2. PICK f \in File : f = server[id]
  BY Tables
<1> DEFINE v == [f EXCEPT !.content = c]
<1>3. PICK w : w = [v EXCEPT !.by = i]
  OBVIOUS
<1>7. Overwritten(w, f, c, i)
  BY <1>3, FileOverwritten
<1>8. w \in File
  BY <1>7 DEF Overwritten
<1>9. id \in DOMAIN server
  OBVIOUS
<1>4. server' = [server EXCEPT ![id] = w]
  BY <1>1, <1>2, <1>3
<1>5. /\ server' \in Seq(File) /\ DOMAIN server' = DOMAIN server /\ server'[id] = w
      /\ \A s \in DOMAIN server \ {id} : server'[s] = server[s]
  BY ONLY <1>1, <1>4, <1>8, <1>9, ReplaceOne
<1>6. Put(id, w)
  BY ONLY <1>5, <1>8, <1>9 DEF Put
<1> QED
  BY ONLY <1>2, <1>7, <1>6, <1>8

\* A file that OneDrive creates.
LEMMA MadeFacts ==
    ASSUME NEW p \in Place, NEW c \in Nat, NEW i \in Nat, NEW r \in Nat,
           NEW w, w = Made(p, c, i, r)
    PROVE  /\ w \in File /\ w.content = c /\ w.by = i /\ w.owner = i /\ w.at = p
           /\ w.live /\ ~w.stray
BY DEF Made, File

\* A new file gets the next index.
LEMMA ServerAppended ==
    ASSUME Inv, NEW w \in File, server' = Append(server, w)
    PROVE  Put(Len(server) + 1, w) /\ Len(server) + 1 \notin DOMAIN server
           /\ Len(server) + 1 \in Nat \ {0}
BY Tables DEF Inv, TypeOK, Put

\* An upload by name reaches the file of that name, or makes one.
Uploaded(i, id) ==
    /\ i \in DOMAIN db /\ db[i].id = item.id /\ disk[i] # 0 /\ answer' = At(id, item.at)
    /\ \/ /\ id \in DOMAIN server /\ server[id].live /\ server[id].at = item.at
          /\ \E w \in File : Put(id, w) /\ Overwritten(w, server[id], disk[i], i)
       \/ /\ id \notin DOMAIN server
          /\ \E w \in File : /\ Put(id, w) /\ w.content = disk[i] /\ w.by = i /\ w.owner = i
                             /\ w.at = item.at /\ w.live /\ ~w.stray

\* What an upload by name does: it meets a file of that name, or makes one.
LEMMA UploadNewEffect ==
    ASSUME Inv, UploadNew
    PROVE  \E i \in DOMAIN db, id \in Nat \ {0} : Uploaded(i, id)
<1>1. PICK i \in DOMAIN db : i = Inode(item.id) /\ db[i].id = item.id /\ disk[i] # 0
  BY KnownInode DEF UploadNew, Granted
<1>2. PICK id \in 1..Len(server) + 1 : PutNew(item.at, i, id) /\ answer' = At(id, item.at)
  BY <1>1 DEF UploadNew
<1>3. PICK c \in Nat : c = disk[i] /\ c # 0
  BY <1>1, Tables
<1>4. i \in Nat /\ cur \in Nat /\ item.at \in Place /\ id \in Nat \ {0}
  BY <1>2, Tables, AtRow DEF UploadNew, Handling
<1>5. CASE /\ id \in Taken(item.at)
           /\ server' = [server EXCEPT ![id].content = c, ![id].by = i]
  <2>1. id \in DOMAIN server /\ server[id].live /\ server[id].at = item.at
    BY <1>5 DEF Taken
  <2>2. \E w \in File : Put(id, w) /\ Overwritten(w, server[id], c, i)
    BY <1>4, <1>5, <2>1, ServerOverwritten
  <2> QED
    BY <1>1, <1>2, <1>3, <1>4, <2>1, <2>2 DEF Uploaded
<1>6. CASE id = Len(server) + 1 /\ server' = Append(server, Made(item.at, c, i, cur))
  <2>3. PICK w : w = Made(item.at, c, i, cur)
    OBVIOUS
  <2>1. /\ w \in File /\ w.content = c /\ w.by = i /\ w.owner = i /\ w.at = item.at
        /\ w.live /\ ~w.stray
    <3>1. PICK p \in Place, r \in Nat : p = item.at /\ r = cur
      BY <1>4
    <3>2. w = Made(p, c, i, r)
      BY <2>3, <3>1
    <3>4. p \in Place /\ c \in Nat /\ i \in Nat /\ r \in Nat
      BY <1>4
    <3>3. w \in File /\ w.content = c /\ w.by = i /\ w.owner = i /\ w.at = p /\ w.live /\ ~w.stray
      BY ONLY <3>2, <3>4, MadeFacts
    <3> QED
      BY <3>1, <3>3
  <2>2. Put(id, w) /\ id \notin DOMAIN server
    BY <1>6, <2>1, <2>3, ServerAppended
  <2> QED
    BY <1>1, <1>2, <1>3, <1>4, <2>1, <2>2 DEF Uploaded
<1> QED
  BY <1>2, <1>3, <1>5, <1>6 DEF PutNew

\* The answer of a request to OneDrive arrives or is lost.
LEMMA OutcomeFacts ==
    ASSUME Inv, pc \in Handling, NEW next, Outcome(next), UNCHANGED <<todo, item>>,
           answer' \in Entry,
           next \in {"entries", "answered"}
    PROVE  /\ SameRows /\ faults' \in 0..MaxFaults /\ crashes' \in 0..MaxCrashes
           /\ Stage(pc', todo', cur', item', answer')
           /\ \/ pc' = next /\ UNCHANGED <<rows, recent, cur>>
              \/ pc' = "loop" /\ cur' = 0 /\ SoundCycle' /\ RowError
<1>1. CASE pc' = next /\ UNCHANGED <<rows, recent, cur, bounds>>
  BY <1>1, RowsNow, StageNow, BoundsNow DEF Stage, bounds
<1>2. CASE Fault /\ RowError
  <2>1. SameRows /\ SoundCycle' /\ pc' = "loop" /\ cur' = 0
    BY <1>2, RowErrorInv
  <2> QED
    BY <1>2, <2>1, StageNow, BoundsNow DEF Stage
<1> QED
  BY <1>1, <1>2 DEF Outcome

\* A request that reached OneDrive.
LEMMA SentInv ==
    ASSUME Inv, pc = "begun", NEW next, Outcome(next), next \in {"entries", "answered"},
           More, SoundFiles', answer' \in Entry, Sound(answer.id)',
           next = "entries" => answer'.id \in DOMAIN server',
           UNCHANGED <<db, disk, want, fuse, ops, todo, item>>
    PROVE  Inv'
<1>1. /\ SameRows /\ faults' \in 0..MaxFaults /\ crashes' \in 0..MaxCrashes
      /\ Stage(pc', todo', cur', item', answer')
      /\ \/ pc' = next /\ UNCHANGED <<rows, recent, cur>>
         \/ pc' = "loop" /\ cur' = 0 /\ SoundCycle' /\ RowError
  BY OutcomeFacts DEF Handling
<1>2. SoundEntries' /\ SoundRows'
  BY <1>1, MoreSound DEF Inv, SoundEntries, SoundRows, SameRows
<1>3. SoundCycle'
  <2>1. cur \in DOMAIN rows /\ Sound(item.id)
    BY DEF Inv, SoundCycle, Handling
  <2>2. CASE pc' = next /\ UNCHANGED <<rows, recent, cur>>
    BY <2>1, <2>2, MoreSound DEF SoundCycle, Handling, Answering
  <2> QED
    BY <1>1, <2>2
<1>4. /\ db' \in Seq(Entry) /\ disk' \in Seq(Nat) /\ Len(want') = Len(db')
      /\ Len(disk') = Len(db') /\ rows' \in Seq(Row) /\ recent' \subseteq DOMAIN rows'
  BY <1>1 DEF Inv, TypeOK, SameRows
<1> QED
  BY <1>1, <1>2, <1>3, <1>4, CycleInv

\* The files there are, when one is made or replaced.
LEMMA PutMore ==
    ASSUME Inv, NEW id, NEW w, Put(id, w), UNCHANGED want, w.owner \in DOMAIN want
    PROVE  More /\ SoundFiles'
BY DEF Put, More, Inv, TypeOK, SoundFiles

\* A file is uploaded by its name: the ids still name files.
LEMMA UploadNewInv == ASSUME Inv, UploadNew PROVE Inv'
<1>1. PICK i \in DOMAIN db, id \in Nat \ {0} : Uploaded(i, id)
  BY UploadNewEffect
<1>2. /\ pc = "begun" /\ Outcome("entries") /\ UNCHANGED <<db, disk, want, fuse, ops, todo, item>>
  BY DEF UploadNew, request
<1>3. answer' \in Entry /\ answer'.id = id
  BY <1>1, <1>2, AtRow, AtFacts DEF Uploaded, Handling
<1>4. PICK w \in File : Put(id, w) /\ w.owner \in DOMAIN want
  <2>1. CASE id \in DOMAIN server
    BY <1>1, <2>1 DEF Uploaded, Overwritten, Inv, SoundFiles
  <2>2. CASE id \notin DOMAIN server
    BY <1>1, <2>2, Tables DEF Uploaded
  <2> QED
    BY <2>1, <2>2
<1>5. More /\ SoundFiles'
  BY <1>2, <1>4, PutMore
<1>6. answer'.id \in DOMAIN server'
  BY <1>3, <1>4 DEF Put
<1>7. Sound(answer.id)'
  BY <1>6 DEF Sound, IsId
<1> QED
  BY <1>2, <1>3, <1>5, <1>6, <1>7, SentInv

\* The content of an update goes to the file of that id.
LEMMA UploadChangeEffect ==
    ASSUME Inv, UploadChange
    PROVE  \E i \in DOMAIN db :
              /\ db[i].id = item.id /\ disk[i] # 0 /\ answer' = db[i]
              /\ item.id \in DOMAIN server /\ server[item.id].live
              /\ \E w \in File : Put(item.id, w) /\ Overwritten(w, server[item.id], disk[i], i)
<1>1. PICK i \in DOMAIN db : i = Inode(item.id) /\ db[i].id = item.id /\ disk[i] # 0
  BY KnownInode DEF UploadChange, Granted
<1>2. item.id \in DOMAIN server /\ server[item.id].live
  BY DEF UploadChange, Granted, There
<1>3. PICK c \in Nat, id \in DOMAIN server : c = disk[i] /\ id = item.id
  BY <1>1, <1>2, Tables
<1>4. server' = [server EXCEPT ![id].content = c, ![id].by = i] /\ answer' = db[i]
  BY <1>1, <1>3 DEF UploadChange
<1>5. i \in Nat
  BY Tables
<1>6. \E w \in File : Put(id, w) /\ Overwritten(w, server[id], c, i)
  BY <1>4, <1>5, ServerOverwritten
<1> QED
  BY <1>1, <1>2, <1>3, <1>4, <1>6

\* A file is uploaded by its id: the ids still name files.
LEMMA UploadChangeInv == ASSUME Inv, UploadChange PROVE Inv'
<1>1. PICK i \in DOMAIN db :
         /\ answer' = db[i] /\ item.id \in DOMAIN server
         /\ \E w \in File : Put(item.id, w) /\ Overwritten(w, server[item.id], disk[i], i)
  BY UploadChangeEffect
<1>2. /\ pc = "begun" /\ Outcome("answered") /\ UNCHANGED <<db, disk, want, fuse, ops, todo, item>>
  BY DEF UploadChange, request
<1>3. answer' \in Entry /\ Sound(db[i].id)
  BY <1>1, EntryFacts
<1>4. More /\ SoundFiles'
  <2>1. PICK w \in File : Put(item.id, w) /\ w.owner \in DOMAIN want
    BY <1>1 DEF Overwritten, Inv, SoundFiles
  <2> QED
    BY <1>2, <2>1, PutMore
<1>5. Sound(answer.id)'
  BY <1>1, <1>3, <1>4, MoreSound DEF Sound
<1> QED
  BY <1>2, <1>3, <1>4, <1>5, SentInv

\* Files change in place only.
InPlace(s) ==
    /\ server'[s].owner = server[s].owner /\ server'[s].content = server[s].content
    /\ server'[s].by = server[s].by

\* A step that keeps the owners of all files.
LEMMA InPlaceMore ==
    ASSUME Inv, server' \in Seq(File), DOMAIN server' = DOMAIN server,
           \A s \in DOMAIN server : InPlace(s), UNCHANGED want
    PROVE  More /\ SoundFiles'
BY DEF InPlace, More, Inv, TypeOK, SoundFiles

\* The files at the path of the entry are deleted.
LEMMA DeleteEffect ==
    ASSUME Inv, DeleteOnServer
    PROVE  /\ server' \in Seq(File) /\ DOMAIN server' = DOMAIN server
           /\ \A s \in DOMAIN server :
                 /\ InPlace(s) /\ server'[s].at = server[s].at
                 /\ server'[s].stray = server[s].stray
           /\ \E i \in DOMAIN db :
                 /\ db[i].id = item.id
                 /\ \A s \in DOMAIN server :
                       \/ server'[s].live = server[s].live
                       \/ ~server'[s].live /\ server[s].at = db[i].path
<1>1. PICK i \in DOMAIN db : i = Inode(item.id) /\ db[i].id = item.id
  BY KnownInode DEF DeleteOnServer, Granted
<1> DEFINE f(s) == IF s \in Taken(db[i].path)
                   THEN [server[s] EXCEPT !.live = FALSE] ELSE server[s]
<1>2. server' = [s \in DOMAIN server |-> f(s)] /\ server \in Seq(File)
  BY <1>1 DEF DeleteOnServer, Inv, TypeOK
<1>3. ASSUME NEW s \in DOMAIN server
      PROVE  /\ f(s) \in File /\ f(s).owner = server[s].owner
             /\ f(s).content = server[s].content /\ f(s).by = server[s].by
             /\ f(s).at = server[s].at /\ f(s).stray = server[s].stray
             /\ f(s).live = server[s].live \/ (~f(s).live /\ server[s].at = db[i].path)
  <2>1. server[s] \in File
    BY Tables
  <2>2. CASE s \in Taken(db[i].path)
    <3>1. server[s].at = db[i].path
      BY <2>2 DEF Taken
    <3>2. PICK w : w = [server[s] EXCEPT !.live = FALSE]
      OBVIOUS
    <3>3. w \in File /\ w.owner = server[s].owner /\ w.content = server[s].content
          /\ w.by = server[s].by /\ w.at = server[s].at
      BY <2>1, <3>2 DEF File
    <3>4. ~w.live /\ w.stray = server[s].stray
      BY <2>1, <3>2 DEF File
    <3>5. f(s) = w
      BY <2>2, <3>2
    <3> HIDE DEF f
    <3> QED
      BY <3>1, <3>3, <3>4, <3>5
  <2>3. CASE s \notin Taken(db[i].path)
    BY <2>1, <2>3
  <2> QED
    BY <2>2, <2>3
<1> HIDE DEF f
<1>4. server' \in [DOMAIN server -> File]
  BY <1>2, <1>3
<1>5. server' \in Seq(File) /\ DOMAIN server' = DOMAIN server
  BY <1>2, <1>4, Rewritten
<1>6. \A s \in DOMAIN server : server'[s] = f(s)
  BY <1>2
<1> QED
  BY <1>1, <1>3, <1>5, <1>6 DEF InPlace

\* A file is deleted by its path: the ids still name files.
LEMMA DeleteOnServerInv == ASSUME Inv, DeleteOnServer PROVE Inv'
<1>1. /\ pc = "begun" /\ Outcome("answered") /\ answer' = At(item.id, item.at)
      /\ UNCHANGED <<db, disk, want, fuse, ops, todo, item>>
  BY DEF DeleteOnServer, request
<1>2. More /\ SoundFiles'
  BY <1>1, DeleteEffect, InPlaceMore
<1>3. item.id \in Int /\ item.at \in Place /\ Sound(item.id)
  BY <1>1, AtRow DEF Handling
<1>4. answer' \in Entry /\ answer'.id = item.id
  BY <1>1, <1>3, AtFacts
<1>5. Sound(answer.id)'
  BY <1>2, <1>3, <1>4, MoreSound DEF Sound
<1> QED
  BY <1>1, <1>2, <1>4, <1>5, SentInv

\* One file gets another place, and may stray.
LEMMA RelocateEffect ==
    ASSUME Inv, Relocate
    PROVE  /\ server' \in Seq(File) /\ DOMAIN server' = DOMAIN server
           /\ item.id \in DOMAIN server /\ Target \in Place
           /\ \A s \in DOMAIN server :
                 /\ InPlace(s) /\ server'[s].live = server[s].live
                 /\ s # item.id => server'[s] = server[s]
           /\ server'[item.id].at = Target
           /\ server'[item.id].stray =
                 (server[item.id].stray \/ Target \notin want[server[item.id].owner].been)
<1>1. item.id \in DOMAIN server /\ cur \in Nat /\ pc = "begun"
  BY DEF Relocate, Granted, There, Inv, TypeOK
<1>2. PICK id \in DOMAIN server, f \in File : id = item.id /\ f = server[id]
  BY <1>1, Tables
<1>3. Target \in Place
  <2>1. f.at \in Place /\ item.at \in Place
    BY <1>1, <1>2, AtRow DEF File, Handling
  <2> QED
    BY <1>2, <2>1 DEF Target, Place
<1>4. PICK p \in Place : p = Target
  BY <1>3
<1>5. PICK st \in BOOLEAN : st = (f.stray \/ p \notin want[server[item.id].owner].been)
  OBVIOUS
<1>6. PICK un \in BOOLEAN : un = (f.undone \/ cur < f.placed)
  OBVIOUS
<1>7. PICK w : w = [f EXCEPT !.at = p, !.placed = cur, !.stray = st, !.undone = un]
  OBVIOUS
<1>8. w \in File
  BY <1>1, <1>7 DEF File
<1>9. w.at = p /\ w.owner = f.owner /\ w.content = f.content /\ w.by = f.by
  BY <1>7 DEF File
<1>10. w.live = f.live /\ w.stray = st
  BY <1>7 DEF File
<1>11. server' = [server EXCEPT ![id] = w]
  <2>1. server' = [server EXCEPT ![id] =
              [f EXCEPT !.at = p, !.placed = cur,
                        !.stray = f.stray \/ p \notin want[f.owner].been,
                        !.undone = f.undone \/ cur < f.placed]]
    BY <1>2, <1>4 DEF Relocate
  <2>2. st = (f.stray \/ p \notin want[f.owner].been)
    BY <1>2, <1>5
  <2> QED
    BY <2>1, <2>2, <1>6, <1>7
<1>12. server \in Seq(File)
  BY DEF Inv, TypeOK
<1>13. /\ server' \in Seq(File) /\ DOMAIN server' = DOMAIN server /\ server'[id] = w
       /\ \A s \in DOMAIN server \ {id} : server'[s] = server[s]
  BY <1>8, <1>11, <1>12, ReplaceOne
<1>14. ASSUME NEW s \in DOMAIN server
       PROVE  InPlace(s) /\ server'[s].live = server[s].live /\ (s # item.id => server'[s] = server[s])
  BY <1>2, <1>9, <1>10, <1>13 DEF InPlace
<1> QED
  BY <1>2, <1>4, <1>5, <1>9, <1>10, <1>13, <1>14

\* A file is moved or renamed by its id: the ids still name files.
LEMMA RelocateInv == ASSUME Inv, Relocate PROVE Inv'
<1>1. /\ pc = "begun" /\ Outcome("answered") /\ answer' = At(item.id, Target)
      /\ UNCHANGED <<db, disk, want, fuse, ops, todo, item>>
  BY DEF Relocate, request
<1>2. More /\ SoundFiles'
  BY <1>1, RelocateEffect, InPlaceMore
<1>3. item.id \in Int /\ Sound(item.id)
  BY <1>1, AtRow DEF Handling
<1>4. answer' \in Entry /\ answer'.id = item.id
  BY <1>1, <1>3, RelocateEffect, AtFacts
<1>5. Sound(answer.id)'
  BY <1>2, <1>3, <1>4, MoreSound DEF Sound
<1> QED
  BY <1>1, <1>2, <1>4, <1>5, SentInv

\* The entry gets the id OneDrive gave the file, if no other has it.
LEMMA RewriteEntryEffect ==
    ASSUME Inv, RewriteEntry
    PROVE  \/ RowError /\ UNCHANGED db
           \/ /\ pc' = "rows" /\ UNCHANGED <<rows, recent, cur>>
              /\ db' \in Seq(Entry) /\ Len(db') = Len(db) /\ DOMAIN db' = DOMAIN db
              /\ \A i \in DOMAIN db :
                    /\ db'[i].id = (IF db[i].id = item.id THEN answer.id ELSE db[i].id)
                    /\ db'[i].at = db[i].at /\ db'[i].path = db[i].path
<1>1. CASE RowError /\ UNCHANGED db
  BY <1>1
<1>2. CASE /\ db' = [i \in DOMAIN db |-> IF db[i].id = item.id
                                         THEN [db[i] EXCEPT !.id = answer.id] ELSE db[i]]
           /\ pc' = "rows" /\ UNCHANGED <<rows, recent, cur>>
  <2> DEFINE f(i) == IF db[i].id = item.id THEN [db[i] EXCEPT !.id = answer.id] ELSE db[i]
  <2>1. answer.id \in Int
    BY AtRow DEF RewriteEntry, Handling
  <2>2. ASSUME NEW i \in DOMAIN db
        PROVE  /\ f(i) \in Entry
               /\ f(i).id = (IF db[i].id = item.id THEN answer.id ELSE db[i].id)
               /\ f(i).at = db[i].at /\ f(i).path = db[i].path
    BY <2>1, Tables DEF Entry
  <2>3. db' = [i \in DOMAIN db |-> f(i)] /\ db \in Seq(Entry)
    BY <1>2 DEF Inv, TypeOK
  <2> HIDE DEF f
  <2>4. db' \in [DOMAIN db -> Entry]
    BY <2>2, <2>3
  <2>5. db' \in Seq(Entry) /\ Len(db') = Len(db) /\ DOMAIN db' = DOMAIN db
    BY <2>3, <2>4, Rewritten
  <2> QED
    BY <1>2, <2>2, <2>3, <2>5
<1> QED
  BY <1>1, <1>2 DEF RewriteEntry

\* The entry gets the id OneDrive gave: the ids still name files.
LEMMA RewriteEntryInv == ASSUME Inv, RewriteEntry PROVE Inv'
<1>1. /\ UNCHANGED <<server, disk, want, fuse, ops, todo, item, answer, faults, crashes>>
      /\ pc = "entries" /\ pc \in Handling
  BY DEF RewriteEntry, request, bounds, Handling
<1>2. cur \in DOMAIN rows /\ Sound(item.id) /\ answer.id \in DOMAIN server /\ Sound(answer.id)
  BY <1>1 DEF Inv, SoundCycle, Handling, Answering
<1>3. CASE RowError /\ UNCHANGED db
  <2>1. SameRows /\ SoundCycle' /\ pc' = "loop" /\ cur' = 0
    BY <1>1, <1>3, RowErrorInv
  <2>2. Stage(pc', todo', cur', item', answer')
    BY <1>1, <2>1, StageNow DEF Stage
  <2> QED
    BY <1>1, <1>3, <2>1, <2>2, BoundsNow, RowStepInv
<1>4. CASE /\ pc' = "rows" /\ UNCHANGED <<rows, recent, cur>>
           /\ db' \in Seq(Entry) /\ Len(db') = Len(db) /\ DOMAIN db' = DOMAIN db
           /\ \A i \in DOMAIN db :
                 db'[i].id = IF db[i].id = item.id THEN answer.id ELSE db[i].id
  <2>1. SoundEntries' /\ SoundFiles' /\ SoundRows' /\ More
    BY <1>1, <1>2, <1>4 DEF Inv, SoundEntries, SoundFiles, SoundRows, Sound, More, TypeOK
  <2>2. SoundCycle'
    BY <1>1, <1>2, <1>4 DEF SoundCycle, Sound, Handling, Answering
  <2>3. Stage(pc', todo', cur', item', answer')
    BY <1>1, <1>4, StageNow DEF Stage
  <2>4. /\ disk' \in Seq(Nat) /\ Len(want') = Len(db') /\ Len(disk') = Len(db')
        /\ rows' \in Seq(Row) /\ recent' \subseteq DOMAIN rows'
        /\ faults' \in 0..MaxFaults /\ crashes' \in 0..MaxCrashes
    BY <1>1, <1>4 DEF Inv, TypeOK
  <2> QED
    BY <1>1, <1>4, <2>1, <2>2, <2>3, <2>4, CycleInv
<1> QED
  BY <1>3, <1>4, RewriteEntryEffect

\* The answer is stored, in its entry or in a new inode: the ids still name files.
LEMMA StoreAnswerInv == ASSUME Inv, StoreAnswer PROVE Inv'
<1>1. /\ UNCHANGED <<server, rows, recent, fuse, ops, todo, cur, item, answer, faults, crashes>>
      /\ pc = "answered" /\ pc \in Handling /\ pc' \in {"closing", "stored"}
  BY DEF StoreAnswer, bounds, Handling
<1>2. cur \in DOMAIN rows /\ Sound(item.id) /\ Sound(answer.id)
  BY <1>1 DEF Inv, SoundCycle, Handling, Answering
<1>3. PICK e \in Entry : e = answer /\ Sound(e.id)
  BY <1>1, <1>2, AtRow
<1>4. /\ db' \in Seq(Entry) /\ disk' \in Seq(Nat) /\ want' \in Seq(Wish)
      /\ Len(want') = Len(db') /\ Len(disk') = Len(db')
      /\ DOMAIN want \subseteq DOMAIN want' /\ SoundEntries'
  <2>1. CASE db' = Update(e) /\ UNCHANGED <<disk, want>>
    <3>1. /\ db' \in Seq(Entry) /\ Len(db') = Len(db) /\ DOMAIN db' = DOMAIN db
          /\ \A i \in DOMAIN db : db'[i].id = db[i].id
      BY <2>1, UpdateEffect
    <3>2. SoundEntries'
      BY <1>1, <2>1, <3>1 DEF Inv, SoundEntries, Sound
    <3> QED
      BY <2>1, <3>1, <3>2 DEF Inv, TypeOK
  <2>2. CASE Insert(e, 0, Ghost)
    BY <1>1, <1>3, <2>2, InsertSound
  <2> QED
    BY <1>3, <2>1, <2>2 DEF StoreAnswer
<1>5. More
  BY <1>1, <1>4 DEF More, Inv, TypeOK
<1>6. SoundFiles' /\ SoundRows'
  BY <1>1, <1>4, <1>5, MoreSound DEF Inv, SoundFiles, SoundRows
<1>7. SoundCycle'
  BY <1>1, <1>2, <1>5, MoreSound DEF SoundCycle, Handling, Answering
<1>8. Stage(pc', todo', cur', item', answer')
  BY <1>1, StageNow DEF Stage
<1>9. /\ rows' \in Seq(Row) /\ recent' \subseteq DOMAIN rows'
      /\ faults' \in 0..MaxFaults /\ crashes' \in 0..MaxCrashes
  BY <1>1 DEF Inv, TypeOK
<1> QED
  BY <1>1, <1>4, <1>5, <1>6, <1>7, <1>8, <1>9, CycleInv

\* The row gets the server's item.
LEMMA RowAnsweredEffect ==
    ASSUME Inv, RowAnswered
    PROVE  /\ rows' \in Seq(Row) /\ DOMAIN rows' = DOMAIN rows /\ recent' \subseteq DOMAIN rows
           /\ \A r \in DOMAIN rows \ {cur} : rows'[r] = rows[r]
           /\ rows'[cur].id = answer.id /\ rows'[cur].at = answer.at
           /\ rows'[cur].op = item.op /\ rows'[cur].status = item.status
<1>1. PICK r \in DOMAIN rows : r = cur
  BY AtRow DEF RowAnswered, Handling
<1>2. answer.id \in Int /\ answer.at \in Place /\ item \in Row
  BY AtRow DEF RowAnswered, Handling, Entry
<1>3. PICK q \in Int, p \in Place, m \in Row : q = answer.id /\ p = answer.at /\ m = item
  BY <1>2
<1>4. PICK row : row = [m EXCEPT !.id = q, !.at = p]
  OBVIOUS
<1>5. row \in Row /\ row.id = q /\ row.at = p /\ row.op = m.op /\ row.status = m.status
  BY <1>4 DEF Row
<1>6. rows' = [rows EXCEPT ![r] = row] /\ recent' = recent \union {r}
  BY <1>1, <1>3, <1>4 DEF RowAnswered
<1>7. rows \in Seq(Row) /\ recent \subseteq DOMAIN rows
  BY DEF Inv, TypeOK
<1>8. /\ rows' \in Seq(Row) /\ DOMAIN rows' = DOMAIN rows /\ rows'[r] = row
      /\ \A q2 \in DOMAIN rows \ {r} : rows'[q2] = rows[q2]
  BY <1>5, <1>6, <1>7, ReplaceOne
<1> QED
  BY <1>1, <1>3, <1>5, <1>6, <1>7, <1>8

\* The row gets the item of the answer: the ids still name files.
LEMMA RowAnsweredInv == ASSUME Inv, RowAnswered PROVE Inv'
<1>1. /\ UNCHANGED <<server, db, disk, want, fuse, ops, todo, cur, item, answer, faults, crashes>>
      /\ pc = "stored" /\ pc \in Handling /\ pc' = "closing"
  BY DEF RowAnswered, request, bounds, Handling
<1>2. cur \in DOMAIN rows /\ Sound(item.id) /\ Sound(answer.id)
  BY <1>1 DEF Inv, SoundCycle, Handling, Answering
<1>3. SoundRows'
  <2>1. ASSUME NEW r \in DOMAIN rows PROVE Sound(rows'[r].id)
    BY <1>2, RowAnsweredEffect DEF Inv, SoundRows
  <2> QED
    BY <1>1, <2>1, RowAnsweredEffect DEF SoundRows, Sound
<1>4. SoundFiles' /\ SoundEntries' /\ More
  BY <1>1 DEF Inv, SoundFiles, SoundEntries, Sound, More, TypeOK
<1>5. SoundCycle'
  BY <1>1, <1>2, RowAnsweredEffect DEF SoundCycle, Sound, Handling, Answering
<1>6. Stage(pc', todo', cur', item', answer')
  BY <1>1, StageNow DEF Stage
<1>7. /\ db' \in Seq(Entry) /\ disk' \in Seq(Nat) /\ Len(want') = Len(db')
      /\ Len(disk') = Len(db') /\ rows' \in Seq(Row) /\ recent' \subseteq DOMAIN rows'
      /\ faults' \in 0..MaxFaults /\ crashes' \in 0..MaxCrashes
  BY <1>1, RowAnsweredEffect DEF Inv, TypeOK
<1> QED
  BY <1>1, <1>3, <1>4, <1>5, <1>6, <1>7, CycleInv

-----------------------------------------------------------------------------
\* The synced files at the start.
LEMMA InitTables ==
    ASSUME Init
    PROVE  \E place \in [1..Synced -> Place] :
              /\ \A i, j \in 1..Synced : i # j => place[i] # place[j]
              /\ server = [i \in 1..Synced |-> Made(place[i], 1, i, 0)]
              /\ db = [i \in 1..Synced |-> At(i, place[i])]
              /\ want = [i \in 1..Synced |-> Wanted(place[i], 1)]
              /\ disk = [i \in 1..Synced |-> 1]
BY DEF Init

\* A function on 1..Synced is a sequence.
LEMMA SeqOfFunction ==
    ASSUME NEW S, NEW t \in [1..Synced -> S]
    PROVE  t \in Seq(S) /\ Len(t) = Synced /\ DOMAIN t = 1..Synced
<1>1. Synced \in Nat
  BY SizesAssumption
<1>2. t \in Seq(S)
  BY <1>1, SeqDef
<1>3. DOMAIN t = 1..Len(t) /\ Len(t) \in Nat /\ DOMAIN t = 1..Synced
  BY <1>2, LenProperties
<1> QED
  BY <1>1, <1>2, <1>3

\* At the start the ids are the indices of the synced files.
LEMMA InitInv == Init => Inv
<1> SUFFICES ASSUME Init PROVE Inv
  OBVIOUS
<1>1. PICK place \in [1..Synced -> Place] :
         /\ server = [i \in 1..Synced |-> Made(place[i], 1, i, 0)]
         /\ db = [i \in 1..Synced |-> At(i, place[i])]
         /\ want = [i \in 1..Synced |-> Wanted(place[i], 1)]
         /\ disk = [i \in 1..Synced |-> 1]
  BY InitTables
<1>2. 1..Synced \subseteq Nat
  BY SizesAssumption
<1>3. ASSUME NEW i \in 1..Synced
      PROVE  /\ server[i] \in File /\ server[i].owner = i
             /\ db[i] \in Entry /\ db[i].id = i /\ want[i] \in Wish /\ disk[i] \in Nat
  <2>1. PICK p \in Place : p = place[i]
    OBVIOUS
  <2>2. i \in Nat /\ i \in Int
    BY <1>2
  <2>3. server[i] = Made(p, 1, i, 0) /\ db[i] = At(i, p) /\ want[i] = Wanted(p, 1) /\ disk[i] = 1
    BY <1>1, <2>1
  <2>4. server[i] \in File /\ server[i].owner = i
    BY <2>2, <2>3 DEF Made, File
  <2>5. db[i] \in Entry /\ db[i].id = i
    BY <2>2, <2>3, AtFacts
  <2>6. want[i] \in Wish
    BY <2>3 DEF Wanted, Wish
  <2> QED
    BY <2>3, <2>4, <2>5, <2>6
<1>4. /\ server \in [1..Synced -> File] /\ db \in [1..Synced -> Entry]
      /\ want \in [1..Synced -> Wish] /\ disk \in [1..Synced -> Nat]
  BY <1>1, <1>3
<1>5. /\ server \in Seq(File) /\ db \in Seq(Entry) /\ want \in Seq(Wish) /\ disk \in Seq(Nat)
      /\ Len(want) = Len(db) /\ Len(disk) = Len(db)
      /\ DOMAIN server = 1..Synced /\ DOMAIN db = 1..Synced /\ DOMAIN want = 1..Synced
  BY <1>4, SeqOfFunction
<1>6. /\ rows = << >> /\ recent = {} /\ fuse = Idle /\ ops = 0 /\ pc = "idle" /\ todo = {}
      /\ cur = 0 /\ item = NewRow(NoEntry, "create") /\ answer = NoEntry
      /\ faults = 0 /\ crashes = 0
  BY DEF Init
<1>7. fuse = [pc |-> "idle", entry |-> NoEntry, rows |-> << >>]
  BY <1>6 DEF Idle
<1>8. item \in Row /\ answer \in Entry
  BY <1>6, NothingIsTyped, NewRowFacts DEF Operations
<1>9. TypeOK
  <2>1. /\ ops \in 0..MaxOps /\ faults \in 0..MaxFaults /\ crashes \in 0..MaxCrashes
    BY <1>6, SizesAssumption
  <2> QED
    BY <1>5, <1>6, <1>7, <1>8, <2>1, NothingIsTyped DEF TypeOK
<1>10. SoundFiles /\ SoundEntries
  BY <1>3, <1>5 DEF SoundFiles, SoundEntries, Sound, IsId
<1>11. SoundRows /\ SoundRequest /\ SoundCycle
  BY <1>6, <1>7 DEF SoundRows, SoundRequest, SoundCycle, Asking, Handling, Answering
<1> QED
  BY <1>9, <1>10, <1>11 DEF Inv

\* Nothing happens.
LEMMA StutterInv == ASSUME Inv, UNCHANGED vars PROVE Inv'
BY DEF Inv, TypeOK, SoundFiles, SoundEntries, SoundRows, SoundRequest, SoundCycle, Sound,
       vars, request, cycle, bounds

\* No step leaves an id that names no file.
LEMMA NextInv == ASSUME Inv, [Next]_vars PROVE Inv'
<1>1. CASE User
  BY <1>1, CreateInv, RenameInv, WriteInv, ReleaseInv, UnlinkInv, ReplaceInv DEF User
<1>2. CASE Request
  BY <1>2, FuseSelectInv, FuseUpdateInv, FuseInsertInv, FuseRereadInv, FuseMarkInv, FuseRowInv,
     FuseRowFailsInv DEF Request
<1>3. CASE Handle
  BY <1>3, HandlerPanicsInv, HandlerRefusedInv, HandlerFailsInv, UploadNewInv, RewriteEntryInv,
     RewriteRowsInv, GetItemInv, UploadChangeInv, DeleteOnServerInv, RelocateInv, StoreAnswerInv,
     RowAnsweredInv, FinishRowInv DEF Handle
<1>4. CASE Cycle
  BY <1>3, <1>4, StartInv, SquashDoneInv, FinishInv, SquashInv, SquashStopsInv, BeginInv,
     SetConflictedInv DEF Cycle
<1> QED
  BY <1>1, <1>2, <1>4, TimePassesInv, CrashInv, StutterInv DEF Next

\* Inv holds in every behaviour.
LEMMA Invariance == Spec => []Inv
<1>1. Inv /\ [Next]_vars => Inv'
  BY NextInv
<1> QED
  BY <1>1, InitInv, PTL DEF Spec

\* Every variable keeps its type: the table, the rows, the request and the cycle hold
\* ids, entries and rows of their kind, and files and wishes match the entries,
\* whatever the names, the folders and the bounds, names used again included.
THEOREM TypeCorrect == Spec => []TypeOK
<1>1. Inv => TypeOK
  BY DEF Inv
<1> QED
  BY <1>1, Invariance, PTL

-----------------------------------------------------------------------------
(***************************************************************************)
(* Places: what carries an id and a place means one file.                  *)
(***************************************************************************)

\* Files keep their owner, and inodes the places they had.
Steady ==
    /\ DOMAIN server \subseteq DOMAIN server' /\ DOMAIN want \subseteq DOMAIN want'
    /\ \A s \in DOMAIN server : server'[s].owner = server[s].owner
    /\ \A i \in DOMAIN want : want[i].been \subseteq want'[i].been

\* An id goes on meaning the same file.
LEMMA SteadyIds ==
    ASSUME Inv, Steady, NEW id, Sound(id)
    PROVE  FileOf(id)' = FileOf(id) /\ \A p : Been(id, p) => Been(id, p)'
<1>1. FileOf(id) \in DOMAIN want /\ id \in Int
  BY IdsOfInts
<1>2. FileOf(id)' = FileOf(id)
  <2>1. CASE id \in DOMAIN server
    <3>1. id \in Nat \ {0}
      BY <2>1, Tables
    <3> QED
      BY <2>1, <3>1 DEF Steady, FileOf
  <2>2. CASE id < 0
    BY <2>2 DEF FileOf
  <2> QED
    BY <2>1, <2>2 DEF Sound, IsId
<1> QED
  BY <1>1, <1>2 DEF Steady, Been

\* The files and the places the user gave do not change.
SamePlaces ==
    /\ DOMAIN server' = DOMAIN server /\ DOMAIN want' = DOMAIN want
    /\ \A s \in DOMAIN server : /\ server'[s].owner = server[s].owner
                                /\ server'[s].at = server[s].at
                                /\ server'[s].by = server[s].by
    /\ \A i \in DOMAIN want : want'[i].been = want[i].been

\* Where no place changes, nothing is taken back.
LEMMA SameIsSteady == ASSUME SamePlaces PROVE Steady
BY DEF SamePlaces, Steady

\* Where OneDrive does not change, no place of a file does.
LEMMA SameServer ==
    ASSUME UNCHANGED server, DOMAIN want' = DOMAIN want,
           \A i \in DOMAIN want : want'[i].been = want[i].been
    PROVE  SamePlaces /\ Steady
BY DEF SamePlaces, Steady

\* The files of OneDrive stay where the user had them.
LEMMA FilesStay == ASSUME Inv, PlacedFiles, SamePlaces PROVE PlacedFiles'
BY DEF PlacedFiles, SamePlaces, Inv, SoundFiles

\* The entries stay placed when they do not change.
LEMMA EntriesStay ==
    ASSUME Inv, PlacedEntries, Steady, UNCHANGED <<db, disk>>
    PROVE  PlacedEntries'
<1>1. ASSUME NEW i \in DOMAIN db
      PROVE  /\ Been(db[i].id, db[i].at)' /\ Been(db[i].id, db[i].path)'
             /\ disk'[i] # 0 => FileOf(db[i].id)' = i
  <2>1. Sound(db[i].id)
    BY DEF Inv, SoundEntries
  <2>2. PICK id : id = db[i].id /\ Sound(id)
    BY <2>1
  <2>3. FileOf(id)' = FileOf(id) /\ \A p : Been(id, p) => Been(id, p)'
    BY <2>2, SteadyIds
  <2>4. db'[i].id = id
    BY <2>2
  <2> QED
    BY <2>2, <2>3, <2>4 DEF PlacedEntries, Been, FileOf
<1> QED
  BY <1>1 DEF PlacedEntries

\* The rows stay placed when their ids and places do not change.
LEMMA RowsStay ==
    ASSUME Inv, PlacedRows, Steady, DOMAIN rows' = DOMAIN rows,
           \A r \in DOMAIN rows : rows'[r].id = rows[r].id /\ rows'[r].at = rows[r].at
    PROVE  PlacedRows'
<1>1. ASSUME NEW r \in DOMAIN rows PROVE Been(rows[r].id, rows[r].at)'
  <2>1. Sound(rows[r].id) /\ Been(rows[r].id, rows[r].at)
    BY DEF Inv, SoundRows, PlacedRows
  <2>2. PICK id, p : id = rows[r].id /\ p = rows[r].at
    OBVIOUS
  <2>3. Been(id, p)'
    BY <2>1, <2>2, SteadyIds
  <2>4. rows'[r].id = id /\ rows'[r].at = p
    BY <2>2
  <2> QED
    BY <2>3, <2>4 DEF Been, FileOf
<1> QED
  BY <1>1 DEF PlacedRows

\* The request goes on, or is over.
LEMMA RequestStays ==
    ASSUME Inv, PlacedRequest, Steady,
           fuse' = fuse \/ (fuse'.pc \notin Asking /\ fuse'.rows = << >>)
    PROVE  PlacedRequest'
<1>1. CASE fuse' = fuse
  <2>1. ASSUME NEW k \in DOMAIN fuse.rows PROVE Been(fuse.rows[k].id, fuse.rows[k].at)'
    <3>1. PICK id, p : id = fuse.rows[k].id /\ p = fuse.rows[k].at
      OBVIOUS
    <3>2. Sound(id) /\ Been(id, p)
      BY <3>1 DEF Inv, SoundRequest, PlacedRequest
    <3>3. Been(id, p)'
      BY <3>2, SteadyIds
    <3> QED
      BY <1>1, <3>1, <3>3 DEF Been, FileOf
  <2>2. ASSUME fuse.pc \in Asking
        PROVE  Been(fuse.entry.id, fuse.entry.at)' /\ Been(fuse.entry.id, fuse.entry.path)'
    <3>1. PICK e : e = fuse.entry
      OBVIOUS
    <3>2. Sound(e.id) /\ Been(e.id, e.at) /\ Been(e.id, e.path)
      BY <2>2, <3>1 DEF Inv, SoundRequest, PlacedRequest
    <3>3. Been(e.id, e.at)' /\ Been(e.id, e.path)'
      BY <3>2, SteadyIds
    <3> QED
      BY <1>1, <3>1, <3>3 DEF Been, FileOf
  <2> QED
    BY <1>1, <2>1, <2>2 DEF PlacedRequest
<1>2. CASE fuse'.pc \notin Asking /\ fuse'.rows = << >>
  BY <1>2 DEF PlacedRequest, Asking
<1> QED
  BY <1>1, <1>2

\* A request about the entry e.
LEMMA RequestNow ==
    ASSUME NEW p, NEW e, NEW R, fuse' = [pc |-> p, entry |-> e, rows |-> R],
           Been(e.id, e.at)', Been(e.id, e.path)',
           \A k \in DOMAIN R : Been(R[k].id, R[k].at)'
    PROVE  PlacedRequest'
<1>1. fuse'.pc = p /\ fuse'.entry = e /\ fuse'.rows = R
  OBVIOUS
<1> QED
  BY <1>1 DEF PlacedRequest, Been, FileOf

\* A cycle that has no row at hand has nothing to be placed.
LEMMA CycleRests == ASSUME pc' \notin Handling PROVE PlacedCycle'
BY DEF PlacedCycle, Handling, Answering

\* The cycle goes on with the item and the answer it has.
LEMMA CycleStays ==
    ASSUME Inv, PlacedCycle, Steady, UNCHANGED <<item, answer>>,
           pc' \in Handling => pc \in Handling, pc' \in Answering => pc \in Answering
    PROVE  PlacedCycle'
<1>1. PICK m, a : m = item /\ a = answer
  OBVIOUS
<1>2. ASSUME pc \in Handling PROVE Been(m.id, m.at)' /\ FileOf(m.id)' = FileOf(m.id)
  <2>1. Sound(m.id) /\ Been(m.id, m.at)
    BY <1>1, <1>2 DEF Inv, SoundCycle, PlacedCycle
  <2> QED
    BY <2>1, SteadyIds
<1>3. ASSUME pc \in Answering
      PROVE  /\ Been(a.id, a.at)' /\ Been(a.id, a.path)'
             /\ FileOf(a.id)' = FileOf(a.id) /\ FileOf(a.id) = FileOf(m.id)
  <2>1. /\ Sound(a.id) /\ Been(a.id, a.at) /\ Been(a.id, a.path)
        /\ FileOf(a.id) = FileOf(m.id)
    BY <1>1, <1>3 DEF Inv, SoundCycle, PlacedCycle
  <2> QED
    BY <2>1, SteadyIds
<1>4. item' = m /\ answer' = a
  BY <1>1
<1>5. pc \in Answering => pc \in Handling
  BY DEF Answering, Handling
<1> QED
  BY <1>2, <1>3, <1>4, <1>5 DEF PlacedCycle, Been, FileOf

\* The cycle has an answer, for the file of its item.
LEMMA CycleAnswers ==
    ASSUME Inv, PlacedCycle, Steady, pc \in Handling, UNCHANGED item, NEW a, answer' = a,
           FileOf(a.id)' = FileOf(item.id), Been(a.id, a.at)', Been(a.id, a.path)'
    PROVE  PlacedCycle'
<1>1. PICK m : m = item
  OBVIOUS
<1>2. Been(m.id, m.at)' /\ FileOf(m.id)' = FileOf(m.id)
  <2>1. Sound(m.id) /\ Been(m.id, m.at)
    BY <1>1 DEF Inv, SoundCycle, PlacedCycle
  <2> QED
    BY <2>1, SteadyIds
<1>3. item' = m /\ FileOf(a.id)' = FileOf(m.id)'
  BY <1>1, <1>2
<1> QED
  BY <1>2, <1>3 DEF PlacedCycle, Been, FileOf

\* A request leaves the rows and the cycle alone.
LEMMA RequestPlaced ==
    ASSUME Inv, Placed, Steady, UNCHANGED <<rows, cycle>>,
           PlacedFiles', PlacedEntries', PlacedRequest'
    PROVE  Placed'
<1>1. PlacedRows'
  BY RowsStay DEF Placed
<1>2. PlacedCycle'
  BY CycleStays DEF Placed, cycle
<1> QED
  BY <1>1, <1>2 DEF Placed

\* The entry and a row made of it.
LEMMA OneRowPlaced ==
    ASSUME NEW e \in Entry, NEW op \in Operations, Been(e.id, e.at)'
    PROVE  \A k \in DOMAIN <<NewRow(e, op)>> : Been(<<NewRow(e, op)>>[k].id, <<NewRow(e, op)>>[k].at)'
<1>1. PICK row \in Row : row = NewRow(e, op) /\ row.id = e.id /\ row.at = e.at
  BY NewRowFacts
<1>2. DOMAIN <<row>> = {1} /\ <<row>>[1] = row
  BY OneRow
<1>3. Been(row.id, row.at)'
  BY <1>1 DEF Been, FileOf
<1> QED
  BY <1>1, <1>2, <1>3

\* An entry of the table, as it was read.
LEMMA EntryPlaced ==
    ASSUME Inv, PlacedEntries, Steady, NEW i \in DOMAIN db, NEW e, e = db[i]
    PROVE  /\ Been(e.id, e.at)' /\ Been(e.id, e.path)' /\ FileOf(e.id)' = FileOf(e.id)
           /\ e \in Entry
<1>1. Sound(e.id) /\ Been(e.id, e.at) /\ Been(e.id, e.path) /\ e \in Entry
  BY EntryFacts DEF PlacedEntries
<1> QED
  BY <1>1, SteadyIds

\* A wish that changes keeps the places it had.
LEMMA WishesSteady ==
    ASSUME Inv, NEW f, NEW p, NEW c, NEW l, NEW b, WishesOf(f, p, c, l, b), UNCHANGED server,
           want[f].been \subseteq b
    PROVE  Steady
BY DEF WishesOf, Steady

\* write changes a content and asks for an Update row: ids and places still agree.
LEMMA WritePlaced == ASSUME Inv, Placed, NEW i \in DOMAIN db, Write(i) PROVE Placed'
<1>1. /\ UNCHANGED <<server, db, rows, recent, cycle>> /\ disk[i] # 0
      /\ fuse' = [pc |-> "row", entry |-> db[i], rows |-> <<NewRow(db[i], "update")>>]
  BY DEF Write
<1>2. PICK f : f = FileOf(db[i].id)
  OBVIOUS
<1>3. /\ WishesOf(f, want[f].at, ops + 2, want[f].live, want[f].been)
      /\ \A j \in DOMAIN db \ {i} : disk'[j] = disk[j]
  BY <1>2, WriteEffect
<1>4. SamePlaces /\ Steady
  <2>1. DOMAIN want' = DOMAIN want /\ \A j \in DOMAIN want : want'[j].been = want[j].been
    BY <1>3 DEF WishesOf
  <2> QED
    BY <1>1, <2>1, SameServer
<1>5. PlacedFiles'
  BY <1>4, FilesStay DEF Placed
<1>6. PlacedEntries'
  <2>1. ASSUME NEW j \in DOMAIN db
        PROVE  /\ Been(db[j].id, db[j].at)' /\ Been(db[j].id, db[j].path)'
               /\ disk'[j] # 0 => FileOf(db[j].id)' = j
    <3>1. PICK e : e = db[j]
      OBVIOUS
    <3>2. Been(e.id, e.at)' /\ Been(e.id, e.path)' /\ FileOf(e.id)' = FileOf(e.id)
      BY <1>4, <3>1, EntryPlaced DEF Placed
    <3>3. disk'[j] # 0 => disk[j] # 0
      BY <1>1, <1>3
    <3>4. disk[j] # 0 => FileOf(e.id) = j
      BY <3>1 DEF Placed, PlacedEntries
    <3>5. db'[j] = e
      BY <1>1, <3>1
    <3> QED
      BY <3>2, <3>3, <3>4, <3>5 DEF Been, FileOf
  <2> QED
    BY <1>1, <2>1 DEF PlacedEntries
<1>7. PlacedRequest'
  <2>1. PICK e : e = db[i]
    OBVIOUS
  <2>2. e \in Entry /\ Been(e.id, e.at)' /\ Been(e.id, e.path)'
    BY <1>4, <2>1, EntryPlaced DEF Placed
  <2>3. PICK R : R = <<NewRow(e, "update")>>
    OBVIOUS
  <2>4. \A k \in DOMAIN R : Been(R[k].id, R[k].at)'
    BY <2>2, <2>3, OneRowPlaced DEF Operations
  <2>5. fuse' = [pc |-> "row", entry |-> e, rows |-> R]
    BY <1>1, <2>1, <2>3
  <2> QED
    BY <2>2, <2>4, <2>5, RequestNow
<1> QED
  BY <1>1, <1>4, <1>5, <1>6, <1>7, RequestPlaced

\* release asks for the entry it read to be stored: ids and places still agree.
LEMMA ReleasePlaced == ASSUME Inv, Placed, NEW i \in DOMAIN db, Release(i) PROVE Placed'
<1>1. /\ UNCHANGED <<server, db, disk, rows, recent, want, cycle>>
      /\ fuse' = [pc |-> "select", entry |-> db[i], rows |-> << >>]
  BY DEF Release
<1>2. SamePlaces /\ Steady
  BY <1>1, SameServer
<1>3. PlacedRequest'
  <2>1. PICK e : e = db[i]
    OBVIOUS
  <2>2. e \in Entry /\ Been(e.id, e.at)' /\ Been(e.id, e.path)'
    BY <1>2, <2>1, EntryPlaced DEF Placed
  <2>3. PICK R : R = << >>
    OBVIOUS
  <2>4. fuse' = [pc |-> "select", entry |-> e, rows |-> R]
    BY <1>1, <2>1, <2>3
  <2>5. DOMAIN R = {}
    BY <2>3
  <2> QED
    BY <2>2, <2>4, <2>5, RequestNow
<1> QED
  BY <1>1, <1>2, <1>3, FilesStay, EntriesStay, RequestPlaced DEF Placed

\* unlink gives a file up: ids and places still agree.
LEMMA UnlinkPlaced == ASSUME Inv, Placed, NEW i \in DOMAIN db, Unlink(i) PROVE Placed'
<1>1. /\ UNCHANGED <<server, db, disk, rows, recent, cycle>>
      /\ fuse' = [pc |-> "select", entry |-> [db[i] EXCEPT !.deleted = TRUE],
                  rows |-> <<NewRow(db[i], "delete")>>]
  BY DEF Unlink
<1>2. PICK f : f = FileOf(db[i].id)
  OBVIOUS
<1>3. WishesOf(f, want[f].at, want[f].content, FALSE, want[f].been)
  BY <1>2, UnlinkEffect
<1>4. SamePlaces /\ Steady
  <2>1. DOMAIN want' = DOMAIN want /\ \A j \in DOMAIN want : want'[j].been = want[j].been
    BY <1>3 DEF WishesOf
  <2> QED
    BY <1>1, <2>1, SameServer
<1>5. PlacedRequest'
  <2>1. PICK d : d = db[i]
    OBVIOUS
  <2>2. d \in Entry /\ Been(d.id, d.at)' /\ Been(d.id, d.path)'
    BY <1>4, <2>1, EntryPlaced DEF Placed
  <2>3. PICK e : e = [d EXCEPT !.deleted = TRUE]
    OBVIOUS
  <2>4. e.id = d.id /\ e.at = d.at /\ e.path = d.path
    BY <2>2, <2>3 DEF Entry
  <2>5. Been(e.id, e.at)' /\ Been(e.id, e.path)'
    BY <2>2, <2>4 DEF Been, FileOf
  <2>6. PICK R : R = <<NewRow(d, "delete")>>
    OBVIOUS
  <2>7. \A k \in DOMAIN R : Been(R[k].id, R[k].at)'
    BY <2>2, <2>6, OneRowPlaced DEF Operations
  <2>8. fuse' = [pc |-> "select", entry |-> e, rows |-> R]
    BY <1>1, <2>1, <2>3, <2>6
  <2> QED
    BY <2>5, <2>7, <2>8, RequestNow
<1> QED
  BY <1>1, <1>4, <1>5, FilesStay, EntriesStay, RequestPlaced DEF Placed

\* rename gives a file another place: ids and places still agree.
LEMMA RenamePlaced ==
    ASSUME ~Reuse, Inv, Placed, NEW i \in DOMAIN db, NEW p \in Place, Rename(i, p)
    PROVE  Placed'
<1>1. PICK f : f = FileOf(db[i].id)
  OBVIOUS
<1>2. WishesOf(f, p, want[f].content, want[f].live, want[f].been \union {p})
  BY <1>1, RenameEffect
<1>3. f \in DOMAIN want
  BY <1>1, EntryFacts
<1>4. PICK op \in Operations : op = IF p.dir = db[i].at.dir THEN "rename" ELSE "move"
  BY DEF Operations
<1>5. /\ UNCHANGED <<server, db, disk, rows, recent, cycle>> /\ Own(f, p)
      /\ fuse' = [pc |-> "select", entry |-> [db[i] EXCEPT !.at = p],
                  rows |-> <<NewRow(db[i], op)>>]
  BY <1>1, <1>4 DEF Rename
<1>6. Steady
  BY <1>2, <1>5, WishesSteady
<1>7. PlacedFiles'
  <2>1. ASSUME NEW j \in DOMAIN want
        PROVE  want'[j].been = IF j = f THEN want[f].been \union {p} ELSE want[j].been
    BY <1>2 DEF WishesOf
  <2>2. ASSUME NEW j \in DOMAIN want, NEW k \in DOMAIN want, j # k
        PROVE  want'[j].been \cap want'[k].been = {}
    <3>1. want[j].been \cap want[k].been = {}
      BY <2>2 DEF Placed, PlacedFiles
    <3>2. j # f => p \notin want[j].been
      BY <1>5 DEF Own
    <3>3. k # f => p \notin want[k].been
      BY <1>5 DEF Own
    <3> QED
      BY <2>1, <2>2, <3>1, <3>2, <3>3
  <2>3. DOMAIN want' = DOMAIN want
    BY <1>2 DEF WishesOf
  <2>4. ASSUME NEW s \in DOMAIN server
        PROVE  server[s].at \in want'[server[s].owner].been /\ server[s].by = server[s].owner
    BY <1>6 DEF Steady, Placed, PlacedFiles, Inv, SoundFiles
  <2> QED
    BY <1>5, <2>2, <2>3, <2>4 DEF PlacedFiles
<1>8. PlacedRequest'
  <2>1. PICK d : d = db[i]
    OBVIOUS
  <2>2. d \in Entry /\ Been(d.id, d.at)' /\ Been(d.id, d.path)' /\ FileOf(d.id)' = FileOf(d.id)
    BY <1>6, <2>1, EntryPlaced DEF Placed
  <2>3. PICK e : e = [d EXCEPT !.at = p]
    OBVIOUS
  <2>4. e.id = d.id /\ e.at = p /\ e.path = d.path
    BY <2>2, <2>3 DEF Entry
  <2>5. p \in want'[FileOf(d.id)].been
    BY <1>1, <1>2, <2>1 DEF WishesOf
  <2>6. Been(e.id, e.at)' /\ Been(e.id, e.path)'
    BY <2>2, <2>4, <2>5 DEF Been, FileOf
  <2>7. PICK R : R = <<NewRow(d, op)>>
    OBVIOUS
  <2>8. \A k \in DOMAIN R : Been(R[k].id, R[k].at)'
    BY <2>2, <2>7, OneRowPlaced DEF Operations
  <2>9. fuse' = [pc |-> "select", entry |-> e, rows |-> R]
    BY <1>5, <2>1, <2>3, <2>7
  <2> QED
    BY <2>6, <2>8, <2>9, RequestNow
<1> QED
  BY <1>5, <1>6, <1>7, <1>8, EntriesStay, RequestPlaced DEF Placed

\* A file is given up and its content goes to another one: ids and places still agree.
LEMMA ReplacePlaced ==
    ASSUME Inv, Placed, NEW i \in DOMAIN db, NEW j \in DOMAIN db, Replace(i, j)
    PROVE  Placed'
<1>1. /\ UNCHANGED <<server, db, rows, recent, cycle>> /\ disk[i] # 0 /\ disk[j] # 0
      /\ fuse' = [pc |-> "mark", entry |-> db[i],
                  rows |-> <<NewRow(db[i], "delete"), NewRow(db[i], "delete"),
                             NewRow(db[j], "update")>>]
  BY DEF Replace
<1>2. /\ DOMAIN want' = DOMAIN want /\ \A k \in DOMAIN want : want'[k].been = want[k].been
      /\ \A k \in DOMAIN db :
            disk'[k] = IF k = j THEN disk[i] ELSE IF k = i THEN 0 ELSE disk[k]
  BY ReplaceEffect
<1>3. SamePlaces /\ Steady
  BY <1>1, <1>2, SameServer
<1>4. PlacedEntries'
  <2>1. ASSUME NEW k \in DOMAIN db
        PROVE  /\ Been(db[k].id, db[k].at)' /\ Been(db[k].id, db[k].path)'
               /\ disk'[k] # 0 => FileOf(db[k].id)' = k
    <3>1. PICK e : e = db[k]
      OBVIOUS
    <3>2. Been(e.id, e.at)' /\ Been(e.id, e.path)' /\ FileOf(e.id)' = FileOf(e.id)
      BY <1>3, <3>1, EntryPlaced DEF Placed
    <3>3. disk'[k] # 0 => disk[k] # 0
      BY <1>1, <1>2
    <3>4. disk[k] # 0 => FileOf(e.id) = k
      BY <3>1 DEF Placed, PlacedEntries
    <3>5. db'[k] = e
      BY <1>1, <3>1
    <3> QED
      BY <3>2, <3>3, <3>4, <3>5 DEF Been, FileOf
  <2> QED
    BY <1>1, <2>1 DEF PlacedEntries
<1>5. PlacedRequest'
  <2>1. PICK e, d : e = db[i] /\ d = db[j]
    OBVIOUS
  <2>2. e \in Entry /\ Been(e.id, e.at)' /\ Been(e.id, e.path)'
    BY <1>3, <2>1, EntryPlaced DEF Placed
  <2>3. d \in Entry /\ Been(d.id, d.at)'
    BY <1>3, <2>1, EntryPlaced DEF Placed
  <2>4. PICK a \in Row : a = NewRow(e, "delete") /\ a.id = e.id /\ a.at = e.at
    BY <2>2, NewRowFacts DEF Operations
  <2>5. PICK b \in Row : b = NewRow(d, "update") /\ b.id = d.id /\ b.at = d.at
    BY <2>3, NewRowFacts DEF Operations
  <2>6. PICK R : R = <<a, a, b>>
    OBVIOUS
  <2>7. \A k \in DOMAIN R : R[k] = a \/ R[k] = b
    BY <2>6
  <2>8. Been(a.id, a.at)' /\ Been(b.id, b.at)'
    BY <2>2, <2>3, <2>4, <2>5 DEF Been, FileOf
  <2>9. \A k \in DOMAIN R : Been(R[k].id, R[k].at)'
    BY <2>7, <2>8
  <2>10. fuse' = [pc |-> "mark", entry |-> e, rows |-> R]
    BY <1>1, <2>1, <2>4, <2>5, <2>6
  <2> QED
    BY <2>2, <2>9, <2>10, RequestNow
<1> QED
  BY <1>1, <1>3, <1>4, <1>5, FilesStay, RequestPlaced DEF Placed

\* A new entry, of the file it is stored for, gets a new inode.
LEMMA InsertedEntries ==
    ASSUME Inv, PlacedEntries, Steady, NEW e \in Entry, NEW content \in Nat, NEW wish \in Wish,
           Insert(e, content, wish), Been(e.id, e.at)', Been(e.id, e.path)',
           content # 0 => FileOf(e.id)' = Len(db) + 1
    PROVE  PlacedEntries'
<1>1. /\ DOMAIN db' = DOMAIN db \union {Len(db) + 1}
      /\ \A i \in DOMAIN db : db'[i] = db[i] /\ disk'[i] = disk[i]
      /\ db'[Len(db) + 1] = e /\ disk'[Len(db) + 1] = content
  BY InsertEffect
<1>2. ASSUME NEW i \in DOMAIN db
      PROVE  /\ Been(db[i].id, db[i].at)' /\ Been(db[i].id, db[i].path)'
             /\ disk'[i] # 0 => FileOf(db[i].id)' = i
  <2>1. PICK d : d = db[i]
    OBVIOUS
  <2>2. Been(d.id, d.at)' /\ Been(d.id, d.path)' /\ FileOf(d.id)' = FileOf(d.id)
    BY <2>1, EntryPlaced
  <2>3. db'[i] = d /\ (disk'[i] # 0 => FileOf(d.id) = i)
    BY <1>1, <2>1 DEF PlacedEntries
  <2> QED
    BY <2>2, <2>3 DEF Been, FileOf
<1>3. PICK n : n = Len(db) + 1
  OBVIOUS
<1>4. /\ Been(db[n].id, db[n].at)' /\ Been(db[n].id, db[n].path)'
      /\ disk'[n] # 0 => FileOf(db[n].id)' = n
  BY <1>1, <1>3 DEF Been, FileOf
<1> QED
  BY <1>1, <1>2, <1>3, <1>4 DEF PlacedEntries

\* A new inode whose places nobody else had.
LEMMA InsertedFiles ==
    ASSUME Inv, PlacedFiles, UNCHANGED server, NEW e \in Entry, NEW content \in Nat, NEW wish \in Wish,
           Insert(e, content, wish),
           \A j \in DOMAIN want : want[j].been \cap wish.been = {}
    PROVE  Steady /\ PlacedFiles'
<1>1. /\ DOMAIN want' = DOMAIN want \union {Len(db) + 1} /\ Len(db) + 1 \notin DOMAIN want
      /\ \A i \in DOMAIN want : want'[i] = want[i]
      /\ want'[Len(db) + 1] = wish
  BY InsertEffect, Tables
<1>2. PICK n : n = Len(db) + 1
  OBVIOUS
<1>3. Steady
  BY <1>1 DEF Steady
<1>4. ASSUME NEW j \in DOMAIN want', NEW k \in DOMAIN want', j # k
      PROVE  want'[j].been \cap want'[k].been = {}
  <2>1. CASE j \in DOMAIN want /\ k \in DOMAIN want
    BY <1>1, <1>4, <2>1 DEF PlacedFiles
  <2>2. CASE j = n /\ k \in DOMAIN want
    BY <1>1, <1>2, <2>2
  <2>3. CASE k = n /\ j \in DOMAIN want
    BY <1>1, <1>2, <2>3
  <2> QED
    BY <1>1, <1>2, <1>4, <2>1, <2>2, <2>3
<1>5. ASSUME NEW s \in DOMAIN server
      PROVE  server[s].at \in want'[server[s].owner].been /\ server[s].by = server[s].owner
  BY <1>1 DEF PlacedFiles, Inv, SoundFiles
<1> QED
  BY <1>3, <1>4, <1>5 DEF PlacedFiles

\* create adds an inode with a temporary id: ids and places still agree.
LEMMA CreatePlaced == ASSUME ~Reuse, Inv, Placed, NEW p \in Place, Create(p) PROVE Placed'
<1>1. PICK n : n = Len(db) + 1 /\ n \in Nat /\ n > 0
  BY Tables
<1>2. PICK e \in Entry : e = At(-n, p) /\ e.id = -n /\ e.at = p /\ e.path = p
  BY <1>1, AtFacts
<1>3. ops + 2 \in Nat
  BY PermittedOps DEF Create
<1>4. PICK c \in Nat : c = ops + 2
  BY <1>3
<1>5. PICK w \in Wish : w = Wanted(p, c) /\ w.been = {p}
  <2>1. Wanted(p, c).been = {p}
    BY DEF Wanted
  <2>2. Wanted(p, c) \in Wish
    BY DEF Wanted, Wish
  <2> QED
    BY <2>1, <2>2
<1>6. /\ Insert(e, c, w) /\ Own(0, p)
      /\ fuse' = [pc |-> "row", entry |-> e, rows |-> <<NewRow(e, "create")>>]
      /\ UNCHANGED <<server, rows, recent, cycle, bounds>>
  BY <1>1, <1>2, <1>4, <1>5 DEF Create
<1>7. \A j \in DOMAIN want : want[j].been \cap w.been = {}
  <2>1. \A j \in DOMAIN want : j # 0
    BY Tables
  <2> QED
    BY <1>5, <1>6, <2>1 DEF Own
<1>8. Steady /\ PlacedFiles'
  BY <1>6, <1>7, InsertedFiles DEF Placed
<1>9. FileOf(e.id)' = n
  BY <1>1, <1>2 DEF FileOf
<1>10. want'[n] = w
  BY <1>1, <1>6, InsertEffect
<1>11. Been(e.id, e.at)' /\ Been(e.id, e.path)'
  BY <1>2, <1>5, <1>9, <1>10 DEF Been, FileOf
<1>12. PlacedEntries'
  BY <1>1, <1>6, <1>8, <1>9, <1>11, InsertedEntries DEF Placed
<1>13. PlacedRequest'
  <2>1. PICK R : R = <<NewRow(e, "create")>>
    OBVIOUS
  <2>2. \A k \in DOMAIN R : Been(R[k].id, R[k].at)'
    BY <1>11, <2>1, OneRowPlaced DEF Operations
  <2> QED
    BY <1>6, <1>11, <2>1, <2>2, RequestNow
<1> QED
  BY <1>6, <1>8, <1>12, <1>13, RequestPlaced

\* The request goes on with its entry and some of its rows.
LEMMA RequestLater ==
    ASSUME Inv, PlacedRequest, Steady, fuse.pc \in Asking, NEW p, NEW R,
           fuse' = [pc |-> p, entry |-> fuse.entry, rows |-> R],
           \A k \in DOMAIN R : \E m \in DOMAIN fuse.rows : R[k] = fuse.rows[m]
    PROVE  PlacedRequest'
<1>1. PICK e, Q : e = fuse.entry /\ Q = fuse.rows
  OBVIOUS
<1>2. Sound(e.id) /\ Been(e.id, e.at) /\ Been(e.id, e.path)
  BY <1>1 DEF Inv, SoundRequest, PlacedRequest
<1>3. Been(e.id, e.at)' /\ Been(e.id, e.path)'
  BY <1>2, SteadyIds
<1>4. ASSUME NEW m \in DOMAIN Q PROVE Been(Q[m].id, Q[m].at)'
  <2>1. Sound(Q[m].id) /\ Been(Q[m].id, Q[m].at)
    BY <1>1 DEF Inv, SoundRequest, PlacedRequest
  <2> QED
    BY <2>1, SteadyIds
<1>5. \A k \in DOMAIN R : \E m \in DOMAIN Q : R[k] = Q[m]
  BY <1>1
<1>6. \A k \in DOMAIN R : Been(R[k].id, R[k].at)'
  BY <1>4, <1>5
<1>7. fuse' = [pc |-> p, entry |-> e, rows |-> R]
  BY <1>1
<1> QED
  BY <1>3, <1>6, <1>7, RequestNow

\* A stored entry is placed, and so is the table.
LEMMA UpdatedEntries ==
    ASSUME Inv, PlacedEntries, Steady, NEW e \in Entry, db' = Update(e), UNCHANGED disk,
           Been(e.id, e.at)', Been(e.id, e.path)'
    PROVE  PlacedEntries'
<1>1. /\ DOMAIN db' = DOMAIN db
      /\ \A i \in DOMAIN db : /\ db'[i] = IF db[i].id = e.id THEN e ELSE db[i]
                              /\ db'[i].id = db[i].id
  BY UpdateEffect
<1>2. ASSUME NEW i \in DOMAIN db
      PROVE  /\ Been(db[i].id, db[i].at)' /\ Been(db[i].id, db[i].path)'
             /\ disk'[i] # 0 => FileOf(db[i].id)' = i
  <2>1. PICK d : d = db[i]
    OBVIOUS
  <2>2. Been(d.id, d.at)' /\ Been(d.id, d.path)' /\ FileOf(d.id)' = FileOf(d.id)
    BY <2>1, EntryPlaced
  <2>3. disk'[i] # 0 => FileOf(d.id) = i
    BY <2>1 DEF PlacedEntries
  <2>4. CASE d.id = e.id
    <3>1. db'[i] = e
      BY <1>1, <2>1, <2>4
    <3> QED
      BY <2>2, <2>3, <2>4, <3>1 DEF Been, FileOf
  <2>5. CASE d.id # e.id
    <3>1. db'[i] = d
      BY <1>1, <2>1, <2>5
    <3> QED
      BY <2>2, <2>3, <3>1 DEF Been, FileOf
  <2> QED
    BY <2>4, <2>5
<1> QED
  BY <1>1, <1>2 DEF PlacedEntries

\* What follows the store of a request is about the same entry and rows.
LEMMA AfterStorePlaced ==
    ASSUME Inv, PlacedRequest, Steady, fuse.pc \in Asking, fuse' = AfterStore
    PROVE  PlacedRequest'
<1>1. CASE AfterStore = Idle
  <2>1. fuse'.pc \notin Asking /\ fuse'.rows = << >>
    BY <1>1, IdleFacts DEF Asking
  <2> QED
    BY <2>1, RequestStays
<1>2. CASE \E p \in {"reread", "row"} :
              AfterStore = [pc |-> p, entry |-> fuse.entry, rows |-> fuse.rows]
  BY <1>2, RequestLater
<1> QED
  BY <1>1, <1>2, AfterStoreFacts

\* The request looks up the id of its entry: ids and places still agree.
LEMMA FuseSelectPlaced == ASSUME Inv, Placed, FuseSelect PROVE Placed'
<1>1. UNCHANGED <<server, db, disk, rows, want, cycle>>
  BY DEF FuseSelect
<1>2. SamePlaces /\ Steady
  BY <1>1, SameServer
<1>3. PlacedRequest'
  <2>1. PICK p \in {"update", "insert"} : p = IF Known(fuse.entry.id) THEN "update" ELSE "insert"
    OBVIOUS
  <2>2. fuse' = [pc |-> p, entry |-> fuse.entry, rows |-> fuse.rows]
    BY <2>1, RequestFields DEF FuseSelect, Asking
  <2> QED
    BY <1>2, <2>2, RequestLater DEF Placed, FuseSelect, Asking
<1> QED
  BY <1>1, <1>2, <1>3, FilesStay, EntriesStay, RequestPlaced DEF Placed

\* The entry of a request, after a step.
LEMMA RequestEntry ==
    ASSUME Inv, PlacedRequest, Steady, fuse.pc \in Asking, NEW e, e = fuse.entry
    PROVE  /\ e \in Entry /\ Sound(e.id) /\ Been(e.id, e.at)' /\ Been(e.id, e.path)'
           /\ FileOf(e.id)' = FileOf(e.id)
<1>1. e \in Entry /\ Sound(e.id) /\ Been(e.id, e.at) /\ Been(e.id, e.path)
  BY RequestFields, RequestSound DEF PlacedRequest
<1> QED
  BY <1>1, SteadyIds

\* The request stores its entry over the one of its id: ids and places still agree.
LEMMA FuseUpdatePlaced == ASSUME Inv, Placed, FuseUpdate PROVE Placed'
<1>1. UNCHANGED <<server, disk, rows, want, cycle>> /\ fuse' = AfterStore /\ fuse.pc \in Asking
  BY DEF FuseUpdate, Asking
<1>2. SamePlaces /\ Steady
  BY <1>1, SameServer
<1>3. PICK e : e = fuse.entry
  OBVIOUS
<1>4. e \in Entry /\ Been(e.id, e.at)' /\ Been(e.id, e.path)'
  BY <1>1, <1>2, <1>3, RequestEntry DEF Placed
<1>5. db' = Update(e)
  BY <1>3 DEF FuseUpdate
<1>6. PlacedEntries'
  BY <1>1, <1>2, <1>4, <1>5, UpdatedEntries DEF Placed
<1> QED
  BY <1>1, <1>2, <1>6, FilesStay, AfterStorePlaced, RequestPlaced DEF Placed

\* A ghost has no place and no content.
LEMMA GhostPlaced ==
    ASSUME Inv, PlacedFiles, PlacedEntries, UNCHANGED server, NEW e \in Entry,
           Insert(e, 0, Ghost), Sound(e.id), Been(e.id, e.at), Been(e.id, e.path)
    PROVE  Steady /\ PlacedFiles' /\ PlacedEntries'
<1>1. PICK w \in Wish : w = Ghost /\ w.been = {}
  BY NothingIsTyped DEF Ghost
<1>2. PICK c \in Nat : c = 0
  OBVIOUS
<1>3. Insert(e, c, w)
  BY <1>1, <1>2
<1>4. Steady /\ PlacedFiles'
  BY <1>1, <1>3, InsertedFiles
<1>5. Been(e.id, e.at)' /\ Been(e.id, e.path)'
  BY <1>4, SteadyIds
<1>6. PlacedEntries'
  BY <1>2, <1>3, <1>4, <1>5, InsertedEntries
<1> QED
  BY <1>4, <1>6

\* The entry of the request, whose id is gone, gets a new inode: ids and places still agree.
LEMMA FuseInsertPlaced == ASSUME Inv, Placed, FuseInsert PROVE Placed'
<1>1. UNCHANGED <<server, rows, cycle>> /\ fuse' = AfterStore /\ fuse.pc \in Asking
  BY DEF FuseInsert, Asking
<1>2. PICK e : e = fuse.entry
  OBVIOUS
<1>3. e \in Entry /\ Sound(e.id) /\ Been(e.id, e.at) /\ Been(e.id, e.path)
  BY <1>1, <1>2, RequestFields, RequestSound DEF Placed, PlacedRequest
<1>4. Insert(e, 0, Ghost)
  BY <1>2 DEF FuseInsert
<1>5. Steady /\ PlacedFiles' /\ PlacedEntries'
  BY <1>1, <1>3, <1>4, GhostPlaced DEF Placed
<1> QED
  BY <1>1, <1>5, AfterStorePlaced, RequestPlaced DEF Placed

\* rename reads the entry again by its name, or dies: ids and places still agree.
LEMMA FuseRereadPlaced == ASSUME Inv, Placed, FuseReread PROVE Placed'
<1>1. UNCHANGED <<server, db, disk, rows, cycle>> /\ fuse.rows # << >> /\ fuse.rows \in Seq(Row)
  BY RequestFields DEF FuseReread, Inv, SoundRequest
<1>2. CASE \E i \in DOMAIN db :
             /\ fuse' = [pc |-> "row", entry |-> db[i],
                         rows |-> <<NewRow(db[i], Head(fuse.rows).op)>>]
             /\ UNCHANGED want
  <2>1. PICK i \in DOMAIN db :
             /\ fuse' = [pc |-> "row", entry |-> db[i],
                         rows |-> <<NewRow(db[i], Head(fuse.rows).op)>>]
             /\ UNCHANGED want
    BY <1>2
  <2>2. SamePlaces /\ Steady
    BY <1>1, <2>1, SameServer
  <2>3. PICK e : e = db[i]
    OBVIOUS
  <2>4. e \in Entry /\ Been(e.id, e.at)' /\ Been(e.id, e.path)'
    BY <2>2, <2>3, EntryPlaced DEF Placed
  <2>5. Head(fuse.rows) \in Row
    BY <1>1
  <2>6. PICK op \in Operations : op = Head(fuse.rows).op
    BY <2>5 DEF Row, Operations
  <2>7. PICK R : R = <<NewRow(e, op)>>
    OBVIOUS
  <2>8. \A k \in DOMAIN R : Been(R[k].id, R[k].at)'
    BY <2>4, <2>7, OneRowPlaced
  <2>9. fuse' = [pc |-> "row", entry |-> e, rows |-> R]
    BY <2>1, <2>3, <2>6, <2>7
  <2>10. PlacedRequest'
    BY <2>4, <2>8, <2>9, RequestNow
  <2> QED
    BY <1>1, <2>2, <2>10, FilesStay, EntriesStay, RequestPlaced DEF Placed
<1>3. CASE fuse' = [Idle EXCEPT !.pc = "dead"] /\ Cut(Requested)
  <2>1. DOMAIN want' = DOMAIN want /\ \A i \in DOMAIN want : want'[i].been = want[i].been
    BY <1>3, CutEffect
  <2>2. SamePlaces /\ Steady
    BY <1>1, <2>1, SameServer
  <2>3. fuse'.pc \notin Asking /\ fuse'.rows = << >>
    BY <1>3 DEF Idle, Asking
  <2> QED
    BY <1>1, <2>2, <2>3, FilesStay, EntriesStay, RequestStays, RequestPlaced DEF Placed
<1> QED
  BY <1>2, <1>3 DEF FuseReread

\* The source of a replacement is marked as deleted: ids and places still agree.
LEMMA FuseMarkPlaced == ASSUME Inv, Placed, FuseMark PROVE Placed'
<1>1. UNCHANGED <<server, disk, rows, want, cycle>> /\ fuse.pc \in Asking
  BY DEF FuseMark, Asking
<1>2. SamePlaces /\ Steady
  BY <1>1, SameServer
<1>3. fuse' = [pc |-> "row", entry |-> fuse.entry, rows |-> fuse.rows]
  BY RequestFields DEF FuseMark, Asking
<1>4. PlacedRequest'
  BY <1>1, <1>2, <1>3, RequestLater DEF Placed
<1>5. PlacedEntries'
  <2>1. DOMAIN db' = DOMAIN db
    BY DEF FuseMark
  <2>2. ASSUME NEW i \in DOMAIN db
        PROVE  /\ Been(db[i].id, db[i].at)' /\ Been(db[i].id, db[i].path)'
               /\ disk'[i] # 0 => FileOf(db[i].id)' = i
    <3>1. PICK d : d = db[i]
      OBVIOUS
    <3>2. d \in Entry /\ Been(d.id, d.at)' /\ Been(d.id, d.path)' /\ FileOf(d.id)' = FileOf(d.id)
      BY <1>2, <3>1, EntryPlaced DEF Placed
    <3>3. disk'[i] # 0 => FileOf(d.id) = i
      BY <1>1, <3>1 DEF Placed, PlacedEntries
    <3>4. db'[i].id = d.id /\ db'[i].at = d.at /\ db'[i].path = d.path
      <4>1. db'[i] = IF d.id = fuse.entry.id THEN [d EXCEPT !.deleted = TRUE] ELSE d
        BY <3>1 DEF FuseMark
      <4> QED
        BY <3>2, <4>1 DEF Entry
    <3> QED
      BY <3>2, <3>3, <3>4 DEF Been, FileOf
  <2> QED
    BY <2>1, <2>2 DEF PlacedEntries
<1> QED
  BY <1>1, <1>2, <1>4, <1>5, FilesStay, RequestPlaced DEF Placed

\* What is left of the request once a row is inserted or refused.
LEMMA RowLeftPlaced ==
    ASSUME Inv, PlacedRequest, Steady, fuse.pc = "row", fuse' = RowLeft
    PROVE  PlacedRequest'
<1>1. CASE RowLeft = Idle
  <2>1. fuse'.pc \notin Asking /\ fuse'.rows = << >>
    BY <1>1, IdleFacts DEF Asking
  <2> QED
    BY <2>1, RequestStays
<1>2. CASE \E R \in Seq(Row) :
              /\ RowLeft = [pc |-> "row", entry |-> fuse.entry, rows |-> R]
              /\ \A k \in DOMAIN R : \E m \in DOMAIN fuse.rows : R[k] = fuse.rows[m]
  BY <1>2, RequestLater DEF Asking
<1> QED
  BY <1>1, <1>2, RowLeftFacts

\* The first row of the request is inserted: ids and places still agree.
LEMMA FuseRowPlaced == ASSUME Inv, Placed, FuseRow PROVE Placed'
<1>1. UNCHANGED <<server, db, disk, want, cycle>> /\ fuse' = RowLeft /\ fuse.pc = "row"
  BY DEF FuseRow
<1>2. SamePlaces /\ Steady
  BY <1>1, SameServer
<1>3. PICK k \in DOMAIN fuse.rows : Head(fuse.rows) = fuse.rows[k] /\ Head(fuse.rows) \in Row
  BY <1>1, RowLeftFacts
<1>4. PICK row \in Row : row = Head(fuse.rows) /\ Sound(row.id) /\ Been(row.id, row.at)
  BY <1>3 DEF Placed, PlacedRequest, Inv, SoundRequest
<1>5. /\ DOMAIN rows' = DOMAIN rows \union {Len(rows) + 1}
      /\ rows'[Len(rows) + 1] = row /\ \A r \in DOMAIN rows : rows'[r] = rows[r]
  BY <1>4, AppendRow DEF FuseRow
<1>6. PlacedRows'
  <2>1. ASSUME NEW r \in DOMAIN rows' PROVE Been(rows[r].id, rows[r].at)'
    <3>1. PICK q : q = rows'[r]
      OBVIOUS
    <3>2. Sound(q.id) /\ Been(q.id, q.at)
      BY <1>4, <1>5, <3>1 DEF Placed, PlacedRows, Inv, SoundRows
    <3>3. Been(q.id, q.at)'
      BY <1>2, <3>2, SteadyIds
    <3> QED
      BY <3>1, <3>3 DEF Been, FileOf
  <2> QED
    BY <2>1 DEF PlacedRows
<1>7. PlacedCycle'
  BY <1>1, <1>2, CycleStays DEF Placed, cycle
<1> QED
  BY <1>1, <1>2, <1>6, <1>7, FilesStay, EntriesStay, RowLeftPlaced DEF Placed

\* The first row of the request is lost: ids and places still agree.
LEMMA FuseRowFailsPlaced == ASSUME Inv, Placed, FuseRowFails PROVE Placed'
<1>1. /\ UNCHANGED <<server, db, disk, rows, cycle>> /\ fuse' = RowLeft /\ fuse.pc = "row"
      /\ Cut({FileOf(Head(fuse.rows).id)})
  BY DEF FuseRowFails
<1>2. DOMAIN want' = DOMAIN want /\ \A i \in DOMAIN want : want'[i].been = want[i].been
  BY <1>1, CutEffect
<1>3. SamePlaces /\ Steady
  BY <1>1, <1>2, SameServer
<1> QED
  BY <1>1, <1>3, FilesStay, EntriesStay, RowLeftPlaced, RequestPlaced DEF Placed

-----------------------------------------------------------------------------
\* The cycle.

SameRowPlaces ==
    /\ DOMAIN rows' = DOMAIN rows
    /\ \A r \in DOMAIN rows : rows'[r].id = rows[r].id /\ rows'[r].at = rows[r].at
SameWishes == DOMAIN want' = DOMAIN want /\ \A i \in DOMAIN want : want'[i].been = want[i].been

\* The status of a row says nothing of its place.
LEMMA TouchKeeps ==
    ASSUME Inv, NEW r \in DOMAIN rows, NEW status \in Statuses, Touch(r, status)
    PROVE  SameRowPlaces
BY TouchEffect DEF SameRowPlaces

\* A handler that fails leaves ids and places alone.
LEMMA ErrorKeeps ==
    ASSUME Inv, pc \in Handling, RowError
    PROVE  SameRowPlaces /\ pc' = "loop" /\ pc' \notin Handling
<1>1. PICK r \in DOMAIN rows : r = cur
  BY AtRow
<1>2. Touch(r, "error") /\ pc' = "loop"
  BY <1>1 DEF RowError
<1> QED
  BY <1>2, TouchKeeps DEF Statuses, Handling

\* What is cut short keeps the places the user gave.
LEMMA CutKeeps == ASSUME Inv, NEW files, Cut(files) PROVE SameWishes
BY CutEffect DEF SameWishes

\* A step that changes no file, no entry and no place.
LEMMA QuietPlaced ==
    ASSUME Inv, Placed, UNCHANGED <<server, db, disk>>, SameWishes, SameRowPlaces,
           fuse' = fuse \/ fuse' = Idle,
           pc' \notin Handling \/ (pc' = pc /\ UNCHANGED <<item, answer>>)
    PROVE  Placed'
<1>1. SamePlaces /\ Steady
  BY SameServer DEF SameWishes
<1>2. PlacedFiles' /\ PlacedEntries'
  BY <1>1, FilesStay, EntriesStay DEF Placed
<1>3. PlacedRows'
  BY <1>1, RowsStay DEF Placed, SameRowPlaces
<1>4. PlacedRequest'
  <2>1. fuse' = Idle => fuse'.pc \notin Asking /\ fuse'.rows = << >>
    BY IdleFacts DEF Asking
  <2> QED
    BY <1>1, <2>1, RequestStays DEF Placed
<1>5. PlacedCycle'
  BY <1>1, CycleRests, CycleStays DEF Placed
<1> QED
  BY <1>2, <1>3, <1>4, <1>5 DEF Placed

\* Tables that do not change.
LEMMA RestKeeps ==
    /\ UNCHANGED rows => SameRowPlaces
    /\ UNCHANGED want => SameWishes
    /\ EndCycle => pc' \notin Handling
BY DEF SameRowPlaces, SameWishes, EndCycle, Handling

\* Five seconds pass: ids and places still agree.
LEMMA TimePassesPlaced == ASSUME Inv, Placed, TimePasses PROVE Placed'
<1>1. UNCHANGED <<server, db, disk, rows, want, fuse, pc, item, answer>>
  BY DEF TimePasses, request, cycle
<1> QED
  BY <1>1, RestKeeps, QuietPlaced

\* The process is killed: ids and places still agree.
LEMMA CrashPlaced == ASSUME Inv, Placed, Crash PROVE Placed'
<1>1. /\ UNCHANGED <<server, db, disk, rows>> /\ EndCycle /\ fuse' = Idle
      /\ Cut(Requested \union Processed)
  BY DEF Crash
<1>2. SameWishes
  BY <1>1, CutKeeps
<1> QED
  BY <1>1, <1>2, RestKeeps, QuietPlaced

\* A cycle starts: ids and places still agree.
LEMMA StartPlaced == ASSUME Inv, Placed, Start PROVE Placed'
<1>1. UNCHANGED <<server, db, disk, rows, want, fuse>> /\ pc' \notin Handling
  BY DEF Start, request, Handling
<1> QED
  BY <1>1, RestKeeps, QuietPlaced

\* All items are squashed: ids and places still agree.
LEMMA SquashDonePlaced == ASSUME Inv, Placed, SquashDone PROVE Placed'
<1>1. UNCHANGED <<server, db, disk, rows, want, fuse>> /\ pc' \notin Handling
  BY DEF SquashDone, request, Handling
<1> QED
  BY <1>1, RestKeeps, QuietPlaced

\* No row is left to select: ids and places still agree.
LEMMA FinishPlaced == ASSUME Inv, Placed, Finish PROVE Placed'
<1>1. UNCHANGED <<server, db, disk, rows, want, fuse>> /\ pc' \notin Handling
  BY RestKeeps DEF Finish, request
<1> QED
  BY <1>1, RestKeeps, QuietPlaced

\* Squashing changes no id and no place.
LEMMA SquashedKeeps ==
    ASSUME Inv, NEW rs \in SUBSET DOMAIN rows, NEW gone \in SUBSET DOMAIN rows, Squashed(rs, gone)
    PROVE  SameRowPlaces
BY SquashedEffect DEF SameRowPlaces, SameRows

\* The rows of an item are squashed: ids and places still agree.
LEMMA SquashPlaced == ASSUME Inv, Placed, NEW id \in todo, Squash(id) PROVE Placed'
<1>1. /\ UNCHANGED <<server, db, disk, want, fuse>> /\ pc = "squash" /\ UNCHANGED pc
      /\ Squashed(RowsOf(id), Surplus(RowsOf(id)))
  BY DEF Squash, request
<1>2. SameRowPlaces
  BY <1>1, RowsOfFacts, SquashedKeeps
<1>3. pc' \notin Handling
  BY <1>1 DEF Handling
<1> QED
  BY <1>1, <1>2, <1>3, RestKeeps, QuietPlaced

\* The squashing of an item stops in the middle: ids and places still agree.
LEMMA SquashStopsPlaced == ASSUME Inv, Placed, NEW id \in todo, SquashStops(id) PROVE Placed'
<1>1. PICK rs \in SUBSET DOMAIN rows, gone \in SUBSET DOMAIN rows : Squashed(rs, gone)
  <2>1. PICK k \in Surplus(RowsOf(id)) :
           Squashed(RowsOf(id), {r \in Surplus(RowsOf(id)) : r < k})
    BY DEF SquashStops
  <2>2. PICK rs \in SUBSET DOMAIN rows, gone \in SUBSET DOMAIN rows :
           rs = RowsOf(id) /\ gone = {r \in Surplus(RowsOf(id)) : r < k}
    BY RowsOfFacts
  <2> QED
    BY <2>1, <2>2
<1>2. SameRowPlaces
  BY <1>1, SquashedKeeps
<1>3. UNCHANGED <<server, db, disk>> /\ EndCycle /\ (UNCHANGED <<fuse, want>> \/ (fuse' = Idle /\ Cut(Requested)))
  BY DEF SquashStops
<1>4. SameWishes
  BY <1>3, RestKeeps, CutKeeps
<1> QED
  BY <1>2, <1>3, <1>4, RestKeeps, QuietPlaced

\* A row is set aside as conflicted: ids and places still agree.
LEMMA SetConflictedPlaced ==
    ASSUME Inv, Placed, NEW r \in DOMAIN rows, SetConflicted(r)
    PROVE  Placed'
<1>1. UNCHANGED <<server, db, disk, want, fuse, pc, item, answer>> /\ Touch(r, "conflicted")
  BY DEF SetConflicted, request, cycle
<1> QED
  BY <1>1, TouchKeeps, RestKeeps, QuietPlaced DEF Statuses

\* The task of the cycle dies: ids and places still agree.
LEMMA HandlerPanicsPlaced == ASSUME Inv, Placed, HandlerPanics PROVE Placed'
<1>1. UNCHANGED <<server, db, disk, rows, fuse>> /\ EndCycle /\ Cut(Processed)
  BY DEF HandlerPanics
<1> QED
  BY <1>1, CutKeeps, RestKeeps, QuietPlaced

\* The request of the handler is refused: ids and places still agree.
LEMMA HandlerRefusedPlaced == ASSUME Inv, Placed, HandlerRefused PROVE Placed'
<1>1. UNCHANGED <<server, db, disk, want, fuse>> /\ RowError /\ pc \in Handling
  BY DEF HandlerRefused, request, Handling
<1> QED
  BY <1>1, ErrorKeeps, RestKeeps, QuietPlaced

\* A request or a statement of the handler fails: ids and places still agree.
LEMMA HandlerFailsPlaced == ASSUME Inv, Placed, HandlerFails PROVE Placed'
<1>1. UNCHANGED <<server, db, disk, want, fuse>> /\ RowError /\ pc \in Handling
  BY DEF HandlerFails, request, Handling
<1> QED
  BY <1>1, ErrorKeeps, RestKeeps, QuietPlaced

\* The row at hand is done: ids and places still agree.
LEMMA FinishRowPlaced == ASSUME Inv, Placed, FinishRow PROVE Placed'
<1>1. /\ UNCHANGED <<server, db, disk, want, fuse>> /\ Touch(cur, "gone")
      /\ pc \in Handling /\ pc' \notin Handling
  BY DEF FinishRow, request, Handling
<1>2. PICK r \in DOMAIN rows : r = cur
  BY <1>1, AtRow
<1> QED
  BY <1>1, <1>2, TouchKeeps, RestKeeps, QuietPlaced DEF Statuses

\* A row is taken up: ids and places still agree.
LEMMA BeginPlaced == ASSUME Inv, Placed, NEW r \in DOMAIN rows, Begin(r) PROVE Placed'
<1>1. /\ UNCHANGED <<server, db, disk, want, fuse>> /\ Touch(r, "processing")
      /\ item' = rows[r] /\ pc' = "begun"
  BY DEF Begin, request
<1>2. SameRowPlaces
  BY <1>1, TouchKeeps DEF Statuses
<1>3. SamePlaces /\ Steady
  BY <1>1, SameServer
<1>4. PlacedCycle'
  <2>1. PICK m : m = rows[r]
    OBVIOUS
  <2>2. Sound(m.id) /\ Been(m.id, m.at)
    BY <2>1 DEF Placed, PlacedRows, Inv, SoundRows
  <2>3. Been(m.id, m.at)'
    BY <1>3, <2>2, SteadyIds
  <2>4. item' = m /\ pc' \notin Answering
    BY <1>1, <2>1 DEF Answering
  <2> QED
    BY <2>3, <2>4 DEF PlacedCycle, Been, FileOf
<1> QED
  BY <1>1, <1>2, <1>3, <1>4, FilesStay, EntriesStay, RowsStay, RequestStays DEF Placed, SameRowPlaces

\* A request that reached OneDrive, whatever becomes of its answer.
LEMMA SentPlaced ==
    ASSUME Inv, Placed, pc = "begun", NEW next \in {"entries", "answered"}, Outcome(next),
           Steady, PlacedFiles', UNCHANGED <<db, disk, fuse, item>>,
           NEW a, answer' = a, FileOf(a.id)' = FileOf(item.id),
           Been(a.id, a.at)', Been(a.id, a.path)'
    PROVE  Placed'
<1>1. pc \in Handling
  BY DEF Handling
<1>2. SameRowPlaces /\ (pc' = next \/ pc' \notin Handling)
  <2>1. CASE RowError
    BY <1>1, <2>1, ErrorKeeps
  <2>2. CASE pc' = next /\ UNCHANGED <<rows, recent, cur, bounds>>
    BY <2>2, RestKeeps
  <2> QED
    BY <2>1, <2>2 DEF Outcome
<1>3. PlacedCycle'
  BY <1>1, CycleAnswers DEF Placed
<1> QED
  BY <1>2, <1>3, EntriesStay, RowsStay, RequestStays DEF Placed, SameRowPlaces

\* The item at hand, after a step.
LEMMA ItemPlaced ==
    ASSUME Inv, PlacedCycle, Steady, pc \in Handling, NEW m, m = item
    PROVE  /\ Sound(m.id) /\ Been(m.id, m.at) /\ Been(m.id, m.at)'
           /\ FileOf(m.id)' = FileOf(m.id) /\ FileOf(m.id) \in DOMAIN want
<1>1. Sound(m.id) /\ Been(m.id, m.at)
  BY DEF Inv, SoundCycle, PlacedCycle
<1> QED
  BY <1>1, SteadyIds, IdsOfInts

\* The file of an id of OneDrive.
LEMMA OwnerOf ==
    ASSUME Inv, NEW id \in DOMAIN server
    PROVE  FileOf(id) = server[id].owner /\ server[id].owner \in DOMAIN want
<1>1. id \in Nat
  BY Tables
<1> QED
  BY <1>1 DEF FileOf, Inv, SoundFiles

\* An upload by name reaches no file but the one the row is about.
LEMMA UploadReachesOwn ==
    ASSUME Inv, Placed, pc \in Handling, NEW i \in DOMAIN db, NEW id \in Nat \ {0}, Uploaded(i, id)
    PROVE  /\ i = FileOf(item.id) /\ i \in DOMAIN want
           /\ id \in DOMAIN server => server[id].owner = i
<1>1. i = FileOf(item.id)
  BY DEF Uploaded, Placed, PlacedEntries
<1>2. i \in DOMAIN want /\ item.at \in want[i].been
  BY <1>1, Tables DEF Placed, PlacedCycle, Been
<1>3. ASSUME id \in DOMAIN server PROVE server[id].owner = i
  <2>1. server[id].at = item.at
    BY <1>3 DEF Uploaded
  <2>2. server[id].at \in want[server[id].owner].been /\ server[id].owner \in DOMAIN want
    BY <1>3, OwnerOf DEF Placed, PlacedFiles
  <2> QED
    BY <1>2, <2>1, <2>2 DEF Placed, PlacedFiles
<1> QED
  BY <1>1, <1>2, <1>3

\* A file is uploaded by its name: ids and places still agree.
LEMMA UploadNewPlaced == ASSUME Inv, Placed, UploadNew PROVE Placed'
<1>1. PICK i \in DOMAIN db, id \in Nat \ {0} : Uploaded(i, id)
  BY UploadNewEffect
<1>2. /\ pc = "begun" /\ pc \in Handling /\ Outcome("entries")
      /\ UNCHANGED <<db, disk, want, fuse, item>>
  BY DEF UploadNew, request, Handling
<1>3. PICK m : m = item /\ m.at \in Place
  BY <1>2, AtRow
<1>4. i = FileOf(m.id) /\ i \in DOMAIN want /\ (id \in DOMAIN server => server[id].owner = i)
  BY <1>1, <1>2, <1>3, UploadReachesOwn
<1>5. m.at \in want[i].been
  BY <1>2, <1>3, <1>4 DEF Placed, PlacedCycle, Been
<1>6. PICK a : a = At(id, m.at) /\ a.id = id /\ a.at = m.at /\ a.path = m.at
  BY <1>3, AtFacts
<1>7. answer' = a
  BY <1>1, <1>3, <1>6 DEF Uploaded
<1>8. PICK w \in File : /\ Put(id, w) /\ w.owner = i /\ w.by = i
                        /\ w.at \in want[i].been
  <2>1. CASE id \in DOMAIN server
    BY <1>1, <1>3, <1>4, <1>5, <2>1 DEF Uploaded, Overwritten
  <2>2. CASE id \notin DOMAIN server
    BY <1>1, <1>3, <1>4, <1>5, <2>2 DEF Uploaded
  <2> QED
    BY <2>1, <2>2
<1>9. Steady
  BY <1>2, <1>4, <1>8 DEF Steady, Put
<1>10. PlacedFiles'
  <2>1. ASSUME NEW s \in DOMAIN server'
        PROVE  server'[s].at \in want[server'[s].owner].been /\ server'[s].by = server'[s].owner
    BY <1>8 DEF Put, Placed, PlacedFiles
  <2> QED
    BY <1>2, <2>1 DEF Placed, PlacedFiles
<1>11. FileOf(a.id)' = i
  BY <1>6, <1>8 DEF FileOf, Put
<1>12. Been(a.id, a.at)' /\ Been(a.id, a.path)'
  BY <1>2, <1>5, <1>6, <1>11 DEF Been
<1>13. FileOf(a.id)' = FileOf(item.id)
  BY <1>3, <1>4, <1>11
<1> QED
  BY <1>2, <1>7, <1>9, <1>10, <1>12, <1>13, SentPlaced

\* A file is uploaded by its id: ids and places still agree.
LEMMA UploadChangePlaced == ASSUME Inv, Placed, UploadChange PROVE Placed'
<1>1. PICK i \in DOMAIN db :
         /\ db[i].id = item.id /\ disk[i] # 0 /\ answer' = db[i]
         /\ item.id \in DOMAIN server
         /\ \E w \in File : Put(item.id, w) /\ Overwritten(w, server[item.id], disk[i], i)
  BY UploadChangeEffect
<1>2. /\ pc = "begun" /\ pc \in Handling /\ Outcome("answered")
      /\ UNCHANGED <<db, disk, want, fuse, item>>
  BY DEF UploadChange, request, Handling
<1>3. i = FileOf(item.id) /\ FileOf(item.id) = server[item.id].owner
  BY <1>1, OwnerOf DEF Placed, PlacedEntries
<1>4. SamePlaces
  <2>1. PICK w \in File : Put(item.id, w) /\ Overwritten(w, server[item.id], disk[i], i)
    BY <1>1
  <2>2. w.owner = server[item.id].owner /\ w.at = server[item.id].at /\ w.by = server[item.id].by
    BY <1>1, <1>3, <2>1 DEF Overwritten, Placed, PlacedFiles
  <2> QED
    BY <1>1, <1>2, <2>1, <2>2 DEF SamePlaces, Put
<1>5. Steady /\ PlacedFiles'
  BY <1>4, SameIsSteady, FilesStay DEF Placed
<1>6. PICK a : a = db[i]
  OBVIOUS
<1>7. Been(a.id, a.at)' /\ Been(a.id, a.path)' /\ FileOf(a.id)' = FileOf(a.id)
  BY <1>5, <1>6, EntryPlaced DEF Placed
<1>8. FileOf(a.id)' = FileOf(item.id)
  BY <1>1, <1>6, <1>7
<1> QED
  BY <1>1, <1>2, <1>5, <1>6, <1>7, <1>8, SentPlaced

\* A file is deleted by its path: ids and places still agree.
LEMMA DeleteOnServerPlaced == ASSUME Inv, Placed, DeleteOnServer PROVE Placed'
<1>1. /\ pc = "begun" /\ pc \in Handling /\ Outcome("answered")
      /\ UNCHANGED <<db, disk, want, fuse, item>> /\ answer' = At(item.id, item.at)
  BY DEF DeleteOnServer, request, Handling
<1>2. SamePlaces
  BY <1>1, DeleteEffect DEF SamePlaces, InPlace
<1>3. Steady /\ PlacedFiles'
  BY <1>2, SameIsSteady, FilesStay DEF Placed
<1>4. PICK m : m = item
  OBVIOUS
<1>5. Been(m.id, m.at)' /\ FileOf(m.id)' = FileOf(m.id) /\ m.id \in Int /\ m.at \in Place
  BY <1>1, <1>3, <1>4, ItemPlaced, AtRow DEF Placed
<1>6. PICK a : a = At(m.id, m.at) /\ a.id = m.id /\ a.at = m.at /\ a.path = m.at
  BY <1>5, AtFacts
<1>7. Been(a.id, a.at)' /\ Been(a.id, a.path)'
  BY <1>5, <1>6
<1>8. FileOf(a.id)' = FileOf(item.id)
  BY <1>4, <1>5, <1>6
<1>9. answer' = a
  BY <1>1, <1>4, <1>6
<1> QED
  BY <1>1, <1>3, <1>7, <1>8, <1>9, SentPlaced

\* Only here a file may stray.
LEMMA RelocatePlaced == ASSUME Inv, Placed, Relocate PROVE Strayed' \/ Placed'
<1>1. /\ pc = "begun" /\ pc \in Handling /\ Outcome("answered")
      /\ UNCHANGED <<db, disk, want, fuse, item>> /\ answer' = At(item.id, Target)
  BY DEF Relocate, request, Handling
<1>2. /\ DOMAIN server' = DOMAIN server /\ item.id \in DOMAIN server /\ Target \in Place
      /\ \A s \in DOMAIN server : /\ InPlace(s) /\ (s # item.id => server'[s] = server[s])
      /\ server'[item.id].at = Target
      /\ server'[item.id].stray =
            (server[item.id].stray \/ Target \notin want[server[item.id].owner].been)
  BY RelocateEffect
<1>3. CASE Target \notin want[server[item.id].owner].been
  <2>1. server'[item.id].stray
    BY <1>2, <1>3
  <2> QED
    BY <1>2, <2>1 DEF Strayed
<1>4. CASE Target \in want[server[item.id].owner].been
  <2>1. Steady
    BY <1>1, <1>2 DEF Steady, InPlace
  <2>2. PlacedFiles'
    <3>1. ASSUME NEW s \in DOMAIN server
          PROVE  server'[s].at \in want[server'[s].owner].been /\ server'[s].by = server'[s].owner
      <4>1. server'[s].owner = server[s].owner /\ server'[s].by = server[s].by
        BY <1>2 DEF InPlace
      <4>2. CASE s = item.id
        BY <1>2, <1>4, <4>1, <4>2 DEF Placed, PlacedFiles
      <4>3. CASE s # item.id
        BY <1>2, <4>1, <4>3 DEF Placed, PlacedFiles
      <4> QED
        BY <4>2, <4>3
    <3> QED
      BY <1>1, <1>2, <3>1 DEF Placed, PlacedFiles
  <2>3. PICK m, p : m = item /\ p = Target /\ p \in Place
    BY <1>2
  <2>4. FileOf(m.id)' = FileOf(m.id) /\ m.id \in Int /\ FileOf(m.id) = server[m.id].owner
    BY <1>1, <1>2, <2>1, <2>3, ItemPlaced, AtRow, OwnerOf DEF Placed
  <2>5. PICK a : a = At(m.id, p) /\ a.id = m.id /\ a.at = p /\ a.path = p
    BY <2>3, <2>4, AtFacts
  <2>6. Been(m.id, p)'
    BY <1>1, <1>4, <2>3, <2>4 DEF Been
  <2>7. Been(a.id, a.at)' /\ Been(a.id, a.path)'
    BY <2>5, <2>6
  <2>8. FileOf(a.id)' = FileOf(item.id)
    BY <2>3, <2>4, <2>5
  <2>9. answer' = a
    BY <1>1, <2>3, <2>5
  <2> QED
    BY <1>1, <2>1, <2>2, <2>7, <2>8, <2>9, SentPlaced
<1> QED
  BY <1>3, <1>4

\* The answer at hand, after a step.
LEMMA AnswerPlaced ==
    ASSUME Inv, PlacedCycle, Steady, pc \in Answering, NEW a, a = answer
    PROVE  /\ a \in Entry /\ Sound(a.id) /\ Been(a.id, a.at) /\ Been(a.id, a.path)
           /\ Been(a.id, a.at)' /\ Been(a.id, a.path)'
           /\ FileOf(a.id) = FileOf(item.id) /\ FileOf(a.id)' = FileOf(a.id)
<1>1. /\ a \in Entry /\ Sound(a.id) /\ Been(a.id, a.at) /\ Been(a.id, a.path)
      /\ FileOf(a.id) = FileOf(item.id)
  BY DEF Inv, TypeOK, SoundCycle, PlacedCycle
<1> QED
  BY <1>1, SteadyIds

\* The entry gets the id OneDrive gave: ids and places still agree.
LEMMA RewriteEntryPlaced == ASSUME Inv, Placed, RewriteEntry PROVE Placed'
<1>1. UNCHANGED <<server, disk, want, fuse, item, answer>> /\ pc \in Handling /\ pc \in Answering
  BY DEF RewriteEntry, request, Handling, Answering
<1>2. SamePlaces /\ Steady
  BY <1>1, SameServer
<1>3. CASE RowError /\ UNCHANGED db
  BY <1>1, <1>3, ErrorKeeps, RestKeeps, QuietPlaced
<1>4. CASE /\ pc' = "rows" /\ UNCHANGED rows
           /\ DOMAIN db' = DOMAIN db
           /\ \A i \in DOMAIN db :
                 /\ db'[i].id = (IF db[i].id = item.id THEN answer.id ELSE db[i].id)
                 /\ db'[i].at = db[i].at /\ db'[i].path = db[i].path
  <2>1. PICK m, a : m = item /\ a = answer
    OBVIOUS
  <2>2. FileOf(a.id) = FileOf(m.id) /\ FileOf(a.id)' = FileOf(a.id)
    BY <1>1, <1>2, <2>1, AnswerPlaced DEF Placed
  <2>3. ASSUME NEW i \in DOMAIN db
        PROVE  /\ Been(db[i].id, db[i].at)' /\ Been(db[i].id, db[i].path)'
               /\ disk'[i] # 0 => FileOf(db[i].id)' = i
    <3>1. PICK d : d = db[i]
      OBVIOUS
    <3>2. /\ Been(d.id, d.at) /\ Been(d.id, d.path)
          /\ Been(d.id, d.at)' /\ Been(d.id, d.path)' /\ FileOf(d.id)' = FileOf(d.id)
      BY <1>2, <3>1, EntryPlaced DEF Placed, PlacedEntries
    <3>3. disk'[i] # 0 => FileOf(d.id) = i
      BY <1>1, <3>1 DEF Placed, PlacedEntries
    <3>4. db'[i].at = d.at /\ db'[i].path = d.path
      BY <1>4, <3>1
    <3>5. CASE d.id = m.id
      <4>1. db'[i].id = a.id
        BY <1>4, <2>1, <3>1, <3>5
      <4>2. FileOf(a.id)' = FileOf(d.id)'
        BY <2>2, <3>2, <3>5
      <4>3. Been(a.id, d.at)' /\ Been(a.id, d.path)'
        BY <3>2, <4>2 DEF Been
      <4> QED
        BY <2>2, <3>2, <3>3, <3>4, <3>5, <4>1, <4>3 DEF Been, FileOf
    <3>6. CASE d.id # m.id
      <4>1. db'[i].id = d.id
        BY <1>4, <2>1, <3>1, <3>6
      <4> QED
        BY <3>2, <3>3, <3>4, <4>1 DEF Been, FileOf
    <3> QED
      BY <3>5, <3>6
  <2>4. PlacedEntries'
    BY <1>4, <2>3 DEF PlacedEntries
  <2>5. PlacedCycle'
    BY <1>1, <1>2, CycleStays DEF Placed
  <2>6. PlacedRows'
    BY <1>2, <1>4, RowsStay DEF Placed
  <2> QED
    BY <1>1, <1>2, <2>4, <2>5, <2>6, FilesStay, RequestStays DEF Placed
<1> QED
  BY <1>3, <1>4, RewriteEntryEffect

\* The rows get the id OneDrive gave: ids and places still agree.
LEMMA RewriteRowsPlaced == ASSUME Inv, Placed, RewriteRows PROVE Placed'
<1>1. /\ UNCHANGED <<server, db, disk, want, fuse, item, answer>>
      /\ pc \in Handling /\ pc \in Answering
  BY DEF RewriteRows, request, Handling, Answering
<1>2. SamePlaces /\ Steady
  BY <1>1, SameServer
<1>3. /\ DOMAIN rows' = DOMAIN rows
      /\ \A r \in DOMAIN rows :
            /\ rows'[r].id = (IF rows[r].id = item.id THEN answer.id ELSE rows[r].id)
            /\ rows'[r].at = rows[r].at
  BY RewriteRowsEffect
<1>4. PICK m, a : m = item /\ a = answer
  OBVIOUS
<1>5. FileOf(a.id) = FileOf(m.id) /\ FileOf(a.id)' = FileOf(a.id)
  BY <1>1, <1>2, <1>4, AnswerPlaced DEF Placed
<1>6. ASSUME NEW r \in DOMAIN rows PROVE Been(rows[r].id, rows[r].at)'
  <2>1. PICK q : q = rows[r]
    OBVIOUS
  <2>2. Sound(q.id) /\ Been(q.id, q.at)
    BY <2>1 DEF Placed, PlacedRows, Inv, SoundRows
  <2>3. Been(q.id, q.at)' /\ FileOf(q.id)' = FileOf(q.id)
    BY <1>2, <2>2, SteadyIds
  <2>4. CASE q.id = m.id
    <3>1. rows'[r].id = a.id /\ rows'[r].at = q.at
      BY <1>3, <1>4, <2>1, <2>4
    <3>2. FileOf(a.id)' = FileOf(q.id)'
      BY <1>5, <2>3, <2>4
    <3>3. Been(a.id, q.at)'
      BY <2>3, <3>2 DEF Been
    <3> QED
      BY <3>1, <3>3 DEF Been, FileOf
  <2>5. CASE q.id # m.id
    <3>1. rows'[r].id = q.id /\ rows'[r].at = q.at
      BY <1>3, <1>4, <2>1, <2>5
    <3> QED
      BY <2>3, <3>1 DEF Been, FileOf
  <2> QED
    BY <2>4, <2>5
<1>7. PlacedRows'
  BY <1>3, <1>6 DEF PlacedRows
<1>8. PlacedCycle'
  BY <1>1, <1>2, CycleStays DEF Placed
<1> QED
  BY <1>1, <1>2, <1>7, <1>8, FilesStay, EntriesStay, RequestStays DEF Placed

\* The uploaded item is read back: ids and places still agree.
LEMMA GetItemPlaced == ASSUME Inv, Placed, GetItem PROVE Placed'
<1>1. /\ UNCHANGED <<server, db, disk, want, rows, fuse, item>>
      /\ pc = "get" /\ pc \in Handling /\ pc \in Answering
  BY DEF GetItem, request, Handling, Answering
<1>2. SamePlaces /\ Steady
  BY <1>1, SameServer
<1>3. PlacedCycle'
  <2>1. CASE answer' = At(answer.id, server[answer.id].at)
    <3>1. PICK id \in DOMAIN server : id = answer.id
      BY <1>1 DEF Inv, SoundCycle
    <3>2. PICK p \in Place : p = server[id].at
      BY Tables DEF File
    <3>3. id \in Int /\ FileOf(id) = server[id].owner
      BY Tables, OwnerOf
    <3>4. Been(id, p)
      BY <3>2, <3>3 DEF Placed, PlacedFiles, Been
    <3>5. FileOf(id) = FileOf(item.id) /\ FileOf(id)' = FileOf(id) /\ Been(id, p)'
      <4>1. FileOf(id) = FileOf(item.id) /\ Sound(id)
        BY <1>1, <3>1 DEF Placed, PlacedCycle, Inv, SoundCycle
      <4> QED
        BY <1>2, <3>4, <4>1, SteadyIds
    <3>6. PICK a : a = At(id, p) /\ a.id = id /\ a.at = p /\ a.path = p
      BY <3>3, AtFacts
    <3>7. Been(a.id, a.at)' /\ Been(a.id, a.path)' /\ FileOf(a.id)' = FileOf(item.id)
      BY <3>5, <3>6
    <3>8. answer' = a
      BY <2>1, <3>1, <3>2, <3>6
    <3> QED
      BY <1>1, <1>2, <3>7, <3>8, CycleAnswers DEF Placed
  <2>2. CASE UNCHANGED answer
    BY <1>1, <1>2, <2>2, CycleStays DEF Placed
  <2> QED
    BY <2>1, <2>2 DEF GetItem
<1> QED
  BY <1>1, <1>2, <1>3, FilesStay, EntriesStay, RowsStay, RequestStays DEF Placed

\* The answer is stored, in its entry or in a new inode: ids and places still agree.
LEMMA StoreAnswerPlaced == ASSUME Inv, Placed, StoreAnswer PROVE Placed'
<1>1. /\ UNCHANGED <<server, rows, fuse, item, answer>>
      /\ pc = "answered" /\ pc \in Handling /\ pc \in Answering
  BY DEF StoreAnswer, Handling, Answering
<1>2. PICK e : e = answer
  OBVIOUS
<1>3. e \in Entry /\ Sound(e.id) /\ Been(e.id, e.at) /\ Been(e.id, e.path)
  BY <1>1, <1>2 DEF Placed, PlacedCycle, Inv, SoundCycle, TypeOK
<1>4. Steady /\ PlacedFiles' /\ PlacedEntries'
  <2>1. CASE db' = Update(e) /\ UNCHANGED <<disk, want>>
    <3>1. SamePlaces /\ Steady
      BY <1>1, <2>1, SameServer
    <3>2. Been(e.id, e.at)' /\ Been(e.id, e.path)'
      BY <1>3, <3>1, SteadyIds
    <3> QED
      BY <1>3, <2>1, <3>1, <3>2, FilesStay, UpdatedEntries DEF Placed
  <2>2. CASE Insert(e, 0, Ghost)
    BY <1>1, <1>3, <2>2, GhostPlaced DEF Placed
  <2> QED
    BY <1>2, <2>1, <2>2 DEF StoreAnswer
<1>5. PlacedCycle'
  BY <1>1, <1>4, CycleStays DEF Placed
<1>6. PlacedRows'
  BY <1>1, <1>4, RowsStay DEF Placed
<1> QED
  BY <1>1, <1>4, <1>5, <1>6, RequestStays DEF Placed

\* The row gets the item of the answer: ids and places still agree.
LEMMA RowAnsweredPlaced == ASSUME Inv, Placed, RowAnswered PROVE Placed'
<1>1. /\ UNCHANGED <<server, db, disk, want, fuse, item, answer>>
      /\ pc = "stored" /\ pc \in Handling /\ pc \in Answering
  BY DEF RowAnswered, request, Handling, Answering
<1>2. SamePlaces /\ Steady
  BY <1>1, SameServer
<1>3. PICK a : a = answer
  OBVIOUS
<1>4. Been(a.id, a.at)'
  BY <1>1, <1>2, <1>3, AnswerPlaced DEF Placed
<1>5. /\ DOMAIN rows' = DOMAIN rows
      /\ \A r \in DOMAIN rows \ {cur} : rows'[r] = rows[r]
      /\ rows'[cur].id = a.id /\ rows'[cur].at = a.at
  BY <1>3, RowAnsweredEffect
<1>6. ASSUME NEW r \in DOMAIN rows PROVE Been(rows[r].id, rows[r].at)'
  <2>1. CASE r = cur
    BY <1>4, <1>5, <2>1 DEF Been, FileOf
  <2>2. CASE r # cur
    <3>1. PICK q : q = rows[r]
      OBVIOUS
    <3>2. Sound(q.id) /\ Been(q.id, q.at)
      BY <3>1 DEF Placed, PlacedRows, Inv, SoundRows
    <3>3. Been(q.id, q.at)'
      BY <1>2, <3>2, SteadyIds
    <3>4. rows'[r] = q
      BY <1>5, <2>2, <3>1
    <3> QED
      BY <3>3, <3>4 DEF Been, FileOf
  <2> QED
    BY <2>1, <2>2
<1>7. PlacedRows'
  BY <1>5, <1>6 DEF PlacedRows
<1>8. PlacedCycle'
  BY <1>1, <1>2, CycleStays DEF Placed
<1> QED
  BY <1>1, <1>2, <1>7, <1>8, FilesStay, EntriesStay, RequestStays DEF Placed

\* The steps that change OneDrive.
LEMMA ServerSteps ==
    ASSUME [Next]_vars
    PROVE  UNCHANGED server \/ UploadNew \/ UploadChange \/ DeleteOnServer \/ Relocate
<1>1. CASE User
  BY <1>1 DEF User, Create, Rename, Write, Release, Unlink, Replace
<1>2. CASE Request
  BY <1>2 DEF Request, FuseSelect, FuseUpdate, FuseInsert, FuseReread, FuseMark, FuseRow,
              FuseRowFails
<1>3. CASE Handle
  BY <1>3 DEF Handle, HandlerPanics, HandlerRefused, HandlerFails, RewriteEntry, RewriteRows,
              GetItem, StoreAnswer, RowAnswered, FinishRow
<1>4. CASE Cycle
  BY <1>3, <1>4 DEF Cycle, Start, SquashDone, Finish, Squash, SquashStops, Begin, SetConflicted
<1>5. CASE TimePasses \/ Crash \/ UNCHANGED vars
  BY <1>5 DEF TimePasses, Crash, vars
<1> QED
  BY <1>1, <1>2, <1>4, <1>5 DEF Next

\* A file that strayed has strayed for good.
LEMMA StrayedStays == ASSUME Inv, Strayed, [Next]_vars PROVE Strayed'
<1>1. PICK s \in DOMAIN server : server[s].stray
  BY DEF Strayed
<1>2. CASE UNCHANGED server
  BY <1>1, <1>2 DEF Strayed
<1>3. CASE UploadNew
  <2>1. PICK i \in DOMAIN db, id \in Nat \ {0} : Uploaded(i, id)
    BY <1>3, UploadNewEffect
  <2>2. s \in DOMAIN server' /\ server'[s].stray
    BY <1>1, <2>1 DEF Uploaded, Put, Overwritten
  <2> QED
    BY <2>2 DEF Strayed
<1>4. CASE UploadChange
  <2>1. s \in DOMAIN server' /\ server'[s].stray
    BY <1>1, <1>4, UploadChangeEffect DEF Put, Overwritten
  <2> QED
    BY <2>1 DEF Strayed
<1>5. CASE DeleteOnServer
  BY <1>1, <1>5, DeleteEffect DEF Strayed
<1>6. CASE Relocate
  <2>1. s \in DOMAIN server' /\ server'[s].stray
    BY <1>1, <1>6, RelocateEffect
  <2> QED
    BY <2>1 DEF Strayed
<1> QED
  BY <1>2, <1>3, <1>4, <1>5, <1>6, ServerSteps

\* Nothing happens: ids and places still agree.
LEMMA StutterPlaced == ASSUME Inv, Placed, UNCHANGED vars PROVE Placed'
<1>1. UNCHANGED <<server, db, disk, rows, want, fuse, pc, item, answer>>
  BY DEF vars, request, cycle
<1> QED
  BY <1>1, RestKeeps, QuietPlaced

\* A step keeps ids and places in agreement, unless it makes a file stray.
LEMMA PlacedNext == ASSUME ~Reuse, Inv, Placed, [Next]_vars PROVE Strayed' \/ Placed'
<1>1. CASE User
  BY <1>1, CreatePlaced, RenamePlaced, WritePlaced, ReleasePlaced, UnlinkPlaced, ReplacePlaced
  DEF User
<1>2. CASE Request
  BY <1>2, FuseSelectPlaced, FuseUpdatePlaced, FuseInsertPlaced, FuseRereadPlaced,
     FuseMarkPlaced, FuseRowPlaced, FuseRowFailsPlaced DEF Request
<1>3. CASE Handle
  BY <1>3, HandlerPanicsPlaced, HandlerRefusedPlaced, HandlerFailsPlaced, UploadNewPlaced,
     RewriteEntryPlaced, RewriteRowsPlaced, GetItemPlaced, UploadChangePlaced,
     DeleteOnServerPlaced, RelocatePlaced, StoreAnswerPlaced, RowAnsweredPlaced,
     FinishRowPlaced DEF Handle
<1>4. CASE Cycle
  BY <1>3, <1>4, StartPlaced, SquashDonePlaced, FinishPlaced, SquashPlaced, SquashStopsPlaced,
     BeginPlaced, SetConflictedPlaced DEF Cycle
<1> QED
  BY <1>1, <1>2, <1>4, TimePassesPlaced, CrashPlaced, StutterPlaced DEF Next

\* At the start each file is where the user has it.
LEMMA PlacedAtFirst == ASSUME Init PROVE Placed
<1>1. PICK place \in [1..Synced -> Place] :
         /\ \A i, j \in 1..Synced : i # j => place[i] # place[j]
         /\ server = [i \in 1..Synced |-> Made(place[i], 1, i, 0)]
         /\ db = [i \in 1..Synced |-> At(i, place[i])]
         /\ want = [i \in 1..Synced |-> Wanted(place[i], 1)]
         /\ disk = [i \in 1..Synced |-> 1]
  BY InitTables
<1>2. /\ DOMAIN server = 1..Synced /\ DOMAIN db = 1..Synced /\ DOMAIN want = 1..Synced
      /\ 1..Synced \subseteq Nat
  BY <1>1, SizesAssumption
<1>3. ASSUME NEW i \in 1..Synced
      PROVE  /\ server[i].at = place[i] /\ server[i].owner = i /\ server[i].by = i
             /\ want[i].been = {place[i]}
             /\ db[i].id = i /\ db[i].at = place[i] /\ db[i].path = place[i]
             /\ FileOf(i) = i
  <2>1. PICK p \in Place : p = place[i]
    OBVIOUS
  <2>2. server[i] = Made(p, 1, i, 0) /\ db[i] = At(i, p) /\ want[i] = Wanted(p, 1)
    BY <1>1, <2>1
  <2>3. server[i].at = p /\ server[i].owner = i /\ server[i].by = i
    BY <2>2 DEF Made
  <2>4. want[i].been = {p}
    BY <2>2 DEF Wanted
  <2>5. db[i].id = i /\ db[i].at = p /\ db[i].path = p
    BY <2>2 DEF At
  <2>6. FileOf(i) = i
    BY <1>2, <2>3 DEF FileOf
  <2> QED
    BY <2>1, <2>3, <2>4, <2>5, <2>6
<1>4. PlacedFiles
  BY <1>1, <1>2, <1>3 DEF PlacedFiles
<1>5. PlacedEntries
  BY <1>2, <1>3 DEF PlacedEntries, Been
<1>6. rows = << >> /\ fuse = Idle /\ pc = "idle"
  BY DEF Init
<1>7. PlacedRows /\ PlacedRequest /\ PlacedCycle
  BY <1>6, IdleFacts DEF PlacedRows, PlacedRequest, PlacedCycle, Asking, Handling, Answering
<1> QED
  BY <1>4, <1>5, <1>7 DEF Placed

\* Ids and places agree as long as no file has strayed.
LEMMA PlacedAlways == Spec => [](Reuse \/ Strayed \/ Placed)
<1> DEFINE Stays == Reuse \/ Strayed \/ Placed
<1>1. Init => Stays
  BY PlacedAtFirst
<1>2. Inv /\ Stays /\ [Next]_vars => Stays'
  BY StrayedStays, PlacedNext
<1> QED
  BY <1>1, <1>2, Invariance, PTL DEF Spec

\* Where no name is used again and no file has strayed, every file of OneDrive
\* holds what was written to the inode it was created for: an upload, which names
\* its target, never meets a file of another inode.
THEOREM OwnContentKept == ASSUME ~Reuse PROVE Spec => []OwnContent
<1>1. Reuse \/ Strayed \/ Placed => OwnContent
  BY DEF OwnContent, Placed, PlacedFiles, Holding
<1> QED
  BY <1>1, PlacedAlways, PTL

-----------------------------------------------------------------------------
(***************************************************************************)
(* Content: no edit is forgotten.                                          *)
(***************************************************************************)

\* What the user gave up stays given up, and what was cut short stays so.
Fades == \A i \in DOMAIN want : /\ want'[i].live => want[i].live
                                /\ want[i].cut => want'[i].cut

\* A row that deletes is about a file the user gave up, now and later.
LEMMA GoneStays ==
    ASSUME Inv, Steady, Fades, NEW row, Sound(row.id), Gone(row)
    PROVE  Gone(row)'
<1>1. FileOf(row.id) \in DOMAIN want /\ FileOf(row.id)' = FileOf(row.id)
  BY SteadyIds, IdsOfInts
<1> QED
  BY <1>1 DEF Gone, Fades

\* A row that sends the content of a file keeps doing so.
LEMMA SendsStays ==
    ASSUME Inv, Steady, NEW row, Sound(row.id), NEW i, Sends(row, i)
    PROVE  Sends(row, i)'
<1>1. FileOf(row.id)' = FileOf(row.id)
  BY SteadyIds
<1> QED
  BY <1>1 DEF Sends

\* The row at hand and the item read of it are about the same file.
LEMMA AtHandStays ==
    ASSUME Inv, Carrying, Steady, UNCHANGED <<rows, cur, item>>, pc' \in Handling => pc \in Handling
    PROVE  AtHand'
<1>1. SUFFICES ASSUME pc' \in Handling
               PROVE  rows'[cur'].op = item'.op /\ FileOf(rows[cur].id)' = FileOf(item.id)'
  BY DEF AtHand
<1>2. PICK q, m : q = rows[cur] /\ q = rows'[cur'] /\ m = item /\ m = item'
  OBVIOUS
<1>3. Sound(q.id) /\ Sound(m.id) /\ q.op = m.op /\ FileOf(q.id) = FileOf(m.id)
  BY <1>1, <1>2 DEF Inv, SoundRows, SoundCycle, Carrying, AtHand
<1>4. FileOf(q.id)' = FileOf(m.id)'
  <2>1. FileOf(q.id)' = FileOf(q.id) /\ FileOf(m.id)' = FileOf(m.id)
    BY <1>3, SteadyIds
  <2> QED
    BY <1>3, <2>1
<1> QED
  BY <1>2, <1>3, <1>4 DEF FileOf

\* What follows for the rows from a step that leaves them and the cycle alone.
LEMMA RowsAlone ==
    ASSUME Inv, Carrying, Steady, Fades, UNCHANGED <<rows, cur, pc, item>>
    PROVE  /\ \A r \in DOMAIN rows : Gone(rows[r])'
           /\ pc \in Handling => Gone(item)'
           /\ Stuck' /\ AtHand'
           /\ \A i : Waiting(i) => Waiting(i)'
<1>1. ASSUME NEW r \in DOMAIN rows
      PROVE  /\ Gone(rows[r])'
             /\ rows'[r].status = "processing" /\ r # cur' => want'[FileOf(rows[r].id)'].cut
             /\ \A i : Sends(rows[r], i) /\ Waits(r) => Sends(rows[r], i)' /\ Waits(r)'
  <2>1. PICK q : q = rows[r] /\ q = rows'[r]
    OBVIOUS
  <2>2. Sound(q.id) /\ Gone(q)
    BY <2>1 DEF Inv, SoundRows, Carrying, Deletions
  <2>3. Gone(q)'
    BY <2>2, GoneStays
  <2>4. FileOf(q.id)' = FileOf(q.id) /\ FileOf(q.id) \in DOMAIN want
    BY <2>2, SteadyIds, IdsOfInts
  <2>5. q.status = "processing" /\ r # cur => want'[FileOf(q.id)'].cut
    BY <2>1, <2>4 DEF Carrying, Stuck, Fades
  <2>6. \A i : Sends(q, i) => Sends(q, i)'
    BY <2>2, SendsStays
  <2>7. Waits(r) => Waits(r)'
    BY DEF Waits
  <2> QED
    BY <2>1, <2>3, <2>5, <2>6, <2>7 DEF Gone, Sends, FileOf
<1>2. pc \in Handling => Gone(item)'
  <2>1. PICK m : m = item /\ m = item'
    OBVIOUS
  <2>2. pc \in Handling => Sound(m.id) /\ Gone(m)
    BY <2>1 DEF Inv, SoundCycle, Carrying, Deletions
  <2>3. pc \in Handling => Gone(m)'
    BY <2>2, GoneStays
  <2> QED
    BY <2>1, <2>3 DEF Gone, FileOf
<1>3. Stuck'
  BY <1>1 DEF Stuck, FileOf
<1>4. AtHand'
  BY AtHandStays
<1>5. ASSUME NEW i, Waiting(i) PROVE Waiting(i)'
  <2>1. PICK r \in DOMAIN rows : Sends(rows[r], i) /\ Waits(r)
    BY <1>5 DEF Waiting
  <2>2. r \in DOMAIN rows' /\ Sends(rows[r], i)' /\ Waits(r)'
    BY <1>1, <2>1
  <2> QED
    BY <2>2 DEF Waiting
<1> QED
  BY <1>1, <1>2, <1>3, <1>4, <1>5

\* A copy stays while neither the file nor what the user wants of it changes.
LEMMA CopyStays ==
    ASSUME UNCHANGED server, NEW i, want'[i].content = want[i].content, Copied(i)
    PROVE  Copied(i)'
BY DEF Copied, CopiesOf, Holding

\* The steps of a request, but for the insertion of its rows.
LEMMA RequestCarries ==
    ASSUME Inv, Carrying, Steady, Fades, UNCHANGED <<server, rows, cycle>>,
           \A k \in DOMAIN fuse'.rows : Gone(fuse.rows[k])' /\ fuse'.rows[k].status = "new",
           Storing', Contents',
           \A i \in DOMAIN want' : want'[i].live /\ ~want'[i].cut =>
              \/ Asked(i)'
              \/ i \in DOMAIN want /\ ~Asked(i) /\ want'[i].content = want[i].content
    PROVE  Carrying'
<1>1. /\ \A r \in DOMAIN rows : Gone(rows[r])'
      /\ pc \in Handling => Gone(item)'
      /\ Stuck' /\ AtHand'
      /\ \A i : Waiting(i) => Waiting(i)'
  BY RowsAlone DEF cycle
<1>2. Deletions'
  BY <1>1 DEF Deletions, cycle
<1>3. ASSUME NEW i \in DOMAIN want' PROVE Kept(i)'
  <2>1. SUFFICES ASSUME want'[i].live, ~want'[i].cut, ~Asked(i)'
                 PROVE  Waiting(i)' \/ Copied(i)'
    BY DEF Kept
  <2>2. i \in DOMAIN want /\ ~Asked(i) /\ want'[i].content = want[i].content
    BY <2>1
  <2>3. want[i].live /\ ~want[i].cut
    BY <2>1, <2>2 DEF Fades
  <2>4. Waiting(i) \/ Copied(i)
    BY <2>2, <2>3 DEF Carrying, Kept
  <2> QED
    BY <1>1, <2>2, <2>4, CopyStays
<1> QED
  BY <1>1, <1>2, <1>3 DEF Carrying

\* A request that begins finds no rows of another.
LEMMA NothingAsked ==
    ASSUME Inv, fuse.pc \notin Asking
    PROVE  fuse.rows = << >> /\ DOMAIN fuse.rows = {} /\ \A i : ~Asked(i)
<1>1. fuse.rows = << >>
  BY DEF Inv, SoundRequest
<1>2. DOMAIN fuse.rows = {}
  BY <1>1
<1> QED
  BY <1>1, <1>2 DEF Asked

\* What a request has to insert.
LEMMA AskedOne ==
    ASSUME Inv, Steady, NEW p, NEW e, NEW d \in Entry, Sound(d.id), NEW op \in Operations,
           fuse' = [pc |-> p, entry |-> e, rows |-> <<NewRow(d, op)>>],
           op = "delete" => ~want'[FileOf(d.id)].live
    PROVE  /\ \A k \in DOMAIN fuse'.rows : Gone(fuse.rows[k])' /\ fuse'.rows[k].status = "new"
           /\ DOMAIN fuse'.rows = {1} /\ fuse'.rows[1].op = op /\ Head(fuse'.rows).op = op
           /\ op \in {"create", "update"} => Asked(FileOf(d.id))'
<1>1. PICK row \in Row : row = NewRow(d, op) /\ row.id = d.id /\ row.op = op /\ row.status = "new"
  BY NewRowFacts
<1>2. PICK R : R = <<row>> /\ DOMAIN R = {1} /\ R[1] = row /\ Head(R) = row
  BY OneRow
<1>3. fuse' = [pc |-> p, entry |-> e, rows |-> R]
  BY <1>1, <1>2
<1>4. fuse'.rows = R
  BY <1>3
<1>5. FileOf(d.id)' = FileOf(d.id)
  BY SteadyIds
<1>6. Gone(row)'
  BY <1>1, <1>5 DEF Gone
<1>7. \A k \in DOMAIN R : R[k] = row
  BY <1>2
<1>8. ASSUME op \in {"create", "update"} PROVE Asked(FileOf(d.id))'
  <2>1. FileOf(row.id)' = FileOf(d.id)'
    BY <1>1
  <2>2. Sends(row, FileOf(d.id))'
    BY <1>1, <1>8, <2>1 DEF Sends
  <2>3. fuse'.rows[1] = row /\ 1 \in DOMAIN fuse'.rows
    BY <1>2, <1>4
  <2> QED
    BY <2>2, <2>3 DEF Asked, Sends, FileOf
<1> QED
  BY <1>1, <1>2, <1>4, <1>6, <1>7, <1>8 DEF Gone, FileOf

\* A wish that changes in its content, its place or its life.
LEMMA WishesFade ==
    ASSUME Inv, NEW f \in DOMAIN want, NEW p, NEW c, NEW l, NEW b, WishesOf(f, p, c, l, b),
           l => want[f].live
    PROVE  Fades /\ DOMAIN want' = DOMAIN want
BY DEF WishesOf, Fades

\* Only the stages around the store restrict the rows of a request.
LEMMA StoringElsewhere ==
    ASSUME fuse'.pc \notin {"select", "update", "insert", "reread"}
    PROVE  Storing'
BY DEF Storing

\* write changes a content and asks for an Update row: no edit is forgotten.
LEMMA WriteCarries ==
    ASSUME Inv, Placed, Carrying, NEW i \in DOMAIN db, Write(i)
    PROVE  Carrying'
<1>1. /\ UNCHANGED <<server, db, rows, recent, cycle>> /\ disk[i] # 0 /\ fuse.pc = "idle"
      /\ fuse' = [pc |-> "row", entry |-> db[i], rows |-> <<NewRow(db[i], "update")>>]
  BY DEF Write, Permitted
<1>2. FileOf(db[i].id) = i /\ i \in DOMAIN want
  BY <1>1, Tables DEF Placed, PlacedEntries
<1>3. /\ WishesOf(i, want[i].at, ops + 2, want[i].live, want[i].been)
      /\ disk'[i] = ops + 2 /\ \A j \in DOMAIN db \ {i} : disk'[j] = disk[j]
  BY <1>2, WriteEffect
<1>4. ops + 2 \in Nat /\ ops + 2 # 0
  BY SizesAssumption DEF Inv, TypeOK
<1>5. Steady /\ Fades /\ DOMAIN want' = DOMAIN want
  BY <1>1, <1>2, <1>3, WishesSteady, WishesFade
<1>6. PICK d : d = db[i] /\ d \in Entry /\ Sound(d.id)
  BY EntryFacts
<1>7. /\ \A k \in DOMAIN fuse'.rows : Gone(fuse.rows[k])' /\ fuse'.rows[k].status = "new"
      /\ Asked(i)'
  <2>1. fuse' = [pc |-> "row", entry |-> d, rows |-> <<NewRow(d, "update")>>]
    BY <1>1, <1>6
  <2>2. /\ \A k \in DOMAIN fuse'.rows : Gone(fuse.rows[k])' /\ fuse'.rows[k].status = "new"
        /\ Asked(FileOf(d.id))'
    BY <1>5, <1>6, <2>1, AskedOne DEF Operations
  <2>3. FileOf(d.id)' = i
    BY <1>2, <1>5, <1>6, SteadyIds
  <2>4. PICK f : f = i
    OBVIOUS
  <2>5. FileOf(d.id) = f
    BY <1>2, <1>6, <2>4
  <2> QED
    BY <2>2, <2>3, <2>4, <2>5 DEF Asked, Sends
<1>8. Contents'
  <2>1. ASSUME NEW j \in DOMAIN want
        PROVE  /\ disk'[j] # 0 => disk'[j] = want'[j].content
               /\ want'[j].live => disk'[j] # 0
    <3>1. CASE j = i
      BY <1>3, <1>4, <3>1 DEF WishesOf
    <3>2. CASE j # i
      BY <1>3, <3>2, Tables DEF WishesOf, Carrying, Contents
    <3> QED
      BY <3>1, <3>2
  <2> QED
    BY <1>5, <2>1 DEF Contents
<1>9. Storing'
  BY <1>1, StoringElsewhere
<1>10. \A j \in DOMAIN want' : j = i \/ (~Asked(j) /\ want'[j].content = want[j].content)
  BY <1>1, <1>3, <1>5, NothingAsked DEF WishesOf, Asking
<1> QED
  BY <1>1, <1>5, <1>7, <1>8, <1>9, <1>10, RequestCarries

\* release asks for the entry it read to be stored: no edit is forgotten.
LEMMA ReleaseCarries ==
    ASSUME Inv, Carrying, NEW i \in DOMAIN db, Release(i)
    PROVE  Carrying'
<1>1. /\ UNCHANGED <<server, db, disk, rows, recent, want, cycle>> /\ fuse.pc = "idle"
      /\ fuse' = [pc |-> "select", entry |-> db[i], rows |-> << >>]
  BY DEF Release, Permitted
<1>2. Steady /\ Fades
  BY <1>1 DEF Steady, Fades
<1>3. fuse'.pc = "select" /\ fuse'.rows = << >> /\ DOMAIN fuse'.rows = {}
  BY <1>1
<1>4. Storing' /\ Contents'
  BY <1>1, <1>3 DEF Storing, Contents, Carrying
<1>5. \A j \in DOMAIN want' : ~Asked(j) /\ want'[j].content = want[j].content
  BY <1>1, NothingAsked DEF Asking
<1> QED
  BY <1>1, <1>2, <1>3, <1>4, <1>5, RequestCarries

\* unlink gives a file up: no edit is forgotten.
LEMMA UnlinkCarries ==
    ASSUME Inv, Carrying, NEW i \in DOMAIN db, Unlink(i)
    PROVE  Carrying'
<1>1. /\ UNCHANGED <<server, db, disk, rows, recent, cycle>> /\ fuse.pc = "idle"
      /\ fuse' = [pc |-> "select", entry |-> [db[i] EXCEPT !.deleted = TRUE],
                  rows |-> <<NewRow(db[i], "delete")>>]
  BY DEF Unlink, Permitted
<1>2. PICK f \in DOMAIN want : f = FileOf(db[i].id)
  BY EntryFacts
<1>3. WishesOf(f, want[f].at, want[f].content, FALSE, want[f].been)
  BY <1>2, UnlinkEffect
<1>4. Steady /\ Fades /\ DOMAIN want' = DOMAIN want
  BY <1>1, <1>3, WishesSteady, WishesFade
<1>5. PICK d : d = db[i] /\ d \in Entry /\ Sound(d.id) /\ FileOf(d.id) = f
  BY <1>2, EntryFacts
<1>6. PICK e : e = [d EXCEPT !.deleted = TRUE]
  OBVIOUS
<1>7. fuse' = [pc |-> "select", entry |-> e, rows |-> <<NewRow(d, "delete")>>]
  BY <1>1, <1>5, <1>6
<1>8. ~want'[FileOf(d.id)].live
  BY <1>3, <1>5 DEF WishesOf
<1>9. /\ \A k \in DOMAIN fuse'.rows : Gone(fuse.rows[k])' /\ fuse'.rows[k].status = "new"
      /\ DOMAIN fuse'.rows = {1} /\ fuse'.rows[1].op = "delete"
  BY <1>4, <1>5, <1>7, <1>8, AskedOne DEF Operations
<1>10. Storing'
  <2>1. fuse'.pc = "select"
    BY <1>7
  <2> QED
    BY <1>9, <2>1 DEF Storing
<1>11. Contents'
  <2>1. ASSUME NEW j \in DOMAIN want
        PROVE  /\ disk'[j] # 0 => disk'[j] = want'[j].content
               /\ want'[j].live => disk'[j] # 0
    <3>1. CASE j = f
      BY <1>1, <1>3, <3>1 DEF WishesOf, Carrying, Contents
    <3>2. CASE j # f
      BY <1>1, <1>3, <3>2 DEF WishesOf, Carrying, Contents
    <3> QED
      BY <3>1, <3>2
  <2> QED
    BY <1>4, <2>1 DEF Contents
<1>12. \A j \in DOMAIN want' : ~Asked(j) /\ want'[j].content = want[j].content
  BY <1>1, <1>3, <1>4, NothingAsked DEF WishesOf, Asking
<1> QED
  BY <1>1, <1>4, <1>9, <1>10, <1>11, <1>12, RequestCarries

\* rename gives a file another place: no edit is forgotten.
LEMMA RenameCarries ==
    ASSUME Inv, Carrying, NEW i \in DOMAIN db, NEW p \in Place, Rename(i, p)
    PROVE  Carrying'
<1>1. PICK op \in Operations :
         op = (IF p.dir = db[i].at.dir THEN "rename" ELSE "move") /\ op \in {"rename", "move"}
  BY DEF Operations
<1>2. /\ UNCHANGED <<server, db, disk, rows, recent, cycle>> /\ fuse.pc = "idle"
      /\ fuse' = [pc |-> "select", entry |-> [db[i] EXCEPT !.at = p], rows |-> <<NewRow(db[i], op)>>]
  BY <1>1 DEF Rename, Permitted
<1>3. PICK f \in DOMAIN want : f = FileOf(db[i].id)
  BY EntryFacts
<1>4. WishesOf(f, p, want[f].content, want[f].live, want[f].been \union {p})
  BY <1>3, RenameEffect
<1>5. Steady /\ Fades /\ DOMAIN want' = DOMAIN want
  BY <1>2, <1>4, WishesSteady, WishesFade
<1>6. PICK d : d = db[i] /\ d \in Entry /\ Sound(d.id)
  BY EntryFacts
<1>7. PICK e : e = [d EXCEPT !.at = p]
  OBVIOUS
<1>8. fuse' = [pc |-> "select", entry |-> e, rows |-> <<NewRow(d, op)>>]
  BY <1>2, <1>6, <1>7
<1>9. /\ \A k \in DOMAIN fuse'.rows : Gone(fuse.rows[k])' /\ fuse'.rows[k].status = "new"
      /\ DOMAIN fuse'.rows = {1} /\ fuse'.rows[1].op = op
  BY <1>1, <1>5, <1>6, <1>8, AskedOne
<1>10. Storing'
  <2>1. fuse'.pc = "select"
    BY <1>8
  <2> QED
    BY <1>1, <1>9, <2>1 DEF Storing
<1>11. Contents'
  <2>1. ASSUME NEW j \in DOMAIN want
        PROVE  /\ disk'[j] # 0 => disk'[j] = want'[j].content
               /\ want'[j].live => disk'[j] # 0
    <3>1. CASE j = f
      BY <1>2, <1>4, <3>1 DEF WishesOf, Carrying, Contents
    <3>2. CASE j # f
      BY <1>2, <1>4, <3>2 DEF WishesOf, Carrying, Contents
    <3> QED
      BY <3>1, <3>2
  <2> QED
    BY <1>5, <2>1 DEF Contents
<1>12. \A j \in DOMAIN want' : ~Asked(j) /\ want'[j].content = want[j].content
  BY <1>2, <1>4, <1>5, NothingAsked DEF WishesOf, Asking
<1> QED
  BY <1>2, <1>5, <1>9, <1>10, <1>11, <1>12, RequestCarries

\* A file is given up and its content goes to another one: no edit is forgotten.
LEMMA ReplaceCarries ==
    ASSUME Inv, Placed, Carrying, NEW i \in DOMAIN db, NEW j \in DOMAIN db, Replace(i, j)
    PROVE  Carrying'
<1>1. /\ UNCHANGED <<server, db, rows, recent, cycle>> /\ disk[i] # 0 /\ disk[j] # 0
      /\ fuse.pc = "idle" /\ i # j
      /\ fuse' = [pc |-> "mark", entry |-> db[i],
                  rows |-> <<NewRow(db[i], "delete"), NewRow(db[i], "delete"),
                             NewRow(db[j], "update")>>]
  BY DEF Replace, Permitted
<1>2. FileOf(db[i].id) = i /\ FileOf(db[j].id) = j /\ i \in DOMAIN want /\ j \in DOMAIN want
  BY <1>1, Tables DEF Placed, PlacedEntries
<1>3. /\ DOMAIN want' = DOMAIN want
      /\ \A k \in DOMAIN want :
            /\ want'[k].been = want[k].been /\ want'[k].cut = want[k].cut
            /\ want'[k].live = (want[k].live /\ k # i)
            /\ want'[k].content = IF k = j THEN want[i].content ELSE want[k].content
      /\ \A k \in DOMAIN db :
            disk'[k] = IF k = j THEN disk[i] ELSE IF k = i THEN 0 ELSE disk[k]
  BY <1>2, ReplaceEffect
<1>4. Steady /\ Fades
  BY <1>1, <1>3 DEF Steady, Fades
<1>5. PICK d, e : /\ d = db[i] /\ d \in Entry /\ Sound(d.id) /\ FileOf(d.id) = i
                  /\ e = db[j] /\ e \in Entry /\ Sound(e.id) /\ FileOf(e.id) = j
  BY <1>2, EntryFacts
<1>6. PICK a \in Row : a = NewRow(d, "delete") /\ a.id = d.id /\ a.op = "delete" /\ a.status = "new"
  BY <1>5, NewRowFacts DEF Operations
<1>7. PICK b \in Row : b = NewRow(e, "update") /\ b.id = e.id /\ b.op = "update" /\ b.status = "new"
  BY <1>5, NewRowFacts DEF Operations
<1>8. PICK R \in Seq(Row) : R = <<a, a, b>> /\ DOMAIN R = {1, 2, 3}
                            /\ R[1] = a /\ R[2] = a /\ R[3] = b
  <2>1. DOMAIN <<a, a, b>> = {1, 2, 3} /\ <<a, a, b>>[1] = a /\ <<a, a, b>>[2] = a
        /\ <<a, a, b>>[3] = b
    OBVIOUS
  <2> QED
    BY <2>1, ThreeRows
<1>9. fuse' = [pc |-> "mark", entry |-> d, rows |-> R]
  BY <1>1, <1>5, <1>6, <1>7, <1>8
<1>10. fuse'.rows = R /\ fuse'.pc = "mark"
  BY <1>9
<1>11. FileOf(d.id)' = i /\ FileOf(e.id)' = j
  BY <1>4, <1>5, SteadyIds
<1>12. ~want'[i].live
  BY <1>2, <1>3
<1>13. \A k \in DOMAIN fuse'.rows : Gone(fuse.rows[k])' /\ fuse'.rows[k].status = "new"
  <2>1. Gone(a)' /\ Gone(b)'
    BY <1>6, <1>7, <1>11, <1>12 DEF Gone
  <2>2. \A k \in DOMAIN R : R[k] = a \/ R[k] = b
    BY <1>8
  <2> QED
    BY <1>6, <1>7, <1>10, <2>1, <2>2 DEF Gone, FileOf
<1>14. Asked(j)'
  <2>1. PICK f : f = j
    OBVIOUS
  <2>2. Sends(b, f)'
    BY <1>7, <1>11, <2>1 DEF Sends
  <2>3. 3 \in DOMAIN fuse'.rows /\ fuse'.rows[3] = b
    BY <1>8, <1>10
  <2> QED
    BY <2>1, <2>2, <2>3 DEF Asked, Sends, FileOf
<1>15. Contents'
  <2>1. DOMAIN want = DOMAIN db
    BY Tables
  <2>2. disk[i] = want[i].content
    BY <1>1, <1>2 DEF Carrying, Contents
  <2>3. ASSUME NEW k \in DOMAIN want
        PROVE  /\ disk'[k] # 0 => disk'[k] = want'[k].content
               /\ want'[k].live => disk'[k] # 0
    <3>1. CASE k = j
      BY <1>1, <1>3, <2>1, <2>2, <3>1
    <3>2. CASE k = i
      BY <1>1, <1>3, <2>1, <3>2
    <3>3. CASE k # i /\ k # j
      BY <1>3, <2>1, <3>3 DEF Carrying, Contents
    <3> QED
      BY <3>1, <3>2, <3>3
  <2> QED
    BY <1>3, <2>3 DEF Contents
<1>16. Storing'
  BY <1>10, StoringElsewhere
<1>17. \A k \in DOMAIN want' : k = j \/ (~Asked(k) /\ want'[k].content = want[k].content)
  BY <1>1, <1>3, NothingAsked DEF Asking
<1> QED
  BY <1>1, <1>3, <1>4, <1>13, <1>14, <1>15, <1>16, <1>17, RequestCarries

\* create adds an inode with a temporary id: no edit is forgotten.
LEMMA CreateCarries ==
    ASSUME Inv, Carrying, NEW p \in Place, Create(p)
    PROVE  Carrying'
<1>1. PICK n : n = Len(db) + 1 /\ n \in Nat /\ n > 0
  BY Tables
<1>2. PICK e \in Entry : e = At(-n, p) /\ e.id = -n
  <2>1. PICK m \in Int : m = -n
    BY <1>1
  <2>2. At(m, p) \in Entry /\ At(m, p).id = m
    BY AtFacts
  <2> QED
    BY <2>1, <2>2
<1>3. PICK c \in Nat : c = ops + 2 /\ c # 0
  BY SizesAssumption DEF Inv, TypeOK
<1>4. PICK w \in Wish : w = Wanted(p, c) /\ w.content = c /\ ~w.cut
  <2>1. Wanted(p, c) \in Wish
    BY DEF Wanted, Wish
  <2>2. Wanted(p, c).content = c /\ ~Wanted(p, c).cut
    BY DEF Wanted
  <2> QED
    BY <2>1, <2>2
<1>5. /\ Insert(e, c, w) /\ fuse.pc = "idle"
      /\ fuse' = [pc |-> "row", entry |-> e, rows |-> <<NewRow(e, "create")>>]
      /\ UNCHANGED <<server, rows, recent, cycle, bounds>>
  BY <1>1, <1>2, <1>3, <1>4 DEF Create, Permitted
<1>6. /\ DOMAIN want' = DOMAIN want \union {n} /\ n \notin DOMAIN want
      /\ \A i \in DOMAIN want : want'[i] = want[i] /\ disk'[i] = disk[i]
      /\ want'[n] = w /\ disk'[n] = c
  BY <1>1, <1>5, InsertEffect, Tables
<1>7. Steady /\ Fades
  BY <1>5, <1>6 DEF Steady, Fades
<1>8. PICK row \in Row : row = NewRow(e, "create") /\ row.id = e.id /\ row.op = "create"
                         /\ row.status = "new"
  BY NewRowFacts DEF Operations
<1>9. PICK R : R = <<row>> /\ DOMAIN R = {1} /\ R[1] = row
  BY OneRow
<1>10. fuse' = [pc |-> "row", entry |-> e, rows |-> R]
  BY <1>5, <1>8, <1>9
<1>11. fuse'.rows = R /\ fuse'.pc = "row"
  BY <1>10
<1>12. FileOf(row.id)' = n
  BY <1>1, <1>2, <1>8 DEF FileOf
<1>13. Gone(row)' /\ Sends(row, n)'
  BY <1>8, <1>12 DEF Gone, Sends
<1>14. \A k \in DOMAIN fuse'.rows : Gone(fuse.rows[k])' /\ fuse'.rows[k].status = "new"
  BY <1>8, <1>9, <1>11, <1>13 DEF Gone, FileOf
<1>15. Asked(n)'
  <2>1. 1 \in DOMAIN fuse'.rows /\ fuse'.rows[1] = row
    BY <1>9, <1>11
  <2> QED
    BY <1>13, <2>1 DEF Asked, Sends, FileOf
<1>16. Contents'
  BY <1>3, <1>4, <1>6 DEF Contents, Carrying
<1>17. Storing'
  BY <1>11, StoringElsewhere
<1>18. \A j \in DOMAIN want' :
          \/ j = n
          \/ j \in DOMAIN want /\ ~Asked(j) /\ want'[j].content = want[j].content
  BY <1>5, <1>6, NothingAsked DEF Asking
<1> QED
  BY <1>5, <1>7, <1>14, <1>15, <1>16, <1>17, <1>18, RequestCarries

\* A step of a request that leaves its rows to be inserted.
LEMMA StageCarries ==
    ASSUME Inv, Carrying, Steady, Fades, UNCHANGED <<server, rows, cycle>>,
           fuse'.rows = fuse.rows, Storing', Contents',
           \A i \in DOMAIN want : want'[i].content = want[i].content,
           \A i \in DOMAIN want' : i \in DOMAIN want \/ ~want'[i].live
    PROVE  Carrying'
<1>1. ASSUME NEW k \in DOMAIN fuse.rows
      PROVE  /\ Gone(fuse.rows[k])' /\ fuse'.rows[k].status = "new"
             /\ \A i : Sends(fuse.rows[k], i) => Sends(fuse.rows[k], i)'
  <2>1. PICK q : q = fuse.rows[k] /\ q = fuse'.rows[k]
    OBVIOUS
  <2>2. Sound(q.id) /\ Gone(q) /\ q.status = "new"
    BY <2>1 DEF Inv, SoundRequest, Carrying, Deletions
  <2>3. Gone(q)' /\ \A i : Sends(q, i) => Sends(q, i)'
    BY <2>2, GoneStays, SendsStays
  <2> QED
    BY <2>1, <2>2, <2>3 DEF Gone, Sends, FileOf
<1>2. ASSUME NEW i, Asked(i) PROVE Asked(i)'
  BY <1>1, <1>2 DEF Asked
<1>3. ASSUME NEW i \in DOMAIN want', want'[i].live, ~want'[i].cut
      PROVE  \/ Asked(i)'
             \/ i \in DOMAIN want /\ ~Asked(i) /\ want'[i].content = want[i].content
  BY <1>2, <1>3
<1> QED
  BY <1>1, <1>3, RequestCarries

\* Wishes and contents that do not change.
LEMMA SameFades ==
    /\ UNCHANGED <<server, want>> => Steady /\ Fades
    /\ UNCHANGED <<want, disk>> /\ Contents => Contents'
<1>1. UNCHANGED <<server, want>> => Steady /\ Fades
  BY DEF Steady, Fades
<1>2. UNCHANGED <<want, disk>> /\ Contents => Contents'
  BY DEF Contents
<1> QED
  BY <1>1, <1>2

\* The request looks up the id of its entry: no edit is forgotten.
LEMMA FuseSelectCarries == ASSUME Inv, Carrying, FuseSelect PROVE Carrying'
<1>1. UNCHANGED <<server, rows, cycle, disk, want>> /\ fuse.pc = "select"
  BY DEF FuseSelect
<1>2. PICK p \in {"update", "insert"} : fuse' = [fuse EXCEPT !.pc = p]
  BY DEF FuseSelect
<1>3. fuse'.rows = fuse.rows /\ fuse'.pc = p
  <2>1. p \in Asking
    BY DEF Asking
  <2> QED
    BY <1>2, <2>1, RequestFields
<1>4. Storing'
  <2>1. \A k \in DOMAIN fuse.rows : fuse.rows[k].op \notin {"create", "update"}
    BY <1>1 DEF Carrying, Storing
  <2> QED
    BY <1>2, <1>3, <2>1 DEF Storing
<1> QED
  BY <1>1, <1>3, <1>4, SameFades, StageCarries DEF Carrying

\* What follows the store: the rows of the request are still to be inserted.
LEMMA StoredCarries ==
    ASSUME Inv, Carrying, fuse.pc \in {"update", "insert"}, fuse' = AfterStore
    PROVE  fuse'.rows = fuse.rows /\ Storing'
<1>1. CASE AfterStore = Idle /\ fuse.rows = << >>
  <2>1. fuse'.rows = fuse.rows /\ fuse'.pc = "idle"
    BY <1>1, IdleFacts
  <2> QED
    BY <2>1, StoringElsewhere
<1>2. CASE \E p \in {"reread", "row"} :
              /\ fuse.rows # << >>
              /\ AfterStore = [pc |-> p, entry |-> fuse.entry, rows |-> fuse.rows]
              /\ p = "reread" <=> Head(fuse.rows).op \in {"rename", "move"}
  <2>1. PICK p \in {"reread", "row"} :
              /\ AfterStore = [pc |-> p, entry |-> fuse.entry, rows |-> fuse.rows]
              /\ p = "reread" <=> Head(fuse.rows).op \in {"rename", "move"}
    BY <1>2
  <2>2. fuse'.rows = fuse.rows /\ fuse'.pc = p
    BY <2>1
  <2>3. \A k \in DOMAIN fuse.rows : fuse.rows[k].op \notin {"create", "update"}
    BY DEF Carrying, Storing
  <2> QED
    BY <2>1, <2>2, <2>3 DEF Storing
<1> QED
  BY <1>1, <1>2, AfterStoreFacts

\* The request stores its entry over the one of its id: no edit is forgotten.
LEMMA FuseUpdateCarries == ASSUME Inv, Carrying, FuseUpdate PROVE Carrying'
<1>1. /\ UNCHANGED <<server, rows, cycle, disk, want>> /\ fuse.pc = "update"
      /\ fuse' = AfterStore
  BY DEF FuseUpdate
<1> QED
  BY <1>1, StoredCarries, SameFades, StageCarries DEF Carrying

\* The entry of the request, whose id is gone, gets a new inode: no edit is forgotten.
LEMMA FuseInsertCarries == ASSUME Inv, Carrying, FuseInsert PROVE Carrying'
<1>1. /\ UNCHANGED <<server, rows, cycle>> /\ fuse.pc = "insert" /\ fuse' = AfterStore
      /\ Insert(fuse.entry, 0, Ghost)
  BY DEF FuseInsert
<1>2. PICK e \in Entry, g \in Wish : /\ e = fuse.entry /\ g = Ghost /\ ~g.live
                                     /\ g.content = 0
  BY RequestFields, NothingIsTyped DEF Ghost
<1>3. PICK n : n = Len(db) + 1
  OBVIOUS
<1>4. /\ DOMAIN want' = DOMAIN want \union {n} /\ n \notin DOMAIN want
      /\ \A i \in DOMAIN want : want'[i] = want[i] /\ disk'[i] = disk[i]
      /\ want'[n] = g /\ disk'[n] = 0
  <2>1. Insert(e, 0, g)
    BY <1>1, <1>2
  <2> QED
    BY <1>3, <2>1, InsertEffect, Tables
<1>5. Steady /\ Fades
  BY <1>1, <1>4 DEF Steady, Fades
<1>6. Contents'
  BY <1>2, <1>4 DEF Contents, Carrying
<1>7. /\ \A i \in DOMAIN want : want'[i].content = want[i].content
      /\ \A i \in DOMAIN want' : i \in DOMAIN want \/ ~want'[i].live
  BY <1>2, <1>4
<1> QED
  BY <1>1, <1>5, <1>6, <1>7, StoredCarries, StageCarries

\* The source of a replacement is marked as deleted: no edit is forgotten.
LEMMA FuseMarkCarries == ASSUME Inv, Carrying, FuseMark PROVE Carrying'
<1>1. UNCHANGED <<server, rows, cycle, disk, want>> /\ fuse' = [fuse EXCEPT !.pc = "row"]
  BY DEF FuseMark
<1>2. fuse'.rows = fuse.rows /\ fuse'.pc = "row"
  BY <1>1, RequestFields DEF Asking
<1> QED
  BY <1>1, <1>2, StoringElsewhere, SameFades, StageCarries DEF Carrying

\* What was asked for in the stages that send nothing.
LEMMA StoringAsksNothing ==
    ASSUME Inv, Carrying, fuse.pc \in {"select", "update", "insert", "reread"}
    PROVE  \A i : ~Asked(i)
BY DEF Asked, Sends, Carrying, Storing

\* A request or a cycle that is cut short.
LEMMA CutFades ==
    ASSUME Inv, NEW files, Cut(files), UNCHANGED server
    PROVE  /\ Steady /\ Fades /\ DOMAIN want' = DOMAIN want
           /\ \A i \in DOMAIN want : /\ want'[i].content = want[i].content
                                     /\ i \in files => want'[i].cut
           /\ UNCHANGED disk /\ Contents => Contents'
<1>1. /\ DOMAIN want' = DOMAIN want
      /\ \A i \in DOMAIN want :
            /\ want'[i].content = want[i].content
            /\ want'[i].live = want[i].live /\ want'[i].been = want[i].been
            /\ want'[i].cut = (want[i].cut \/ i \in files)
  BY CutEffect
<1>2. Steady /\ Fades
  BY <1>1 DEF Steady, Fades
<1>3. UNCHANGED disk /\ Contents => Contents'
  BY <1>1 DEF Contents
<1> QED
  BY <1>1, <1>2, <1>3

\* rename reads the entry again by its name, or dies: no edit is forgotten.
LEMMA FuseRereadCarries == ASSUME Inv, Carrying, FuseReread PROVE Carrying'
<1>1. /\ UNCHANGED <<server, rows, cycle, disk>> /\ fuse.pc = "reread"
      /\ \A i : ~Asked(i)
  BY StoringAsksNothing DEF FuseReread
<1>2. CASE \E i \in DOMAIN db :
             /\ fuse' = [pc |-> "row", entry |-> db[i],
                         rows |-> <<NewRow(db[i], Head(fuse.rows).op)>>]
             /\ UNCHANGED want
  <2>1. PICK i \in DOMAIN db :
             /\ fuse' = [pc |-> "row", entry |-> db[i],
                         rows |-> <<NewRow(db[i], Head(fuse.rows).op)>>]
             /\ UNCHANGED want
    BY <1>2
  <2>2. PICK d \in Entry : d = db[i] /\ Sound(d.id)
    BY EntryFacts
  <2>3. PICK op \in Operations : op = Head(fuse.rows).op /\ op \in {"rename", "move"}
    BY <1>1 DEF Carrying, Storing, Operations
  <2>4. fuse' = [pc |-> "row", entry |-> d, rows |-> <<NewRow(d, op)>>]
    BY <2>1, <2>2, <2>3
  <2>5. fuse'.pc = "row"
    BY <2>4
  <2>6. Steady /\ Fades /\ Contents'
    BY <1>1, <2>1, SameFades DEF Carrying
  <2>7. \A k \in DOMAIN fuse'.rows : Gone(fuse.rows[k])' /\ fuse'.rows[k].status = "new"
    BY <2>2, <2>3, <2>4, <2>6, AskedOne
  <2> QED
    BY <1>1, <2>1, <2>5, <2>6, <2>7, StoringElsewhere, RequestCarries
<1>3. CASE fuse' = [Idle EXCEPT !.pc = "dead"] /\ Cut(Requested)
  <2>1. fuse'.pc = "dead" /\ fuse'.rows = << >>
    BY <1>3 DEF Idle
  <2>2. DOMAIN fuse'.rows = {}
    BY <2>1
  <2> QED
    BY <1>1, <1>3, <2>1, <2>2, CutFades, StoringElsewhere, RequestCarries DEF Carrying
<1> QED
  BY <1>2, <1>3 DEF FuseReread

\* The first row of the request is inserted: no edit is forgotten.
LEMMA FuseRowCarries == ASSUME Inv, Carrying, FuseRow PROVE Carrying'
<1>1. /\ UNCHANGED <<server, want, disk, cycle>> /\ fuse.pc = "row" /\ fuse' = RowLeft
      /\ rows' = Append(rows, Head(fuse.rows))
  BY DEF FuseRow, cycle
<1>2. Steady /\ Fades /\ Contents'
  BY <1>1, SameFades DEF Carrying
<1>3. PICK h \in Row, h0 \in DOMAIN fuse.rows :
         h = Head(fuse.rows) /\ h = fuse.rows[h0] /\ Sound(h.id) /\ Gone(h) /\ h.status = "new"
  BY <1>1, RowLeftFacts DEF Inv, SoundRequest, Carrying, Deletions
<1>4. Gone(h)' /\ \A i : Sends(h, i) => Sends(h, i)'
  BY <1>2, <1>3, GoneStays, SendsStays
<1>5. PICK n : n = Len(rows) + 1
  OBVIOUS
<1>6. /\ DOMAIN rows' = DOMAIN rows \union {n} /\ n \notin DOMAIN rows /\ rows'[n] = h
      /\ \A r \in DOMAIN rows : rows'[r] = rows[r]
      /\ n # 0 /\ n # cur
  <2>1. n \notin DOMAIN rows /\ n # 0
    BY <1>5, Tables
  <2>2. cur \in DOMAIN rows \/ cur = 0
    BY DEF Inv, SoundCycle
  <2> QED
    BY <1>1, <1>3, <1>5, <2>1, <2>2, AppendRow
<1>7. ASSUME NEW r \in DOMAIN rows
      PROVE  /\ Gone(rows[r])'
             /\ rows'[r].status = "processing" /\ r # cur' => want'[FileOf(rows[r].id)'].cut
             /\ \A i : Sends(rows[r], i) /\ Waits(r) => Sends(rows[r], i)' /\ Waits(r)'
  <2>1. PICK q : q = rows[r] /\ q = rows'[r]
    BY <1>6
  <2>2. Sound(q.id) /\ Gone(q)
    BY <2>1 DEF Inv, SoundRows, Carrying, Deletions
  <2>3. Gone(q)' /\ \A i : Sends(q, i) => Sends(q, i)'
    BY <1>2, <2>2, GoneStays, SendsStays
  <2>4. FileOf(q.id)' = FileOf(q.id) /\ FileOf(q.id) \in DOMAIN want
    BY <1>2, <2>2, SteadyIds, IdsOfInts
  <2>5. q.status = "processing" /\ r # cur => want'[FileOf(q.id)'].cut
    BY <1>1, <2>1, <2>4 DEF Carrying, Stuck
  <2>6. Waits(r) => Waits(r)'
    BY <1>1, <2>1 DEF Waits, cycle
  <2> QED
    BY <1>1, <2>1, <2>3, <2>5, <2>6 DEF Gone, Sends, FileOf, cycle
<1>8. /\ Gone(rows[n])' /\ Waits(n)'
      /\ rows'[n].status # "processing"
      /\ \A i : Sends(h, i) => Sends(rows[n], i)'
  <2>1. rows'[n].status = "new" /\ n # cur'
    BY <1>1, <1>3, <1>6 DEF cycle
  <2>2. Waits(n)'
    BY <2>1 DEF Waits
  <2> QED
    BY <1>4, <1>6, <2>1, <2>2 DEF Gone, Sends, FileOf
<1>9. ASSUME NEW k \in DOMAIN fuse'.rows
      PROVE  Gone(fuse.rows[k])' /\ fuse'.rows[k].status = "new"
  <2>1. PICK m \in DOMAIN fuse.rows : fuse'.rows[k] = fuse.rows[m]
    <3>1. CASE RowLeft = Idle
      BY <1>1, <1>9, <3>1, IdleFacts
    <3>2. CASE \E R \in Seq(Row) :
                   /\ RowLeft = [pc |-> "row", entry |-> fuse.entry, rows |-> R]
                   /\ \A x \in DOMAIN R : \E m \in DOMAIN fuse.rows : R[x] = fuse.rows[m]
      <4>1. PICK R \in Seq(Row) :
                   /\ RowLeft = [pc |-> "row", entry |-> fuse.entry, rows |-> R]
                   /\ \A x \in DOMAIN R : \E m \in DOMAIN fuse.rows : R[x] = fuse.rows[m]
        BY <3>2
      <4>2. fuse'.rows = R
        BY <1>1, <4>1
      <4> QED
        BY <1>9, <4>1, <4>2
    <3> QED
      BY <1>1, <3>1, <3>2, RowLeftFacts
  <2>2. PICK q : q = fuse.rows[m] /\ q = fuse'.rows[k]
    BY <2>1
  <2>3. Sound(q.id) /\ Gone(q) /\ q.status = "new"
    BY <2>2 DEF Inv, SoundRequest, Carrying, Deletions
  <2>4. Gone(q)'
    BY <1>2, <2>3, GoneStays
  <2> QED
    BY <2>2, <2>3, <2>4 DEF Gone, FileOf
<1>10. Deletions'
  <2>1. \A r \in DOMAIN rows' : Gone(rows[r])'
    BY <1>6, <1>7, <1>8
  <2>2. pc \in Handling => Gone(item)'
    <3>1. PICK m : m = item /\ m = item'
      BY <1>1 DEF cycle
    <3>2. pc \in Handling => Sound(m.id) /\ Gone(m)
      BY <3>1 DEF Inv, SoundCycle, Carrying, Deletions
    <3>3. pc \in Handling => Gone(m)'
      BY <1>2, <3>2, GoneStays
    <3> QED
      BY <3>1, <3>3 DEF Gone, FileOf
  <2> QED
    BY <1>1, <1>9, <2>1, <2>2 DEF Deletions, cycle
<1>11. Stuck'
  BY <1>6, <1>7, <1>8 DEF Stuck, FileOf
<1>12. AtHand'
  <2>1. SUFFICES ASSUME pc \in Handling
                 PROVE  rows'[cur].op = item.op /\ FileOf(rows[cur].id)' = FileOf(item.id)'
    BY <1>1 DEF AtHand, cycle
  <2>2. PICK q, m : q = rows[cur] /\ q = rows'[cur] /\ m = item
    BY <1>6, <2>1 DEF Inv, SoundCycle
  <2>3. q.op = m.op /\ FileOf(q.id) = FileOf(m.id)
    BY <2>1, <2>2 DEF AtHand, Carrying
  <2>4. FileOf(q.id)' = FileOf(m.id)'
    BY <1>1, <2>3 DEF FileOf
  <2> QED
    BY <1>1, <2>2, <2>3, <2>4 DEF FileOf, cycle
<1>13. Storing'
  <2>1. fuse'.pc \in {"row", "idle"}
    <3>1. ASSUME NEW R \in Seq(Row), fuse' = [pc |-> "row", entry |-> fuse.entry, rows |-> R]
          PROVE  fuse'.pc = "row"
      BY <3>1
    <3> QED
      BY <1>1, <3>1, RowLeftFacts, IdleFacts
  <2> QED
    BY <2>1, StoringElsewhere
<1>14. ASSUME NEW i \in DOMAIN want' PROVE Kept(i)'
  <2>1. SUFFICES ASSUME want'[i].live, ~want'[i].cut
                 PROVE  Waiting(i)' \/ Asked(i)' \/ Copied(i)'
    BY DEF Kept
  <2>2. Waiting(i) \/ Asked(i) \/ Copied(i)
    BY <1>1, <1>14, <2>1 DEF Carrying, Kept
  <2>3. CASE Waiting(i)
    <3>1. PICK r \in DOMAIN rows : Sends(rows[r], i) /\ Waits(r)
      BY <2>3 DEF Waiting
    <3>2. r \in DOMAIN rows' /\ Sends(rows[r], i)' /\ Waits(r)'
      BY <1>6, <1>7, <3>1
    <3> QED
      BY <3>2 DEF Waiting
  <2>4. CASE Asked(i)
    <3>1. PICK m \in DOMAIN fuse.rows : Sends(fuse.rows[m], i)
      BY <2>4 DEF Asked
    <3>2. CASE fuse.rows[m] = h
      <4>1. Sends(rows[n], i)' /\ Waits(n)' /\ n \in DOMAIN rows'
        BY <1>6, <1>8, <3>1, <3>2
      <4> QED
        BY <4>1 DEF Waiting
    <3>3. CASE fuse.rows[m] # h
      <4>1. PICK R \in Seq(Row) :
               /\ RowLeft = [pc |-> "row", entry |-> fuse.entry, rows |-> R]
               /\ \E k \in DOMAIN R : R[k] = fuse.rows[m]
        BY <1>1, <1>3, <3>3, RowLeftFacts
      <4>2. fuse'.rows = R
        BY <1>1, <4>1
      <4>3. PICK k \in DOMAIN R : R[k] = fuse.rows[m]
        BY <4>1
      <4>4. PICK q : q = fuse.rows[m] /\ q = fuse'.rows[k] /\ k \in DOMAIN fuse'.rows
        BY <4>2, <4>3
      <4>5. Sound(q.id) /\ Sends(q, i)
        BY <3>1, <4>4 DEF Inv, SoundRequest
      <4>6. Sends(q, i)'
        BY <1>2, <4>5, SendsStays
      <4> QED
        BY <4>4, <4>6 DEF Asked, Sends, FileOf
    <3> QED
      BY <3>2, <3>3
  <2>5. CASE Copied(i)
    BY <1>1, <2>5, CopyStays
  <2> QED
    BY <2>2, <2>3, <2>4, <2>5
<1> QED
  BY <1>2, <1>10, <1>11, <1>12, <1>13, <1>14 DEF Carrying

\* The first row of the request is lost: no edit is forgotten.
LEMMA FuseRowFailsCarries == ASSUME Inv, Carrying, FuseRowFails PROVE Carrying'
<1>1. /\ UNCHANGED <<server, rows, cycle, disk>> /\ fuse.pc = "row" /\ fuse' = RowLeft
      /\ Cut({FileOf(Head(fuse.rows).id)})
  BY DEF FuseRowFails
<1>2. PICK f : f = FileOf(Head(fuse.rows).id)
  OBVIOUS
<1>3. /\ Steady /\ Fades /\ Contents' /\ DOMAIN want' = DOMAIN want
      /\ \A i \in DOMAIN want : want'[i].content = want[i].content
      /\ f \in DOMAIN want => want'[f].cut
  BY <1>1, <1>2, CutFades DEF Carrying
<1>4. CASE RowLeft = Idle /\ \A k \in DOMAIN fuse.rows : fuse.rows[k] = Head(fuse.rows)
  <2>1. fuse'.pc = "idle" /\ fuse'.rows = << >>
    BY <1>1, <1>4, IdleFacts
  <2>2. DOMAIN fuse'.rows = {}
    BY <2>1
  <2>3. ASSUME NEW i \in DOMAIN want', ~want'[i].cut PROVE ~Asked(i)
    BY <1>2, <1>3, <1>4, <2>3 DEF Asked, Sends
  <2> QED
    BY <1>1, <1>3, <2>1, <2>2, <2>3, StoringElsewhere, RequestCarries
<1>5. CASE \E R \in Seq(Row) :
              /\ RowLeft = [pc |-> "row", entry |-> fuse.entry, rows |-> R]
              /\ \A k \in DOMAIN R : \E m \in DOMAIN fuse.rows : R[k] = fuse.rows[m]
              /\ \A m \in DOMAIN fuse.rows :
                    \/ fuse.rows[m] = Head(fuse.rows)
                    \/ \E k \in DOMAIN R : R[k] = fuse.rows[m]
  <2>1. PICK R \in Seq(Row) :
              /\ RowLeft = [pc |-> "row", entry |-> fuse.entry, rows |-> R]
              /\ \A k \in DOMAIN R : \E m \in DOMAIN fuse.rows : R[k] = fuse.rows[m]
              /\ \A m \in DOMAIN fuse.rows :
                    \/ fuse.rows[m] = Head(fuse.rows)
                    \/ \E k \in DOMAIN R : R[k] = fuse.rows[m]
    BY <1>5
  <2>2. fuse'.rows = R /\ fuse'.pc = "row"
    BY <1>1, <2>1
  <2>3. ASSUME NEW m \in DOMAIN fuse.rows, NEW k \in DOMAIN R, R[k] = fuse.rows[m]
        PROVE  /\ Gone(fuse.rows[k])' /\ fuse'.rows[k].status = "new"
               /\ \A i : Sends(fuse.rows[m], i) => Sends(fuse.rows[k], i)'
    <3>1. PICK q : q = fuse.rows[m] /\ q = fuse'.rows[k]
      BY <2>2, <2>3
    <3>2. Sound(q.id) /\ Gone(q) /\ q.status = "new"
      BY <3>1 DEF Inv, SoundRequest, Carrying, Deletions
    <3>3. Gone(q)' /\ \A i : Sends(q, i) => Sends(q, i)'
      BY <1>3, <3>2, GoneStays, SendsStays
    <3> QED
      BY <3>1, <3>2, <3>3 DEF Gone, Sends, FileOf
  <2>4. \A k \in DOMAIN fuse'.rows : Gone(fuse.rows[k])' /\ fuse'.rows[k].status = "new"
    BY <2>1, <2>2, <2>3
  <2>5. ASSUME NEW i \in DOMAIN want', ~want'[i].cut, Asked(i) PROVE Asked(i)'
    <3>1. PICK m \in DOMAIN fuse.rows : Sends(fuse.rows[m], i)
      BY <2>5 DEF Asked
    <3>2. fuse.rows[m] # Head(fuse.rows)
      BY <1>2, <1>3, <2>5, <3>1 DEF Sends
    <3>3. PICK k \in DOMAIN R : R[k] = fuse.rows[m]
      BY <2>1, <3>2
    <3>4. k \in DOMAIN fuse'.rows /\ Sends(fuse.rows[k], i)'
      BY <2>2, <2>3, <3>1, <3>3
    <3> QED
      BY <3>4 DEF Asked
  <2> QED
    BY <1>1, <1>3, <2>2, <2>4, <2>5, StoringElsewhere, RequestCarries
<1> QED
  BY <1>1, <1>4, <1>5, RowLeftFacts

\* The last of some rows.
LEMMA LastOf ==
    ASSUME NEW n \in Nat, NEW rs \in SUBSET (1..n), rs # {}
    PROVE  Last(rs) \in rs /\ \A s \in rs : s <= Last(rs)
<1> DEFINE T == {n - r : r \in rs}
           Less == OpToRel(<, Nat)
<1>1. T \subseteq Nat
  <2>1. \A r \in rs : n - r \in Nat
    OBVIOUS
  <2> QED
    BY <2>1
<1>2. T # {}
  OBVIOUS
<1>3. PICK x \in T : \A y \in T : <<y, x>> \notin Less
  <2> HIDE DEF T, Less
  <2>1. IsWellFoundedOn(Less, Nat)
    BY NatLessThanWellFounded DEF Less
  <2> QED
    BY <1>1, <1>2, <2>1, WFMin
<1>4. \A y \in T : ~(y < x)
  BY <1>1, <1>3 DEF OpToRel
<1>5. PICK r \in rs : x = n - r
  BY <1>3
<1>6. ASSUME NEW s \in rs PROVE s <= r
  <2>1. s \in Int /\ r \in Int
    <3> HIDE DEF T, Less
    <3>1. \A q \in rs : q \in Int
      OBVIOUS
    <3> QED
      BY <3>1
  <2>2. n - s \in T
    OBVIOUS
  <2>3. ~(n - s < n - r)
    BY <1>4, <1>5, <2>1, <2>2
  <2> HIDE DEF T, Less
  <2> QED
    BY <2>1, <2>3
<1> QED
  BY <1>5, <1>6 DEF Last

\* The steps of the cycle: the rows are about the files they were about.
SameFiles ==
    /\ DOMAIN rows' = DOMAIN rows
    /\ \A r \in DOMAIN rows : /\ FileOf(rows[r].id)' = FileOf(rows[r].id)
                              /\ rows'[r].op = rows[r].op \/ rows'[r].op = "create"

\* Rows that keep their ids are about the same files.
LEMMA IdsKeepFiles ==
    ASSUME Inv, Steady, DOMAIN rows' = DOMAIN rows,
           \A r \in DOMAIN rows : /\ rows'[r].id = rows[r].id
                                  /\ rows'[r].op = rows[r].op \/ rows'[r].op = "create"
    PROVE  SameFiles
<1>1. ASSUME NEW r \in DOMAIN rows PROVE FileOf(rows[r].id)' = FileOf(rows[r].id)
  <2>1. PICK k : k = rows[r].id /\ k = rows'[r].id /\ Sound(k)
    BY DEF Inv, SoundRows
  <2>2. FileOf(k)' = FileOf(k)
    BY <2>1, SteadyIds
  <2> QED
    BY <2>1, <2>2 DEF FileOf
<1> QED
  BY <1>1 DEF SameFiles

\* The rows that delete are still about files the user gave up.
LEMMA RowsGone ==
    ASSUME Inv, Carrying, Fades, SameFiles
    PROVE  \A r \in DOMAIN rows' : Gone(rows[r])'
<1>1. SUFFICES ASSUME NEW r \in DOMAIN rows PROVE Gone(rows[r])'
  BY DEF SameFiles
<1>2. PICK f : f = FileOf(rows[r].id)
  OBVIOUS
<1>3. FileOf(rows[r].id)' = f /\ f \in DOMAIN want
  BY <1>2, IdsOfInts DEF SameFiles, Inv, SoundRows
<1>4. rows[r].op = "delete" => ~want[f].live
  BY <1>2 DEF Carrying, Deletions, Gone
<1>5. rows'[r].op = "delete" => ~want'[f].live
  BY <1>3, <1>4 DEF SameFiles, Fades
<1> QED
  BY <1>3, <1>5 DEF Gone

\* A row that no query selects any more is of a file that was cut short.
LEMMA StuckStays ==
    ASSUME Inv, Carrying, Fades, SameFiles,
           \A r \in DOMAIN rows : rows'[r].status = "processing" /\ r # cur' =>
              \/ rows[r].status = "processing" /\ r # cur
              \/ want'[FileOf(rows[r].id)].cut
    PROVE  Stuck'
<1>1. ASSUME NEW r \in DOMAIN rows, rows'[r].status = "processing", r # cur'
      PROVE  want'[FileOf(rows[r].id)'].cut
  <2>1. PICK f : f = FileOf(rows[r].id)
    OBVIOUS
  <2>2. FileOf(rows[r].id)' = f /\ f \in DOMAIN want
    BY <2>1, IdsOfInts DEF SameFiles, Inv, SoundRows
  <2>3. rows[r].status = "processing" /\ r # cur => want'[f].cut
    BY <2>1, <2>2 DEF Carrying, Stuck, Fades
  <2>4. want'[f].cut
    BY <1>1, <2>1, <2>3
  <2> QED
    BY <2>2, <2>4
<1> QED
  BY <1>1 DEF Stuck, SameFiles, FileOf

\* A file that has a row waiting keeps it, or was cut short.
LEMMA WaitsStay ==
    ASSUME Inv, SameFiles, NEW i,
           \A r \in DOMAIN rows : Waits(r) /\ Sends(rows[r], i) => Waits(r)' \/ want'[i].cut,
           Waiting(i), ~want'[i].cut
    PROVE  Waiting(i)'
<1>1. PICK r \in DOMAIN rows : Sends(rows[r], i) /\ Waits(r)
  BY DEF Waiting
<1>2. Waits(r)' /\ r \in DOMAIN rows'
  BY <1>1 DEF SameFiles
<1>3. FileOf(rows[r].id)' = i
  BY <1>1 DEF SameFiles, Sends
<1>4. rows'[r].op \in {"create", "update"}
  BY <1>1 DEF SameFiles, Sends
<1>5. Sends(rows[r], i)'
  BY <1>3, <1>4 DEF Sends
<1> QED
  BY <1>2, <1>5 DEF Waiting

\* A step of the cycle, or the end of the process.
LEMMA CycleCarries ==
    ASSUME Inv, Carrying, Steady, Fades, SameFiles, Stuck', AtHand', Contents',
           pc' \in Handling => Gone(item)',
           \/ fuse' = fuse
           \/ fuse' = Idle /\ \A i \in DOMAIN want : Asked(i) => want'[i].cut,
           \A i \in DOMAIN want' : i \in DOMAIN want \/ ~want'[i].live,
           \A i \in DOMAIN want : want'[i].live /\ ~want'[i].cut =>
              \/ Copied(i)'
              \/ (Waiting(i) => Waiting(i)') /\ (Copied(i) => Copied(i)')
    PROVE  Carrying'
<1>1. \A r \in DOMAIN rows' : Gone(rows[r])'
  BY RowsGone
<1>2. ASSUME fuse' = fuse
      PROVE  /\ \A k \in DOMAIN fuse'.rows : Gone(fuse.rows[k])' /\ fuse'.rows[k].status = "new"
             /\ \A i : Asked(i) => Asked(i)'
             /\ Storing'
  <2>1. ASSUME NEW k \in DOMAIN fuse.rows
        PROVE  /\ Gone(fuse.rows[k])' /\ fuse'.rows[k].status = "new"
               /\ \A i : Sends(fuse.rows[k], i) => Sends(fuse.rows[k], i)'
    <3>1. PICK q : q = fuse.rows[k] /\ q = fuse'.rows[k]
      BY <1>2
    <3>2. Sound(q.id) /\ Gone(q) /\ q.status = "new"
      BY <3>1 DEF Inv, SoundRequest, Carrying, Deletions
    <3>3. Gone(q)' /\ \A i : Sends(q, i) => Sends(q, i)'
      BY <3>2, GoneStays, SendsStays
    <3> QED
      BY <3>1, <3>2, <3>3 DEF Gone, Sends, FileOf
  <2>2. ASSUME NEW i, Asked(i) PROVE Asked(i)'
    BY <1>2, <2>1, <2>2 DEF Asked
  <2>3. Storing'
    BY <1>2 DEF Carrying, Storing
  <2> QED
    BY <1>2, <2>1, <2>2, <2>3
<1>3. ASSUME fuse' = Idle
      PROVE  DOMAIN fuse'.rows = {} /\ Storing'
  <2>1. fuse'.rows = << >> /\ fuse'.pc = "idle"
    BY <1>3, IdleFacts
  <2>2. DOMAIN fuse'.rows = {}
    BY <2>1
  <2> QED
    BY <2>1, <2>2, StoringElsewhere
<1>4. Storing' /\ \A k \in DOMAIN fuse'.rows : Gone(fuse.rows[k])' /\ fuse'.rows[k].status = "new"
  BY <1>2, <1>3
<1>5. Deletions'
  BY <1>1, <1>4 DEF Deletions
<1>6. ASSUME NEW i \in DOMAIN want' PROVE Kept(i)'
  <2>1. SUFFICES ASSUME want'[i].live, ~want'[i].cut
                 PROVE  Waiting(i)' \/ Asked(i)' \/ Copied(i)'
    BY DEF Kept
  <2>2. i \in DOMAIN want
    BY <2>1
  <2>3. want[i].live /\ ~want[i].cut
    BY <2>1, <2>2 DEF Fades
  <2>4. Waiting(i) \/ Asked(i) \/ Copied(i)
    BY <2>2, <2>3 DEF Carrying, Kept
  <2>5. Asked(i) => Asked(i)'
    BY <1>2, <2>1, <2>2
  <2> QED
    BY <2>1, <2>2, <2>4, <2>5
<1> QED
  BY <1>4, <1>5, <1>6 DEF Carrying

\* A step of the cycle that leaves OneDrive alone.
LEMMA QuietCarries ==
    ASSUME Inv, Carrying, UNCHANGED server, Fades, Steady, SameFiles, Stuck', AtHand', Contents',
           \A i \in DOMAIN want : want'[i].content = want[i].content,
           pc' \in Handling => Gone(item)',
           \/ fuse' = fuse
           \/ fuse' = Idle /\ \A i \in DOMAIN want : Asked(i) => want'[i].cut,
           \A i \in DOMAIN want' : i \in DOMAIN want \/ ~want'[i].live,
           \A i \in DOMAIN want : want'[i].live /\ ~want'[i].cut /\ Waiting(i) => Waiting(i)'
    PROVE  Carrying'
<1>1. ASSUME NEW i \in DOMAIN want, Copied(i) PROVE Copied(i)'
  BY <1>1, CopyStays
<1> QED
  BY <1>1, CycleCarries

\* The item at hand stays.
LEMMA ItemStays ==
    ASSUME Inv, Carrying, Steady, Fades, UNCHANGED item, pc \in Handling
    PROVE  Gone(item)'
<1>1. PICK m : m = item /\ m = item'
  OBVIOUS
<1>2. Sound(m.id) /\ Gone(m)
  BY <1>1 DEF Inv, SoundCycle, Carrying, Deletions
<1>3. Gone(m)'
  BY <1>2, GoneStays
<1> QED
  BY <1>1, <1>3 DEF Gone, FileOf

\* A row is touched, and the cycle has none at hand.
LEMMA TouchCarries ==
    ASSUME Inv, Carrying, UNCHANGED <<server, disk, want, fuse>>, NEW r \in DOMAIN rows,
           NEW status \in {"error", "conflicted", "gone"}, Touch(r, status),
           pc' \notin Handling, cur' = 0, cur \in {0, r},
           status = "gone" => cur = r /\ pc # "begun"
    PROVE  Carrying'
<1>1. Steady /\ Fades /\ Contents'
  BY SameFades DEF Carrying
<1>2. /\ DOMAIN rows' = DOMAIN rows
      /\ \A q \in DOMAIN rows : /\ rows'[q].id = rows[q].id /\ rows'[q].op = rows[q].op
                                /\ rows'[q].status = IF q = r THEN status ELSE rows[q].status
  BY TouchEffect DEF Statuses
<1>3. SameFiles
  BY <1>1, <1>2, IdsKeepFiles
<1>4. r # 0 /\ \A q \in DOMAIN rows : q # 0
  BY Tables
<1>5. \A q \in DOMAIN rows : rows'[q].status = "processing" /\ q # cur' =>
         rows[q].status = "processing" /\ q # cur
  BY <1>2, <1>4
<1>6. \A q \in DOMAIN rows : Waits(q) => Waits(q)'
  BY <1>2, <1>4 DEF Waits
<1>7. Stuck' /\ AtHand'
  <2>1. AtHand'
    BY DEF AtHand, Handling
  <2> QED
    BY <1>1, <1>3, <1>5, <2>1, StuckStays
<1>8. \A i \in DOMAIN want : ~want'[i].cut /\ Waiting(i) => Waiting(i)'
  BY <1>3, <1>6, WaitsStay
<1> QED
  BY <1>1, <1>3, <1>7, <1>8, QuietCarries

\* A row whose handler fails waits again.
LEMMA ErrorCarries ==
    ASSUME Inv, Carrying, UNCHANGED <<server, disk, want, fuse>>, pc \in Handling, RowError
    PROVE  Carrying'
<1>1. PICK r \in DOMAIN rows : r = cur
  BY AtRow
<1>2. Touch(r, "error") /\ pc' = "loop" /\ cur' = 0
  BY <1>1 DEF RowError
<1> QED
  BY <1>1, <1>2, TouchCarries DEF Handling

\* The request of the handler is refused: no edit is forgotten.
LEMMA HandlerRefusedCarries == ASSUME Inv, Carrying, HandlerRefused PROVE Carrying'
BY ErrorCarries DEF HandlerRefused, Handling, request

\* A request or a statement of the handler fails: no edit is forgotten.
LEMMA HandlerFailsCarries == ASSUME Inv, Carrying, HandlerFails PROVE Carrying'
BY ErrorCarries DEF HandlerFails, Handling, request

\* The row at hand is done: no edit is forgotten.
LEMMA FinishRowCarries == ASSUME Inv, Carrying, FinishRow PROVE Carrying'
<1>1. /\ UNCHANGED <<server, disk, want, fuse>> /\ pc = "closing" /\ Touch(cur, "gone")
      /\ pc' = "loop" /\ cur' = 0
  BY DEF FinishRow, request
<1>2. PICK r \in DOMAIN rows : r = cur
  BY <1>1, AtRow DEF Handling
<1> QED
  BY <1>1, <1>2, TouchCarries DEF Handling

\* A row is set aside as conflicted: no edit is forgotten.
LEMMA SetConflictedCarries ==
    ASSUME Inv, Carrying, NEW r \in DOMAIN rows, SetConflicted(r)
    PROVE  Carrying'
<1>1. /\ UNCHANGED <<server, disk, want, fuse, pc, cur>> /\ pc = "loop" /\ Touch(r, "conflicted")
  BY DEF SetConflicted, request, cycle
<1>2. cur = 0 /\ pc' \notin Handling
  BY <1>1 DEF Inv, SoundCycle, Handling
<1> QED
  BY <1>1, <1>2, TouchCarries

\* A row is taken up: no edit is forgotten.
LEMMA BeginCarries == ASSUME Inv, Carrying, NEW r \in DOMAIN rows, Begin(r) PROVE Carrying'
<1>1. /\ UNCHANGED <<server, disk, want, fuse>> /\ pc = "loop" /\ Touch(r, "processing")
      /\ cur' = r /\ item' = rows[r] /\ pc' = "begun"
  BY DEF Begin, request
<1>2. Steady /\ Fades /\ Contents'
  BY <1>1, SameFades DEF Carrying
<1>3. /\ DOMAIN rows' = DOMAIN rows
      /\ \A q \in DOMAIN rows :
            /\ rows'[q].id = rows[q].id /\ rows'[q].op = rows[q].op
            /\ rows'[q].status = IF q = r THEN "processing" ELSE rows[q].status
  BY <1>1, TouchEffect DEF Statuses
<1>4. SameFiles
  BY <1>2, <1>3, IdsKeepFiles
<1>5. cur = 0 /\ \A q \in DOMAIN rows : q # 0
  BY <1>1, Tables DEF Inv, SoundCycle, Handling
<1>6. Stuck'
  BY <1>1, <1>2, <1>3, <1>4, <1>5, StuckStays
<1>7. AtHand'
  BY <1>1, <1>3 DEF AtHand
<1>8. Gone(item)'
  <2>1. PICK m : m = rows[r]
    OBVIOUS
  <2>2. Sound(m.id) /\ Gone(m)
    BY <2>1 DEF Inv, SoundRows, Carrying, Deletions
  <2>3. Gone(m)'
    BY <1>2, <2>2, GoneStays
  <2> QED
    BY <1>1, <2>1, <2>3 DEF Gone, FileOf
<1>9. \A q \in DOMAIN rows : Waits(q) => Waits(q)'
  BY <1>1, <1>3, <1>5 DEF Waits
<1>10. \A i \in DOMAIN want : ~want'[i].cut /\ Waiting(i) => Waiting(i)'
  BY <1>4, <1>9, WaitsStay
<1> QED
  BY <1>1, <1>2, <1>4, <1>6, <1>7, <1>8, <1>10, QuietCarries

\* A step that leaves the rows alone: the cycle goes on, or it has no row at hand.
LEMMA RestCarries ==
    ASSUME Inv, Carrying, UNCHANGED <<server, rows>>, Steady, Fades, Contents',
           \A i \in DOMAIN want : want'[i].content = want[i].content,
           \A i \in DOMAIN want' : i \in DOMAIN want \/ ~want'[i].live,
           \/ fuse' = fuse
           \/ fuse' = Idle /\ \A i \in DOMAIN want : Asked(i) => want'[i].cut,
           \/ /\ UNCHANGED <<cur, item>> /\ (pc = "begun" <=> pc' = "begun")
              /\ pc' \in Handling => pc \in Handling
           \/ /\ cur' = 0 /\ pc' \notin Handling
              /\ cur # 0 => want'[FileOf(rows[cur].id)].cut
    PROVE  Carrying'
<1>1. SameFiles
  BY IdsKeepFiles
<1>2. \A r \in DOMAIN rows : r # 0
  BY Tables
<1>3. Stuck'
  <2>1. \A r \in DOMAIN rows : rows'[r].status = "processing" /\ r # cur' =>
              \/ rows[r].status = "processing" /\ r # cur
              \/ want'[FileOf(rows[r].id)].cut
    BY <1>2
  <2> QED
    BY <1>1, <2>1, StuckStays
<1>4. AtHand'
  <2>1. CASE UNCHANGED <<cur, item>> /\ (pc' \in Handling => pc \in Handling)
    BY <2>1, AtHandStays
  <2>2. CASE pc' \notin Handling
    BY <2>2 DEF AtHand
  <2> QED
    BY <2>1, <2>2
<1>5. pc' \in Handling => Gone(item)'
  BY ItemStays
<1>6. ASSUME NEW i \in DOMAIN want, ~want'[i].cut, Waiting(i) PROVE Waiting(i)'
  <2>1. ASSUME NEW r \in DOMAIN rows, Waits(r), Sends(rows[r], i) PROVE Waits(r)'
    <3>1. CASE UNCHANGED <<cur, item>> /\ (pc = "begun" <=> pc' = "begun")
      BY <2>1, <3>1 DEF Waits
    <3>2. CASE cur' = 0 /\ (cur # 0 => want'[FileOf(rows[cur].id)].cut)
      <4>1. r # cur
        BY <1>2, <1>6, <2>1, <3>2 DEF Sends
      <4> QED
        BY <1>2, <2>1, <3>2, <4>1 DEF Waits
    <3> QED
      BY <3>1, <3>2
  <2> QED
    BY <1>1, <1>6, <2>1, WaitsStay
<1> QED
  BY <1>1, <1>3, <1>4, <1>5, <1>6, QuietCarries

\* Five seconds pass: no edit is forgotten.
LEMMA TimePassesCarries == ASSUME Inv, Carrying, TimePasses PROVE Carrying'
<1>1. UNCHANGED <<server, rows, disk, want, fuse, pc, cur, item>>
  BY DEF TimePasses, request, cycle
<1> QED
  BY <1>1, SameFades, RestCarries DEF Carrying

\* The files a request has rows for.
LEMMA AskedFiles == ASSUME NEW i, Asked(i) PROVE i \in Requested
BY DEF Asked, Sends, Requested

\* The process is killed: no edit is forgotten.
LEMMA CrashCarries == ASSUME Inv, Carrying, Crash PROVE Carrying'
<1>1. /\ UNCHANGED <<server, rows, disk>> /\ pc' = "idle" /\ cur' = 0 /\ fuse' = Idle
      /\ Cut(Requested \union Processed)
  BY DEF Crash, EndCycle
<1>2. /\ Steady /\ Fades /\ Contents' /\ DOMAIN want' = DOMAIN want
      /\ \A i \in DOMAIN want : /\ want'[i].content = want[i].content
                                /\ i \in Requested \union Processed => want'[i].cut
  BY <1>1, CutFades DEF Carrying
<1>3. cur # 0 => want'[FileOf(rows[cur].id)].cut
  <2>1. cur # 0 => cur \in DOMAIN rows
    BY DEF Inv, SoundCycle
  <2>2. cur # 0 => FileOf(rows[cur].id) \in DOMAIN want
    BY <2>1, IdsOfInts DEF Inv, SoundRows
  <2> QED
    BY <1>2, <2>2 DEF Processed
<1> QED
  BY <1>1, <1>2, <1>3, AskedFiles, RestCarries DEF Handling

\* The task of the cycle dies: no edit is forgotten.
LEMMA HandlerPanicsCarries == ASSUME Inv, Carrying, HandlerPanics PROVE Carrying'
<1>1. UNCHANGED <<server, rows, disk, fuse>> /\ pc' = "idle" /\ cur' = 0 /\ Cut(Processed)
  BY DEF HandlerPanics, EndCycle
<1>2. /\ Steady /\ Fades /\ Contents' /\ DOMAIN want' = DOMAIN want
      /\ \A i \in DOMAIN want : /\ want'[i].content = want[i].content
                                /\ i \in Processed => want'[i].cut
  BY <1>1, CutFades DEF Carrying
<1>3. cur # 0 => want'[FileOf(rows[cur].id)].cut
  <2>1. cur # 0 => cur \in DOMAIN rows
    BY DEF Inv, SoundCycle
  <2>2. cur # 0 => FileOf(rows[cur].id) \in DOMAIN want
    BY <2>1, IdsOfInts DEF Inv, SoundRows
  <2> QED
    BY <1>2, <2>2 DEF Processed
<1> QED
  BY <1>1, <1>2, <1>3, RestCarries DEF Handling

\* No row is at hand before the step nor after it.
LEMMA EmptyHandsCarry ==
    ASSUME Inv, Carrying, UNCHANGED <<server, rows, disk, want, fuse>>,
           pc \notin Handling, pc' \notin Handling, cur' = 0
    PROVE  Carrying'
<1>1. cur = 0
  BY DEF Inv, SoundCycle
<1> QED
  BY <1>1, SameFades, RestCarries DEF Carrying

\* A cycle starts: no edit is forgotten.
LEMMA StartCarries == ASSUME Inv, Carrying, Start PROVE Carrying'
<1>1. /\ UNCHANGED <<server, rows, disk, want, fuse, cur>> /\ pc \notin Handling /\ pc' \notin Handling
  BY DEF Start, request, Handling
<1> QED
  BY <1>1, EmptyHandsCarry DEF Inv, SoundCycle

\* All items are squashed: no edit is forgotten.
LEMMA SquashDoneCarries == ASSUME Inv, Carrying, SquashDone PROVE Carrying'
<1>1. /\ UNCHANGED <<server, rows, disk, want, fuse, cur>> /\ pc \notin Handling /\ pc' \notin Handling
  BY DEF SquashDone, request, Handling
<1> QED
  BY <1>1, EmptyHandsCarry DEF Inv, SoundCycle

\* No row is left to select: no edit is forgotten.
LEMMA FinishCarries == ASSUME Inv, Carrying, Finish PROVE Carrying'
<1>1. /\ UNCHANGED <<server, rows, disk, want, fuse>> /\ pc \notin Handling /\ pc' \notin Handling
      /\ cur' = 0
  BY DEF Finish, EndCycle, request, Handling
<1> QED
  BY <1>1, EmptyHandsCarry

\* The uploaded item is read back: no edit is forgotten.
LEMMA GetItemCarries == ASSUME Inv, Carrying, GetItem PROVE Carrying'
<1>1. /\ UNCHANGED <<server, rows, disk, want, fuse, cur, item>> /\ pc = "get"
      /\ pc' \in {"answered", "closing"}
  BY DEF GetItem, request
<1> QED
  BY <1>1, SameFades, RestCarries DEF Carrying, Handling

\* The entry gets the id OneDrive gave: no edit is forgotten.
LEMMA RewriteEntryCarries == ASSUME Inv, Carrying, RewriteEntry PROVE Carrying'
<1>1. UNCHANGED <<server, disk, want, fuse, item>> /\ pc = "entries"
  BY DEF RewriteEntry, request
<1>2. CASE RowError
  BY <1>1, <1>2, ErrorCarries DEF Handling
<1>3. CASE pc' = "rows" /\ UNCHANGED <<rows, cur>>
  BY <1>1, <1>3, SameFades, RestCarries DEF Carrying, Handling
<1> QED
  BY <1>2, <1>3, RewriteEntryEffect

\* The answer is stored, in its entry or in a new inode: no edit is forgotten.
LEMMA StoreAnswerCarries == ASSUME Inv, Carrying, StoreAnswer PROVE Carrying'
<1>1. /\ UNCHANGED <<server, rows, fuse, cur, item>> /\ pc = "answered"
      /\ pc' \in {"closing", "stored"}
  BY DEF StoreAnswer
<1>2. CASE UNCHANGED <<disk, want>>
  BY <1>1, <1>2, SameFades, RestCarries DEF Carrying, Handling
<1>3. CASE Insert(answer, 0, Ghost)
  <2>1. PICK e \in Entry, g \in Wish : /\ e = answer /\ g = Ghost /\ ~g.live
                                       /\ g.content = 0
    BY <1>1, AtRow, NothingIsTyped DEF Ghost, Handling
  <2>2. PICK n : n = Len(db) + 1
    OBVIOUS
  <2>3. /\ DOMAIN want' = DOMAIN want \union {n} /\ n \notin DOMAIN want
        /\ \A i \in DOMAIN want : want'[i] = want[i] /\ disk'[i] = disk[i]
        /\ want'[n] = g /\ disk'[n] = 0
    <3>1. Insert(e, 0, g)
      BY <1>3, <2>1
    <3> QED
      BY <2>2, <3>1, InsertEffect, Tables
  <2>4. Steady /\ Fades
    BY <1>1, <2>3 DEF Steady, Fades
  <2>5. Contents'
    BY <2>1, <2>3 DEF Contents, Carrying
  <2> QED
    BY <1>1, <2>1, <2>3, <2>4, <2>5, RestCarries DEF Handling
<1> QED
  BY <1>2, <1>3 DEF StoreAnswer

\* The rules remove no row of a file that the user has without leaving one that
\* sends its content.
LEMMA SquashedWaits ==
    ASSUME Inv, Carrying, cur = 0, UNCHANGED <<server, cur>>, Fades, NEW id,
           NEW gone \in SUBSET Surplus(RowsOf(id)), Squashed(RowsOf(id), gone),
           NEW i \in DOMAIN want, want'[i].live, ~want'[i].cut, Waiting(i)
    PROVE  Waiting(i)'
<1>1. PICK r \in DOMAIN rows : Sends(rows[r], i) /\ Waits(r)
  BY DEF Waiting
<1>2. PICK rs \in SUBSET DOMAIN rows :
         /\ rs = RowsOf(id) /\ Surplus(rs) \in SUBSET rs /\ gone \in SUBSET DOMAIN rows
         /\ gone \subseteq Surplus(rs)
  BY RowsOfFacts
<1>3. /\ DOMAIN rows' = DOMAIN rows
      /\ \A q \in DOMAIN rows :
            /\ rows'[q].id = rows[q].id
            /\ q \notin gone => rows'[q].status = rows[q].status
            /\ rows'[q].op = rows[q].op \/ rows'[q].op = "create"
            /\ (CreatedAndModified(rs) /\ q \in rs \ Surplus(rs) /\ q \notin gone)
                  => rows'[q].op = "create"
  <2>1. Squashed(rs, gone)
    BY <1>2
  <2> QED
    BY <1>2, <2>1, SquashedEffect DEF SameRows
<1>4. ~want[i].cut /\ want[i].live
  BY DEF Fades
<1>5. ASSUME NEW m \in DOMAIN rows, m \notin gone, FileOf(rows[m].id) = i,
             rows[m].status # "gone", rows'[m].op \in {"create", "update"}
      PROVE  Waiting(i)'
  <2>1. m # 0
    BY Tables
  <2>2. rows[m].status # "processing"
    BY <1>4, <1>5, <2>1 DEF Carrying, Stuck
  <2>3. rows[m].status \in {"new", "error", "conflicted"}
    <3>1. rows[m] \in Row
      BY Tables
    <3> QED
      BY <1>5, <2>2, <3>1 DEF Row
  <2>4. Waits(m)'
    BY <1>3, <1>5, <2>1, <2>3 DEF Waits
  <2>5. FileOf(rows[m].id)' = i
    <3>1. PICK k : k = rows[m].id /\ k = rows'[m].id
      BY <1>3
    <3>2. FileOf(k)' = i
      BY <1>5, <3>1 DEF FileOf
    <3> QED
      BY <3>1, <3>2 DEF FileOf
  <2>6. Sends(rows[m], i)'
    BY <1>5, <2>5 DEF Sends
  <2> QED
    BY <1>3, <2>4, <2>6 DEF Waiting
<1>6. r # 0 /\ rows[r].status # "gone" /\ FileOf(rows[r].id) = i /\ rows[r].op \in {"create", "update"}
  BY <1>1, Tables DEF Waits, Sends
<1>7. CASE r \notin gone
  BY <1>3, <1>5, <1>6, <1>7
<1>8. CASE r \in gone
  <2>1. r \in rs /\ r \in Surplus(rs)
    BY <1>2, <1>8
  <2>2. \A m \in rs : FileOf(rows[m].id) = i /\ rows[m].status # "gone" /\ m \in DOMAIN rows
    <3>1. \A m \in rs : rows[m].id = id /\ rows[m].status # "gone" /\ m \in DOMAIN rows
      BY <1>2 DEF RowsOf
    <3> QED
      BY <1>6, <2>1, <3>1
  <2>3. PICK n \in Nat : DOMAIN rows = 1..n
    BY Tables
  <2>4. CASE CreatedAndDeleted(rs)
    <3>1. PICK d \in rs : rows[d].op = "delete"
      BY <2>4 DEF CreatedAndDeleted, OfOp
    <3>2. ~want[i].live
      BY <2>2, <3>1 DEF Carrying, Deletions, Gone
    <3> QED
      BY <1>4, <3>2
  <2>5. CASE ~CreatedAndDeleted(rs) /\ CreatedAndModified(rs)
    <3>1. PICK m \in rs : m = Last(rs)
      BY <2>1, <2>3, LastOf
    <3>2. m \in rs \ Surplus(rs) /\ m \notin gone
      BY <1>2, <2>5, <3>1 DEF Surplus
    <3>3. rows'[m].op = "create"
      BY <1>2, <1>3, <2>5, <3>2
    <3> QED
      BY <1>5, <2>2, <3>2, <3>3
  <2>6. CASE ~CreatedAndDeleted(rs) /\ ~CreatedAndModified(rs)
    <3>1. \A q \in Surplus(rs) : /\ rows[q].op \in {"update", "rename", "move"}
                                 /\ q # Last(OfOp(rs, rows[q].op))
      BY <2>6 DEF Surplus
    <3>2. rows[r].op = "update"
      BY <1>6, <2>1, <3>1
    <3>3. PICK us \in SUBSET (1..n) : us = OfOp(rs, "update") /\ r \in us
      BY <1>2, <2>1, <2>3, <3>2 DEF OfOp
    <3>4. PICK m \in us : m = Last(us)
      BY <2>3, <3>3, LastOf
    <3>5. m \in rs /\ rows[m].op = "update"
      BY <3>3, <3>4 DEF OfOp
    <3>6. m \notin gone
      BY <1>2, <3>1, <3>3, <3>4, <3>5
    <3>7. rows'[m].op \in {"create", "update"}
      BY <1>3, <2>2, <3>5
    <3> QED
      BY <1>5, <2>2, <3>5, <3>6, <3>7
  <2> QED
    BY <2>4, <2>5, <2>6
<1> QED
  BY <1>7, <1>8

\* The rules of squash_local_changes, carried through or not.
LEMMA SquashedCarries ==
    ASSUME Inv, Carrying, pc = "squash", pc' \notin Handling, cur' = 0,
           UNCHANGED <<server, disk>>, NEW id, NEW gone \in SUBSET Surplus(RowsOf(id)),
           Squashed(RowsOf(id), gone),
           Steady, Fades, Contents', DOMAIN want' = DOMAIN want,
           \A i \in DOMAIN want : want'[i].content = want[i].content,
           \/ fuse' = fuse
           \/ fuse' = Idle /\ \A i \in DOMAIN want : Asked(i) => want'[i].cut
    PROVE  Carrying'
<1>1. cur = 0
  BY DEF Inv, SoundCycle, Handling
<1>2. PICK rs \in SUBSET DOMAIN rows : rs = RowsOf(id) /\ gone \in SUBSET DOMAIN rows
  BY RowsOfFacts
<1>3. /\ DOMAIN rows' = DOMAIN rows
      /\ \A q \in DOMAIN rows :
            /\ rows'[q].id = rows[q].id
            /\ rows'[q].op = rows[q].op \/ rows'[q].op = "create"
            /\ rows'[q].status = "processing" => rows[q].status = "processing"
  <2>1. Squashed(rs, gone)
    BY <1>2
  <2> QED
    BY <1>2, <2>1, SquashedEffect DEF SameRows
<1>4. SameFiles
  BY <1>3, IdsKeepFiles
<1>5. Stuck' /\ AtHand'
  <2>1. \A q \in DOMAIN rows : q # 0
    BY Tables
  <2>2. AtHand'
    BY DEF AtHand
  <2> QED
    BY <1>1, <1>3, <1>4, <2>1, <2>2, StuckStays
<1>6. \A i \in DOMAIN want : want'[i].live /\ ~want'[i].cut /\ Waiting(i) => Waiting(i)'
  BY <1>1, SquashedWaits
<1> QED
  BY <1>4, <1>5, <1>6, QuietCarries

\* The rows of an item are squashed: no edit is forgotten.
LEMMA SquashCarries == ASSUME Inv, Carrying, NEW id \in todo, Squash(id) PROVE Carrying'
<1>1. /\ UNCHANGED <<server, disk, want, fuse, pc, cur>> /\ pc = "squash"
      /\ Squashed(RowsOf(id), Surplus(RowsOf(id)))
  BY DEF Squash, request
<1>2. pc' \notin Handling /\ cur' = 0
  BY <1>1 DEF Inv, SoundCycle, Handling
<1>3. Steady /\ Fades /\ Contents'
  BY <1>1, SameFades DEF Carrying
<1> QED
  BY <1>1, <1>2, <1>3, SquashedCarries

\* The squashing of an item stops in the middle: no edit is forgotten.
LEMMA SquashStopsCarries == ASSUME Inv, Carrying, NEW id \in todo, SquashStops(id) PROVE Carrying'
<1>1. /\ UNCHANGED <<server, disk>> /\ pc = "squash" /\ pc' \notin Handling /\ cur' = 0
      /\ UNCHANGED <<fuse, want>> \/ (fuse' = Idle /\ Cut(Requested))
  BY DEF SquashStops, EndCycle, Handling
<1>2. PICK gone \in SUBSET Surplus(RowsOf(id)) : Squashed(RowsOf(id), gone)
  <2>1. PICK k \in Surplus(RowsOf(id)) :
           Squashed(RowsOf(id), {r \in Surplus(RowsOf(id)) : r < k})
    BY DEF SquashStops
  <2> QED
    BY <2>1
<1>3. /\ Steady /\ Fades /\ Contents' /\ DOMAIN want' = DOMAIN want
      /\ \A i \in DOMAIN want : want'[i].content = want[i].content
  <2>1. CASE UNCHANGED <<fuse, want>>
    BY <1>1, <2>1, SameFades DEF Carrying
  <2>2. CASE Cut(Requested)
    BY <1>1, <2>2, CutFades DEF Carrying
  <2> QED
    BY <1>1, <2>1, <2>2
<1>4. \/ fuse' = fuse
      \/ fuse' = Idle /\ \A i \in DOMAIN want : Asked(i) => want'[i].cut
  BY <1>1, CutFades, AskedFiles
<1> QED
  BY <1>1, <1>2, <1>3, <1>4, SquashedCarries

\* The rows get the id the server gave, which is one of the same file.
LEMMA RewriteRowsCarries == ASSUME Inv, Placed, Carrying, RewriteRows PROVE Carrying'
<1>1. /\ UNCHANGED <<server, disk, want, fuse, cur, item>> /\ pc = "rows" /\ pc' = "get"
  BY DEF RewriteRows, request
<1>2. FileOf(answer.id) = FileOf(item.id)
  BY <1>1 DEF Placed, PlacedCycle, Answering
<1>3. /\ DOMAIN rows' = DOMAIN rows
      /\ \A r \in DOMAIN rows :
            /\ rows'[r].id = (IF rows[r].id = item.id THEN answer.id ELSE rows[r].id)
            /\ rows'[r].op = rows[r].op /\ rows'[r].status = rows[r].status
  BY RewriteRowsEffect
<1>4. Steady /\ Fades /\ Contents'
  BY <1>1, SameFades DEF Carrying
<1>5. ASSUME NEW r \in DOMAIN rows PROVE FileOf(rows[r].id)' = FileOf(rows[r].id)
  <2>1. PICK k : k = rows'[r].id
    OBVIOUS
  <2>2. FileOf(k) = FileOf(rows[r].id)
    BY <1>2, <1>3, <2>1
  <2>3. FileOf(k)' = FileOf(k)
    BY <1>1 DEF FileOf
  <2> QED
    BY <2>1, <2>2, <2>3 DEF FileOf
<1>6. SameFiles
  BY <1>3, <1>5 DEF SameFiles
<1>7. Stuck'
  BY <1>1, <1>3, <1>4, <1>6, StuckStays
<1>8. AtHand'
  <2>1. cur \in DOMAIN rows /\ rows[cur].op = item.op /\ FileOf(rows[cur].id) = FileOf(item.id)
    BY <1>1 DEF Handling, Carrying, AtHand, Inv, SoundCycle
  <2>2. PICK q : q = rows'[cur] /\ q.op = item.op
    BY <1>3, <2>1
  <2>3. FileOf(q.id)' = FileOf(item.id)
    BY <1>5, <2>1, <2>2 DEF FileOf
  <2>4. FileOf(item.id)' = FileOf(item.id)
    BY <1>1 DEF FileOf
  <2> QED
    BY <1>1, <2>2, <2>3, <2>4 DEF AtHand, FileOf
<1>9. \A r \in DOMAIN rows : Waits(r) => Waits(r)'
  BY <1>1, <1>3 DEF Waits
<1>10. \A i \in DOMAIN want : ~want'[i].cut /\ Waiting(i) => Waiting(i)'
  BY <1>6, <1>9, WaitsStay
<1>11. Gone(item)'
  BY <1>1, <1>4, ItemStays DEF Handling
<1> QED
  BY <1>1, <1>4, <1>6, <1>7, <1>8, <1>10, <1>11, QuietCarries

\* The row gets the item of the answer: no edit is forgotten.
LEMMA RowAnsweredCarries == ASSUME Inv, Placed, Carrying, RowAnswered PROVE Carrying'
<1>1. /\ UNCHANGED <<server, disk, want, fuse, cur, item, answer>> /\ pc = "stored" /\ pc' = "closing"
  BY DEF RowAnswered, request
<1>2. /\ FileOf(answer.id) = FileOf(item.id) /\ cur \in DOMAIN rows
      /\ rows[cur].op = item.op /\ FileOf(rows[cur].id) = FileOf(item.id)
  BY <1>1 DEF Placed, PlacedCycle, Answering, Handling, Carrying, AtHand, Inv, SoundCycle
<1>3. /\ DOMAIN rows' = DOMAIN rows /\ \A r \in DOMAIN rows \ {cur} : rows'[r] = rows[r]
      /\ rows'[cur].id = answer.id /\ rows'[cur].op = item.op
  BY RowAnsweredEffect
<1>4. Steady /\ Fades /\ Contents'
  BY <1>1, SameFades DEF Carrying
<1>5. ASSUME NEW r \in DOMAIN rows PROVE FileOf(rows[r].id)' = FileOf(rows[r].id)
  <2>1. PICK k : k = rows'[r].id
    OBVIOUS
  <2>2. FileOf(k) = FileOf(rows[r].id)
    BY <1>2, <1>3, <2>1
  <2>3. FileOf(k)' = FileOf(k)
    BY <1>1 DEF FileOf
  <2> QED
    BY <2>1, <2>2, <2>3 DEF FileOf
<1>6. SameFiles
  BY <1>2, <1>3, <1>5 DEF SameFiles
<1>7. Stuck'
  BY <1>1, <1>3, <1>4, <1>6, StuckStays
<1>8. AtHand'
  <2>1. PICK q : q = rows'[cur] /\ q.op = item.op
    BY <1>3
  <2>2. FileOf(q.id)' = FileOf(item.id)
    BY <1>2, <1>5, <2>1 DEF FileOf
  <2>3. FileOf(item.id)' = FileOf(item.id)
    BY <1>1 DEF FileOf
  <2> QED
    BY <1>1, <2>1, <2>2, <2>3 DEF AtHand, FileOf
<1>9. \A r \in DOMAIN rows : Waits(r) => Waits(r)'
  BY <1>1, <1>3 DEF Waits
<1>10. \A i \in DOMAIN want : ~want'[i].cut /\ Waiting(i) => Waiting(i)'
  BY <1>6, <1>9, WaitsStay
<1>11. Gone(item)'
  BY <1>1, <1>4, ItemStays DEF Handling
<1> QED
  BY <1>1, <1>4, <1>6, <1>7, <1>8, <1>10, <1>11, QuietCarries

\* A request that reached OneDrive, whatever becomes of its answer.
LEMMA SentCarries ==
    ASSUME Inv, Carrying, pc = "begun", NEW next \in {"entries", "answered"}, Outcome(next),
           Steady, UNCHANGED <<disk, want, fuse, item>>,
           \A i \in DOMAIN want : want[i].live =>
              Copied(i)' \/ ((Copied(i) => Copied(i)') /\ ~Sends(rows[cur], i))
    PROVE  Carrying'
<1>1. Fades /\ Contents'
  <2>1. Fades
    BY DEF Fades
  <2> QED
    BY <2>1, SameFades DEF Carrying
<1>2. PICK c \in DOMAIN rows : c = cur /\ c # 0
  BY Tables DEF Inv, SoundCycle, Handling
<1>3. CASE pc' = next /\ UNCHANGED <<rows, cur>>
  <2>1. SameFiles
    BY <1>3, IdsKeepFiles
  <2>2. Stuck'
    BY <1>1, <1>3, <2>1, StuckStays
  <2>3. AtHand' /\ Gone(item)'
    BY <1>1, <1>3, AtHandStays, ItemStays DEF Handling
  <2>4. \A r \in DOMAIN rows : r # c /\ Waits(r) => Waits(r)'
    BY <1>2, <1>3 DEF Waits
  <2>5. ASSUME NEW i \in DOMAIN want, ~want'[i].cut, ~Sends(rows[cur], i), Waiting(i)
        PROVE  Waiting(i)'
    BY <1>2, <2>1, <2>4, <2>5, WaitsStay
  <2> QED
    BY <1>1, <2>1, <2>2, <2>3, <2>5, CycleCarries
<1>4. CASE RowError
  <2>1. /\ Touch(c, "error") /\ pc' = "loop" /\ cur' = 0
    BY <1>2, <1>4 DEF RowError
  <2>2. /\ DOMAIN rows' = DOMAIN rows
        /\ \A q \in DOMAIN rows : /\ rows'[q].id = rows[q].id /\ rows'[q].op = rows[q].op
                                  /\ rows'[q].status = IF q = c THEN "error" ELSE rows[q].status
    BY <2>1, TouchEffect DEF Statuses
  <2>3. SameFiles
    BY <2>2, IdsKeepFiles
  <2>4. Stuck'
    BY <1>1, <1>2, <2>2, <2>3, StuckStays
  <2>5. AtHand' /\ pc' \notin Handling
    BY <2>1 DEF AtHand, Handling
  <2>6. \A r \in DOMAIN rows : r # c /\ Waits(r) => Waits(r)'
    <3>1. \A r \in DOMAIN rows : r # 0
      BY Tables
    <3> QED
      BY <1>2, <2>1, <2>2, <3>1 DEF Waits
  <2>7. ASSUME NEW i \in DOMAIN want, ~want'[i].cut, ~Sends(rows[cur], i), Waiting(i)
        PROVE  Waiting(i)'
    BY <1>2, <2>3, <2>6, <2>7, WaitsStay
  <2> QED
    BY <1>1, <2>3, <2>4, <2>5, <2>7, CycleCarries
<1> QED
  BY <1>3, <1>4 DEF Outcome

\* After an upload OneDrive has the content of the file.
LEMMA UploadNewCarries == ASSUME Inv, Placed, Carrying, UploadNew PROVE Carrying'
<1>1. PICK i \in DOMAIN db, id \in Nat \ {0} : Uploaded(i, id)
  BY UploadNewEffect
<1>2. /\ pc = "begun" /\ pc \in Handling /\ Outcome("entries")
      /\ UNCHANGED <<disk, want, fuse, item>>
  BY DEF UploadNew, request, Handling
<1>3. i = FileOf(item.id) /\ i \in DOMAIN want /\ (id \in DOMAIN server => server[id].owner = i)
  BY <1>1, <1>2, UploadReachesOwn
<1>4. PICK w \in File : Put(id, w) /\ w.owner = i /\ w.live /\ w.content = disk[i]
  <2>1. CASE id \in DOMAIN server
    BY <1>1, <1>3, <2>1 DEF Uploaded, Overwritten
  <2>2. CASE id \notin DOMAIN server
    BY <1>1, <2>2 DEF Uploaded
  <2> QED
    BY <2>1, <2>2
<1>5. Steady
  BY <1>2, <1>3, <1>4 DEF Steady, Put
<1>6. Copied(i)'
  <2>1. w.content = want[i].content
    BY <1>1, <1>3, <1>4 DEF Uploaded, Carrying, Contents
  <2> QED
    BY <1>2, <1>4, <2>1 DEF Copied, CopiesOf, Holding, Put
<1>7. ASSUME NEW j \in DOMAIN want, j # i
      PROVE  (Copied(j) => Copied(j)') /\ ~Sends(rows[cur], j)
  <2>1. ~Sends(rows[cur], j)
    BY <1>2, <1>3, <1>7 DEF Sends, Carrying, AtHand
  <2>2. ASSUME Copied(j) PROVE Copied(j)'
    <3>1. PICK s \in DOMAIN server : /\ server[s].live /\ server[s].owner = j
                                     /\ server[s].content = want[j].content
      BY <2>2 DEF Copied, CopiesOf, Holding
    <3>2. s # id
      BY <1>3, <1>7, <3>1
    <3>3. s \in DOMAIN server' /\ server'[s] = server[s]
      BY <1>4, <3>2 DEF Put
    <3> QED
      BY <1>2, <3>1, <3>3 DEF Copied, CopiesOf, Holding
  <2> QED
    BY <2>1, <2>2
<1> QED
  BY <1>2, <1>5, <1>6, <1>7, SentCarries

\* A file is uploaded by its id: no edit is forgotten.
LEMMA UploadChangeCarries == ASSUME Inv, Placed, Carrying, UploadChange PROVE Carrying'
<1>1. PICK i \in DOMAIN db :
         /\ db[i].id = item.id /\ disk[i] # 0
         /\ item.id \in DOMAIN server /\ server[item.id].live
         /\ \E w \in File : Put(item.id, w) /\ Overwritten(w, server[item.id], disk[i], i)
  BY UploadChangeEffect
<1>2. /\ pc = "begun" /\ pc \in Handling /\ Outcome("answered")
      /\ UNCHANGED <<disk, want, fuse, item>>
  BY DEF UploadChange, request, Handling
<1>3. /\ i = FileOf(item.id) /\ FileOf(item.id) = server[item.id].owner
      /\ i \in DOMAIN want
  BY <1>1, OwnerOf, Tables DEF Placed, PlacedEntries
<1>4. PICK w \in File : /\ Put(item.id, w) /\ w.owner = i /\ w.live /\ w.content = disk[i]
  BY <1>1, <1>3 DEF Overwritten
<1>5. Steady
  BY <1>1, <1>2, <1>3, <1>4 DEF Steady, Put
<1>6. Copied(i)'
  <2>1. w.content = want[i].content
    BY <1>1, <1>3, <1>4 DEF Carrying, Contents
  <2> QED
    BY <1>2, <1>4, <2>1 DEF Copied, CopiesOf, Holding, Put
<1>7. ASSUME NEW j \in DOMAIN want, j # i
      PROVE  (Copied(j) => Copied(j)') /\ ~Sends(rows[cur], j)
  <2>1. ~Sends(rows[cur], j)
    BY <1>2, <1>3, <1>7 DEF Sends, Carrying, AtHand
  <2>2. ASSUME Copied(j) PROVE Copied(j)'
    <3>1. PICK s \in DOMAIN server : /\ server[s].live /\ server[s].owner = j
                                     /\ server[s].content = want[j].content
      BY <2>2 DEF Copied, CopiesOf, Holding
    <3>2. s # item.id
      BY <1>3, <1>7, <3>1
    <3>3. s \in DOMAIN server' /\ server'[s] = server[s]
      BY <1>4, <3>2 DEF Put
    <3> QED
      BY <1>2, <3>1, <3>3 DEF Copied, CopiesOf, Holding
  <2> QED
    BY <2>1, <2>2
<1> QED
  BY <1>2, <1>5, <1>6, <1>7, SentCarries

\* A row that deletes or relocates sends no content.
LEMMA OthersSendNothing ==
    ASSUME Carrying, pc = "begun", item.op \notin {"create", "update"}
    PROVE  \A i : ~Sends(rows[cur], i)
BY DEF Carrying, AtHand, Sends, Handling

\* Only the copies of a file the user deleted are deleted.
LEMMA DeletesGone ==
    ASSUME Inv, Placed, Carrying, DeleteOnServer, NEW s \in DOMAIN server,
           server'[s].live # server[s].live
    PROVE  ~want[server[s].owner].live
<1>1. item.op = "delete" /\ pc \in Handling
  BY DEF DeleteOnServer, Handling
<1>2. PICK i \in DOMAIN db : db[i].id = item.id /\ server[s].at = db[i].path
  BY DeleteEffect
<1>3. PICK f : f = FileOf(item.id) /\ f \in DOMAIN want
  BY <1>1, AtRow
<1>4. server[s].at \in want[f].been
  BY <1>2, <1>3 DEF Placed, PlacedEntries, Been
<1>5. server[s].at \in want[server[s].owner].been /\ server[s].owner \in DOMAIN want
  BY DEF Placed, PlacedFiles, Inv, SoundFiles
<1>6. server[s].owner = f
  BY <1>3, <1>4, <1>5 DEF Placed, PlacedFiles
<1>7. Gone(item)
  BY <1>1 DEF Carrying, Deletions
<1> QED
  BY <1>1, <1>3, <1>6, <1>7 DEF Gone

\* A file is deleted by its path: no edit is forgotten.
LEMMA DeleteOnServerCarries == ASSUME Inv, Placed, Carrying, DeleteOnServer PROVE Carrying'
<1>1. /\ pc = "begun" /\ Outcome("answered") /\ item.op = "delete"
      /\ UNCHANGED <<disk, want, fuse, item>>
  BY DEF DeleteOnServer, request
<1>2. /\ DOMAIN server' = DOMAIN server
      /\ \A s \in DOMAIN server : InPlace(s)
  BY DeleteEffect
<1>3. Steady
  BY <1>1, <1>2 DEF Steady, InPlace
<1>4. ASSUME NEW i \in DOMAIN want, want[i].live, Copied(i) PROVE Copied(i)'
  <2>1. PICK s \in DOMAIN server : /\ server[s].live /\ server[s].owner = i
                                   /\ server[s].content = want[i].content
    BY <1>4 DEF Copied, CopiesOf, Holding
  <2>2. server'[s].live
    BY <1>4, <2>1, DeletesGone
  <2> QED
    BY <1>1, <1>2, <2>1, <2>2 DEF Copied, CopiesOf, Holding, InPlace
<1> QED
  BY <1>1, <1>3, <1>4, OthersSendNothing, SentCarries

\* A file is moved or renamed by its id: no edit is forgotten.
LEMMA RelocateCarries == ASSUME Inv, Carrying, Relocate PROVE Carrying'
<1>1. /\ pc = "begun" /\ Outcome("answered") /\ item.op \notin {"create", "update"}
      /\ UNCHANGED <<disk, want, fuse, item>>
  BY DEF Relocate, request
<1>2. /\ DOMAIN server' = DOMAIN server
      /\ \A s \in DOMAIN server : InPlace(s) /\ server'[s].live = server[s].live
  BY RelocateEffect
<1>3. Steady
  BY <1>1, <1>2 DEF Steady, InPlace
<1>4. ASSUME NEW i \in DOMAIN want, Copied(i) PROVE Copied(i)'
  BY <1>1, <1>2, <1>4 DEF Copied, CopiesOf, Holding, InPlace
<1> QED
  BY <1>1, <1>3, <1>4, OthersSendNothing, SentCarries

\* Nothing happens: no edit is forgotten.
LEMMA StutterCarries == ASSUME Inv, Carrying, UNCHANGED vars PROVE Carrying'
<1>1. UNCHANGED <<server, rows, disk, want, fuse, pc, cur, item>>
  BY DEF vars, request, cycle
<1> QED
  BY <1>1, SameFades, RestCarries DEF Carrying

\* No step forgets an edit where ids and places agree.
LEMMA CarryingNext == ASSUME Inv, Placed, Carrying, [Next]_vars PROVE Carrying'
<1>1. CASE User
  BY <1>1, CreateCarries, RenameCarries, WriteCarries, ReleaseCarries, UnlinkCarries,
     ReplaceCarries DEF User
<1>2. CASE Request
  BY <1>2, FuseSelectCarries, FuseUpdateCarries, FuseInsertCarries, FuseRereadCarries,
     FuseMarkCarries, FuseRowCarries, FuseRowFailsCarries DEF Request
<1>3. CASE Handle
  BY <1>3, HandlerPanicsCarries, HandlerRefusedCarries, HandlerFailsCarries, UploadNewCarries,
     RewriteEntryCarries, RewriteRowsCarries, GetItemCarries, UploadChangeCarries,
     DeleteOnServerCarries, RelocateCarries, StoreAnswerCarries, RowAnsweredCarries,
     FinishRowCarries DEF Handle
<1>4. CASE Cycle
  BY <1>3, <1>4, StartCarries, SquashDoneCarries, FinishCarries, SquashCarries,
     SquashStopsCarries, BeginCarries, SetConflictedCarries DEF Cycle
<1> QED
  BY <1>1, <1>2, <1>4, TimePassesCarries, CrashCarries, StutterCarries DEF Next

\* At the start OneDrive has the content of every file.
LEMMA CarryingAtFirst == ASSUME Init PROVE Carrying
<1>1. PICK place \in [1..Synced -> Place] :
         /\ \A i, j \in 1..Synced : i # j => place[i] # place[j]
         /\ server = [i \in 1..Synced |-> Made(place[i], 1, i, 0)]
         /\ db = [i \in 1..Synced |-> At(i, place[i])]
         /\ want = [i \in 1..Synced |-> Wanted(place[i], 1)]
         /\ disk = [i \in 1..Synced |-> 1]
  BY InitTables
<1>2. DOMAIN server = 1..Synced /\ DOMAIN want = 1..Synced
  BY <1>1
<1>3. ASSUME NEW i \in 1..Synced
      PROVE  /\ server[i].owner = i /\ server[i].live /\ server[i].content = 1
             /\ want[i].content = 1 /\ disk[i] = 1
  <2>1. PICK p \in Place : p = place[i]
    OBVIOUS
  <2>2. server[i] = Made(p, 1, i, 0) /\ want[i] = Wanted(p, 1) /\ disk[i] = 1
    BY <1>1, <2>1
  <2>3. server[i].owner = i /\ server[i].live /\ server[i].content = 1
    BY <2>2 DEF Made
  <2>4. want[i].content = 1
    BY <2>2 DEF Wanted
  <2> QED
    BY <2>2, <2>3, <2>4
<1>4. rows = << >> /\ fuse.rows = << >> /\ fuse.pc = "idle" /\ pc = "idle"
  BY IdleFacts DEF Init
<1>5. DOMAIN rows = {} /\ DOMAIN fuse.rows = {}
  BY <1>4
<1>6. Deletions /\ Stuck /\ AtHand /\ Storing
  BY <1>4, <1>5 DEF Deletions, Stuck, AtHand, Storing, Handling
<1>7. Contents
  BY <1>2, <1>3 DEF Contents
<1>8. \A i \in DOMAIN want : Kept(i)
  BY <1>2, <1>3 DEF Kept, Copied, CopiesOf, Holding
<1> QED
  BY <1>6, <1>7, <1>8 DEF Carrying

\* Where no name is used again and until a file strays, the invariants hold.
LEMMA SettledAlways == Spec => []Settled
<1>1. Init => Settled
  BY PlacedAtFirst, CarryingAtFirst DEF Settled
<1>2. Inv /\ Settled /\ [Next]_vars => Settled'
  BY StrayedStays, PlacedNext, CarryingNext DEF Settled
<1> QED
  BY <1>1, <1>2, Invariance, PTL DEF Spec

\* Whatever fails and whenever the process dies: where no name is used again and
\* no file has strayed, a file the user has is on OneDrive with its content, or
\* one of its rows waits or is processed, or a request about it is at work, or
\* what would have sent it was cut short.
THEOREM EditsAreRecorded == ASSUME ~Reuse PROVE Spec => []EditsRecorded
<1>1. ASSUME Inv, Carrying PROVE EditsRecorded
  <2>1. SUFFICES ASSUME NEW i \in DOMAIN want, want[i].live
                 PROVE  Recorded(i) \/ \E s \in CopiesOf(i) : server[s].content = want[i].content
    BY DEF EditsRecorded
  <2>2. want[i].cut \/ Waiting(i) \/ Asked(i) \/ Copied(i)
    BY <1>1, <2>1 DEF Carrying, Kept
  <2>3. Waiting(i) => Pending(i)
    BY DEF Waiting, Waits, Sends, Pending
  <2>4. Asked(i) => fuse.pc \notin {"idle", "dead"}
    BY <1>1, NothingAsked DEF Asking
  <2> QED
    BY <2>2, <2>3, <2>4 DEF Recorded, Copied
<1>2. Inv /\ Settled => EditsRecorded
  BY <1>1 DEF Settled, EditsRecorded
<1> QED
  BY <1>2, Invariance, SettledAlways, PTL

\* A step makes a file of OneDrive disappear only if it was the user who deleted
\* it, though the request names a path and not a file.
LEMMA DeletesNext ==
    ASSUME Inv, Placed, Carrying, [Next]_vars, NEW s \in Holding, ~server'[s].live
    PROVE  ~want[server[s].owner].live
<1>1. s \in DOMAIN server /\ server[s].live
  BY DEF Holding
<1>2. CASE DeleteOnServer
  BY <1>1, <1>2, DeletesGone
<1>3. ~UploadNew
  <2>1. SUFFICES ASSUME UploadNew PROVE server'[s].live
    OBVIOUS
  <2>2. PICK i \in DOMAIN db, id \in Nat \ {0} : Uploaded(i, id)
    BY <2>1, UploadNewEffect
  <2> QED
    BY <1>1, <2>2 DEF Uploaded, Put, Overwritten
<1>4. ~UploadChange
  <2>1. SUFFICES ASSUME UploadChange PROVE server'[s].live
    OBVIOUS
  <2> QED
    BY <1>1, <2>1, UploadChangeEffect DEF Put, Overwritten
<1>5. ~Relocate
  BY <1>1, RelocateEffect
<1>6. ~UNCHANGED server
  BY <1>1
<1> QED
  BY <1>2, <1>3, <1>4, <1>5, <1>6, ServerSteps

\* Where no name is used again and no file has strayed, no step of the daemon
\* deletes a file on OneDrive that the user has not deleted.
THEOREM OnlyUnlinkedDeleted == ASSUME ~Reuse PROVE Spec => DeletesOnlyUnlinked
<1>1. Inv /\ Settled /\ [Next]_vars =>
         Strayed \/ \A s \in Holding : ~server'[s].live => ~want[server[s].owner].live
  BY DeletesNext DEF Settled
<1> QED
  BY <1>1, Invariance, SettledAlways, PTL DEF Spec, DeletesOnlyUnlinked

-----------------------------------------------------------------------------
(***************************************************************************)
(* One copy of a file.  While nothing fails and nobody kills the process,  *)
(* a file without a copy has at most one row to create it, in the table or *)
(* about to be stored, and a file that has a copy has none, but for the    *)
(* steps between the upload and the replacement of its id in the rows.     *)
(***************************************************************************)
Unharmed == faults = 0 /\ crashes = 0

\* The row creates a file.
Creates(row) == row.op = "create" /\ row.status # "gone"

\* The steps at which a row to create has its file already, under the old id and
\* under the new one.
Renewing == {"entries", "rows"}
Renewed == {"get", "answered", "stored", "closing"}

\* The files that have a copy.
Owners == {server[s].owner : s \in Holding}

\* An entry with a temporary id and content is the one the id was made for.
OwnInode == \A i \in DOMAIN db : db[i].id < 0 /\ disk[i] # 0 => db[i].id = -i

CreateRows ==
    /\ \A r, s \in DOMAIN rows :
          Creates(rows[r]) /\ Creates(rows[s]) /\ rows[r].id = rows[s].id => r = s
    /\ \A r \in DOMAIN rows : Creates(rows[r]) =>
          \/ rows[r].id < 0 /\ -rows[r].id \notin Owners
          \/ rows[r].id < 0 /\ r = cur /\ pc \in Renewing
          \/ r = cur /\ pc \in Renewed
CreateAsked ==
    \A k \in DOMAIN fuse.rows : fuse.rows[k].op = "create" =>
        /\ fuse.pc = "row" /\ DOMAIN fuse.rows = {k}
        /\ fuse.rows[k].id < 0 /\ -fuse.rows[k].id \notin Owners
        /\ \A r \in DOMAIN rows : Creates(rows[r]) => rows[r].id # fuse.rows[k].id
\* Nobody has the id that OneDrive has given.
Fresh == ~Known(answer.id) /\ (fuse.pc \in Asking => fuse.entry.id # answer.id)
CreateAtHand ==
    /\ pc \in Renewing \union {"begun"} =>
          rows[cur].id = item.id /\ rows[cur].op = item.op /\ rows[cur].status = "processing"
    /\ pc \in Renewing \union {"get"} => item.op = "create"
    /\ pc \in {"answered", "stored"} /\ item.op = "create" => answer.id > 0
    /\ pc = "entries" => -item.id \notin Owners \/ Fresh

Single == OneCopy /\ OwnInode /\ CreateRows /\ CreateAsked /\ CreateAtHand

\* No file is on OneDrive that was not, and no row creates that did not.
NoMoreCopies == \A s \in Holding' : s \in Holding /\ server'[s].owner = server[s].owner
NoMoreCreates ==
    \A r \in DOMAIN rows' : Creates(rows'[r]) =>
        r \in DOMAIN rows /\ Creates(rows[r]) /\ rows'[r].id = rows[r].id

\* Then there is no second copy, and no new owner.
LEMMA CopiesStay ==
    ASSUME NoMoreCopies
    PROVE  /\ OneCopy => OneCopy'
           /\ Owners' \subseteq Owners
BY DEF NoMoreCopies, OneCopy, Owners

\* While OneDrive is left alone there are no more copies.
LEMMA SameCopies == ASSUME UNCHANGED server PROVE NoMoreCopies
BY DEF NoMoreCopies, Holding

\* ... and while the rows are left alone, no more that create.
LEMMA SameCreates == ASSUME UNCHANGED rows PROVE NoMoreCreates
BY DEF NoMoreCreates

\* Where there are no more copies and rows, the rows keep what they have.
LEMMA CreateRowsStay ==
    ASSUME CreateRows, NoMoreCopies, NoMoreCreates,
           Creates(rows'[cur]) =>
              \/ UNCHANGED <<pc, cur>>
              \/ pc \notin Renewing \union Renewed
              \/ pc \in Renewed /\ pc' \in Renewed /\ cur' = cur
    PROVE  CreateRows'
<1>1. ASSUME NEW r \in DOMAIN rows', Creates(rows'[r])
      PROVE  \/ rows'[r].id < 0 /\ -rows'[r].id \notin Owners'
             \/ rows'[r].id < 0 /\ r = cur' /\ pc' \in Renewing
             \/ r = cur' /\ pc' \in Renewed
  <2>1. r \in DOMAIN rows /\ Creates(rows[r]) /\ rows'[r].id = rows[r].id
    BY <1>1 DEF NoMoreCreates
  <2>2. CASE rows[r].id < 0 /\ -rows[r].id \notin Owners
    BY <2>1, <2>2, CopiesStay
  <2>3. CASE r = cur /\ pc \in Renewing \union Renewed
    BY <1>1, <2>1, <2>3 DEF CreateRows, Renewing, Renewed
  <2> QED BY <2>1, <2>2, <2>3 DEF CreateRows
<1>2. ASSUME NEW r \in DOMAIN rows', NEW s \in DOMAIN rows', Creates(rows'[r]), Creates(rows'[s]),
             rows'[r].id = rows'[s].id
      PROVE  r = s
  BY <1>2 DEF NoMoreCreates, CreateRows
<1> QED BY ONLY <1>1, <1>2 DEF CreateRows, Creates

\* ... and so does the request.
LEMMA CreateAskedStays ==
    ASSUME CreateAsked, NoMoreCopies, NoMoreCreates, UNCHANGED fuse
    PROVE  CreateAsked'
BY CopiesStay DEF CreateAsked, NoMoreCreates

\* A step of the cycle without more copies or rows to create.
LEMMA CycleSingle ==
    ASSUME Single, NoMoreCopies, NoMoreCreates, UNCHANGED fuse, OwnInode', CreateAtHand',
           Creates(rows'[cur]) =>
              \/ UNCHANGED <<pc, cur>>
              \/ pc \notin Renewing \union Renewed
              \/ pc \in Renewed /\ pc' \in Renewed /\ cur' = cur
    PROVE  Single'
BY CopiesStay, CreateRowsStay, CreateAskedStays DEF Single

\* Entries that keep their ids, and new ones without content that have an id in use.
SameIds ==
    \A i \in DOMAIN db' :
        \/ i \in DOMAIN db /\ db'[i].id = db[i].id /\ (disk'[i] # 0 => disk[i] # 0)
        \/ disk'[i] = 0 /\ fuse.pc \in Asking /\ db'[i].id = fuse.entry.id

\* Entries that keep their ids stay those of their inodes.
LEMMA InodesStay == ASSUME OwnInode, SameIds PROVE OwnInode'
BY DEF OwnInode, SameIds

\* What the cycle holds is left alone.
LEMMA CreateHandStays ==
    ASSUME CreateAtHand, UNCHANGED <<server, rows, cycle>>, pc = "entries" /\ Fresh => Fresh'
    PROVE  CreateAtHand'
<1>1. Owners' = Owners
  BY DEF Owners, Holding
<1>2. UNCHANGED <<pc, cur, item, answer>>
  BY DEF cycle
<1> QED BY <1>1, <1>2 DEF CreateAtHand

\* A step of a request that inserts no row and asks for none that creates.
LEMMA AskedSingle ==
    ASSUME Single, NEW p, NEW e, NEW R,
           fuse' = [pc |-> p, entry |-> e, rows |-> R],
           \A k \in DOMAIN R : R[k].op # "create",
           \/ \E i \in DOMAIN db : e.id = db[i].id
           \/ fuse.pc \in Asking /\ e.id = fuse.entry.id
           \/ p \notin Asking,
           SameIds, UNCHANGED <<server, rows, cycle>>
    PROVE  Single'
<1>1. fuse'.pc = p /\ fuse'.entry = e /\ fuse'.rows = R
  OBVIOUS
<1>2. CreateAsked'
  BY <1>1 DEF CreateAsked
<1>3. Fresh => Fresh'
  <2>1. answer' = answer
    BY DEF cycle
  <2> QED BY <1>1, <2>1 DEF Fresh, Known, SameIds
<1>4. CreateAtHand'
  <2>1. CreateAtHand
    BY DEF Single
  <2> QED BY ONLY <1>3, <2>1, CreateHandStays, UNCHANGED <<server, rows, cycle>>
<1>5. CreateRows' /\ OneCopy'
  BY SameCopies, SameCreates, CopiesStay, CreateRowsStay DEF Single, cycle
<1> QED BY <1>2, <1>4, <1>5, InodesStay DEF Single

\* A new file has no copy, and no row is about it.
LEMMA CreateSingle == ASSUME Inv, Single, NEW p \in Place, Create(p) PROVE Single'
<1> DEFINE n == Len(db) + 1
<1>1. PICK e \in Entry : e = At(-n, p) /\ e.id = -n
  BY AtFacts, Tables
<1>2. PICK row \in Row : row = NewRow(e, "create") /\ row.id = -n /\ row.op = "create"
  BY <1>1, NewRowFacts DEF Operations
<1>3. fuse' = [pc |-> "row", entry |-> e, rows |-> <<row>>] /\ UNCHANGED <<server, rows, cycle>>
  BY <1>1, <1>2 DEF Create
<1>4. /\ fuse'.pc = "row" /\ fuse'.entry = e /\ fuse'.rows = <<row>>
      /\ DOMAIN fuse'.rows = {1} /\ fuse'.rows[1] = row
  BY <1>3, OneRow
<1>5. \A i \in DOMAIN db' : \/ i \in DOMAIN db /\ db'[i].id = db[i].id /\ disk'[i] = disk[i]
                            \/ i = n /\ db'[i].id = -n
  <2>1. PICK w \in Wish : w = Wanted(p, ops + 2)
    <3>1. p \in Place /\ ops + 2 \in Nat
      BY PermittedOps DEF Create
    <3> QED BY <3>1 DEF Wanted, Wish
  <2>2. Insert(e, ops + 2, w) /\ ops + 2 \in Nat
    BY <1>1, <2>1, PermittedOps DEF Create
  <2> QED BY <1>1, <2>2, InsertEffect
<1>6. n \in Nat /\ n \notin DOMAIN want /\ n \notin DOMAIN db /\ -n < 0 /\ -(-n) = n
  BY Tables
<1>7. OwnInode'
  BY <1>5, <1>6 DEF OwnInode, Single
<1>8. CreateAsked'
  <2>1. n \notin Owners'
    BY <1>3, <1>6 DEF Owners, Holding, Inv, SoundFiles
  <2>2. \A r \in DOMAIN rows : rows[r].id # -n
    BY <1>6 DEF Inv, SoundRows, Sound, IsId
  <2> QED BY <1>2, <1>3, <1>4, <1>6, <2>1, <2>2 DEF CreateAsked
<1>9. pc = "entries" /\ Fresh => Fresh'
  <2>1. pc = "entries" => answer.id \in DOMAIN server /\ answer' = answer
    BY <1>3 DEF Inv, SoundCycle, cycle
  <2>2. \A s \in DOMAIN server : s # -n
    BY <1>6, Tables
  <2> QED BY <1>1, <1>4, <1>5, <2>1, <2>2 DEF Fresh, Known
<1>10. CreateAtHand'
  <2>1. CreateAtHand
    BY DEF Single
  <2> QED BY ONLY <1>3, <1>9, <2>1, CreateHandStays
<1>11. CreateRows' /\ OneCopy'
  BY <1>3, SameCopies, SameCreates, CopiesStay, CreateRowsStay DEF Single, cycle
<1> QED BY <1>7, <1>8, <1>10, <1>11 DEF Single

\* A request for one row that creates nothing.
LEMMA OneAsked ==
    ASSUME NEW row \in Row, row.op # "create"
    PROVE  \E R : R = <<row>> /\ \A k \in DOMAIN R : R[k].op # "create"
<1>1. DOMAIN <<row>> = {1} /\ <<row>>[1] = row
  BY OneRow
<1>2. \A k \in DOMAIN <<row>> : <<row>>[k].op # "create"
  BY <1>1
<1> QED BY <1>2

\* A write changes no id and asks for an Update row.
LEMMA WriteSingle == ASSUME Inv, Single, NEW i \in DOMAIN db, Write(i) PROVE Single'
<1>1. PICK row \in Row : row = NewRow(db[i], "update") /\ row.op = "update"
  BY EntryFacts DEF Operations
<1>2. PICK R : R = <<row>> /\ \A k \in DOMAIN R : R[k].op # "create"
  BY <1>1, OneAsked
<1>3. PICK e : e = db[i]
  OBVIOUS
<1>4. /\ fuse' = [pc |-> "row", entry |-> e, rows |-> R]
      /\ UNCHANGED <<server, db, rows, cycle>>
  BY <1>1, <1>2, <1>3 DEF Write
<1>5. SameIds
  BY <1>4, WriteEffect DEF Write, SameIds
<1> QED BY <1>2, <1>3, <1>4, <1>5, AskedSingle

\* A release asks for the entry to be stored and for no row.
LEMMA ReleaseSingle == ASSUME Inv, Single, NEW i \in DOMAIN db, Release(i) PROVE Single'
<1>1. PICK e, R : e = db[i] /\ R = << >>
  OBVIOUS
<1>2. /\ fuse' = [pc |-> "select", entry |-> e, rows |-> R]
      /\ UNCHANGED <<server, db, disk, rows, cycle>>
  BY <1>1 DEF Release
<1>3. SameIds
  BY <1>2 DEF SameIds
<1> QED BY <1>1, <1>2, <1>3, AskedSingle

\* A rename asks for a Rename or a Move row.
LEMMA RenameSingle ==
    ASSUME Inv, Single, NEW i \in DOMAIN db, NEW p \in Place, Rename(i, p) PROVE Single'
<1>1. PICK op \in {"rename", "move"} : op = IF p.dir = db[i].at.dir THEN "rename" ELSE "move"
  OBVIOUS
<1>2. PICK row \in Row : row = NewRow(db[i], op) /\ row.op = op
  BY EntryFacts DEF Operations
<1>3. PICK R : R = <<row>> /\ \A k \in DOMAIN R : R[k].op # "create"
  BY <1>2, OneAsked
<1>4. PICK e : e = [db[i] EXCEPT !.at = p] /\ e.id = db[i].id
  <2>1. PICK d \in Entry : d = db[i]
    BY EntryFacts
  <2> QED BY <2>1, EntryChanged
<1>5. /\ fuse' = [pc |-> "select", entry |-> e, rows |-> R]
      /\ UNCHANGED <<server, db, disk, rows, cycle>>
  BY <1>1, <1>2, <1>3, <1>4 DEF Rename
<1>6. SameIds
  BY <1>5 DEF SameIds
<1> QED BY <1>3, <1>4, <1>5, <1>6, AskedSingle

\* An unlink asks for a Delete row.
LEMMA UnlinkSingle == ASSUME Inv, Single, NEW i \in DOMAIN db, Unlink(i) PROVE Single'
<1>1. PICK row \in Row : row = NewRow(db[i], "delete") /\ row.op = "delete"
  BY EntryFacts DEF Operations
<1>2. PICK R : R = <<row>> /\ \A k \in DOMAIN R : R[k].op # "create"
  BY <1>1, OneAsked
<1>3. PICK e : e = [db[i] EXCEPT !.deleted = TRUE] /\ e.id = db[i].id
  BY EntryFacts, EntryChanged
<1>4. /\ fuse' = [pc |-> "select", entry |-> e, rows |-> R]
      /\ UNCHANGED <<server, db, disk, rows, cycle>>
  BY <1>1, <1>2, <1>3 DEF Unlink
<1>5. SameIds
  BY <1>4 DEF SameIds
<1> QED BY <1>2, <1>3, <1>4, <1>5, AskedSingle

\* A replacement asks for two Delete rows and an Update row.
LEMMA ReplaceSingle ==
    ASSUME Inv, Single, NEW i \in DOMAIN db, NEW j \in DOMAIN db, Replace(i, j) PROVE Single'
<1>1. PICK d \in Row, u \in Row : /\ d = NewRow(db[i], "delete") /\ d.op = "delete"
                                  /\ u = NewRow(db[j], "update") /\ u.op = "update"
  BY EntryFacts DEF Operations
<1>2. PICK R : R = <<d, d, u>> /\ \A k \in DOMAIN R : R[k].op # "create"
  <2>1. \A k \in DOMAIN <<d, d, u>> : <<d, d, u>>[k] = d \/ <<d, d, u>>[k] = u
    OBVIOUS
  <2> QED BY <1>1, <2>1
<1>3. PICK e : e = db[i]
  OBVIOUS
<1>4. /\ fuse' = [pc |-> "mark", entry |-> e, rows |-> R]
      /\ UNCHANGED <<server, db, rows, cycle>>
  BY <1>1, <1>2, <1>3 DEF Replace
<1>5. SameIds
  <2>1. db' = db /\ disk[i] # 0 /\ disk[j] # 0
    BY <1>4 DEF Replace
  <2>2. \A k \in DOMAIN db : disk'[k] # 0 => disk[k] # 0
    BY <2>1, ReplaceEffect
  <2> QED BY <2>1, <2>2 DEF SameIds
<1> QED BY <1>2, <1>3, <1>4, <1>5, AskedSingle

\* Before its rows are inserted a request creates nothing.
LEMMA NothingCreated ==
    ASSUME Single, fuse.pc # "row"
    PROVE  \A k \in DOMAIN fuse.rows : fuse.rows[k].op # "create"
BY DEF Single, CreateAsked

\* The request looks an id up.
LEMMA FuseSelectSingle == ASSUME Inv, Single, FuseSelect PROVE Single'
<1>1. PICK p \in {"update", "insert"} : p = IF Known(fuse.entry.id) THEN "update" ELSE "insert"
  OBVIOUS
<1>2. PICK e, R : e = fuse.entry /\ R = fuse.rows
  OBVIOUS
<1>3. fuse' = [pc |-> p, entry |-> e, rows |-> R]
  BY <1>1, <1>2, RequestFields DEF FuseSelect, Asking
<1>4. fuse.pc = "select" /\ UNCHANGED <<server, db, disk, rows, cycle>>
  BY DEF FuseSelect
<1>5. SameIds
  BY <1>4 DEF SameIds
<1> QED BY <1>2, <1>3, <1>4, <1>5, NothingCreated, AskedSingle DEF Asking

\* The store of an entry is followed by the rest of its request.
LEMMA StoredSingle ==
    ASSUME Inv, Single, fuse.pc \in {"update", "insert"}, fuse' = AfterStore,
           SameIds, UNCHANGED <<server, rows, cycle>>
    PROVE  Single'
<1>1. PICK e, R : e = fuse.entry /\ R = fuse.rows
  OBVIOUS
<1>2. \A k \in DOMAIN R : R[k].op # "create"
  BY <1>1, NothingCreated
<1>3. CASE AfterStore = Idle
  <2>1. PICK S : S = << >>
    OBVIOUS
  <2>2. fuse' = [pc |-> "idle", entry |-> NoEntry, rows |-> S] /\ "idle" \notin Asking
    BY <1>3, <2>1 DEF Idle, Asking
  <2> QED BY <2>1, <2>2, AskedSingle
<1>4. CASE \E p \in {"reread", "row"} : AfterStore = [pc |-> p, entry |-> e, rows |-> R]
  BY <1>1, <1>2, <1>4, AskedSingle DEF Asking
<1> QED BY <1>1, <1>3, <1>4, AfterStoreFacts

\* The stored entry has the id of the one it replaces.
LEMMA FuseUpdateSingle == ASSUME Inv, Single, FuseUpdate PROVE Single'
<1>1. /\ fuse.pc = "update" /\ fuse' = AfterStore
      /\ db' = Update(fuse.entry) /\ UNCHANGED <<server, disk, rows, cycle>>
  BY DEF FuseUpdate
<1>2. SameIds
  BY <1>1, RequestFields, UpdateEffect DEF SameIds
<1> QED BY <1>1, <1>2, StoredSingle

\* The stored entry gets a new inode without content.
LEMMA FuseInsertSingle == ASSUME Inv, Single, FuseInsert PROVE Single'
<1>1. /\ fuse.pc = "insert" /\ fuse' = AfterStore
      /\ Insert(fuse.entry, 0, Ghost) /\ UNCHANGED <<server, rows, cycle>>
  BY DEF FuseInsert
<1>2. SameIds
  <2>1. /\ DOMAIN db' = DOMAIN db \union {Len(db) + 1}
        /\ \A i \in DOMAIN db : db'[i] = db[i] /\ disk'[i] = disk[i]
        /\ db'[Len(db) + 1] = fuse.entry /\ disk'[Len(db) + 1] = 0
    BY <1>1, RequestFields, NothingIsTyped, InsertEffect
  <2> QED BY <1>1, <2>1 DEF SameIds, Asking
<1> QED BY <1>1, <1>2, StoredSingle

\* The source of a replacement is deleted and keeps its id.
LEMMA FuseMarkSingle == ASSUME Inv, Single, FuseMark PROVE Single'
<1>1. PICK e, R : e = fuse.entry /\ R = fuse.rows
  OBVIOUS
<1>2. fuse' = [pc |-> "row", entry |-> e, rows |-> R]
  BY <1>1, RequestFields DEF FuseMark, Asking
<1>3. fuse.pc = "mark" /\ UNCHANGED <<server, disk, rows, cycle>>
  BY DEF FuseMark
<1>4. SameIds
  <2>1. ASSUME NEW i \in DOMAIN db' PROVE i \in DOMAIN db /\ db'[i].id = db[i].id
    <3>1. PICK d \in Entry : i \in DOMAIN db /\ d = db[i]
      BY Tables DEF FuseMark
    <3>2. db'[i] = [d EXCEPT !.deleted = TRUE] \/ db'[i] = d
      BY <3>1 DEF FuseMark
    <3>3. [d EXCEPT !.deleted = TRUE].id = d.id
      BY EntryChanged
    <3> QED BY <3>1, <3>2, <3>3
  <2> QED BY <1>3, <2>1 DEF SameIds
<1> QED BY <1>1, <1>2, <1>3, <1>4, NothingCreated, AskedSingle DEF Asking

\* A rename reads its entry again for a row that creates nothing.
LEMMA FuseRereadSingle == ASSUME Inv, Single, FuseReread PROVE Single'
<1>1. fuse.pc = "reread" /\ UNCHANGED <<server, db, disk, rows, cycle>>
  BY DEF FuseReread
<1>2. SameIds
  BY <1>1 DEF SameIds
<1>3. ASSUME NEW i \in DOMAIN db,
             fuse' = [pc |-> "row", entry |-> db[i], rows |-> <<NewRow(db[i], Head(fuse.rows).op)>>]
      PROVE  Single'
  <2>1. Head(fuse.rows) \in Row /\ Head(fuse.rows).op # "create"
    <3>1. fuse.rows # << >> /\ fuse.rows \in Seq(Row)
      BY <1>1, RequestFields DEF Inv, SoundRequest
    <3>2. 1 \in DOMAIN fuse.rows /\ Head(fuse.rows) = fuse.rows[1] /\ fuse.rows[1] \in Row
      BY <3>1
    <3> QED BY <1>1, <3>2, NothingCreated
  <2>2. PICK op \in Operations : op = Head(fuse.rows).op
    BY <2>1 DEF Row, Operations
  <2>3. PICK row \in Row : row = NewRow(db[i], op) /\ row.op = op
    BY EntryFacts
  <2>4. PICK R : R = <<row>> /\ \A k \in DOMAIN R : R[k].op # "create"
    BY <2>1, <2>2, <2>3, OneAsked
  <2>5. PICK e : e = db[i]
    OBVIOUS
  <2>6. fuse' = [pc |-> "row", entry |-> e, rows |-> R]
    BY <1>3, <2>2, <2>3, <2>4, <2>5
  <2> QED BY <1>1, <1>2, <2>4, <2>5, <2>6, AskedSingle
<1>4. ASSUME fuse' = [Idle EXCEPT !.pc = "dead"] PROVE Single'
  <2>1. PICK S : S = << >>
    OBVIOUS
  <2>2. fuse' = [pc |-> "dead", entry |-> NoEntry, rows |-> S] /\ "dead" \notin Asking
    BY <1>4, <2>1 DEF Idle, Asking
  <2> QED BY <1>1, <1>2, <2>1, <2>2, AskedSingle
<1> QED BY <1>3, <1>4 DEF FuseReread

\* The row of a new file is the only one its request asks for.
LEMMA FuseRowSingle == ASSUME Inv, Single, FuseRow PROVE Single'
<1>1. /\ fuse.pc = "row" /\ rows' = Append(rows, Head(fuse.rows)) /\ fuse' = RowLeft
      /\ UNCHANGED <<server, db, disk, cycle>>
  BY DEF FuseRow
<1>2. PICK row \in Row, k \in DOMAIN fuse.rows : row = Head(fuse.rows) /\ row = fuse.rows[k]
  BY <1>1, RowLeftFacts
<1>3. /\ Len(rows) + 1 \notin DOMAIN rows
      /\ DOMAIN rows' = DOMAIN rows \union {Len(rows) + 1}
      /\ rows'[Len(rows) + 1] = row /\ \A r \in DOMAIN rows : rows'[r] = rows[r]
  BY <1>1, <1>2, AppendRow
<1>4. Owners' = Owners /\ UNCHANGED <<pc, cur, item, answer>>
  BY <1>1 DEF Owners, Holding, cycle
<1>5. \/ fuse' = Idle /\ \A m \in DOMAIN fuse.rows : fuse.rows[m] = row
      \/ \E R \in Seq(Row) :
            /\ fuse' = [pc |-> "row", entry |-> fuse.entry, rows |-> R]
            /\ \A m \in DOMAIN R : \E n \in DOMAIN fuse.rows : R[m] = fuse.rows[n]
            /\ R # << >> /\ R = Tail(fuse.rows)
  BY <1>1, <1>2, RowLeftFacts
<1>6. CreateAsked'
  <2>1. CASE fuse' = Idle
    BY <2>1, IdleFacts DEF CreateAsked
  <2>2. ASSUME NEW R \in Seq(Row), fuse' = [pc |-> "row", entry |-> fuse.entry, rows |-> R],
               \A m \in DOMAIN R : \E n \in DOMAIN fuse.rows : R[m] = fuse.rows[n],
               R # << >>, R = Tail(fuse.rows)
        PROVE  CreateAsked'
    <3>1. fuse'.rows = R
      BY <2>2
    <3>2. \A n \in DOMAIN fuse.rows : fuse.rows[n].op # "create"
      <4>1. fuse.rows \in Seq(Row) /\ fuse.rows # << >>
        BY <1>2, RequestFields
      <4>2. 1 \in DOMAIN R /\ 2 \in DOMAIN fuse.rows /\ 1 \in DOMAIN fuse.rows
        BY <2>2, <4>1
      <4> QED BY <4>2 DEF Single, CreateAsked
    <3> QED BY <2>2, <3>1, <3>2 DEF CreateAsked
  <2> QED BY <1>5, <2>1, <2>2
<1>7. CreateRows'
  <2>1. row.op = "create" => /\ row.id < 0 /\ -row.id \notin Owners
                             /\ \A r \in DOMAIN rows : Creates(rows[r]) => rows[r].id # row.id
    BY <1>2 DEF Single, CreateAsked
  <2>2. CreateRows
    BY DEF Single
  <2> QED BY <1>3, <1>4, <2>1, <2>2 DEF CreateRows, Creates
<1>8. CreateAtHand'
  <2>1. CreateAtHand
    BY DEF Single
  <2>2. Fresh => Fresh'
    <3>1. fuse'.pc \in Asking => fuse'.entry = fuse.entry
      BY <1>5, IdleFacts DEF Asking
    <3> QED BY <1>1, <1>4, <3>1 DEF Fresh, Known, Asking
  <2>3. pc \in Renewing \union {"begun"} => cur \in DOMAIN rows /\ rows'[cur] = rows[cur]
    BY <1>3 DEF Inv, SoundCycle, Handling, Renewing
  <2> QED BY <1>4, <2>1, <2>2, <2>3 DEF CreateAtHand
<1>9. OneCopy' /\ OwnInode'
  BY <1>1, SameCopies, CopiesStay DEF Single, OwnInode
<1> QED BY <1>6, <1>7, <1>8, <1>9 DEF Single

\* Whatever the rules make of the rows of an item, one is left to create it.
LEMMA SquashSingle == ASSUME Inv, Single, NEW id \in todo, Squash(id) PROVE Single'
<1> DEFINE rs == RowsOf(id)
<1>1. /\ pc = "squash" /\ Squashed(rs, Surplus(rs))
      /\ UNCHANGED <<server, db, disk, fuse, pc, cur, item, answer>>
  BY DEF Squash, request
<1>2. rs \in SUBSET DOMAIN rows /\ Surplus(rs) \in SUBSET DOMAIN rows
  BY RowsOfFacts
<1>3. /\ DOMAIN rows' = DOMAIN rows
      /\ \A r \in DOMAIN rows :
            /\ rows'[r].id = rows[r].id
            /\ r \in Surplus(rs) => rows'[r].status = "gone"
            /\ r \notin Surplus(rs) => rows'[r].status = rows[r].status
            /\ \/ rows'[r].op = rows[r].op
               \/ /\ rows'[r].op = "create" /\ CreatedAndModified(rs)
                  /\ r \in rs \ Surplus(rs)
  BY <1>1, <1>2, SquashedEffect DEF SameRows
<1>4. CreatedAndModified(rs) => \A r \in rs \ Surplus(rs) : r = Last(rs)
  BY DEF Surplus
<1>5. NoMoreCopies /\ Owners' = Owners
  BY <1>1, SameCopies DEF Owners, Holding
<1>6. OwnInode'
  BY <1>1 DEF OwnInode, Single
<1>7. CreateAtHand'
  BY <1>1 DEF CreateAtHand, Renewing
<1>8. CASE ~CreatedAndModified(rs)
  <2>1. NoMoreCreates
    BY <1>3, <1>8 DEF NoMoreCreates, Creates
  <2> QED BY <1>1, <1>5, <1>6, <1>7, <2>1, CycleSingle
<1>9. CASE CreatedAndModified(rs)
  <2>1. PICK c \in DOMAIN rows : Creates(rows[c]) /\ rows[c].id = id
    BY <1>2, <1>9 DEF CreatedAndModified, OfOp, RowsOf, Creates
  <2>2. id < 0 /\ -id \notin Owners
    BY <1>1, <2>1 DEF Single, CreateRows, Renewing, Renewed
  <2>3. ASSUME NEW r \in DOMAIN rows', Creates(rows'[r])
        PROVE  /\ r \in DOMAIN rows /\ rows'[r].id = rows[r].id
               /\ rows[r].id # id => Creates(rows[r])
               /\ rows[r].id = id => r = Last(rs)
    BY <1>2, <1>3, <1>4, <1>9, <2>3 DEF Creates, RowsOf
  <2>4. CreateRows'
    <3>1. CreateRows
      BY DEF Single
    <3> HIDE DEF rs
    <3>2. ASSUME NEW r \in DOMAIN rows', Creates(rows'[r])
          PROVE  rows'[r].id < 0 /\ -rows'[r].id \notin Owners'
      BY <1>1, <1>5, <2>2, <2>3, <3>1, <3>2 DEF CreateRows, Renewing, Renewed
    <3>3. ASSUME NEW r \in DOMAIN rows', NEW s \in DOMAIN rows', Creates(rows'[r]),
                 Creates(rows'[s]), rows'[r].id = rows'[s].id
          PROVE  r = s
      BY <2>3, <3>1, <3>3 DEF CreateRows
    <3> QED BY ONLY <3>2, <3>3 DEF CreateRows, Creates
  <2>5. CreateAsked'
    <3>1. CreateAsked
      BY DEF Single
    <3> HIDE DEF rs
    <3> QED BY <1>1, <1>5, <2>1, <2>3, <3>1 DEF CreateAsked
  <2>6. OneCopy'
    BY <1>5, CopiesStay DEF Single
  <2> QED BY <1>6, <1>7, <2>4, <2>5, <2>6 DEF Single
<1> QED BY <1>8, <1>9

\* A step of the cycle that leaves OneDrive and the entries alone.
LEMMA QuietSingle ==
    ASSUME Single, NoMoreCreates, UNCHANGED <<server, db, disk, fuse>>, CreateAtHand',
           Creates(rows'[cur]) =>
              \/ UNCHANGED <<pc, cur>>
              \/ pc \notin Renewing \union Renewed
              \/ pc \in Renewed /\ pc' \in Renewed /\ cur' = cur
    PROVE  Single'
BY SameCopies, CycleSingle DEF Single, OwnInode

\* A touched row creates what it did, unless it is done.
LEMMA TouchCreates ==
    ASSUME Inv, NEW r \in DOMAIN rows, NEW status \in Statuses, Touch(r, status),
           status # "gone" => rows[r].status # "gone"
    PROVE  NoMoreCreates
<1>1. /\ DOMAIN rows' = DOMAIN rows
      /\ \A q \in DOMAIN rows :
            /\ rows'[q].id = rows[q].id /\ rows'[q].op = rows[q].op
            /\ rows'[q].status = IF q = r THEN status ELSE rows[q].status
  BY TouchEffect
<1> QED BY <1>1 DEF NoMoreCreates, Creates

\* Between two rows there is nothing to create at hand.
LEMMA EmptyHands ==
    ASSUME pc' \in {"idle", "squash", "loop", "closing"}
    PROVE  CreateAtHand'
BY DEF CreateAtHand, Renewing

\* Five seconds pass.
LEMMA TimePassesSingle == ASSUME Single, TimePasses PROVE Single'
<1>1. UNCHANGED <<server, db, disk, rows, fuse, pc, cur, item, answer>>
  BY DEF TimePasses, request, cycle
<1>2. CreateAtHand'
  BY <1>1 DEF CreateAtHand, Single, Owners, Holding, Fresh, Known
<1> QED BY <1>1, <1>2, SameCreates, QuietSingle

\* The cycle starts.
LEMMA StartSingle == ASSUME Single, Start PROVE Single'
<1>1. UNCHANGED <<server, db, disk, rows, fuse>> /\ pc' = "squash" /\ pc = "idle"
  BY DEF Start, request
<1> QED BY <1>1, SameCreates, EmptyHands, QuietSingle DEF Renewing, Renewed

\* All items are squashed.
LEMMA SquashDoneSingle == ASSUME Single, SquashDone PROVE Single'
<1>1. UNCHANGED <<server, db, disk, rows, fuse>> /\ pc' = "loop" /\ pc = "squash"
  BY DEF SquashDone, request
<1> QED BY <1>1, SameCreates, EmptyHands, QuietSingle DEF Renewing, Renewed

\* The cycle has tried all rows.
LEMMA FinishSingle == ASSUME Single, Finish PROVE Single'
<1>1. UNCHANGED <<server, db, disk, rows, fuse>> /\ pc' = "idle" /\ pc = "loop"
  BY DEF Finish, EndCycle, request
<1> QED BY <1>1, SameCreates, EmptyHands, QuietSingle DEF Renewing, Renewed

\* The task of the cycle dies; the row stays as it is.
LEMMA HandlerPanicsSingle == ASSUME Single, HandlerPanics PROVE Single'
<1>1. UNCHANGED <<server, db, disk, rows, fuse>> /\ pc' = "idle" /\ pc = "begun"
  BY DEF HandlerPanics, EndCycle
<1> QED BY <1>1, SameCreates, EmptyHands, QuietSingle DEF Renewing, Renewed

\* A row is taken up.
LEMMA BeginSingle == ASSUME Inv, Single, NEW r \in DOMAIN rows, Begin(r) PROVE Single'
<1>1. /\ UNCHANGED <<server, db, disk, fuse>> /\ pc = "loop" /\ pc' = "begun"
      /\ Touch(r, "processing") /\ cur' = r /\ item' = rows[r]
      /\ rows[r].status # "gone"
  BY DEF Begin, NextRow, Selectable, request
<1>2. CreateAtHand'
  BY <1>1, TouchEffect DEF CreateAtHand, Renewing, Statuses
<1> QED BY <1>1, <1>2, TouchCreates, QuietSingle DEF Renewing, Renewed, Statuses

\* A row is set aside.
LEMMA SetConflictedSingle ==
    ASSUME Inv, Single, NEW r \in DOMAIN rows, SetConflicted(r) PROVE Single'
<1>1. /\ UNCHANGED <<server, db, disk, fuse, pc>> /\ pc = "loop"
      /\ Touch(r, "conflicted") /\ rows[r].status # "gone"
  BY DEF SetConflicted, NextRow, Selectable, request, cycle
<1> QED BY <1>1, TouchCreates, EmptyHands, QuietSingle DEF Renewing, Renewed, Statuses

\* A row that is refused before its file was sent is tried again.
LEMMA RefusedSingle ==
    ASSUME Inv, Single, pc = "begun", RowError, UNCHANGED <<server, db, disk, fuse>>
    PROVE  Single'
<1>1. PICK r \in DOMAIN rows : r = cur
  BY AtRow DEF Handling
<1>2. Touch(r, "error") /\ pc' = "loop"
  BY <1>1 DEF RowError
<1>3. rows[r].status # "gone"
  BY <1>1 DEF Single, CreateAtHand
<1> QED BY <1>2, <1>3, TouchCreates, EmptyHands, QuietSingle DEF Renewing, Renewed, Statuses

\* There is nothing to send, or the server refuses.
LEMMA HandlerRefusedSingle == ASSUME Inv, Single, HandlerRefused PROVE Single'
BY RefusedSingle DEF HandlerRefused, request

\* The uploaded item is read back under its id.
LEMMA GetItemSingle == ASSUME Inv, Single, GetItem PROVE Single'
<1>1. /\ UNCHANGED <<server, db, disk, rows, fuse, cur, item>>
      /\ pc = "get" /\ pc' \in {"answered", "closing"}
  BY DEF GetItem, request
<1>2. CreateAtHand'
  <2>1. CASE pc' = "answered"
    <3>1. answer' = At(answer.id, server[answer.id].at)
      BY <2>1 DEF GetItem
    <3>2. answer.id \in DOMAIN server
      BY <1>1 DEF Inv, SoundCycle
    <3>3. answer'.id = answer.id /\ answer.id > 0
      BY <3>1, <3>2, Tables DEF At
    <3> QED BY <2>1, <3>3 DEF CreateAtHand, Renewing
  <2> QED BY <1>1, <2>1, EmptyHands
<1> QED BY <1>1, <1>2, SameCreates, QuietSingle DEF Renewing, Renewed

\* The row at hand is done and creates no more.
LEMMA FinishRowSingle == ASSUME Inv, Single, FinishRow PROVE Single'
<1>1. /\ UNCHANGED <<server, db, disk, fuse>> /\ pc = "closing" /\ pc' = "loop"
      /\ Touch(cur, "gone")
  BY DEF FinishRow, request
<1>2. PICK r \in DOMAIN rows : r = cur
  BY <1>1, AtRow DEF Handling
<1>3. ~Creates(rows'[cur])
  BY <1>1, <1>2, TouchEffect DEF Creates, Statuses
<1> QED BY <1>1, <1>2, <1>3, TouchCreates, EmptyHands, QuietSingle DEF Statuses

\* Where nothing failed, the answer of a request to OneDrive arrives.
LEMMA NoFault ==
    ASSUME Inv, Unharmed'
    PROVE  ~Fault /\ \A next : Outcome(next) => pc' = next /\ UNCHANGED <<rows, cur>>
<1>1. faults \in Nat /\ faults' = 0
  BY SizesAssumption DEF Inv, TypeOK, Unharmed
<1>2. ~Fault
  BY <1>1 DEF Fault
<1> QED BY <1>2 DEF Outcome

\* The row of a file to create has a temporary id, and the file no copy.
LEMMA AboutToCreate ==
    ASSUME Inv, Single, pc \in {"begun", "entries", "rows"}, item.op = "create"
    PROVE  /\ cur \in DOMAIN rows /\ Creates(rows[cur]) /\ rows[cur].id = item.id
           /\ item.id < 0
           /\ pc = "begun" => -item.id \notin Owners
BY AtRow DEF Single, CreateAtHand, CreateRows, Creates, Renewing, Renewed, Handling

\* The upload makes the first copy of the file, or overwrites one that another has.
LEMMA UploadNewSingle == ASSUME Inv, Single, Unharmed', UploadNew PROVE Single'
<1>1. PICK i \in DOMAIN db, id \in Nat \ {0} : Uploaded(i, id)
  BY UploadNewEffect
<1>2. /\ pc = "begun" /\ item.op = "create" /\ Outcome("entries")
      /\ UNCHANGED <<db, disk, fuse, item>>
  BY DEF UploadNew, request
<1>3. pc' = "entries" /\ UNCHANGED <<rows, cur>>
  BY <1>2, NoFault
<1>4. /\ cur \in DOMAIN rows /\ Creates(rows[cur]) /\ rows[cur].id = item.id
      /\ item.id < 0 /\ -item.id \notin Owners
  BY <1>2, AboutToCreate
<1>5. item.id = -i /\ -item.id = i
  BY <1>1, <1>4, Tables DEF Uploaded, OwnInode, Single
<1>6. answer'.id = id
  BY <1>1, <1>2, AtRow, AtFacts DEF Uploaded, Handling
<1>7. rows'[cur'].id = item.id /\ rows'[cur'].op = item.op /\ rows'[cur'].status = "processing"
  BY <1>2, <1>3 DEF Single, CreateAtHand
<1>8. OwnInode'
  BY <1>2 DEF Single, OwnInode
<1>9. CASE id \in DOMAIN server
  <2>1. PICK w \in File : Put(id, w) /\ w.live = server[id].live /\ w.owner = server[id].owner
    BY <1>1, <1>9 DEF Uploaded, Overwritten
  <2>2. Owners' = Owners /\ NoMoreCopies
    BY <1>9, <2>1 DEF Put, NoMoreCopies, Owners, Holding
  <2>3. CreateAtHand'
    BY <1>2, <1>3, <1>4, <1>7, <2>2 DEF CreateAtHand, Renewing
  <2> QED BY <1>2, <1>3, <1>8, <2>2, <2>3, SameCreates, CycleSingle DEF Renewing, Renewed
<1>10. CASE id \notin DOMAIN server
  <2>1. PICK w \in File : Put(id, w) /\ w.live /\ w.owner = i
    BY <1>1, <1>10 DEF Uploaded
  <2>2. /\ Holding' = Holding \union {id} /\ id \notin Holding
        /\ server'[id].owner = i /\ \A s \in Holding : server'[s] = server[s]
    BY <1>10, <2>1 DEF Put, Holding
  <2>3. Owners' = Owners \union {i}
    BY <2>2 DEF Owners
  <2>4. OneCopy'
    BY <1>4, <1>5, <2>2 DEF OneCopy, Single, Owners
  <2>5. CreateRows'
    <3>1. CreateRows
      BY DEF Single
    <3>2. ASSUME NEW r \in DOMAIN rows', Creates(rows'[r])
          PROVE  \/ rows'[r].id < 0 /\ -rows'[r].id \notin Owners'
                 \/ rows'[r].id < 0 /\ r = cur' /\ pc' \in Renewing
      <4>1. rows[r].id < 0 /\ -rows[r].id \notin Owners /\ r \in DOMAIN rows /\ rows[r].id \in Int
        BY <1>2, <1>3, <3>1, <3>2, Tables DEF CreateRows, Renewing, Renewed, Row
      <4>2. CASE -rows[r].id = i
        <5>1. rows[r].id = rows[cur].id
          BY <1>4, <1>5, <4>1, <4>2, Tables
        <5>2. r = cur
          BY <1>3, <1>4, <3>1, <3>2, <4>1, <5>1 DEF CreateRows
        <5> QED BY <1>3, <4>1, <5>2 DEF Renewing
      <4> QED BY <1>3, <2>3, <4>1, <4>2
    <3> QED BY <1>3, <3>1, <3>2 DEF CreateRows
  <2>6. CreateAsked'
    <3>1. CreateAsked
      BY DEF Single
    <3>2. ASSUME NEW k \in DOMAIN fuse.rows, fuse.rows[k].op = "create"
          PROVE  -fuse.rows[k].id \notin Owners'
      <4>1. fuse.rows[k].id # item.id /\ -fuse.rows[k].id \notin Owners
        BY <1>4, <3>1, <3>2 DEF CreateAsked
      <4>2. fuse.rows[k].id \in Int
        BY Tables DEF Row
      <4>3. -fuse.rows[k].id # i
        BY <1>5, <4>1, <4>2, Tables
      <4> QED BY <2>3, <4>1, <4>3
    <3> QED BY <1>2, <1>3, <3>1, <3>2 DEF CreateAsked
  <2>7. Fresh'
    <3>1. \A j \in DOMAIN db : db[j].id # id
      BY <1>10 DEF Inv, SoundEntries, Sound, IsId
    <3>2. fuse.pc \in Asking => fuse.entry.id # id
      BY <1>10 DEF Inv, SoundRequest, Sound, IsId
    <3> QED BY <1>2, <1>6, <3>1, <3>2 DEF Fresh, Known
  <2>8. CreateAtHand'
    BY <1>2, <1>3, <1>7, <2>7 DEF CreateAtHand, Renewing
  <2> QED BY <1>8, <2>4, <2>5, <2>6, <2>8 DEF Single
<1> QED BY <1>9, <1>10

\* The request that reached OneDrive made no copy.
LEMMA SentSingle ==
    ASSUME Inv, Single, Unharmed', pc = "begun", item.op # "create", Outcome("answered"),
           NoMoreCopies, UNCHANGED <<db, disk, fuse, item>>
    PROVE  Single'
<1>1. pc' = "answered" /\ UNCHANGED <<rows, cur>>
  BY NoFault
<1>2. CreateAtHand'
  BY <1>1 DEF CreateAtHand, Renewing
<1>3. OwnInode'
  BY DEF Single, OwnInode
<1> QED BY <1>1, <1>2, <1>3, SameCreates, CycleSingle DEF Renewing, Renewed

\* An update overwrites the copy of that id.
LEMMA UploadChangeSingle == ASSUME Inv, Single, Unharmed', UploadChange PROVE Single'
<1>1. /\ pc = "begun" /\ item.op # "create" /\ Outcome("answered")
      /\ UNCHANGED <<db, disk, fuse, item>>
  BY DEF UploadChange, request
<1>2. PICK w \in File : /\ item.id \in DOMAIN server /\ Put(item.id, w)
                        /\ w.live = server[item.id].live /\ w.owner = server[item.id].owner
  BY UploadChangeEffect DEF Overwritten
<1>3. NoMoreCopies
  BY <1>2 DEF Put, NoMoreCopies, Holding
<1> QED BY <1>1, <1>3, SentSingle

\* A deletion makes no copy.
LEMMA DeleteOnServerSingle == ASSUME Inv, Single, Unharmed', DeleteOnServer PROVE Single'
<1>1. /\ pc = "begun" /\ item.op # "create" /\ Outcome("answered")
      /\ UNCHANGED <<db, disk, fuse, item>>
  BY DEF DeleteOnServer, request
<1>2. NoMoreCopies
  BY DeleteEffect DEF InPlace, NoMoreCopies, Holding
<1> QED BY <1>1, <1>2, SentSingle

\* A file that is moved or renamed keeps its owner.
LEMMA RelocateSingle == ASSUME Inv, Single, Unharmed', Relocate PROVE Single'
<1>1. /\ pc = "begun" /\ item.op # "create" /\ Outcome("answered")
      /\ UNCHANGED <<db, disk, fuse, item>>
  BY DEF Relocate, request
<1>2. NoMoreCopies
  BY RelocateEffect DEF InPlace, NoMoreCopies, Holding
<1> QED BY <1>1, <1>2, SentSingle

\* The entry gets an id nobody has, or the row is tried again without a copy.
LEMMA RewriteEntrySingle == ASSUME Inv, Single, RewriteEntry PROVE Single'
<1>1. pc = "entries" /\ UNCHANGED <<server, disk, fuse, item, answer>>
  BY DEF RewriteEntry, request
<1>2. item.op = "create" /\ answer.id \in Int /\ answer.id > 0
  BY <1>1, Tables DEF Single, CreateAtHand, Renewing, Inv, SoundCycle
<1>3. cur \in DOMAIN rows /\ Creates(rows[cur]) /\ rows[cur].id = item.id /\ item.id < 0
  BY <1>1, <1>2, AboutToCreate
<1>4. CASE item.id # answer.id /\ Known(answer.id)
  <2>1. RowError /\ UNCHANGED db
    BY <1>4 DEF RewriteEntry
  <2>2. Touch(cur, "error") /\ pc' = "loop" /\ rows[cur].status # "gone"
    BY <1>3, <2>1 DEF RowError, Creates
  <2>3. NoMoreCreates
    BY <1>3, <2>2, TouchCreates DEF Statuses
  <2>4. -item.id \notin Owners
    BY <1>1, <1>4 DEF Single, CreateAtHand, Fresh
  <2>5. Owners' = Owners /\ NoMoreCopies
    BY <1>1, SameCopies DEF Owners, Holding
  <2>6. CreateRows'
    <3>1. CreateRows
      BY DEF Single
    <3>2. ASSUME NEW r \in DOMAIN rows', Creates(rows'[r])
          PROVE  rows'[r].id < 0 /\ -rows'[r].id \notin Owners'
      <4>1. r \in DOMAIN rows /\ Creates(rows[r]) /\ rows'[r].id = rows[r].id
        BY <2>3, <3>2 DEF NoMoreCreates
      <4> QED BY <1>1, <1>3, <2>4, <2>5, <3>1, <4>1 DEF CreateRows, Renewed
    <3>3. ASSUME NEW r \in DOMAIN rows', NEW s \in DOMAIN rows', Creates(rows'[r]),
                 Creates(rows'[s]), rows'[r].id = rows'[s].id
          PROVE  r = s
      BY <2>3, <3>1, <3>3 DEF CreateRows, NoMoreCreates
    <3> QED BY ONLY <3>2, <3>3 DEF CreateRows, Creates
  <2>7. CreateAsked' /\ OneCopy' /\ OwnInode'
    BY <1>1, <2>1, <2>3, <2>5, CreateAskedStays, CopiesStay DEF Single, OwnInode
  <2> QED BY <2>2, <2>6, <2>7, EmptyHands DEF Single
<1>5. CASE ~(item.id # answer.id /\ Known(answer.id))
  <2>1. /\ pc' = "rows" /\ UNCHANGED <<rows, recent, cur>> /\ DOMAIN db' = DOMAIN db
        /\ \A i \in DOMAIN db :
              db'[i].id = (IF db[i].id = item.id THEN answer.id ELSE db[i].id)
    <3>1. pc' = "rows"
      BY <1>5 DEF RewriteEntry
    <3> QED BY <3>1, RewriteEntryEffect DEF RowError
  <2>2. OwnInode'
    BY <1>1, <1>2, <2>1 DEF Single, OwnInode
  <2>3. CreateAtHand'
    BY <1>1, <2>1 DEF Single, CreateAtHand, Renewing
  <2>4. NoMoreCopies /\ NoMoreCreates
    BY <1>1, <2>1, SameCopies, SameCreates
  <2>5. CreateRows'
    BY <1>1, <2>1 DEF Single, CreateRows, Owners, Holding, Renewing, Renewed
  <2> QED BY <1>1, <2>2, <2>3, <2>4, <2>5, CreateAskedStays, CopiesStay DEF Single
<1> QED BY <1>4, <1>5

\* The row gets the id, and is the only one to have it that creates.
LEMMA RewriteRowsSingle == ASSUME Inv, Single, RewriteRows PROVE Single'
<1>1. /\ pc = "rows" /\ pc' = "get" /\ UNCHANGED <<server, db, disk, fuse, cur, item, answer>>
  BY DEF RewriteRows, request
<1>2. item.op = "create" /\ answer.id \in Int /\ answer.id > 0
  BY <1>1, Tables DEF Single, CreateAtHand, Renewing, Inv, SoundCycle
<1>3. cur \in DOMAIN rows /\ Creates(rows[cur]) /\ rows[cur].id = item.id /\ item.id < 0
  BY <1>1, <1>2, AboutToCreate
<1>4. /\ DOMAIN rows' = DOMAIN rows
      /\ \A r \in DOMAIN rows :
            /\ rows'[r].id = (IF rows[r].id = item.id THEN answer.id ELSE rows[r].id)
            /\ Creates(rows'[r]) <=> Creates(rows[r])
  BY RewriteRowsEffect DEF Creates
<1>5. Owners' = Owners
  BY <1>1 DEF Owners, Holding
<1>6. CreateRows /\ CreateAsked
  BY DEF Single
<1>7. ASSUME NEW r \in DOMAIN rows, Creates(rows[r]), r # cur
      PROVE  /\ rows'[r].id = rows[r].id /\ rows[r].id < 0 /\ -rows[r].id \notin Owners
  BY <1>1, <1>3, <1>4, <1>6, <1>7 DEF CreateRows
<1>8. rows'[cur].id = answer.id
  BY <1>3, <1>4
<1>9. CreateRows'
  <2>1. ASSUME NEW r \in DOMAIN rows', Creates(rows'[r])
        PROVE  \/ rows'[r].id < 0 /\ -rows'[r].id \notin Owners'
               \/ r = cur' /\ pc' \in Renewed
    BY <1>1, <1>4, <1>5, <1>7, <2>1 DEF Renewed
  <2>2. ASSUME NEW r \in DOMAIN rows', NEW s \in DOMAIN rows', Creates(rows'[r]),
               Creates(rows'[s]), rows'[r].id = rows'[s].id
        PROVE  r = s
    <3>1. CASE r # cur /\ s # cur
      BY <1>4, <1>6, <1>7, <2>2, <3>1 DEF CreateRows
    <3>2. CASE r = cur \/ s = cur
      BY <1>2, <1>4, <1>7, <1>8, <2>2, <3>2
    <3> QED BY <3>1, <3>2
  <2> QED BY ONLY <2>1, <2>2 DEF CreateRows, Creates
<1>10. CreateAsked'
  <2>1. \A r \in DOMAIN rows' : Creates(rows'[r]) =>
           r \in DOMAIN rows /\ Creates(rows[r]) /\ (rows'[r].id = rows[r].id \/ rows'[r].id = answer.id)
    BY <1>4
  <2> QED BY <1>1, <1>2, <1>5, <1>6, <2>1 DEF CreateAsked
<1>11. CreateAtHand'
  BY <1>1, <1>2 DEF CreateAtHand, Renewing
<1>12. OneCopy' /\ OwnInode'
  BY <1>1, SameCopies, CopiesStay DEF Single, OwnInode
<1> QED BY <1>9, <1>10, <1>11, <1>12 DEF Single

\* The answer is stored under its id, or in a new inode without content.
LEMMA StoreAnswerSingle == ASSUME Inv, Single, StoreAnswer PROVE Single'
<1>1. /\ pc = "answered" /\ pc' \in {"closing", "stored"}
      /\ UNCHANGED <<server, rows, fuse, cur, item, answer>>
  BY DEF StoreAnswer
<1>2. PICK e \in Entry : e = answer
  BY <1>1, AtRow DEF Handling
<1>3. OwnInode'
  <2>1. CASE db' = Update(e) /\ UNCHANGED disk
    BY <2>1, UpdateEffect DEF Single, OwnInode
  <2>2. CASE Insert(e, 0, Ghost)
    <3>1. /\ DOMAIN db' = DOMAIN db \union {Len(db) + 1}
          /\ \A i \in DOMAIN db : db'[i] = db[i] /\ disk'[i] = disk[i]
          /\ disk'[Len(db) + 1] = 0
      BY <2>2, NothingIsTyped, InsertEffect
    <3> QED BY <3>1 DEF Single, OwnInode
  <2> QED BY <1>2, <2>1, <2>2 DEF StoreAnswer
<1>4. CreateAtHand'
  BY <1>1 DEF Single, CreateAtHand, Renewing
<1> QED BY <1>1, <1>3, <1>4, SameCopies, SameCreates, CycleSingle DEF Renewed

\* The row gets the id of the answer; if it creates, that is not a temporary one.
LEMMA RowAnsweredSingle == ASSUME Inv, Single, RowAnswered PROVE Single'
<1>1. /\ pc = "stored" /\ pc' = "closing" /\ UNCHANGED <<server, db, disk, fuse, cur, item, answer>>
  BY DEF RowAnswered, request
<1>2. /\ DOMAIN rows' = DOMAIN rows /\ \A r \in DOMAIN rows \ {cur} : rows'[r] = rows[r]
      /\ rows'[cur].id = answer.id /\ rows'[cur].op = item.op
  BY RowAnsweredEffect
<1>3. Owners' = Owners
  BY <1>1 DEF Owners, Holding
<1>4. CreateRows /\ CreateAsked
  BY DEF Single
<1>5. Creates(rows'[cur]) => rows'[cur].id \in Int /\ rows'[cur].id > 0
  BY <1>1, <1>2, AtRow DEF Single, CreateAtHand, Creates, Handling
<1>6. ASSUME NEW r \in DOMAIN rows', Creates(rows'[r]), r # cur
      PROVE  /\ r \in DOMAIN rows /\ Creates(rows[r]) /\ rows'[r].id = rows[r].id
             /\ rows[r].id < 0 /\ -rows[r].id \notin Owners
  BY <1>2, <1>4, <1>6 DEF CreateRows
<1>7. CreateRows'
  <2>1. ASSUME NEW r \in DOMAIN rows', Creates(rows'[r])
        PROVE  \/ rows'[r].id < 0 /\ -rows'[r].id \notin Owners'
               \/ r = cur' /\ pc' \in Renewed
    BY <1>1, <1>3, <1>6, <2>1 DEF Renewed
  <2>2. ASSUME NEW r \in DOMAIN rows', NEW s \in DOMAIN rows', Creates(rows'[r]),
               Creates(rows'[s]), rows'[r].id = rows'[s].id
        PROVE  r = s
    <3>1. CASE r # cur /\ s # cur
      BY <1>4, <1>6, <2>2, <3>1 DEF CreateRows
    <3>2. CASE r = cur \/ s = cur
      BY <1>5, <1>6, <2>2, <3>2
    <3> QED BY <3>1, <3>2
  <2> QED BY ONLY <2>1, <2>2 DEF CreateRows, Creates
<1>8. CreateAsked'
  BY <1>1, <1>3, <1>4, <1>5, <1>6 DEF CreateAsked
<1>9. OneCopy' /\ OwnInode'
  BY <1>1, SameCopies, CopiesStay DEF Single, OwnInode
<1> QED BY <1>1, <1>7, <1>8, <1>9, EmptyHands DEF Single

\* What failed once has failed.
LEMMA HarmStays ==
    ASSUME Inv, [Next]_vars, Unharmed'
    PROVE  Unharmed /\ ~Fault /\ ~Crash /\ \A id \in todo : ~SquashStops(id)
<1>1. faults \in Nat /\ crashes \in Nat /\ faults' = 0 /\ crashes' = 0
  BY SizesAssumption DEF Inv, TypeOK, Unharmed
<1>2. ~Fault /\ ~(crashes' = crashes + 1)
  BY <1>1 DEF Fault
<1>3. ~Crash /\ \A id \in todo : ~SquashStops(id)
  BY <1>2 DEF Crash, SquashStops
<1>4. UNCHANGED bounds => Unharmed
  BY <1>1 DEF bounds, Unharmed
<1>5. User => Unharmed
  BY <1>4 DEF User, Create, Rename, Write, Release, Unlink, Replace
<1>6. Request => Unharmed
  BY <1>2, <1>4 DEF Request, FuseSelect, FuseUpdate, FuseInsert, FuseReread, FuseMark,
     FuseRow, FuseRowFails
<1>7. Handle => Unharmed
  BY <1>2, <1>4 DEF Handle, HandlerPanics, HandlerRefused, HandlerFails, UploadNew, Outcome,
     RewriteEntry, RewriteRows, GetItem, UploadChange, DeleteOnServer, Relocate, StoreAnswer,
     RowAnswered, FinishRow
<1>8. Cycle => Unharmed
  BY <1>3, <1>4, <1>7 DEF Cycle, Start, SquashDone, Finish, Squash, Begin, SetConflicted
<1>9. Unharmed
  BY <1>3, <1>4, <1>5, <1>6, <1>8 DEF Next, TimePasses, vars
<1> QED BY <1>2, <1>3, <1>9

\* No step makes a second copy or a second row to create one.
LEMMA SingleNext == ASSUME Inv, Single, [Next]_vars, Unharmed' PROVE Single'
<1>1. ~Fault /\ ~Crash /\ \A id \in todo : ~SquashStops(id)
  BY HarmStays
<1>2. CASE User
  BY <1>2, CreateSingle, RenameSingle, WriteSingle, ReleaseSingle, UnlinkSingle, ReplaceSingle
     DEF User
<1>3. CASE Request
  <2>1. ~FuseRowFails
    BY <1>1 DEF FuseRowFails
  <2> QED
    BY <1>3, <2>1, FuseSelectSingle, FuseUpdateSingle, FuseInsertSingle, FuseRereadSingle,
       FuseMarkSingle, FuseRowSingle DEF Request
<1>4. CASE Handle
  <2>1. ~HandlerFails
    BY <1>1 DEF HandlerFails
  <2> QED
    BY <1>4, <2>1, HandlerPanicsSingle, HandlerRefusedSingle, UploadNewSingle, RewriteEntrySingle,
       RewriteRowsSingle, GetItemSingle, UploadChangeSingle, DeleteOnServerSingle, RelocateSingle,
       StoreAnswerSingle, RowAnsweredSingle, FinishRowSingle DEF Handle
<1>5. CASE Cycle
  BY <1>1, <1>4, <1>5, StartSingle, SquashDoneSingle, FinishSingle, SquashSingle, BeginSingle,
     SetConflictedSingle DEF Cycle
<1>6. CASE UNCHANGED vars
  <2>1. UNCHANGED <<server, db, disk, rows, fuse, pc, cur, item, answer>>
    BY <1>6 DEF vars, request, cycle
  <2>2. CreateAtHand'
    BY <2>1 DEF CreateAtHand, Single, Owners, Holding, Fresh, Known
  <2> QED BY <2>1, <2>2, SameCreates, QuietSingle
<1> QED BY <1>1, <1>2, <1>3, <1>5, <1>6, TimePassesSingle DEF Next

\* At the start every file has one copy and no row.
LEMMA SingleAtFirst == ASSUME Init PROVE Single
<1>1. PICK place \in [1..Synced -> Place] :
         /\ server = [i \in 1..Synced |-> Made(place[i], 1, i, 0)]
         /\ db = [i \in 1..Synced |-> At(i, place[i])]
  BY InitTables
<1>2. ASSUME NEW i \in 1..Synced
      PROVE  server[i].owner = i /\ db[i].id = i /\ i \in Nat
  BY <1>1, <1>2, SizesAssumption DEF Made, At
<1>3. DOMAIN server = 1..Synced /\ DOMAIN db = 1..Synced
  BY <1>1
<1>4. OneCopy /\ OwnInode
  BY <1>2, <1>3 DEF OneCopy, OwnInode, Holding
<1>5. CreateRows /\ CreateAsked /\ CreateAtHand
  BY IdleFacts DEF Init, CreateRows, CreateAsked, CreateAtHand, Renewing
<1> QED BY <1>4, <1>5 DEF Single

\* Where no request and no statement failed and the process was not killed, a file
\* of the user is on OneDrive at most once: though its creation, its changes and
\* its id are in different rows and tables, that are squashed and rewritten one
\* statement at a time while the user goes on, names used again included.
THEOREM OneCopyOfEach == Spec => [](Unharmed => OneCopy)
<1>1. Init => (Unharmed => Single)
  BY SingleAtFirst
<1>2. Inv /\ (Unharmed => Single) /\ [Next]_vars => (Unharmed => Single)'
  BY HarmStays, SingleNext
<1>3. (Unharmed => Single) => (Unharmed => OneCopy)
  BY DEF Single
<1> QED
  BY <1>1, <1>2, <1>3, Invariance, PTL DEF Spec

=============================================================================
