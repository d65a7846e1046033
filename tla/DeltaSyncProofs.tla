--------------------------- MODULE DeltaSyncProofs ---------------------------
(***************************************************************************)
(* DeltaSync for every set of items and folders and every bound: types,    *)
(* the order of the rows, when an entry may go back, what is missed, and   *)
(* that sync folders have their files.                                     *)
(*                                                                         *)
(* RowsInOrder is not inductive: it says nothing of the changes that are   *)
(* fetched and have no row yet.  The invariant adds that these are newer   *)
(* than the link until it is saved (Fetched), and newer than each row of   *)
(* their item after that (Unstored); that the link, the token and the      *)
(* changes are not ahead of the server's clock (Clocks); and that what the *)
(* cycle has at hand is there (InRange).                                   *)
(*                                                                         *)
(* The second half follows the last version of each item from the server   *)
(* to the table: with failures, where it may have gone (Traced); without,  *)
(* in which order rows bring it (InTurn) and with what content (Supplied). *)
(***************************************************************************)
EXTENDS DeltaSync, SequenceTheorems, TLAPS

OfRow == {"applying", "moved", "enqueueing", "finishing"}
OfDownload == {"downloaded", "completed"}

InRange ==
    /\ pc \in OfRow => cur \in DOMAIN rows
    /\ pc \in OfRow \union {"rows"} => todo \subseteq DOMAIN rows
    /\ pc \in OfDownload => cur \in DOMAIN queue
    /\ pc \in OfDownload \union {"downloads"} => todo \subseteq DOMAIN queue
    /\ pc \notin {"fetching", "saving", "storing"} => acc = {}

Clocks ==
    /\ link <= clock /\ token <= clock
    /\ pc \in {"fetching", "saving"} => link <= token
    /\ \A i \in Items : cloud[i].etag <= clock

Fetched ==
    /\ pc \in {"fetching", "saving"} => \A c \in acc : link < c.etag /\ c.etag <= token
    /\ \A c, d \in acc : c.item = d.item /\ c.etag = d.etag => c = d

Unstored ==
    pc = "storing" => \A c \in acc :
        /\ c.etag <= link
        /\ \A r \in DOMAIN rows : rows[r].change.item = c.item
                                     => rows[r].change.etag < c.etag

Inv == TypeOK /\ InRange /\ Clocks /\ Fetched /\ Unstored /\ RowsInOrder


-----------------------------------------------------------------------------
\* Sequences and records.

\* Setting the status of a row keeps the rows, their number and their changes.
LEMMA StatusKeepsChanges ==
    ASSUME TypeOK, NEW r \in DOMAIN rows, NEW s \in RowStates,
           rows' = [rows EXCEPT ![r].status = s]
    PROVE  /\ rows' \in Seq(Row)
           /\ DOMAIN rows' = DOMAIN rows
           /\ \A q \in DOMAIN rows : rows'[q].change = rows[q].change
<1> DEFINE e == [rows[r] EXCEPT !.status = s]
<1>1. rows \in Seq(Row) /\ DOMAIN rows = 1..Len(rows)
  BY LenProperties DEF TypeOK
<1>2. rows[r] \in Row
  BY <1>1, ElementOfSeq
<1>3. e \in Row /\ e.change = rows[r].change
  BY <1>2 DEF Row
<1>4. rows' = [rows EXCEPT ![r] = e]
  OBVIOUS
<1> HIDE DEF e
<1>5. rows' \in Seq(Row) /\ Len(rows') = Len(rows)
  BY <1>1, <1>3, <1>4, ExceptSeq
<1>6. DOMAIN rows' = 1..Len(rows')
  BY <1>5, LenProperties
<1> QED BY <1>1, <1>3, <1>4, <1>5, <1>6

\* Storing the row of a change adds it at the end.
LEMMA RowAppended ==
    ASSUME TypeOK, NEW c \in Change, Detect(c) # "no_change",
           rows' = Append(rows, [change |-> c, op |-> Detect(c), status |-> "new"])
    PROVE  /\ rows' \in Seq(Row)
           /\ DOMAIN rows = 1..Len(rows) /\ Len(rows) \in Nat
           /\ DOMAIN rows' = 1..Len(rows) + 1
           /\ rows'[Len(rows) + 1].change = c
           /\ \A r \in DOMAIN rows : rows'[r] = rows[r]
<1> DEFINE e == [change |-> c, op |-> Detect(c), status |-> "new"]
<1>1. e \in Row /\ e.change = c
  BY DEF Row, Detect, Operations, RowStates
<1>2. rows \in Seq(Row) /\ DOMAIN rows = 1..Len(rows) /\ Len(rows) \in Nat
  BY LenProperties DEF TypeOK
<1>3. rows' = Append(rows, e)
  OBVIOUS
<1> HIDE DEF e
<1>4. /\ rows' \in Seq(Row) /\ Len(rows') = Len(rows) + 1
      /\ \A r \in 1..Len(rows) : rows'[r] = rows[r]
      /\ rows'[Len(rows) + 1] = e
  BY <1>1, <1>2, <1>3, AppendProperties
<1>5. DOMAIN rows' = 1..Len(rows) + 1
  BY <1>4, LenProperties
<1> QED BY <1>1, <1>2, <1>4, <1>5

\* The same of a row of the download queue.
LEMMA StatusKeepsDownloads ==
    ASSUME TypeOK, NEW q \in DOMAIN queue,
           NEW s \in {"pending", "completed", "failed", "removed"},
           queue' = [queue EXCEPT ![q].status = s]
    PROVE  queue' \in Seq(Download) /\ DOMAIN queue' = DOMAIN queue
<1> DEFINE e == [queue[q] EXCEPT !.status = s]
<1>1. queue \in Seq(Download) /\ DOMAIN queue = 1..Len(queue)
  BY LenProperties DEF TypeOK
<1>2. queue[q] \in Download
  BY <1>1, ElementOfSeq
<1>3. e \in Download
  BY <1>2 DEF Download
<1>4. queue' = [queue EXCEPT ![q] = e]
  OBVIOUS
<1> HIDE DEF e
<1>5. queue' \in Seq(Download) /\ Len(queue') = Len(queue)
  BY <1>1, <1>3, <1>4, ExceptSeq
<1> QED BY <1>1, <1>5, LenProperties

\* Taking an item out of the queue keeps the rows of the queue.
LEMMA DequeuedKeepsQueue ==
    ASSUME TypeOK, NEW i \in Items
    PROVE  Dequeued(i) \in Seq(Download) /\ DOMAIN Dequeued(i) = DOMAIN queue
<1>1. queue \in Seq(Download) /\ DOMAIN queue = 1..Len(queue) /\ Len(queue) \in Nat
  BY LenProperties DEF TypeOK
<1>2. \A q \in 1..Len(queue) : queue[q] \in Download
  BY <1>1, ElementOfSeq
<1>3. \A q \in 1..Len(queue) : [queue[q] EXCEPT !.status = "removed"] \in Download
  BY <1>2 DEF Download
<1>4. Dequeued(i) \in [1..Len(queue) -> Download]
  BY <1>1, <1>2, <1>3 DEF Dequeued
<1> QED BY <1>1, <1>4, SeqDef

\* Marking an entry as deleted keeps it an entry.
LEMMA MarkedDeletedKeepsEntries ==
    ASSUME TypeOK, NEW i \in Items
    PROVE  MarkedDeleted(i) \in [Items -> Change]
<1> DEFINE b == (db[i].etag # 0)
           e == [db[i] EXCEPT !.deleted = b]
<1>1. b \in BOOLEAN
  OBVIOUS
<1>2. db \in [Items -> Change] /\ db[i] \in Change
  BY DEF TypeOK
<1>3. MarkedDeleted(i) = [db EXCEPT ![i] = e]
  BY DEF MarkedDeleted
<1> HIDE DEF b
<1>4. e \in Change
  BY <1>1, <1>2 DEF Change
<1> HIDE DEF e
<1> QED BY <1>2, <1>3, <1>4

\* What the row at hand holds.
LEMMA RowAtHand ==
    ASSUME TypeOK, NEW r \in DOMAIN rows
    PROVE  /\ rows[r] \in Row
           /\ rows[r].change \in Change
           /\ rows[r].change.item \in Items
<1>1. rows[r] \in Row
  BY LenProperties, ElementOfSeq DEF TypeOK
<1> QED BY <1>1 DEF Row, Change

\* What a row of the queue holds.
LEMMA DownloadAtHand ==
    ASSUME TypeOK, NEW q \in DOMAIN queue
    PROVE  queue[q].item \in Items
<1>1. queue[q] \in Download
  BY LenProperties, ElementOfSeq DEF TypeOK
<1> QED BY <1>1 DEF Download

\* What the cycle holds are changes.
LEMMA HeldAreChanges ==
    ASSUME TypeOK, InRange
    PROVE  Held \subseteq Change
<1>1. acc \subseteq Change
  BY DEF TypeOK
<1>2. pc \in OfRow => rows[cur].change \in Change
  BY RowAtHand DEF InRange
<1> QED BY <1>1, <1>2 DEF Held, OfRow

\* What a store overwrites are changes.
LEMMA OverwrittenAreChanges ==
    ASSUME TypeOK, cur \in DOMAIN rows
    PROVE  Overwritten \subseteq Change
<1>1. \A r \in DOMAIN rows : rows[r].change \in Change
  BY RowAtHand
<1>2. db[rows[cur].change.item] \in Change
  BY RowAtHand DEF TypeOK
<1> QED BY <1>1, <1>2 DEF Overwritten

\* A change made on the server gets the next clock value.
LEMMA PutInv ==
    ASSUME TypeOK, Clocks, NEW c \in Change, Put(c)
    PROVE  /\ cloud' \in [Items -> Change]
           /\ \A i \in Items : cloud'[i].item = i
           /\ clock' = clock + 1 /\ clock' \in Nat
           /\ \A i \in Items : cloud'[i].etag <= clock'
<1> DEFINE e == [c EXCEPT !.etag = clock + 1]
<1>1. clock \in Nat /\ cloud \in [Items -> Change] /\ c.item \in Items
  BY DEF TypeOK, Change
<1>2. e \in Change /\ e.etag = clock + 1 /\ e.item = c.item
  BY <1>1 DEF Change
<1>3. cloud' = [cloud EXCEPT ![c.item] = e] /\ clock' = clock + 1
  BY DEF Put
<1> HIDE DEF e
<1>4. \A i \in Items : cloud[i].etag \in Nat /\ cloud[i].item = i
  BY DEF TypeOK, Change
<1> QED BY <1>1, <1>2, <1>3, <1>4 DEF Clocks

\* The order of the rows is kept when no row is added, the link stays, and
\* nothing is fetched.
LEMMA Kept ==
    ASSUME Inv, link' = link, acc' = {}, DOMAIN rows' = DOMAIN rows,
           \A r \in DOMAIN rows : rows'[r].change = rows[r].change
    PROVE  Fetched' /\ Unstored' /\ RowsInOrder'
  BY DEF Inv, Fetched, Unstored, RowsInOrder

-----------------------------------------------------------------------------
\* The invariant is inductive.

\* It holds at the start.
LEMMA InitInv == Init => Inv
<1> SUFFICES ASSUME Init PROVE Inv
  OBVIOUS
<1>1. (CHOOSE f \in Folders : TRUE) \in Folders
  BY FoldersAssumption
<1>2. \A i \in Items : Unknown(i) \in Change /\ Unknown(i).item = i /\ Unknown(i).etag = 0
  BY <1>1 DEF Unknown, Change
<1>3. rows \in Seq(Row) /\ DOMAIN rows = {} /\ queue \in Seq(Download)
  BY EmptySeq, LenProperties DEF Init
<1>4. TypeOK
  BY <1>2, <1>3 DEF Init, TypeOK, PCs
<1>5. InRange /\ Fetched /\ Unstored
  BY DEF Init, InRange, OfRow, OfDownload, Fetched, Unstored
<1>6. Clocks
  BY <1>2 DEF Init, Clocks
<1>7. RowsInOrder
  BY <1>3 DEF RowsInOrder
<1> QED BY <1>4, <1>5, <1>6, <1>7 DEF Inv

\* A cycle that returns or is killed keeps it, whatever it held.
LEMMA EndedInv ==
    ASSUME Inv, EndCycle, UNCHANGED <<onedrive, disk>>,
           faults' \in Nat, crashes' \in Nat, cut' \subseteq Change
    PROVE  Inv'
<1>1. TypeOK'
  BY DEF Inv, TypeOK, EndCycle, onedrive, disk, PCs
<1>2. InRange' /\ Clocks'
  BY DEF Inv, TypeOK, InRange, Clocks, EndCycle, onedrive, disk, OfRow, OfDownload
<1>3. Fetched' /\ Unstored' /\ RowsInOrder'
  BY Kept DEF EndCycle, disk
<1> QED BY <1>1, <1>2, <1>3 DEF Inv

\* The steps that fetch the delta and store its rows.
LEMMA FetchInv == Inv /\ Fetch => Inv'
<1> SUFFICES ASSUME Inv, Fetch PROVE Inv'
  OBVIOUS
<1> USE DEF Inv
<1>1. CASE Start
  <2>1. TypeOK' /\ InRange' /\ Clocks'
    BY <1>1 DEF Start, TypeOK, PCs, InRange, Clocks, OfRow, OfDownload, onedrive, disk
  <2>2. acc' = {}
    BY <1>1 DEF Start, InRange, OfRow
  <2> QED BY <1>1, <2>1, <2>2, Kept DEF Start, disk
<1>2. CASE FetchPage
  <2>1. PICK end \in {clock} \union (token + 1)..clock :
           /\ acc' = acc \union {cloud[i] : i \in {j \in Items :
                                    token < cloud[j].etag /\ cloud[j].etag <= end}}
           /\ token' = end
           /\ pc' = IF end < clock THEN "fetching" ELSE "saving"
    BY <1>2 DEF FetchPage
  <2>2. /\ clock \in Nat /\ token \in Nat /\ link \in Nat
        /\ end \in Nat /\ token <= end /\ end <= clock /\ link <= token
        /\ \A i \in Items : cloud[i] \in Change /\ cloud[i].item = i
                            /\ cloud[i].etag \in Nat
    BY <1>2, <2>1 DEF FetchPage, TypeOK, Clocks, Change
  <2>3. TypeOK'
    BY <1>2, <2>1, <2>2 DEF FetchPage, TypeOK, PCs, onedrive, disk
  <2>4. InRange' /\ Clocks' /\ RowsInOrder' /\ Unstored'
    BY <1>2, <2>1, <2>2 DEF FetchPage, InRange, Clocks, RowsInOrder, Unstored, OfRow,
                            OfDownload, onedrive, disk
  <2>5. \A c \in acc : c.etag \in Nat
    BY DEF TypeOK, Change
  <2>6. \A c \in acc' : \/ c \in acc /\ link < c.etag /\ c.etag <= token
                        \/ c = cloud[c.item] /\ token < c.etag /\ c.etag <= end
                           /\ c.etag \in Nat
    BY <1>2, <2>1, <2>2 DEF FetchPage, Fetched
  <2>7. Fetched'
    BY <1>2, <2>1, <2>2, <2>5, <2>6 DEF FetchPage, Fetched, disk
  <2> QED BY <2>3, <2>4, <2>7
<1>3. CASE FetchFails
  <2>1. EndCycle /\ UNCHANGED <<onedrive, disk, crashes, cut>>
    BY <1>3 DEF FetchFails
  <2>2. faults' \in Nat /\ crashes' \in Nat /\ cut' \subseteq Change
    BY <1>3, <2>1 DEF FetchFails, Fault, TypeOK
  <2> QED BY <2>1, <2>2, EndedInv
<1>4. CASE StoreLink
  <2>1. TypeOK' /\ InRange' /\ Clocks'
    BY <1>4 DEF StoreLink, TypeOK, PCs, InRange, Clocks, OfRow, OfDownload, onedrive
  <2>2. /\ link' = token /\ link <= token /\ link \in Nat /\ token \in Nat
        /\ pc = "saving" /\ pc' = "storing" /\ acc' = acc /\ rows' = rows
    BY <1>4 DEF StoreLink, TypeOK, Clocks
  <2>3. \A r \in DOMAIN rows : rows[r].change.etag \in Nat
    BY RowAtHand DEF Change
  <2>4. \A c \in acc : c.etag \in Nat
    BY DEF TypeOK, Change
  <2>5. Fetched' /\ RowsInOrder'
    BY <2>2, <2>3 DEF Fetched, RowsInOrder
  <2>6. Unstored'
    BY <2>2, <2>3, <2>4 DEF Fetched, RowsInOrder, Unstored
  <2> QED BY <2>1, <2>5, <2>6
<1>5. CASE StoreLinkFails
  <2>1. EndCycle /\ UNCHANGED <<onedrive, disk, crashes, cut>> /\ Fault
    BY <1>5 DEF StoreLinkFails
  <2>2. faults' \in Nat /\ crashes' \in Nat /\ cut' \subseteq Change
    BY <2>1 DEF Fault, TypeOK
  <2> QED BY <2>1, <2>2, EndedInv
<1>6. CASE StoreRow
  <2>1. PICK c \in acc :
           /\ Oldest(c)
           /\ acc' = acc \ {c}
           /\ rows' = IF Detect(c) = "no_change" THEN rows
                      ELSE Append(rows, [change |-> c, op |-> Detect(c), status |-> "new"])
    BY <1>6 DEF StoreRow
  <2>2. /\ pc = "storing" /\ pc' = "storing" /\ link' = link /\ token' = token
        /\ c \in Change /\ c.etag \in Nat /\ c.etag <= link
        /\ \A d \in acc : d.etag \in Nat
    BY <1>6 DEF StoreRow, TypeOK, Change, Unstored
  <2>3. \A d \in acc' : d.item = c.item => c.etag < d.etag
    BY <2>1, <2>2 DEF Oldest, Fetched
  <2>4. Fetched'
    BY <2>1, <2>2 DEF Fetched
  <2>5. CASE Detect(c) = "no_change"
    <3>1. rows' = rows
      BY <2>1, <2>5
    <3>2. TypeOK' /\ InRange' /\ Clocks'
      BY <1>6, <2>1, <3>1 DEF StoreRow, TypeOK, InRange, Clocks, OfRow, OfDownload, onedrive
    <3>3. Unstored' /\ RowsInOrder'
      BY <2>1, <2>2, <3>1 DEF Unstored, RowsInOrder
    <3> QED BY <2>4, <3>2, <3>3
  <2>6. CASE Detect(c) # "no_change"
    <3>1. /\ rows' \in Seq(Row)
          /\ DOMAIN rows = 1..Len(rows) /\ Len(rows) \in Nat
          /\ DOMAIN rows' = 1..Len(rows) + 1
          /\ rows'[Len(rows) + 1].change = c
          /\ \A r \in DOMAIN rows : rows'[r] = rows[r]
      BY <2>1, <2>2, <2>6, RowAppended
    <3>2. TypeOK'
      BY <1>6, <2>1, <3>1 DEF StoreRow, TypeOK, onedrive
    <3>3. InRange' /\ Clocks'
      BY <1>6, <2>1, <3>1 DEF StoreRow, InRange, Clocks, OfRow, OfDownload, onedrive
    <3>4. \A r \in DOMAIN rows : rows[r].change.item = c.item
                                    => rows[r].change.etag < c.etag
      BY <2>2 DEF Unstored
    <3>5. \A r \in DOMAIN rows' : \/ r = Len(rows) + 1 /\ rows'[r].change = c
                                  \/ r \in DOMAIN rows /\ rows'[r] = rows[r]
      BY <3>1
    <3>6. ASSUME NEW q \in DOMAIN rows', NEW r \in DOMAIN rows', q < r,
                 rows'[q].change.item = rows'[r].change.item
          PROVE  rows'[q].change.etag < rows'[r].change.etag
      <4>1. q \in DOMAIN rows /\ rows'[q] = rows[q]
        BY <3>1, <3>6
      <4>2. CASE r \in DOMAIN rows
        BY <3>1, <3>6, <4>1, <4>2 DEF RowsInOrder
      <4>3. CASE r = Len(rows) + 1 /\ rows'[r].change = c
        BY <3>4, <3>6, <4>1, <4>3
      <4> QED BY <3>5, <4>2, <4>3
    <3>7. \A r \in DOMAIN rows' : rows'[r].change.etag <= link'
      BY <2>2, <3>5 DEF RowsInOrder
    <3>8. RowsInOrder'
      BY <3>6, <3>7 DEF RowsInOrder
    <3>9. Unstored'
      BY <2>1, <2>2, <2>3, <3>5 DEF Unstored
    <3> QED BY <2>4, <3>2, <3>3, <3>8, <3>9
  <2> QED BY <2>5, <2>6
<1>7. CASE StoreRowFails
  <2>1. /\ EndCycle /\ UNCHANGED <<onedrive, disk, crashes>> /\ Fault
        /\ cut' = cut \union Held
    BY <1>7 DEF StoreRowFails
  <2>2. faults' \in Nat /\ crashes' \in Nat /\ cut' \subseteq Change
    BY <2>1, HeldAreChanges DEF Fault, TypeOK
  <2> QED BY <2>1, <2>2, EndedInv
<1> QED BY <1>1, <1>2, <1>3, <1>4, <1>5, <1>6, <1>7 DEF Fetch

\* The steps that process the rows.
LEMMA ProcessRowsInv == Inv /\ ProcessRows => Inv'
<1> SUFFICES ASSUME Inv, ProcessRows PROVE Inv'
  OBVIOUS
<1> USE DEF Inv
<1>1. CASE ListRows
  <2>1. DOMAIN rows = 1..Len(rows) /\ Len(rows) \in Nat
    BY LenProperties DEF TypeOK
  <2>2. TypeOK' /\ InRange' /\ Clocks'
    BY <1>1, <2>1 DEF ListRows, TypeOK, PCs, InRange, Clocks, OfRow, OfDownload, onedrive, disk
  <2> QED BY <1>1, <2>2, Kept DEF ListRows, disk
<1>2. CASE BeginRow
  <2>1. PICK r \in todo :
           /\ rows' = [rows EXCEPT ![r].status = "processing"]
           /\ todo' = todo \ {r}
           /\ cur' = r
    BY <1>2 DEF BeginRow
  <2>2. r \in DOMAIN rows /\ todo \subseteq DOMAIN rows /\ acc = {}
    BY <1>2 DEF BeginRow, InRange
  <2>3. /\ rows' \in Seq(Row) /\ DOMAIN rows' = DOMAIN rows
        /\ \A q \in DOMAIN rows : rows'[q].change = rows[q].change
    BY <2>1, <2>2, StatusKeepsChanges DEF RowStates
  <2>4. TypeOK' /\ InRange' /\ Clocks'
    BY <1>2, <2>1, <2>2, <2>3 DEF BeginRow, TypeOK, PCs, InRange, Clocks, OfRow, OfDownload,
                                  onedrive
  <2> QED BY <1>2, <2>2, <2>3, <2>4, Kept DEF BeginRow
<1>3. CASE ApplyContent
  <2>1. cur \in DOMAIN rows /\ acc = {}
    BY <1>3 DEF ApplyContent, InRange, OfRow
  <2>2. rows[cur].change \in Change /\ rows[cur].change.item \in Items
    BY <2>1, RowAtHand
  <2>3. db' \in [Items -> Change] /\ cut' \subseteq Change
    BY <1>3, <2>1, <2>2, OverwrittenAreChanges DEF ApplyContent, Store, TypeOK
  <2>4. TypeOK'
    BY <1>3, <2>3 DEF ApplyContent, TypeOK, PCs, onedrive
  <2>5. InRange' /\ Clocks'
    BY <1>3, <2>1 DEF ApplyContent, InRange, Clocks, OfRow, OfDownload, onedrive
  <2> QED BY <1>3, <2>1, <2>4, <2>5, Kept DEF ApplyContent
<1>4. CASE Enqueue
  <2>1. cur \in DOMAIN rows /\ acc = {}
    BY <1>4 DEF Enqueue, InRange, OfRow
  <2> DEFINE e == [item |-> rows[cur].change.item, status |-> "pending"]
  <2>2. e \in Download
    BY <2>1, RowAtHand DEF Download
  <2>3. queue' = Append(queue, e)
    BY <1>4 DEF Enqueue
  <2> HIDE DEF e
  <2>4. queue' \in Seq(Download)
    BY <2>2, <2>3, AppendProperties DEF TypeOK
  <2>5. TypeOK' /\ InRange' /\ Clocks'
    BY <1>4, <2>1, <2>4 DEF Enqueue, TypeOK, PCs, InRange, Clocks, OfRow, OfDownload, onedrive
  <2> QED BY <1>4, <2>1, <2>5, Kept DEF Enqueue
<1>5. ASSUME pc = "applying"
      PROVE  /\ cur \in DOMAIN rows /\ acc = {}
             /\ rows[cur].change \in Change
             /\ Dequeued(rows[cur].change.item) \in Seq(Download)
             /\ MarkedDeleted(rows[cur].change.item) \in [Items -> Change]
  <2>1. cur \in DOMAIN rows /\ acc = {}
    BY <1>5 DEF InRange, OfRow
  <2>2. rows[cur].change \in Change /\ rows[cur].change.item \in Items
    BY <2>1, RowAtHand
  <2> QED BY <2>1, <2>2, MarkedDeletedKeepsEntries, DequeuedKeepsQueue
<1>6. CASE ApplyDelete
  <2>1. TypeOK' /\ InRange' /\ Clocks'
    BY <1>5, <1>6 DEF ApplyDelete, TypeOK, PCs, InRange, Clocks, OfRow, OfDownload, onedrive
  <2> QED BY <1>5, <1>6, <2>1, Kept DEF ApplyDelete
<1>7. CASE ApplyDeleteFailsQuietly
  <2>1. queue' \in Seq(Download) /\ db' \in [Items -> Change] /\ cut' \subseteq Change
    BY <1>5, <1>7 DEF ApplyDeleteFailsQuietly, TypeOK
  <2>2. TypeOK' /\ InRange' /\ Clocks'
    BY <1>5, <1>7, <2>1 DEF ApplyDeleteFailsQuietly, Fault, TypeOK, PCs, InRange, Clocks,
                            OfRow, OfDownload, onedrive
  <2> QED BY <1>5, <1>7, <2>2, Kept DEF ApplyDeleteFailsQuietly
<1>8. CASE MoveOnServer
  <2> DEFINE i == rows[cur].change.item
             c == [cloud[i] EXCEPT !.parent = rows[cur].change.parent]
  <2>1. cur \in DOMAIN rows /\ acc = {}
    BY <1>8 DEF MoveOnServer, InRange, OfRow
  <2>2. i \in Items /\ c \in Change
    <3>1. i \in Items /\ rows[cur].change \in Change
      BY <2>1, RowAtHand
    <3>2. cloud[i] \in Change /\ rows[cur].change.parent \in Folders
      BY <3>1 DEF TypeOK, Change
    <3> HIDE DEF i
    <3> QED BY <3>1, <3>2 DEF Change
  <2>3. \/ cloud' = cloud /\ clock' = clock
        \/ Put(c)
    BY <1>8 DEF MoveOnServer
  <2>4. /\ cloud' \in [Items -> Change] /\ \A j \in Items : cloud'[j].item = j
        /\ clock' \in Nat /\ clock <= clock'
        /\ \A j \in Items : cloud'[j].etag <= clock'
    <3> HIDE DEF i, c
    <3>1. CASE Put(c)
      <4>1. /\ cloud' \in [Items -> Change] /\ \A j \in Items : cloud'[j].item = j
            /\ clock' = clock + 1 /\ clock' \in Nat
            /\ \A j \in Items : cloud'[j].etag <= clock'
        BY <2>2, <3>1, PutInv
      <4> QED BY <4>1 DEF TypeOK
    <3>2. CASE cloud' = cloud /\ clock' = clock
      BY <3>2 DEF TypeOK, Clocks
    <3> QED BY <2>3, <3>1, <3>2
  <2>5. answer' \in Nat
    BY <1>8, <2>2, <2>4 DEF MoveOnServer, Change
  <2>6. TypeOK'
    BY <1>8, <2>4, <2>5 DEF MoveOnServer, TypeOK, PCs, disk
  <2>7. link' = link /\ token' = token /\ pc' = "moved" /\ cur' = cur /\ acc' = acc
        /\ rows' = rows /\ todo' = todo /\ pc = "applying"
    BY <1>8 DEF MoveOnServer, disk
  <2>8. InRange'
    BY <2>1, <2>7 DEF InRange, OfRow, OfDownload
  <2>9. Clocks'
    BY <2>4, <2>7 DEF TypeOK, Clocks
  <2> QED BY <1>8, <2>1, <2>6, <2>7, <2>8, <2>9, Kept DEF MoveOnServer, disk
<1>9. CASE StoreMoved
  <2> DEFINE c == [rows[cur].change EXCEPT !.etag = answer]
  <2>1. cur \in DOMAIN rows /\ acc = {}
    BY <1>9 DEF StoreMoved, InRange, OfRow
  <2>2. c \in Change /\ c.item \in Items
    BY <2>1, RowAtHand DEF TypeOK, Change
  <2>3. Store(c)
    BY <1>9 DEF StoreMoved
  <2> HIDE DEF c
  <2>4. db' \in [Items -> Change] /\ cut' \subseteq Change
    BY <2>1, <2>2, <2>3, OverwrittenAreChanges DEF Store, TypeOK
  <2>5. TypeOK' /\ InRange' /\ Clocks'
    BY <1>9, <2>1, <2>4 DEF StoreMoved, TypeOK, PCs, InRange, Clocks, OfRow, OfDownload, onedrive
  <2> QED BY <1>9, <2>1, <2>5, Kept DEF StoreMoved
<1>10. ASSUME pc \in OfRow, NEW s \in RowStates, SetStatus(s)
       PROVE  /\ cur \in DOMAIN rows /\ acc = {} /\ todo \subseteq DOMAIN rows
              /\ rows' \in Seq(Row) /\ DOMAIN rows' = DOMAIN rows
              /\ \A q \in DOMAIN rows : rows'[q].change = rows[q].change
  BY <1>10, StatusKeepsChanges DEF SetStatus, InRange, OfRow
<1>11. CASE FinishRow
  <2>1. /\ acc = {} /\ todo \subseteq DOMAIN rows
        /\ rows' \in Seq(Row) /\ DOMAIN rows' = DOMAIN rows
        /\ \A q \in DOMAIN rows : rows'[q].change = rows[q].change
    BY <1>10, <1>11 DEF FinishRow, OfRow, RowStates
  <2>2. TypeOK' /\ InRange' /\ Clocks'
    BY <1>11, <2>1 DEF FinishRow, TypeOK, PCs, InRange, Clocks, OfRow, OfDownload, onedrive
  <2> QED BY <1>11, <2>1, <2>2, Kept DEF FinishRow
<1>12. CASE RowFails
  <2>1. /\ acc = {} /\ todo \subseteq DOMAIN rows
        /\ rows' \in Seq(Row) /\ DOMAIN rows' = DOMAIN rows
        /\ \A q \in DOMAIN rows : rows'[q].change = rows[q].change
    BY <1>10, <1>12 DEF RowFails, OfRow, RowStates
  <2>2. TypeOK' /\ InRange' /\ Clocks'
    BY <1>12, <2>1 DEF RowFails, Fault, TypeOK, PCs, InRange, Clocks, OfRow, OfDownload, onedrive
  <2> QED BY <1>12, <2>1, <2>2, Kept DEF RowFails
<1> QED BY <1>1, <1>2, <1>3, <1>4, <1>6, <1>7, <1>8, <1>9, <1>11, <1>12 DEF ProcessRows

\* The steps that download what is queued.
LEMMA DownloadsInv == Inv /\ Downloads => Inv'
<1> SUFFICES ASSUME Inv, Downloads PROVE Inv'
  OBVIOUS
<1> USE DEF Inv
<1>1. DOMAIN queue = 1..Len(queue) /\ Len(queue) \in Nat
  BY LenProperties DEF TypeOK
<1>2. CASE ListDownloads
  <2>1. acc = {}
    BY <1>2 DEF ListDownloads, InRange, OfRow
  <2>2. TypeOK' /\ InRange' /\ Clocks'
    BY <1>1, <1>2 DEF ListDownloads, TypeOK, PCs, InRange, Clocks, OfRow, OfDownload, onedrive,
                      disk
  <2> QED BY <1>2, <2>1, <2>2, Kept DEF ListDownloads, disk
<1>3. CASE FetchContent
  <2>1. PICK q \in todo :
           /\ staged' = [staged EXCEPT ![queue[q].item] = cloud[queue[q].item].content]
           /\ cur' = q
           /\ todo' = todo \ {q}
    BY <1>3 DEF FetchContent
  <2>2. todo \subseteq DOMAIN queue /\ q \in DOMAIN queue /\ acc = {}
    BY <1>3 DEF FetchContent, InRange
  <2>3. queue[q].item \in Items
    BY <2>2, DownloadAtHand
  <2>4. cloud[queue[q].item].content \in Nat
    BY <2>3 DEF TypeOK, Change
  <2>5. staged' \in [Items -> Nat]
    BY <2>1, <2>3, <2>4 DEF TypeOK
  <2>6. TypeOK' /\ InRange' /\ Clocks'
    BY <1>1, <1>3, <2>1, <2>2, <2>5 DEF FetchContent, TypeOK, PCs, InRange, Clocks, OfRow,
                                        OfDownload, onedrive
  <2> QED BY <1>3, <2>2, <2>6, Kept DEF FetchContent
<1>4. CASE DownloadFails
  <2>1. PICK q \in todo : /\ queue' = [queue EXCEPT ![q].status = "failed"]
                          /\ todo' = todo \ {q}
    BY <1>4 DEF DownloadFails, SetDownload
  <2>2. todo \subseteq DOMAIN queue /\ q \in DOMAIN queue /\ acc = {}
    BY <1>4 DEF DownloadFails, InRange
  <2>3. queue' \in Seq(Download) /\ DOMAIN queue' = DOMAIN queue
    BY <2>1, <2>2, StatusKeepsDownloads
  <2>4. faults' \in Nat
    BY <1>4 DEF DownloadFails, Fault, TypeOK
  <2>5. TypeOK' /\ InRange' /\ Clocks'
    BY <1>4, <2>1, <2>2, <2>3, <2>4 DEF DownloadFails, TypeOK, PCs, InRange, Clocks, OfRow,
                                        OfDownload, onedrive
  <2> QED BY <1>4, <2>2, <2>5, Kept DEF DownloadFails
<1>5. CASE MarkCompleted
  <2>1. cur \in DOMAIN queue /\ todo \subseteq DOMAIN queue /\ acc = {}
    BY <1>5 DEF MarkCompleted, InRange, OfDownload
  <2>2. queue' \in Seq(Download) /\ DOMAIN queue' = DOMAIN queue
    BY <1>5, <2>1, StatusKeepsDownloads DEF MarkCompleted, SetDownload
  <2>3. TypeOK' /\ InRange' /\ Clocks'
    BY <1>5, <2>1, <2>2 DEF MarkCompleted, TypeOK, PCs, InRange, Clocks, OfRow, OfDownload,
                            onedrive
  <2> QED BY <1>5, <2>1, <2>3, Kept DEF MarkCompleted
<1>6. CASE MoveToLocal
  <2>1. cur \in DOMAIN queue /\ todo \subseteq DOMAIN queue /\ acc = {}
    BY <1>6 DEF MoveToLocal, InRange, OfDownload
  <2>2. queue[cur].item \in Items
    BY <2>1, DownloadAtHand
  <2>3. local' \in [Items -> Nat] /\ staged' \in [Items -> Nat]
    BY <1>6, <2>2 DEF MoveToLocal, TypeOK
  <2>4. TypeOK' /\ InRange' /\ Clocks'
    BY <1>6, <2>1, <2>3 DEF MoveToLocal, TypeOK, PCs, InRange, Clocks, OfRow, OfDownload, onedrive
  <2> QED BY <1>6, <2>1, <2>4, Kept DEF MoveToLocal
<1>7. CASE DownloadAborts
  <2>1. EndCycle /\ UNCHANGED <<onedrive, disk, crashes, cut>> /\ Fault
    BY <1>7 DEF DownloadAborts
  <2>2. faults' \in Nat /\ crashes' \in Nat /\ cut' \subseteq Change
    BY <2>1 DEF Fault, TypeOK
  <2> QED BY <2>1, <2>2, EndedInv
<1>8. CASE Finish
  <2>1. EndCycle /\ UNCHANGED <<onedrive, disk, faults, crashes, cut>>
    BY <1>8 DEF Finish
  <2> QED BY <2>1, EndedInv DEF TypeOK
<1> QED BY <1>2, <1>3, <1>4, <1>5, <1>6, <1>7, <1>8 DEF Downloads

\* A change by another client is a Put of a change.
LEMMA RemoteChangePuts ==
    ASSUME TypeOK, NEW i \in Items, RemoteChange(i)
    PROVE  \E c \in Change : Put(c)
<1>1. cloud[i] \in Change /\ clock \in Nat /\ clock + 1 \in Nat
  BY DEF TypeOK
<1>2. /\ [cloud[i] EXCEPT !.content = clock + 1] \in Change
      /\ [cloud[i] EXCEPT !.deleted = TRUE] \in Change
      /\ \A f \in Folders :
            /\ [cloud[i] EXCEPT !.parent = f] \in Change
            /\ [cloud[i] EXCEPT !.content = clock + 1, !.parent = f] \in Change
  BY <1>1 DEF Change
<1> QED BY <1>2 DEF RemoteChange

\* Every step keeps it.
LEMMA NextInv == Inv /\ [Next]_vars => Inv'
<1> SUFFICES ASSUME Inv, [Next]_vars PROVE Inv'
  OBVIOUS
<1>1. CASE \E i \in Items : RemoteChange(i)
  <2>1. PICK i \in Items : RemoteChange(i)
    BY <1>1
  <2>3. \E c \in Change : Put(c)
    BY <2>1, RemoteChangePuts DEF Inv
  <2>4. /\ cloud' \in [Items -> Change] /\ \A j \in Items : cloud'[j].item = j
        /\ clock' \in Nat /\ clock' = clock + 1
        /\ \A j \in Items : cloud'[j].etag <= clock'
    BY <2>3, PutInv DEF Inv
  <2>5. TypeOK'
    BY <2>1, <2>4 DEF Inv, RemoteChange, TypeOK, disk, cycle
  <2>6. InRange'
    BY <2>1 DEF Inv, RemoteChange, InRange, disk, cycle
  <2>7. Clocks'
    <3>1. link' = link /\ token' = token /\ pc' = pc
      BY <2>1 DEF RemoteChange, disk, cycle
    <3>2. link \in Nat /\ token \in Nat /\ clock \in Nat
      BY DEF Inv, TypeOK
    <3> QED BY <2>4, <3>1, <3>2 DEF Inv, Clocks
  <2>8. Fetched' /\ Unstored' /\ RowsInOrder'
    BY <2>1 DEF Inv, RemoteChange, Fetched, Unstored, RowsInOrder, disk, cycle
  <2> QED BY <2>5, <2>6, <2>7, <2>8 DEF Inv
<1>2. CASE Expire
  <2>1. TypeOK' /\ InRange' /\ Clocks'
    BY <1>2 DEF Inv, Expire, TypeOK, InRange, Clocks, disk, cycle
  <2>2. Fetched' /\ Unstored' /\ RowsInOrder'
    BY <1>2 DEF Inv, Expire, Fetched, Unstored, RowsInOrder, disk, cycle
  <2> QED BY <2>1, <2>2 DEF Inv
<1>3. CASE Fetch
  BY <1>3, FetchInv
<1>4. CASE ProcessRows
  BY <1>4, ProcessRowsInv
<1>5. CASE Downloads
  BY <1>5, DownloadsInv
<1>6. CASE Crash
  <2>1. /\ EndCycle /\ UNCHANGED <<onedrive, disk>>
        /\ faults' = faults /\ crashes' = crashes + 1 /\ cut' = cut \union Held
    BY <1>6 DEF Crash
  <2>2. faults' \in Nat /\ crashes' \in Nat /\ cut' \subseteq Change
    BY <2>1, HeldAreChanges DEF Inv, TypeOK
  <2> QED BY <2>1, <2>2, EndedInv
<1>7. CASE UNCHANGED vars
  BY <1>7 DEF Inv, TypeOK, InRange, Clocks, Fetched, Unstored, RowsInOrder, vars, onedrive,
              disk, cycle
<1> QED BY <1>1, <1>2, <1>3, <1>4, <1>5, <1>6, <1>7 DEF Next

\* Inv holds in every reachable state.
LEMMA Invariance == Spec => []Inv
<1> QED BY InitInv, NextInv, PTL DEF Spec

\* Whatever fails and whenever the process is killed, the database holds
\* entries, rows and queue entries of the kinds the repositories declare.
THEOREM TypeCorrect == Spec => []TypeOK
<1>1. Inv => TypeOK
  BY DEF Inv
<1> QED BY <1>1, Invariance, PTL

\* For every number of items, changes, failures and kills: two rows of an item
\* are in the order of its changes, none twice, and the saved link covers each.
THEOREM RowsAreInOrder == Spec => []RowsInOrder
<1>1. Inv => RowsInOrder
  BY DEF Inv
<1> QED BY <1>1, Invariance, PTL

-----------------------------------------------------------------------------
\* An entry goes back only on a retry.  That needs one more invariant: no row
\* and no fetched change is newer than the item is on the server, and the
\* answer to a move is not older than the row it was sent for.

Behind ==
    /\ \A c \in acc : c.etag <= cloud[c.item].etag
    /\ \A r \in DOMAIN rows : rows[r].change.etag <= cloud[rows[r].change.item].etag
    /\ pc = "moved" => rows[cur].change.etag <= answer

\* What Behind needs to know of the types.
LEMMA Etags ==
    ASSUME Inv
    PROVE  /\ \A c \in acc : c.etag \in Nat /\ c.item \in Items
           /\ \A r \in DOMAIN rows : /\ rows[r].change.etag \in Nat
                                     /\ rows[r].change.item \in Items
           /\ \A i \in Items : /\ cloud[i].etag \in Nat /\ cloud[i].etag <= clock
                               /\ cloud[i].item = i
           /\ clock \in Nat /\ answer \in Nat
<1>1. \A r \in DOMAIN rows : rows[r].change \in Change
  BY RowAtHand DEF Inv
<1> QED BY <1>1 DEF Inv, TypeOK, Clocks, Change

\* A change made on the server makes no item older.
LEMMA PutNewer ==
    ASSUME Inv, NEW c \in Change, Put(c)
    PROVE  \A i \in Items : cloud'[i].etag \in Nat /\ cloud[i].etag <= cloud'[i].etag
<1> DEFINE e == [c EXCEPT !.etag = clock + 1]
<1>1. c.item \in Items /\ e.etag = clock + 1 /\ clock \in Nat /\ cloud \in [Items -> Change]
  BY DEF Change, Inv, TypeOK
<1>2. cloud' = [cloud EXCEPT ![c.item] = e]
  BY DEF Put
<1> HIDE DEF e
<1> QED BY <1>1, <1>2, Etags

\* Steps that add no row and fetch nothing.
LEMMA BehindKept ==
    ASSUME Inv, Behind, acc' \subseteq acc, DOMAIN rows' = DOMAIN rows,
           \A r \in DOMAIN rows : rows'[r].change = rows[r].change,
           \A i \in Items : cloud'[i].etag \in Nat /\ cloud[i].etag <= cloud'[i].etag,
           pc' = "moved" => rows[cur'].change.etag <= answer' /\ cur' \in DOMAIN rows
    PROVE  Behind'
  BY Etags DEF Behind

\* A cycle that ends keeps it.
LEMMA BehindEnded ==
    ASSUME Inv, Behind, EndCycle, UNCHANGED <<onedrive, disk>>
    PROVE  Behind'
  BY BehindKept, Etags DEF EndCycle, onedrive, disk

\* The steps that fetch.
LEMMA BehindFetch == Inv /\ Behind /\ Fetch => Behind'
<1> SUFFICES ASSUME Inv, Behind, Fetch PROVE Behind'
  OBVIOUS
<1>1. CASE Start
  BY <1>1, BehindKept, Etags DEF Start, onedrive, disk
<1>2. CASE FetchPage
  <2>1. \A c \in acc' : c \in acc \/ \E i \in Items : c = cloud[i]
    BY <1>2 DEF FetchPage
  <2>2. cloud' = cloud /\ rows' = rows /\ pc' # "moved"
    BY <1>2 DEF FetchPage, onedrive, disk
  <2>3. \A c \in acc' : c.etag <= cloud[c.item].etag
    BY <2>1, Etags DEF Behind
  <2> QED BY <2>2, <2>3 DEF Behind
<1>3. CASE FetchFails
  BY <1>3, BehindEnded DEF FetchFails
<1>4. CASE StoreLink
  BY <1>4, BehindKept, Etags DEF StoreLink, onedrive
<1>5. CASE StoreLinkFails
  BY <1>5, BehindEnded DEF StoreLinkFails
<1>6. CASE StoreRow
  <2>1. PICK c \in acc :
           /\ acc' = acc \ {c}
           /\ rows' = IF Detect(c) = "no_change" THEN rows
                      ELSE Append(rows, [change |-> c, op |-> Detect(c), status |-> "new"])
    BY <1>6 DEF StoreRow
  <2>2. cloud' = cloud /\ pc' = "storing"
    BY <1>6 DEF StoreRow, onedrive
  <2>3. CASE Detect(c) = "no_change"
    BY <2>1, <2>2, <2>3 DEF Behind
  <2>4. CASE Detect(c) # "no_change"
    <3>1. c \in Change
      BY DEF Inv, TypeOK
    <3>2. \A r \in DOMAIN rows' : \/ rows'[r].change = c
                                  \/ r \in DOMAIN rows /\ rows'[r] = rows[r]
      BY <2>1, <2>4, <3>1, RowAppended DEF Inv
    <3> QED BY <2>1, <2>2, <3>2 DEF Behind
  <2> QED BY <2>3, <2>4
<1>7. CASE StoreRowFails
  BY <1>7, BehindEnded DEF StoreRowFails
<1> QED BY <1>1, <1>2, <1>3, <1>4, <1>5, <1>6, <1>7 DEF Fetch

\* The steps on the rows.
LEMMA BehindProcessRows == Inv /\ Behind /\ ProcessRows => Behind'
<1> SUFFICES ASSUME Inv, Behind, ProcessRows PROVE Behind'
  OBVIOUS
<1>1. CASE ListRows
  BY <1>1, BehindKept, Etags DEF ListRows, onedrive, disk
<1>2. CASE BeginRow
  <2>1. PICK r \in todo : rows' = [rows EXCEPT ![r].status = "processing"]
    BY <1>2 DEF BeginRow
  <2>2. r \in DOMAIN rows
    BY <1>2 DEF BeginRow, Inv, InRange
  <2>3. DOMAIN rows' = DOMAIN rows /\ \A q \in DOMAIN rows : rows'[q].change = rows[q].change
    BY <2>1, <2>2, StatusKeepsChanges DEF Inv, RowStates
  <2> QED BY <1>2, <2>3, BehindKept, Etags DEF BeginRow, onedrive
<1>3. CASE ApplyContent
  BY <1>3, BehindKept, Etags DEF ApplyContent, onedrive
<1>4. CASE Enqueue
  BY <1>4, BehindKept, Etags DEF Enqueue, onedrive
<1>5. CASE ApplyDelete
  BY <1>5, BehindKept, Etags DEF ApplyDelete, onedrive
<1>6. CASE ApplyDeleteFailsQuietly
  BY <1>6, BehindKept, Etags DEF ApplyDeleteFailsQuietly, onedrive
<1>7. CASE MoveOnServer
  <2> DEFINE i == rows[cur].change.item
             c == [cloud[i] EXCEPT !.parent = rows[cur].change.parent]
  <2>1. cur \in DOMAIN rows
    BY <1>7 DEF MoveOnServer, Inv, InRange, OfRow
  <2>2. i \in Items /\ rows[cur].change \in Change
    BY <2>1, RowAtHand DEF Inv
  <2>3. c \in Change
    <3>1. cloud[i] \in Change /\ rows[cur].change.parent \in Folders
      BY <2>2 DEF Inv, TypeOK, Change
    <3> HIDE DEF i
    <3> QED BY <3>1 DEF Change
  <2>4. cloud' = cloud \/ Put(c)
    BY <1>7 DEF MoveOnServer
  <2>5. \A j \in Items : cloud'[j].etag \in Nat /\ cloud[j].etag <= cloud'[j].etag
    <3>1. CASE cloud' = cloud
      BY <3>1, Etags
    <3>2. CASE Put(c)
      BY <2>3, <3>2, PutNewer
    <3> QED BY <2>4, <3>1, <3>2
  <2>6. /\ answer' = cloud'[i].etag /\ cur' = cur /\ rows' = rows /\ acc' = acc
    BY <1>7 DEF MoveOnServer, disk
  <2>7. rows[cur].change.etag <= answer'
    BY <2>1, <2>2, <2>5, <2>6, Etags DEF Behind
  <2> QED BY <2>1, <2>5, <2>6, <2>7, BehindKept
<1>8. CASE StoreMoved
  BY <1>8, BehindKept, Etags DEF StoreMoved, onedrive
<1>9. ASSUME pc \in OfRow, NEW s \in RowStates, SetStatus(s)
      PROVE  /\ DOMAIN rows' = DOMAIN rows
             /\ \A q \in DOMAIN rows : rows'[q].change = rows[q].change
  BY <1>9, StatusKeepsChanges DEF SetStatus, Inv, InRange, OfRow
<1>10. CASE FinishRow
  <2>1. /\ DOMAIN rows' = DOMAIN rows
        /\ \A q \in DOMAIN rows : rows'[q].change = rows[q].change
    BY <1>9, <1>10 DEF FinishRow, OfRow, RowStates
  <2> QED BY <1>10, <2>1, BehindKept, Etags DEF FinishRow, onedrive
<1>11. CASE RowFails
  <2>1. /\ DOMAIN rows' = DOMAIN rows
        /\ \A q \in DOMAIN rows : rows'[q].change = rows[q].change
    BY <1>9, <1>11 DEF RowFails, OfRow, RowStates
  <2> QED BY <1>11, <2>1, BehindKept, Etags DEF RowFails, onedrive
<1> QED BY <1>1, <1>2, <1>3, <1>4, <1>5, <1>6, <1>7, <1>8, <1>10, <1>11 DEF ProcessRows

\* The steps on the downloads.
LEMMA BehindDownloads == Inv /\ Behind /\ Downloads => Behind'
<1> SUFFICES ASSUME Inv, Behind, Downloads PROVE Behind'
  OBVIOUS
<1>1. CASE ListDownloads
  BY <1>1, BehindKept, Etags DEF ListDownloads, onedrive, disk
<1>2. CASE FetchContent
  BY <1>2, BehindKept, Etags DEF FetchContent, onedrive
<1>3. CASE DownloadFails
  BY <1>3, BehindKept, Etags DEF DownloadFails, onedrive
<1>4. CASE MarkCompleted
  BY <1>4, BehindKept, Etags DEF MarkCompleted, onedrive
<1>5. CASE MoveToLocal
  BY <1>5, BehindKept, Etags DEF MoveToLocal, onedrive
<1>6. CASE DownloadAborts
  BY <1>6, BehindEnded DEF DownloadAborts
<1>7. CASE Finish
  BY <1>7, BehindEnded DEF Finish
<1> QED BY <1>1, <1>2, <1>3, <1>4, <1>5, <1>6, <1>7 DEF Downloads

\* No entry gets ahead of what the rows and the link cover.
LEMMA BehindNext == Inv /\ Behind /\ [Next]_vars => Behind'
<1> SUFFICES ASSUME Inv, Behind, [Next]_vars PROVE Behind'
  OBVIOUS
<1>1. CASE \E i \in Items : RemoteChange(i)
  <2>1. \E c \in Change : Put(c)
    BY <1>1, RemoteChangePuts DEF Inv
  <2>2. \A j \in Items : cloud'[j].etag \in Nat /\ cloud[j].etag <= cloud'[j].etag
    BY <2>1, PutNewer
  <2>3. acc' = acc /\ rows' = rows /\ pc' = pc /\ cur' = cur /\ answer' = answer
    BY <1>1 DEF RemoteChange, disk, cycle
  <2> QED BY <2>2, <2>3, Etags DEF Behind
<1>2. CASE Expire \/ UNCHANGED vars
  BY <1>2 DEF Expire, Behind, vars, onedrive, disk, cycle
<1>3. CASE Crash
  BY <1>3, BehindEnded DEF Crash
<1> QED BY <1>1, <1>2, <1>3, BehindFetch, BehindProcessRows, BehindDownloads DEF Next

\* It holds at the start.
LEMMA SpecBehind == Spec => []Behind
<1>1. Init => Behind
  <2>1. Init => DOMAIN rows = {} /\ acc = {} /\ pc = "idle"
    BY EmptySeq, LenProperties DEF Init
  <2> QED BY <2>1 DEF Behind
<1> QED BY <1>1, Invariance, BehindNext, PTL DEF Spec

\* An entry is stored only for the row at hand, with the version of that row or
\* with the one of the answer.
LEMMA EntryStored ==
    ASSUME Inv, Behind, [Next]_vars, NEW i \in Items, db'[i].etag < db[i].etag
    PROVE  /\ cur \in DOMAIN rows
           /\ rows[cur].change.item = i
           /\ rows[cur].change.etag <= db'[i].etag
<1>1. db[i].etag \in Nat /\ db \in [Items -> Change]
  BY DEF Inv, TypeOK, Change
<1>2. db' # db
  BY <1>1
<1>3. CASE ApplyContent
  <2>1. cur \in DOMAIN rows
    BY <1>3 DEF ApplyContent, Inv, InRange, OfRow
  <2>2. rows[cur].change.item \in Items /\ rows[cur].change.etag \in Nat
    BY <2>1, Etags
  <2>3. db' = [db EXCEPT ![rows[cur].change.item] = rows[cur].change]
    BY <1>3 DEF ApplyContent, Store
  <2> QED BY <1>1, <2>1, <2>2, <2>3
<1>4. CASE StoreMoved
  <2> DEFINE c == [rows[cur].change EXCEPT !.etag = answer]
  <2>1. cur \in DOMAIN rows
    BY <1>4 DEF StoreMoved, Inv, InRange, OfRow
  <2>2. rows[cur].change \in Change /\ rows[cur].change.item \in Items
    BY <2>1, RowAtHand DEF Inv
  <2>3. c.item = rows[cur].change.item /\ c.etag = answer
    BY <2>2 DEF Change
  <2>4. db' = [db EXCEPT ![c.item] = c]
    BY <1>4 DEF StoreMoved, Store
  <2>5. rows[cur].change.etag <= answer
    BY <1>4 DEF StoreMoved, Behind
  <2> HIDE DEF c
  <2> QED BY <1>1, <2>1, <2>2, <2>3, <2>4, <2>5
<1>5. ASSUME NEW j \in Items, db' = MarkedDeleted(j)
      PROVE  FALSE
  <2> DEFINE e == [db[j] EXCEPT !.deleted = (db[j].etag # 0)]
  <2>1. db' = [db EXCEPT ![j] = e]
    BY <1>5 DEF MarkedDeleted
  <2>2. db[j] \in Change
    BY <1>1
  <2>3. e.etag = db[j].etag
    BY <2>2 DEF Change
  <2> HIDE DEF e
  <2>4. db'[i].etag = db[i].etag
    BY <1>1, <2>1, <2>3
  <2> QED BY <1>1, <2>4
<1>6. CASE ApplyDelete \/ ApplyDeleteFailsQuietly
  <2>1. cur \in DOMAIN rows
    BY <1>6 DEF ApplyDelete, ApplyDeleteFailsQuietly, Inv, InRange, OfRow
  <2>2. rows[cur].change.item \in Items
    BY <2>1, Etags
  <2>3. db' = MarkedDeleted(rows[cur].change.item)
    BY <1>2, <1>6 DEF ApplyDelete, ApplyDeleteFailsQuietly
  <2> QED BY <1>5, <2>2, <2>3
<1>7. CASE Fetch
  BY <1>2, <1>7 DEF Fetch, Start, FetchPage, FetchFails, StoreLink, StoreLinkFails, StoreRow,
                    StoreRowFails, disk
<1>8. CASE Downloads
  BY <1>2, <1>8 DEF Downloads, ListDownloads, FetchContent, DownloadFails, MarkCompleted,
                    MoveToLocal, DownloadAborts, Finish, disk
<1>9. CASE ListRows \/ BeginRow \/ Enqueue \/ MoveOnServer \/ FinishRow \/ RowFails
  BY <1>2, <1>9 DEF ListRows, BeginRow, Enqueue, MoveOnServer, FinishRow, RowFails, disk
<1>10. CASE (\E j \in Items : RemoteChange(j)) \/ Expire \/ Crash \/ UNCHANGED vars
  BY <1>2, <1>10 DEF RemoteChange, Expire, Crash, vars, disk
<1> QED BY <1>3, <1>4, <1>6, <1>7, <1>8, <1>9, <1>10 DEF Next, ProcessRows

\* Whatever fails and however often: an entry goes back to an older version
\* only after a younger row of the item had its turn, or when that version did
\* not come from a row.
THEOREM RegressesOnRetry == Spec => RegressesOnlyOnRetry
<1>1. ASSUME Inv, Behind, [Next]_vars, NEW i \in Items, db'[i].etag < db[i].etag,
             NEW s \in DOMAIN rows,
             rows[s].change.item = i, rows[s].change.etag = db[i].etag,
             rows[s].status # "new"
      PROVE  s > cur
  <2>1. /\ cur \in DOMAIN rows /\ rows[cur].change.item = i
        /\ rows[cur].change.etag <= db'[i].etag
    BY <1>1, EntryStored
  <2>2. rows[cur].change.etag \in Nat /\ rows[s].change.etag \in Nat
    BY <2>1, Etags, <1>1
  <2>3. db'[i].etag \in Nat
    <3>1. Inv'
      BY <1>1, NextInv
    <3> QED BY <3>1 DEF Inv, TypeOK, Change
  <2>4. rows[cur].change.etag < rows[s].change.etag
    BY <1>1, <2>1, <2>2, <2>3
  <2>5. ~(s < cur) /\ s # cur
    BY <1>1, <2>1, <2>2, <2>4 DEF Inv, RowsInOrder
  <2>6. s \in Nat /\ cur \in Nat
    BY LenProperties, <1>1, <2>1 DEF Inv, TypeOK
  <2> QED BY <2>5, <2>6
<1>2. Inv /\ Behind /\ [Next]_vars =>
        [\A i \in Items : db'[i].etag < db[i].etag =>
          \/ \E r \in DOMAIN rows : /\ r > cur
                                    /\ rows[r].change.item = i
                                    /\ rows[r].status # "new"
          \/ \A r \in DOMAIN rows : /\ rows[r].change.item = i
                                    /\ rows[r].change.etag = db[i].etag
                                    => rows[r].status = "new"]_vars
  BY <1>1
<1> QED BY <1>2, SpecBehind, Invariance, PTL DEF Spec, RegressesOnlyOnRetry

-----------------------------------------------------------------------------
\* What is missed was cut.  MissedOnlyIfCut is not inductive: it says neither
\* what the cycle has to hold before it saves the link, nor what a row that was
\* handled leaves behind.  Traced adds, besides Inv and Behind:
\*   Versions   a row or a fetched change is a version the server had: with the
\*              etag of the item it is the item, and deletion is final;
\*   Entries    so an entry is marked as deleted only when the item is gone;
\*   Gathered   until the link is saved, each change it will cover is fetched;
\*   Deletions  a deletion the link covers is known, or was cut;
\*   Settled    the handler of a row leaves the item as the server has it, when
\*              the row has its last version;
\*   Answered   the answer to a move is not ahead of the server.

Faithful(c) ==
    /\ c.deleted => cloud[c.item].deleted
    /\ c.etag = cloud[c.item].etag => c = cloud[c.item]

Versions ==
    /\ \A c \in acc : Faithful(c)
    /\ \A r \in DOMAIN rows : /\ Faithful(rows[r].change)
                              /\ rows[r].op = "delete" => rows[r].change.deleted

Entries == \A i \in Items : db[i].item = i /\ (db[i].deleted => cloud[i].deleted)

Gathered ==
    pc \in {"fetching", "saving"} => \A i \in Items :
        link < cloud[i].etag /\ cloud[i].etag <= token => cloud[i] \in acc

Done(c) == \E r \in DOMAIN rows : rows[r].change = c /\ rows[r].status = "done"

Deletions ==
    \A i \in Items : cloud[i].deleted /\ cloud[i].etag <= link =>
        InHand(cloud[i]) \/ Done(cloud[i]) \/ cloud[i] \in cut

Settled ==
    pc \in {"enqueueing", "finishing"} => \A i \in Items :
        rows[cur].change = cloud[i] => Reflected(i) \/ cloud[i] \in cut

Answered == pc = "moved" => answer <= cloud[rows[cur].change.item].etag

Traced == /\ Versions /\ Entries /\ Gathered /\ Deletions /\ Settled /\ Answered
          /\ MissedOnlyIfCut

\* What a step does to the server: an item stays or gets a new version, and a
\* deletion is final.
ServerMoves ==
    \A i \in Items :
        \/ cloud'[i] = cloud[i]
        \/ clock < cloud'[i].etag /\ (cloud[i].deleted => cloud'[i].deleted)

\* A change does so when it leaves a deleted item deleted.
LEMMA PutMoves ==
    ASSUME Inv, NEW c \in Change, Put(c), cloud[c.item].deleted => c.deleted
    PROVE  ServerMoves
<1> DEFINE e == [c EXCEPT !.etag = clock + 1]
<1>1. c.item \in Items /\ clock \in Nat /\ cloud \in [Items -> Change]
  BY DEF Change, Inv, TypeOK
<1>2. e.etag = clock + 1 /\ e.deleted = c.deleted
  BY <1>1 DEF Change
<1>3. cloud' = [cloud EXCEPT ![c.item] = e]
  BY DEF Put
<1> HIDE DEF e
<1>4. cloud'[c.item] = e /\ \A i \in Items : i # c.item => cloud'[i] = cloud[i]
  BY <1>1, <1>3
<1>5. clock < e.etag
  BY <1>1, <1>2
<1> QED BY <1>2, <1>4, <1>5 DEF ServerMoves

\* The other clients change an item that exists, or bring a new one.
LEMMA RemoteChangeMoves ==
    ASSUME Inv, NEW i \in Items, RemoteChange(i)
    PROVE  ServerMoves
<1>1. /\ cloud[i] \in Change /\ cloud[i].item = i
      /\ clock \in Nat /\ clock + 1 \in Nat
  BY DEF Inv, TypeOK
<1>2. CASE \E f \in Folders : Put([cloud[i] EXCEPT !.content = clock + 1, !.parent = f])
  <2>1. PICK f \in Folders : Put([cloud[i] EXCEPT !.content = clock + 1, !.parent = f])
    BY <1>2
  <2> DEFINE c == [cloud[i] EXCEPT !.content = clock + 1, !.parent = f]
  <2>2. c \in Change /\ c.item = i /\ c.deleted = cloud[i].deleted
    BY <1>1 DEF Change
  <2>3. Put(c)
    BY <2>1
  <2> HIDE DEF c
  <2> QED BY <2>2, <2>3, PutMoves
<1>3. CASE Put([cloud[i] EXCEPT !.content = clock + 1])
  <2> DEFINE c == [cloud[i] EXCEPT !.content = clock + 1]
  <2>1. c \in Change /\ c.item = i /\ c.deleted = cloud[i].deleted
    BY <1>1 DEF Change
  <2>2. Put(c)
    BY <1>3
  <2> HIDE DEF c
  <2> QED BY <2>1, <2>2, PutMoves
<1>4. CASE \E f \in Folders : Put([cloud[i] EXCEPT !.parent = f])
  <2>1. PICK f \in Folders : Put([cloud[i] EXCEPT !.parent = f])
    BY <1>4
  <2> DEFINE c == [cloud[i] EXCEPT !.parent = f]
  <2>2. c \in Change /\ c.item = i /\ c.deleted = cloud[i].deleted
    BY <1>1 DEF Change
  <2>3. Put(c)
    BY <2>1
  <2> HIDE DEF c
  <2> QED BY <2>2, <2>3, PutMoves
<1>5. CASE Put([cloud[i] EXCEPT !.deleted = TRUE])
  <2> DEFINE c == [cloud[i] EXCEPT !.deleted = TRUE]
  <2>1. c \in Change /\ c.item = i /\ c.deleted
    BY <1>1 DEF Change
  <2>2. Put(c)
    BY <1>5
  <2> HIDE DEF c
  <2> QED BY <2>1, <2>2, PutMoves
<1> QED BY <1>2, <1>3, <1>4, <1>5 DEF RemoteChange

\* The daemon moves an item on the server, which answers with its etag.
LEMMA MoveMoves ==
    ASSUME Inv, MoveOnServer
    PROVE  /\ ServerMoves
           /\ answer' = cloud'[rows[cur].change.item].etag
           /\ rows[cur].change.item \in Items
<1> DEFINE i == rows[cur].change.item
           c == [cloud[i] EXCEPT !.parent = rows[cur].change.parent]
<1>1. cur \in DOMAIN rows
  BY DEF MoveOnServer, Inv, InRange, OfRow
<1>2. i \in Items /\ rows[cur].change.parent \in Folders
  BY <1>1, RowAtHand DEF Inv, Change
<1>3. cloud' = cloud \/ Put(c)
  BY DEF MoveOnServer
<1>4. answer' = cloud'[i].etag
  BY DEF MoveOnServer
<1>5. cloud[i] \in Change /\ cloud[i].item = i
  BY <1>2 DEF Inv, TypeOK
<1>6. c \in Change /\ c.item = i /\ c.deleted = cloud[i].deleted
  <2> HIDE DEF i
  <2> QED BY <1>2, <1>5 DEF Change
<1>7. ServerMoves
  <2>1. CASE cloud' = cloud
    BY <2>1 DEF ServerMoves
  <2>2. CASE Put(c)
    <3> HIDE DEF c
    <3> QED BY <1>6, <2>2, PutMoves
  <2> QED BY <1>3, <2>1, <2>2
<1> QED BY <1>2, <1>4, <1>7

\* Nothing else changes the server.
LEMMA NextMoves ==
    ASSUME Inv, [Next]_vars
    PROVE  ServerMoves
<1>1. CASE \E i \in Items : RemoteChange(i)
  BY <1>1, RemoteChangeMoves
<1>2. CASE MoveOnServer
  BY <1>2, MoveMoves
<1>3. CASE cloud' = cloud
  BY <1>3 DEF ServerMoves
<1>4. CASE Fetch
  BY <1>3, <1>4 DEF Fetch, Start, FetchPage, FetchFails, StoreLink, StoreLinkFails, StoreRow,
                    StoreRowFails, onedrive
<1>5. CASE Downloads
  BY <1>3, <1>5 DEF Downloads, ListDownloads, FetchContent, DownloadFails, MarkCompleted,
                    MoveToLocal, DownloadAborts, Finish, onedrive
<1>6. CASE ProcessRows
  BY <1>2, <1>3, <1>6 DEF ProcessRows, ListRows, BeginRow, ApplyContent, Enqueue, ApplyDelete,
                    ApplyDeleteFailsQuietly, StoreMoved, FinishRow, RowFails, onedrive
<1>7. CASE Expire \/ Crash \/ UNCHANGED vars
  BY <1>3, <1>7 DEF Expire, Crash, vars, onedrive
<1> QED BY <1>1, <1>4, <1>5, <1>6, <1>7 DEF Next

\* What the steps on the row at hand do to the rows and to the entries.
LEMMA StatusSets ==
    ASSUME TypeOK, NEW r \in DOMAIN rows, NEW s \in RowStates,
           rows' = [rows EXCEPT ![r].status = s]
    PROVE  /\ DOMAIN rows' = DOMAIN rows
           /\ rows'[r].status = s
           /\ \A q \in DOMAIN rows : /\ rows'[q].change = rows[q].change
                                     /\ rows'[q].op = rows[q].op
                                     /\ q # r => rows'[q] = rows[q]
<1> DEFINE e == [rows[r] EXCEPT !.status = s]
<1>1. rows \in Seq(Row) /\ DOMAIN rows = 1..Len(rows)
  BY LenProperties DEF TypeOK
<1>2. rows[r] \in Row
  BY <1>1, ElementOfSeq
<1>3. e \in Row /\ e.change = rows[r].change /\ e.op = rows[r].op /\ e.status = s
  BY <1>2 DEF Row
<1>4. rows' = [rows EXCEPT ![r] = e]
  OBVIOUS
<1> HIDE DEF e
<1>5. rows' \in Seq(Row) /\ Len(rows') = Len(rows)
  BY <1>1, <1>3, <1>4, ExceptSeq
<1>6. DOMAIN rows' = 1..Len(rows')
  BY <1>5, LenProperties
<1> QED BY <1>1, <1>3, <1>4, <1>5, <1>6

\* Storing replaces one entry.
LEMMA StoreSets ==
    ASSUME TypeOK, NEW c \in Change, Store(c)
    PROVE  /\ c.item \in Items
           /\ db'[c.item] = c
           /\ \A i \in Items : i # c.item => db'[i] = db[i]
           /\ cut' = cut \union Overwritten
<1>1. c.item \in Items /\ db \in [Items -> Change]
  BY DEF Change, TypeOK
<1> QED BY <1>1 DEF Store

\* Marking changes the mark of one entry.
LEMMA MarkSets ==
    ASSUME TypeOK, NEW i \in Items, db' = MarkedDeleted(i)
    PROVE  /\ db'[i].item = db[i].item
           /\ db'[i].etag = db[i].etag
           /\ db'[i].parent = db[i].parent /\ db'[i].content = db[i].content
           /\ db'[i].deleted <=> db[i].etag # 0
           /\ \A j \in Items : j # i => db'[j] = db[j]
<1> DEFINE b == (db[i].etag # 0)
           e == [db[i] EXCEPT !.deleted = b]
<1>1. db[i] \in Change /\ db \in [Items -> Change]
  BY DEF TypeOK
<1>2. db' = [db EXCEPT ![i] = e]
  BY DEF MarkedDeleted
<1>3. db'[i] = e /\ \A j \in Items : j # i => db'[j] = db[j]
  <2> HIDE DEF e
  <2> QED BY <1>1, <1>2
<1>4. /\ e.item = db[i].item /\ e.etag = db[i].etag /\ e.deleted = b
      /\ e.parent = db[i].parent /\ e.content = db[i].content
  <2> HIDE DEF b
  <2> QED BY <1>1 DEF Change
<1> QED BY <1>3, <1>4

\* What a moved item is stored as.
LEMMA AnsweredRecord ==
    ASSUME TypeOK, NEW c \in Change
    PROVE  LET m == [c EXCEPT !.etag = answer] IN
           /\ m \in Change /\ m.item = c.item /\ m.deleted = c.deleted
           /\ m.etag = answer /\ m.parent = c.parent /\ m.content = c.content
           /\ answer = c.etag => m = c
<1>1. answer \in Nat
  BY DEF TypeOK
<1> QED BY <1>1 DEF Change

\* What is known of the row at hand.
LEMMA RowNow ==
    ASSUME Inv, Behind, pc \in OfRow
    PROVE  /\ cur \in DOMAIN rows
           /\ rows[cur] \in Row
           /\ rows[cur].change \in Change
           /\ rows[cur].change.item \in Items
           /\ rows[cur].change.etag \in Nat
           /\ cloud[rows[cur].change.item].etag \in Nat
           /\ rows[cur].change.etag <= cloud[rows[cur].change.item].etag
<1>1. cur \in DOMAIN rows
  BY DEF Inv, InRange
<1>2. rows[cur] \in Row /\ rows[cur].change \in Change /\ rows[cur].change.item \in Items
  BY <1>1, RowAtHand DEF Inv
<1> QED BY <1>1, <1>2, Etags DEF Behind, Inv

-----------------------------------------------------------------------------
\* Versions.

\* A version stays one the server had.
LEMMA FaithfulKept ==
    ASSUME Inv, ServerMoves, NEW c \in Change, c.etag <= clock, Faithful(c)
    PROVE  Faithful(c)'
<1>1. c.item \in Items /\ c.etag \in Nat /\ clock \in Nat
  BY DEF Inv, TypeOK, Change
<1>2. CASE cloud'[c.item] = cloud[c.item]
  BY <1>2 DEF Faithful
<1>3. CASE clock < cloud'[c.item].etag /\ (cloud[c.item].deleted => cloud'[c.item].deleted)
  <2>1. c.etag # cloud'[c.item].etag
    BY <1>1, <1>3
  <2> QED BY <1>3, <2>1 DEF Faithful
<1> QED BY <1>1, <1>2, <1>3 DEF ServerMoves

\* Every change at hand is on a version the server had.
LEMMA FaithfulStays ==
    ASSUME Inv, Behind, Versions, ServerMoves
    PROVE  /\ \A c \in acc : Faithful(c)'
           /\ \A r \in DOMAIN rows, c \in Change : c = rows[r].change => Faithful(c)'
<1>1. \A c \in acc : c \in Change /\ c.etag <= clock
  <2> TAKE c \in acc
  <2>1. c.item \in Items /\ c.etag <= cloud[c.item].etag /\ c.etag \in Nat
    BY Etags DEF Behind
  <2>2. cloud[c.item].etag <= clock /\ cloud[c.item].etag \in Nat /\ clock \in Nat
    BY <2>1, Etags
  <2> QED BY <2>1, <2>2 DEF Inv, TypeOK
<1>2. \A r \in DOMAIN rows : rows[r].change \in Change /\ rows[r].change.etag <= clock
  <2> TAKE r \in DOMAIN rows
  <2>1. /\ rows[r].change.item \in Items /\ rows[r].change.etag \in Nat
        /\ rows[r].change.etag <= cloud[rows[r].change.item].etag
    BY Etags DEF Behind
  <2>2. /\ cloud[rows[r].change.item].etag <= clock
        /\ cloud[rows[r].change.item].etag \in Nat /\ clock \in Nat
    BY <2>1, Etags
  <2> QED BY <2>1, <2>2, RowAtHand DEF Inv
<1>3. \A c \in acc : Faithful(c)'
  BY <1>1, FaithfulKept DEF Versions
<1>4. \A r \in DOMAIN rows, c \in Change : c = rows[r].change => Faithful(c)'
  BY <1>2, FaithfulKept DEF Versions
<1> QED BY <1>3, <1>4

\* Steps that bring neither rows nor changes.
LEMMA VersionsKept ==
    ASSUME Inv, Behind, Versions, ServerMoves, acc' \subseteq acc,
           DOMAIN rows' = DOMAIN rows,
           \A r \in DOMAIN rows : rows'[r].change = rows[r].change /\ rows'[r].op = rows[r].op
    PROVE  Versions'
<1>1. \A c \in acc' : Faithful(c)'
  BY FaithfulStays
<1>2. ASSUME NEW r \in DOMAIN rows'
      PROVE  /\ Faithful(rows[r].change)'
             /\ rows'[r].op = "delete" => rows'[r].change.deleted
  <2>1. r \in DOMAIN rows /\ rows'[r].change = rows[r].change /\ rows'[r].op = rows[r].op
    BY <1>2
  <2> DEFINE c == rows[r].change
  <2>2. c \in Change
    BY <2>1, RowAtHand DEF Inv
  <2>3. /\ c.deleted => cloud'[c.item].deleted
        /\ c.etag = cloud'[c.item].etag => c = cloud'[c.item]
    <3>1. \A d \in Change : d = c => Faithful(d)'
      BY <2>1, FaithfulStays
    <3> HIDE DEF c
    <3> QED BY <2>2, <3>1 DEF Faithful
  <2>4. rows[r].op = "delete" => c.deleted
    BY <2>1 DEF Versions
  <2> QED BY <2>1, <2>3, <2>4 DEF Faithful
<1> QED BY <1>1, <1>2 DEF Versions

\* The steps that fetch bring versions of the server.
LEMMA VersionsFetch == Inv /\ Behind /\ Versions /\ Fetch => Versions'
<1> SUFFICES ASSUME Inv, Behind, Versions, Fetch PROVE Versions'
  OBVIOUS
<1>1. cloud' = cloud /\ ServerMoves
  BY DEF Fetch, Start, FetchPage, FetchFails, StoreLink, StoreLinkFails, StoreRow,
         StoreRowFails, onedrive, ServerMoves
<1>2. CASE FetchPage
  <2>1. rows' = rows /\ acc' \subseteq acc \union {cloud[i] : i \in Items}
    BY <1>2 DEF FetchPage, disk
  <2>2. \A i \in Items : cloud[i].item = i
    BY DEF Inv, TypeOK
  <2>3. \A c \in acc' : Faithful(c)
    BY <2>1, <2>2 DEF Versions, Faithful
  <2> QED BY <1>1, <2>1, <2>3 DEF Versions, Faithful
<1>3. CASE StoreRow
  <2>1. PICK c \in acc :
           /\ acc' = acc \ {c}
           /\ rows' = IF Detect(c) = "no_change" THEN rows
                      ELSE Append(rows, [change |-> c, op |-> Detect(c), status |-> "new"])
    BY <1>3 DEF StoreRow
  <2>2. CASE Detect(c) = "no_change"
    BY <1>1, <2>1, <2>2 DEF Versions, Faithful
  <2>3. CASE Detect(c) # "no_change"
    <3>1. /\ DOMAIN rows = 1..Len(rows) /\ Len(rows) \in Nat
          /\ DOMAIN rows' = 1..Len(rows) + 1
          /\ \A r \in DOMAIN rows : rows'[r] = rows[r]
      BY <2>1, <2>3, RowAppended DEF Inv, TypeOK
    <3>2. rows'[Len(rows) + 1] = [change |-> c, op |-> Detect(c), status |-> "new"]
      BY <2>1, <2>3, AppendProperties DEF Inv, TypeOK
    <3>3. /\ rows'[Len(rows) + 1].change = c
          /\ rows'[Len(rows) + 1].op = Detect(c)
      BY <3>2
    <3>4. Detect(c) = "delete" => c.deleted
      BY DEF Detect
    <3>5. \A r \in DOMAIN rows' : r \in DOMAIN rows \/ r = Len(rows) + 1
      BY <3>1
    <3> QED BY <1>1, <2>1, <3>1, <3>3, <3>4, <3>5 DEF Versions, Faithful
  <2> QED BY <2>2, <2>3
<1>4. CASE Start \/ FetchFails \/ StoreLink \/ StoreLinkFails \/ StoreRowFails
  BY <1>1, <1>4, VersionsKept DEF Start, FetchFails, StoreLink, StoreLinkFails, StoreRowFails,
                                  EndCycle, disk
<1> QED BY <1>2, <1>3, <1>4 DEF Fetch

\* A version that is stored or at hand is one its item had.
LEMMA VersionsNext == Inv /\ Behind /\ Versions /\ [Next]_vars => Versions'
<1> SUFFICES ASSUME Inv, Behind, Versions, [Next]_vars PROVE Versions'
  OBVIOUS
<1>1. ServerMoves
  BY NextMoves
<1>2. CASE acc' \subseteq acc /\ rows' = rows
  BY <1>1, <1>2, VersionsKept
<1>3. CASE acc' = acc /\ \E r \in DOMAIN rows, s \in RowStates :
                            rows' = [rows EXCEPT ![r].status = s]
  BY <1>1, <1>3, StatusSets, VersionsKept DEF Inv
<1>4. CASE Fetch
  BY <1>4, VersionsFetch
<1>5. CASE BeginRow
  <2>1. /\ acc' = acc /\ todo \subseteq DOMAIN rows
        /\ \E r \in todo : rows' = [rows EXCEPT ![r].status = "processing"]
    BY <1>5 DEF BeginRow, Inv, InRange
  <2> QED BY <1>3, <2>1 DEF RowStates
<1>6. CASE FinishRow \/ RowFails
  <2>1. acc' = acc /\ cur \in DOMAIN rows /\ (SetStatus("done") \/ SetStatus("error"))
    BY <1>6 DEF FinishRow, RowFails, Inv, InRange, OfRow
  <2> QED BY <1>3, <2>1 DEF RowStates, SetStatus
<1>7. CASE ListRows \/ ApplyContent \/ Enqueue \/ ApplyDelete \/ ApplyDeleteFailsQuietly
             \/ MoveOnServer \/ StoreMoved
  BY <1>2, <1>7 DEF ListRows, ApplyContent, Enqueue, ApplyDelete, ApplyDeleteFailsQuietly,
                    MoveOnServer, StoreMoved, disk
<1>8. CASE Downloads
  BY <1>2, <1>8 DEF Downloads, ListDownloads, FetchContent, DownloadFails, MarkCompleted,
                    MoveToLocal, DownloadAborts, Finish, EndCycle, disk
<1>9. CASE (\E i \in Items : RemoteChange(i)) \/ Expire \/ Crash \/ UNCHANGED vars
  BY <1>2, <1>9 DEF RemoteChange, Expire, Crash, EndCycle, vars, disk, cycle
<1> QED BY <1>4, <1>5, <1>6, <1>7, <1>8, <1>9 DEF Next, ProcessRows

-----------------------------------------------------------------------------
\* Entries.

\* Steps that leave the entries alone.
LEMMA EntriesKept ==
    ASSUME Entries, ServerMoves, db' = db
    PROVE  Entries'
  BY DEF Entries, ServerMoves

\* One entry is replaced.
LEMMA EntryReplaced ==
    ASSUME Entries, cloud' = cloud, NEW i \in Items,
           db'[i].item = i, db'[i].deleted => cloud[i].deleted,
           \A j \in Items : j # i => db'[j] = db[j]
    PROVE  Entries'
  BY DEF Entries

\* An entry has a version its item had, or none.
LEMMA EntriesNext == Inv /\ Behind /\ Versions /\ Entries /\ [Next]_vars => Entries'
<1> SUFFICES ASSUME Inv, Behind, Versions, Entries, [Next]_vars PROVE Entries'
  OBVIOUS
<1>1. ServerMoves
  BY NextMoves
<1>2. CASE db' = db
  BY <1>1, <1>2, EntriesKept
<1>3. CASE ApplyContent
  <2>1. pc \in OfRow /\ cloud' = cloud /\ Store(rows[cur].change)
    BY <1>3 DEF ApplyContent, OfRow, onedrive
  <2>2. cur \in DOMAIN rows /\ rows[cur].change \in Change
    BY <2>1, RowNow
  <2> DEFINE c == rows[cur].change
  <2>3. c.deleted => cloud[c.item].deleted
    BY <2>2 DEF Versions, Faithful
  <2> HIDE DEF c
  <2>4. c \in Change /\ Store(c)
    BY <2>1, <2>2 DEF c
  <2>5. c.item \in Items /\ db'[c.item] = c /\ \A i \in Items : i # c.item => db'[i] = db[i]
    BY <2>4, StoreSets DEF Inv
  <2> QED BY <2>1, <2>3, <2>5, EntryReplaced
<1>4. CASE StoreMoved
  <2> DEFINE c == rows[cur].change
             m == [c EXCEPT !.etag = answer]
  <2>1. pc \in OfRow /\ cloud' = cloud /\ Store(m)
    BY <1>4 DEF StoreMoved, OfRow, onedrive
  <2>2. cur \in DOMAIN rows /\ c \in Change
    BY <2>1, RowNow
  <2>3. c.deleted => cloud[c.item].deleted
    BY <2>2 DEF Versions, Faithful
  <2> HIDE DEF c
  <2>4. m \in Change /\ m.item = c.item /\ m.deleted = c.deleted
    BY <2>2, AnsweredRecord DEF Inv
  <2> HIDE DEF m
  <2>5. m.item \in Items /\ db'[m.item] = m /\ \A i \in Items : i # m.item => db'[i] = db[i]
    BY <2>1, <2>4, StoreSets DEF Inv
  <2> QED BY <2>1, <2>3, <2>4, <2>5, EntryReplaced
<1>5. CASE (ApplyDelete \/ ApplyDeleteFailsQuietly) /\ db' # db
  <2> DEFINE i == rows[cur].change.item
  <2>1. pc \in OfRow /\ cloud' = cloud /\ rows[cur].op = "delete" /\ db' = MarkedDeleted(i)
    BY <1>5 DEF ApplyDelete, ApplyDeleteFailsQuietly, OfRow, onedrive
  <2>2. i \in Items /\ cur \in DOMAIN rows
    BY <2>1, RowNow
  <2>3. cloud[i].deleted
    BY <2>1, <2>2 DEF Versions, Faithful
  <2> HIDE DEF i
  <2>4. db'[i].item = db[i].item /\ \A j \in Items : j # i => db'[j] = db[j]
    BY <2>1, <2>2, MarkSets DEF Inv
  <2>5. db'[i].item = i
    BY <2>2, <2>4 DEF Entries
  <2> QED BY <2>1, <2>2, <2>3, <2>4, <2>5, EntryReplaced
<1>6. CASE Fetch
  BY <1>2, <1>6 DEF Fetch, Start, FetchPage, FetchFails, StoreLink, StoreLinkFails, StoreRow,
                    StoreRowFails, disk
<1>7. CASE Downloads
  BY <1>2, <1>7 DEF Downloads, ListDownloads, FetchContent, DownloadFails, MarkCompleted,
                    MoveToLocal, DownloadAborts, Finish, disk
<1>8. CASE ListRows \/ BeginRow \/ Enqueue \/ MoveOnServer \/ FinishRow \/ RowFails
  BY <1>2, <1>8 DEF ListRows, BeginRow, Enqueue, MoveOnServer, FinishRow, RowFails, disk
<1>9. CASE (\E j \in Items : RemoteChange(j)) \/ Expire \/ Crash \/ UNCHANGED vars
  BY <1>2, <1>9 DEF RemoteChange, Expire, Crash, vars, disk
<1> QED BY <1>2, <1>3, <1>4, <1>5, <1>6, <1>7, <1>8, <1>9 DEF Next, ProcessRows

-----------------------------------------------------------------------------
\* Gathered, Answered.

\* What is fetched of an item is the newest the server had.
LEMMA GatheredNext == Inv /\ Gathered /\ [Next]_vars => Gathered'
<1> SUFFICES ASSUME Inv, Gathered, [Next]_vars PROVE Gathered'
  OBVIOUS
<1>1. ServerMoves
  BY NextMoves
<1>2. /\ clock \in Nat /\ token \in Nat /\ link \in Nat /\ link <= clock /\ token <= clock
      /\ \A i \in Items : cloud[i].etag \in Nat
  BY DEF Inv, TypeOK, Clocks, Change
<1>3. \A i \in Items : cloud'[i].etag \in Nat
  <2>1. Inv'
    BY NextInv
  <2> QED BY <2>1 DEF Inv, TypeOK, Change
<1>4. CASE link' = link /\ token' = token /\ pc' = pc /\ acc' = acc
  <2> SUFFICES ASSUME pc \in {"fetching", "saving"}, NEW i \in Items,
                      link < cloud'[i].etag, cloud'[i].etag <= token
               PROVE  cloud'[i] \in acc
    BY <1>4 DEF Gathered
  <2>1. cloud'[i] = cloud[i]
    BY <1>1, <1>2, <1>3 DEF ServerMoves
  <2> QED BY <2>1 DEF Gathered
<1>5. CASE pc' \notin {"fetching", "saving"}
  BY <1>5 DEF Gathered
<1>6. CASE Start
  <2>1. token' = link /\ link' = link
    BY <1>6 DEF Start, disk
  <2> QED BY <1>2, <1>3, <2>1 DEF Gathered
<1>7. CASE FetchPage
  <2>1. PICK end \in {clock} \union (token + 1)..clock :
           /\ acc' = acc \union {cloud[i] : i \in {j \in Items :
                                    token < cloud[j].etag /\ cloud[j].etag <= end}}
           /\ token' = end
    BY <1>7 DEF FetchPage
  <2>2. link' = link /\ cloud' = cloud /\ pc = "fetching"
    BY <1>7 DEF FetchPage, onedrive, disk
  <2>3. end \in Nat
    BY <1>2
  <2> SUFFICES ASSUME NEW i \in Items, link < cloud[i].etag, cloud[i].etag <= end
               PROVE  cloud[i] \in acc'
    BY <2>1, <2>2 DEF Gathered
  <2>4. CASE cloud[i].etag <= token
    BY <2>1, <2>2, <2>4 DEF Gathered
  <2>5. CASE token < cloud[i].etag
    BY <2>1, <2>5
  <2> QED BY <1>2, <2>4, <2>5
<1>8. CASE FetchFails \/ StoreLink \/ StoreLinkFails \/ StoreRow \/ StoreRowFails
  BY <1>5, <1>8 DEF FetchFails, StoreLink, StoreLinkFails, StoreRow, StoreRowFails, EndCycle
<1>9. CASE ProcessRows
  BY <1>5, <1>9 DEF ProcessRows, ListRows, BeginRow, ApplyContent, Enqueue, ApplyDelete,
                    ApplyDeleteFailsQuietly, MoveOnServer, StoreMoved, FinishRow, RowFails
<1>10. CASE Downloads
  BY <1>5, <1>10 DEF Downloads, ListDownloads, FetchContent, DownloadFails, MarkCompleted,
                     MoveToLocal, DownloadAborts, Finish, EndCycle
<1>11. CASE Crash
  BY <1>5, <1>11 DEF Crash, EndCycle
<1>12. CASE (\E j \in Items : RemoteChange(j)) \/ Expire \/ UNCHANGED vars
  BY <1>4, <1>12 DEF RemoteChange, Expire, vars, disk, cycle
<1> QED BY <1>6, <1>7, <1>8, <1>9, <1>10, <1>11, <1>12 DEF Next, Fetch

\* What the server answered for the row at hand is not older than the row.
LEMMA AnsweredNext == Inv /\ Behind /\ Answered /\ [Next]_vars => Answered'
<1> SUFFICES ASSUME Inv, Behind, Answered, [Next]_vars PROVE Answered'
  OBVIOUS
<1>1. ServerMoves
  BY NextMoves
<1>2. CASE MoveOnServer
  <2>1. rows' = rows /\ cur' = cur
    BY <1>2 DEF MoveOnServer, disk
  <2>2. answer' = cloud'[rows[cur].change.item].etag /\ rows[cur].change.item \in Items
    BY <1>2, MoveMoves
  <2>3. Inv'
    BY NextInv
  <2>4. cloud'[rows[cur].change.item].etag \in Nat
    BY <2>2, <2>3 DEF Inv, TypeOK, Change
  <2> QED BY <2>1, <2>2, <2>4 DEF Answered
<1>3. CASE UNCHANGED <<pc, rows, cur, answer>>
  <2> SUFFICES ASSUME pc = "moved"
               PROVE  answer <= cloud'[rows[cur].change.item].etag
    BY <1>3 DEF Answered
  <2> DEFINE i == rows[cur].change.item
  <2>1. i \in Items /\ cloud[i].etag \in Nat
    BY RowNow DEF OfRow
  <2>2. answer <= cloud[i].etag
    BY DEF Answered
  <2> HIDE DEF i
  <2>3. /\ answer \in Nat /\ clock \in Nat /\ cloud[i].etag <= clock /\ cloud'[i].etag \in Nat
    <3>1. Inv'
      BY NextInv
    <3> QED BY <2>1, <3>1 DEF Inv, TypeOK, Clocks, Change
  <2>4. answer <= cloud'[i].etag
    BY <1>1, <2>1, <2>2, <2>3 DEF ServerMoves
  <2> QED BY <2>4 DEF i
<1>4. CASE pc' # "moved"
  BY <1>4 DEF Answered
<1>5. CASE Fetch
  BY <1>4, <1>5 DEF Fetch, Start, FetchPage, FetchFails, StoreLink, StoreLinkFails, StoreRow,
                    StoreRowFails, EndCycle
<1>6. CASE Downloads
  BY <1>4, <1>6 DEF Downloads, ListDownloads, FetchContent, DownloadFails, MarkCompleted,
                    MoveToLocal, DownloadAborts, Finish, EndCycle
<1>7. CASE ListRows \/ BeginRow \/ ApplyContent \/ Enqueue \/ ApplyDelete
             \/ ApplyDeleteFailsQuietly \/ StoreMoved \/ FinishRow \/ RowFails
  BY <1>4, <1>7 DEF ListRows, BeginRow, ApplyContent, Enqueue, ApplyDelete,
                    ApplyDeleteFailsQuietly, StoreMoved, FinishRow, RowFails
<1>8. CASE Crash
  BY <1>4, <1>8 DEF Crash, EndCycle
<1>9. CASE (\E j \in Items : RemoteChange(j)) \/ Expire \/ UNCHANGED vars
  BY <1>3, <1>9 DEF RemoteChange, Expire, vars, disk, cycle
<1> QED BY <1>2, <1>5, <1>6, <1>7, <1>8, <1>9 DEF Next, ProcessRows

-----------------------------------------------------------------------------
\* Settled, Deletions and MissedOnlyIfCut.

Known == Inv /\ Behind /\ Versions /\ Entries

Handle == ApplyContent \/ ApplyDelete \/ ApplyDeleteFailsQuietly \/ StoreMoved

\* A handler keeps what is at hand.
LEMMA HandleKeeps ==
    ASSUME Handle
    PROVE  /\ pc \in {"applying", "moved"} /\ pc' \in {"enqueueing", "finishing"}
           /\ UNCHANGED <<cloud, link, rows, cur>>
           /\ cut \subseteq cut'
<1>1. pc \in {"applying", "moved"} /\ pc' \in {"enqueueing", "finishing"}
  BY DEF Handle, ApplyContent, ApplyDelete, ApplyDeleteFailsQuietly, StoreMoved
<1>2. UNCHANGED <<cloud, link, rows, cur>>
  BY DEF Handle, ApplyContent, ApplyDelete, ApplyDeleteFailsQuietly, StoreMoved, onedrive
<1>3. cut \subseteq cut'
  BY DEF Handle, ApplyContent, ApplyDelete, ApplyDeleteFailsQuietly, StoreMoved, Store
<1> QED BY <1>1, <1>2, <1>3

\* Storing an older row over the item as the server has it is recorded.
LEMMA OverwrittenCatches ==
    ASSUME Known, pc \in OfRow, NEW i \in Items, i = rows[cur].change.item,
           cloud[i] # rows[cur].change,
           db[i] = cloud[i] \/ Done(cloud[i])
    PROVE  cloud[i] \in Overwritten
<1>1. /\ cur \in DOMAIN rows /\ rows[cur].change.etag \in Nat /\ cloud[i].etag \in Nat
      /\ rows[cur].change.etag <= cloud[i].etag
  BY RowNow DEF Known
<1>2. rows[cur].change.etag # cloud[i].etag
  BY <1>1 DEF Known, Versions, Faithful
<1>3. rows[cur].change.etag < cloud[i].etag
  BY <1>1, <1>2
<1>4. CASE db[i] = cloud[i]
  BY <1>3, <1>4 DEF Overwritten
<1>5. CASE Done(cloud[i])
  <2>1. PICK r \in DOMAIN rows : rows[r].change = cloud[i] /\ rows[r].status = "done"
    BY <1>5 DEF Done
  <2>2. cloud[i].item = i
    BY DEF Known, Inv, TypeOK
  <2>3. ~(r < cur) /\ r # cur
    BY <1>1, <1>3, <2>1, <2>2 DEF Known, Inv, RowsInOrder
  <2>4. r > cur
    BY <1>1, <2>1, <2>3, LenProperties DEF Known, Inv, TypeOK
  <2> QED BY <2>1, <2>2, <2>4 DEF Overwritten
<1> QED BY <1>4, <1>5

\* The handler of a row with the last version of the item leaves the item as the
\* server has it, or the deletion failed quietly.
LEMMA HandleSettles ==
    ASSUME Known, Answered, Handle, NEW i \in Items, rows[cur].change = cloud[i]
    PROVE  Reflected(i)' \/ (ApplyDeleteFailsQuietly /\ cloud[i] \in cut')
<1> DEFINE c == rows[cur].change
<1>1. c \in Change /\ c.item = i /\ c = cloud[i] /\ cur \in DOMAIN rows /\ cloud' = cloud
  BY HandleKeeps, RowNow DEF Known, Inv, TypeOK, OfRow
<1>2. CASE ApplyContent
  <2>1. Store(c)
    BY <1>2 DEF ApplyContent
  <2> HIDE DEF c
  <2> QED BY <1>1, <2>1, StoreSets DEF Known, Inv, Reflected
<1>3. CASE StoreMoved
  <2> DEFINE m == [c EXCEPT !.etag = answer]
  <2>1. Store(m) /\ pc = "moved" /\ c.etag <= answer /\ answer <= cloud[c.item].etag
    BY <1>3 DEF StoreMoved, Known, Behind, Answered
  <2> HIDE DEF c
  <2>2. answer = c.etag
    BY <1>1, <2>1 DEF Known, Inv, TypeOK, Change
  <2>3. m = c
    BY <1>1, <2>2, AnsweredRecord DEF Known, Inv
  <2> HIDE DEF m
  <2> QED BY <1>1, <2>1, <2>3, StoreSets DEF Known, Inv, Reflected
<1>4. CASE ApplyDelete \/ ApplyDeleteFailsQuietly
  <2>1. /\ rows[cur].op = "delete"
        /\ db' = MarkedDeleted(c.item) \/ (ApplyDeleteFailsQuietly /\ c \in cut')
    BY <1>4 DEF ApplyDelete, ApplyDeleteFailsQuietly
  <2>2. cloud[i].deleted
    BY <1>1, <2>1 DEF Known, Versions
  <2> HIDE DEF c
  <2>3. db' = MarkedDeleted(i) => db'[i].deleted \/ db'[i].etag = 0
    BY MarkSets DEF Known, Inv
  <2> QED BY <1>1, <2>1, <2>2, <2>3 DEF Reflected
<1> QED BY <1>2, <1>3, <1>4 DEF Handle

\* What a handler does to any item: nothing, or it replaces the entry and records
\* what it overwrites, or it marks as deleted what the server has deleted.
LEMMA HandleSets ==
    ASSUME Known, Handle, NEW i \in Items
    PROVE  \/ db'[i] = db[i]
           \/ rows[cur].change.item = i /\ cut' = cut \union Overwritten
           \/ Reflected(i)'
<1> DEFINE c == rows[cur].change
<1>1. cur \in DOMAIN rows /\ c \in Change /\ c.item \in Items /\ cloud' = cloud
  BY HandleKeeps, RowNow DEF Known, OfRow
<1>2. CASE ApplyContent
  <2>1. Store(c)
    BY <1>2 DEF ApplyContent
  <2> HIDE DEF c
  <2>2. cut' = cut \union Overwritten /\ \A j \in Items : j # c.item => db'[j] = db[j]
    BY <1>1, <2>1, StoreSets DEF Known, Inv
  <2> QED BY <2>2 DEF c
<1>3. CASE StoreMoved
  <2> DEFINE m == [c EXCEPT !.etag = answer]
  <2>1. Store(m)
    BY <1>3 DEF StoreMoved
  <2> HIDE DEF c
  <2>2. m \in Change /\ m.item = c.item
    BY <1>1, AnsweredRecord DEF Known, Inv
  <2> HIDE DEF m
  <2>3. cut' = cut \union Overwritten /\ \A j \in Items : j # c.item => db'[j] = db[j]
    BY <2>1, <2>2, StoreSets DEF Known, Inv
  <2> QED BY <2>3 DEF c
<1>4. CASE ApplyDelete \/ ApplyDeleteFailsQuietly
  <2>1. rows[cur].op = "delete" /\ (db' = MarkedDeleted(c.item) \/ db' = db)
    BY <1>4 DEF ApplyDelete, ApplyDeleteFailsQuietly
  <2>2. cloud[c.item].deleted
    BY <1>1, <2>1 DEF Known, Versions, Faithful
  <2> HIDE DEF c
  <2>3. CASE db' = MarkedDeleted(c.item)
    <3>1. /\ db'[c.item].etag = db[c.item].etag
          /\ db'[c.item].deleted <=> db[c.item].etag # 0
          /\ \A j \in Items : j # c.item => db'[j] = db[j]
      BY <1>1, <2>3, MarkSets DEF Known, Inv
    <3> QED BY <1>1, <2>2, <3>1 DEF Reflected
  <2> QED BY <2>1, <2>3
<1> QED BY <1>2, <1>3, <1>4 DEF Handle

\* A row that had its turn left its version in the entry, or was overwritten.
LEMMA SettledNext == Known /\ Answered /\ Settled /\ [Next]_vars => Settled'
<1> SUFFICES ASSUME Known, Answered, Settled, [Next]_vars PROVE Settled'
  OBVIOUS
<1>1. CASE Handle
  <2> SUFFICES ASSUME NEW i \in Items, rows[cur].change = cloud[i]
               PROVE  Reflected(i)' \/ cloud[i] \in cut'
    BY <1>1, HandleKeeps DEF Settled
  <2> QED BY <1>1, HandleSettles
<1>2. CASE UNCHANGED <<pc, rows, cur, db, cut>>
  <2> SUFFICES ASSUME pc \in {"enqueueing", "finishing"}, NEW i \in Items,
                      rows[cur].change = cloud'[i]
               PROVE  Reflected(i)' \/ cloud'[i] \in cut
    BY <1>2 DEF Settled
  <2> DEFINE c == rows[cur].change
  <2>1. ServerMoves
    BY NextMoves DEF Known
  <2>2. c.etag \in Nat /\ c.etag <= cloud[c.item].etag /\ c.item \in Items
    BY RowNow DEF Known, OfRow
  <2>3. cloud[c.item].etag \in Nat /\ cloud[c.item].etag <= clock /\ clock \in Nat
    <3> HIDE DEF c
    <3> QED BY <2>2, Etags DEF Known
  <2>4. cloud'[i] = cloud[i]
    BY <2>1, <2>2, <2>3 DEF ServerMoves
  <2> QED BY <1>2, <2>4 DEF Settled, Reflected
<1>3. CASE Enqueue
  BY <1>3 DEF Enqueue, Settled, Reflected, onedrive
<1>4. CASE pc' \notin {"enqueueing", "finishing"}
  BY <1>4 DEF Settled
<1>5. CASE Fetch
  BY <1>4, <1>5 DEF Fetch, Start, FetchPage, FetchFails, StoreLink, StoreLinkFails, StoreRow,
                    StoreRowFails, EndCycle
<1>6. CASE Downloads
  BY <1>4, <1>6 DEF Downloads, ListDownloads, FetchContent, DownloadFails, MarkCompleted,
                    MoveToLocal, DownloadAborts, Finish, EndCycle
<1>7. CASE ListRows \/ BeginRow \/ MoveOnServer \/ FinishRow \/ RowFails
  BY <1>4, <1>7 DEF ListRows, BeginRow, MoveOnServer, FinishRow, RowFails
<1>8. CASE Crash
  BY <1>4, <1>8 DEF Crash, EndCycle
<1>9. CASE (\E j \in Items : RemoteChange(j)) \/ Expire \/ UNCHANGED vars
  BY <1>2, <1>9 DEF RemoteChange, Expire, vars, disk, cycle
<1> QED BY <1>1, <1>3, <1>5, <1>6, <1>7, <1>8, <1>9 DEF Next, ProcessRows, Handle

Accounted == Deletions /\ MissedOnlyIfCut

\* A change that the link covers is not replaced while the link stays.
LEMMA Covered ==
    ASSUME Inv, [Next]_vars, link' = link, NEW i \in Items, cloud'[i].etag <= link
    PROVE  cloud'[i] = cloud[i]
<1>1. cloud'[i].etag \in Nat
  <2>1. Inv'
    BY NextInv
  <2> QED BY <2>1 DEF Inv, TypeOK, Change
<1>2. link \in Nat /\ clock \in Nat /\ link <= clock
  BY DEF Inv, TypeOK, Clocks
<1> QED BY <1>1, <1>2, NextMoves DEF ServerMoves

\* Steps that touch neither the rows nor the entries: what the cycle held, it
\* still holds, or it is cut.
LEMMA QuietAccounted ==
    ASSUME Inv, Accounted, [Next]_vars, UNCHANGED <<link, db, rows>>,
           Held \subseteq Held' \union cut', cut \subseteq cut'
    PROVE  Accounted'
<1>1. ASSUME NEW i \in Items, cloud'[i].etag <= link
      PROVE  cloud'[i] = cloud[i]
  BY <1>1, Covered
<1>2. ASSUME NEW i \in Items, cloud'[i].etag <= link
      PROVE  Reflected(i)' \/ InHand(cloud[i])' \/ cloud'[i] \in cut'
  <2>1. cloud'[i] = cloud[i]
    BY <1>1, <1>2
  <2>2. Reflected(i) \/ InHand(cloud[i]) \/ cloud[i] \in cut
    BY <1>2, <2>1 DEF Accounted, MissedOnlyIfCut
  <2> QED BY <2>1, <2>2 DEF Reflected, InHand
<1>3. ASSUME NEW i \in Items, cloud'[i].deleted, cloud'[i].etag <= link
      PROVE  InHand(cloud[i])' \/ Done(cloud[i])' \/ cloud'[i] \in cut'
  <2>1. cloud'[i] = cloud[i]
    BY <1>1, <1>3
  <2>2. InHand(cloud[i]) \/ Done(cloud[i]) \/ cloud[i] \in cut
    BY <1>3, <2>1 DEF Accounted, Deletions
  <2> QED BY <2>1, <2>2 DEF InHand, Done
<1> QED BY <1>2, <1>3 DEF Accounted, MissedOnlyIfCut, Deletions

\* The link is saved: what it covers from now on is in hand.
LEMMA StoreLinkAccounted ==
    ASSUME Inv, Gathered, Accounted, StoreLink
    PROVE  Accounted'
<1>1. /\ pc = "saving" /\ pc' = "storing" /\ link' = token
      /\ UNCHANGED <<cloud, rows, db, acc, cut>>
  BY DEF StoreLink, onedrive
<1>2. /\ link \in Nat /\ token \in Nat
      /\ \A i \in Items : cloud[i].etag \in Nat
  BY DEF Inv, TypeOK, Change
<1>3. Held = {} /\ Held' = acc
  BY <1>1 DEF Held
<1>4. \A i \in Items : cloud[i].etag <= token => cloud[i].etag <= link \/ cloud[i] \in acc
  BY <1>1, <1>2 DEF Gathered
<1>5. ASSUME NEW i \in Items, cloud[i].etag <= token
      PROVE  Reflected(i) \/ InHand(cloud[i])' \/ cloud[i] \in cut
  <2>1. CASE cloud[i] \in acc
    BY <1>1, <1>3, <2>1 DEF InHand
  <2>2. CASE cloud[i].etag <= link
    BY <1>1, <1>3, <2>2 DEF Accounted, MissedOnlyIfCut, InHand
  <2> QED BY <1>4, <1>5, <2>1, <2>2
<1>6. ASSUME NEW i \in Items, cloud[i].deleted, cloud[i].etag <= token
      PROVE  InHand(cloud[i])' \/ Done(cloud[i]) \/ cloud[i] \in cut
  <2>1. CASE cloud[i] \in acc
    BY <1>1, <1>3, <2>1 DEF InHand
  <2>2. CASE cloud[i].etag <= link
    BY <1>1, <1>3, <1>6, <2>2 DEF Accounted, Deletions, InHand
  <2> QED BY <1>4, <1>6, <2>1, <2>2
<1> QED BY <1>1, <1>5, <1>6 DEF Accounted, MissedOnlyIfCut, Deletions, Reflected, Done

\* A change gets its row, or the entry shows it already.
LEMMA StoreRowAccounted ==
    ASSUME Known, Accounted, StoreRow
    PROVE  Accounted'
<1>1. PICK c \in acc :
           /\ acc' = acc \ {c}
           /\ rows' = IF Detect(c) = "no_change" THEN rows
                      ELSE Append(rows, [change |-> c, op |-> Detect(c), status |-> "new"])
  BY DEF StoreRow
<1>2. pc = "storing" /\ pc' = "storing" /\ UNCHANGED <<cloud, link, db, cut>>
  BY DEF StoreRow, onedrive
<1>3. Held = acc /\ Held' = acc'
  BY <1>2 DEF Held
<1>4. c \in Change
  BY DEF Known, Inv, TypeOK
<1>5. CASE Detect(c) = "no_change"
  <2>1. rows' = rows
    BY <1>1, <1>5
  <2>2. ASSUME NEW i \in Items, c = cloud[i]
        PROVE  db[i] = c /\ ~c.deleted
    <3>1. c.item = i /\ db[i] \in Change /\ db[i].item = i
      BY <2>2 DEF Known, Inv, TypeOK, Entries
    <3>2. ~c.deleted /\ db[i].parent = c.parent /\ db[i].etag = c.etag
          /\ db[i].content = c.content
      BY <1>5, <3>1 DEF Detect
    <3>3. db[i].deleted = c.deleted
      BY <1>4, <2>2, <3>1, <3>2 DEF Known, Entries, Change
    <3> QED BY <1>4, <3>1, <3>2, <3>3 DEF Change
  <2>4. ASSUME NEW i \in Items, cloud[i].etag <= link
        PROVE  Reflected(i) \/ InHand(cloud[i])' \/ cloud[i] \in cut
    <3>1. CASE cloud[i] = c
      BY <2>2, <3>1 DEF Reflected
    <3>2. CASE cloud[i] # c
      BY <1>1, <1>2, <1>3, <2>1, <2>4, <3>2 DEF Accounted, MissedOnlyIfCut, InHand
    <3> QED BY <3>1, <3>2
  <2>5. ASSUME NEW i \in Items, cloud[i].deleted, cloud[i].etag <= link
        PROVE  InHand(cloud[i])' \/ Done(cloud[i]) \/ cloud[i] \in cut
    <3>1. cloud[i] # c
      BY <2>2, <2>5
    <3> QED BY <1>1, <1>2, <1>3, <2>1, <2>5, <3>1 DEF Accounted, Deletions, InHand
  <2> QED BY <1>2, <2>1, <2>4, <2>5 DEF Accounted, MissedOnlyIfCut, Deletions, Reflected, Done
<1>6. CASE Detect(c) # "no_change"
  <2>1. /\ DOMAIN rows = 1..Len(rows) /\ Len(rows) \in Nat
        /\ DOMAIN rows' = 1..Len(rows) + 1
        /\ \A r \in DOMAIN rows : rows'[r] = rows[r]
    BY <1>1, <1>4, <1>6, RowAppended DEF Known, Inv
  <2>2. rows'[Len(rows) + 1] = [change |-> c, op |-> Detect(c), status |-> "new"]
    BY <1>1, <1>6, AppendProperties DEF Known, Inv, TypeOK
  <2>3. /\ rows'[Len(rows) + 1].change = c /\ rows'[Len(rows) + 1].status = "new"
        /\ Len(rows) + 1 \in DOMAIN rows' /\ DOMAIN rows \subseteq DOMAIN rows'
    BY <2>1, <2>2
  <2>4. ASSUME NEW i \in Items, InHand(cloud[i])
        PROVE  InHand(cloud[i])'
    <3>1. CASE cloud[i] = c
      BY <1>2, <2>3, <3>1 DEF InHand
    <3>2. CASE cloud[i] # c
      BY <1>1, <1>2, <1>3, <2>1, <2>3, <2>4, <3>2 DEF InHand
    <3> QED BY <3>1, <3>2
  <2>5. ASSUME NEW i \in Items, Done(cloud[i])
        PROVE  Done(cloud[i])'
    BY <1>2, <2>1, <2>3, <2>5 DEF Done
  <2> QED BY <1>2, <2>4, <2>5 DEF Accounted, MissedOnlyIfCut, Deletions, Reflected
<1> QED BY <1>5, <1>6

\* The row at hand is marked `processing`: the cycle holds its change.
LEMMA BeginRowAccounted ==
    ASSUME Known, Accounted, BeginRow
    PROVE  Accounted'
<1>1. PICK r \in todo : rows' = [rows EXCEPT ![r].status = "processing"] /\ cur' = r
  BY DEF BeginRow
<1>2. /\ pc = "rows" /\ pc' = "applying" /\ UNCHANGED <<cloud, link, db, cut>>
      /\ r \in DOMAIN rows
  BY DEF BeginRow, onedrive, Known, Inv, InRange
<1>3. /\ DOMAIN rows' = DOMAIN rows
      /\ \A q \in DOMAIN rows : /\ rows'[q].change = rows[q].change
                                /\ q # r => rows'[q] = rows[q]
  BY <1>1, <1>2, StatusSets DEF Known, Inv, RowStates
<1>4. Held = {} /\ Held' = {rows[r].change}
  BY <1>1, <1>2, <1>3 DEF Held
<1>5. ASSUME NEW i \in Items, InHand(cloud[i])
      PROVE  InHand(cloud[i])'
  <2>1. PICK q \in DOMAIN rows : rows[q].change = cloud[i] /\ rows[q].status \in {"new", "error"}
    BY <1>4, <1>5 DEF InHand
  <2> QED BY <1>2, <1>3, <1>4, <2>1 DEF InHand
<1>6. ASSUME NEW i \in Items, Done(cloud[i])
      PROVE  InHand(cloud[i])' \/ Done(cloud[i])'
  <2>1. PICK q \in DOMAIN rows : rows[q].change = cloud[i] /\ rows[q].status = "done"
    BY <1>6 DEF Done
  <2> QED BY <1>2, <1>3, <1>4, <2>1 DEF InHand, Done
<1> QED BY <1>2, <1>5, <1>6 DEF Accounted, MissedOnlyIfCut, Deletions, Reflected

\* A handler replaces the entry of an item only by what the server has, or
\* records what it overwrites.
LEMMA HandleAccounted ==
    ASSUME Known, Answered, Accounted, Handle
    PROVE  Accounted'
<1>1. /\ pc \in {"applying", "moved"} /\ pc' \in {"enqueueing", "finishing"}
      /\ UNCHANGED <<cloud, link, rows, cur>> /\ cut \subseteq cut'
  BY HandleKeeps
<1>2. Held = {rows[cur].change} /\ Held' = Held
  BY <1>1 DEF Held
<1>3. \A i \in Items : /\ InHand(cloud[i]) => InHand(cloud[i])'
                       /\ Done(cloud[i]) => Done(cloud[i])'
  BY <1>1, <1>2 DEF InHand, Done
<1>4. ASSUME NEW i \in Items, cloud[i].etag <= link, ~InHand(cloud[i]), cloud[i] \notin cut
      PROVE  Reflected(i)' \/ cloud[i] \in cut'
  <2>1. cloud[i] # rows[cur].change
    BY <1>2, <1>4 DEF InHand
  <2>2. Reflected(i)
    BY <1>4 DEF Accounted, MissedOnlyIfCut
  <2>3. db[i] = cloud[i] \/ Done(cloud[i])
    BY <1>4, <2>2 DEF Reflected, Accounted, Deletions
  <2>4. CASE db'[i] = db[i]
    BY <1>1, <2>2, <2>4 DEF Reflected
  <2>5. CASE rows[cur].change.item = i /\ cut' = cut \union Overwritten
    <3>1. cloud[i] \in Overwritten
      BY <1>1, <2>1, <2>3, <2>5, OverwrittenCatches DEF OfRow
    <3> QED BY <2>5, <3>1
  <2> QED BY <2>4, <2>5, HandleSets
<1>5. MissedOnlyIfCut'
  BY <1>1, <1>3, <1>4 DEF MissedOnlyIfCut
<1>6. Deletions'
  BY <1>1, <1>3 DEF Accounted, Deletions
<1> QED BY <1>5, <1>6 DEF Accounted

\* The row at hand is done: its handler has left the item as the server has it.
LEMMA FinishRowAccounted ==
    ASSUME Known, Settled, Accounted, FinishRow
    PROVE  Accounted'
<1>1. /\ pc = "finishing" /\ pc' = "rows" /\ UNCHANGED <<cloud, link, db, cut>>
      /\ rows' = [rows EXCEPT ![cur].status = "done"]
  BY DEF FinishRow, SetStatus, onedrive
<1>2. cur \in DOMAIN rows
  BY <1>1 DEF Known, Inv, InRange, OfRow
<1>3. /\ DOMAIN rows' = DOMAIN rows /\ rows'[cur].status = "done"
      /\ \A q \in DOMAIN rows : /\ rows'[q].change = rows[q].change
                                /\ q # cur => rows'[q] = rows[q]
  BY <1>1, <1>2, StatusSets DEF Known, Inv, RowStates
<1>4. Held = {rows[cur].change}
  BY <1>1 DEF Held
<1>5. ASSUME NEW i \in Items, InHand(cloud[i]), cloud[i] # rows[cur].change
      PROVE  InHand(cloud[i])'
  <2>1. PICK q \in DOMAIN rows : rows[q].change = cloud[i] /\ rows[q].status \in {"new", "error"}
    BY <1>4, <1>5 DEF InHand
  <2> QED BY <1>1, <1>3, <1>5, <2>1 DEF InHand
<1>6. ASSUME NEW i \in Items, cloud[i] = rows[cur].change
      PROVE  (Reflected(i) \/ cloud[i] \in cut) /\ Done(cloud[i])'
  BY <1>1, <1>2, <1>3, <1>6 DEF Settled, Done
<1>7. \A i \in Items : Done(cloud[i]) => Done(cloud[i])'
  <2> TAKE i \in Items
  <2> HAVE Done(cloud[i])
  <2>1. PICK q \in DOMAIN rows : rows[q].change = cloud[i] /\ rows[q].status = "done"
    BY DEF Done
  <2> QED BY <1>1, <1>3, <2>1 DEF Done
<1> QED BY <1>1, <1>5, <1>6, <1>7 DEF Accounted, MissedOnlyIfCut, Deletions, Reflected

\* The row at hand is marked `error`: it is open again.
LEMMA RowFailsAccounted ==
    ASSUME Known, Accounted, RowFails
    PROVE  Accounted'
<1>1. /\ pc \in OfRow /\ pc' = "rows" /\ UNCHANGED <<cloud, link, db, cut>>
      /\ rows' = [rows EXCEPT ![cur].status = "error"]
  BY DEF RowFails, SetStatus, onedrive, OfRow
<1>2. cur \in DOMAIN rows
  BY <1>1 DEF Known, Inv, InRange
<1>3. /\ DOMAIN rows' = DOMAIN rows /\ rows'[cur].status = "error"
      /\ \A q \in DOMAIN rows : /\ rows'[q].change = rows[q].change
                                /\ q # cur => rows'[q] = rows[q]
  BY <1>1, <1>2, StatusSets DEF Known, Inv, RowStates
<1>4. Held = {rows[cur].change}
  BY <1>1 DEF Held, OfRow
<1>5. ASSUME NEW i \in Items, InHand(cloud[i])
      PROVE  InHand(cloud[i])'
  BY <1>1, <1>2, <1>3, <1>4, <1>5 DEF InHand
<1>6. ASSUME NEW i \in Items, Done(cloud[i])
      PROVE  InHand(cloud[i])' \/ Done(cloud[i])'
  BY <1>1, <1>2, <1>3, <1>6 DEF InHand, Done
<1> QED BY <1>1, <1>5, <1>6 DEF Accounted, MissedOnlyIfCut, Deletions, Reflected

\* A change that the link covers is in the database, in hand or recorded as cut.
LEMMA AccountedNext ==
    Known /\ Gathered /\ Answered /\ Settled /\ Accounted /\ [Next]_vars => Accounted'
<1> SUFFICES ASSUME Known, Gathered, Answered, Settled, Accounted, [Next]_vars
             PROVE  Accounted'
  OBVIOUS
<1> USE DEF Known
<1>1. CASE /\ UNCHANGED <<link, db, rows>>
           /\ Held \subseteq Held' \union cut' /\ cut \subseteq cut'
  BY <1>1, QuietAccounted
<1>2. CASE UNCHANGED <<link, db, rows, acc, pc, cur, cut>>
  <2>1. Held' = Held
    BY <1>2 DEF Held
  <2> QED BY <1>1, <1>2, <2>1
<1>3. CASE UNCHANGED <<link, db, rows, cut>> /\ pc \notin OfRow /\ pc # "storing"
  <2>1. Held = {}
    BY <1>3 DEF Held, OfRow
  <2> QED BY <1>1, <1>3, <2>1
<1>4. CASE UNCHANGED <<link, db, rows>> /\ cut' = cut \union Held
  BY <1>1, <1>4
<1>5. CASE Start \/ FetchPage \/ FetchFails \/ StoreLinkFails
  BY <1>3, <1>5 DEF Start, FetchPage, FetchFails, StoreLinkFails, disk, OfRow
<1>6. CASE StoreLink
  BY <1>6, StoreLinkAccounted
<1>7. CASE StoreRow
  BY <1>7, StoreRowAccounted
<1>8. CASE StoreRowFails
  BY <1>4, <1>8 DEF StoreRowFails, disk
<1>9. CASE ListRows
  <2>1. Held = {} /\ UNCHANGED <<link, db, rows, cut>>
    BY <1>9 DEF ListRows, Held, disk
  <2> QED BY <1>1, <2>1
<1>10. CASE BeginRow
  BY <1>10, BeginRowAccounted
<1>11. CASE Handle
  BY <1>11, HandleAccounted
<1>12. CASE Enqueue \/ MoveOnServer
  <2>1. /\ UNCHANGED <<link, db, rows, cur, cut>>
        /\ pc \in {"applying", "enqueueing"} /\ pc' \in {"moved", "finishing"}
    BY <1>12 DEF Enqueue, MoveOnServer, disk
  <2>2. Held' = Held
    BY <2>1 DEF Held
  <2> QED BY <1>1, <2>1, <2>2
<1>13. CASE FinishRow
  BY <1>13, FinishRowAccounted
<1>14. CASE RowFails
  BY <1>14, RowFailsAccounted
<1>15. CASE Downloads
  BY <1>3, <1>15 DEF Downloads, ListDownloads, FetchContent, DownloadFails, MarkCompleted,
                     MoveToLocal, DownloadAborts, Finish, disk, OfRow
<1>16. CASE Crash
  BY <1>4, <1>16 DEF Crash, disk
<1>17. CASE (\E j \in Items : RemoteChange(j)) \/ Expire \/ UNCHANGED vars
  BY <1>2, <1>17 DEF RemoteChange, Expire, vars, disk, cycle
<1> QED BY <1>5, <1>6, <1>7, <1>8, <1>9, <1>10, <1>11, <1>12, <1>13, <1>14, <1>15, <1>16, <1>17
        DEF Next, Fetch, ProcessRows, Handle

\* Traced holds in every reachable state.
LEMMA SpecTraced == Spec => []Traced
<1>1. Init => Traced
  <2> SUFFICES ASSUME Init PROVE Traced
    OBVIOUS
  <2>1. DOMAIN rows = {} /\ acc = {} /\ pc = "idle"
    BY EmptySeq, LenProperties DEF Init
  <2>2. \A i \in Items : /\ cloud[i] = Unknown(i) /\ db[i] = Unknown(i)
                         /\ Unknown(i).item = i /\ ~Unknown(i).deleted
    BY DEF Init, Unknown
  <2>3. Versions /\ Gathered /\ Settled /\ Answered
    BY <2>1 DEF Versions, Gathered, Settled, Answered
  <2>4. Entries /\ Deletions /\ MissedOnlyIfCut
    BY <2>2 DEF Entries, Deletions, MissedOnlyIfCut, Reflected
  <2> QED BY <2>3, <2>4 DEF Traced
<1>2. Inv /\ Behind /\ Traced /\ [Next]_vars => Traced'
  BY VersionsNext, EntriesNext, GatheredNext, AnsweredNext, SettledNext, AccountedNext
     DEF Traced, Known, Accounted
<1> QED BY <1>1, <1>2, Invariance, SpecBehind, PTL DEF Spec

\* Whatever fails and whenever the process is killed: a change that the saved link
\* covers is in the database, or will be applied, or is one of the changes
\* recorded in `cut`: held at a kill or a failed INSERT, a deletion whose mark
\* failed, or overwritten by an older row.
THEOREM MissedWasCut == Spec => []MissedOnlyIfCut
<1>1. Traced => MissedOnlyIfCut
  BY DEF Traced
<1> QED BY <1>1, SpecTraced, PTL

-----------------------------------------------------------------------------
\* Until something fails or the process is killed, nothing at all is missed.
\* NothingMissed is not inductive: it does not say that the rows of an item are
\* handled in turn.  InTurn adds:
\*   Listed     a row that had no turn yet is on the list of the running cycle,
\*              and the list is walked upwards;
\*   Awaited    while a row of an older version waits, the version that the link
\*              covers waits too; only a move of an item that is gone fails;
\*   Newest     so does a change that has no row yet;
\*   Versioned  each change has an etag;
\*   Older      the entries are not ahead of what waits to be stored;
\*   Landed     the handler of the last version leaves the item as the server
\*              has it.

Unharmed == faults = 0 /\ crashes = 0

Listed ==
    /\ pc \in {"rows"} \union OfRow =>
          /\ \A r \in DOMAIN rows : rows[r].status = "new" => r \in todo
          /\ \A r \in todo : rows[r].status \in {"new", "error"}
    /\ pc \notin {"storing", "rows"} \union OfRow =>
          \A r \in DOMAIN rows : rows[r].status # "new"
    /\ pc \in OfRow => rows[cur].status = "processing" /\ \A r \in todo : cur < r

\* The version that the link covers is at hand.
Comes(i) == cloud[i].etag <= link => InHand(cloud[i])

\* A move that the server refuses: its item is gone.
Refused(r) == rows[r].op = "move" /\ cloud[rows[r].change.item].deleted

Awaited ==
    /\ \A r \in DOMAIN rows :
          rows[r].status = "new" /\ rows[r].change # cloud[rows[r].change.item]
             => Comes(rows[r].change.item)
    /\ pc \in OfRow /\ rows[cur].change # cloud[rows[cur].change.item]
             => Comes(rows[cur].change.item) \/ (pc = "applying" /\ Refused(cur))
    /\ \A r \in DOMAIN rows : rows[r].status = "error" => Refused(r)

Newest ==
    pc = "storing" => \A c \in acc :
        cloud[c.item].etag <= link => cloud[c.item] \in acc

Versioned ==
    /\ \A c \in acc : c.etag # 0
    /\ \A r \in DOMAIN rows : rows[r].change.etag # 0

Older ==
    /\ \A i \in Items : db[i].etag <= cloud[i].etag
    /\ pc \in {"fetching", "saving", "storing"} => \A c \in acc : db[c.item].etag <= c.etag
    /\ pc = "storing" => \A r \in DOMAIN rows :
          rows[r].status = "new" => db[rows[r].change.item].etag <= rows[r].change.etag

Landed ==
    pc \in {"enqueueing", "finishing"} => \A i \in Items :
        rows[cur].change = cloud[i] => Reflected(i)

InTurn == /\ Listed /\ Awaited /\ Newest /\ Versioned /\ Older /\ Landed
          /\ NothingMissed

\* Without a failure the actions of failures are not taken.
LEMMA CalmSteps ==
    ASSUME Inv, [Next]_vars, Unharmed'
    PROVE  /\ Unharmed
           /\ faults' # faults + 1 /\ crashes' # crashes + 1
           /\ ~StoreLinkFails /\ ~StoreRowFails /\ ~ApplyDeleteFailsQuietly
           /\ ~DownloadAborts /\ ~Crash
           /\ RowFails => /\ pc = "applying" /\ rows[cur].op = "move"
                          /\ ~Exists(rows[cur].change.item)
<1>1. faults \in Nat /\ crashes \in Nat /\ faults' = 0 /\ crashes' = 0
  BY DEF Inv, TypeOK, Unharmed
<1>2. faults' # faults + 1 /\ crashes' # crashes + 1
  BY <1>1
<1>3. /\ ~StoreLinkFails /\ ~StoreRowFails /\ ~ApplyDeleteFailsQuietly
      /\ ~DownloadAborts /\ ~Crash
  BY <1>2 DEF StoreLinkFails, StoreRowFails, ApplyDeleteFailsQuietly, DownloadAborts, Crash,
              Fault
<1>4. RowFails => /\ pc = "applying" /\ rows[cur].op = "move"
                  /\ ~Exists(rows[cur].change.item)
  BY <1>2 DEF RowFails, Fault
<1>5. faults' = faults /\ crashes' = crashes
  <2>1. CASE Fetch
    BY <1>2, <1>3, <2>1 DEF Fetch, Start, FetchPage, FetchFails, StoreLink, StoreRow, Fault
  <2>2. CASE ProcessRows
    BY <1>2, <1>3, <2>2 DEF ProcessRows, ListRows, BeginRow, ApplyContent, Enqueue, ApplyDelete,
                       MoveOnServer, StoreMoved, FinishRow, RowFails, Fault
  <2>3. CASE Downloads
    BY <1>2, <1>3, <2>3 DEF Downloads, ListDownloads, FetchContent, DownloadFails, MarkCompleted,
                       MoveToLocal, Finish, Fault
  <2>4. CASE (\E j \in Items : RemoteChange(j)) \/ Expire \/ UNCHANGED vars
    BY <2>4 DEF RemoteChange, Expire, vars
  <2> QED BY <1>3, <2>1, <2>2, <2>3, <2>4 DEF Next
<1> QED BY <1>1, <1>2, <1>3, <1>4, <1>5 DEF Unharmed

\* What storing a change does to the rows.
LEMMA RowStored ==
    ASSUME Inv, NEW c \in acc, acc' = acc \ {c},
           rows' = IF Detect(c) = "no_change" THEN rows
                   ELSE Append(rows, [change |-> c, op |-> Detect(c), status |-> "new"])
    PROVE  /\ DOMAIN rows \subseteq DOMAIN rows'
           /\ \A r \in DOMAIN rows : rows'[r] = rows[r]
           /\ Detect(c) = "no_change" => rows' = rows
           /\ Detect(c) # "no_change" => Len(rows) + 1 \in DOMAIN rows' \ DOMAIN rows
           /\ \A r \in DOMAIN rows' \ DOMAIN rows :
                 /\ rows'[r].change = c /\ rows'[r].op = Detect(c)
                 /\ rows'[r].status = "new"
<1>1. CASE Detect(c) = "no_change"
  BY <1>1
<1>2. CASE Detect(c) # "no_change"
  <2>1. c \in Change
    BY DEF Inv, TypeOK
  <2>2. /\ DOMAIN rows = 1..Len(rows) /\ Len(rows) \in Nat
        /\ DOMAIN rows' = 1..Len(rows) + 1
        /\ \A r \in DOMAIN rows : rows'[r] = rows[r]
    BY <1>2, <2>1, RowAppended DEF Inv
  <2>3. rows'[Len(rows) + 1] = [change |-> c, op |-> Detect(c), status |-> "new"]
    BY <1>2, AppendProperties DEF Inv, TypeOK
  <2> DEFINE n == Len(rows)
  <2>4. ASSUME n \in Nat
        PROVE  /\ \A r \in (1..n + 1) \ (1..n) : r = n + 1
               /\ n + 1 \in (1..n + 1) \ (1..n) /\ 1..n \subseteq 1..n + 1
    <3> HIDE DEF n
    <3> QED BY <2>4
  <2>5. /\ \A r \in DOMAIN rows' \ DOMAIN rows : r = Len(rows) + 1
        /\ Len(rows) + 1 \in DOMAIN rows' \ DOMAIN rows /\ DOMAIN rows \subseteq DOMAIN rows'
    BY <2>2, <2>4
  <2>6. LET e == rows'[Len(rows) + 1] IN
        e.change = c /\ e.op = Detect(c) /\ e.status = "new"
    BY <2>3
  <2> QED BY <1>2, <2>2, <2>5, <2>6
<1> QED BY <1>1, <1>2

\* The rows are handled in turn.
LEMMA ListedNext ==
    ASSUME Inv, Listed, [Next]_vars, Unharmed'
    PROVE  Listed'
<1>1. CASE UNCHANGED <<rows, todo, pc, cur>>
  BY <1>1 DEF Listed
<1>2. CASE rows' = rows /\ pc \notin {"storing", "rows"} \union OfRow
                        /\ pc' \notin {"storing", "rows"} \union OfRow
  BY <1>2 DEF Listed
<1>3. CASE pc' = "storing"
  BY <1>3 DEF Listed, OfRow
<1>4. CASE UNCHANGED <<rows, todo, cur>> /\ pc \in OfRow /\ pc' \in OfRow
  BY <1>4 DEF Listed, OfRow
<1>5. CASE ListRows
  <2>1. /\ todo' = {r \in DOMAIN rows : rows[r].status \in {"new", "error"}}
        /\ pc' = "rows" /\ rows' = rows
    BY <1>5 DEF ListRows, disk
  <2>2. /\ \A r \in DOMAIN rows : rows[r].status = "new" => r \in todo'
        /\ \A r \in todo' : rows[r].status \in {"new", "error"}
    BY <2>1
  <2> QED BY <2>1, <2>2 DEF Listed, OfRow
<1>6. CASE BeginRow
  <2>1. PICK r \in todo : /\ \A s \in todo : r <= s
                          /\ rows' = [rows EXCEPT ![r].status = "processing"]
                          /\ todo' = todo \ {r} /\ cur' = r
    BY <1>6 DEF BeginRow
  <2>2. pc = "rows" /\ pc' = "applying" /\ todo \subseteq DOMAIN rows
    BY <1>6 DEF BeginRow, Inv, InRange
  <2>3. /\ DOMAIN rows' = DOMAIN rows /\ rows'[r].status = "processing"
        /\ \A q \in DOMAIN rows : q # r => rows'[q] = rows[q]
    BY <2>1, <2>2, StatusSets DEF Inv, RowStates
  <2>4. \A s \in todo' : cur' < s
    <3>1. todo \subseteq Nat
      BY DEF Inv, TypeOK
    <3> QED BY <2>1, <3>1
  <2>5. /\ \A q \in DOMAIN rows' : rows'[q].status = "new" => q \in todo'
        /\ \A q \in todo' : rows'[q].status \in {"new", "error"}
    BY <2>1, <2>2, <2>3 DEF Listed
  <2>6. rows'[cur'].status = "processing"
    BY <2>1, <2>3
  <2> QED BY <2>2, <2>4, <2>5, <2>6 DEF Listed, OfRow
<1>7. CASE FinishRow \/ RowFails
  <2>1. /\ pc \in OfRow /\ pc' = "rows" /\ todo' = todo
        /\ SetStatus("done") \/ SetStatus("error")
    BY <1>7 DEF FinishRow, RowFails, OfRow
  <2>2. cur \in DOMAIN rows /\ cur \in Nat /\ cur \notin todo
    <3>1. cur \in DOMAIN rows /\ cur \in Nat
      BY <2>1 DEF Inv, InRange, TypeOK
    <3>2. ~(cur < cur)
      BY <3>1
    <3> QED BY <2>1, <3>1, <3>2 DEF Listed
  <2>3. /\ DOMAIN rows' = DOMAIN rows /\ rows'[cur].status \in {"done", "error"}
        /\ \A q \in DOMAIN rows : q # cur => rows'[q] = rows[q]
    BY <2>1, <2>2, StatusSets DEF Inv, RowStates, SetStatus
  <2>4. todo \subseteq DOMAIN rows
    BY <2>1 DEF Inv, InRange
  <2> QED BY <2>1, <2>2, <2>3, <2>4 DEF Listed, OfRow
<1>8. CASE ListDownloads
  <2>1. pc = "rows" /\ todo = {} /\ pc' = "downloads" /\ rows' = rows
    BY <1>8 DEF ListDownloads, disk
  <2> QED BY <2>1 DEF Listed, OfRow
<1>9. CASE Start \/ FetchPage \/ FetchFails
  BY <1>2, <1>9 DEF Start, FetchPage, FetchFails, EndCycle, disk, OfRow
<1>10. CASE FetchContent \/ DownloadFails \/ MarkCompleted \/ MoveToLocal \/ Finish
  BY <1>2, <1>10 DEF FetchContent, DownloadFails, MarkCompleted, MoveToLocal, Finish, EndCycle,
                     disk, OfRow
<1>11. CASE StoreLink \/ StoreRow
  BY <1>3, <1>11 DEF StoreLink, StoreRow
<1>12. CASE ApplyContent \/ Enqueue \/ ApplyDelete \/ MoveOnServer \/ StoreMoved
  BY <1>4, <1>12 DEF ApplyContent, Enqueue, ApplyDelete, MoveOnServer, StoreMoved, disk, OfRow
<1>13. CASE (\E j \in Items : RemoteChange(j)) \/ Expire \/ UNCHANGED vars
  BY <1>1, <1>13 DEF RemoteChange, Expire, vars, disk, cycle
<1> QED BY <1>5, <1>6, <1>7, <1>8, <1>9, <1>10, <1>11, <1>12, <1>13, CalmSteps
        DEF Next, Fetch, ProcessRows, Downloads

\* A handler stores nothing that is ahead of the server.
LEMMA HandledEntries ==
    ASSUME Known, Answered, Handle
    PROVE  \A i \in Items : db'[i] = db[i] \/ db'[i].etag = db[i].etag
                            \/ db'[i].etag <= cloud[i].etag
<1> DEFINE c == rows[cur].change
<1>1. /\ cur \in DOMAIN rows /\ c \in Change /\ c.item \in Items
      /\ c.etag \in Nat /\ c.etag <= cloud[c.item].etag
  BY HandleKeeps, RowNow DEF Known, OfRow
<1>2. CASE ApplyContent
  <2>1. Store(c)
    BY <1>2 DEF ApplyContent
  <2> HIDE DEF c
  <2>2. db'[c.item] = c /\ \A j \in Items : j # c.item => db'[j] = db[j]
    BY <1>1, <2>1, StoreSets DEF Known, Inv
  <2> QED BY <1>1, <2>2
<1>3. CASE StoreMoved
  <2> DEFINE m == [c EXCEPT !.etag = answer]
  <2>1. Store(m) /\ answer <= cloud[c.item].etag
    BY <1>3 DEF StoreMoved, Answered
  <2> HIDE DEF c
  <2>2. m \in Change /\ m.item = c.item /\ m.etag = answer
    BY <1>1, AnsweredRecord DEF Known, Inv
  <2> HIDE DEF m
  <2>3. db'[c.item] = m /\ \A j \in Items : j # c.item => db'[j] = db[j]
    BY <2>1, <2>2, StoreSets DEF Known, Inv
  <2> QED BY <2>1, <2>2, <2>3
<1>4. CASE ApplyDelete \/ ApplyDeleteFailsQuietly
  <2>1. db' = MarkedDeleted(c.item) \/ db' = db
    BY <1>4 DEF ApplyDelete, ApplyDeleteFailsQuietly
  <2> HIDE DEF c
  <2>2. db' = MarkedDeleted(c.item) =>
           /\ db'[c.item].etag = db[c.item].etag
           /\ \A j \in Items : j # c.item => db'[j] = db[j]
    BY <1>1, MarkSets DEF Known, Inv
  <2> QED BY <2>1, <2>2
<1> QED BY <1>2, <1>3, <1>4 DEF Handle

\* Only the handlers change the entries.
LEMMA OthersKeepEntries ==
    ASSUME [Next]_vars, ~Handle
    PROVE  db' = db
<1>1. CASE Fetch
  BY <1>1 DEF Fetch, Start, FetchPage, FetchFails, StoreLink, StoreLinkFails, StoreRow,
              StoreRowFails, disk
<1>2. CASE Downloads
  BY <1>2 DEF Downloads, ListDownloads, FetchContent, DownloadFails, MarkCompleted,
              MoveToLocal, DownloadAborts, Finish, disk
<1>3. CASE ListRows \/ BeginRow \/ Enqueue \/ MoveOnServer \/ FinishRow \/ RowFails
  BY <1>3 DEF ListRows, BeginRow, Enqueue, MoveOnServer, FinishRow, RowFails, disk
<1>4. CASE (\E j \in Items : RemoteChange(j)) \/ Expire \/ Crash \/ UNCHANGED vars
  BY <1>4 DEF RemoteChange, Expire, Crash, vars, disk
<1> QED BY <1>1, <1>2, <1>3, <1>4 DEF Next, ProcessRows, Handle

\* No item becomes older on the server.
LEMMA ServerGrows ==
    ASSUME Inv, [Next]_vars
    PROVE  \A i \in Items : /\ cloud[i].etag \in Nat /\ cloud'[i].etag \in Nat
                            /\ cloud[i].etag <= cloud'[i].etag
<1>1. Inv'
  BY NextInv
<1>2. clock \in Nat /\ \A i \in Items : cloud[i].etag \in Nat /\ cloud[i].etag <= clock
  BY DEF Inv, TypeOK, Clocks, Change
<1>3. \A i \in Items : cloud'[i].etag \in Nat
  BY <1>1 DEF Inv, TypeOK, Change
<1> QED BY <1>2, <1>3, NextMoves DEF ServerMoves

\* The steps that neither fetch nor store a row bring no change.
LEMMA OthersBringNothing ==
    ASSUME Inv, [Next]_vars, ~FetchPage, ~StoreRow
    PROVE  /\ acc' \subseteq acc
           /\ DOMAIN rows' = DOMAIN rows
           /\ \A r \in DOMAIN rows : /\ rows'[r].change = rows[r].change
                                     /\ rows'[r].op = rows[r].op
                                     /\ rows'[r].status = "new" => rows[r].status = "new"
<1>1. CASE acc' \subseteq acc /\ rows' = rows
  BY <1>1
<1>2. ASSUME acc' = acc, NEW r \in DOMAIN rows, NEW s \in {"processing", "done", "error"},
             rows' = [rows EXCEPT ![r].status = s]
      PROVE  /\ acc' \subseteq acc
             /\ DOMAIN rows' = DOMAIN rows
             /\ \A q \in DOMAIN rows : /\ rows'[q].change = rows[q].change
                                       /\ rows'[q].op = rows[q].op
                                       /\ rows'[q].status = "new" => rows[q].status = "new"
  <2>1. s \in RowStates /\ s # "new"
    BY <1>2 DEF RowStates
  <2>2. /\ DOMAIN rows' = DOMAIN rows /\ rows'[r].status = s
        /\ \A q \in DOMAIN rows : /\ rows'[q].change = rows[q].change
                                  /\ rows'[q].op = rows[q].op
                                  /\ q # r => rows'[q] = rows[q]
    BY <1>2, <2>1, StatusSets DEF Inv
  <2> QED BY <1>2, <2>1, <2>2
<1>3. CASE BeginRow
  <2>1. /\ acc' = acc /\ todo \subseteq DOMAIN rows
        /\ \E r \in todo : rows' = [rows EXCEPT ![r].status = "processing"]
    BY <1>3 DEF BeginRow, Inv, InRange
  <2> QED BY <1>2, <2>1
<1>4. CASE FinishRow \/ RowFails
  <2>1. acc' = acc /\ cur \in DOMAIN rows /\ (SetStatus("done") \/ SetStatus("error"))
    BY <1>4 DEF FinishRow, RowFails, Inv, InRange, OfRow
  <2> QED BY <1>2, <2>1 DEF SetStatus
<1>5. CASE Start \/ FetchFails \/ StoreLink \/ StoreLinkFails \/ StoreRowFails
  BY <1>1, <1>5 DEF Start, FetchFails, StoreLink, StoreLinkFails, StoreRowFails, EndCycle, disk
<1>6. CASE Downloads
  BY <1>1, <1>6 DEF Downloads, ListDownloads, FetchContent, DownloadFails, MarkCompleted,
                    MoveToLocal, DownloadAborts, Finish, EndCycle, disk
<1>7. CASE ListRows \/ ApplyContent \/ Enqueue \/ ApplyDelete \/ ApplyDeleteFailsQuietly
             \/ MoveOnServer \/ StoreMoved
  BY <1>1, <1>7 DEF ListRows, ApplyContent, Enqueue, ApplyDelete, ApplyDeleteFailsQuietly,
                    MoveOnServer, StoreMoved, disk
<1>8. CASE (\E i \in Items : RemoteChange(i)) \/ Expire \/ Crash \/ UNCHANGED vars
  BY <1>1, <1>8 DEF RemoteChange, Expire, Crash, EndCycle, vars, disk, cycle
<1> QED BY <1>3, <1>4, <1>5, <1>6, <1>7, <1>8 DEF Next, Fetch, ProcessRows

\* The server sends what is newer than the token.
LEMMA VersionedNext == Inv /\ Versioned /\ [Next]_vars => Versioned'
<1> SUFFICES ASSUME Inv, Versioned, [Next]_vars PROVE Versioned'
  OBVIOUS
<1>1. CASE FetchPage
  <2>1. \A c \in acc' : c \in acc \/ \E i \in Items : c = cloud[i] /\ token < cloud[i].etag
    BY <1>1 DEF FetchPage
  <2>2. token \in Nat /\ \A i \in Items : cloud[i].etag \in Nat
    BY DEF Inv, TypeOK, Change
  <2>3. \A c \in acc' : c.etag # 0
    BY <2>1, <2>2 DEF Versioned
  <2>4. rows' = rows
    BY <1>1 DEF FetchPage, disk
  <2> QED BY <2>3, <2>4 DEF Versioned
<1>2. CASE StoreRow
  <2>1. PICK c \in acc :
           /\ acc' = acc \ {c}
           /\ rows' = IF Detect(c) = "no_change" THEN rows
                      ELSE Append(rows, [change |-> c, op |-> Detect(c), status |-> "new"])
    BY <1>2 DEF StoreRow
  <2>2. \A r \in DOMAIN rows' : IF r \in DOMAIN rows THEN rows'[r] = rows[r]
                                                     ELSE rows'[r].change = c
    BY <2>1, RowStored
  <2> QED BY <2>1, <2>2 DEF Versioned
<1>3. CASE ~FetchPage /\ ~StoreRow
  BY <1>3, OthersBringNothing DEF Versioned
<1> QED BY <1>1, <1>2, <1>3

\* The entries are not ahead of what is fetched and of what waits.
LEMMA OlderNext ==
    ASSUME Known, Answered, Listed, Older, [Next]_vars
    PROVE  Older'
<1> USE DEF Known
<1>1. \A i \in Items : /\ cloud[i].etag \in Nat /\ cloud'[i].etag \in Nat
                       /\ cloud[i].etag <= cloud'[i].etag
  BY ServerGrows
<1>2. \A i \in Items : db[i].etag \in Nat /\ db'[i].etag \in Nat
  <2>1. Inv'
    BY NextInv
  <2> QED BY <2>1 DEF Inv, TypeOK, Change
<1>3. CASE Handle
  <2>1. pc' \in {"enqueueing", "finishing"} /\ cloud' = cloud
    BY <1>3, HandleKeeps
  <2>2. \A i \in Items : db'[i].etag <= cloud[i].etag
    BY <1>1, <1>2, <1>3, HandledEntries DEF Older
  <2> QED BY <2>1, <2>2 DEF Older
<1>4. CASE ~Handle
  <2>1. db' = db
    BY <1>4, OthersKeepEntries
  <2>2. \A i \in Items : db'[i].etag <= cloud'[i].etag
    BY <1>1, <1>2, <2>1 DEF Older
  <2>3. CASE FetchPage
    <3>1. /\ pc = "fetching" /\ pc' \in {"fetching", "saving"}
          /\ \A c \in acc' : c \in acc \/ \E i \in Items : c = cloud[i]
      BY <2>3 DEF FetchPage
    <3>2. \A i \in Items : cloud[i].item = i
      BY DEF Inv, TypeOK
    <3>3. \A c \in acc' : db[c.item].etag <= c.etag
      BY <3>1, <3>2 DEF Older
    <3> QED BY <2>1, <2>2, <3>1, <3>3 DEF Older
  <2>4. CASE StoreRow
    <3>1. PICK c \in acc :
             /\ acc' = acc \ {c}
             /\ rows' = IF Detect(c) = "no_change" THEN rows
                        ELSE Append(rows, [change |-> c, op |-> Detect(c), status |-> "new"])
      BY <2>4 DEF StoreRow
    <3>2. pc = "storing" /\ pc' = "storing"
      BY <2>4 DEF StoreRow
    <3>3. \A r \in DOMAIN rows' : IF r \in DOMAIN rows THEN rows'[r] = rows[r]
                                                       ELSE rows'[r].change = c
      BY <3>1, RowStored
    <3>4. db[c.item].etag <= c.etag
      BY <3>2 DEF Older
    <3> QED BY <2>1, <2>2, <3>1, <3>2, <3>3, <3>4 DEF Older
  <2>5. CASE StoreLink
    <3>1. pc = "saving" /\ pc' = "storing" /\ acc' = acc /\ rows' = rows
      BY <2>5 DEF StoreLink
    <3>2. \A r \in DOMAIN rows : rows[r].status # "new"
      BY <3>1 DEF Listed, OfRow
    <3> QED BY <2>1, <2>2, <3>1, <3>2 DEF Older
  <2>6. CASE Start
    <3>1. acc' = {} /\ pc' = "fetching"
      BY <2>6 DEF Start, Inv, InRange
    <3> QED BY <2>1, <2>2, <3>1 DEF Older
  <2>7. CASE pc' \notin {"fetching", "saving", "storing"}
    BY <2>1, <2>2, <2>7 DEF Older
  <2>8. CASE UNCHANGED <<pc, acc, rows>>
    BY <2>1, <2>2, <2>8 DEF Older
  <2>9. CASE FetchFails \/ StoreLinkFails \/ StoreRowFails \/ Crash
    BY <2>7, <2>9 DEF FetchFails, StoreLinkFails, StoreRowFails, Crash, EndCycle
  <2>10. CASE ListRows \/ BeginRow \/ Enqueue \/ MoveOnServer \/ FinishRow \/ RowFails
    BY <2>7, <2>10 DEF ListRows, BeginRow, Enqueue, MoveOnServer, FinishRow, RowFails
  <2>11. CASE Downloads
    BY <2>7, <2>11 DEF Downloads, ListDownloads, FetchContent, DownloadFails, MarkCompleted,
                       MoveToLocal, DownloadAborts, Finish, EndCycle
  <2>12. CASE (\E i \in Items : RemoteChange(i)) \/ Expire \/ UNCHANGED vars
    BY <2>8, <2>12 DEF RemoteChange, Expire, vars, disk, cycle
  <2> QED BY <1>4, <2>3, <2>4, <2>5, <2>6, <2>9, <2>10, <2>11, <2>12
          DEF Next, Fetch, ProcessRows, Handle
<1> QED BY <1>3, <1>4

\* A change that waits to be stored comes with the last one the link covers.
LEMMA NewestNext ==
    ASSUME Inv, Behind, Gathered, Newest, [Next]_vars
    PROVE  Newest'
<1>1. \A c \in acc : c \in Change /\ c.item \in Items /\ c.etag \in Nat
  BY DEF Inv, TypeOK, Change
<1>2. \A i \in Items : /\ cloud[i].item = i
                       /\ cloud[i].etag \in Nat /\ cloud'[i].etag \in Nat
                       /\ cloud[i].etag <= cloud'[i].etag
  BY ServerGrows DEF Inv, TypeOK
<1>3. CASE pc' # "storing"
  BY <1>3 DEF Newest
<1>4. CASE UNCHANGED <<pc, acc, link>>
  <2> SUFFICES ASSUME pc = "storing", NEW c \in acc, cloud'[c.item].etag <= link
               PROVE  cloud'[c.item] \in acc
    BY <1>4 DEF Newest
  <2>1. cloud'[c.item] = cloud[c.item]
    BY <1>1, <1>4, Covered
  <2> QED BY <2>1 DEF Newest
<1>5. CASE StoreLink
  <2>1. pc = "saving" /\ UNCHANGED <<cloud, acc>> /\ link' = token
    BY <1>5 DEF StoreLink, onedrive
  <2> SUFFICES ASSUME NEW c \in acc, cloud[c.item].etag <= token
               PROVE  cloud[c.item] \in acc
    BY <2>1 DEF Newest
  <2>2. link < c.etag /\ link \in Nat
    BY <2>1 DEF Inv, Fetched, TypeOK
  <2>3. CASE link < cloud[c.item].etag
    BY <1>1, <2>1, <2>3 DEF Gathered
  <2>4. CASE cloud[c.item].etag <= link
    <3>1. c.etag <= cloud[c.item].etag
      BY DEF Behind
    <3> QED BY <1>1, <1>2, <2>2, <2>4, <3>1
  <2> QED BY <1>1, <1>2, <2>2, <2>3, <2>4
<1>6. CASE StoreRow
  <2>1. PICK d \in acc : acc' = acc \ {d} /\ Oldest(d)
    BY <1>6 DEF StoreRow
  <2>2. pc = "storing" /\ UNCHANGED <<cloud, link>>
    BY <1>6 DEF StoreRow, onedrive
  <2> SUFFICES ASSUME NEW c \in acc, c # d, cloud[c.item].etag <= link
               PROVE  cloud[c.item] # d
    BY <2>1, <2>2 DEF Newest
  <2>3. cloud[c.item] \in acc
    BY <2>2 DEF Newest
  <2> SUFFICES ASSUME cloud[c.item] = d
               PROVE  FALSE
    OBVIOUS
  <2>4. c.item = d.item /\ d.etag <= c.etag /\ c.etag <= d.etag
    BY <1>1, <1>2, <2>1 DEF Oldest, Behind
  <2>5. c.etag = d.etag
    BY <1>1, <2>4
  <2> QED BY <2>4, <2>5 DEF Inv, Fetched
<1>7. CASE Start \/ FetchPage \/ FetchFails \/ StoreLinkFails \/ StoreRowFails
  BY <1>3, <1>7 DEF Start, FetchPage, FetchFails, StoreLinkFails, StoreRowFails, EndCycle
<1>8. CASE ProcessRows
  BY <1>3, <1>8 DEF ProcessRows, ListRows, BeginRow, ApplyContent, Enqueue, ApplyDelete,
                    ApplyDeleteFailsQuietly, MoveOnServer, StoreMoved, FinishRow, RowFails
<1>9. CASE Downloads
  BY <1>3, <1>9 DEF Downloads, ListDownloads, FetchContent, DownloadFails, MarkCompleted,
                    MoveToLocal, DownloadAborts, Finish, EndCycle
<1>10. CASE Crash
  BY <1>3, <1>10 DEF Crash, EndCycle
<1>11. CASE (\E j \in Items : RemoteChange(j)) \/ Expire \/ UNCHANGED vars
  BY <1>4, <1>11 DEF RemoteChange, Expire, vars, disk, cycle
<1> QED BY <1>5, <1>6, <1>7, <1>8, <1>9, <1>10, <1>11 DEF Next, Fetch

\* The handler of the last version does its work: only a deletion can fail
\* quietly, and nothing fails.
LEMMA LandedNext ==
    ASSUME Known, Answered, Landed, [Next]_vars, Unharmed'
    PROVE  Landed'
<1>1. CASE Handle
  <2> SUFFICES ASSUME NEW i \in Items, rows[cur].change = cloud[i]
               PROVE  Reflected(i)'
    BY <1>1, HandleKeeps DEF Landed
  <2> QED BY <1>1, HandleSettles, CalmSteps DEF Known
<1>2. CASE UNCHANGED <<pc, rows, cur, db>>
  <2> SUFFICES ASSUME pc \in {"enqueueing", "finishing"}, NEW i \in Items,
                      rows[cur].change = cloud'[i]
               PROVE  Reflected(i)'
    BY <1>2 DEF Landed
  <2> DEFINE c == rows[cur].change
  <2>1. ServerMoves
    BY NextMoves DEF Known
  <2>2. c.etag \in Nat /\ c.etag <= cloud[c.item].etag /\ c.item \in Items
    BY RowNow DEF Known, OfRow
  <2>3. cloud[c.item].etag \in Nat /\ cloud[c.item].etag <= clock /\ clock \in Nat
    <3> HIDE DEF c
    <3> QED BY <2>2, Etags DEF Known
  <2>4. cloud'[i] = cloud[i]
    BY <2>1, <2>2, <2>3 DEF ServerMoves
  <2> QED BY <1>2, <2>4 DEF Landed, Reflected
<1>3. CASE Enqueue
  BY <1>3 DEF Enqueue, Landed, Reflected, onedrive
<1>4. CASE pc' \notin {"enqueueing", "finishing"}
  BY <1>4 DEF Landed
<1>5. CASE Fetch
  BY <1>4, <1>5 DEF Fetch, Start, FetchPage, FetchFails, StoreLink, StoreLinkFails, StoreRow,
                    StoreRowFails, EndCycle
<1>6. CASE Downloads
  BY <1>4, <1>6 DEF Downloads, ListDownloads, FetchContent, DownloadFails, MarkCompleted,
                    MoveToLocal, DownloadAborts, Finish, EndCycle
<1>7. CASE ListRows \/ BeginRow \/ MoveOnServer \/ FinishRow \/ RowFails
  BY <1>4, <1>7 DEF ListRows, BeginRow, MoveOnServer, FinishRow, RowFails
<1>8. CASE Crash
  BY <1>4, <1>8 DEF Crash, EndCycle
<1>9. CASE (\E j \in Items : RemoteChange(j)) \/ Expire \/ UNCHANGED vars
  BY <1>2, <1>9 DEF RemoteChange, Expire, vars, disk, cycle
<1> QED BY <1>1, <1>3, <1>5, <1>6, <1>7, <1>8, <1>9 DEF Next, ProcessRows, Handle

\* What is in hand stays in hand, unless its row is done or it needs no row.
LEMMA InHandStays ==
    ASSUME Inv, [Next]_vars, Unharmed', NEW x, InHand(x)
    PROVE  \/ InHand(x)'
           \/ FinishRow /\ x = rows[cur].change
           \/ StoreRow /\ x \in acc /\ Detect(x) = "no_change" /\ rows' = rows
<1>1. CASE rows' = rows /\ (Held \subseteq Held' \/ Held = {})
  BY <1>1 DEF InHand
<1>2. CASE UNCHANGED <<rows, acc, pc, cur>>
  <2>1. Held' = Held
    BY <1>2 DEF Held
  <2> QED BY <1>1, <1>2, <2>1
<1>3. CASE rows' = rows /\ pc \notin OfRow /\ pc # "storing"
  <2>1. Held = {}
    BY <1>3 DEF Held, OfRow
  <2> QED BY <1>1, <1>3, <2>1
<1>4. CASE rows' = rows /\ cur' = cur /\ pc \in OfRow /\ pc' \in OfRow
  <2>1. Held' = Held
    BY <1>4 DEF Held, OfRow
  <2> QED BY <1>1, <1>4, <2>1
<1>5. CASE StoreRow
  <2>1. PICK c \in acc :
           /\ acc' = acc \ {c}
           /\ rows' = IF Detect(c) = "no_change" THEN rows
                      ELSE Append(rows, [change |-> c, op |-> Detect(c), status |-> "new"])
    BY <1>5 DEF StoreRow
  <2>2. pc = "storing" /\ pc' = "storing"
    BY <1>5 DEF StoreRow
  <2>3. Held = acc /\ Held' = acc'
    BY <2>2 DEF Held
  <2>4. /\ \A r \in DOMAIN rows : r \in DOMAIN rows' /\ rows'[r] = rows[r]
        /\ Detect(c) = "no_change" => rows' = rows
        /\ Detect(c) # "no_change" =>
              \E r \in DOMAIN rows' : rows'[r].change = c /\ rows'[r].status = "new"
    BY <2>1, RowStored
  <2>5. CASE x = c /\ Detect(c) # "no_change"
    BY <2>4, <2>5 DEF InHand
  <2>6. CASE x # c
    BY <1>5, <2>1, <2>3, <2>4, <2>6 DEF InHand
  <2> QED BY <1>5, <2>1, <2>4, <2>5, <2>6
<1>6. CASE BeginRow
  <2>1. PICK r \in todo : rows' = [rows EXCEPT ![r].status = "processing"] /\ cur' = r
    BY <1>6 DEF BeginRow
  <2>2. pc = "rows" /\ pc' = "applying" /\ r \in DOMAIN rows
    BY <1>6 DEF BeginRow, Inv, InRange
  <2>3. /\ DOMAIN rows' = DOMAIN rows
        /\ \A q \in DOMAIN rows : /\ rows'[q].change = rows[q].change
                                  /\ q # r => rows'[q] = rows[q]
    BY <2>1, <2>2, StatusSets DEF Inv, RowStates
  <2>4. Held = {} /\ Held' = {rows[r].change}
    BY <2>1, <2>2, <2>3 DEF Held
  <2> QED BY <2>3, <2>4 DEF InHand
<1>7. CASE FinishRow \/ RowFails
  <2>1. /\ pc \in OfRow
        /\ (FinishRow /\ SetStatus("done")) \/ (RowFails /\ SetStatus("error"))
    BY <1>7 DEF FinishRow, RowFails, OfRow
  <2>2. cur \in DOMAIN rows
    BY <2>1 DEF Inv, InRange
  <2>3. /\ DOMAIN rows' = DOMAIN rows
        /\ RowFails => rows'[cur].status = "error" \/ FinishRow
        /\ \A q \in DOMAIN rows : /\ rows'[q].change = rows[q].change
                                  /\ q # cur => rows'[q] = rows[q]
    BY <2>1, <2>2, StatusSets DEF Inv, RowStates, SetStatus
  <2>4. Held = {rows[cur].change}
    BY <2>1 DEF Held, OfRow
  <2>5. CASE x = rows[cur].change
    BY <1>7, <2>2, <2>3, <2>5 DEF InHand
  <2>6. CASE x # rows[cur].change
    <3>1. PICK q \in DOMAIN rows : rows[q].change = x /\ rows[q].status \in {"new", "error"}
      BY <2>4, <2>6 DEF InHand
    <3> QED BY <2>3, <2>6, <3>1 DEF InHand
  <2> QED BY <2>5, <2>6
<1>8. CASE Start \/ FetchPage \/ FetchFails \/ StoreLink
  BY <1>3, <1>8 DEF Start, FetchPage, FetchFails, StoreLink, disk, OfRow
<1>9. CASE ListRows
  <2>1. pc = "storing" /\ acc = {} /\ rows' = rows
    BY <1>9 DEF ListRows, disk
  <2>2. Held = {}
    BY <2>1 DEF Held
  <2> QED BY <1>1, <2>1, <2>2
<1>10. CASE ApplyContent \/ Enqueue \/ ApplyDelete \/ MoveOnServer \/ StoreMoved
  BY <1>4, <1>10 DEF ApplyContent, Enqueue, ApplyDelete, MoveOnServer, StoreMoved, disk, OfRow
<1>11. CASE Downloads
  BY <1>3, <1>11 DEF Downloads, ListDownloads, FetchContent, DownloadFails, MarkCompleted,
                     MoveToLocal, DownloadAborts, Finish, disk, OfRow
<1>12. CASE (\E j \in Items : RemoteChange(j)) \/ Expire \/ UNCHANGED vars
  BY <1>2, <1>12 DEF RemoteChange, Expire, vars, disk, cycle
<1> QED BY <1>5, <1>6, <1>7, <1>8, <1>9, <1>10, <1>11, <1>12, CalmSteps
        DEF Next, Fetch, ProcessRows

\* While a row of an older version waits, the last version that the link covers
\* loses neither its row nor its place: rows have their turn in the order of
\* their versions, and an entry that needs no row is not behind that row.
LEMMA ComesStill ==
    ASSUME Known, Listed, Older, [Next]_vars, Unharmed', link' = link,
           NEW r \in DOMAIN rows, NEW i \in Items, rows[r].change.item = i,
           rows[r].status = "new", rows[r].change # cloud[i], Comes(i)
    PROVE  Comes(i)'
<1> SUFFICES ASSUME cloud'[i].etag <= link
             PROVE  InHand(cloud[i])'
  BY DEF Comes
<1>1. cloud'[i] = cloud[i]
  BY Covered DEF Known
<1>2. PICK x : x = cloud[i]
  OBVIOUS
<1>3. InHand(x)
  BY <1>1, <1>2 DEF Comes
<1>4. /\ rows[r].change.etag \in Nat /\ cloud[i].etag \in Nat /\ cloud[i].item = i
      /\ rows[r].change.etag <= cloud[i].etag
  BY Etags DEF Known, Behind
<1>5. ~(FinishRow /\ x = rows[cur].change)
  <2> SUFFICES ASSUME FinishRow, x = rows[cur].change
               PROVE  FALSE
    OBVIOUS
  <2>1. pc = "finishing"
    BY DEF FinishRow
  <2>2. cur \in DOMAIN rows /\ cur < r
    BY <2>1 DEF Known, Inv, InRange, OfRow, Listed
  <2>3. cloud[i].etag < rows[r].change.etag
    BY <1>2, <1>4, <2>2 DEF Known, Inv, RowsInOrder
  <2> QED BY <1>4, <2>3
<1>6. ~(StoreRow /\ x \in acc /\ Detect(x) = "no_change")
  <2> SUFFICES ASSUME StoreRow, x \in acc, Detect(x) = "no_change"
               PROVE  FALSE
    OBVIOUS
  <2>1. pc = "storing"
    BY DEF StoreRow
  <2>2. db[i].etag = x.etag
    BY <1>2, <1>4 DEF Detect
  <2>3. rows[r].change.etag < x.etag
    BY <1>2, <1>4, <2>1 DEF Known, Inv, Unstored
  <2>4. db[i].etag <= rows[r].change.etag
    BY <2>1 DEF Older
  <2> QED BY <1>2, <1>4, <2>2, <2>3, <2>4
<1>7. InHand(x)'
  BY <1>3, <1>5, <1>6, InHandStays DEF Known
<1> QED BY <1>1, <1>2, <1>7 DEF InHand

\* The same for the row at hand, until it is done.
LEMMA ComesAtHand ==
    ASSUME Known, [Next]_vars, Unharmed', link' = link, ~FinishRow, ~StoreRow,
           NEW i \in Items, Comes(i)
    PROVE  Comes(i)'
<1> SUFFICES ASSUME cloud'[i].etag <= link
             PROVE  InHand(cloud[i])'
  BY DEF Comes
<1>1. cloud'[i] = cloud[i]
  BY Covered DEF Known
<1>2. PICK x : x = cloud[i]
  OBVIOUS
<1>3. InHand(x)
  BY <1>1, <1>2 DEF Comes
<1>4. InHand(x)'
  BY <1>3, InHandStays DEF Known
<1> QED BY <1>1, <1>2, <1>4 DEF InHand

\* Only saving the link changes it.
LEMMA LinkStays ==
    ASSUME [Next]_vars, ~StoreLink
    PROVE  link' = link
<1>1. CASE Fetch
  BY <1>1 DEF Fetch, Start, FetchPage, FetchFails, StoreLink, StoreLinkFails, StoreRow,
              StoreRowFails, disk
<1>2. CASE Downloads
  BY <1>2 DEF Downloads, ListDownloads, FetchContent, DownloadFails, MarkCompleted,
              MoveToLocal, DownloadAborts, Finish, disk
<1>3. CASE ProcessRows
  BY <1>3 DEF ProcessRows, ListRows, BeginRow, ApplyContent, Enqueue, ApplyDelete,
              ApplyDeleteFailsQuietly, MoveOnServer, StoreMoved, FinishRow, RowFails, disk
<1>4. CASE (\E j \in Items : RemoteChange(j)) \/ Expire \/ Crash \/ UNCHANGED vars
  BY <1>4 DEF RemoteChange, Expire, Crash, vars, disk
<1> QED BY <1>1, <1>2, <1>3, <1>4 DEF Next

\* A refused move stays refused: a deletion is final.
LEMMA RefusedStays ==
    ASSUME Inv, [Next]_vars, NEW r \in DOMAIN rows, Refused(r)
    PROVE  Refused(r)'
<1>1. r \in DOMAIN rows' /\ rows'[r].change = rows[r].change /\ rows'[r].op = rows[r].op
  <2>1. CASE StoreRow
    <3>1. PICK c \in acc :
             /\ acc' = acc \ {c}
             /\ rows' = IF Detect(c) = "no_change" THEN rows
                        ELSE Append(rows, [change |-> c, op |-> Detect(c), status |-> "new"])
      BY <2>1 DEF StoreRow
    <3> QED BY <3>1, RowStored
  <2>2. CASE FetchPage
    BY <2>2 DEF FetchPage, disk
  <2> QED BY <2>1, <2>2, OthersBringNothing
<1>2. rows[r].change.item \in Items
  BY Etags
<1>3. cloud'[rows[r].change.item].deleted
  BY <1>2, NextMoves DEF Refused, ServerMoves
<1> QED BY <1>1, <1>3 DEF Refused

\* A waiting row, after the step.
LEMMA AwaitedRows ==
    ASSUME Known, Listed, Older, Newest, Awaited, [Next]_vars, Unharmed',
           NEW r \in DOMAIN rows', rows'[r].status = "new",
           NEW i \in Items, rows'[r].change.item = i, rows'[r].change # cloud'[i]
    PROVE  Comes(i)'
<1> SUFFICES ASSUME cloud'[i].etag <= link'
             PROVE  Comes(i)'
  BY DEF Comes
<1>1. CASE StoreLink
  <2>1. pc = "saving" /\ rows' = rows
    BY <1>1 DEF StoreLink
  <2> QED BY <2>1 DEF Listed, OfRow
<1>2. CASE ~StoreLink
  <2>1. link' = link
    BY <1>2, LinkStays
  <2>2. cloud'[i] = cloud[i]
    BY <2>1, Covered DEF Known
  <2>3. CASE r \in DOMAIN rows /\ rows[r].status = "new" /\ rows[r].change = rows'[r].change
    <3>1. Comes(i)
      BY <2>2, <2>3 DEF Awaited
    <3> QED BY <2>1, <2>2, <2>3, <3>1, ComesStill
  <2>4. CASE StoreRow
    <3>1. PICK c \in acc :
             /\ acc' = acc \ {c}
             /\ rows' = IF Detect(c) = "no_change" THEN rows
                        ELSE Append(rows, [change |-> c, op |-> Detect(c), status |-> "new"])
      BY <2>4 DEF StoreRow
    <3>2. (r \in DOMAIN rows /\ rows'[r] = rows[r]) \/ rows'[r].change = c
      BY <3>1, RowStored DEF Known
    <3>3. CASE rows'[r].change = c
      <4>1. pc = "storing" /\ pc' = "storing"
        BY <2>4 DEF StoreRow
      <4>2. cloud[i] \in acc'
        BY <2>1, <2>2, <3>1, <3>3, <4>1 DEF Newest
      <4> QED BY <2>2, <4>1, <4>2 DEF Comes, InHand, Held
    <3> QED BY <2>3, <3>2, <3>3
  <2>5. CASE FetchPage
    <3>1. rows' = rows
      BY <2>5 DEF FetchPage, disk
    <3> QED BY <2>3, <3>1
  <2>6. CASE ~FetchPage /\ ~StoreRow
    <3>1. r \in DOMAIN rows /\ rows[r].status = "new" /\ rows[r].change = rows'[r].change
      BY <2>6, OthersBringNothing DEF Known
    <3> QED BY <2>3, <3>1
  <2> QED BY <2>4, <2>5, <2>6
<1> QED BY <1>1, <1>2

\* A handler and the request of a move are not for a refused move.
LEMMA HandledNotRefused ==
    ASSUME Known, Handle \/ MoveOnServer
    PROVE  ~(pc = "applying" /\ Refused(cur))
<1>1. CASE MoveOnServer
  BY <1>1 DEF MoveOnServer, Exists, Refused
<1>2. CASE ApplyContent \/ ApplyDelete \/ ApplyDeleteFailsQuietly
  BY <1>2 DEF ApplyContent, ApplyDelete, ApplyDeleteFailsQuietly, Refused
<1>3. CASE StoreMoved
  BY <1>3 DEF StoreMoved
<1> QED BY <1>1, <1>2, <1>3 DEF Handle

\* The row at hand, after the step.
LEMMA AwaitedAtHand ==
    ASSUME Known, Listed, Awaited, [Next]_vars, Unharmed', pc' \in OfRow,
           NEW i \in Items, rows'[cur'].change.item = i, rows'[cur'].change # cloud'[i]
    PROVE  Comes(i)' \/ (pc' = "applying" /\ Refused(cur)')
<1> SUFFICES ASSUME cloud'[i].etag <= link'
             PROVE  Comes(i)' \/ (pc' = "applying" /\ Refused(cur)')
  BY DEF Comes
<1>1. CASE BeginRow
  <2>1. PICK r \in todo : rows' = [rows EXCEPT ![r].status = "processing"] /\ cur' = r
    BY <1>1 DEF BeginRow
  <2>2. /\ pc = "rows" /\ pc' = "applying" /\ r \in DOMAIN rows
        /\ link' = link /\ cloud' = cloud
    BY <1>1 DEF BeginRow, Known, Inv, InRange, onedrive
  <2>3. rows'[r].change = rows[r].change
    BY <2>1, <2>2, StatusSets DEF Known, Inv, RowStates
  <2>4. rows[r].status \in {"new", "error"}
    BY <2>2 DEF Listed
  <2>5. CASE rows[r].status = "new"
    <3>1. Comes(i)
      BY <2>1, <2>2, <2>3, <2>5 DEF Awaited
    <3> QED BY <2>2, <3>1, <1>1, ComesAtHand DEF FinishRow, StoreRow
  <2>6. CASE rows[r].status = "error"
    <3>1. Refused(r)
      BY <2>2, <2>6 DEF Awaited
    <3>2. Refused(r)'
      BY <2>2, <3>1, RefusedStays DEF Known
    <3> QED BY <2>1, <2>2, <3>2 DEF Refused
  <2> QED BY <2>4, <2>5, <2>6
<1>2. CASE /\ UNCHANGED <<rows, cur, link>> /\ pc \in OfRow
           /\ pc' = pc \/ ~(pc = "applying" /\ Refused(cur))
           /\ ~FinishRow /\ ~StoreRow
  <2>1. cloud'[i] = cloud[i]
    BY <1>2, Covered DEF Known
  <2>2. Comes(i) \/ (pc = "applying" /\ Refused(cur))
    BY <1>2, <2>1 DEF Awaited
  <2>3. CASE Comes(i)
    BY <1>2, <2>3, ComesAtHand
  <2>4. CASE pc = "applying" /\ Refused(cur)
    <3>1. PICK r \in DOMAIN rows : r = cur
      BY <1>2 DEF Known, Inv, InRange
    <3>2. Refused(r)'
      BY <2>4, <3>1, RefusedStays DEF Known, Refused
    <3> QED BY <1>2, <2>4, <3>1, <3>2 DEF Refused
  <2> QED BY <2>2, <2>3, <2>4
<1>3. CASE Handle \/ MoveOnServer
  <2>1. UNCHANGED <<rows, cur, link>> /\ pc \in OfRow
    BY <1>3, HandleKeeps DEF MoveOnServer, disk, OfRow
  <2>2. ~FinishRow /\ ~StoreRow
    BY <1>3, HandleKeeps DEF MoveOnServer, FinishRow, StoreRow
  <2> QED BY <1>2, <1>3, <2>1, <2>2, HandledNotRefused
<1>4. CASE Enqueue
  BY <1>2, <1>4 DEF Enqueue, OfRow, FinishRow, StoreRow
<1>5. CASE (\E j \in Items : RemoteChange(j)) \/ Expire \/ UNCHANGED vars
  <2>1. UNCHANGED <<rows, cur, link, pc>>
    BY <1>5 DEF RemoteChange, Expire, vars, disk, cycle
  <2> QED BY <1>2, <2>1 DEF FinishRow, StoreRow, OfRow
<1>6. CASE Fetch
  BY <1>6 DEF Fetch, Start, FetchPage, FetchFails, StoreLink, StoreLinkFails, StoreRow,
              StoreRowFails, EndCycle, OfRow
<1>7. CASE ListRows \/ FinishRow \/ RowFails
  BY <1>7 DEF ListRows, FinishRow, RowFails, OfRow
<1>8. CASE Downloads
  BY <1>8 DEF Downloads, ListDownloads, FetchContent, DownloadFails, MarkCompleted,
              MoveToLocal, DownloadAborts, Finish, EndCycle, OfRow
<1> QED BY <1>1, <1>3, <1>4, <1>5, <1>6, <1>7, <1>8, CalmSteps
        DEF Next, ProcessRows, Handle, Known

\* Only a refused move is marked `error`.
LEMMA ErrorsAreRefused ==
    ASSUME Known, Versioned, Awaited, [Next]_vars, Unharmed',
           NEW r \in DOMAIN rows', rows'[r].status = "error"
    PROVE  Refused(r)'
<1>1. CASE r \in DOMAIN rows /\ rows[r].status = "error"
  BY <1>1, RefusedStays DEF Awaited, Known
<1>2. CASE rows' = rows
  BY <1>1, <1>2
<1>3. CASE RowFails
  <2>1. /\ pc = "applying" /\ rows[cur].op = "move" /\ ~Exists(rows[cur].change.item)
        /\ cloud' = cloud
    BY <1>3, CalmSteps DEF Known, RowFails, onedrive
  <2>2. /\ cur \in DOMAIN rows /\ rows[cur].change.etag \in Nat
        /\ cloud[rows[cur].change.item].etag \in Nat
        /\ rows[cur].change.etag <= cloud[rows[cur].change.item].etag
    BY <2>1, RowNow DEF Known, OfRow
  <2>3. Refused(cur)
    BY <2>1, <2>2 DEF Exists, Versioned, Refused
  <2>4. rows' = [rows EXCEPT ![cur].status = "error"]
    BY <1>3 DEF RowFails, SetStatus
  <2>5. /\ DOMAIN rows' = DOMAIN rows
        /\ \A q \in DOMAIN rows : q # cur => rows'[q] = rows[q]
    BY <2>2, <2>4, StatusSets DEF Known, Inv, RowStates
  <2>6. CASE r = cur
    BY <2>3, <2>2, <2>6, RefusedStays DEF Known, Refused
  <2> QED BY <1>1, <2>5, <2>6
<1>4. CASE FinishRow
  <2>1. cur \in DOMAIN rows /\ rows' = [rows EXCEPT ![cur].status = "done"]
    BY <1>4 DEF FinishRow, SetStatus, Known, Inv, InRange, OfRow
  <2>2. /\ DOMAIN rows' = DOMAIN rows /\ rows'[cur].status = "done"
        /\ \A q \in DOMAIN rows : q # cur => rows'[q] = rows[q]
    BY <2>1, StatusSets DEF Known, Inv, RowStates
  <2> QED BY <1>1, <2>2
<1>5. CASE BeginRow
  <2>1. PICK q \in todo : rows' = [rows EXCEPT ![q].status = "processing"]
    BY <1>5 DEF BeginRow
  <2>2. q \in DOMAIN rows
    BY <1>5 DEF BeginRow, Known, Inv, InRange
  <2>3. /\ DOMAIN rows' = DOMAIN rows /\ rows'[q].status = "processing"
        /\ \A p \in DOMAIN rows : p # q => rows'[p] = rows[p]
    BY <2>1, <2>2, StatusSets DEF Known, Inv, RowStates
  <2> QED BY <1>1, <2>3
<1>6. CASE StoreRow
  <2>1. PICK c \in acc :
           /\ acc' = acc \ {c}
           /\ rows' = IF Detect(c) = "no_change" THEN rows
                      ELSE Append(rows, [change |-> c, op |-> Detect(c), status |-> "new"])
    BY <1>6 DEF StoreRow
  <2>2. r \in DOMAIN rows /\ rows'[r] = rows[r]
    BY <2>1, RowStored DEF Known
  <2> QED BY <1>1, <2>2
<1>7. CASE Start \/ FetchPage \/ FetchFails \/ StoreLink
  BY <1>2, <1>7 DEF Start, FetchPage, FetchFails, StoreLink, disk
<1>8. CASE ListRows \/ ApplyContent \/ Enqueue \/ ApplyDelete \/ MoveOnServer \/ StoreMoved
  BY <1>2, <1>8 DEF ListRows, ApplyContent, Enqueue, ApplyDelete, MoveOnServer, StoreMoved, disk
<1>9. CASE Downloads
  BY <1>2, <1>9 DEF Downloads, ListDownloads, FetchContent, DownloadFails, MarkCompleted,
                    MoveToLocal, DownloadAborts, Finish, disk
<1>10. CASE (\E j \in Items : RemoteChange(j)) \/ Expire \/ UNCHANGED vars
  BY <1>2, <1>10 DEF RemoteChange, Expire, vars, disk
<1> QED BY <1>3, <1>4, <1>5, <1>6, <1>7, <1>8, <1>9, <1>10, CalmSteps
        DEF Next, Fetch, ProcessRows, Known

\* The last version that the link covers waits behind the older ones.
LEMMA AwaitedNext ==
    ASSUME Known, Listed, Versioned, Older, Newest, Awaited, [Next]_vars, Unharmed'
    PROVE  Awaited'
<1>1. Inv'
  BY NextInv DEF Known
<1>2. \A r \in DOMAIN rows' : rows'[r].change.item \in Items
  <2>1. \A r \in DOMAIN rows' : rows'[r] \in Row
    <3>1. rows' \in Seq(Row)
      BY <1>1 DEF Inv, TypeOK
    <3> QED BY <3>1, ElementOfSeq, LenProperties
  <2> QED BY <2>1 DEF Row, Change
<1>3. \A r \in DOMAIN rows' :
         rows'[r].status = "new" /\ rows'[r].change # cloud'[rows'[r].change.item]
             => Comes(rows[r].change.item)'
  BY <1>2, AwaitedRows DEF Comes
<1>4. pc' \in OfRow /\ rows'[cur'].change # cloud'[rows'[cur'].change.item]
             => Comes(rows[cur].change.item)' \/ (pc' = "applying" /\ Refused(cur)')
  <2>1. pc' \in OfRow => cur' \in DOMAIN rows'
    BY <1>1 DEF Inv, InRange
  <2> QED BY <1>2, <2>1, AwaitedAtHand DEF Comes
<1>5. \A r \in DOMAIN rows' : rows'[r].status = "error" => Refused(r)'
  BY ErrorsAreRefused
<1> QED BY <1>3, <1>4, <1>5 DEF Awaited

\* What needs no row is in the database.
LEMMA UnchangedIsReflected ==
    ASSUME Known, NEW i \in Items, cloud[i] \in acc, Detect(cloud[i]) = "no_change"
    PROVE  Reflected(i)
<1>1. /\ cloud[i] \in Change /\ cloud[i].item = i
      /\ db[i] \in Change /\ db[i].item = i
  BY DEF Known, Inv, TypeOK, Entries
<1>2. /\ ~cloud[i].deleted /\ db[i].parent = cloud[i].parent /\ db[i].etag = cloud[i].etag
      /\ db[i].content = cloud[i].content
  BY <1>1 DEF Detect
<1>3. db[i].deleted = cloud[i].deleted
  BY <1>1, <1>2 DEF Known, Entries, Change
<1> QED BY <1>1, <1>2, <1>3 DEF Change, Reflected

\* The link is saved when all it covers is fetched.
LEMMA NothingMissedAtLink ==
    ASSUME Inv, Gathered, NothingMissed, StoreLink
    PROVE  NothingMissed'
<1>1. /\ pc = "saving" /\ pc' = "storing" /\ link' = token
      /\ UNCHANGED <<cloud, rows, db, acc>>
  BY DEF StoreLink, onedrive
<1>2. /\ link \in Nat /\ token \in Nat
      /\ \A i \in Items : cloud[i].etag \in Nat
  BY DEF Inv, TypeOK, Change
<1>3. Held = {} /\ Held' = acc
  BY <1>1 DEF Held
<1>4. \A i \in Items : cloud[i].etag <= token => cloud[i].etag <= link \/ cloud[i] \in acc
  BY <1>1, <1>2 DEF Gathered
<1>5. ASSUME NEW i \in Items, cloud[i].etag <= token
      PROVE  Reflected(i) \/ InHand(cloud[i])'
  <2>1. CASE cloud[i] \in acc
    BY <1>1, <1>3, <2>1 DEF InHand
  <2>2. CASE cloud[i].etag <= link
    BY <1>1, <1>3, <2>2 DEF NothingMissed, InHand
  <2> QED BY <1>4, <1>5, <2>1, <2>2
<1> QED BY <1>1, <1>5 DEF NothingMissed, Reflected

\* Nothing that the link covers is lost, and no older version replaces it.
LEMMA NothingMissedNext ==
    ASSUME Known, Answered, Gathered, InTurn, [Next]_vars, Unharmed'
    PROVE  NothingMissed'
<1>1. CASE StoreLink
  BY <1>1, NothingMissedAtLink DEF Known, InTurn
<1>2. CASE ~StoreLink
  <2> SUFFICES ASSUME NEW i \in Items, cloud'[i].etag <= link
               PROVE  Reflected(i)' \/ InHand(cloud[i])'
    BY <1>2, LinkStays DEF NothingMissed
  <2>1. cloud'[i] = cloud[i]
    BY <1>2, LinkStays, Covered DEF Known
  <2>2. PICK x : x = cloud[i]
    OBVIOUS
  <2>3. CASE InHand(x)
    <3>1. CASE InHand(x)'
      BY <2>1, <2>2, <3>1 DEF InHand
    <3>2. CASE FinishRow /\ x = rows[cur].change
      <4>1. Reflected(i) /\ db' = db
        BY <2>2, <3>2 DEF FinishRow, InTurn, Landed
      <4> QED BY <2>1, <4>1 DEF Reflected
    <3>3. CASE StoreRow /\ x \in acc /\ Detect(x) = "no_change"
      <4>1. Reflected(i) /\ db' = db
        BY <2>2, <3>3, UnchangedIsReflected DEF StoreRow
      <4> QED BY <2>1, <4>1 DEF Reflected
    <3> QED BY <2>3, <3>1, <3>2, <3>3, InHandStays DEF Known
  <2>4. CASE ~InHand(x)
    <3>1. Reflected(i) /\ ~InHand(cloud[i])
      BY <2>1, <2>2, <2>4 DEF InTurn, NothingMissed, InHand
    <3>2. CASE db'[i] = db[i]
      BY <2>1, <3>1, <3>2 DEF Reflected
    <3>3. CASE Handle /\ rows[cur].change.item = i
      <4>1. pc \in OfRow
        BY <3>3, HandleKeeps DEF OfRow
      <4>2. rows[cur].change # cloud[i]
        BY <3>1, <4>1 DEF InHand, Held, OfRow
      <4>3. Comes(i)
        BY <3>3, <4>1, <4>2, HandledNotRefused DEF InTurn, Awaited
      <4> QED BY <2>1, <3>1, <4>3 DEF Comes
    <3> QED BY <3>2, <3>3, HandleSets, OthersKeepEntries
  <2> QED BY <2>3, <2>4
<1> QED BY <1>1, <1>2

\* Rows are handled in turn in every reachable state that no failure came before.
LEMMA SpecInTurn == Spec => [](Unharmed => InTurn)
<1>1. Init => (Unharmed => InTurn)
  <2> SUFFICES ASSUME Init PROVE InTurn
    OBVIOUS
  <2>1. DOMAIN rows = {} /\ acc = {} /\ pc = "idle"
    BY EmptySeq, LenProperties DEF Init
  <2>2. \A i \in Items : cloud[i] = db[i] /\ db[i].etag = 0
    BY DEF Init, Unknown
  <2>3. Listed /\ Awaited /\ Newest /\ Versioned /\ Landed
    BY <2>1 DEF Listed, Awaited, Newest, Versioned, Landed, OfRow
  <2>4. Older /\ NothingMissed
    BY <2>1, <2>2 DEF Older, NothingMissed, Reflected
  <2> QED BY <2>3, <2>4 DEF InTurn
<1>2. Inv /\ Behind /\ Traced /\ (Unharmed => InTurn) /\ [Next]_vars => (Unharmed => InTurn)'
  <2> SUFFICES ASSUME Inv, Behind, Traced, Unharmed => InTurn, [Next]_vars, Unharmed'
               PROVE  InTurn'
    OBVIOUS
  <2>1. Known /\ Answered /\ Gathered /\ InTurn
    BY CalmSteps DEF Traced, Known
  <2>2. Listed' /\ Versioned' /\ Older'
    BY <2>1, ListedNext, VersionedNext, OlderNext DEF Known, InTurn
  <2>3. Awaited' /\ Newest' /\ Landed'
    BY <2>1, AwaitedNext, NewestNext, LandedNext DEF Known, InTurn
  <2>4. NothingMissed'
    BY <2>1, NothingMissedNext
  <2> QED BY <2>2, <2>3, <2>4 DEF InTurn
<1> QED BY <1>1, <1>2, Invariance, SpecBehind, SpecTraced, PTL DEF Spec

\* As long as no request and no statement has failed and no kill came: a change
\* that the saved link covers is in the database or will be applied, however the
\* other clients interfere, at whatever moment the daemon moves items itself, and
\* whether or not the server forgets its tokens.
THEOREM NothingIsMissed == Spec => [](Unharmed => NothingMissed)
<1>1. (Unharmed => InTurn) => (Unharmed => NothingMissed)
  BY DEF InTurn
<1> QED BY <1>1, SpecInTurn, PTL

-----------------------------------------------------------------------------
\* Until something fails, each folder chosen for download is mirrored.
\* SyncFoldersMirrored speaks of the time between cycles.  Mirrored follows a
\* file through the cycle: it is queued, or fetched, or about to be.  That the
\* handler of an update may leave the download out when the entry has the etag of
\* the row needs Matched: with one etag, the row and the entry have one parent and
\* one content, unless a move of the daemon wrote the entry.

\* The row at hand, handled, is a move of the item into a chosen folder.
MovingIn(i) ==
    /\ pc = "finishing" /\ rows[cur].op = "move" /\ rows[cur].change.item = i
    /\ rows[cur].change.parent \in SyncFolders

CameIn(i) == MovedIn(i) \/ MovingIn(i)

Updates ==
    \A r \in DOMAIN rows : rows[r].op = "update" => db[rows[r].change.item].etag # 0

\* The content of an item, its `size and dates`, only grows.
Sizes ==
    /\ \A i \in Items : cloud[i].content <= clock /\ db[i].content <= cloud[i].content
    /\ \A c \in acc : c.content <= cloud[c.item].content
    /\ \A r \in DOMAIN rows : rows[r].change.content <= cloud[rows[r].change.item].content

Current == pc \in OfDownload => db[queue[cur].item].content <= staged[queue[cur].item]

Matches(c) ==
    LET d == db[c.item] IN
    c.etag = d.etag =>
        /\ c.parent = d.parent
        /\ c.content = d.content \/ (d.parent \in SyncFolders => CameIn(c.item))

Matched ==
    /\ \A i \in Items : Matches(cloud[i])
    /\ \A c \in acc : Matches(c)
    /\ \A r \in DOMAIN rows : Matches(rows[r].change)

\* What has the etag of the answer to a move has the parent that was asked for.
Agreed ==
    pc = "moved" =>
        LET c == rows[cur].change IN
        /\ rows[cur].op = "move"
        /\ cloud[c.item].etag = answer => cloud[c.item].parent = c.parent
        /\ \A r \in DOMAIN rows : rows[r].change.item = c.item /\ rows[r].change.etag = answer
              => rows[r].change.parent = c.parent

\* The content of the file is wanted on disk.
Wanted(i) == db[i].etag # 0 /\ ~db[i].deleted /\ db[i].parent \in SyncFolders /\ Exists(i)

\* It is there, or it will come.
Supply(i) ==
    \/ Queued(i) \/ local[i] >= db[i].content \/ CameIn(i)
    \/ pc = "enqueueing" /\ rows[cur].change.item = i
    \/ pc \in OfDownload /\ queue[cur].item = i

Mirrored == \A i \in Items : Wanted(i) => Supply(i)

Supplied == Updates /\ Sizes /\ Current /\ Matched /\ Agreed /\ Mirrored

\* What is known in a calm state.
Calm == Known /\ Answered /\ InTurn

\* A move that came in stays.
LEMMA CameInStays ==
    ASSUME Inv, Listed, [Next]_vars, Unharmed', NEW i, CameIn(i)
    PROVE  CameIn(i)'
<1>1. CASE rows' = rows /\ MovedIn(i)
  BY <1>1 DEF CameIn, MovedIn
<1>2. CASE UNCHANGED <<rows, pc, cur>>
  BY <1>2 DEF CameIn, MovedIn, MovingIn
<1>3. CASE rows' = rows /\ pc # "finishing"
  BY <1>1, <1>3 DEF CameIn, MovingIn
<1>4. ASSUME NEW r \in DOMAIN rows, NEW s \in {"processing", "error"},
             rows[r].status # "done", pc # "finishing",
             rows' = [rows EXCEPT ![r].status = s]
      PROVE  CameIn(i)'
  <2>1. /\ DOMAIN rows' = DOMAIN rows
        /\ \A q \in DOMAIN rows : q # r => rows'[q] = rows[q]
    BY <1>4, StatusSets DEF Inv, RowStates
  <2>2. MovedIn(i)
    BY <1>4 DEF CameIn, MovingIn
  <2>3. MovedIn(i)'
    BY <1>4, <2>1, <2>2 DEF MovedIn
  <2> QED BY <2>3 DEF CameIn
<1>5. CASE BeginRow
  <2>1. PICK r \in todo : rows' = [rows EXCEPT ![r].status = "processing"]
    BY <1>5 DEF BeginRow
  <2>2. pc = "rows" /\ r \in DOMAIN rows /\ rows[r].status # "done"
    BY <1>5 DEF BeginRow, Inv, InRange, Listed
  <2> QED BY <1>4, <2>1, <2>2
<1>6. CASE RowFails
  <2>1. pc = "applying" /\ rows' = [rows EXCEPT ![cur].status = "error"]
    BY <1>6, CalmSteps DEF RowFails, SetStatus
  <2>2. cur \in DOMAIN rows /\ rows[cur].status # "done"
    BY <2>1 DEF Inv, InRange, OfRow, Listed
  <2> QED BY <1>4, <2>1, <2>2
<1>7. CASE FinishRow
  <2>1. pc = "finishing" /\ rows' = [rows EXCEPT ![cur].status = "done"]
    BY <1>7 DEF FinishRow, SetStatus
  <2>2. cur \in DOMAIN rows
    BY <2>1 DEF Inv, InRange, OfRow
  <2>3. /\ DOMAIN rows' = DOMAIN rows /\ rows'[cur].status = "done"
        /\ \A q \in DOMAIN rows : /\ rows'[q].change = rows[q].change
                                  /\ rows'[q].op = rows[q].op
                                  /\ q # cur => rows'[q] = rows[q]
    BY <2>1, <2>2, StatusSets DEF Inv, RowStates
  <2>4. MovedIn(i)'
    BY <2>1, <2>2, <2>3 DEF CameIn, MovedIn, MovingIn
  <2> QED BY <2>4 DEF CameIn
<1>8. CASE StoreRow
  <2>1. PICK c \in acc :
           /\ acc' = acc \ {c}
           /\ rows' = IF Detect(c) = "no_change" THEN rows
                      ELSE Append(rows, [change |-> c, op |-> Detect(c), status |-> "new"])
    BY <1>8 DEF StoreRow
  <2>2. \A r \in DOMAIN rows : r \in DOMAIN rows' /\ rows'[r] = rows[r]
    BY <2>1, RowStored
  <2>3. MovedIn(i)
    BY <1>8 DEF CameIn, MovingIn, StoreRow
  <2>4. MovedIn(i)'
    BY <2>2, <2>3 DEF MovedIn
  <2> QED BY <2>4 DEF CameIn
<1>9. CASE Start \/ FetchPage \/ FetchFails \/ StoreLink
  BY <1>3, <1>9 DEF Start, FetchPage, FetchFails, StoreLink, disk
<1>10. CASE ListRows \/ ApplyContent \/ Enqueue \/ ApplyDelete \/ MoveOnServer \/ StoreMoved
  BY <1>3, <1>10 DEF ListRows, ApplyContent, Enqueue, ApplyDelete, MoveOnServer, StoreMoved,
                     disk
<1>11. CASE Downloads
  BY <1>3, <1>11 DEF Downloads, ListDownloads, FetchContent, DownloadFails, MarkCompleted,
                     MoveToLocal, DownloadAborts, Finish, disk
<1>12. CASE (\E j \in Items : RemoteChange(j)) \/ Expire \/ UNCHANGED vars
  BY <1>2, <1>12 DEF RemoteChange, Expire, vars, disk, cycle
<1> QED BY <1>5, <1>6, <1>7, <1>8, <1>9, <1>10, <1>11, <1>12, CalmSteps
        DEF Next, Fetch, ProcessRows

\* What the handlers do to the entries.
LEMMA ContentSets ==
    ASSUME Known, ApplyContent
    PROVE  /\ cur \in DOMAIN rows /\ rows[cur].change.item \in Items
           /\ db'[rows[cur].change.item] = rows[cur].change
           /\ \A i \in Items : i # rows[cur].change.item => db'[i] = db[i]
<1> DEFINE c == rows[cur].change
<1>1. cur \in DOMAIN rows /\ c \in Change /\ c.item \in Items /\ Store(c)
  BY RowNow DEF Known, OfRow, ApplyContent
<1> HIDE DEF c
<1>2. db'[c.item] = c /\ \A j \in Items : j # c.item => db'[j] = db[j]
  BY <1>1, StoreSets DEF Known, Inv
<1> QED BY <1>1, <1>2 DEF c

\* What the move of the file at hand stores in its entry, and in no other.
LEMMA MovedSets ==
    ASSUME Known, StoreMoved
    PROVE  /\ cur \in DOMAIN rows /\ rows[cur].change.item \in Items
           /\ LET c == rows[cur].change
                  d == db'[c.item]
              IN  d.etag = answer /\ d.parent = c.parent /\ d.content = c.content
           /\ \A i \in Items : i # rows[cur].change.item => db'[i] = db[i]
<1> DEFINE c == rows[cur].change
           m == [c EXCEPT !.etag = answer]
<1>1. cur \in DOMAIN rows /\ c \in Change /\ c.item \in Items
  BY RowNow DEF Known, OfRow, StoreMoved
<1>2. Store(m)
  BY DEF StoreMoved
<1> HIDE DEF c
<1>3. /\ m \in Change /\ m.item = c.item
      /\ m.etag = answer /\ m.parent = c.parent /\ m.content = c.content
  BY <1>1, AnsweredRecord DEF Known, Inv
<1> HIDE DEF m
<1>4. db'[c.item] = m /\ \A j \in Items : j # c.item => db'[j] = db[j]
  BY <1>2, <1>3, StoreSets DEF Known, Inv
<1> QED BY <1>1, <1>3, <1>4 DEF c

\* What the deletion at hand stores in its entry, and in no other.
LEMMA DeletedSets ==
    ASSUME Known, ApplyDelete
    PROVE  /\ cur \in DOMAIN rows /\ rows[cur].change.item \in Items
           /\ cloud[rows[cur].change.item].deleted
           /\ LET c == rows[cur].change
                  d == db'[c.item]
              IN  /\ d.etag = db[c.item].etag /\ d.parent = db[c.item].parent
                  /\ d.content = db[c.item].content
           /\ \A i \in Items : i # rows[cur].change.item => db'[i] = db[i]
<1> DEFINE c == rows[cur].change
<1>1. cur \in DOMAIN rows /\ c \in Change /\ c.item \in Items
  BY RowNow DEF Known, OfRow, ApplyDelete
<1>2. rows[cur].op = "delete" /\ db' = MarkedDeleted(c.item)
  BY DEF ApplyDelete
<1>3. cloud[c.item].deleted
  BY <1>1, <1>2 DEF Known, Versions, Faithful
<1> HIDE DEF c
<1>4. /\ db'[c.item].etag = db[c.item].etag
      /\ db'[c.item].parent = db[c.item].parent /\ db'[c.item].content = db[c.item].content
      /\ \A j \in Items : j # c.item => db'[j] = db[j]
  BY <1>1, <1>2, MarkSets DEF Known, Inv
<1> QED BY <1>1, <1>3, <1>4 DEF c

\* What an unharmed step does to the entry of an item.
LEMMA EntryMoves ==
    ASSUME Known, [Next]_vars, Unharmed', NEW i \in Items
    PROVE  \/ /\ db'[i].etag = db[i].etag /\ db'[i].parent = db[i].parent
              /\ db'[i].content = db[i].content
           \/ /\ ApplyContent /\ cur \in DOMAIN rows
              /\ rows[cur].change.item = i /\ db'[i] = rows[cur].change
           \/ /\ StoreMoved /\ cur \in DOMAIN rows
              /\ rows[cur].change.item = i /\ db'[i].etag = answer
              /\ db'[i].parent = rows[cur].change.parent
              /\ db'[i].content = rows[cur].change.content
<1>1. CASE db'[i] = db[i]
  BY <1>1
<1>2. CASE ApplyContent
  BY <1>1, <1>2, ContentSets
<1>3. CASE StoreMoved
  BY <1>1, <1>3, MovedSets
<1>4. CASE ApplyDelete
  BY <1>1, <1>4, DeletedSets
<1>5. CASE ~Handle
  BY <1>1, <1>5, OthersKeepEntries
<1> QED BY <1>2, <1>3, <1>4, <1>5, CalmSteps DEF Handle, Known

\* A change of the server, its content and its clock.
LEMMA PutGrows ==
    ASSUME Inv, Sizes, NEW c \in Change, Put(c),
           cloud[c.item].content <= c.content, c.content <= clock + 1
    PROVE  \A i \in Items : cloud[i].content <= cloud'[i].content /\ cloud'[i].content <= clock'
<1> DEFINE e == [c EXCEPT !.etag = clock + 1]
<1>1. c.item \in Items /\ clock \in Nat /\ cloud \in [Items -> Change]
  BY DEF Change, Inv, TypeOK
<1>2. e.content = c.content
  BY DEF Change
<1>3. cloud' = [cloud EXCEPT ![c.item] = e] /\ clock' = clock + 1
  BY DEF Put
<1> HIDE DEF e
<1>4. cloud'[c.item] = e /\ \A i \in Items : i # c.item => cloud'[i] = cloud[i]
  BY <1>1, <1>3
<1>5. \A i \in Items : cloud[i].content \in Nat /\ cloud[i].content <= clock
  BY <1>1 DEF Change, Sizes
<1> QED BY <1>1, <1>2, <1>3, <1>4, <1>5

\* The content of an item only grows.
LEMMA ContentGrows ==
    ASSUME Inv, Sizes, [Next]_vars
    PROVE  \A i \in Items : cloud[i].content <= cloud'[i].content /\ cloud'[i].content <= clock'
<1>1. /\ clock \in Nat /\ clock + 1 \in Nat
      /\ \A i \in Items : /\ cloud[i] \in Change /\ cloud[i].item = i
                          /\ cloud[i].content \in Nat /\ cloud[i].content <= clock
  BY DEF Inv, TypeOK, Change, Sizes
<1>2. CASE cloud' = cloud /\ clock' = clock
  BY <1>1, <1>2
<1>3. CASE \E i \in Items : RemoteChange(i)
  <2>1. PICK i \in Items : RemoteChange(i)
    BY <1>3
  <2>2. CASE \E f \in Folders : Put([cloud[i] EXCEPT !.content = clock + 1, !.parent = f])
    <3>1. PICK f \in Folders : Put([cloud[i] EXCEPT !.content = clock + 1, !.parent = f])
      BY <2>2
    <3> DEFINE c == [cloud[i] EXCEPT !.content = clock + 1, !.parent = f]
    <3>2. c \in Change
      <4> DEFINE n == clock + 1
      <4>1. n \in Nat /\ cloud[i] \in Change /\ f \in Folders
        BY <1>1
      <4> HIDE DEF n
      <4>2. [cloud[i] EXCEPT !.content = n, !.parent = f] \in Change
        BY <4>1 DEF Change
      <4> QED BY <4>2 DEF n
    <3>3. c.item = i /\ c.content = clock + 1
      BY <1>1 DEF Change
    <3>4. Put(c)
      BY <3>1
    <3> HIDE DEF c
    <3> QED BY <1>1, <3>2, <3>3, <3>4, PutGrows
  <2>3. CASE Put([cloud[i] EXCEPT !.content = clock + 1])
    <3> DEFINE c == [cloud[i] EXCEPT !.content = clock + 1]
    <3>1. c \in Change /\ c.item = i /\ c.content = clock + 1
      BY <1>1 DEF Change
    <3>2. Put(c)
      BY <2>3
    <3> HIDE DEF c
    <3> QED BY <1>1, <3>1, <3>2, PutGrows
  <2>4. CASE \E f \in Folders : Put([cloud[i] EXCEPT !.parent = f])
    <3>1. PICK f \in Folders : Put([cloud[i] EXCEPT !.parent = f])
      BY <2>4
    <3> DEFINE c == [cloud[i] EXCEPT !.parent = f]
    <3>2. c \in Change /\ c.item = i /\ c.content = cloud[i].content
      BY <1>1 DEF Change
    <3>3. Put(c)
      BY <3>1
    <3> HIDE DEF c
    <3> QED BY <1>1, <3>2, <3>3, PutGrows
  <2>5. CASE Put([cloud[i] EXCEPT !.deleted = TRUE])
    <3> DEFINE c == [cloud[i] EXCEPT !.deleted = TRUE]
    <3>1. c \in Change /\ c.item = i /\ c.content = cloud[i].content
      BY <1>1 DEF Change
    <3>2. Put(c)
      BY <2>5
    <3> HIDE DEF c
    <3> QED BY <1>1, <3>1, <3>2, PutGrows
  <2> QED BY <2>1, <2>2, <2>3, <2>4, <2>5 DEF RemoteChange
<1>4. CASE MoveOnServer
  <2> DEFINE i == rows[cur].change.item
             p == rows[cur].change.parent
             c == [cloud[i] EXCEPT !.parent = p]
  <2>1. cur \in DOMAIN rows
    BY <1>4 DEF MoveOnServer, Inv, InRange, OfRow
  <2>2. i \in Items /\ p \in Folders
    BY <2>1, RowAtHand DEF Inv, Change
  <2>3. UNCHANGED <<cloud, clock>> \/ Put(c)
    BY <1>4 DEF MoveOnServer
  <2> HIDE DEF i, p
  <2>4. c \in Change /\ c.item = i /\ c.content = cloud[i].content
    BY <1>1, <2>2 DEF Change
  <2> HIDE DEF c
  <2> QED BY <1>1, <1>2, <2>2, <2>3, <2>4, PutGrows
<1>5. CASE Fetch
  BY <1>2, <1>5 DEF Fetch, Start, FetchPage, FetchFails, StoreLink, StoreLinkFails, StoreRow,
                    StoreRowFails, onedrive
<1>6. CASE Downloads
  BY <1>2, <1>6 DEF Downloads, ListDownloads, FetchContent, DownloadFails, MarkCompleted,
                    MoveToLocal, DownloadAborts, Finish, onedrive
<1>7. CASE ListRows \/ BeginRow \/ Handle \/ Enqueue \/ FinishRow \/ RowFails
  BY <1>2, <1>7 DEF ListRows, BeginRow, Handle, ApplyContent, Enqueue, ApplyDelete,
                    ApplyDeleteFailsQuietly, StoreMoved, FinishRow, RowFails, onedrive
<1>8. CASE Expire \/ Crash \/ UNCHANGED vars
  BY <1>2, <1>8 DEF Expire, Crash, vars, onedrive
<1> QED BY <1>3, <1>4, <1>5, <1>6, <1>7, <1>8 DEF Next, ProcessRows, Handle

\* Where the rows and the changes at hand come from.
LEMMA RowSource ==
    ASSUME Inv, [Next]_vars, NEW r \in DOMAIN rows'
    PROVE  \/ /\ r \in DOMAIN rows
              /\ rows'[r].change = rows[r].change /\ rows'[r].op = rows[r].op
           \/ /\ StoreRow /\ rows'[r].change \in acc
              /\ rows'[r].op = Detect(rows'[r].change)
<1>1. CASE StoreRow
  <2>1. PICK c \in acc :
           /\ acc' = acc \ {c}
           /\ rows' = IF Detect(c) = "no_change" THEN rows
                      ELSE Append(rows, [change |-> c, op |-> Detect(c), status |-> "new"])
    BY <1>1 DEF StoreRow
  <2>2. \/ r \in DOMAIN rows /\ rows'[r] = rows[r]
        \/ rows'[r].change = c /\ rows'[r].op = Detect(c)
    BY <2>1, RowStored
  <2> QED BY <1>1, <2>2
<1>2. CASE FetchPage
  BY <1>2 DEF FetchPage, disk
<1>3. CASE ~StoreRow /\ ~FetchPage
  BY <1>3, OthersBringNothing
<1> QED BY <1>1, <1>2, <1>3

\* What is fetched is the newest change of an item.
LEMMA ChangeSource ==
    ASSUME Inv, [Next]_vars, NEW c \in acc'
    PROVE  c \in acc \/ (FetchPage /\ \E i \in Items : c = cloud[i])
<1>1. CASE FetchPage
  BY <1>1 DEF FetchPage
<1>2. CASE StoreRow
  BY <1>2 DEF StoreRow
<1>3. CASE ~StoreRow /\ ~FetchPage
  BY <1>3, OthersBringNothing
<1> QED BY <1>1, <1>2, <1>3

\* The row of an update is of an item with an entry.
LEMMA UpdatesNext ==
    ASSUME Calm, Updates, [Next]_vars, Unharmed'
    PROVE  Updates'
<1>1. \A i \in Items : db[i].etag # 0 => db'[i].etag # 0
  <2> TAKE i \in Items
  <2> HAVE db[i].etag # 0
  <2>1. CASE StoreMoved
    <3>1. CASE cur \in DOMAIN rows /\ db'[i].etag = answer
      <4>1. rows[cur].change.etag \in Nat /\ rows[cur].change.etag # 0
        BY <3>1, Etags DEF Calm, Known, InTurn, Versioned
      <4>2. rows[cur].change.etag <= answer /\ answer \in Nat
        BY <2>1 DEF StoreMoved, Calm, Known, Behind, Inv, TypeOK
      <4> QED BY <3>1, <4>1, <4>2
    <3>2. CASE db'[i].etag = db[i].etag
      BY <3>2
    <3> QED BY <2>1, <3>1, <3>2, EntryMoves DEF Calm, StoreMoved, ApplyContent
  <2>2. CASE ~StoreMoved
    BY <2>2, EntryMoves DEF Calm, InTurn, Versioned
  <2> QED BY <2>1, <2>2
<1>2. ASSUME NEW r \in DOMAIN rows', rows'[r].op = "update"
      PROVE  db'[rows'[r].change.item].etag # 0
  <2>1. CASE r \in DOMAIN rows /\ rows'[r].change = rows[r].change /\ rows'[r].op = rows[r].op
    <3>1. rows[r].change.item \in Items
      BY <2>1, Etags DEF Calm, Known
    <3> QED BY <1>1, <1>2, <2>1, <3>1 DEF Updates
  <2>2. CASE rows'[r].change \in acc /\ rows'[r].op = Detect(rows'[r].change)
    <3> DEFINE c == rows'[r].change
    <3>1. c \in acc /\ Detect(c) = "update"
      BY <1>2, <2>2
    <3> HIDE DEF c
    <3>2. c.item \in Items /\ db[c.item].etag # 0
      BY <3>1, Etags DEF Detect, Calm, Known
    <3> QED BY <1>1, <3>2 DEF c
  <2> QED BY <2>1, <2>2, RowSource DEF Calm, Known
<1> QED BY <1>2 DEF Updates

\* Nothing at hand has more content than the item on the server.
LEMMA SizesNext ==
    ASSUME Calm, Sizes, [Next]_vars, Unharmed'
    PROVE  Sizes'
<1>1. \A i \in Items : /\ cloud[i].content \in Nat /\ cloud'[i].content \in Nat
                       /\ db[i].content \in Nat /\ db'[i].content \in Nat
                       /\ cloud[i].item = i
  <2>1. Inv'
    BY NextInv DEF Calm, Known
  <2> QED BY <2>1 DEF Calm, Known, Inv, TypeOK, Change
<1>2. \A i \in Items : cloud[i].content <= cloud'[i].content /\ cloud'[i].content <= clock'
  BY ContentGrows DEF Calm, Known
<1>3. \A c \in acc : c.item \in Items /\ c.content \in Nat
  BY DEF Calm, Known, Inv, TypeOK, Change
<1>4. \A r \in DOMAIN rows : rows[r].change.item \in Items /\ rows[r].change.content \in Nat
  <2>1. \A r \in DOMAIN rows : rows[r].change \in Change
    BY RowAtHand DEF Calm, Known, Inv
  <2> QED BY <2>1 DEF Change
<1>5. \A c \in acc : c.content <= cloud'[c.item].content
  BY <1>1, <1>2, <1>3 DEF Sizes
<1>6. \A r \in DOMAIN rows : rows[r].change.content <= cloud'[rows[r].change.item].content
  BY <1>1, <1>2, <1>4 DEF Sizes
<1>7. \A i \in Items : db'[i].content <= cloud'[i].content
  <2> TAKE i \in Items
  <2>1. CASE db'[i].content = db[i].content
    BY <1>1, <1>2, <2>1 DEF Sizes
  <2>2. CASE cur \in DOMAIN rows /\ rows[cur].change.item = i
             /\ db'[i].content = rows[cur].change.content
    BY <1>6, <2>2
  <2> QED BY <2>1, <2>2, EntryMoves DEF Calm
<1>8. \A c \in acc' : c.content <= cloud'[c.item].content
  <2> TAKE c \in acc'
  <2>1. CASE c \in acc
    BY <1>5, <2>1
  <2>2. CASE \E i \in Items : c = cloud[i]
    BY <1>1, <1>2, <2>2
  <2> QED BY <2>1, <2>2, ChangeSource DEF Calm, Known
<1>9. \A r \in DOMAIN rows' : rows'[r].change.content <= cloud'[rows'[r].change.item].content
  <2> TAKE r \in DOMAIN rows'
  <2>1. CASE r \in DOMAIN rows /\ rows'[r].change = rows[r].change
    BY <1>6, <2>1
  <2>2. CASE rows'[r].change \in acc
    BY <1>5, <2>2
  <2> QED BY <2>1, <2>2, RowSource DEF Calm, Known
<1> QED BY <1>2, <1>7, <1>8, <1>9 DEF Sizes

\* Rows of the download queue keep their items.
LEMMA DownloadSets ==
    ASSUME TypeOK, NEW q \in DOMAIN queue,
           NEW s \in {"pending", "completed", "failed", "removed"}, SetDownload(q, s)
    PROVE  /\ DOMAIN queue' = DOMAIN queue
           /\ queue'[q].item = queue[q].item
           /\ \A p \in DOMAIN queue : p # q => queue'[p] = queue[p]
<1> DEFINE e == [queue[q] EXCEPT !.status = s]
<1>1. queue \in Seq(Download) /\ DOMAIN queue = 1..Len(queue)
  BY LenProperties DEF TypeOK
<1>2. queue[q] \in Download
  BY <1>1, ElementOfSeq
<1>3. e \in Download /\ e.item = queue[q].item
  BY <1>2 DEF Download
<1>4. queue' = [queue EXCEPT ![q] = e]
  BY DEF SetDownload
<1> HIDE DEF e
<1>5. queue' \in Seq(Download) /\ Len(queue') = Len(queue)
  BY <1>1, <1>3, <1>4, ExceptSeq
<1> QED BY <1>1, <1>3, <1>4, <1>5, LenProperties

\* A download brings the content that the server has, which is not older than
\* the entry.
LEMMA CurrentNext ==
    ASSUME Calm, Sizes, Current, [Next]_vars, Unharmed'
    PROVE  Current'
<1> USE DEF Calm, Known
<1>1. CASE UNCHANGED <<pc, db, queue, cur, staged>>
  BY <1>1 DEF Current
<1>2. CASE pc' \notin OfDownload
  BY <1>2 DEF Current
<1>3. CASE FetchContent
  <2>1. PICK q \in todo :
           /\ staged' = [staged EXCEPT ![queue[q].item] = cloud[queue[q].item].content]
           /\ cur' = q
    BY <1>3 DEF FetchContent
  <2>2. UNCHANGED <<db, queue>> /\ q \in DOMAIN queue
    BY <1>3 DEF FetchContent, Inv, InRange
  <2>3. queue[q].item \in Items
    BY <2>2, DownloadAtHand DEF Inv
  <2>4. staged'[queue[q].item] = cloud[queue[q].item].content
    BY <2>1, <2>3 DEF Inv, TypeOK
  <2> QED BY <2>1, <2>2, <2>3, <2>4 DEF Current, Sizes
<1>4. CASE MarkCompleted
  <2>1. SetDownload(cur, "completed") /\ UNCHANGED <<db, staged, cur>> /\ pc = "downloaded"
    BY <1>4 DEF MarkCompleted
  <2>2. cur \in DOMAIN queue
    BY <2>1 DEF Inv, InRange, OfDownload
  <2>3. queue'[cur].item = queue[cur].item
    BY <2>1, <2>2, DownloadSets DEF Inv
  <2> QED BY <2>1, <2>3 DEF Current, OfDownload
<1>5. CASE Fetch
  BY <1>2, <1>5 DEF Fetch, Start, FetchPage, FetchFails, StoreLink, StoreLinkFails, StoreRow,
                    StoreRowFails, EndCycle, OfDownload
<1>6. CASE ProcessRows
  BY <1>2, <1>6 DEF ProcessRows, ListRows, BeginRow, ApplyContent, Enqueue, ApplyDelete,
                    ApplyDeleteFailsQuietly, MoveOnServer, StoreMoved, FinishRow, RowFails,
                    OfDownload
<1>7. CASE ListDownloads \/ DownloadFails \/ MoveToLocal \/ DownloadAborts \/ Finish \/ Crash
  BY <1>2, <1>7 DEF ListDownloads, DownloadFails, MoveToLocal, DownloadAborts, Finish, Crash,
                    EndCycle, OfDownload
<1>8. CASE (\E j \in Items : RemoteChange(j)) \/ Expire \/ UNCHANGED vars
  BY <1>1, <1>8 DEF RemoteChange, Expire, vars, disk, cycle
<1> QED BY <1>3, <1>4, <1>5, <1>6, <1>7, <1>8 DEF Next, Downloads

\* What has the etag of the answer to a move is the item that was moved.
LEMMA AgreedNext ==
    ASSUME Known, Answered, Agreed, [Next]_vars, Unharmed'
    PROVE  Agreed'
<1> USE DEF Known
<1>1. ServerMoves
  BY NextMoves
<1>2. CASE MoveOnServer
  <2> DEFINE c == rows[cur].change
             i == c.item
             m == [cloud[i] EXCEPT !.parent = c.parent]
  <2>1. /\ cur \in DOMAIN rows /\ i \in Items /\ c.parent \in Folders
        /\ cloud[i] \in Change /\ cloud[i].item = i /\ cloud[i].etag \in Nat
        /\ clock \in Nat /\ cloud[i].etag <= clock
    <3>1. cur \in DOMAIN rows /\ c \in Change
      BY <1>2, RowNow DEF MoveOnServer, OfRow
    <3> HIDE DEF c
    <3> QED BY <3>1 DEF Change, Inv, TypeOK, Clocks
  <2>2. /\ UNCHANGED <<rows, cur>> /\ answer' = cloud'[i].etag /\ rows[cur].op = "move"
        /\ (cloud[i].parent = c.parent /\ cloud' = cloud) \/ Put(m)
    BY <1>2 DEF MoveOnServer, disk
  <2>3. CASE cloud[i].parent = c.parent /\ cloud' = cloud
    <3>1. \A r \in DOMAIN rows : rows[r].change.item = i /\ rows[r].change.etag = cloud[i].etag
              => rows[r].change = cloud[i]
      BY DEF Versions, Faithful
    <3> QED BY <2>2, <2>3, <3>1 DEF Agreed
  <2>4. CASE Put(m)
    <3>1. m.item = i /\ m.parent = c.parent
      <4> HIDE DEF i, c
      <4> QED BY <2>1 DEF Change
    <3> DEFINE e == [m EXCEPT !.etag = clock + 1]
    <3>2. e.etag = clock + 1 /\ e.parent = c.parent
      <4>1. m \in Change
        <5> HIDE DEF i, c
        <5> QED BY <2>1 DEF Change
      <4> HIDE DEF m
      <4> QED BY <3>1, <4>1 DEF Change
    <3>3. cloud' = [cloud EXCEPT ![m.item] = e]
      BY <2>4 DEF Put
    <3> HIDE DEF e
    <3>4. cloud'[i] = e
      <4> HIDE DEF m, i
      <4> QED BY <2>1, <3>1, <3>3 DEF Inv, TypeOK
    <3>5. \A r \in DOMAIN rows : rows[r].change.item = i => rows[r].change.etag # clock + 1
      <4> HIDE DEF i
      <4> QED BY <2>1, Etags DEF Behind
    <3> HIDE DEF m
    <3> QED BY <2>2, <3>2, <3>4, <3>5 DEF Agreed
  <2> QED BY <2>2, <2>3, <2>4
<1>3. CASE UNCHANGED <<pc, rows, cur, answer>>
  <2> SUFFICES ASSUME pc = "moved"
               PROVE  LET c == rows[cur].change IN
                      cloud'[c.item].etag = answer => cloud'[c.item].parent = c.parent
    BY <1>3 DEF Agreed
  <2> DEFINE i == rows[cur].change.item
  <2>1. i \in Items /\ answer <= cloud[i].etag
    BY RowNow DEF OfRow, Answered
  <2> HIDE DEF i
  <2>2. answer \in Nat /\ clock \in Nat /\ cloud[i].etag \in Nat /\ cloud[i].etag <= clock
    BY <2>1 DEF Inv, TypeOK, Clocks, Change
  <2>3. cloud'[i].etag = answer => cloud'[i] = cloud[i]
    BY <1>1, <2>1, <2>2 DEF ServerMoves
  <2> QED BY <2>3 DEF Agreed, i
<1>4. CASE pc' # "moved"
  BY <1>4 DEF Agreed
<1>5. CASE Fetch
  BY <1>4, <1>5 DEF Fetch, Start, FetchPage, FetchFails, StoreLink, StoreLinkFails, StoreRow,
                    StoreRowFails, EndCycle
<1>6. CASE Downloads
  BY <1>4, <1>6 DEF Downloads, ListDownloads, FetchContent, DownloadFails, MarkCompleted,
                    MoveToLocal, DownloadAborts, Finish, EndCycle
<1>7. CASE ListRows \/ BeginRow \/ ApplyContent \/ Enqueue \/ ApplyDelete
             \/ ApplyDeleteFailsQuietly \/ StoreMoved \/ FinishRow \/ RowFails
  BY <1>4, <1>7 DEF ListRows, BeginRow, ApplyContent, Enqueue, ApplyDelete,
                    ApplyDeleteFailsQuietly, StoreMoved, FinishRow, RowFails
<1>8. CASE Crash
  BY <1>4, <1>8 DEF Crash, EndCycle
<1>9. CASE (\E j \in Items : RemoteChange(j)) \/ Expire \/ UNCHANGED vars
  BY <1>3, <1>9 DEF RemoteChange, Expire, vars, disk, cycle
<1> QED BY <1>2, <1>5, <1>6, <1>7, <1>8, <1>9 DEF Next, ProcessRows

\* A change that is the row at hand when it has its etag, and has the parent of
\* the row at hand when it has the etag of the answer, still matches the entry.
LEMMA MatchesStays ==
    ASSUME Calm, Agreed, [Next]_vars, Unharmed', NEW c, c.item \in Items, Matches(c),
           pc = "applying" /\ rows[cur].change.item = c.item
               /\ rows[cur].change.etag = c.etag => c = rows[cur].change,
           pc = "moved" /\ rows[cur].change.item = c.item
               /\ answer = c.etag => c.parent = rows[cur].change.parent
    PROVE  Matches(c)'
<1> DEFINE i == c.item
<1>1. CameIn(i) => CameIn(i)'
  BY CameInStays DEF Calm, Known, InTurn
<1>2. CASE /\ db'[i].etag = db[i].etag /\ db'[i].parent = db[i].parent
           /\ db'[i].content = db[i].content
  BY <1>1, <1>2 DEF Matches
<1>3. CASE ApplyContent /\ rows[cur].change.item = i /\ db'[i] = rows[cur].change
  BY <1>3 DEF Matches, ApplyContent
<1>4. CASE /\ StoreMoved /\ rows[cur].change.item = i /\ db'[i].etag = answer
           /\ db'[i].parent = rows[cur].change.parent
  <2>1. UNCHANGED <<rows, cur>> /\ pc = "moved" /\ pc' = "finishing"
    BY <1>4 DEF StoreMoved
  <2>2. rows[cur].op = "move"
    BY <2>1 DEF Agreed
  <2>3. rows[cur].change.parent \in SyncFolders => CameIn(i)'
    BY <1>4, <2>1, <2>2 DEF CameIn, MovingIn
  <2> QED BY <1>4, <2>1, <2>3 DEF Matches
<1> QED BY <1>2, <1>3, <1>4, EntryMoves DEF Calm

\* The versions still match the contents, as long as nothing failed.
LEMMA MatchedNext ==
    ASSUME Calm, Agreed, Matched, [Next]_vars, Unharmed'
    PROVE  Matched'
<1> USE DEF Calm, Known
<1>1. ASSUME NEW i \in Items, NEW c, c = cloud[i]
      PROVE  Matches(c)'
  <2>1. c.item = i /\ Matches(c)
    BY <1>1 DEF Inv, TypeOK, Matched
  <2>2. pc = "applying" /\ rows[cur].change.item = i /\ rows[cur].change.etag = c.etag
            => c = rows[cur].change
    BY <1>1, RowNow DEF OfRow, Versions, Faithful
  <2>3. pc = "moved" /\ rows[cur].change.item = i /\ answer = c.etag
            => c.parent = rows[cur].change.parent
    BY <1>1 DEF Agreed
  <2> QED BY <2>1, <2>2, <2>3, MatchesStays
<1>2. ASSUME NEW i \in Items
      PROVE  Matches(cloud[i])'
  <2>1. PICK c : c = cloud[i]
    OBVIOUS
  <2>2. CASE cloud'[i] = cloud[i]
    <3>1. Matches(c)'
      BY <1>1, <2>1
    <3> QED BY <2>1, <2>2, <3>1 DEF Matches
  <2>3. CASE cloud'[i] # cloud[i]
    <3>1. clock < cloud'[i].etag /\ db' = db
      BY <2>3, NextMoves, HandleKeeps, OthersKeepEntries DEF ServerMoves
    <3>2. /\ db[i].etag \in Nat /\ cloud[i].etag \in Nat /\ clock \in Nat
          /\ db[i].etag <= cloud[i].etag /\ cloud[i].etag <= clock
      BY DEF Inv, TypeOK, Clocks, Change, InTurn, Older
    <3>3. cloud'[i].item = i /\ cloud'[i].etag \in Nat
      <4>1. Inv'
        BY NextInv
      <4> QED BY <4>1 DEF Inv, TypeOK, Change
    <3>4. cloud'[i].etag # db'[i].etag
      BY <3>1, <3>2, <3>3
    <3> QED BY <3>3, <3>4 DEF Matches
  <2> QED BY <2>2, <2>3
<1>3. ASSUME NEW c \in acc
      PROVE  Matches(c)'
  <2>1. pc \notin OfRow /\ c.item \in Items /\ Matches(c)
    BY Etags DEF Inv, InRange, OfRow, Matched
  <2> QED BY <2>1, MatchesStays DEF OfRow
<1>4. ASSUME NEW r \in DOMAIN rows, NEW c, c = rows[r].change
      PROVE  Matches(c)'
  <2>1. c.item \in Items /\ Matches(c)
    BY <1>4, Etags DEF Matched
  <2>2. pc = "applying" /\ rows[cur].change.item = c.item /\ rows[cur].change.etag = c.etag
            => c = rows[cur].change
    <3> SUFFICES ASSUME pc = "applying", rows[cur].change.item = c.item,
                        rows[cur].change.etag = c.etag
                 PROVE  c = rows[cur].change
      OBVIOUS
    <3>1. cur \in DOMAIN rows /\ rows[cur].change.etag \in Nat
      BY RowNow DEF OfRow
    <3>2. ~(r < cur) /\ ~(cur < r)
      BY <1>4, <3>1 DEF Inv, RowsInOrder
    <3>3. r \in Nat /\ cur \in Nat
      BY <3>1, LenProperties DEF Inv, TypeOK
    <3> QED BY <1>4, <3>2, <3>3
  <2>3. pc = "moved" /\ rows[cur].change.item = c.item /\ answer = c.etag
            => c.parent = rows[cur].change.parent
    BY <1>4 DEF Agreed
  <2> QED BY <2>1, <2>2, <2>3, MatchesStays
<1>5. ASSUME NEW c \in acc'
      PROVE  Matches(c)'
  <2>1. CASE c \in acc
    BY <1>3, <2>1
  <2>2. CASE \E i \in Items : c = cloud[i]
    BY <1>1, <2>2
  <2> QED BY <2>1, <2>2, ChangeSource
<1>6. ASSUME NEW r \in DOMAIN rows'
      PROVE  Matches(rows[r].change)'
  <2>1. PICK c : c = rows'[r].change
    OBVIOUS
  <2>2. Matches(c)'
    BY <1>3, <1>4, <2>1, RowSource
  <2> QED BY <2>1, <2>2 DEF Matches
<1> QED BY <1>2, <1>5, <1>6 DEF Matched

\* A queued download of an item that exists stays queued until it is done.
LEMMA QueuedStays ==
    ASSUME Known, [Next]_vars, Unharmed', NEW i \in Items, Exists(i), Queued(i)
    PROVE  Queued(i)' \/ (MarkCompleted /\ queue[cur].item = i)
<1> USE DEF Known
<1>1. CASE queue' = queue
  BY <1>1 DEF Queued
<1>2. PICK p \in DOMAIN queue : queue[p].item = i /\ queue[p].status = "pending"
  BY DEF Queued
<1>3. CASE p \in DOMAIN queue' /\ queue'[p] = queue[p]
  BY <1>2, <1>3 DEF Queued
<1>4. CASE Enqueue
  <2> DEFINE e == [item |-> rows[cur].change.item, status |-> "pending"]
  <2>1. queue' = Append(queue, e)
    BY <1>4 DEF Enqueue
  <2>2. e \in Download
    <3>1. rows[cur].change.item \in Items
      BY <1>4, RowNow DEF Enqueue, OfRow
    <3> QED BY <3>1 DEF Download
  <2> HIDE DEF e
  <2>3. queue \in Seq(Download) /\ DOMAIN queue = 1..Len(queue) /\ Len(queue) \in Nat
    BY LenProperties DEF Inv, TypeOK
  <2>4. /\ queue' \in Seq(Download) /\ Len(queue') = Len(queue) + 1
        /\ \A q \in 1..Len(queue) : queue'[q] = queue[q]
    BY <2>1, <2>2, <2>3, AppendProperties
  <2>5. DOMAIN queue' = 1..Len(queue')
    BY <2>4, LenProperties
  <2> QED BY <1>3, <2>3, <2>4, <2>5
<1>5. CASE ApplyDelete
  <2> DEFINE j == rows[cur].change.item
  <2>1. j \in Items /\ cloud[j].deleted /\ queue' = Dequeued(j)
    BY <1>5, DeletedSets DEF ApplyDelete
  <2>2. j # i
    BY <2>1 DEF Exists
  <2> HIDE DEF j
  <2>3. p \in DOMAIN queue' /\ queue'[p] = queue[p]
    BY <1>2, <2>1, <2>2 DEF Dequeued
  <2> QED BY <1>3, <2>3
<1>6. CASE DownloadFails
  <2>1. PICK q \in todo : ~Exists(queue[q].item) /\ SetDownload(q, "failed")
    BY <1>6, CalmSteps DEF DownloadFails, Fault
  <2>2. q \in DOMAIN queue
    BY <1>6 DEF DownloadFails, Inv, InRange
  <2>3. p # q
    BY <1>2, <2>1
  <2>4. p \in DOMAIN queue' /\ queue'[p] = queue[p]
    BY <2>1, <2>2, <2>3, DownloadSets DEF Inv
  <2> QED BY <1>3, <2>4
<1>7. CASE MarkCompleted
  <2>1. SetDownload(cur, "completed") /\ cur \in DOMAIN queue
    BY <1>7 DEF MarkCompleted, Inv, InRange, OfDownload
  <2>2. p # cur => p \in DOMAIN queue' /\ queue'[p] = queue[p]
    BY <2>1, DownloadSets DEF Inv
  <2> QED BY <1>2, <1>3, <1>7, <2>2
<1>8. CASE Fetch
  BY <1>1, <1>8 DEF Fetch, Start, FetchPage, FetchFails, StoreLink, StoreLinkFails, StoreRow,
                    StoreRowFails, disk
<1>9. CASE ListRows \/ BeginRow \/ ApplyContent \/ MoveOnServer \/ StoreMoved \/ FinishRow
             \/ RowFails
  BY <1>1, <1>9 DEF ListRows, BeginRow, ApplyContent, MoveOnServer, StoreMoved, FinishRow,
                    RowFails, disk
<1>10. CASE ListDownloads \/ FetchContent \/ MoveToLocal \/ Finish
  BY <1>1, <1>10 DEF ListDownloads, FetchContent, MoveToLocal, Finish, disk
<1>11. CASE (\E j \in Items : RemoteChange(j)) \/ Expire \/ UNCHANGED vars
  BY <1>1, <1>11 DEF RemoteChange, Expire, vars, disk
<1> QED BY <1>4, <1>5, <1>6, <1>7, <1>8, <1>9, <1>10, <1>11, CalmSteps
        DEF Next, ProcessRows, Downloads

\* A download that is at hand, or about to be queued, goes on.
LEMMA AtHandStays ==
    ASSUME Known, Current, [Next]_vars, Unharmed', NEW i \in Items, db'[i] = db[i],
           \/ pc = "enqueueing" /\ rows[cur].change.item = i
           \/ pc \in OfDownload /\ queue[cur].item = i
    PROVE  Supply(i)'
<1> USE DEF Known
<1>1. CASE UNCHANGED <<pc, rows, queue, cur>>
  BY <1>1 DEF Supply
<1>2. CASE Enqueue
  <2> DEFINE e == [item |-> i, status |-> "pending"]
  <2>1. queue' = Append(queue, e)
    BY <1>2 DEF Enqueue, OfDownload
  <2>2. e \in Download /\ e.item = i /\ e.status = "pending"
    BY DEF Download
  <2> HIDE DEF e
  <2>3. queue \in Seq(Download) /\ Len(queue) \in Nat
    BY LenProperties DEF Inv, TypeOK
  <2>4. /\ queue' \in Seq(Download) /\ Len(queue') = Len(queue) + 1
        /\ queue'[Len(queue) + 1] = e
    BY <2>1, <2>2, <2>3, AppendProperties
  <2>5. Len(queue) + 1 \in DOMAIN queue'
    BY <2>3, <2>4, LenProperties
  <2>6. Queued(i)'
    BY <2>2, <2>4, <2>5 DEF Queued
  <2> QED BY <2>6 DEF Supply
<1>3. CASE MarkCompleted
  <2>1. /\ SetDownload(cur, "completed") /\ cur' = cur /\ cur \in DOMAIN queue
        /\ pc = "downloaded" /\ pc' = "completed"
    BY <1>3 DEF MarkCompleted, Inv, InRange, OfDownload
  <2>2. queue'[cur].item = i
    BY <2>1, DownloadSets DEF Inv
  <2> QED BY <2>1, <2>2 DEF Supply, OfDownload
<1>4. CASE MoveToLocal
  <2>1. pc = "completed" /\ queue[cur].item = i
    BY <1>4 DEF MoveToLocal
  <2>2. local' = [local EXCEPT ![i] = staged[i]]
    BY <1>4, <2>1 DEF MoveToLocal
  <2>3. local'[i] = staged[i]
    BY <2>2 DEF Inv, TypeOK
  <2>4. db[i].content <= staged[i]
    BY <2>1 DEF Current, OfDownload
  <2>5. db[i].content \in Nat /\ staged[i] \in Nat
    BY DEF Inv, TypeOK, Change
  <2>6. local'[i] >= db'[i].content
    BY <2>3, <2>4, <2>5
  <2> QED BY <2>6 DEF Supply
<1>5. CASE Fetch
  BY <1>5 DEF Fetch, Start, FetchPage, FetchFails, StoreLink, StoreLinkFails, StoreRow,
              StoreRowFails, OfDownload
<1>6. CASE ListRows \/ BeginRow \/ Handle \/ MoveOnServer \/ FinishRow
  BY <1>6, HandleKeeps DEF ListRows, BeginRow, MoveOnServer, FinishRow, OfDownload
<1>7. CASE RowFails
  BY <1>7, CalmSteps DEF OfDownload
<1>8. CASE ListDownloads \/ FetchContent \/ DownloadFails \/ Finish
  BY <1>8 DEF ListDownloads, FetchContent, DownloadFails, Finish, OfDownload
<1>9. CASE (\E j \in Items : RemoteChange(j)) \/ Expire \/ UNCHANGED vars
  BY <1>1, <1>9 DEF RemoteChange, Expire, vars, disk, cycle
<1> QED BY <1>2, <1>3, <1>4, <1>5, <1>6, <1>7, <1>8, <1>9, CalmSteps
        DEF Next, ProcessRows, Downloads, Handle

\* Only a download changes a file in the directory of local copies.
LEMMA LocalStays ==
    ASSUME Known, Current, [Next]_vars, Unharmed', NEW i \in Items, db'[i] = db[i],
           local[i] >= db[i].content
    PROVE  Supply(i)'
<1>1. CASE local'[i] = local[i]
  BY <1>1 DEF Supply
<1>2. CASE MoveToLocal
  <2>1. CASE queue[cur].item = i
    BY <1>2, <2>1, AtHandStays DEF MoveToLocal, OfDownload
  <2>2. CASE queue[cur].item # i
    BY <1>1, <1>2, <2>2 DEF MoveToLocal, Known, Inv, TypeOK
  <2> QED BY <2>1, <2>2
<1>3. CASE Fetch
  BY <1>1, <1>3 DEF Fetch, Start, FetchPage, FetchFails, StoreLink, StoreLinkFails, StoreRow,
                    StoreRowFails, disk
<1>4. CASE ProcessRows
  BY <1>1, <1>4 DEF ProcessRows, ListRows, BeginRow, ApplyContent, Enqueue, ApplyDelete,
                    ApplyDeleteFailsQuietly, MoveOnServer, StoreMoved, FinishRow, RowFails, disk
<1>5. CASE ListDownloads \/ FetchContent \/ DownloadFails \/ MarkCompleted \/ Finish
  BY <1>1, <1>5 DEF ListDownloads, FetchContent, DownloadFails, MarkCompleted, Finish, disk
<1>6. CASE (\E j \in Items : RemoteChange(j)) \/ Expire \/ UNCHANGED vars
  BY <1>1, <1>6 DEF RemoteChange, Expire, vars, disk
<1> QED BY <1>2, <1>3, <1>4, <1>5, <1>6, CalmSteps DEF Next, Downloads, Known

\* What is supplied stays supplied while the entry stays.
LEMMA SupplyStays ==
    ASSUME Calm, Current, [Next]_vars, Unharmed', NEW i \in Items, Exists(i),
           db'[i] = db[i], Supply(i)
    PROVE  Supply(i)'
<1>1. CASE Queued(i)
  <2>1. CASE Queued(i)'
    BY <2>1 DEF Supply
  <2>2. CASE MarkCompleted /\ queue[cur].item = i
    BY <2>2, AtHandStays DEF Calm, MarkCompleted, OfDownload
  <2> QED BY <1>1, <2>1, <2>2, QueuedStays DEF Calm
<1>2. CASE local[i] >= db[i].content
  BY <1>2, LocalStays DEF Calm
<1>3. CASE CameIn(i)
  BY <1>3, CameInStays DEF Calm, Known, InTurn, Supply
<1>4. CASE \/ pc = "enqueueing" /\ rows[cur].change.item = i
           \/ pc \in OfDownload /\ queue[cur].item = i
  BY <1>4, AtHandStays DEF Calm
<1> QED BY <1>1, <1>2, <1>3, <1>4 DEF Supply

\* Each file that a folder chosen for download shows is on disk, or will be.
LEMMA MirroredNext ==
    ASSUME Calm, Supplied, [Next]_vars, Unharmed'
    PROVE  Mirrored'
<1> USE DEF Calm, Known, Supplied
<1> SUFFICES ASSUME NEW i \in Items, Wanted(i)'
             PROVE  Supply(i)'
  BY DEF Mirrored
<1>1. Exists(i)
  <2>1. ~cloud'[i].deleted /\ (cloud'[i] = cloud[i] \/ ~cloud[i].deleted)
    BY NextMoves DEF Wanted, Exists, ServerMoves
  <2>2. CASE cloud'[i] = cloud[i]
    BY <2>2 DEF Wanted, Exists
  <2>3. CASE db'[i] = db[i] /\ ~cloud[i].deleted
    <3>1. /\ db[i].etag \in Nat /\ cloud[i].etag \in Nat /\ db[i].etag <= cloud[i].etag
      BY DEF Inv, TypeOK, Change, InTurn, Older
    <3> QED BY <2>3, <3>1 DEF Wanted, Exists
  <2> QED BY <2>1, <2>2, <2>3, HandleKeeps, OthersKeepEntries
<1>2. ~db[i].deleted
  BY <1>1 DEF Entries, Exists
<1>3. CASE db'[i] = db[i]
  <2>1. Wanted(i)
    BY <1>1, <1>3 DEF Wanted
  <2> QED BY <1>1, <1>3, <2>1, SupplyStays DEF Mirrored
<1>4. CASE ApplyContent /\ rows[cur].change.item = i
  <2> DEFINE c == rows[cur].change
  <2>1. cur \in DOMAIN rows /\ db'[i] = c /\ c.item = i /\ c.parent \in SyncFolders
    BY <1>4, ContentSets DEF Wanted
  <2>2. CASE pc' = "enqueueing"
    BY <1>4, <2>2 DEF Supply, ApplyContent
  <2>3. CASE pc' # "enqueueing"
    <3>1. /\ pc = "applying" /\ rows[cur].op = "update" /\ UNCHANGED <<rows, queue, local>>
          /\ db[i].etag = 0 \/ db[i].etag = c.etag
      BY <1>4, <2>1, <2>3 DEF ApplyContent, ShouldDownload
    <3>2. db[i].etag # 0
      BY <2>1, <3>1 DEF Updates
    <3>3. Matches(c)
      BY <2>1 DEF Matched
    <3>4. /\ db[i].parent = c.parent
          /\ c.content = db[i].content \/ CameIn(i)
      BY <2>1, <3>1, <3>2, <3>3 DEF Matches
    <3>5. CASE CameIn(i)
      BY <3>5, CameInStays DEF InTurn, Supply
    <3>6. CASE c.content = db[i].content
      <4>1. Supply(i)
        BY <1>1, <1>2, <2>1, <3>2, <3>4 DEF Mirrored, Wanted
      <4>2. Queued(i) \/ local[i] >= db[i].content \/ CameIn(i)
        BY <3>1, <4>1 DEF Supply, OfDownload
      <4>3. CASE Queued(i)
        BY <3>1, <4>3 DEF Queued, Supply
      <4>4. CASE local[i] >= db[i].content
        BY <2>1, <3>1, <3>6, <4>4 DEF Supply
      <4> QED BY <3>5, <4>2, <4>3, <4>4
    <3> QED BY <3>4, <3>5, <3>6
  <2> QED BY <2>2, <2>3
<1>5. CASE StoreMoved /\ rows[cur].change.item = i
  <2>1. /\ rows[cur].op = "move" /\ UNCHANGED <<rows, cur>> /\ pc' = "finishing"
        /\ db'[i].parent = rows[cur].change.parent
    BY <1>5, MovedSets DEF StoreMoved, Agreed
  <2>2. CameIn(i)'
    BY <1>5, <2>1 DEF CameIn, MovingIn, Wanted
  <2> QED BY <2>2 DEF Supply
<1>6. CASE ApplyDelete /\ rows[cur].change.item = i
  BY <1>1, <1>6, DeletedSets DEF Exists
<1>7. CASE ~Handle
  BY <1>3, <1>7, OthersKeepEntries
<1> QED BY <1>3, <1>4, <1>5, <1>6, <1>7, ContentSets, MovedSets, DeletedSets, CalmSteps
        DEF Handle

\* As long as no request and no statement has failed and no kill came: between
\* cycles, each file in a folder chosen for download has its content on disk or in
\* the queue, unless it was moved into that folder.
THEOREM FoldersAreMirrored == Spec => [](Unharmed => SyncFoldersMirrored)
<1>1. Init => (Unharmed => Supplied)
  <2> SUFFICES ASSUME Init PROVE Supplied
    OBVIOUS
  <2>1. DOMAIN rows = {} /\ acc = {} /\ pc = "idle"
    BY EmptySeq, LenProperties DEF Init
  <2>2. \A i \in Items : /\ cloud[i] = db[i] /\ db[i].etag = 0 /\ cloud[i].content = 0
                         /\ cloud[i].item = i
    BY DEF Init, Unknown
  <2>3. Updates /\ Current /\ Agreed
    BY <2>1 DEF Updates, Current, Agreed, OfDownload
  <2>4. Sizes
    BY <2>1, <2>2 DEF Sizes, Init
  <2>5. Matched /\ Mirrored
    BY <2>1, <2>2 DEF Matched, Matches, Mirrored, Wanted
  <2> QED BY <2>3, <2>4, <2>5 DEF Supplied
<1>2. Inv /\ Behind /\ Traced /\ (Unharmed => InTurn) /\ (Unharmed => Supplied) /\ [Next]_vars
         => (Unharmed => Supplied)'
  <2> SUFFICES ASSUME Inv, Behind, Traced, Unharmed => InTurn, Unharmed => Supplied,
                      [Next]_vars, Unharmed'
               PROVE  Supplied'
    OBVIOUS
  <2>1. Calm /\ Supplied
    BY CalmSteps DEF Traced, Calm, Known
  <2>2. Updates' /\ Sizes' /\ Current'
    BY <2>1, UpdatesNext, SizesNext, CurrentNext DEF Supplied
  <2>3. Matched' /\ Agreed' /\ Mirrored'
    BY <2>1, MatchedNext, AgreedNext, MirroredNext DEF Supplied, Calm
  <2> QED BY <2>2, <2>3 DEF Supplied
<1>3. (Unharmed => Supplied) => (Unharmed => SyncFoldersMirrored)
  BY DEF Supplied, Mirrored, Wanted, Supply, CameIn, MovingIn, SyncFoldersMirrored, OfDownload
<1> QED BY <1>1, <1>2, <1>3, Invariance, SpecBehind, SpecTraced, SpecInTurn, PTL DEF Spec

=============================================================================
