-------------------------- MODULE TwoWaySyncProofs --------------------------
(***************************************************************************)
(* TwoWaySync for every number of changes, calls and failures: types, that *)
(* two answers to a conflict never cancel both its sides, and that each    *)
(* conflict can be answered.                                               *)
(*                                                                         *)
(* The types need to know which ids and versions there are: a version read *)
(* from a row, an entry or an answer is in the log of its id, although ids *)
(* are replaced in the entry and the rows by different steps (Numbered).   *)
(* OneSideKept speaks of the last of the calls; OneSide of those that have *)
(* queued a winner, while another may be about to cancel it.  Answerable   *)
(* needs Open, which says where the rows of both sides come from while     *)
(* nobody has answered: see there.                                         *)
(***************************************************************************)
EXTENDS TwoWaySync, SequenceTheorems, FiniteSetTheorems, TLAPS

\* The log that an etag counts in: an entry with a new local id keeps the etag
\* it had.
Home(id) == IF id = "local" THEN "old" ELSE id

\* The file was deleted under its first id.
Dead(logs) == logs["old"][Len(logs["old"])] = 0

\* A row is about a version that exists, and a row under a new id is there only
\* when the old one is dead.
Fits(row, logs) ==
    /\ row.etag \in DOMAIN logs[Home(row.id)]
    /\ row.type = "remote" => /\ row.id # "local"
                              /\ row.op = "delete" /\ row.id = "old" => Dead(logs)
    /\ row.type = "local" /\ row.op = "create" => row.id # "old"

\* The old log ends with a deletion before anything has the new id.
Logs ==
    /\ log["local"] = << >> /\ log["old"] # << >>
    /\ entry.id # "old" => Dead(log)
    /\ log["new"] = << >> <=> entry.id # "new"
    /\ entry.etag \in DOMAIN log[Home(entry.id)]

\* What a handler holds is about a row and a version that exist.
AtHand ==
    /\ pc \in {"park", "apply", "begun", "answered", "closing"} =>
          cur \in DOMAIN rows /\ Fits(item, log)
    /\ pc = "apply" => item.type = "remote"
    /\ pc \in {"begun", "answered"} => item.type = "local"
    /\ pc = "answered" => answer.id # "local" /\ answer.etag \in DOMAIN log[answer.id]

\* What a call has read, against rows of which there are n.
Asked(x, n, logs) ==
    /\ x.pc # "idle" => x.win \in 1..n /\ x.lose \in 1..n
    /\ x.pc \in {"cancel", "requeue"} => Fits(x.row, logs)
    /\ x.pc = "rename" \/ (x.pc \in {"cancel", "requeue"} /\ x.row.id = "local") => Dead(logs)

\* Whatever speaks of a version speaks of one in the log of its id.
Numbered ==
    /\ Logs
    /\ \A r \in DOMAIN rows : Fits(rows[r], log)
    /\ \A x \in todo : x.at \in DOMAIN rows /\ Fits(x.row, log) /\ x.row.type = "remote"
    /\ AtHand
    /\ "local" \notin queue
    /\ \A c \in Calls : Asked(call[c], Len(rows), log)

Inv == TypeOK /\ Numbered

-----------------------------------------------------------------------------
\* Numbers, logs and rows.

\* A set of numbers has a least one.
LEMMA Least ==
    ASSUME NEW S \in SUBSET Nat, S # {}
    PROVE  \E m \in S : \A n \in S : m <= n
<1> DEFINE T == {0..n : n \in S}
<1>1. IsWellFoundedOn(StrictSubsetOrdering(Nat), FiniteSubsetsOf(Nat))
  BY FS_StrictSubsetOrderingWellFounded
<1>2. T \subseteq FiniteSubsetsOf(Nat)
  <2>1. ASSUME NEW n \in S
        PROVE  IsFiniteSet(0..n) /\ 0..n \subseteq Nat
    BY FS_Interval
  <2> QED BY <2>1 DEF FiniteSubsetsOf
<1>3. T # {}
  OBVIOUS
<1> HIDE DEF T
<1>4. PICK x \in T : \A y \in T : <<y, x>> \notin StrictSubsetOrdering(Nat)
  BY <1>1, <1>2, <1>3, WFMin
<1>5. PICK m \in S : x = 0..m
  BY DEF T
<1>6. ASSUME NEW n \in S, n < m
      PROVE  FALSE
  <2>1. 0..n \in T /\ 0..n \subseteq 0..m /\ m \in 0..m /\ m \notin 0..n
    BY <1>6 DEF T
  <2>2. <<0..n, x>> \in StrictSubsetOrdering(Nat)
    BY <2>1, <1>5 DEF StrictSubsetOrdering
  <2> QED BY <2>1, <2>2, <1>4
<1> QED BY <1>6

\* The first of the rows asked for is one of them.
LEMMA FirstIsLeast ==
    ASSUME NEW S \in SUBSET Nat, S # {}
    PROVE  First(S) \in S /\ \A n \in S : First(S) <= n
BY Least DEF First

\* Nothing was taken back.
Grown(l, m) == /\ \A id \in Ids : Len(l[id]) <= Len(m[id])
               /\ Dead(l) => Dead(m)

\* What is about a version stays so.
LEMMA FitsLater ==
    ASSUME NEW l \in [Ids -> Seq(Nat)], NEW m \in [Ids -> Seq(Nat)], Grown(l, m),
           NEW row \in Row, Fits(row, l)
    PROVE  Fits(row, m)
<1>1. Home(row.id) \in Ids
  BY DEF Row, Ids, Home
<1>2. DOMAIN l[Home(row.id)] \subseteq DOMAIN m[Home(row.id)]
  BY <1>1 DEF Grown
<1> QED BY <1>2 DEF Fits, Grown

\* What a call has read stays about versions that exist.
LEMMA AskedLater ==
    ASSUME NEW l \in [Ids -> Seq(Nat)], NEW m \in [Ids -> Seq(Nat)], Grown(l, m),
           NEW n \in Nat, NEW k \in Nat, n <= k, NEW x \in Call, Asked(x, n, l)
    PROVE  Asked(x, k, m)
<1>1. x.row \in Row /\ x.win \in Nat /\ x.lose \in Nat
  BY DEF Call
<1>2. Fits(x.row, l) => Fits(x.row, m)
  BY <1>1, FitsLater
<1> QED BY <1>1, <1>2 DEF Asked, Grown

\* Logs of contents are logs of numbers.
LEMMA LogsOfNumbers ==
    ASSUME NEW n \in Nat, NEW l \in [Ids -> Seq(0..n)]
    PROVE  l \in [Ids -> Seq(Nat)]
<1>1. \A id \in Ids : l[id] \in Seq(0..n)
  OBVIOUS
<1>2. 0..n \subseteq Nat
  OBVIOUS
<1>3. \A id \in Ids : l[id] \in Seq(Nat)
  BY <1>1, <1>2, SeqMonotonic
<1> QED BY <1>3

\* What TypeOK says of the logs, the rows and the calls, apart.
LEMMA Types ==
    ASSUME TypeOK
    PROVE  /\ log \in [Ids -> Seq(Nat)] /\ Len(known) \in Nat
           /\ DOMAIN rows = 1..Len(rows) /\ Len(rows) \in Nat
           /\ \A r \in DOMAIN rows : rows[r] \in Row
           /\ \A c \in Calls : call[c] \in Call
           /\ Contents \subseteq Nat
<1>1. Len(known) \in Nat
  BY DEF TypeOK
<1>2. Contents \subseteq Nat
  BY <1>1 DEF Contents
<1>5. log \in [Ids -> Seq(Nat)]
  BY <1>1, LogsOfNumbers DEF TypeOK, Contents
<1> QED BY <1>1, <1>2, <1>5 DEF TypeOK

\* The effect of writing another row.
LEMMA RowSet ==
    ASSUME rows \in Seq(Row), NEW r \in DOMAIN rows, NEW x \in Row,
           rows' = [rows EXCEPT ![r] = x]
    PROVE  /\ rows' \in Seq(Row) /\ Len(rows') = Len(rows) /\ DOMAIN rows' = DOMAIN rows
           /\ \A q \in DOMAIN rows : rows'[q] = IF q = r THEN x ELSE rows[q]
OBVIOUS

\* The effect of writing another call.
LEMMA CallSet ==
    ASSUME TypeOK, NEW c \in Calls, NEW y \in Call, call' = [call EXCEPT ![c] = y]
    PROVE  call' \in [Calls -> Call] /\ \A d \in Calls : call'[d] = IF d = c THEN y ELSE call[d]
BY DEF TypeOK

\* update_status_by_id changes the status of one row, and no id or version.
Restated(r, status) ==
    /\ rows' \in Seq(Row) /\ Len(rows') = Len(rows)
    /\ recent' \subseteq DOMAIN rows'
    /\ \A q \in DOMAIN rows : /\ rows'[q].type = rows[q].type /\ rows'[q].op = rows[q].op
                              /\ rows'[q].id = rows[q].id /\ rows'[q].etag = rows[q].etag
                              /\ q # r => rows'[q] = rows[q]
    /\ rows[r].status # "gone" => rows'[r].status = status
    /\ rows[r].status = "gone" => rows'[r] = rows[r]

\* The status of a row is set, and no more.
LEMMA SetStatusRestates ==
    ASSUME TypeOK, NEW r \in DOMAIN rows,
           NEW status \in {"new", "validated", "processing", "done", "error", "conflicted",
                           "cancelled"},
           SetStatus(r, status)
    PROVE  Restated(r, status)
<1>1. rows \in Seq(Row) /\ rows[r] \in Row /\ r \in 1..Len(rows)
  BY DEF TypeOK
<1>2. recent' = recent \union {r} /\ recent \subseteq DOMAIN rows
  BY DEF SetStatus, TypeOK
<1>3. CASE rows[r].status = "gone"
  <2>1. rows' = rows
    BY <1>3 DEF SetStatus
  <2> QED BY <1>1, <1>2, <1>3, <2>1 DEF Restated
<1>4. CASE rows[r].status # "gone"
  <2> DEFINE x == [rows[r] EXCEPT !.status = status, !.parked = FALSE]
  <2>1. x \in Row /\ x.type = rows[r].type /\ x.op = rows[r].op /\ x.id = rows[r].id
          /\ x.etag = rows[r].etag /\ x.status = status
    BY <1>1 DEF Row
  <2>2. rows' = [rows EXCEPT ![r] = x]
    BY <1>4 DEF SetStatus
  <2> HIDE DEF x
  <2>3. rows' \in Seq(Row) /\ Len(rows') = Len(rows)
    BY <1>1, <2>1, <2>2, ExceptSeq
  <2>4. \A q \in DOMAIN rows : rows'[q] = IF q = r THEN x ELSE rows[q]
    BY <1>1, <2>2
  <2>5. DOMAIN rows' = DOMAIN rows
    BY <2>2
  <2> QED BY <1>1, <1>2, <1>4, <2>1, <2>3, <2>4, <2>5 DEF Restated
<1> QED BY <1>3, <1>4

\* A row that gets another status is about the version it was about.
LEMMA RestatedFits ==
    ASSUME Inv, NEW r \in DOMAIN rows, NEW status, Restated(r, status)
    PROVE  \A q \in DOMAIN rows' : Fits(rows'[q], log)
<1>1. DOMAIN rows' = DOMAIN rows
  BY Types DEF Restated, Inv
<1>2. \A q \in DOMAIN rows : Fits(rows[q], log)
  BY DEF Inv, Numbered
<1> QED BY <1>1, <1>2 DEF Restated, Fits

\* What has to be shown of a step, and what follows of itself.
LEMMA NumberedStays ==
    ASSUME Inv, TypeOK', Grown(log, log'), Len(rows) <= Len(rows'),
           Logs', AtHand',
           \A r \in DOMAIN rows' : Fits(rows'[r], log'),
           \A x \in todo' : \/ x \in todo
                            \/ x.at \in DOMAIN rows' /\ Fits(x.row, log') /\ x.row.type = "remote",
           "local" \notin queue',
           \A c \in Calls : call'[c] = call[c] \/ Asked(call'[c], Len(rows'), log')
    PROVE  Numbered'
<1>1. /\ log \in [Ids -> Seq(Nat)] /\ DOMAIN rows = 1..Len(rows) /\ Len(rows) \in Nat
      /\ \A c \in Calls : call[c] \in Call
  BY Types DEF Inv
<1>2. log' \in [Ids -> Seq(Nat)] /\ DOMAIN rows' = 1..Len(rows') /\ Len(rows') \in Nat
  <2>1. Len(known') \in Nat /\ rows' \in Seq(Row) /\ log' \in [Ids -> Seq(0..Len(known'))]
    BY DEF TypeOK, Contents
  <2>2. log' \in [Ids -> Seq(Nat)]
    BY <2>1, LogsOfNumbers
  <2> QED BY <2>1, <2>2
<1>3. \A c \in Calls : Asked(call'[c], Len(rows'), log')
  <2>1. ASSUME NEW c \in Calls, call'[c] = call[c]
        PROVE  Asked(call'[c], Len(rows'), log')
    <3>1. Asked(call[c], Len(rows), log)
      BY DEF Inv, Numbered
    <3>2. Asked(call[c], Len(rows'), log')
      BY <1>1, <1>2, <3>1, AskedLater
    <3> QED BY <2>1, <3>2
  <2> QED BY <2>1
<1>4. \A x \in todo' : x.at \in DOMAIN rows' /\ Fits(x.row, log') /\ x.row.type = "remote"
  <2>1. ASSUME NEW x \in todo
        PROVE  x.at \in DOMAIN rows' /\ Fits(x.row, log') /\ x.row.type = "remote"
    <3>1. x.at \in DOMAIN rows /\ Fits(x.row, log) /\ x.row.type = "remote" /\ x.row \in Row
      BY DEF Inv, Numbered, TypeOK
    <3>2. Fits(x.row, log')
      BY <1>1, <1>2, <3>1, FitsLater
    <3> QED BY <1>1, <1>2, <3>1, <3>2
  <2> QED BY <2>1
<1> QED BY <1>3, <1>4 DEF Numbered

-----------------------------------------------------------------------------
\* Each step keeps the invariant.

\* Logs that do not change take nothing back.
LEMMA SameGrown == Grown(log, log)
BY DEF Grown

\* The steps that leave the logs, the rows and the contents alone.
Same == UNCHANGED <<log, rows, known>>

\* A step that leaves the logs and the rows alone.
LEMMA SameStays ==
    ASSUME Inv, Same, TypeOK', AtHand', todo' \subseteq todo, "local" \notin queue', entry'.id = entry.id,
           entry'.etag \in DOMAIN log[Home(entry.id)],
           \A c \in Calls : call'[c] = call[c] \/ Asked(call'[c], Len(rows), log)
    PROVE  Numbered'
<1>1. Grown(log, log') /\ log' = log /\ rows' = rows
  BY SameGrown DEF Same
<1>2. Logs'
  BY <1>1 DEF Logs, Inv, Numbered
<1>3. \A r \in DOMAIN rows' : Fits(rows'[r], log')
  BY <1>1 DEF Inv, Numbered
<1>4. Len(rows) <= Len(rows')
  BY <1>1, Types DEF Inv
<1> QED BY <1>1, <1>2, <1>3, <1>4, NumberedStays

\* Time passes: the rows that failed may be selected again.
LEMMA TimePassesInv == Inv /\ TimePasses => Inv'
<1> SUFFICES ASSUME Inv, TimePasses PROVE Inv'
  OBVIOUS
<1> USE DEF TimePasses, onedrive, cycle, bounds, history, Same
<1>1. TypeOK'
  BY DEF Inv, TypeOK, Contents
<1>2. AtHand'
  BY DEF Inv, Numbered, AtHand
<1> QED BY <1>1, <1>2, SameStays DEF Inv, Numbered, Logs

\* The downloads of the cycle begin.
LEMMA DownloadsInv == Inv /\ Downloads => Inv'
<1> SUFFICES ASSUME Inv, Downloads PROVE Inv'
  OBVIOUS
<1> USE DEF Downloads, onedrive, bounds, history, table, Same
<1>1. TypeOK'
  BY DEF Inv, TypeOK, Contents
<1>2. AtHand'
  BY DEF Inv, Numbered, AtHand
<1> QED BY <1>1, <1>2, SameStays DEF Inv, Numbered, Logs

\* The newest version of an id is a content.
LEMMA TopIsContent ==
    ASSUME TypeOK, NEW id \in Ids
    PROVE  Top(id) \in Contents /\ log[id] \in Seq(Contents)
<1>1. log[id] \in Seq(Contents) /\ 0 \in Contents
  BY DEF TypeOK, Contents
<1> QED BY <1>1 DEF Top

\* A download fetches what its id has by then.
LEMMA FetchContentInv == Inv /\ FetchContent => Inv'
<1> SUFFICES ASSUME Inv, FetchContent PROVE Inv'
  OBVIOUS
<1> USE DEF FetchContent, onedrive, bounds, history, Same
<1>0. PICK id \in queue : /\ queue' = queue \ {id} /\ staged' = Top(id)
                          /\ pc' = IF Exists(id) THEN "staged" ELSE IF queue' # {} THEN "downloads" ELSE "idle"
  OBVIOUS
<1>4. staged' \in Contents
  BY <1>0, TopIsContent DEF Inv, TypeOK
<1>1. TypeOK'
  BY <1>0, <1>4 DEF Inv, TypeOK, Contents
<1>2. AtHand'
  BY <1>0 DEF Inv, Numbered, AtHand
<1>3. "local" \notin queue'
  BY <1>0 DEF Inv, Numbered
<1> QED BY <1>1, <1>2, <1>3, SameStays DEF Inv, Numbered, Logs

\* The downloaded content is moved over the local one.
LEMMA MoveToLocalInv == Inv /\ MoveToLocal => Inv'
<1> SUFFICES ASSUME Inv, MoveToLocal PROVE Inv'
  OBVIOUS
<1> USE DEF MoveToLocal, onedrive, bounds, history, Same
<1>1. TypeOK'
  BY DEF Inv, TypeOK, Contents
<1>2. AtHand'
  BY DEF Inv, Numbered, AtHand
<1> QED BY <1>1, <1>2, SameStays DEF Inv, Numbered, Logs

\* A step that changes nothing.
LEMMA StutterInv == Inv /\ UNCHANGED vars => Inv'
<1> SUFFICES ASSUME Inv, UNCHANGED vars PROVE Inv'
  OBVIOUS
<1> USE DEF vars, onedrive, table, cycle, bounds, history, Same
<1>1. TypeOK'
  BY DEF Inv, TypeOK, Contents
<1>2. AtHand'
  BY DEF Inv, Numbered, AtHand
<1> QED BY <1>1, <1>2, SameStays DEF Inv, Numbered, Logs

\* The records that stand for nothing, and a new row, have their types.
LEMMA Records ==
    /\ NoRow \in Row /\ NoAnswer \in Entry /\ NoCall \in Call /\ NoCall.pc = "idle"
    /\ NoRow.type = "local" /\ NoRow.op = "update"
    /\ \A type \in {"remote", "local"}, op \in {"create", "update", "rename", "delete"},
         id \in Ids, etag \in Nat :
          LET row == NewRow(type, op, id, etag)
          IN  /\ row \in Row /\ row.type = type /\ row.op = op /\ row.id = id /\ row.etag = etag
              /\ row.status = "new"
BY DEF NoRow, NewRow, NoAnswer, NoCall, Row, Entry, Call, Ids, Tag, AtWork

\* A call that returned remembers the rows it was about.
LEMMA ReturnedCall ==
    ASSUME NEW x \in Call
    PROVE  /\ Returned(x) \in Call /\ Returned(x).pc = "returned"
           /\ Returned(x).win = x.win /\ Returned(x).lose = x.lose
           /\ \A pc_ \in {"crossed", "killed"} :
                LET y == [Returned(x) EXCEPT !.pc = pc_]
                IN  y \in Call /\ y.pc = pc_ /\ y.win = x.win /\ y.lose = x.lose
BY Records DEF Returned, Call

\* A call that is over has nothing more to write.
LEMMA AskedOver ==
    ASSUME NEW x \in Call, NEW y \in Call, NEW n, NEW l, Asked(x, n, l), x.pc # "idle",
           y.win = x.win, y.lose = x.lose, y.pc \in {"returned", "crossed", "killed"}
    PROVE  Asked(y, n, l)
BY DEF Asked

\* The process is killed, in the cycle and in every call.
LEMMA CrashInv == Inv /\ Crash => Inv'
<1> SUFFICES ASSUME Inv, Crash PROVE Inv'
  OBVIOUS
<1> USE DEF Crash, onedrive, table, history, Same, EndCycle, Fault
<1>1. \A c \in Calls : call[c] \in Call
  BY Types DEF Inv
<1>2. \A c \in Calls :
          call'[c] = IF call[c].pc \in AtWork THEN [Returned(call[c]) EXCEPT !.pc = "killed"]
                     ELSE call[c]
  OBVIOUS
<1>3. \A c \in Calls : call'[c] \in Call
  BY <1>1, <1>2, ReturnedCall
<1>4. call' \in [Calls -> Call]
  BY <1>3
<1>9. NoRow \in Row /\ NoAnswer \in Entry
  BY Records
<1>10. staged' \in Contents'
  BY DEF Inv, TypeOK, Contents
<1>11. faults' \in 0..MaxFaults /\ UNCHANGED <<locals, known>>
  BY SizesAssumption DEF Inv, TypeOK
<1>5. TypeOK'
  BY <1>4, <1>9, <1>10, <1>11 DEF Inv, TypeOK, Contents
<1>6. AtHand'
  BY DEF AtHand
<1>7. \A c \in Calls : call'[c] = call[c] \/ Asked(call'[c], Len(rows), log)
  <2>1. ASSUME NEW c \in Calls, call[c].pc \in AtWork
        PROVE  Asked(call'[c], Len(rows), log)
    <3>1. Asked(call[c], Len(rows), log) /\ call[c].pc # "idle"
      BY <2>1 DEF Inv, Numbered, AtWork
    <3>2. call'[c].pc = "killed" /\ call'[c].win = call[c].win /\ call'[c].lose = call[c].lose
      BY <1>1, <1>2, <2>1, ReturnedCall
    <3> QED BY <1>1, <1>3, <3>1, <3>2, AskedOver
  <2> QED BY <1>2, <2>1
<1>8. "local" \notin queue' /\ todo' \subseteq todo /\ Same
  BY DEF Inv, Numbered
<1> QED BY <1>5, <1>6, <1>7, <1>8, SameStays DEF Inv, Numbered, Logs

\* The entry that a handler stores has a version of the log of its id.
LEMMA StoreAnswerInv == Inv /\ StoreAnswer => Inv'
<1> SUFFICES ASSUME Inv, StoreAnswer PROVE Inv'
  OBVIOUS
<1> USE DEF StoreAnswer, onedrive, bounds, Same
<1>1. answer.id \in {"old", "new"} /\ answer.etag \in DOMAIN log[answer.id]
  BY DEF Inv, Numbered, AtHand, TypeOK, Entry, Ids
<1>2. log[answer.id][answer.etag] \in Contents
  BY <1>1, ElementOfSeq DEF Inv, TypeOK, Ids
<1>3. entry' \in Entry /\ answer' \in Entry
  BY Records DEF Inv, TypeOK
<1>4. yielded' \union applied' \union unseen' \union late' \subseteq Contents
  BY <1>2 DEF Inv, TypeOK
<1>5. TypeOK'
  BY <1>3, <1>4 DEF Inv, TypeOK, Contents
<1>6. AtHand'
  BY DEF Inv, Numbered, AtHand
<1>7. entry'.id = entry.id /\ entry'.etag \in DOMAIN log[Home(entry.id)]
  BY <1>1 DEF Inv, Numbered, Logs, Home
<1> QED BY <1>5, <1>6, <1>7, SameStays DEF Inv, Numbered

\* Keeping both sides gives the entry a new local id, after its old one died.
LEMMA RenameEntryInv == \A c \in Calls : Inv /\ RenameEntry(c) => Inv'
<1> SUFFICES ASSUME NEW c \in Calls, Inv, RenameEntry(c) PROVE Inv'
  OBVIOUS
<1> USE DEF RenameEntry, onedrive, cycle, bounds, history
<1>1. call \in [Calls -> Call] /\ call[c] \in Call /\ entry \in Entry
  BY DEF Inv, TypeOK
<1>2. PICK y : call' = [call EXCEPT ![c] = y] /\ y \in Call /\ y.pc \in {"returned", "crossed"}
                 /\ y.win = call[c].win /\ y.lose = call[c].lose
  BY <1>1, ReturnedCall
<1>3. call' \in [Calls -> Call] /\ call'[c] = y /\ \A d \in Calls : d # c => call'[d] = call[d]
  BY <1>1, <1>2
<1>4. Asked(y, Len(rows), log)
  BY <1>1, <1>2, AskedOver DEF Inv, Numbered
<1>5. /\ entry' \in Entry /\ entry'.etag = entry.etag
      /\ entry'.id = IF entry.id = "old" THEN "local" ELSE entry.id
  BY <1>1 DEF Entry, Ids
<1>6. TypeOK'
  BY <1>3, <1>5 DEF Inv, TypeOK, Contents
<1>7. Dead(log)
  BY DEF Inv, Numbered, Asked
<1>8. Logs'
  BY <1>5, <1>7 DEF Inv, Numbered, Logs, Home
<1>9. AtHand'
  BY DEF Inv, Numbered, AtHand
<1>10. Grown(log, log') /\ Len(rows) <= Len(rows')
  BY SameGrown, Types DEF Inv
<1>11. \A d \in Calls : call'[d] = call[d] \/ Asked(call'[d], Len(rows'), log')
  BY <1>3, <1>4
<1>12. "local" \notin queue' /\ todo' = todo /\ \A r \in DOMAIN rows' : Fits(rows'[r], log')
  BY DEF Inv, Numbered
<1> QED BY <1>6, <1>8, <1>9, <1>10, <1>11, <1>12, NumberedStays DEF Inv

\* A day passes: old rows are deleted by hause_keeping.
LEMMA DayPassesInv == Inv /\ DayPasses => Inv'
<1> SUFFICES ASSUME Inv, DayPasses PROVE Inv'
  OBVIOUS
<1> USE DEF DayPasses, onedrive, cycle, bounds, history
<1>1. rows \in Seq(Row) /\ DOMAIN rows = 1..Len(rows) /\ Len(rows) \in Nat
  BY DEF Inv, TypeOK
<1>2. ASSUME NEW r \in DOMAIN rows
      PROVE  /\ rows'[r] \in Row /\ rows'[r].type = rows[r].type /\ rows'[r].op = rows[r].op
             /\ rows'[r].id = rows[r].id /\ rows'[r].etag = rows[r].etag
  <2>1. rows'[r] = [rows[r] EXCEPT !.parked = FALSE] /\ rows[r] \in Row
    BY <1>1, <1>2
  <2> QED BY <2>1 DEF Row
<1>3. rows' \in Seq(Row) /\ Len(rows') = Len(rows) /\ DOMAIN rows' = DOMAIN rows
  <2>1. rows' \in [1..Len(rows) -> Row]
    BY <1>1, <1>2
  <2> QED BY <1>1, <2>1
<1>4. TypeOK'
  BY <1>3 DEF Inv, TypeOK, Contents
<1>5. \A r \in DOMAIN rows' : Fits(rows'[r], log')
  BY <1>2, <1>3 DEF Inv, Numbered, Fits
<1>6. Logs' /\ AtHand'
  BY <1>3 DEF Inv, Numbered, Logs, AtHand
<1>7. Grown(log, log') /\ Len(rows) <= Len(rows')
  BY <1>1, <1>3, SameGrown
<1>8. "local" \notin queue' /\ todo' = todo /\ call' = call
  BY DEF Inv, Numbered
<1> QED BY <1>4, <1>5, <1>6, <1>7, <1>8, NumberedStays DEF Inv

\* The steps that do no more to the rows than update_status_by_id.
LEMMA RestatedStays ==
    ASSUME Inv, NEW r \in DOMAIN rows, NEW status, Restated(r, status), TypeOK', AtHand',
           UNCHANGED log, todo' \subseteq todo, "local" \notin queue',
           entry'.id = entry.id, entry'.etag \in DOMAIN log[Home(entry.id)],
           \A c \in Calls : call'[c] = call[c] \/ Asked(call'[c], Len(rows), log)
    PROVE  Numbered'
<1>1. Grown(log, log') /\ Len(rows) <= Len(rows') /\ Len(rows') = Len(rows)
  BY SameGrown, Types DEF Restated, Inv
<1>2. \A q \in DOMAIN rows' : Fits(rows'[q], log')
  BY RestatedFits
<1>3. Logs'
  BY DEF Logs, Inv, Numbered
<1> QED BY <1>1, <1>2, <1>3, NumberedStays

\* The row at hand is done.
LEMMA FinishRowInv == Inv /\ FinishRow => Inv'
<1> SUFFICES ASSUME Inv, FinishRow PROVE Inv'
  OBVIOUS
<1> USE DEF FinishRow, onedrive, bounds, history, Back
<1>1. cur \in DOMAIN rows
  BY DEF Inv, Numbered, AtHand
<1>2. Restated(cur, "done")
  BY <1>1, SetStatusRestates DEF Inv
<1>3. TypeOK'
  BY <1>2, Records, Types DEF Inv, TypeOK, Contents, Restated
<1>4. AtHand'
  BY DEF AtHand
<1> QED BY <1>1, <1>2, <1>3, <1>4, RestatedStays DEF Inv, Numbered, Logs

\* A conflicted row is put aside.
LEMMA ParkInv == Inv /\ Park => Inv'
<1> SUFFICES ASSUME Inv, Park PROVE Inv'
  OBVIOUS
<1> USE DEF Park, onedrive, bounds, history, Back
<1>1. cur \in DOMAIN rows /\ rows \in Seq(Row) /\ rows[cur] \in Row /\ cur \in 1..Len(rows)
  BY DEF Inv, Numbered, AtHand, TypeOK
<1>2. CASE rows[cur].status = "gone"
  <2>1. UNCHANGED rows
    BY <1>2
  <2>4. NoRow \in Row
    BY Records
  <2>2. TypeOK'
    BY <2>1, <2>4 DEF Inv, TypeOK, Contents
  <2>3. AtHand'
    BY DEF AtHand
  <2> QED BY <2>1, <2>2, <2>3, SameStays DEF Inv, Numbered, Logs, Same
<1>3. CASE rows[cur].status # "gone"
  <2> DEFINE x == [rows[cur] EXCEPT !.parked = TRUE]
  <2>1. x \in Row /\ x.type = rows[cur].type /\ x.op = rows[cur].op /\ x.id = rows[cur].id
          /\ x.etag = rows[cur].etag /\ x.status = rows[cur].status
    BY <1>1 DEF Row
  <2>2. rows' = [rows EXCEPT ![cur] = x]
    BY <1>3
  <2> HIDE DEF x
  <2>3. /\ rows' \in Seq(Row) /\ Len(rows') = Len(rows) /\ DOMAIN rows' = DOMAIN rows
        /\ \A q \in DOMAIN rows : rows'[q] = IF q = cur THEN x ELSE rows[q]
    BY <1>1, <2>1, <2>2, RowSet
  <2>4. recent \subseteq DOMAIN rows'
    BY <2>3 DEF Inv, TypeOK
  <2>5. Restated(cur, rows[cur].status)
    BY <1>3, <2>1, <2>3, <2>4 DEF Restated
  <2>6. TypeOK'
    BY <2>3, Records DEF Inv, TypeOK, Contents
  <2>7. AtHand'
    BY DEF AtHand
  <2> QED BY <1>1, <2>5, <2>6, <2>7, RestatedStays DEF Inv, Numbered, Logs
<1> QED BY <1>2, <1>3

\* OneDrive refuses the request of the row at hand.
LEMMA RefusedInv == Inv /\ Refused => Inv'
<1> SUFFICES ASSUME Inv, Refused PROVE Inv'
  OBVIOUS
<1> USE DEF Refused, RowError, onedrive, bounds, history, Back
<1>1. cur \in DOMAIN rows
  BY DEF Inv, Numbered, AtHand
<1>2. Restated(cur, "error")
  BY <1>1, SetStatusRestates DEF Inv
<1>3. TypeOK'
  BY <1>2, Records, Types DEF Inv, TypeOK, Contents, Restated
<1>4. AtHand'
  BY DEF AtHand
<1> QED BY <1>1, <1>2, <1>3, <1>4, RestatedStays DEF Inv, Numbered, Logs

\* The task of the cycle dies.
LEMMA PanicsInv == Inv /\ Panics => Inv'
<1> SUFFICES ASSUME Inv, Panics PROVE Inv'
  OBVIOUS
<1> USE DEF Panics, EndCycle, onedrive, bounds, history
<1>1. cur \in DOMAIN rows /\ rows \in Seq(Row) /\ rows[cur] \in Row
  BY DEF Inv, Numbered, AtHand, TypeOK
<1> DEFINE x == [rows[cur] EXCEPT !.status = "processing"]
<1>2. x \in Row /\ x.type = rows[cur].type /\ x.op = rows[cur].op /\ x.id = rows[cur].id
        /\ x.etag = rows[cur].etag /\ x.status = "processing"
  BY <1>1 DEF Row
<1>3. rows' = [rows EXCEPT ![cur] = x]
  OBVIOUS
<1> HIDE DEF x
<1>4. /\ rows' \in Seq(Row) /\ Len(rows') = Len(rows) /\ DOMAIN rows' = DOMAIN rows
      /\ \A q \in DOMAIN rows : rows'[q] = IF q = cur THEN x ELSE rows[q]
  BY <1>1, <1>2, <1>3
<1>5. \A q \in DOMAIN rows' : Fits(rows'[q], log)
  BY <1>2, <1>4 DEF Inv, Numbered, Fits
<1>6. NoRow \in Row /\ NoAnswer \in Entry /\ 0 \in Contents
  BY Records, Types DEF Inv, Contents
<1>7. TypeOK'
  BY <1>4, <1>6 DEF Inv, TypeOK, Contents
<1>8. AtHand' /\ Logs'
  BY DEF AtHand, Inv, Numbered, Logs
<1>9. Grown(log, log') /\ Len(rows) <= Len(rows')
  BY <1>4, SameGrown, Types DEF Inv
<1> QED BY <1>5, <1>7, <1>8, <1>9, NumberedStays DEF Inv, Numbered

\* A remote change is stored in the entry, and its content is queued.
LEMMA ApplyInv == Inv /\ Apply => Inv'
<1> SUFFICES ASSUME Inv, Apply PROVE Inv'
  OBVIOUS
<1> USE DEF Apply, onedrive, bounds
<1>1. cur \in DOMAIN rows /\ Fits(item, log) /\ item.type = "remote" /\ item \in Row
  BY DEF Inv, Numbered, AtHand, TypeOK
<1>10. item.id \in Ids /\ item.etag \in Nat
  BY <1>1 DEF Row, Tag
<1>11. item.id # "local" /\ item.etag \in DOMAIN log[Home(item.id)]
  BY <1>1 DEF Fits
<1>2. item.id \in {"old", "new"} /\ item.etag \in DOMAIN log[item.id] /\ item.etag \in Nat
  BY <1>10, <1>11 DEF Ids, Home
<1>3. log[item.id][item.etag] \in Contents
  BY <1>2, ElementOfSeq DEF Inv, TypeOK, Ids
<1>4. Restated(cur, "processing")
  BY <1>1, SetStatusRestates DEF Inv
<1>5. /\ entry' \in Entry /\ entry'.id = entry.id
      /\ entry'.etag \in DOMAIN log[Home(entry.id)]
  <2>1. CASE item.op = "delete"
    BY <2>1 DEF Inv, TypeOK, Entry, Numbered, Logs
  <2>2. CASE item.op # "delete"
    <3>1. entry' = [id |-> item.id, etag |-> item.etag, ctag |-> 0, own |-> FALSE,
                    deleted |-> FALSE] /\ entry.id = item.id
      BY <2>2
    <3>2. entry' \in Entry /\ entry'.id = item.id /\ entry'.etag = item.etag
      BY <1>10, <3>1 DEF Entry, Tag
    <3> QED BY <1>11, <3>1, <3>2
  <2> QED BY <2>1, <2>2
<1>6. queue' \subseteq Ids /\ "local" \notin queue'
  BY <1>2 DEF Inv, TypeOK, Numbered, Ids
<1>7. applied' \subseteq Contents
  BY <1>3 DEF Inv, TypeOK
<1>8. TypeOK'
  BY <1>4, <1>5, <1>6, <1>7, Types DEF Inv, TypeOK, Contents, Restated
<1>9. AtHand'
  BY <1>1, <1>4, Types DEF AtHand, Restated, Inv
<1> QED BY <1>1, <1>4, <1>5, <1>6, <1>8, <1>9, RestatedStays DEF Inv, Numbered

\* A check leaves its row validated or in conflict, and lists the conflicts.
LEMMA BeginRestates ==
    ASSUME TypeOK, NEW r \in DOMAIN rows, NEW row \in Row, NEW next, Begin(r, row, next)
    PROVE  /\ Restated(r, IF next = "park" THEN "conflicted" ELSE "validated")
           /\ shown' \subseteq DOMAIN rows' /\ cur' = r /\ item' = row /\ pc' = next
<1>1. SetStatus(r, IF next = "park" THEN "conflicted" ELSE "validated")
  BY DEF Begin
<1>2. Restated(r, IF next = "park" THEN "conflicted" ELSE "validated")
  BY <1>1, SetStatusRestates
<1>3. DOMAIN rows' = DOMAIN rows
  BY <1>2, Types DEF Restated
<1>4. shown' = shown \union Conflicts(rows')
  BY DEF Begin
<1> QED BY <1>2, <1>3, <1>4 DEF Begin, TypeOK, Conflicts

\* A remote row is taken up, or is in conflict with a local one.
LEMMA CheckRemoteInv == Inv /\ CheckRemote => Inv'
<1> SUFFICES ASSUME Inv, CheckRemote PROVE Inv'
  OBVIOUS
<1> USE DEF CheckRemote, onedrive
<1>1. PICK x \in todo, next \in {"park", "apply"} :
         /\ todo' = todo \ {x} /\ Begin(x.at, x.row, next)
         /\ unseen' \in {unseen, unseen \union {log[x.row.id][x.row.etag]}}
  OBVIOUS
<1>2. UNCHANGED bounds \/ Fault
  OBVIOUS
<1>3. x.at \in DOMAIN rows /\ x.row \in Row /\ Fits(x.row, log) /\ x.row.type = "remote"
  BY DEF Inv, Numbered, TypeOK
<1>4. x.row.id \in Ids /\ x.row.id # "local" /\ x.row.etag \in DOMAIN log[Home(x.row.id)]
  BY <1>3 DEF Row, Fits
<1>5. log[x.row.id] \in Seq(Contents) /\ x.row.etag \in DOMAIN log[x.row.id]
  BY <1>4 DEF Inv, TypeOK, Home
<1>6. log[x.row.id][x.row.etag] \in Contents
  BY <1>5, ElementOfSeq
<1>7. /\ Restated(x.at, IF next = "park" THEN "conflicted" ELSE "validated")
      /\ shown' \subseteq DOMAIN rows' /\ cur' = x.at /\ item' = x.row /\ pc' = next
  BY <1>1, <1>3, BeginRestates DEF Inv
<1>8. yielded' \union applied' \union unseen' \union late' \subseteq Contents
  BY <1>1, <1>6 DEF Inv, TypeOK
<1>9. faults' \in 0..MaxFaults /\ locals' \in 0..MaxLocal
  BY <1>2, SizesAssumption DEF Fault, bounds, Inv, TypeOK
<1>10. rows' \in Seq(Row) /\ recent' \subseteq DOMAIN rows' /\ DOMAIN rows' = DOMAIN rows
  BY <1>7, Types DEF Restated, Inv
<1>11. TypeOK'
  BY <1>1, <1>3, <1>7, <1>8, <1>9, <1>10 DEF Inv, TypeOK, Contents
<1>12. AtHand'
  BY <1>3, <1>7, <1>10 DEF AtHand
<1> QED BY <1>1, <1>3, <1>7, <1>11, <1>12, RestatedStays DEF Inv, Numbered, Logs

\* A local row is taken up, or is in conflict with a remote one.
LEMMA CheckLocalInv == Inv /\ CheckLocal => Inv'
<1> SUFFICES ASSUME Inv, CheckLocal PROVE Inv'
  OBVIOUS
<1> USE DEF CheckLocal, onedrive, bounds
<1> DEFINE r == First(Selectable)
<1>1. Selectable \subseteq DOMAIN rows /\ DOMAIN rows \subseteq Nat /\ Selectable # {}
  BY Types DEF Selectable, Inv
<1>2. r \in Selectable
  BY <1>1, FirstIsLeast
<1>3. r \in DOMAIN rows /\ rows[r].type = "local" /\ rows[r] \in Row /\ Fits(rows[r], log)
  BY <1>2, Types DEF Selectable, Inv, Numbered
<1>4. PICK next \in {"park", "begun"} : Begin(r, rows[r], next)
  OBVIOUS
<1> HIDE DEF r
<1>7. /\ Restated(r, IF next = "park" THEN "conflicted" ELSE "validated")
      /\ shown' \subseteq DOMAIN rows' /\ cur' = r /\ item' = rows[r] /\ pc' = next
  BY <1>3, <1>4, BeginRestates DEF Inv
<1>10. rows' \in Seq(Row) /\ recent' \subseteq DOMAIN rows' /\ DOMAIN rows' = DOMAIN rows
  BY <1>7, Types DEF Restated, Inv
<1>5. r \in Nat
  BY <1>1, <1>3
<1>11. TypeOK'
  BY <1>3, <1>5, <1>7, <1>10 DEF Inv, TypeOK, Contents
<1>12. AtHand'
  BY <1>3, <1>7, <1>10 DEF AtHand
<1> QED BY <1>3, <1>7, <1>11, <1>12, RestatedStays DEF Inv, Numbered, Logs

\* A call cancels the losing side of a conflict.
LEMMA CancelInv == \A c \in Calls : Inv /\ Cancel(c) => Inv'
<1> SUFFICES ASSUME NEW c \in Calls, Inv, Cancel(c) PROVE Inv'
  OBVIOUS
<1> USE DEF Cancel, onedrive, bounds, cycle, history
<1>1. call \in [Calls -> Call] /\ call[c] \in Call /\ Asked(call[c], Len(rows), log)
  BY DEF Inv, TypeOK, Numbered
<1>2. call[c].lose \in DOMAIN rows
  BY <1>1, Types DEF Asked, Inv
<1>3. Restated(call[c].lose, "cancelled")
  BY <1>2, SetStatusRestates DEF Inv
<1> DEFINE y == [call[c] EXCEPT !.pc = "requeue"]
<1>4. y \in Call /\ y.pc = "requeue" /\ y.win = call[c].win /\ y.lose = call[c].lose
        /\ y.row = call[c].row
  BY <1>1 DEF Call, AtWork
<1>5. call' = [call EXCEPT ![c] = y]
  OBVIOUS
<1> HIDE DEF y
<1>6. call' \in [Calls -> Call] /\ \A d \in Calls : call'[d] = IF d = c THEN y ELSE call[d]
  BY <1>1, <1>4, <1>5
<1>7. Asked(y, Len(rows), log)
  BY <1>1, <1>4 DEF Asked
<1>10. rows' \in Seq(Row) /\ recent' \subseteq DOMAIN rows' /\ DOMAIN rows' = DOMAIN rows
  BY <1>3, Types DEF Restated, Inv
<1>11. TypeOK'
  BY <1>6, <1>10 DEF Inv, TypeOK, Contents
<1>12. AtHand'
  BY <1>10 DEF AtHand, Inv, Numbered
<1> QED BY <1>2, <1>3, <1>6, <1>7, <1>11, <1>12, RestatedStays DEF Inv, Numbered, Logs

\* A call puts the winning side back, as the row it has read.
LEMMA RequeueInv == \A c \in Calls : Inv /\ Requeue(c) => Inv'
<1> SUFFICES ASSUME NEW c \in Calls, Inv, Requeue(c) PROVE Inv'
  OBVIOUS
<1> DEFINE x == call[c]
           y == IF x.row.id = "local" THEN [x EXCEPT !.pc = "rename"] ELSE Returned(x)
<1>1. /\ x.pc = "requeue" /\ call' = [call EXCEPT ![c] = y]
      /\ UNCHANGED <<onedrive, token, entry, disk, queue, cycle, bounds, history>>
  BY DEF Requeue
<1>2. x \in Call /\ Asked(x, Len(rows), log)
  BY DEF Inv, TypeOK, Numbered
<1>3. x.win \in DOMAIN rows /\ x.lose \in DOMAIN rows /\ Fits(x.row, log) /\ x.row \in Row
  BY <1>1, <1>2, Types DEF Asked, Inv, Call
<1>4. /\ y \in Call /\ y.win = x.win /\ y.lose = x.lose
      /\ y.pc \in {"rename", "returned"} /\ (y.pc = "rename" => x.row.id = "local")
  <2>1. [x EXCEPT !.pc = "rename"] \in Call /\ [x EXCEPT !.pc = "rename"].pc = "rename"
          /\ [x EXCEPT !.pc = "rename"].win = x.win /\ [x EXCEPT !.pc = "rename"].lose = x.lose
    BY <1>2 DEF Call, AtWork
  <2> QED BY <1>2, <2>1, ReturnedCall
<1> HIDE DEF y
<1>5. Asked(y, Len(rows), log)
  <2>1. x.row.id = "local" => Dead(log)
    BY <1>1, <1>2 DEF Asked
  <2> QED BY <1>1, <1>2, <1>4, <2>1 DEF Asked
<1> DEFINE new == [x.row EXCEPT !.status = "new", !.parked = FALSE]
<1>6. \/ Restated(x.win, "new")
      \/ rows' = [rows EXCEPT ![x.win] = new] /\ recent' = recent \union {x.win}
  <2>1. \/ SetStatus(x.win, "new")
        \/ rows' = [rows EXCEPT ![x.win] = new] /\ recent' = recent \union {x.win}
    BY DEF Requeue
  <2> QED BY <1>3, <2>1, SetStatusRestates DEF Inv
<1>7. /\ new \in Row /\ new.type = x.row.type /\ new.op = x.row.op /\ new.id = x.row.id
      /\ new.etag = x.row.etag
  BY <1>3 DEF Row
<1> HIDE DEF new
<1>8. \A d \in Calls : call'[d] = call[d] \/ Asked(call'[d], Len(rows), log)
  BY <1>1, <1>4, <1>5, CallSet DEF Inv
<1>9. call' \in [Calls -> Call]
  BY <1>1, <1>4, CallSet DEF Inv
<1>10. /\ rows' \in Seq(Row) /\ Len(rows') = Len(rows) /\ DOMAIN rows' = DOMAIN rows
       /\ recent' \subseteq DOMAIN rows' /\ \A r \in DOMAIN rows' : Fits(rows'[r], log)
  <2>1. CASE Restated(x.win, "new")
    <3>1. rows' \in Seq(Row) /\ Len(rows') = Len(rows) /\ DOMAIN rows' = DOMAIN rows
            /\ recent' \subseteq DOMAIN rows'
      BY <2>1, Types DEF Restated, Inv
    <3> QED BY <1>3, <2>1, <3>1, RestatedFits
  <2>2. CASE rows' = [rows EXCEPT ![x.win] = new] /\ recent' = recent \union {x.win}
    <3>1. rows \in Seq(Row) /\ recent \subseteq DOMAIN rows
      BY DEF Inv, TypeOK
    <3>2. /\ rows' \in Seq(Row) /\ Len(rows') = Len(rows) /\ DOMAIN rows' = DOMAIN rows
          /\ \A q \in DOMAIN rows : rows'[q] = IF q = x.win THEN new ELSE rows[q]
      BY <1>3, <1>7, <2>2, <3>1, RowSet
    <3>3. Fits(new, log)
      BY <1>3, <1>7 DEF Fits
    <3>4. \A r \in DOMAIN rows' : Fits(rows'[r], log)
      BY <3>2, <3>3 DEF Inv, Numbered
    <3> QED BY <1>3, <2>2, <3>1, <3>2, <3>4
  <2> QED BY <1>6, <2>1, <2>2
<1> USE DEF onedrive, cycle, bounds, history
<1>11. TypeOK'
  BY <1>1, <1>9, <1>10 DEF Inv, TypeOK, Contents
<1>12. AtHand' /\ Logs' /\ log' = log /\ todo' = todo /\ "local" \notin queue'
  BY <1>1, <1>10 DEF AtHand, Inv, Numbered, Logs
<1>13. Grown(log, log') /\ Len(rows) <= Len(rows')
  BY <1>10, <1>12, SameGrown, Types DEF Inv
<1>14. /\ \A r \in DOMAIN rows' : Fits(rows'[r], log')
       /\ \A d \in Calls : call'[d] = call[d] \/ Asked(call'[d], Len(rows'), log')
  BY <1>8, <1>10, <1>12
<1> QED BY <1>11, <1>12, <1>13, <1>14, NumberedStays DEF Inv

\* The winner of a conflict stays the row it is, unless the other side deleted
\* the file: then the local one is made anew under an id of its own.
Succeeds(row, win, lose, choice) ==
    /\ row \in Row /\ row.type = win.type /\ row.etag = win.etag
    /\ \/ row.id = win.id /\ (row.op = "create" => win.op = "create" \/ choice = "UseRemote")
       \/ row.id = "local" /\ choice = "KeepLocal" /\ lose.op = "delete"
    /\ row.op = "delete" => win.op = "delete"

\* The row that the winning side becomes is about its version.
LEMMA TransformedRow ==
    ASSUME NEW win \in Row, NEW lose \in Row, NEW choice \in Choices
    PROVE  Succeeds(Transformed(choice, win, lose), win, lose, choice)
<1> DEFINE a == [win EXCEPT !.op = "create", !.id = "local"]
           b == [win EXCEPT !.op = "create"]
           d == [win EXCEPT !.op = "update"]
<1>1. a \in Row /\ a.type = win.type /\ a.etag = win.etag /\ a.id = "local" /\ a.op = "create"
  BY DEF Row, Ids
<1>2. b \in Row /\ b.type = win.type /\ b.etag = win.etag /\ b.id = win.id /\ b.op = "create"
  BY DEF Row
<1>3. d \in Row /\ d.type = win.type /\ d.etag = win.etag /\ d.id = win.id /\ d.op = "update"
  BY DEF Row
<1>4. \/ choice = "KeepLocal" /\ lose.op = "delete" /\ Transformed(choice, win, lose) = a
      \/ choice = "UseRemote" /\ Transformed(choice, win, lose) = b
      \/ Transformed(choice, win, lose) = d
      \/ Transformed(choice, win, lose) = win
  BY DEF Transformed
<1> HIDE DEF a, b, d
<1> QED BY <1>1, <1>2, <1>3, <1>4 DEF Succeeds

\* What a call reads: a pending row of each side, of one id.
LEMMA AskReads ==
    ASSUME Inv, NEW c \in Calls, NEW r \in shown, NEW choice \in Choices, Ask(c, r, choice)
    PROVE  \E win \in DOMAIN rows, lose \in DOMAIN rows, row \in Row :
              /\ row = Transformed(choice, rows[win], rows[lose])
              /\ rows[win].id = rows[lose].id
              /\ rows[win].type = IF choice = "KeepLocal" THEN "local" ELSE "remote"
              /\ rows[lose].type = IF choice = "KeepLocal" THEN "remote" ELSE "local"
              /\ row.id = "local" => entry.id = "old"
              /\ call' = [call EXCEPT ![c] = [pc |-> "cancel", win |-> win, lose |-> lose, row |-> row,
                                              transformed |-> row # rows[win]]]
              /\ yielded' = yielded \union
                   (IF choice = "KeepLocal" THEN {log[rows[lose].id][rows[lose].etag]} ELSE {disk})
<1> DEFINE others == PendingOf(rows[r].id, Opposite(rows[r].type))
           local == IF rows[r].type = "local" THEN r ELSE First(others)
           remote == IF rows[r].type = "local" THEN First(others) ELSE r
           win == IF choice = "KeepLocal" THEN local ELSE remote
           lose == IF choice = "KeepLocal" THEN remote ELSE local
           row == Transformed(choice, rows[win], rows[lose])
<1>1. r \in DOMAIN rows /\ DOMAIN rows \subseteq Nat /\ rows[r] \in Row
  BY Types DEF Inv, TypeOK
<1>2. others # {} /\ others \subseteq DOMAIN rows
  BY DEF Ask, PendingOf
<1>3. First(others) \in others
  BY <1>1, <1>2, FirstIsLeast
<1>4. /\ First(others) \in DOMAIN rows /\ rows[First(others)].id = rows[r].id
      /\ rows[First(others)].type = Opposite(rows[r].type)
  BY <1>3 DEF PendingOf
<1>5. rows[r].type \in {"local", "remote"}
  BY <1>1 DEF Row
<1>6. /\ local \in DOMAIN rows /\ remote \in DOMAIN rows /\ rows[local].id = rows[remote].id
      /\ rows[local].type = "local" /\ rows[remote].type = "remote"
  BY <1>1, <1>4, <1>5 DEF Opposite
<1>7. /\ row.id = "local" => entry.id = "old"
      /\ call' = [call EXCEPT ![c] = [pc |-> "cancel", win |-> win, lose |-> lose, row |-> row,
                                      transformed |-> row # rows[win]]]
      /\ yielded' = yielded \union
           (IF choice = "KeepLocal" THEN {log[rows[remote].id][rows[remote].etag]} ELSE {disk})
  BY DEF Ask
<1>8. rows[win] \in Row
  BY <1>6, Types DEF Inv
<1>9. row \in Row
  <2>1. rows[win] \in Row /\ rows[lose] \in Row
    BY <1>6, <1>8, Types DEF Inv
  <2>2. Succeeds(row, rows[win], rows[lose], choice)
    BY <2>1, TransformedRow
  <2> QED BY <2>2 DEF Succeeds
<1> HIDE DEF others, local, remote, row
<1> QED BY <1>6, <1>7, <1>9 DEF row, Choices

\* A call reads the two sides of a conflict that was shown.
LEMMA AskInv == \A c \in Calls, r \in shown, choice \in Choices : Inv /\ Ask(c, r, choice) => Inv'
<1> SUFFICES ASSUME NEW c \in Calls, NEW r \in shown, NEW choice \in Choices,
                    Inv, Ask(c, r, choice)
             PROVE  Inv'
  OBVIOUS
<1>1. PICK win \in DOMAIN rows, lose \in DOMAIN rows, row \in Row :
              /\ row = Transformed(choice, rows[win], rows[lose])
              /\ rows[win].id = rows[lose].id
              /\ rows[win].type = IF choice = "KeepLocal" THEN "local" ELSE "remote"
              /\ rows[lose].type = IF choice = "KeepLocal" THEN "remote" ELSE "local"
              /\ row.id = "local" => entry.id = "old"
              /\ call' = [call EXCEPT ![c] = [pc |-> "cancel", win |-> win, lose |-> lose, row |-> row,
                                              transformed |-> row # rows[win]]]
              /\ yielded' = yielded \union
                   (IF choice = "KeepLocal" THEN {log[rows[lose].id][rows[lose].etag]} ELSE {disk})
  BY AskReads
<1>2. UNCHANGED <<onedrive, token, table, cycle, bounds, known, shown, applied, unseen, late>>
  BY DEF Ask
<1> DEFINE y == [pc |-> "cancel", win |-> win, lose |-> lose, row |-> row,
                 transformed |-> row # rows[win]]
<1>3. y \in Call /\ y.pc = "cancel" /\ y.win = win /\ y.lose = lose /\ y.row = row
  BY Types DEF Call, AtWork, Inv
<1>4. call' = [call EXCEPT ![c] = y]
  BY <1>1
<1> HIDE DEF y
<1>5. call' \in [Calls -> Call] /\ \A d \in Calls : call'[d] = IF d = c THEN y ELSE call[d]
  BY <1>3, <1>4, CallSet DEF Inv
<1>6. /\ rows[win] \in Row /\ rows[lose] \in Row
      /\ Fits(rows[win], log) /\ Fits(rows[lose], log)
  BY Types DEF Inv, Numbered
<1>7. rows[win].id # "local"
  BY <1>1, <1>6 DEF Fits
<1>8. /\ row.type = rows[win].type /\ row.etag = rows[win].etag
      /\ \/ row.id = rows[win].id /\ (row.op = "create" => rows[win].op = "create" \/ choice = "UseRemote")
         \/ row.id = "local" /\ choice = "KeepLocal" /\ rows[lose].op = "delete"
      /\ row.op = "delete" => rows[win].op = "delete"
  <2>1. row = Transformed(choice, rows[win], rows[lose])
    BY <1>1
  <2>2. rows[win] \in Row /\ rows[lose] \in Row
    BY <1>6
  <2>3. Succeeds(row, rows[win], rows[lose], choice)
    BY <2>1, <2>2, TransformedRow
  <2> QED BY <2>3 DEF Succeeds
<1>9. row.id = "local" => /\ Dead(log) /\ rows[win].id = "old" /\ choice = "KeepLocal"
  <2> SUFFICES ASSUME row.id = "local"
               PROVE  Dead(log) /\ rows[win].id = "old" /\ choice = "KeepLocal"
    OBVIOUS
  <2>1. entry.id = "old" /\ choice = "KeepLocal" /\ rows[lose].op = "delete"
    BY <1>1, <1>7, <1>8
  <2>2. log["new"] = << >>
    BY <2>1 DEF Inv, Numbered, Logs
  <2>3. rows[win].id # "new"
    BY <1>6, <2>2 DEF Fits, Home
  <2>4. rows[win].id = "old"
    BY <1>6, <1>7, <2>3 DEF Row, Ids
  <2> QED BY <1>1, <1>6, <2>1, <2>4 DEF Fits
<1>10. Fits(row, log)
  <2>1. CASE row.id = "local"
    BY <1>1, <1>6, <1>8, <1>9, <2>1 DEF Fits, Home
  <2>2. CASE row.id # "local"
    BY <1>1, <1>6, <1>8, <2>2 DEF Fits
  <2> QED BY <2>1, <2>2
<1>11. Asked(y, Len(rows), log)
  BY <1>3, <1>9, <1>10, Types DEF Asked, Inv
<1>12. yielded' \subseteq Contents
  <2>1. choice = "KeepLocal" => log[rows[lose].id][rows[lose].etag] \in Contents
    <3> SUFFICES ASSUME choice = "KeepLocal" PROVE log[rows[lose].id][rows[lose].etag] \in Contents
      OBVIOUS
    <3>1. rows[lose].id \in Ids /\ rows[lose].id # "local" /\ rows[lose].etag \in DOMAIN log[rows[lose].id]
      BY <1>1, <1>6 DEF Fits, Row, Home
    <3>2. log[rows[lose].id] \in Seq(Contents)
      BY <3>1 DEF Inv, TypeOK
    <3> QED BY <3>1, <3>2, ElementOfSeq
  <2>2. disk \in Contents /\ yielded \subseteq Contents
    BY DEF Inv, TypeOK
  <2> QED BY <1>1, <2>1, <2>2
<1> USE DEF onedrive, table, cycle, bounds
<1>13. TypeOK'
  BY <1>2, <1>5, <1>12 DEF Inv, TypeOK, Contents
<1>14. AtHand'
  BY <1>2 DEF AtHand, Inv, Numbered
<1>15. Same /\ \A d \in Calls : call'[d] = call[d] \/ Asked(call'[d], Len(rows), log)
  BY <1>2, <1>5, <1>11 DEF Same
<1>16. /\ todo' \subseteq todo /\ "local" \notin queue' /\ entry'.id = entry.id
       /\ entry'.etag \in DOMAIN log[Home(entry.id)]
  BY <1>2 DEF Inv, Numbered, Logs
<1> QED BY <1>13, <1>14, <1>15, <1>16, SameStays DEF Inv

-----------------------------------------------------------------------------
\* The steps that make a version.

\* What a log that got longer keeps: Grown, and what Logs says of it.
LEMMA AppendGrows ==
    ASSUME Inv, NEW id \in Ids, Exists(id), NEW c \in Nat,
           log' = [log EXCEPT ![id] = Append(@, c)]
    PROVE  /\ Grown(log, log') /\ id # "local"
           /\ \A i \in Ids : log'[i] = IF i = id THEN Append(log[id], c) ELSE log[i]
           /\ DOMAIN log'[id] = 1..(Len(log[id]) + 1) /\ Len(log[id]) \in Nat
           /\ \A n \in DOMAIN log[id] : log'[id][n] = log[id][n]
           /\ (UNCHANGED entry => Logs')
<1>1. log \in [Ids -> Seq(Nat)] /\ log[id] \in Seq(Nat)
  BY Types DEF Inv
<1>2. \A i \in Ids : log'[i] = IF i = id THEN Append(log[id], c) ELSE log[i]
  BY <1>1
<1>3. log[id] # << >> /\ log[id][Len(log[id])] # 0
  BY DEF Exists, Top
<1>4. /\ DOMAIN log'[id] = 1..(Len(log[id]) + 1) /\ Len(log[id]) \in Nat
      /\ Len(log'[id]) = Len(log[id]) + 1 /\ log'[id] # << >>
      /\ \A n \in DOMAIN log[id] : log'[id][n] = log[id][n]
  BY <1>1, <1>2
<1>5. id # "local"
  BY <1>3 DEF Inv, Numbered, Logs
<1>6. Dead(log) => id # "old"
  BY <1>3 DEF Dead
<1>7. "old" \in Ids /\ "new" \in Ids /\ "local" \in Ids
  BY DEF Ids
<1>8. Dead(log) => Dead(log')
  BY <1>2, <1>6, <1>7 DEF Dead
<1>9. \A i \in Ids : Len(log[i]) <= Len(log'[i]) /\ DOMAIN log[i] \subseteq DOMAIN log'[i]
  <2>1. ASSUME NEW i \in Ids
        PROVE  Len(log[i]) <= Len(log'[i]) /\ DOMAIN log[i] \subseteq DOMAIN log'[i]
    <3>1. CASE i = id
      BY <1>1, <1>4, <3>1
    <3>2. CASE i # id
      BY <1>1, <1>2, <3>2
    <3> QED BY <3>1, <3>2
  <2> QED BY <2>1
<1>10. UNCHANGED entry => Logs'
  <2> SUFFICES ASSUME UNCHANGED entry PROVE Logs'
    OBVIOUS
  <2>1. entry.id \in Ids /\ Home(entry.id) \in Ids
    BY DEF Inv, TypeOK, Entry, Ids, Home
  <2>2. entry.etag \in DOMAIN log'[Home(entry.id)]
    BY <1>9, <2>1 DEF Inv, Numbered, Logs
  <2>3. log'["local"] = << >> /\ log'["old"] # << >>
    BY <1>2, <1>4, <1>5, <1>7 DEF Inv, Numbered, Logs
  <2>4. log'["new"] = << >> <=> log["new"] = << >>
    BY <1>2, <1>3, <1>4, <1>7
  <2> QED BY <1>8, <2>2, <2>3, <2>4 DEF Inv, Numbered, Logs
<1> QED BY <1>2, <1>4, <1>5, <1>8, <1>9, <1>10 DEF Grown

\* There may be more contents than before.
LEMMA ContentsGrow ==
    ASSUME TypeOK, known' \in Seq(SUBSET Nat), Len(known) <= Len(known')
    PROVE  /\ Contents \subseteq Contents' /\ 0 \in Contents' /\ Contents' \subseteq Nat
           /\ \A id \in Ids : log[id] \in Seq(Contents')
           /\ disk \in Contents' /\ staged \in Contents'
           /\ yielded \union applied \union unseen \union late \subseteq Contents'
<1>1. Len(known) \in Nat /\ Len(known') \in Nat
  BY DEF TypeOK
<1>2. Contents \subseteq Contents' /\ 0 \in Contents' /\ Contents' \subseteq Nat
  BY <1>1 DEF Contents
<1>3. \A id \in Ids : log[id] \in Seq(Contents')
  BY <1>2, SeqMonotonic DEF TypeOK
<1> QED BY <1>2, <1>3 DEF TypeOK

\* A content made from one there is.
LEMMA MadeKnown ==
    ASSUME TypeOK, NEW d \in Contents, known' = Made(Knows(d))
    PROVE  /\ known' \in Seq(SUBSET Nat) /\ Len(known') = Len(known) + 1
           /\ \A n \in DOMAIN known' : known'[n] \subseteq DOMAIN known'
           /\ Content \in Contents' /\ Content # 0
<1>1. known \in Seq(SUBSET Nat) /\ Len(known) \in Nat /\ DOMAIN known = 1..Len(known)
        /\ \A n \in DOMAIN known : known[n] \subseteq DOMAIN known
  BY DEF TypeOK
<1>2. Knows(d) \subseteq 1..Len(known)
  BY <1>1 DEF Knows, Contents
<1> DEFINE s == Knows(d) \union {Len(known) + 1}
<1>3. s \in SUBSET Nat /\ s \subseteq 1..(Len(known) + 1)
  BY <1>1, <1>2
<1>4. known' = Append(known, s)
  BY DEF Made
<1> HIDE DEF s
<1>5. /\ known' \in Seq(SUBSET Nat) /\ Len(known') = Len(known) + 1
      /\ \A n \in 1..(Len(known) + 1) : known'[n] = IF n = Len(known) + 1 THEN s ELSE known[n]
  BY <1>1, <1>3, <1>4
<1>6. DOMAIN known' = 1..(Len(known) + 1)
  BY <1>5
<1>7. ASSUME NEW n \in DOMAIN known'
      PROVE  known'[n] \subseteq DOMAIN known'
  BY <1>1, <1>3, <1>5, <1>6, <1>7
<1> QED BY <1>1, <1>5, <1>7 DEF Content, Contents

\* Somebody changes or deletes the file on OneDrive.
LEMMA RemoteEditInv == Inv /\ RemoteEdit => Inv'
<1> SUFFICES ASSUME Inv, RemoteEdit PROVE Inv'
  OBVIOUS
<1>1. PICK id \in Ids, c \in Nat :
         /\ Exists(id) /\ log' = [log EXCEPT ![id] = Append(@, c)]
         /\ \/ c = Content /\ known' = Made(Knows(Top(id)))
            \/ c \in {0, Top(id)} /\ UNCHANGED known
  <2>1. PICK id \in Ids : Exists(id) /\
          \/ /\ log' = [log EXCEPT ![id] = Append(@, Content)]
             /\ known' = Made(Knows(Top(id)))
          \/ \E c \in {0, Top(id)} :
                log' = [log EXCEPT ![id] = Append(@, c)] /\ UNCHANGED known
    BY DEF RemoteEdit
  <2>2. Top(id) \in Nat /\ Content \in Nat
    BY TopIsContent, Types DEF Inv, Content
  <2> QED BY <2>1, <2>2
<1>2. UNCHANGED <<token, table, cycle, call, bounds, shown, yielded, applied, unseen, late>>
  BY DEF RemoteEdit
<1>3. remotes' \in 0..MaxRemote
  BY SizesAssumption DEF RemoteEdit, Inv, TypeOK
<1>4. Top(id) \in Contents /\ log[id] \in Seq(Contents)
  BY TopIsContent DEF Inv
<1>5. /\ known' \in Seq(SUBSET Nat) /\ Len(known) <= Len(known')
      /\ \A n \in DOMAIN known' : known'[n] \subseteq DOMAIN known'
      /\ c \in Contents'
  <2>1. CASE c = Content /\ known' = Made(Knows(Top(id)))
    BY <1>4, <2>1, MadeKnown, Types DEF Inv
  <2>2. CASE c \in {0, Top(id)} /\ UNCHANGED known
    BY <1>4, <2>2, Types DEF Inv, TypeOK, Contents
  <2> QED BY <1>1, <2>1, <2>2
<1>6. /\ Contents \subseteq Contents'
      /\ \A i \in Ids : log[i] \in Seq(Contents')
      /\ disk \in Contents' /\ staged \in Contents'
      /\ yielded \union applied \union unseen \union late \subseteq Contents'
  BY <1>5, ContentsGrow DEF Inv
<1>7. /\ Grown(log, log')
      /\ \A i \in Ids : log'[i] = IF i = id THEN Append(log[id], c) ELSE log[i]
      /\ (UNCHANGED entry => Logs')
  BY <1>1, AppendGrows DEF Inv
<1>8. log' \in [Ids -> Seq(Contents')]
  <2>4. Append(log[id], c) \in Seq(Contents')
    BY <1>5, <1>6
  <2>1. \A i \in Ids : log'[i] \in Seq(Contents')
    BY <1>6, <1>7, <2>4
  <2>2. DOMAIN log' = Ids
    BY <1>1 DEF Inv, TypeOK
  <2>3. log' = [i \in Ids |-> log'[i]]
    BY <1>1, <2>2 DEF Inv, TypeOK
  <2> QED BY <2>1, <2>3
<1>9. \A i \in Ids : token'[i] <= Len(log'[i])
  BY <1>2, <1>7 DEF Grown, Inv, TypeOK
<1> USE DEF table, cycle, bounds
<1>10. TypeOK'
  BY <1>2, <1>3, <1>5, <1>6, <1>8, <1>9 DEF Inv, TypeOK
<1>14. log' \in [Ids -> Seq(Nat)]
  <2>1. Len(known') \in Nat
    BY <1>5
  <2> QED BY <1>8, <2>1, LogsOfNumbers DEF Contents
<1>11. \A r \in DOMAIN rows' : Fits(rows'[r], log')
  <2>1. log \in [Ids -> Seq(Nat)] /\ log' \in [Ids -> Seq(Nat)] /\ \A r \in DOMAIN rows : rows[r] \in Row
    BY <1>14, Types DEF Inv
  <2> QED BY <1>2, <1>7, <2>1, FitsLater DEF Inv, Numbered
<1>12. AtHand'
  <2>1. log \in [Ids -> Seq(Nat)] /\ log' \in [Ids -> Seq(Nat)] /\ item \in Row
    BY <1>14, Types DEF Inv, TypeOK
  <2>2. Fits(item, log) => Fits(item, log')
    BY <1>7, <2>1, FitsLater
  <2>3. answer.etag \in DOMAIN log[answer.id] => answer.etag \in DOMAIN log'[answer.id]
    <3>1. answer.id \in Ids
      BY DEF Inv, TypeOK, Entry
    <3>2. Len(log[answer.id]) <= Len(log'[answer.id])
      BY <1>7, <3>1 DEF Grown
    <3>3. DOMAIN log[answer.id] \subseteq DOMAIN log'[answer.id]
      BY <2>1, <3>1, <3>2
    <3> QED BY <3>3
  <2> QED BY <1>2, <2>2, <2>3 DEF AtHand, Inv, Numbered
<1>13. Len(rows) <= Len(rows') /\ "local" \notin queue' /\ todo' = todo /\ call' = call
  BY <1>2, Types DEF Inv, Numbered
<1>15. Logs'
  BY <1>2, <1>7
<1> QED BY <1>7, <1>10, <1>11, <1>12, <1>13, <1>15, NumberedStays DEF Inv

\* A change by the user adds a row of the version the entry has.
LEMMA LocalChangeFits ==
    ASSUME Inv, NEW op \in LocalOps, LocalChange(op)
    PROVE  /\ rows' \in Seq(Row) /\ Len(rows') = Len(rows) + 1 /\ DOMAIN rows \subseteq DOMAIN rows'
           /\ \A r \in DOMAIN rows' : Fits(rows'[r], log)
           /\ locals' \in 0..MaxLocal
           /\ UNCHANGED <<onedrive, token, recent, queue, cycle, call, faults,
                          shown, yielded, applied>>
<1> DEFINE x == NewRow("local", op, entry.id, entry.etag)
<1>1. op \in {"update", "delete", "rename"}
  BY SizesAssumption
<1>2. entry.id \in Ids /\ entry.etag \in Nat
  BY DEF Inv, TypeOK, Entry, Tag
<1>3. x \in Row /\ x.type = "local" /\ x.op = op /\ x.id = entry.id /\ x.etag = entry.etag
  BY <1>1, <1>2, Records
<1>4. rows' = Append(rows, x) /\ rows \in Seq(Row)
  BY DEF LocalChange, Inv, TypeOK
<1> HIDE DEF x
<1>5. /\ rows' \in Seq(Row) /\ Len(rows') = Len(rows) + 1
      /\ DOMAIN rows' = 1..(Len(rows) + 1) /\ DOMAIN rows = 1..Len(rows) /\ Len(rows) \in Nat
      /\ \A r \in 1..(Len(rows) + 1) : rows'[r] = IF r = Len(rows) + 1 THEN x ELSE rows[r]
  BY <1>3, <1>4
<1>6. Fits(x, log)
  BY <1>1, <1>3 DEF Fits, Inv, Numbered, Logs
<1>7. \A r \in DOMAIN rows' : Fits(rows'[r], log)
  BY <1>5, <1>6 DEF Inv, Numbered
<1>8. locals' \in 0..MaxLocal
  BY SizesAssumption DEF LocalChange, Inv, TypeOK
<1> QED BY <1>5, <1>7, <1>8 DEF LocalChange

\* The version an edit here may not have seen is one there is.
LEMMA ComingContents == ASSUME Inv PROVE Coming \subseteq Contents
<1>1. entry.id \in queue => log[entry.id][entry.etag] \in Contents
  <2> SUFFICES ASSUME entry.id \in queue PROVE log[entry.id][entry.etag] \in Contents
    OBVIOUS
  <2>1. entry.id \in Ids /\ entry.id # "local"
    BY DEF Inv, Numbered, TypeOK
  <2>2. log[entry.id] \in Seq(Contents) /\ entry.etag \in DOMAIN log[entry.id]
    BY <2>1 DEF Inv, Numbered, TypeOK, Logs, Home
  <2> QED BY <2>2, ElementOfSeq
<1>2. pc = "apply" => log[item.id][item.etag] \in Contents
  <2> SUFFICES ASSUME pc = "apply" PROVE log[item.id][item.etag] \in Contents
    OBVIOUS
  <2>1. item \in Row /\ Fits(item, log) /\ item.type = "remote"
    BY DEF Inv, Numbered, TypeOK, AtHand
  <2>3. item.id \in Ids /\ item.id # "local" /\ item.etag \in DOMAIN log[item.id]
    BY <2>1 DEF Row, Fits, Home
  <2>2. log[item.id] \in Seq(Contents)
    BY <2>3 DEF Inv, TypeOK
  <2> QED BY <2>2, <2>3, ElementOfSeq
<1>3. staged \in Contents
  BY DEF Inv, TypeOK
<1> QED BY <1>1, <1>2, <1>3 DEF Coming

\* What is left to show of a change by the user.
LEMMA UserStays ==
    ASSUME Inv, NEW op \in LocalOps, LocalChange(op), TypeOK', entry'.id = entry.id,
           entry'.etag = entry.etag
    PROVE  Numbered'
<1> USE DEF onedrive, cycle
<1>1. /\ Len(rows') = Len(rows) + 1 /\ DOMAIN rows \subseteq DOMAIN rows'
      /\ \A r \in DOMAIN rows' : Fits(rows'[r], log)
      /\ UNCHANGED <<onedrive, token, recent, queue, cycle, call, faults,
                          shown, yielded, applied>>
  BY LocalChangeFits
<1>2. Grown(log, log') /\ Len(rows) <= Len(rows') /\ Len(rows) \in Nat
  BY <1>1, SameGrown, Types DEF Inv
<1>3. Logs'
  BY <1>1 DEF Inv, Numbered, Logs
<1>4. AtHand'
  BY <1>1 DEF Inv, Numbered, AtHand
<1>5. \A r \in DOMAIN rows' : Fits(rows'[r], log')
  BY <1>1
<1>6. "local" \notin queue' /\ todo' = todo /\ call' = call
  BY <1>1 DEF Inv, Numbered
<1> QED BY <1>2, <1>3, <1>4, <1>5, <1>6, NumberedStays

\* The user writes the file or deletes it.
LEMMA UserInv == Inv /\ User => Inv'
<1> SUFFICES ASSUME Inv, User PROVE Inv'
  OBVIOUS
<1>1. \A op \in LocalOps : LocalChange(op) =>
        /\ rows' \in Seq(Row) /\ Len(rows') = Len(rows) + 1 /\ DOMAIN rows \subseteq DOMAIN rows'
        /\ locals' \in 0..MaxLocal
        /\ UNCHANGED <<onedrive, token, recent, queue, cycle, call, faults,
                       shown, yielded, applied>>
  BY LocalChangeFits
<1>2. \A op : LocalChange(op) => op \in LocalOps
  BY DEF LocalChange
<1>3. Coming \subseteq Contents
  BY ComingContents
<1> USE DEF onedrive, cycle
<1>4. CASE Write
  <2>1. /\ LocalChange("update") /\ disk' = Content /\ known' = Made(Knows(disk))
        /\ unseen' = unseen \union Coming /\ late' \in {late, late \union {Content}}
        /\ UNCHANGED entry
    BY <1>4 DEF Write
  <2>2. /\ known' \in Seq(SUBSET Nat) /\ Len(known') = Len(known) + 1
        /\ \A n \in DOMAIN known' : known'[n] \subseteq DOMAIN known'
        /\ Content \in Contents'
    BY <2>1, MadeKnown DEF Inv, TypeOK
  <2>3. /\ Contents \subseteq Contents'
        /\ \A i \in Ids : log[i] \in Seq(Contents')
        /\ staged \in Contents'
        /\ yielded \union applied \union unseen \union late \subseteq Contents'
    BY <2>2, ContentsGrow, Types DEF Inv
  <2>4. log' \in [Ids -> Seq(Contents')]
    BY <1>1, <1>2, <2>1, <2>3 DEF Inv, TypeOK
  <2>5. yielded' \union applied' \union unseen' \union late' \subseteq Contents'
    BY <1>1, <1>2, <1>3, <2>1, <2>2, <2>3
  <2>6. TypeOK'
    BY <1>1, <1>2, <2>1, <2>2, <2>3, <2>4, <2>5 DEF Inv, TypeOK
  <2> QED BY <1>2, <2>1, <2>6, UserStays DEF Inv
<1>5. CASE Unlink
  <2>1. /\ LocalChange("delete") /\ entry' = [entry EXCEPT !.deleted = TRUE]
        /\ unseen' = unseen \union Coming /\ UNCHANGED <<disk, known, late>>
    BY <1>5 DEF Unlink
  <2>2. entry' \in Entry /\ entry'.id = entry.id /\ entry'.etag = entry.etag
    BY <2>1 DEF Inv, TypeOK, Entry
  <2>3. yielded' \union applied' \union unseen' \union late' \subseteq Contents
    BY <1>1, <1>2, <1>3, <2>1 DEF Inv, TypeOK
  <2>6. TypeOK'
    BY <1>1, <1>2, <2>1, <2>2, <2>3 DEF Inv, TypeOK, Contents
  <2> QED BY <1>2, <2>1, <2>2, <2>6, UserStays DEF Inv
<1>6. CASE Rename
  <2>1. LocalChange("rename") /\ UNCHANGED <<entry, disk, known, unseen, late>>
    BY <1>6 DEF Rename
  <2>6. TypeOK'
    BY <1>1, <1>2, <2>1 DEF Inv, TypeOK, Contents
  <2> QED BY <1>2, <2>1, <2>6, UserStays DEF Inv
<1> QED BY <1>4, <1>5, <1>6 DEF User

\* A version is appended to the log of one id.
LEMMA LogSet ==
    ASSUME TypeOK, NEW id \in Ids, NEW c \in Contents, log' = [log EXCEPT ![id] = Append(@, c)]
    PROVE  log' \in [Ids -> Seq(Contents)]
<1>1. log \in [Ids -> Seq(Contents)]
  BY DEF TypeOK
<1>2. Append(log[id], c) \in Seq(Contents)
  BY <1>1
<1> QED BY <1>1, <1>2

\* What is left to show of a step that makes a version and restates a row.
LEMMA FitsStay ==
    ASSUME Inv, Grown(log, log'), log' \in [Ids -> Seq(Contents)]
    PROVE  /\ \A row \in Row : Fits(row, log) => Fits(row, log')
           /\ log \in [Ids -> Seq(Nat)] /\ log' \in [Ids -> Seq(Nat)]
           /\ \A id \in Ids : DOMAIN log[id] \subseteq DOMAIN log'[id]
<1>1. log \in [Ids -> Seq(Nat)] /\ Len(known) \in Nat
  BY Types DEF Inv
<1>2. log' \in [Ids -> Seq(Nat)]
  BY <1>1, LogsOfNumbers DEF Contents
<1>3. \A id \in Ids : DOMAIN log[id] \subseteq DOMAIN log'[id]
  <2>1. ASSUME NEW id \in Ids
        PROVE  DOMAIN log[id] \subseteq DOMAIN log'[id]
    <3>1. log[id] \in Seq(Nat) /\ log'[id] \in Seq(Nat) /\ Len(log[id]) <= Len(log'[id])
      BY <1>1, <1>2 DEF Grown
    <3> QED BY <3>1
  <2> QED BY <2>1
<1>4. \A row \in Row : Fits(row, log) => Fits(row, log')
  BY <1>1, <1>2, FitsLater
<1> QED BY <1>1, <1>2, <1>3, <1>4

\* A local change is sent; OneDrive has one version more.
LEMMA SendInv == Inv /\ Send => Inv'
<1> SUFFICES ASSUME Inv, Send PROVE Inv'
  OBVIOUS
<1>1. /\ pc = "begun" /\ Served /\ SetStatus(cur, "processing") /\ pc' = "answered"
      /\ UNCHANGED <<token, entry, disk, queue, todo, cur, item, staged, call, bounds, history>>
  BY DEF Send
<1>2. /\ cur \in DOMAIN rows /\ Fits(item, log) /\ item \in Row /\ item.type = "local"
      /\ item.id \in Ids
  BY <1>1 DEF Inv, Numbered, AtHand, TypeOK, Row
<1>3. item.op # "create" /\ Exists(item.id)
  BY <1>1 DEF Send, Served
<1>4. item.op = "update" => entry.id = item.id
  BY <1>1 DEF Served, Known
<1>5. /\ Top(item.id) \in Contents /\ disk \in Contents /\ 0 \in Contents
      /\ Etag(item.id) \in Nat /\ entry \in Entry /\ item.etag \in Nat
  <2>1. Top(item.id) \in Contents
    BY <1>2, TopIsContent DEF Inv
  <2>2. Etag(item.id) \in Nat /\ item.etag \in Nat
    <3>1. log[item.id] \in Seq(Nat)
      BY <1>2, Types DEF Inv
    <3> QED BY <1>2, <3>1 DEF Etag, Row, Tag
  <2>3. 0 \in Contents
    BY Types DEF Inv, Contents
  <2> QED BY <2>1, <2>2, <2>3 DEF Inv, TypeOK
<1>6. PICK c \in Contents :
         /\ log' = [log EXCEPT ![item.id] = Append(@, c)] /\ UNCHANGED remotes
         /\ answer' \in Entry /\ answer'.id = item.id
         /\ answer'.etag \in {item.etag, Etag(item.id) + 1}
  <2>1. CASE item.op = "update"
    <3>1. Append_(item.id, disk)
            /\ answer' = [entry EXCEPT !.etag = Etag(item.id) + 1, !.ctag = disk, !.own = TRUE]
      BY <2>1 DEF Send
    <3>2. disk \in Nat
      BY <1>5, Types DEF Inv
    <3>4. PICK n \in Nat : n = Etag(item.id) + 1
      BY <1>5
    <3>5. answer' = [entry EXCEPT !.etag = n, !.ctag = disk, !.own = TRUE] /\ entry \in Entry
      BY <1>5, <3>1, <3>4
    <3>6. answer' \in Entry /\ answer'.id = entry.id /\ answer'.etag = n
      BY <3>2, <3>5 DEF Entry, Tag
    <3>3. answer' \in Entry /\ answer'.id = entry.id /\ answer'.etag = Etag(item.id) + 1
      BY <3>4, <3>6
    <3> QED BY <1>4, <1>5, <2>1, <3>1, <3>3 DEF Append_
  <2>2. CASE item.op = "delete"
    <3>1. Append_(item.id, 0)
            /\ answer' = [id |-> item.id, etag |-> item.etag, ctag |-> 0, own |-> FALSE,
                          deleted |-> FALSE]
      BY <2>2 DEF Send
    <3>3. answer' \in Entry /\ answer'.id = item.id /\ answer'.etag = item.etag
      BY <1>2, <1>5, <3>1 DEF Entry, Tag
    <3> QED BY <1>5, <3>1, <3>3 DEF Append_
  <2>3. CASE item.op = "rename"
    <3>1. Append_(item.id, Top(item.id))
            /\ answer' = [id |-> item.id, etag |-> Etag(item.id) + 1, ctag |-> Top(item.id),
                          own |-> FALSE, deleted |-> FALSE]
      BY <2>3 DEF Send
    <3>2. Top(item.id) \in Nat
      BY <1>5, Types DEF Inv
    <3>3. answer' \in Entry /\ answer'.id = item.id /\ answer'.etag = Etag(item.id) + 1
      BY <1>2, <1>5, <3>1, <3>2 DEF Entry, Tag
    <3> QED BY <1>5, <3>1, <3>3 DEF Append_
  <2> QED BY <1>2, <1>3, <2>1, <2>2, <2>3 DEF Row
<1>7. /\ Grown(log, log') /\ item.id # "local" /\ (UNCHANGED entry => Logs')
      /\ DOMAIN log'[item.id] = 1..(Len(log[item.id]) + 1) /\ Len(log[item.id]) \in Nat
  <2>1. c \in Nat
    BY Types DEF Inv
  <2> QED BY <1>2, <1>3, <1>6, <2>1, AppendGrows
<1>8. log' \in [Ids -> Seq(Contents)]
  BY <1>2, <1>6, LogSet DEF Inv
<1>9. Restated(cur, "processing")
  BY <1>1, <1>2, SetStatusRestates DEF Inv
<1>10. /\ rows' \in Seq(Row) /\ Len(rows') = Len(rows) /\ DOMAIN rows' = DOMAIN rows
       /\ recent' \subseteq DOMAIN rows'
  BY <1>9, Types DEF Restated, Inv
<1>11. \A i \in Ids : token'[i] <= Len(log'[i])
  <2>1. ASSUME NEW i \in Ids
        PROVE  token'[i] <= Len(log'[i])
    <3>1. token[i] <= Len(log[i]) /\ Len(log[i]) <= Len(log'[i]) /\ token[i] \in Nat
            /\ log[i] \in Seq(Contents) /\ log'[i] \in Seq(Contents)
      BY <1>7, <1>8 DEF Grown, Inv, TypeOK
    <3> QED BY <1>1, <3>1
  <2> QED BY <2>1
<1> USE DEF bounds, history
<1>12. TypeOK'
  BY <1>1, <1>6, <1>8, <1>10, <1>11 DEF Inv, TypeOK, Contents
<1>13. /\ Fits(item, log') /\ \A r \in DOMAIN rows' : Fits(rows'[r], log')
  <2>1. \A r \in DOMAIN rows' : Fits(rows'[r], log)
    BY <1>2, <1>9, RestatedFits
  <2>2. \A r \in DOMAIN rows' : rows'[r] \in Row
    BY <1>10
  <2> QED BY <1>2, <1>7, <1>8, <2>1, <2>2, FitsStay
<1>14. AtHand'
  <2>1. item.etag \in DOMAIN log'[item.id]
    BY <1>2, <1>7, <1>13 DEF Fits, Home
  <2>2. answer'.etag \in DOMAIN log'[item.id]
    BY <1>6, <1>7, <2>1 DEF Etag
  <2> QED BY <1>1, <1>2, <1>6, <1>7, <1>10, <1>13, <2>2 DEF AtHand
<1>15. Logs' /\ Len(rows) <= Len(rows') /\ "local" \notin queue' /\ todo' = todo /\ call' = call
  BY <1>1, <1>7, <1>10, Types DEF Inv, Numbered
<1> QED BY <1>7, <1>12, <1>13, <1>14, <1>15, NumberedStays DEF Inv

\* The file is uploaded under a new id, whose log it begins or continues.
LEMMA SendNewInv == Inv /\ SendNew => Inv'
<1> SUFFICES ASSUME Inv, SendNew PROVE Inv'
  OBVIOUS
<1> DEFINE base == IF Etag("new") = 0 THEN log["old"] ELSE log["new"]
<1>1. /\ pc = "begun" /\ item.op = "create" /\ Served /\ pc' = "closing"
      /\ log' = [log EXCEPT !["new"] = Append(base, disk)]
      /\ entry' = [id |-> "new", etag |-> Len(log'["new"]), ctag |-> disk, own |-> FALSE,
                   deleted |-> FALSE]
      /\ UNCHANGED <<remotes, token, disk, recent, queue, todo, cur, item, answer, staged, call, bounds,
                     known, shown, yielded, unseen, late>>
  BY DEF SendNew
<1>2. /\ cur \in DOMAIN rows /\ Fits(item, log) /\ item \in Row /\ item.type = "local"
      /\ item.id \in Ids
  BY <1>1 DEF Inv, Numbered, AtHand, TypeOK, Row
<1>3. entry.id = item.id /\ item.id # "old"
  BY <1>1, <1>2 DEF Served, Known, Fits
<1>4. Dead(log) /\ (item.id = "local" => log["new"] = << >>) /\ log["local"] = << >> /\ log["old"] # << >>
  BY <1>3 DEF Inv, Numbered, Logs
<1>5. /\ log \in [Ids -> Seq(Contents)] /\ disk \in Contents /\ "new" \in Ids /\ "old" \in Ids
      /\ "local" \in Ids /\ DOMAIN log = Ids
  BY DEF Inv, TypeOK, Ids
<1>6. base \in Seq(Contents) /\ (item.id = "local" => base = log["old"]) /\ Len(log["new"]) <= Len(base)
  <2>1. Len(log["new"]) \in Nat /\ Len(log["old"]) \in Nat
    BY <1>5
  <2>2. log["new"] = << >> => Len(log["new"]) = 0
    OBVIOUS
  <2> QED BY <1>4, <1>5, <2>1, <2>2 DEF Etag
<1> HIDE DEF base
<1>7. /\ log'["new"] = Append(base, disk)
      /\ \A i \in Ids : i # "new" => log'[i] = log[i]
      /\ log' \in [Ids -> Seq(Contents)]
  <2>1. Append(base, disk) \in Seq(Contents)
    BY <1>5, <1>6
  <2> QED BY <1>1, <1>5, <2>1
<1>8. /\ Len(log'["new"]) = Len(base) + 1 /\ Len(base) \in Nat /\ log'["new"] # << >>
      /\ DOMAIN log'["new"] = 1..(Len(base) + 1)
  <2>1. base \in Seq(Contents) /\ disk \in Contents
    BY <1>5, <1>6
  <2>2. /\ Len(Append(base, disk)) = Len(base) + 1 /\ Len(base) \in Nat
        /\ DOMAIN Append(base, disk) = 1..(Len(base) + 1) /\ Append(base, disk) # << >>
    BY <2>1
  <2> QED BY <1>7, <2>2
<1>9. Grown(log, log')
  <2>1. \A i \in Ids : Len(log[i]) <= Len(log'[i])
    BY <1>5, <1>6, <1>7, <1>8
  <2> QED BY <1>5, <1>7, <2>1 DEF Grown, Dead
<1>10. \A r \in DOMAIN rows :
         rows'[r] = [rows[r] EXCEPT !.id = IF @ = item.id THEN "new" ELSE @,
                                    !.status = IF r = cur THEN "processing" ELSE @]
  BY DEF SendNew
<1>11. ASSUME NEW r \in DOMAIN rows
       PROVE  /\ rows'[r] \in Row /\ rows'[r].type = rows[r].type /\ rows'[r].op = rows[r].op
              /\ rows'[r].etag = rows[r].etag
              /\ rows'[r].id = IF rows[r].id = item.id THEN "new" ELSE rows[r].id
  <2> DEFINE i == IF rows[r].id = item.id THEN "new" ELSE rows[r].id
             st == IF r = cur THEN "processing" ELSE rows[r].status
  <2>1. rows[r] \in Row
    BY Types DEF Inv
  <2>2. rows'[r] = [rows[r] EXCEPT !.id = i, !.status = st]
    BY <1>10
  <2>3. i \in Ids /\ st \in {"new", "validated", "processing", "done", "error", "conflicted",
                              "cancelled", "gone"}
    BY <1>5, <2>1 DEF Row
  <2>4. i = IF rows[r].id = item.id THEN "new" ELSE rows[r].id
    OBVIOUS
  <2> HIDE DEF i, st
  <2>5. /\ rows'[r] \in Row /\ rows'[r].type = rows[r].type /\ rows'[r].op = rows[r].op
        /\ rows'[r].etag = rows[r].etag /\ rows'[r].id = i
    BY <2>1, <2>2, <2>3 DEF Row
  <2> QED BY <2>4, <2>5
<1>12. rows' \in Seq(Row) /\ Len(rows') = Len(rows) /\ DOMAIN rows' = DOMAIN rows
  <2>1. DOMAIN rows' = DOMAIN rows /\ rows' = [r \in DOMAIN rows |-> rows'[r]]
    BY DEF SendNew
  <2>2. DOMAIN rows = 1..Len(rows) /\ Len(rows) \in Nat
    BY Types DEF Inv
  <2>3. rows' \in [1..Len(rows) -> Row]
    BY <1>11, <2>1, <2>2
  <2> QED BY <2>2, <2>3
<1>13. ASSUME NEW r \in DOMAIN rows
       PROVE  Fits(rows'[r], log')
  <2>1. rows[r] \in Row /\ Fits(rows[r], log)
    BY Types DEF Inv, Numbered
  <2>2. Fits(rows[r], log')
    BY <1>7, <1>9, <2>1, FitsStay
  <2>3. CASE rows[r].id # item.id
    BY <1>11, <2>2, <2>3 DEF Fits
  <2>4. CASE rows[r].id = item.id
    <3>1. rows'[r].id = "new" /\ rows[r].etag \in DOMAIN log[Home(item.id)]
      BY <1>11, <2>1, <2>4 DEF Fits
    <3>2. DOMAIN log[Home(item.id)] \subseteq DOMAIN log'["new"]
      <4>1. CASE item.id = "local"
        BY <1>5, <1>6, <1>8, <4>1 DEF Home
      <4>2. CASE item.id = "new"
        BY <1>5, <1>7, <1>9, <4>2, FitsStay DEF Home
      <4> QED BY <1>2, <1>3, <4>1, <4>2 DEF Ids
    <3>3. rows'[r].etag \in DOMAIN log'[Home("new")]
      BY <1>11, <3>1, <3>2 DEF Home
    <3> QED BY <3>1, <3>3 DEF Fits
  <2> QED BY <2>3, <2>4
<1>14. \A i \in Ids : token'[i] <= Len(log'[i])
  <2>1. ASSUME NEW i \in Ids
        PROVE  token'[i] <= Len(log'[i])
    <3>1. token[i] <= Len(log[i]) /\ Len(log[i]) <= Len(log'[i]) /\ token[i] \in Nat
            /\ log[i] \in Seq(Contents) /\ log'[i] \in Seq(Contents)
      BY <1>7, <1>9 DEF Grown, Inv, TypeOK
    <3> QED BY <1>1, <3>1
  <2> QED BY <2>1
<1>15. entry' \in Entry /\ entry'.id = "new" /\ entry'.etag \in DOMAIN log'["new"]
  <2>1. disk \in Nat /\ Len(log'["new"]) \in Nat
    BY <1>5, <1>8, Types DEF Inv
  <2> QED BY <1>1, <1>5, <1>8, <2>1 DEF Entry, Tag
<1>16. applied' \subseteq Contents
  BY <1>5 DEF SendNew, Inv, TypeOK
<1> USE DEF bounds
<1>17. TypeOK'
  BY <1>1, <1>7, <1>12, <1>14, <1>15, <1>16 DEF Inv, TypeOK, Contents
<1>18. AtHand'
  <2>1. Fits(item, log')
    BY <1>2, <1>7, <1>9, FitsStay
  <2> QED BY <1>1, <1>2, <1>12, <2>1 DEF AtHand
<1>19. Logs'
  BY <1>4, <1>5, <1>7, <1>8, <1>15 DEF Logs, Dead, Home
<1>20. /\ Len(rows) <= Len(rows') /\ "local" \notin queue' /\ todo' = todo /\ call' = call
       /\ \A r \in DOMAIN rows' : Fits(rows'[r], log')
  <2>1. Len(rows) \in Nat
    BY Types DEF Inv
  <2>2. "local" \notin queue' /\ todo' = todo /\ call' = call
    BY <1>1 DEF Inv, Numbered
  <2> QED BY <1>12, <1>13, <2>1, <2>2
<1> QED BY <1>9, <1>17, <1>18, <1>19, <1>20, NumberedStays DEF Inv

\* The delta's rows fit, and those of two lists fit in one.
LEMMA ReportedFits ==
    ASSUME Inv, NEW id \in {"old", "new"}
    PROVE  Reported(id) \in Seq(Row) /\ \A r \in DOMAIN Reported(id) : Fits(Reported(id)[r], log)
<1>1. CASE Etag(id) = token[id] \/ Detected(id) = "none"
  <2>1. Reported(id) = << >>
    BY <1>1 DEF Reported
  <2> QED BY <2>1
<1>2. CASE ~(Etag(id) = token[id] \/ Detected(id) = "none")
  <2> DEFINE x == NewRow("remote", Detected(id), id, Etag(id))
  <2>1. Reported(id) = <<x>>
    BY <1>2 DEF Reported
  <2>2. id \in Ids /\ log[id] \in Seq(Nat) /\ token[id] \in Nat /\ token[id] <= Len(log[id])
    BY Types DEF Ids, Inv, TypeOK
  <2>3. Etag(id) \in 1..Len(log[id]) /\ Etag(id) \in Nat
    BY <1>2, <2>2 DEF Etag
  <2>4. Detected(id) \in {"delete", "create", "update"}
    BY <1>2 DEF Detected
  <2>5. x \in Row /\ x.type = "remote" /\ x.op = Detected(id) /\ x.id = id /\ x.etag = Etag(id)
    BY <2>2, <2>3, <2>4, Records
  <2>6. Detected(id) = "delete" /\ id = "old" => Dead(log)
    <3>1. Detected(id) = "delete" => ~Exists(id)
      BY DEF Detected
    <3>2. log["old"] # << >>
      BY DEF Inv, Numbered, Logs
    <3> QED BY <3>1, <3>2 DEF Exists, Top, Dead
  <2> HIDE DEF x
  <2>7. Fits(x, log)
    BY <2>2, <2>3, <2>5, <2>6 DEF Fits, Home
  <2> QED BY <2>1, <2>5, <2>7
<1> QED BY <1>1, <1>2

\* Rows that are joined are about the versions they were about.
LEMMA JoinFits ==
    ASSUME NEW s \in Seq(Row), NEW t \in Seq(Row),
           \A r \in DOMAIN s : Fits(s[r], log), \A r \in DOMAIN t : Fits(t[r], log)
    PROVE  /\ s \o t \in Seq(Row) /\ \A r \in DOMAIN (s \o t) : Fits((s \o t)[r], log)
           /\ Len(s) <= Len(s \o t)
<1>1. /\ s \o t \in Seq(Row) /\ Len(s \o t) = Len(s) + Len(t)
      /\ Len(s) \in Nat /\ Len(t) \in Nat
      /\ DOMAIN s = 1..Len(s) /\ DOMAIN t = 1..Len(t) /\ DOMAIN (s \o t) = 1..(Len(s) + Len(t))
      /\ \A r \in 1..(Len(s) + Len(t)) : (s \o t)[r] = IF r <= Len(s) THEN s[r] ELSE t[r - Len(s)]
  OBVIOUS
<1>2. ASSUME NEW r \in DOMAIN (s \o t)
      PROVE  Fits((s \o t)[r], log)
  <2>1. CASE r <= Len(s)
    BY <1>1, <2>1
  <2>2. CASE ~(r <= Len(s))
    <3>1. r - Len(s) \in 1..Len(t)
      BY <1>1, <2>2
    <3> QED BY <1>1, <2>2, <3>1
  <2> QED BY <2>1, <2>2
<1> QED BY <1>1, <1>2

\* Squashing changes a status, or turns a row into a create beside another one.
LEMMA SquashedFits ==
    ASSUME NEW t \in Seq(Row), \A r \in DOMAIN t : Fits(t[r], log)
    PROVE  /\ Squashed(t) \in Seq(Row) /\ Len(Squashed(t)) = Len(t)
           /\ \A r \in DOMAIN t : Fits(Squashed(t)[r], log)
<1> DEFINE Of(id) == {r \in DOMAIN t : t[r].type = "local" /\ t[r].id = id
                                         /\ t[r].status \notin {"done", "gone"}}
           Open(id) == \E r \in Of(id) : t[r].status \in {"new", "validated", "error"}
           Keep == UNION {IF Open(id) THEN Kept(t, Of(id)) ELSE Of(id) : id \in Ids}
           Creates(r) == \E s \in Of(t[r].id) : t[s].op = "create"
           y(r) == IF t[r].status = "done" \/ (t[r].type = "local" /\ r \notin Keep)
                   THEN [t[r] EXCEPT !.status = "gone"]
                   ELSE IF t[r].type = "local" /\ Open(t[r].id) /\ Creates(r)
                   THEN [t[r] EXCEPT !.op = "create"] ELSE t[r]
<1>1. Squashed(t) = [r \in DOMAIN t |-> y(r)]
  BY DEF Squashed
<1>2. ASSUME NEW r \in DOMAIN t
      PROVE  y(r) \in Row /\ Fits(y(r), log)
  <2>1. t[r] \in Row /\ Fits(t[r], log)
    OBVIOUS
  <2>2. CASE y(r) = t[r]
    BY <2>1, <2>2
  <2>3. CASE y(r) = [t[r] EXCEPT !.status = "gone"]
    <3>1. /\ y(r) \in Row /\ y(r).type = t[r].type /\ y(r).op = t[r].op
          /\ y(r).id = t[r].id /\ y(r).etag = t[r].etag
      BY <2>1, <2>3 DEF Row
    <3> QED BY <2>1, <3>1 DEF Fits
  <2>4. CASE y(r) = [t[r] EXCEPT !.op = "create"] /\ t[r].type = "local" /\ Creates(r)
    <3>1. /\ y(r) \in Row /\ y(r).type = t[r].type /\ y(r).op = "create"
          /\ y(r).id = t[r].id /\ y(r).etag = t[r].etag
      BY <2>1, <2>4 DEF Row
    <3>2. PICK s \in DOMAIN t : t[s].type = "local" /\ t[s].id = t[r].id /\ t[s].op = "create"
      BY <2>4
    <3>3. t[r].id # "old"
      BY <3>2 DEF Fits
    <3> HIDE DEF y
    <3> QED BY <2>1, <2>4, <3>1, <3>3 DEF Fits
  <2> QED BY <2>2, <2>3, <2>4
<1> HIDE DEF y
<1>3. DOMAIN t = 1..Len(t) /\ Len(t) \in Nat
  OBVIOUS
<1>4. Squashed(t) \in [1..Len(t) -> Row]
  BY <1>1, <1>2, <1>3
<1> QED BY <1>1, <1>2, <1>3, <1>4

\* A cycle starts: the remote changes become rows, and all rows are squashed.
LEMMA StartInv == Inv /\ Start => Inv'
<1> SUFFICES ASSUME Inv, Start PROVE Inv'
  OBVIOUS
<1> DEFINE t == rows \o Reported("old") \o Reported("new")
<1>1. /\ rows' = Squashed(t) /\ todo' = Listed(rows') /\ pc' = "listed"
      /\ token' = [id \in Ids |-> Etag(id)]
      /\ UNCHANGED <<onedrive, entry, disk, recent, queue, cur, item, answer, staged,
                     call, bounds, history>>
  BY DEF Start
<1>2. t \in Seq(Row) /\ Len(rows) <= Len(t) /\ \A r \in DOMAIN t : Fits(t[r], log)
  <2> DEFINE a == Reported("old")
             b == Reported("new")
  <2>1. /\ a \in Seq(Row) /\ \A r \in DOMAIN a : Fits(a[r], log)
        /\ b \in Seq(Row) /\ \A r \in DOMAIN b : Fits(b[r], log)
        /\ rows \in Seq(Row) /\ \A r \in DOMAIN rows : Fits(rows[r], log)
    BY ReportedFits DEF Inv, TypeOK, Numbered
  <2>2. t = (rows \o a) \o b
    OBVIOUS
  <2> HIDE DEF a, b, t
  <2> DEFINE s == rows \o a
  <2>3. s \in Seq(Row) /\ (\A r \in DOMAIN s : Fits(s[r], log)) /\ Len(rows) <= Len(s)
    BY <2>1, JoinFits
  <2>4. t = s \o b
    BY <2>2
  <2> HIDE DEF s
  <2>5. t \in Seq(Row) /\ (\A r \in DOMAIN t : Fits(t[r], log)) /\ Len(s) <= Len(t)
    BY <2>1, <2>3, <2>4, JoinFits
  <2>6. Len(rows) \in Nat /\ Len(s) \in Nat /\ Len(t) \in Nat
    BY <2>1, <2>3, <2>5
  <2> QED BY <2>3, <2>5, <2>6
<1> HIDE DEF t
<1>3. /\ rows' \in Seq(Row) /\ Len(rows') = Len(t) /\ DOMAIN rows' = DOMAIN t
      /\ \A r \in DOMAIN rows' : Fits(rows'[r], log)
  <2>1. /\ Squashed(t) \in Seq(Row) /\ Len(Squashed(t)) = Len(t)
        /\ \A r \in DOMAIN t : Fits(Squashed(t)[r], log)
    BY <1>2, SquashedFits
  <2>2. DOMAIN Squashed(t) = DOMAIN t
    BY <1>2, <2>1
  <2> QED BY <1>1, <2>1, <2>2
<1>4. DOMAIN rows \subseteq DOMAIN rows' /\ DOMAIN rows' \subseteq Nat
  BY <1>2, <1>3, Types DEF Inv
<1>5. \A x \in todo' : /\ x.at \in DOMAIN rows' /\ x.row = rows'[x.at] /\ x.row.type = "remote"
                       /\ x = [at |-> x.at, row |-> x.row]
  BY <1>1 DEF Listed
<1>6. todo' \subseteq [at : Nat, row : Row]
  <2>1. ASSUME NEW x \in todo'
        PROVE  x \in [at : Nat, row : Row]
    <3>1. x = [at |-> x.at, row |-> x.row] /\ x.at \in Nat /\ x.row \in Row
      BY <1>3, <1>4, <1>5
    <3> QED BY <3>1
  <2> QED BY <2>1
<1>7. token' \in [Ids -> Nat] /\ \A id \in Ids : token'[id] <= Len(log[id])
  <2>1. \A id \in Ids : Len(log[id]) \in Nat
    BY Types DEF Inv
  <2> QED BY <1>1, <2>1 DEF Etag
<1> USE DEF onedrive, bounds, history
<1>8. TypeOK'
  BY <1>1, <1>3, <1>4, <1>6, <1>7 DEF Inv, TypeOK, Contents
<1>9. AtHand' /\ Logs'
  BY <1>1 DEF AtHand, Inv, Numbered, Logs
<1>10. /\ Len(rows) <= Len(rows') /\ "local" \notin queue' /\ call' = call /\ log' = log
       /\ Grown(log, log')
  BY <1>1, <1>2, <1>3, SameGrown DEF Inv, Numbered
<1>11. \A x \in todo' : x.at \in DOMAIN rows' /\ Fits(x.row, log') /\ x.row.type = "remote"
  BY <1>3, <1>5, <1>10
<1>12. \A r \in DOMAIN rows' : Fits(rows'[r], log')
  BY <1>3, <1>10
<1> QED BY <1>8, <1>9, <1>10, <1>11, <1>12, NumberedStays DEF Inv

\* At the start both sides have the same version and there is no row.
LEMMA InitInv == Init => Inv
<1> SUFFICES ASSUME Init PROVE Inv
  OBVIOUS
<1>1. /\ "old" \in Ids /\ "local" \in Ids /\ "new" \in Ids
      /\ log = [id \in Ids |-> IF id = "old" THEN <<1>> ELSE << >>]
      /\ token = [id \in Ids |-> IF id = "old" THEN 1 ELSE 0]
      /\ known = <<{1}>> /\ rows = << >> /\ todo = {} /\ pc = "idle"
      /\ call = [c \in Calls |-> NoCall]
  BY DEF Init, Ids
<1>2. Contents = 0..1 /\ known \in Seq(SUBSET Nat) /\ \A n \in DOMAIN known : known[n] \subseteq DOMAIN known
  BY <1>1 DEF Contents
<1>3. <<1>> \in Seq(0..1) /\ Len(<<1>>) = 1 /\ Len(<< >>) = 0 /\ << >> \in Seq(0..1)
  OBVIOUS
<1>4. log \in [Ids -> Seq(Contents)] /\ \A id \in Ids : token[id] <= Len(log[id])
  <2>1. \A id \in Ids : log[id] \in Seq(0..1)
    BY <1>1, <1>3
  <2>2. log \in [Ids -> Seq(0..1)]
    BY <1>1, <2>1
  <2>3. ASSUME NEW id \in Ids
        PROVE  token[id] <= Len(log[id])
    <3>1. CASE id = "old"
      BY <1>1, <1>3, <3>1
    <3>2. CASE id # "old"
      <4>1. token[id] = 0 /\ log[id] = << >>
        BY <1>1, <3>2
      <4> QED BY <4>1, <1>3
    <3> QED BY <3>1, <3>2
  <2> QED BY <1>2, <2>2, <2>3
<1>5. entry \in Entry /\ entry.id = "old" /\ entry.etag = 1
  BY <1>1 DEF Init, Entry, Tag
<1>6. NoRow \in Row /\ NoAnswer \in Entry /\ NoCall \in Call /\ NoCall.pc = "idle"
  BY Records
<1>7. TypeOK
  BY <1>1, <1>2, <1>4, <1>5, <1>6, SizesAssumption DEF TypeOK, Init
<1>8. Logs
  BY <1>1, <1>3, <1>5 DEF Logs, Home
<1>9. \A c \in Calls : Asked(call[c], Len(rows), log)
  BY <1>1, <1>6 DEF Asked
<1> QED BY <1>1, <1>7, <1>8, <1>9 DEF Inv, Numbered, AtHand, Init

\* Every step keeps the types and the numbers.
LEMMA NextInv == Inv /\ [Next]_vars => Inv'
<1> SUFFICES ASSUME Inv, [Next]_vars PROVE Inv'
  OBVIOUS
<1>1. CASE RemoteEdit \/ User \/ TimePasses \/ DayPasses \/ Crash
  BY <1>1, RemoteEditInv, UserInv, TimePassesInv, DayPassesInv, CrashInv
<1>2. CASE Cycle
  BY <1>2, StartInv, CheckRemoteInv, ParkInv, ApplyInv, FinishRowInv, CheckLocalInv, PanicsInv,
     RefusedInv, SendInv, StoreAnswerInv, SendNewInv, DownloadsInv, FetchContentInv, MoveToLocalInv
     DEF Cycle
<1>3. ASSUME NEW c \in Calls, Answer(c)
      PROVE  Inv'
  BY <1>3, CancelInv, RequeueInv, RenameEntryInv DEF Answer
<1>4. ASSUME NEW c \in Calls, NEW r \in shown, NEW choice \in Choices, Ask(c, r, choice)
      PROVE  Inv'
  BY <1>4, AskInv
<1>5. CASE UNCHANGED vars
  BY <1>5, StutterInv
<1> QED BY <1>1, <1>2, <1>3, <1>4, <1>5 DEF Next

\* Every version the rows, the table and the calls speak of is one there is.
THEOREM Invariance == Spec => []Inv
BY InitInv, NextInv, PTL DEF Spec

\* Every variable keeps its type, for every number of changes and calls.
THEOREM TypeCorrect == Spec => []TypeOK
<1>1. Inv => TypeOK
  BY DEF Inv
<1> QED BY <1>1, Invariance, PTL

-----------------------------------------------------------------------------
\* Two answers to one conflict.

Pair(x) == {x.win, x.lose}
\* Calls that have cancelled a loser and queued a winner.
Past == {"rename", "returned", "crossed"}

\* OneSideKept, with the calls that are about to return: it becomes true with
\* the last Requeue, whose winner is new again, and no other call is left then
\* that could cancel it.
OneSide ==
    (\A c, d \in Calls : call[c].pc \in Past /\ Pair(call[c]) = Pair(call[d])) =>
        \A c \in Calls : \E r \in Pair(call[c]) : rows[r].status # "cancelled"

\* No row is cancelled by the step.
Uncancelled ==
    /\ DOMAIN rows \subseteq DOMAIN rows'
    /\ \A r \in DOMAIN rows : rows[r].status # "cancelled" => rows'[r].status # "cancelled"

\* A row that gets another status, not that of a cancelled one.
LEMMA RestatedUncancelled ==
    ASSUME Inv, NEW r \in DOMAIN rows, NEW status, status # "cancelled", Restated(r, status)
    PROVE  Uncancelled
<1>1. DOMAIN rows' = DOMAIN rows
  BY Types DEF Restated, Inv
<1>2. ASSUME NEW q \in DOMAIN rows, rows[q].status # "cancelled"
      PROVE  rows'[q].status # "cancelled"
  <2>1. CASE q # r
    BY <1>2, <2>1 DEF Restated
  <2>2. CASE q = r
    BY <1>2, <2>2 DEF Restated
  <2> QED BY <2>1, <2>2
<1> QED BY <1>1, <1>2 DEF Uncancelled

\* Squashing cancels no row.
LEMMA SquashedUncancelled ==
    ASSUME NEW t \in Seq(Row), NEW r \in DOMAIN t, t[r].status # "cancelled"
    PROVE  Squashed(t)[r].status # "cancelled"
<1> DEFINE x == Squashed(t)[r]
<1>1. x = t[r] \/ x = [t[r] EXCEPT !.status = "gone"] \/ x = [t[r] EXCEPT !.op = "create"]
  BY DEF Squashed
<1>2. t[r] \in Row
  OBVIOUS
<1> HIDE DEF x
<1>3. [t[r] EXCEPT !.status = "gone"].status = "gone"
        /\ [t[r] EXCEPT !.op = "create"].status = t[r].status
  BY <1>2 DEF Row
<1>4. x.status # "cancelled"
  BY <1>1, <1>3
<1> QED BY <1>4 DEF x

\* Only a call cancels.
LEMMA CycleUncancelled == Inv /\ Cycle => Uncancelled
<1> SUFFICES ASSUME Inv, Cycle PROVE Uncancelled
  OBVIOUS
<1>1. CASE Start
  <2> DEFINE t == rows \o (Reported("old") \o Reported("new"))
  <2>1. /\ rows \in Seq(Row) /\ Reported("old") \in Seq(Row) /\ Reported("new") \in Seq(Row)
    BY ReportedFits DEF Inv, TypeOK
  <2>2. t \in Seq(Row) /\ DOMAIN rows \subseteq DOMAIN t /\ \A r \in DOMAIN rows : t[r] = rows[r]
    <3>1. \A s \in Seq(Row) : rows \o s \in Seq(Row) /\ DOMAIN rows \subseteq DOMAIN (rows \o s)
                                /\ \A r \in DOMAIN rows : (rows \o s)[r] = rows[r]
      BY <2>1
    <3>2. Reported("old") \o Reported("new") \in Seq(Row)
      BY <2>1
    <3> QED BY <3>1, <3>2
  <2>3. rows' = Squashed(t)
    <3>1. (rows \o Reported("old")) \o Reported("new") = t
      BY <2>1
    <3> QED BY <1>1, <3>1 DEF Start
  <2> HIDE DEF t
  <2>4. DOMAIN Squashed(t) = DOMAIN t
    BY DEF Squashed
  <2> QED BY <2>2, <2>3, <2>4, SquashedUncancelled DEF Uncancelled
<1>2. CASE CheckRemote
  <2>1. PICK x \in todo, next \in {"park", "apply"} : Begin(x.at, x.row, next)
    BY <1>2 DEF CheckRemote
  <2>2. x.at \in DOMAIN rows /\ x.row \in Row
    BY DEF Inv, Numbered, TypeOK
  <2>3. Restated(x.at, IF next = "park" THEN "conflicted" ELSE "validated")
    BY <2>1, <2>2, BeginRestates DEF Inv
  <2> QED BY <2>2, <2>3, RestatedUncancelled
<1>3. CASE CheckLocal
  <2> DEFINE r == First(Selectable)
  <2>1. PICK next \in {"park", "begun"} : Begin(r, rows[r], next)
    BY <1>3 DEF CheckLocal
  <2>2. Selectable # {} /\ Selectable \subseteq DOMAIN rows /\ DOMAIN rows \subseteq Nat
    BY <1>3, Types DEF CheckLocal, Selectable, Inv
  <2>3. r \in DOMAIN rows /\ rows[r] \in Row
    BY <2>2, FirstIsLeast, Types DEF Inv
  <2> HIDE DEF r
  <2>4. Restated(r, IF next = "park" THEN "conflicted" ELSE "validated")
    BY <2>1, <2>3, BeginRestates DEF Inv
  <2> QED BY <2>3, <2>4, RestatedUncancelled
<1>4. CASE Park \/ Panics
  <2>1. cur \in DOMAIN rows /\ rows[cur] \in Row /\ rows \in Seq(Row)
    BY <1>4, Types DEF Inv, Numbered, AtHand, Park, Panics, TypeOK
  <2> DEFINE a == [rows[cur] EXCEPT !.parked = TRUE]
             b == [rows[cur] EXCEPT !.status = "processing"]
  <2>2. a.status = rows[cur].status /\ b.status = "processing"
    BY <2>1 DEF Row
  <2>3. \/ rows' = rows
        \/ rows' = [rows EXCEPT ![cur] = a]
        \/ rows' = [rows EXCEPT ![cur] = b]
    BY <1>4 DEF Park, Panics
  <2> HIDE DEF a, b
  <2>4. CASE rows' = rows
    BY <2>4 DEF Uncancelled
  <2>5. ASSUME NEW x, x.status \in {rows[cur].status, "processing"}, rows' = [rows EXCEPT ![cur] = x]
        PROVE  Uncancelled
    BY <2>1, <2>5 DEF Uncancelled
  <2> QED BY <2>2, <2>3, <2>4, <2>5
<1>5. CASE Apply \/ FinishRow \/ Refused \/ Send
  <2>1. \E status \in {"processing", "done", "error"} : SetStatus(cur, status)
    BY <1>5 DEF Apply, FinishRow, Refused, RowError, Send
  <2>2. cur \in DOMAIN rows
    BY <1>5 DEF Inv, Numbered, AtHand, Apply, FinishRow, Refused, Send
  <2>3. \E status \in {"processing", "done", "error"} : Restated(cur, status)
    BY <2>1, <2>2, SetStatusRestates DEF Inv
  <2> QED BY <2>2, <2>3, RestatedUncancelled
<1>6. CASE SendNew
  <2>1. DOMAIN rows' = DOMAIN rows
    BY <1>6 DEF SendNew
  <2>2. ASSUME NEW r \in DOMAIN rows
        PROVE  rows'[r].status = IF r = cur THEN "processing" ELSE rows[r].status
    <3>1. rows[r] \in Row
      BY Types DEF Inv
    <3>2. rows'[r] = [rows[r] EXCEPT !.id = IF @ = item.id THEN "new" ELSE @,
                                     !.status = IF r = cur THEN "processing" ELSE @]
      BY <1>6 DEF SendNew
    <3> QED BY <3>1, <3>2 DEF Row
  <2> QED BY <2>1, <2>2 DEF Uncancelled
<1>7. CASE StoreAnswer \/ Downloads \/ FetchContent \/ MoveToLocal
  BY <1>7 DEF StoreAnswer, Downloads, FetchContent, MoveToLocal, table, Uncancelled
<1> QED BY <1>1, <1>2, <1>3, <1>4, <1>5, <1>6, <1>7 DEF Cycle

\* The steps of others and the passing of time cancel no row.
LEMMA OthersUncancelled ==
    Inv /\ (RemoteEdit \/ User \/ TimePasses \/ DayPasses) => Uncancelled
<1> SUFFICES ASSUME Inv, RemoteEdit \/ User \/ TimePasses \/ DayPasses PROVE Uncancelled
  OBVIOUS
<1>1. CASE RemoteEdit \/ TimePasses
  BY <1>1 DEF RemoteEdit, TimePasses, table, Uncancelled
<1>2. CASE User
  <2>1. \E x : rows' = Append(rows, x)
    BY <1>2 DEF User, Write, Unlink, Rename, LocalChange
  <2>2. rows \in Seq(Row)
    BY DEF Inv, TypeOK
  <2>3. DOMAIN rows \subseteq DOMAIN rows' /\ \A r \in DOMAIN rows : rows'[r] = rows[r]
    BY <2>1, <2>2
  <2> QED BY <2>3 DEF Uncancelled
<1>3. CASE DayPasses
  <2>1. DOMAIN rows' = DOMAIN rows
    BY <1>3 DEF DayPasses
  <2>2. ASSUME NEW r \in DOMAIN rows
        PROVE  rows'[r].status = rows[r].status
    <3>1. rows[r] \in Row /\ rows'[r] = [rows[r] EXCEPT !.parked = FALSE]
      BY <1>3, Types DEF Inv, DayPasses
    <3> QED BY <3>1 DEF Row
  <2> QED BY <2>1, <2>2 DEF Uncancelled
<1> QED BY <1>1, <1>2, <1>3

\* A step that cancels nothing, and under which no call comes to be past.
LEMMA OneSideStays ==
    ASSUME Inv, OneSide, Uncancelled,
           \A c \in Calls : call'[c].pc \in Past =>
               /\ call[c].pc \in Past /\ call'[c].win = call[c].win /\ call'[c].lose = call[c].lose
    PROVE  OneSide'
<1> SUFFICES ASSUME \A c, d \in Calls : call'[c].pc \in Past /\ Pair(call'[c]) = Pair(call'[d]),
                    NEW c \in Calls
             PROVE  \E r \in Pair(call'[c]) : rows'[r].status # "cancelled"
  BY DEF OneSide
<1>1. \A d \in Calls : call[d].pc \in Past /\ Pair(call'[d]) = Pair(call[d])
  BY DEF Pair
<1>2. PICK r \in Pair(call[c]) : rows[r].status # "cancelled"
  BY <1>1 DEF OneSide
<1>3. r \in DOMAIN rows
  <2>1. Asked(call[c], Len(rows), log) /\ call[c].pc \in Past /\ DOMAIN rows = 1..Len(rows)
    BY <1>1, Types DEF Inv, Numbered
  <2> QED BY <2>1 DEF Asked, Past, Pair
<1> QED BY <1>1, <1>2, <1>3 DEF Uncancelled

\* No step leaves both sides of a conflict cancelled.
LEMMA OneSideNext == Inv /\ OneSide /\ [Next]_vars => OneSide'
<1> SUFFICES ASSUME Inv, OneSide, [Next]_vars PROVE OneSide'
  OBVIOUS
<1>1. call \in [Calls -> Call] /\ \A c \in Calls : call[c] \in Call
  BY DEF Inv, TypeOK
<1>2. CASE UNCHANGED call /\ Uncancelled
  BY <1>2, OneSideStays
<1>3. CASE RemoteEdit \/ User \/ TimePasses \/ DayPasses \/ Cycle
  <2>1. UNCHANGED call
    BY <1>3 DEF RemoteEdit, User, Write, Unlink, Rename, LocalChange, TimePasses, DayPasses, Cycle,
       Start, CheckRemote, Park, Apply, FinishRow, CheckLocal, Panics, Refused, Send, StoreAnswer,
       SendNew, Downloads, FetchContent, MoveToLocal
  <2> QED BY <1>2, <1>3, <2>1, CycleUncancelled, OthersUncancelled
<1>4. CASE UNCHANGED vars
  BY <1>2, <1>4 DEF vars, table, Uncancelled
<1>5. CASE Crash
  <2>1. Uncancelled
    BY <1>5 DEF Crash, table, Uncancelled
  <2>2. \A c \in Calls : call'[c] = IF call[c].pc \in AtWork
                                    THEN [Returned(call[c]) EXCEPT !.pc = "killed"] ELSE call[c]
    BY <1>5 DEF Crash
  <2>3. \A c \in Calls : call'[c] = call[c] \/ call'[c].pc = "killed"
    <3>1. ASSUME NEW c \in Calls, call[c].pc \in AtWork
          PROVE  call'[c].pc = "killed"
      <4>1. call'[c] = [Returned(call[c]) EXCEPT !.pc = "killed"] /\ call[c] \in Call
        BY <1>1, <2>2, <3>1
      <4>2. Returned(call[c]) \in Call
        BY <4>1, ReturnedCall
      <4> QED BY <4>1, <4>2 DEF Call
    <3> QED BY <2>2, <3>1
  <2> QED BY <2>1, <2>3, OneSideStays DEF Past
<1>6. ASSUME NEW c \in Calls, NEW r \in shown, NEW choice \in Choices, Ask(c, r, choice)
      PROVE  OneSide'
  <2>1. Uncancelled
    BY <1>6 DEF Ask, table, Uncancelled
  <2>2. \E y : y.pc = "cancel" /\ call' = [call EXCEPT ![c] = y]
    <3>1. PICK win \in DOMAIN rows, lose \in DOMAIN rows, row \in Row :
            call' = [call EXCEPT ![c] = [pc |-> "cancel", win |-> win, lose |-> lose, row |-> row,
                                         transformed |-> row # rows[win]]]
      BY <1>6, AskReads
    <3> DEFINE y == [pc |-> "cancel", win |-> win, lose |-> lose, row |-> row,
                     transformed |-> row # rows[win]]
    <3>2. y.pc = "cancel" /\ call' = [call EXCEPT ![c] = y]
      BY <3>1
    <3> QED BY <3>2
  <2>3. \A d \in Calls : call'[d] = call[d] \/ call'[d].pc = "cancel"
    BY <1>1, <2>2
  <2> QED BY <2>1, <2>3, OneSideStays DEF Past
<1>7. ASSUME NEW c \in Calls, Cancel(c)
      PROVE  OneSide'
  <2>1. call' = [call EXCEPT ![c] = [call[c] EXCEPT !.pc = "requeue"]]
    BY <1>7 DEF Cancel
  <2>2. [call[c] EXCEPT !.pc = "requeue"].pc = "requeue"
    BY <1>1 DEF Call
  <2>3. call'[c].pc = "requeue"
    BY <1>1, <2>1, <2>2
  <2> QED BY <2>3 DEF OneSide, Past
<1>8. ASSUME NEW c \in Calls, Requeue(c)
      PROVE  OneSide'
  <2> DEFINE x == call[c]
  <2>1. x.win \in DOMAIN rows /\ x.lose \in DOMAIN rows /\ x.row \in Row /\ x.pc = "requeue"
    BY <1>1, <1>8, Types DEF Inv, Numbered, Asked, Requeue, Call
  <2>2. rows'[x.win].status # "cancelled"
    <3>1. CASE SetStatus(x.win, "new")
      <4>1. Restated(x.win, "new")
        BY <2>1, <3>1, SetStatusRestates DEF Inv
      <4> QED BY <4>1 DEF Restated
    <3>2. CASE rows' = [rows EXCEPT ![x.win] = [x.row EXCEPT !.status = "new", !.parked = FALSE]]
      <4>1. [x.row EXCEPT !.status = "new", !.parked = FALSE].status = "new"
        BY <2>1 DEF Row
      <4> QED BY <2>1, <3>2, <4>1
    <3> QED BY <1>8, <3>1, <3>2 DEF Requeue
  <2>3. call'[c].win = x.win /\ call'[c].lose = x.lose /\ \A d \in Calls : d # c => call'[d] = call[d]
    <3>1. call' = [call EXCEPT ![c] = IF x.row.id = "local" THEN [x EXCEPT !.pc = "rename"]
                                      ELSE Returned(x)]
      BY <1>8 DEF Requeue
    <3>2. [x EXCEPT !.pc = "rename"].win = x.win /\ [x EXCEPT !.pc = "rename"].lose = x.lose
      BY <1>1 DEF Call
    <3>3. Returned(x).win = x.win /\ Returned(x).lose = x.lose
      BY <1>1, ReturnedCall
    <3> QED BY <1>1, <3>1, <3>2, <3>3
  <2> SUFFICES ASSUME \A e, d \in Calls : call'[e].pc \in Past /\ Pair(call'[e]) = Pair(call'[d]),
                      NEW d \in Calls
               PROVE  \E r \in Pair(call'[d]) : rows'[r].status # "cancelled"
    BY DEF OneSide
  <2>4. x.win \in Pair(call'[c]) /\ Pair(call'[c]) = Pair(call'[d])
    BY <2>3 DEF Pair
  <2> QED BY <2>2, <2>4
<1>9. ASSUME NEW c \in Calls, RenameEntry(c)
      PROVE  OneSide'
  <2>1. Uncancelled /\ call[c].pc = "rename"
    BY <1>9 DEF RenameEntry, Uncancelled
  <2>2. \E y : y.win = call[c].win /\ y.lose = call[c].lose /\ call' = [call EXCEPT ![c] = y]
    BY <1>1, <1>9, ReturnedCall DEF RenameEntry
  <2>3. \A d \in Calls : call'[d].win = call[d].win /\ call'[d].lose = call[d].lose
                           /\ (d # c => call'[d] = call[d])
    BY <1>1, <2>2
  <2> QED BY <2>1, <2>3, OneSideStays DEF Past
<1> QED BY <1>3, <1>4, <1>5, <1>6, <1>7, <1>8, <1>9 DEF Next, Answer

\* Two answers to one conflict, however their statements interleave with each
\* other and with the cycle, never leave both its sides cancelled.
THEOREM OneSideIsKept == Spec => []OneSideKept
<1>1. Init => OneSide
  <2>1. ASSUME Init, NEW c \in Calls
        PROVE  call[c].pc = "idle"
    BY <2>1, Records DEF Init
  <2> QED BY <2>1 DEF OneSide, Past
<1>2. OneSide => OneSideKept
  BY DEF OneSide, OneSideKept, Pair, Past
<1> QED BY <1>1, <1>2, OneSideNext, Invariance, PTL DEF Spec

-----------------------------------------------------------------------------
(***************************************************************************)
(* A conflict that is shown can be answered.  Only states in which nobody  *)
(* has answered one matter: then there is one id and no call at work, and  *)
(* a row has a status only at its turn (InTurn).                           *)
(*                                                                         *)
(* What could fail is that the pending local row is sent.  A local row is  *)
(* checked against the first remote row in conflict, which may be another  *)
(* one than that of the conflict, and by its etag.  So no local row has    *)
(* the etag of the first one, unless this is the echo of a change made     *)
(* here and its cycle has not ended yet (Apart).                           *)
(***************************************************************************)

\* The steps at which a row is at hand, and the rows of both sides that matter.
Working == {"park", "apply", "begun", "answered", "closing"}
InConflict == {r \in DOMAIN rows : rows[r].type = "remote" /\ rows[r].status = "conflicted"}
Waiting == {r \in DOMAIN rows : rows[r].type = "local" /\ rows[r].status \in Pending}
Applied(etag) == log["old"][etag] \in applied

\* There are one id and no call, and the cycle has the rows as they are.
Plain ==
    /\ \A c \in Calls : call[c].pc = "idle"
    /\ entry.id = "old"
    /\ \A r \in DOMAIN rows : rows[r].id = "old" /\ rows[r].op # "create"
    /\ \A x \in todo : rows[x.at] = x.row
    /\ pc \in Working => /\ rows[cur].type = item.type /\ rows[cur].op = item.op
                         /\ item.id = "old" /\ rows[cur].etag = item.etag
    /\ pc = "answered" => answer.id = "old"

\* Which statuses there are at which step of the cycle.
InTurn ==
    /\ \A r \in DOMAIN rows :
          /\ rows[r].status # "cancelled"
          /\ rows[r].status = "processing" => r = cur /\ pc \in {"answered", "closing"}
          /\ rows[r].type = "remote" /\ rows[r].status \in {"new", "validated", "error"} =>
                (\E x \in todo : x.at = r) \/ (r = cur /\ pc = "apply")
    /\ todo # {} => pc = "listed" /\ \E x \in todo : todo = {x} /\ x.row.status = "new"
    /\ pc \in {"apply", "begun"} => rows[cur].status = "validated"
    /\ pc \in {"answered", "closing"} => rows[cur].status = "processing"
    /\ pc = "park" => rows[cur].status = "conflicted" /\ cur \in recent /\ InConflict # {}

\* A row that is still to come is newer than those in conflict, and what the
\* entry and the local rows are about has been here.
InOrder ==
    /\ \A r \in DOMAIN rows : rows[r].type = "remote" => rows[r].etag <= token["old"]
    /\ \A f \in InConflict : /\ \A x \in todo : f < x.at /\ rows[f].etag < x.row.etag
                             /\ pc = "apply" => rows[f].etag < item.etag
    /\ pc = "answered" => IF item.op = "delete" THEN Dead(log) ELSE token["old"] < answer.etag
    /\ Applied(entry.etag)
    /\ \A r \in DOMAIN rows : rows[r].type = "local" => Applied(rows[r].etag)

\* The row will be selected in this cycle, or has been.
Ready(r) == (r \notin recent /\ ~rows[r].parked) \/ (r = cur /\ pc = "begun")

\* The entry and the rows that wait are about other versions.
Clear(f) == entry.etag # rows[f].etag /\ \A r \in Waiting : rows[r].etag # rows[f].etag
\* The row in conflict is the echo of a change made here: the local rows of the
\* same version will be sent before the cycle ends.
Echo(f) ==
    /\ InConflict = {f} /\ todo = {} /\ pc \in (Working \ {"apply"}) \union {"listed", "local"}
    /\ \A r \in Waiting : rows[r].etag = rows[f].etag => Ready(r)
    /\ entry.etag = rows[f].etag =>
          \E r \in DOMAIN rows : /\ rows[r].etag = rows[f].etag
                                 /\ r \in Waiting \/ (pc = "answered" /\ r = cur)
\* The first row in conflict, which alone local rows are compared with, is told
\* apart by its etag from whatever may still be sent, or is an echo.
Leads(f) == f \in InConflict /\ \A s \in InConflict : f <= s
Apart ==
    /\ InConflict = {} => \A r \in Waiting : Ready(r)
    /\ InConflict = {} /\ (pc \in {"idle", "downloads", "staged"} \/ todo # {}) =>
          \A r \in Waiting : rows[r].etag = entry.etag
    /\ \A f \in InConflict : Leads(f) => Clear(f) \/ Echo(f)

\* A local row that may be answered with; one that deletes or sends content
\* while the file exists.
Matches == /\ Dead(log) => Waiting # {}
           /\ ~Dead(log) => \E l \in Waiting : rows[l].op \in {"update", "delete"}
\* Each change of another client in conflict has a row to answer with.
Paired == \A r \in InConflict : Applied(rows[r].etag) \/ Matches
\* What is begun while a change is in conflict sends no content.
Spared ==
    pc = "begun" /\ ~Dead(log) /\ (\E f \in InConflict : ~Applied(rows[f].etag))
        => item.op = "rename"

\* The invariant, while nobody has answered a conflict.
Open == Plain /\ InTurn /\ InOrder /\ (Dead(log) \/ Apart) /\ Paired /\ Spared

-----------------------------------------------------------------------------
\* Sets of rows, and what a status does to them.

\* What the types say.
LEMMA Ranges ==
    ASSUME Inv
    PROVE  /\ DOMAIN rows = 1..Len(rows) /\ Len(rows) \in Nat
           /\ \A r \in DOMAIN rows : /\ rows[r] \in Row /\ rows[r].etag \in Nat
                                     /\ rows[r].type \in {"remote", "local"}
           /\ recent \subseteq DOMAIN rows
           /\ log["old"] \in Seq(Nat) /\ token["old"] \in Nat
           /\ token["old"] <= Len(log["old"])
           /\ entry.etag \in Nat /\ item.etag \in Nat /\ answer.etag \in Nat
<1>1. /\ DOMAIN rows = 1..Len(rows) /\ Len(rows) \in Nat /\ log["old"] \in Seq(Nat)
      /\ \A r \in DOMAIN rows : rows[r] \in Row
  BY Types DEF Inv, Ids
<1>2. \A x \in Row : x.etag \in Nat /\ x.type \in {"remote", "local"}
  BY DEF Row, Tag
<1>3. \A x \in Entry : x.etag \in Nat
  BY DEF Entry, Tag
<1>4. token \in [Ids -> Nat] /\ (\A id \in Ids : token[id] <= Len(log[id])) /\ "old" \in Ids
        /\ entry \in Entry /\ item \in Row /\ answer \in Entry /\ recent \subseteq DOMAIN rows
  BY DEF Inv, TypeOK, Ids
<1>5. token["old"] \in Nat /\ token["old"] <= Len(log["old"])
  BY <1>4
<1>6. entry.etag \in Nat /\ item.etag \in Nat /\ answer.etag \in Nat
  BY <1>2, <1>3, <1>4
<1> QED BY <1>1, <1>2, <1>4, <1>5, <1>6

\* The status of row r is s, and the row is recent.
Now(r, s) ==
    /\ DOMAIN rows' = DOMAIN rows /\ recent' = recent \union {r}
    /\ \A q \in DOMAIN rows : q # r => rows'[q] = rows[q]
    /\ rows'[r].type = rows[r].type /\ rows'[r].op = rows[r].op /\ rows'[r].id = rows[r].id
    /\ rows'[r].etag = rows[r].etag /\ rows'[r].status = s

\* Setting the status of a row that is there does so.
LEMMA StatusNow ==
    ASSUME Inv, NEW r \in DOMAIN rows, rows[r].status # "gone",
           NEW s \in {"new", "validated", "processing", "done", "error", "conflicted"},
           SetStatus(r, s)
    PROVE  Now(r, s)
<1>1. Restated(r, s)
  BY SetStatusRestates DEF Inv
<1>2. DOMAIN rows' = DOMAIN rows
  BY <1>1, Types DEF Restated, Inv
<1> QED BY <1>1, <1>2 DEF Restated, SetStatus, Now

\* What it does to the rows in conflict and to those that wait.
LEMMA NowSets ==
    ASSUME NEW r \in DOMAIN rows, NEW s, Now(r, s)
    PROVE  /\ InConflict' = IF rows[r].type = "remote" /\ s = "conflicted"
                            THEN InConflict \union {r} ELSE InConflict \ {r}
           /\ Waiting' = IF rows[r].type = "local" /\ s \in Pending
                         THEN Waiting \union {r} ELSE Waiting \ {r}
BY DEF InConflict, Waiting, Now

\* The pending rows of each side, when no remote row is still to come.
LEMMA PendingRows ==
    ASSUME Inv, Plain, InTurn
    PROVE  /\ PendingOf("old", "local") = Waiting
           /\ InConflict \subseteq PendingOf("old", "remote")
           /\ todo = {} /\ pc # "apply" => PendingOf("old", "remote") = InConflict
BY DEF PendingOf, Waiting, InConflict, Plain, InTurn, Pending

\* A step that leaves the rows and what is known of them alone.
LEMMA SetsStay ==
    ASSUME rows' = rows
    PROVE  InConflict' = InConflict /\ Waiting' = Waiting
BY DEF InConflict, Waiting

-----------------------------------------------------------------------------
\* The steps that leave the cycle where it is, or at rest.

\* Where a cycle has sent what it could.
Rest == {"idle", "downloads", "staged"}

\* The rows have got older.
Aged ==
    /\ DOMAIN rows' = DOMAIN rows /\ recent' \subseteq recent
    /\ \A r \in DOMAIN rows :
          /\ rows'[r].type = rows[r].type /\ rows'[r].op = rows[r].op /\ rows'[r].id = rows[r].id
          /\ rows'[r].etag = rows[r].etag /\ rows'[r].status = rows[r].status
          /\ ~rows[r].parked => ~rows'[r].parked

\* What the steps at rest, and those of a call, leave alone.
Others == <<log, token, entry, call, applied>>
Steps == <<todo, cur, item, answer>>

\* A cycle that comes to rest has sent what was ready.
LEMMA RestOpen ==
    ASSUME Inv, Open, Aged, UNCHANGED Others, UNCHANGED todo,
           pc' \in Rest, pc \in Rest \union {"listed", "local"}, todo = {},
           pc \in {"listed", "local"} => Selectable = {}
    PROVE  Open'
<1> USE DEF Others, Rest
<1>1. InConflict' = InConflict /\ Waiting' = Waiting
  BY DEF Aged, InConflict, Waiting
<1>2. pc \notin Working /\ pc' \notin Working /\ pc \notin {"apply", "answered", "closing", "begun", "park"}
  BY DEF Working
<1>3. Plain'
  BY <1>2 DEF Open, Plain, Aged, Working
<1>4. InTurn'
  BY <1>2 DEF Open, InTurn, Aged
<1>5. InOrder'
  BY <1>1, <1>2 DEF Open, InOrder, Aged, Applied, InConflict
<1>6. \A r \in Waiting : Ready(r) => r \in DOMAIN rows /\ Ready(r)' /\ pc \in Rest
  <2>1. ASSUME NEW r \in Waiting, Ready(r)
        PROVE  r \in DOMAIN rows /\ Ready(r)' /\ pc \in Rest
    <3>1. r \in DOMAIN rows /\ r \notin recent /\ ~rows[r].parked
      BY <1>2, <2>1 DEF Ready, Waiting
    <3>2. Ready(r)'
      BY <3>1 DEF Aged, Ready
    <3>3. pc \in {"listed", "local"} => r \in Selectable
      BY <3>1 DEF Selectable, Waiting
    <3> QED BY <3>1, <3>2, <3>3
  <2> QED BY <2>1
<1>7. ASSUME Apart
      PROVE  Apart'
  <2>1. InConflict' = {} => \A r \in Waiting' : Ready(r)'
    BY <1>1, <1>6, <1>7 DEF Apart
  <2>2. InConflict' = {} => \A r \in Waiting' : rows'[r].etag = entry'.etag
    <3>1. SUFFICES ASSUME InConflict = {}, NEW r \in Waiting
                   PROVE  rows[r].etag = entry.etag
      BY <1>1 DEF Aged, Waiting
    <3>2. pc \in Rest
      BY <1>6, <1>7, <3>1 DEF Apart
    <3> QED BY <1>7, <3>1, <3>2 DEF Apart
  <2>3. ASSUME NEW f \in InConflict, Leads(f)
        PROVE  Clear(f)'
    <3>1. ASSUME Clear(f)
          PROVE  Clear(f)'
      BY <1>1, <3>1 DEF Clear, Aged, Waiting, InConflict
    <3>2. ASSUME Echo(f)
          PROVE  Clear(f)
      <4>1. pc \notin Rest /\ pc # "answered"
        BY <1>2, <3>2 DEF Echo, Working
      <4>2. \A r \in Waiting : rows[r].etag # rows[f].etag
        BY <1>6, <3>2, <4>1 DEF Echo
      <4> QED BY <3>2, <4>1, <4>2 DEF Echo, Clear
    <3> QED BY <1>7, <2>3, <3>1, <3>2 DEF Apart
  <2>4. ASSUME NEW f \in InConflict', Leads(f)'
        PROVE  Clear(f)'
    BY <1>1, <2>3, <2>4 DEF Leads
  <2> QED BY <2>1, <2>2, <2>4 DEF Apart
<1>8. Paired' /\ Spared'
  BY <1>1, <1>2 DEF Open, Paired, Spared, Matches, Applied, Aged, InConflict, Waiting
<1> QED BY <1>3, <1>4, <1>5, <1>7, <1>8 DEF Open

\* Nothing is selected, time passes, a day passes, and the downloads.
LEMMA CalmOpen ==
    ASSUME Inv, Open, TimePasses \/ DayPasses \/ Downloads \/ FetchContent \/ MoveToLocal
    PROVE  Open'
<1>1. ASSUME rows' = rows, recent' \subseteq recent
      PROVE  Aged
  BY <1>1 DEF Aged
<1>2. pc # "listed" => todo = {}
  BY DEF Open, InTurn
<1>3. CASE TimePasses
  BY <1>1, <1>2, <1>3, RestOpen DEF TimePasses, onedrive, cycle, history, Others, Rest
<1>4. CASE DayPasses
  <2>1. \A r \in DOMAIN rows : rows[r] \in Row /\ rows'[r] = [rows[r] EXCEPT !.parked = FALSE]
    BY <1>4, Ranges DEF DayPasses
  <2>2. ASSUME NEW x \in Row
        PROVE  LET y == [x EXCEPT !.parked = FALSE]
               IN  /\ y.type = x.type /\ y.op = x.op /\ y.id = x.id /\ y.etag = x.etag
                   /\ y.status = x.status /\ ~y.parked
    BY DEF Row
  <2>3. DOMAIN rows' = DOMAIN rows /\ recent' = recent
    BY <1>4 DEF DayPasses
  <2>4. Aged
    BY <2>1, <2>2, <2>3 DEF Aged
  <2> QED BY <1>2, <1>4, <2>4, RestOpen DEF DayPasses, onedrive, cycle, history, Others, Rest
<1>5. CASE Downloads
  BY <1>1, <1>2, <1>5, RestOpen DEF Downloads, onedrive, table, history, Others, Rest
<1>6. CASE FetchContent
  BY <1>1, <1>2, <1>6, RestOpen DEF FetchContent, onedrive, history, Others, Rest
<1>7. CASE MoveToLocal
  BY <1>1, <1>2, <1>7, RestOpen DEF MoveToLocal, onedrive, history, Others, Rest
<1> QED BY <1>3, <1>4, <1>5, <1>6, <1>7

\* Another version on OneDrive is no version of a row or of the entry.
LEMMA VersionsStay ==
    ASSUME Inv, NEW id \in Ids, NEW c \in Nat, log' = [log EXCEPT ![id] = Append(@, c)]
    PROVE  /\ \A e \in DOMAIN log["old"] : e \in DOMAIN log'["old"] /\ log'["old"][e] = log["old"][e]
           /\ id # "old" => log'["old"] = log["old"]
           /\ id = "old" => /\ Len(log'["old"]) = Len(log["old"]) + 1
                            /\ Dead(log') <=> c = 0
<1>1. log \in [Ids -> Seq(Nat)] /\ "old" \in Ids
  BY Types DEF Inv, Ids
<1>2. CASE id = "old"
  <2>1. log["old"] \in Seq(Nat) /\ log'["old"] = Append(log["old"], c)
    BY <1>1, <1>2
  <2> QED BY <1>2, <2>1 DEF Dead
<1>3. CASE id # "old"
  BY <1>1, <1>3
<1> QED BY <1>2, <1>3

\* The versions the entry and the rows are about.
LEMMA VersionsKnown ==
    ASSUME Inv, Plain
    PROVE  /\ entry.etag \in DOMAIN log["old"]
           /\ \A r \in DOMAIN rows : rows[r].etag \in DOMAIN log["old"]
<1>1. \A r \in DOMAIN rows : Fits(rows[r], log) /\ rows[r].id = "old"
  BY DEF Inv, Numbered, Plain
<1>2. entry.etag \in DOMAIN log[Home(entry.id)] /\ entry.id = "old"
  BY DEF Inv, Numbered, Logs, Plain
<1> QED BY <1>1, <1>2 DEF Fits, Home

\* A step that only adds versions, or contents the entry has had.
LEMMA LogOpen ==
    ASSUME Inv, Open, applied \subseteq applied', Dead(log) => Dead(log'),
           \A e \in DOMAIN log["old"] : log'["old"][e] = log["old"][e],
           UNCHANGED <<token, entry, rows, recent, pc, Steps, call>>
    PROVE  Open'
<1> USE DEF Steps
<1>1. InConflict' = InConflict /\ Waiting' = Waiting
  BY SetsStay
<1>2. \A e \in DOMAIN log["old"] : Applied(e) => Applied(e)'
  BY DEF Applied
<1>3. Plain' /\ InTurn'
  BY <1>1 DEF Open, Plain, InTurn
<1>4. InOrder'
  <2>1. Applied(entry.etag)' /\ \A r \in DOMAIN rows : rows[r].type = "local" => Applied(rows[r].etag)'
    BY <1>2, VersionsKnown DEF Open, InOrder
  <2> QED BY <1>1, <2>1 DEF Open, InOrder, Applied
<1>5. Apart => Apart'
  BY <1>1 DEF Apart, Leads, Ready, Clear, Echo
<1>6. \A r \in InConflict : Applied(rows[r].etag) => Applied(rows[r].etag)'
  BY <1>2, VersionsKnown DEF Open, InConflict
<1>7. Paired'
  BY <1>1, <1>6 DEF Open, Paired, Matches, Applied
<1>8. Spared'
  BY <1>1, <1>6 DEF Open, Spared, Applied
<1> QED BY <1>3, <1>4, <1>5, <1>7, <1>8 DEF Open

\* Other clients.
LEMMA RemoteEditOpen == Inv /\ Open /\ RemoteEdit => Open'
<1> SUFFICES ASSUME Inv, Open, RemoteEdit PROVE Open'
  OBVIOUS
<1>1. PICK id \in Ids, c \in Nat : Exists(id) /\ log' = [log EXCEPT ![id] = Append(@, c)]
  <2>1. Content \in Nat
    BY Types DEF Inv, Content
  <2>2. \A id \in Ids : Top(id) \in Nat
    BY TopIsContent, Types DEF Inv
  <2> QED BY <2>1, <2>2 DEF RemoteEdit
<1>2. Dead(log) => Dead(log')
  <2>1. Dead(log) => id # "old"
    <3>1. log["old"] # << >>
      BY DEF Inv, Numbered, Logs
    <3> QED BY <1>1, <3>1 DEF Dead, Exists, Top
  <2> QED BY <1>1, <2>1, VersionsStay DEF Dead
<1> QED BY <1>1, <1>2, VersionsStay, LogOpen DEF RemoteEdit, table, cycle, Steps

\* A change by the user waits and has the version of the entry.
LEMMA UserOpen == Inv /\ Open /\ User => Open'
<1> SUFFICES ASSUME Inv, Open, User PROVE Open'
  OBVIOUS
<1>1. PICK op \in LocalOps : LocalChange(op)
  BY DEF User, Write, Unlink, Rename, LocalChange
<1> DEFINE x == NewRow("local", op, entry.id, entry.etag)
<1>0. PICK n \in Nat : n = Len(rows) + 1
  BY Ranges
<1>2. op \in {"update", "delete", "rename"}
  BY SizesAssumption
<1>3. /\ x.type = "local" /\ x.op = op /\ x.id = "old" /\ x.etag = entry.etag
      /\ x.status = "new" /\ x.parked = FALSE
  BY DEF NewRow, Open, Plain
<1>4. rows' = Append(rows, x) /\ rows \in Seq(Row)
  BY <1>1 DEF LocalChange, Inv, TypeOK
<1>5. UNCHANGED <<log, token, recent, pc, Steps, call, applied>>
  BY <1>1 DEF LocalChange, onedrive, cycle, Steps
<1>6. entry'.id = entry.id /\ entry'.etag = entry.etag
  <2>1. entry \in Entry
    BY DEF Inv, TypeOK
  <2> QED BY <2>1 DEF User, Write, Unlink, Rename, Entry
<1> HIDE DEF x
<1>7. /\ DOMAIN rows' = DOMAIN rows \union {n} /\ n \notin DOMAIN rows
      /\ rows'[n] = x /\ \A r \in DOMAIN rows : rows'[r] = rows[r]
  BY <1>0, <1>4
<1> USE DEF Steps
<1>8. InConflict' = InConflict /\ Waiting' = Waiting \union {n}
  BY <1>3, <1>7 DEF InConflict, Waiting, Pending
<1>9. cur \in DOMAIN rows \/ pc \notin Working
  BY DEF Inv, Numbered, AtHand, Working
<1>10. \A y \in todo : y.at \in DOMAIN rows
  BY DEF Inv, Numbered
<1>11. Plain'
  BY <1>2, <1>3, <1>5, <1>6, <1>7, <1>9, <1>10 DEF Open, Plain
<1>12. InTurn'
  BY <1>3, <1>5, <1>7, <1>8, <1>9, <1>10 DEF Open, InTurn, Working
<1>13. InOrder'
  BY <1>3, <1>5, <1>6, <1>7, <1>8 DEF Open, InOrder, Applied, InConflict
<1>14. Ready(n)' /\ \A r \in Waiting : Ready(r) => Ready(r)'
  <2>1. n \notin recent /\ Waiting \subseteq DOMAIN rows
    BY <1>7, Ranges DEF Waiting
  <2>2. ~rows'[n].parked /\ n \notin recent'
    BY <1>3, <1>5, <1>7, <2>1
  <2>3. \A r \in Waiting : rows'[r] = rows[r]
    BY <1>7, <2>1
  <2>4. \A r \in Waiting : Ready(r) => Ready(r)'
    BY <1>5, <2>3 DEF Ready
  <2> QED BY <2>2, <2>4 DEF Ready
<1>15. Apart => Apart'
  <2> SUFFICES ASSUME Apart PROVE Apart'
    OBVIOUS
  <2>1. Waiting \subseteq DOMAIN rows /\ InConflict \subseteq DOMAIN rows
    BY DEF Waiting, InConflict
  <2>2. ASSUME NEW f \in InConflict, Clear(f)
        PROVE  Clear(f)'
    BY <1>3, <1>6, <1>7, <1>8, <2>1, <2>2 DEF Clear
  <2>3. ASSUME NEW f \in InConflict, Echo(f)
        PROVE  Echo(f)'
    <3>1. rows'[f].etag = rows[f].etag /\ \A r \in Waiting : rows'[r].etag = rows[r].etag
      BY <1>7, <2>1
    <3>2. \A r \in Waiting' : rows'[r].etag = rows'[f].etag => Ready(r)'
      BY <1>8, <1>14, <2>3, <3>1 DEF Echo
    <3>3. ASSUME entry.etag = rows[f].etag
          PROVE  \E r \in DOMAIN rows' : /\ rows'[r].etag = rows'[f].etag
                                         /\ r \in Waiting' \/ (pc' = "answered" /\ r = cur')
      <4>1. PICK r \in DOMAIN rows : /\ rows[r].etag = rows[f].etag
                                     /\ r \in Waiting \/ (pc = "answered" /\ r = cur)
        BY <2>3, <3>3 DEF Echo
      <4>2. r \in DOMAIN rows' /\ rows'[r].etag = rows'[f].etag
        BY <1>7, <3>1, <4>1
      <4> QED BY <1>5, <1>8, <4>1, <4>2
    <3> QED BY <1>5, <1>6, <1>8, <2>3, <3>1, <3>2, <3>3 DEF Echo
  <2>4. \A f : Leads(f)' => Leads(f)
    BY <1>8 DEF Leads
  <2>5. \A f \in InConflict' : Leads(f)' => Clear(f)' \/ Echo(f)'
    BY <1>8, <2>2, <2>3, <2>4 DEF Apart
  <2>6. InConflict' = {} => \A r \in Waiting' : Ready(r)'
    BY <1>8, <1>14 DEF Apart
  <2>7. \A r \in Waiting : rows[r].etag = entry.etag => rows'[r].etag = entry'.etag
    BY <1>6, <1>7, <2>1
  <2>8. rows'[n].etag = entry'.etag
    BY <1>3, <1>6, <1>7
  <2>9. InConflict' = {} /\ (pc' \in {"idle", "downloads", "staged"} \/ todo' # {}) =>
           \A r \in Waiting' : rows'[r].etag = entry'.etag
    BY <1>5, <1>8, <2>7, <2>8 DEF Apart
  <2> QED BY <2>5, <2>6, <2>9 DEF Apart
<1>16. Paired' /\ Spared'
  BY <1>5, <1>7, <1>8 DEF Open, Paired, Spared, Matches, Applied, InConflict, Waiting
<1> QED BY <1>5, <1>11, <1>12, <1>13, <1>15, <1>16 DEF Open

-----------------------------------------------------------------------------
\* The steps of the cycle that take up a row, and leave it.

\* A row keeps what it is about; the ones that were ready stay so.
LEMMA NowKeeps ==
    ASSUME Inv, NEW r \in DOMAIN rows, NEW s, Now(r, s)
    PROVE  /\ DOMAIN rows' = DOMAIN rows
           /\ \A q \in DOMAIN rows :
                 /\ rows'[q].type = rows[q].type /\ rows'[q].op = rows[q].op
                 /\ rows'[q].id = rows[q].id /\ rows'[q].etag = rows[q].etag
           /\ \A q \in DOMAIN rows : q # r /\ Ready(q) /\ q # cur => Ready(q)'
BY DEF Now, Ready

\* A remote row is taken up, or is in conflict with a local one.
LEMMA CheckRemoteOpen == Inv /\ Open /\ CheckRemote => Open'
<1> SUFFICES ASSUME Inv, Open, CheckRemote PROVE Open'
  OBVIOUS
<1>0. PICK x \in todo : \E fetched \in {Top(x.row.id), 0} :
         LET locs == PendingOf(x.row.id, "local")
         IN  /\ todo' = todo \ {x}
             /\ Begin(x.at, x.row, IF locs # {} /\ RemoteConflict(x.row, First(locs), fetched)
                                   THEN "park" ELSE "apply")
  BY DEF CheckRemote
<1>1. PICK fetched \in {Top(x.row.id), 0} :
         LET locs == PendingOf(x.row.id, "local")
         IN  /\ todo' = todo \ {x}
             /\ Begin(x.at, x.row, IF locs # {} /\ RemoteConflict(x.row, First(locs), fetched)
                                   THEN "park" ELSE "apply")
  BY <1>0
<1>2. pc = "listed" /\ todo = {x} /\ todo' = {} /\ x.row.status = "new"
  BY <1>1 DEF CheckRemote, Open, InTurn
<1>3. UNCHANGED <<log, token, entry, answer, call, applied>>
  BY DEF CheckRemote, onedrive
<1>4. PICK r \in DOMAIN rows : r = x.at /\ rows[r] = x.row
  BY DEF Open, Plain, Inv, Numbered
<1>5. /\ rows[r].type = "remote" /\ rows[r].id = "old" /\ rows[r].op # "create"
      /\ rows[r].status = "new" /\ (rows[r].op = "delete" => Dead(log)) /\ r \notin InConflict
  <2>1. rows[r].type = "remote" /\ Fits(rows[r], log)
    BY <1>4 DEF Inv, Numbered
  <2> QED BY <1>2, <1>4, <2>1 DEF Open, Plain, Fits, InConflict
<1>6. PICK s \in {"conflicted", "validated"} :
         /\ Now(r, s) /\ cur' = r /\ item' = rows[r]
         /\ pc' = IF s = "conflicted" THEN "park" ELSE "apply"
         /\ s = "conflicted" =>
               Waiting # {} /\ \E l \in Waiting : RemoteConflict(rows[r], l, fetched)
  <2>1. PendingOf(x.row.id, "local") = Waiting
    BY <1>4, <1>5, PendingRows DEF Open
  <2>2. Waiting # {} => First(Waiting) \in Waiting
    <3>1. Waiting \in SUBSET Nat
      BY Ranges DEF Waiting
    <3> QED BY <3>1, FirstIsLeast
  <2>3. CASE Waiting # {} /\ RemoteConflict(rows[r], First(Waiting), fetched)
    <3>1. Begin(r, rows[r], "park")
      BY <1>1, <1>4, <2>1, <2>3
    <3>2. Now(r, "conflicted")
      BY <1>5, <3>1, StatusNow DEF Begin
    <3> QED BY <2>2, <2>3, <3>1, <3>2 DEF Begin
  <2>4. CASE ~(Waiting # {} /\ RemoteConflict(rows[r], First(Waiting), fetched))
    <3>1. Begin(r, rows[r], "apply")
      BY <1>1, <1>4, <2>1, <2>4
    <3>2. Now(r, "validated")
      BY <1>5, <3>1, StatusNow DEF Begin
    <3> QED BY <3>1, <3>2 DEF Begin
  <2> QED BY <2>3, <2>4
<1>7. /\ InConflict' = IF s = "conflicted" THEN InConflict \union {r} ELSE InConflict
      /\ Waiting' = Waiting /\ r \notin Waiting
  <2>1. r \notin Waiting
    BY <1>5 DEF Waiting
  <2> QED BY <1>5, <1>6, <2>1, NowSets
<1>8. /\ DOMAIN rows' = DOMAIN rows
      /\ \A q \in DOMAIN rows :
            /\ rows'[q].type = rows[q].type /\ rows'[q].op = rows[q].op
            /\ rows'[q].id = rows[q].id /\ rows'[q].etag = rows[q].etag
            /\ q # r => rows'[q] = rows[q]
      /\ rows'[r].status = s /\ recent' = recent \union {r}
  BY <1>6, NowKeeps DEF Now
<1>9. Plain'
  BY <1>2, <1>3, <1>5, <1>6, <1>8 DEF Open, Plain, Working
<1>10. InTurn'
  <2>1. \A q \in DOMAIN rows : rows[q].status # "cancelled" /\ rows[q].status # "processing"
    BY <1>2 DEF Open, InTurn
  <2>2. \A q \in DOMAIN rows : q # r /\ rows[q].type = "remote" =>
           rows[q].status \notin {"new", "validated", "error"}
    BY <1>2, <1>4 DEF Open, InTurn
  <2> QED BY <1>2, <1>5, <1>6, <1>7, <1>8, <2>1, <2>2 DEF InTurn
<1>11. InOrder'
  <2>1. \A f \in InConflict : f < r /\ rows[f].etag < rows[r].etag
    BY <1>2, <1>4 DEF Open, InOrder
  <2>2. InConflict \subseteq DOMAIN rows
    BY DEF InConflict
  <2> QED BY <1>2, <1>3, <1>6, <1>7, <1>8, <2>1, <2>2 DEF Open, InOrder, Applied
<1>12. InConflict \subseteq DOMAIN rows /\ Waiting \subseteq DOMAIN rows
  BY DEF InConflict, Waiting
<1>13. \A q \in Waiting : Ready(q) => Ready(q)'
  BY <1>2, <1>7, <1>8, <1>12 DEF Ready
<1>14. \A f \in InConflict : Clear(f) => Clear(f)'
  BY <1>3, <1>7, <1>8, <1>12 DEF Clear
<1>15. \A f \in InConflict : Leads(f) => Clear(f) \/ Dead(log)
  BY <1>2 DEF Open, Apart, Echo
<1>16. ASSUME ~Dead(log)
       PROVE  Apart'
  <2>1. Apart
    BY <1>16 DEF Open
  <2>2. CASE s = "validated"
    <3>1. InConflict' = InConflict /\ pc' = "apply"
      BY <1>6, <1>7, <2>2
    <3>2. \A f \in InConflict' : Leads(f)' => Clear(f)'
      BY <1>14, <1>15, <1>16, <3>1 DEF Leads
    <3> QED BY <1>2, <1>7, <1>13, <2>1, <3>1, <3>2 DEF Apart
  <2>3. CASE s = "conflicted" /\ InConflict # {}
    <3>1. InConflict' = InConflict \union {r} /\ \A f \in InConflict : f < r
      BY <1>2, <1>4, <1>7, <2>3 DEF Open, InOrder
    <3>2. ASSUME NEW f \in InConflict', Leads(f)'
          PROVE  f \in InConflict /\ Leads(f)
      <4>1. PICK g \in InConflict : TRUE
        BY <2>3
      <4>2. f <= g /\ g < r /\ f \in Nat /\ g \in Nat /\ r \in Nat
        BY <1>12, <3>1, <3>2, <4>1, Ranges DEF Leads
      <4> QED BY <3>1, <3>2, <4>2 DEF Leads
    <3> QED BY <1>14, <1>15, <1>16, <3>1, <3>2 DEF Apart
  <2>4. CASE s = "conflicted" /\ InConflict = {}
    <3>1. InConflict' = {r} /\ pc' = "park" /\ Waiting # {}
      BY <1>6, <1>7, <2>4
    <3>2. \A q \in Waiting : Ready(q) /\ rows[q].etag = entry.etag
      BY <1>2, <2>1, <2>4 DEF Apart
    <3>3. CASE entry.etag = rows[r].etag
      <4>1. Echo(r)'
        BY <1>2, <1>3, <1>7, <1>8, <1>12, <1>13, <3>1, <3>2, <3>3 DEF Echo, Working
      <4> QED BY <3>1, <4>1 DEF Apart
    <3>4. CASE entry.etag # rows[r].etag
      <4>1. Clear(r)'
        BY <1>3, <1>7, <1>8, <1>12, <3>2, <3>4 DEF Clear
      <4> QED BY <3>1, <4>1 DEF Apart
    <3> QED BY <3>3, <3>4
  <2> QED BY <2>2, <2>3, <2>4
<1>17. Matches <=> Matches'
  BY <1>3, <1>7, <1>8, <1>12 DEF Matches
<1>18. s = "conflicted" => Matches
  BY <1>5, <1>6 DEF Matches, RemoteConflict, Compares
<1>19. Paired'
  <2>1. ASSUME s = "validated"
        PROVE  Paired'
    BY <1>3, <1>7, <1>8, <1>12, <1>17, <2>1 DEF Open, Paired, Applied
  <2>2. ASSUME s = "conflicted"
        PROVE  Paired'
    BY <1>17, <1>18, <2>2 DEF Paired
  <2> QED BY <2>1, <2>2
<1>20. Spared'
  BY <1>6 DEF Spared
<1> QED BY <1>3, <1>9, <1>10, <1>11, <1>16, <1>19, <1>20 DEF Open, Dead

\* The rows are about what they were about, and as many are in conflict or wait.
Alike ==
    /\ DOMAIN rows' = DOMAIN rows
    /\ \A q \in DOMAIN rows :
          /\ rows'[q].type = rows[q].type /\ rows'[q].op = rows[q].op
          /\ rows'[q].id = rows[q].id /\ rows'[q].etag = rows[q].etag
    /\ InConflict' = InConflict /\ Waiting' = Waiting

\* A row is left for the next one.
LEMMA BackOpen ==
    ASSUME Inv, Open, Back, Alike, pc \in {"park", "begun", "closing"},
           UNCHANGED <<log, token, entry, todo, answer, call, applied>>,
           \A q \in DOMAIN rows :
              /\ rows'[q].status \notin {"cancelled", "processing"}
              /\ rows[q].type = "remote" => rows'[q].status \notin {"new", "validated", "error"},
           Dead(log) \/ (pc # "begun" /\ \A q \in Waiting : Ready(q) => Ready(q)')
    PROVE  Open'
<1>1. pc' \in {"listed", "local"} /\ pc' \notin Working /\ todo = {} /\ todo' = {}
  BY DEF Back, Open, InTurn, Working
<1>2. InConflict \subseteq DOMAIN rows /\ Waiting \subseteq DOMAIN rows
  BY DEF InConflict, Waiting
<1>3. Plain'
  BY <1>1 DEF Open, Plain, Alike
<1>4. InTurn'
  BY <1>1 DEF Open, InTurn, Alike
<1>5. InOrder'
  BY <1>1, <1>2 DEF Open, InOrder, Alike, Applied
<1>6. ASSUME ~Dead(log)
      PROVE  Apart'
  <2>1. Apart /\ pc \in {"park", "closing"} /\ \A q \in Waiting : Ready(q) => Ready(q)'
    BY <1>6 DEF Open
  <2>2. \A f \in InConflict : Clear(f) => Clear(f)'
    BY <1>2 DEF Clear, Alike
  <2>3. ASSUME NEW f \in InConflict, Echo(f)
        PROVE  Echo(f)'
    <3>1. \A q \in Waiting : rows[q].etag = rows[f].etag => Ready(q)'
      BY <2>1, <2>3 DEF Echo
    <3>2. entry.etag = rows[f].etag =>
             \E q \in DOMAIN rows : rows[q].etag = rows[f].etag /\ q \in Waiting
      BY <2>1, <2>3 DEF Echo
    <3> QED BY <1>1, <1>2, <2>3, <3>1, <3>2 DEF Echo, Alike
  <2> QED BY <1>1, <2>1, <2>2, <2>3 DEF Apart, Alike, Leads
<1>7. Paired'
  BY <1>2 DEF Open, Paired, Matches, Alike, Applied
<1>8. Spared'
  BY <1>1 DEF Spared
<1> QED BY <1>3, <1>4, <1>5, <1>6, <1>7, <1>8 DEF Open, Dead

\* No row but the one at hand is at work.
LEMMA NoneElse ==
    ASSUME Open, pc \in {"park", "begun", "answered", "closing", "local"} \/ (todo = {} /\ pc # "apply")
    PROVE  \A q \in DOMAIN rows :
              /\ rows[q].status # "cancelled"
              /\ rows[q].status = "processing" => q = cur /\ pc \in {"answered", "closing"}
              /\ rows[q].type = "remote" => rows[q].status \notin {"new", "validated", "error"}
BY DEF Open, InTurn

\* A row in conflict is put aside.
LEMMA ParkOpen == Inv /\ Open /\ Park => Open'
<1> SUFFICES ASSUME Inv, Open, Park PROVE Open'
  OBVIOUS
<1>1. /\ pc = "park" /\ cur \in DOMAIN rows /\ rows[cur].status = "conflicted" /\ cur \in recent
      /\ rows[cur] \in Row
  BY Ranges DEF Park, Open, InTurn, Inv, Numbered, AtHand
<1>2. /\ Back /\ rows' = [rows EXCEPT ![cur].parked = TRUE] /\ recent' = recent
      /\ UNCHANGED <<log, token, entry, todo, answer, call, applied>>
  BY <1>1 DEF Park, onedrive, history
<1>3. /\ DOMAIN rows' = DOMAIN rows /\ \A q \in DOMAIN rows : q # cur => rows'[q] = rows[q]
      /\ rows'[cur] = [rows[cur] EXCEPT !.parked = TRUE]
  BY <1>1, <1>2
<1>4. ASSUME NEW x \in Row
      PROVE  LET y == [x EXCEPT !.parked = TRUE]
             IN  /\ y.type = x.type /\ y.op = x.op /\ y.id = x.id /\ y.etag = x.etag
                 /\ y.status = x.status
  BY DEF Row
<1>5. \A q \in DOMAIN rows :
         /\ rows'[q].type = rows[q].type /\ rows'[q].op = rows[q].op /\ rows'[q].id = rows[q].id
         /\ rows'[q].etag = rows[q].etag /\ rows'[q].status = rows[q].status
  <2>1. PICK x \in Row : x = rows[cur]
    BY <1>1
  <2>2. rows'[cur] = [x EXCEPT !.parked = TRUE]
    BY <1>3, <2>1
  <2>3. /\ rows'[cur].type = x.type /\ rows'[cur].op = x.op /\ rows'[cur].id = x.id
        /\ rows'[cur].etag = x.etag /\ rows'[cur].status = x.status
    BY <1>4, <2>2
  <2> QED BY <1>3, <2>1, <2>3
<1>6. Alike
  BY <1>3, <1>5 DEF Alike, InConflict, Waiting
<1>7. \A q \in Waiting : Ready(q) => Ready(q)'
  <2>1. ASSUME NEW q \in Waiting, Ready(q)
        PROVE  q \notin recent /\ ~rows'[q].parked
    <3>1. q \notin recent /\ ~rows[q].parked
      BY <1>1, <2>1 DEF Ready
    <3> QED BY <1>1, <1>3, <3>1 DEF Waiting
  <2> QED BY <1>2, <2>1 DEF Ready
<1>8. \A q \in DOMAIN rows :
         /\ rows'[q].status \notin {"cancelled", "processing"}
         /\ rows[q].type = "remote" => rows'[q].status \notin {"new", "validated", "error"}
  BY <1>1, <1>5, NoneElse
<1> QED BY <1>1, <1>2, <1>6, <1>7, <1>8, BackOpen

\* A row is done.
LEMMA FinishRowOpen == Inv /\ Open /\ FinishRow => Open'
<1> SUFFICES ASSUME Inv, Open, FinishRow PROVE Open'
  OBVIOUS
<1>1. pc = "closing" /\ cur \in DOMAIN rows /\ rows[cur].status = "processing"
  BY DEF FinishRow, Open, InTurn, Inv, Numbered, AtHand
<1>2. /\ Back /\ SetStatus(cur, "done")
      /\ UNCHANGED <<log, token, entry, todo, answer, call, applied>>
  BY DEF FinishRow, onedrive, history
<1>3. Now(cur, "done")
  BY <1>1, <1>2, StatusNow
<1>4. Alike
  <2>1. cur \notin InConflict /\ cur \notin Waiting
    BY <1>1 DEF InConflict, Waiting, Pending
  <2>2. InConflict' = InConflict /\ Waiting' = Waiting
    BY <1>1, <1>3, <2>1, NowSets DEF Pending
  <2> QED BY <1>1, <1>3, <2>2, NowKeeps DEF Alike
<1>5. \A q \in Waiting : Ready(q) => Ready(q)'
  <2>1. \A q \in Waiting : q # cur /\ q \in DOMAIN rows
    BY <1>1 DEF Waiting, Pending
  <2> QED BY <1>1, <1>3, <2>1, NowKeeps
<1>6. \A q \in DOMAIN rows :
         /\ rows'[q].status \notin {"cancelled", "processing"}
         /\ rows[q].type = "remote" => rows'[q].status \notin {"new", "validated", "error"}
  BY <1>1, <1>3, NoneElse DEF Now
<1> QED BY <1>1, <1>2, <1>4, <1>5, <1>6, BackOpen

\* A change is refused: then the file is gone.
LEMMA RefusedOpen == Inv /\ Open /\ Refused => Open'
<1> SUFFICES ASSUME Inv, Open, Refused PROVE Open'
  OBVIOUS
<1>1. /\ pc = "begun" /\ cur \in DOMAIN rows /\ rows[cur].status = "validated"
      /\ item.type = "local" /\ item.id = "old" /\ rows[cur].type = "local"
      /\ item.op = rows[cur].op /\ item.op # "create"
  BY DEF Refused, Open, Plain, InTurn, Working, Inv, Numbered, AtHand
<1>2. /\ SetStatus(cur, "error") /\ Back
      /\ UNCHANGED <<log, token, entry, todo, answer, call, applied>>
  BY DEF Refused, RowError, onedrive, history
<1>3. Dead(log)
  <2>1. ~Exists("old")
    BY <1>1 DEF Refused, Served, Known, Open, Plain
  <2>2. log["old"] # << >>
    BY DEF Inv, Numbered, Logs
  <2> QED BY <2>1, <2>2 DEF Exists, Top, Dead
<1>4. Now(cur, "error")
  BY <1>1, <1>2, StatusNow
<1>5. Alike
  <2>1. cur \notin InConflict /\ cur \in Waiting
    BY <1>1 DEF InConflict, Waiting, Pending
  <2>2. InConflict' = InConflict
    BY <1>1, <1>4, <2>1, NowSets
  <2>3. Waiting' = Waiting
    BY <1>1, <1>4, <2>1, NowSets DEF Pending
  <2> QED BY <1>1, <1>4, <2>2, <2>3, NowKeeps DEF Alike
<1>6. \A q \in DOMAIN rows :
         /\ rows'[q].status \notin {"cancelled", "processing"}
         /\ rows[q].type = "remote" => rows'[q].status \notin {"new", "validated", "error"}
  BY <1>1, <1>4, NoneElse DEF Now
<1> QED BY <1>1, <1>2, <1>3, <1>5, <1>6, BackOpen

\* A remote row is applied.
LEMMA ApplyOpen == Inv /\ Open /\ Apply => Open'
<1> SUFFICES ASSUME Inv, Open, Apply PROVE Open'
  OBVIOUS
<1>1. /\ pc = "apply" /\ cur \in DOMAIN rows /\ rows[cur].status = "validated"
      /\ item.type = "remote" /\ item.id = "old" /\ rows[cur].type = "remote"
      /\ item.etag = rows[cur].etag /\ rows[cur].op = item.op /\ rows[cur].id = item.id
      /\ item.op = "delete" => Dead(log)
  BY DEF Apply, Open, Plain, InTurn, Working, Inv, Numbered, AtHand, Fits
<1>2. /\ SetStatus(cur, "processing") /\ pc' = "closing" /\ todo = {} /\ todo' = {}
      /\ UNCHANGED <<log, token, cur, item, answer, call>>
  BY <1>1 DEF Apply, onedrive, history, Open, InTurn
<1>3. Now(cur, "processing")
  BY <1>1, <1>2, StatusNow
<1>4. Alike /\ cur \notin Waiting /\ cur \notin InConflict
  <2>1. cur \notin InConflict /\ cur \notin Waiting
    BY <1>1 DEF InConflict, Waiting
  <2>2. InConflict' = InConflict /\ Waiting' = Waiting
    BY <1>1, <1>3, <2>1, NowSets DEF Pending
  <2> QED BY <1>1, <1>3, <2>1, <2>2, NowKeeps DEF Alike
<1>5. InConflict \subseteq DOMAIN rows /\ Waiting \subseteq DOMAIN rows
  BY DEF InConflict, Waiting
<1>6. /\ entry'.id = "old" /\ Applied(entry.etag)' /\ applied \subseteq applied'
      /\ ~Dead(log) => entry'.etag = item.etag
  <2>1. CASE item.op = "delete"
    <3>1. entry \in Entry
      BY DEF Inv, TypeOK
    <3>2. entry' = IF entry.id = item.id THEN [entry EXCEPT !.deleted = TRUE] ELSE entry
      BY <2>1 DEF Apply
    <3>3. entry'.id = entry.id /\ entry'.etag = entry.etag
      BY <3>1, <3>2 DEF Entry
    <3>4. applied' = applied
      BY <2>1 DEF Apply
    <3>5. entry.id = "old" /\ Applied(entry.etag) /\ log' = log
      BY <1>2 DEF Open, Plain, InOrder
    <3>6. Applied(entry.etag)'
      BY <3>3, <3>4, <3>5 DEF Applied
    <3> QED BY <1>1, <2>1, <3>3, <3>4, <3>5, <3>6
  <2>2. CASE item.op # "delete"
    <3>1. entry'.id = item.id /\ entry'.etag = item.etag
            /\ applied' = applied \union {log[item.id][item.etag]}
      BY <2>2 DEF Apply
    <3>2. log'["old"][entry'.etag] \in applied'
      BY <1>1, <1>2, <3>1
    <3> QED BY <1>1, <3>1, <3>2 DEF Applied
  <2> QED BY <2>1, <2>2
<1>7. Plain'
  BY <1>1, <1>2, <1>4, <1>6 DEF Open, Plain, Alike, Working
<1>8. InTurn'
  <2>1. \A q \in DOMAIN rows : /\ rows[q].status # "cancelled" /\ rows[q].status # "processing"
                               /\ q # cur /\ rows[q].type = "remote" =>
                                     rows[q].status \notin {"new", "validated", "error"}
    BY <1>1, <1>2 DEF Open, InTurn
  <2> QED BY <1>1, <1>2, <1>3, <2>1 DEF InTurn, Now
<1>9. InOrder'
  <2>1. \A r \in DOMAIN rows : Applied(rows[r].etag) => log'["old"][rows'[r].etag] \in applied'
    BY <1>2, <1>4, <1>6 DEF Applied, Alike
  <2>2. \A r \in DOMAIN rows' : rows'[r].type = "local" => log'["old"][rows'[r].etag] \in applied'
    BY <1>4, <2>1 DEF Open, InOrder, Alike
  <2>3. \A r \in DOMAIN rows' : rows'[r].type = "remote" => rows'[r].etag <= token'["old"]
    BY <1>2, <1>4 DEF Open, InOrder, Alike
  <2> QED BY <1>2, <1>6, <2>2, <2>3 DEF InOrder, Applied
<1>10. ASSUME ~Dead(log)
       PROVE  Apart'
  <2>1. Apart /\ entry'.etag = item.etag
    BY <1>6, <1>10 DEF Open
  <2>2. \A q \in Waiting : Ready(q) => Ready(q)'
    BY <1>1, <1>3, <1>4, <1>5, NowKeeps
  <2>3. ASSUME NEW f \in InConflict, Leads(f)
        PROVE  Clear(f)'
    <3>1. Clear(f)
      BY <1>1, <2>1, <2>3 DEF Apart, Echo
    <3>2. rows[f].etag < item.etag /\ rows[f].etag \in Nat /\ item.etag \in Nat
      BY <1>1, <1>5, Ranges DEF Open, InOrder
    <3> QED BY <1>4, <1>5, <2>1, <3>1, <3>2 DEF Clear, Alike
  <2> QED BY <1>2, <1>4, <2>1, <2>2, <2>3 DEF Apart, Alike, Leads
<1>11. Paired'
  BY <1>2, <1>4, <1>5, <1>6 DEF Open, Paired, Matches, Alike, Applied
<1>12. Spared'
  BY <1>2 DEF Spared
<1> QED BY <1>2, <1>7, <1>8, <1>9, <1>10, <1>11, <1>12 DEF Open, Dead

\* A local row is taken up, or is in conflict with a remote one.
LEMMA CheckLocalOpen == Inv /\ Open /\ CheckLocal => Open'
<1> SUFFICES ASSUME Inv, Open, CheckLocal PROVE Open'
  OBVIOUS
<1>1. pc \in {"listed", "local"} /\ todo = {} /\ todo' = {} /\ Selectable # {}
  BY DEF CheckLocal, Open, InTurn
<1>2. UNCHANGED <<log, token, entry, answer, call, applied>>
  BY DEF CheckLocal, onedrive
<1>3. PendingOf("old", "remote") = InConflict
  BY <1>1, PendingRows DEF Open
<1>4. InConflict \subseteq DOMAIN rows /\ Waiting \subseteq DOMAIN rows /\ DOMAIN rows \subseteq Nat
  BY Ranges DEF InConflict, Waiting
<1>5. PICK r \in DOMAIN rows : r = First(Selectable)
  <2>1. Selectable \in SUBSET Nat
    BY <1>4 DEF Selectable
  <2>2. First(Selectable) \in Selectable
    BY <1>1, <2>1, FirstIsLeast
  <2> QED BY <2>2 DEF Selectable
<1>6. /\ r \in Waiting /\ rows[r].type = "local" /\ rows[r].status \in Pending
      /\ rows[r].status # "gone" /\ rows[r].id = "old" /\ rows[r].op # "create"
  <2>1. Selectable \in SUBSET Nat
    BY <1>4 DEF Selectable
  <2>2. r \in Selectable
    BY <1>1, <1>5, <2>1, FirstIsLeast
  <2> QED BY <2>2 DEF Selectable, Waiting, Pending, Open, Plain
<1>7. PICK s \in {"conflicted", "validated"} :
         /\ Now(r, s) /\ cur' = r /\ item' = rows[r]
         /\ pc' = IF s = "conflicted" THEN "park" ELSE "begun"
         /\ (s = "conflicted") <=> (InConflict # {} /\ LocalConflict(rows[r], First(InConflict)))
  <2>1. PendingOf(rows[r].id, "remote") = InConflict
    BY <1>3, <1>6
  <2>2. CASE InConflict # {} /\ LocalConflict(rows[r], First(InConflict))
    <3>1. Begin(r, rows[r], "park")
      BY <1>5, <2>1, <2>2 DEF CheckLocal
    <3>2. Now(r, "conflicted")
      BY <1>6, <3>1, StatusNow DEF Begin
    <3> QED BY <2>2, <3>1, <3>2 DEF Begin
  <2>3. CASE ~(InConflict # {} /\ LocalConflict(rows[r], First(InConflict)))
    <3>1. Begin(r, rows[r], "begun")
      BY <1>5, <2>1, <2>3 DEF CheckLocal
    <3>2. Now(r, "validated")
      BY <1>6, <3>1, StatusNow DEF Begin
    <3> QED BY <2>3, <3>1, <3>2 DEF Begin
  <2> QED BY <2>2, <2>3
<1>8. Alike
  <2>1. r \notin InConflict
    BY <1>6 DEF InConflict
  <2>2. InConflict' = InConflict
    BY <1>6, <1>7, <2>1, NowSets
  <2>3. Waiting' = Waiting
    BY <1>6, <1>7, NowSets DEF Pending
  <2> QED BY <1>7, <2>2, <2>3, NowKeeps DEF Alike
<1>9. /\ rows'[r].status = s /\ recent' = recent \union {r}
      /\ \A q \in DOMAIN rows : q # r => rows'[q] = rows[q]
  BY <1>7 DEF Now
<1>10. ASSUME NEW f \in InConflict, Leads(f)
       PROVE  First(InConflict) = f
  <2>1. First(InConflict) \in InConflict /\ First(InConflict) <= f
    BY <1>4, <1>10, FirstIsLeast
  <2>2. f <= First(InConflict) /\ f \in Nat /\ First(InConflict) \in Nat
    BY <1>4, <1>10, <2>1 DEF Leads
  <2> QED BY <2>1, <2>2
<1>11. Plain'
  BY <1>1, <1>2, <1>6, <1>7, <1>8 DEF Open, Plain, Working, Alike
<1>12. InTurn'
  <2>1. \A q \in DOMAIN rows :
           /\ rows[q].status \notin {"cancelled", "processing"}
           /\ rows[q].type = "remote" => rows[q].status \notin {"new", "validated", "error"}
    BY <1>1, NoneElse
  <2> QED BY <1>1, <1>6, <1>7, <1>8, <1>9, <2>1 DEF InTurn, Alike
<1>13. InOrder'
  <2>1. \A q \in DOMAIN rows' : rows'[q].type = "local" => log'["old"][rows'[q].etag] \in applied'
    BY <1>2, <1>8 DEF Open, InOrder, Alike, Applied
  <2>2. \A q \in DOMAIN rows' : rows'[q].type = "remote" => rows'[q].etag <= token'["old"]
    BY <1>2, <1>8 DEF Open, InOrder, Alike
  <2>3. log'["old"][entry'.etag] \in applied'
    BY <1>2 DEF Open, InOrder, Applied
  <2> QED BY <1>1, <1>7, <2>1, <2>2, <2>3 DEF InOrder, Applied
<1>14. \A q \in Waiting : Ready(q) /\ (q # r \/ s = "validated") => Ready(q)'
  <2>1. ASSUME NEW q \in Waiting, q # r, Ready(q)
        PROVE  Ready(q)'
    <3>1. q \notin recent /\ ~rows[q].parked
      BY <1>1, <2>1 DEF Ready
    <3>2. q \notin recent' /\ ~rows'[q].parked
      BY <1>4, <1>9, <2>1, <3>1
    <3> QED BY <3>2 DEF Ready
  <2>2. s = "validated" => Ready(r)'
    BY <1>7 DEF Ready
  <2> QED BY <2>1, <2>2
<1>15. ASSUME ~Dead(log)
       PROVE  Apart'
  <2>1. Apart
    BY <1>15 DEF Open
  <2>2. InConflict = {} => \A q \in Waiting : Ready(q)'
    BY <1>7, <1>14, <2>1 DEF Apart
  <2>3. \A f \in InConflict : Clear(f) => Clear(f)'
    BY <1>2, <1>4, <1>8 DEF Clear, Alike
  <2>4. ASSUME NEW f \in InConflict, Leads(f), Echo(f)
        PROVE  Echo(f)'
    <3>1. s = "conflicted" => rows[r].etag # rows[f].etag
      <4>1. ASSUME s = "conflicted"
            PROVE  LocalConflict(rows[r], f)
        BY <1>7, <1>10, <2>4, <4>1
      <4>2. rows[f].op = "delete" => Dead(log)
        <5>1. Fits(rows[f], log) /\ rows[f].type = "remote" /\ rows[f].id = "old"
          BY <1>4 DEF Inv, Numbered, InConflict, Open, Plain
        <5> QED BY <5>1 DEF Fits
      <4> QED BY <1>6, <1>15, <4>1, <4>2 DEF LocalConflict
    <3>2. \A q \in Waiting : rows'[q].etag = rows[q].etag /\ q \in DOMAIN rows'
      BY <1>4, <1>8 DEF Alike
    <3>3. rows'[f].etag = rows[f].etag
      BY <1>4, <1>8 DEF Alike
    <3>4. \A q \in Waiting' : rows'[q].etag = rows'[f].etag => Ready(q)'
      BY <1>7, <1>8, <1>14, <2>4, <3>1, <3>2, <3>3 DEF Echo, Alike
    <3>5. ASSUME entry.etag = rows[f].etag
          PROVE  \E q \in DOMAIN rows' : rows'[q].etag = rows'[f].etag /\ q \in Waiting'
      <4>1. PICK q \in Waiting : rows[q].etag = rows[f].etag
        BY <1>1, <2>4, <3>5 DEF Echo
      <4> QED BY <1>8, <3>2, <3>3, <4>1 DEF Alike
    <3>6. pc' \in (Working \ {"apply"}) \union {"listed", "local"}
      BY <1>7 DEF Working
    <3> QED BY <1>1, <1>2, <1>8, <2>4, <3>3, <3>4, <3>5, <3>6 DEF Echo, Alike
  <2>5. \A f \in InConflict' : Leads(f)' => Clear(f)' \/ Echo(f)'
    BY <1>8, <2>1, <2>3, <2>4 DEF Apart, Leads, Alike
  <2>6. pc' \notin {"idle", "downloads", "staged"}
    BY <1>7
  <2> QED BY <1>1, <1>8, <2>2, <2>5, <2>6 DEF Apart, Alike
<1>16. Paired'
  BY <1>2, <1>4, <1>8 DEF Open, Paired, Matches, Alike, Applied
<1>17. Spared'
  <2>1. ASSUME s = "validated", ~Dead(log), NEW g \in InConflict, ~Applied(rows[g].etag),
               rows[r].op # "rename"
        PROVE  FALSE
    <3>1. PICK f \in InConflict : f = First(InConflict) /\ Leads(f)
      BY <1>4, <2>1, FirstIsLeast DEF Leads
    <3>2. ~LocalConflict(rows[r], f)
      BY <1>7, <2>1, <3>1
    <3>3. rows[r].op \in {"update", "delete"}
      BY <1>6, <2>1, Ranges DEF Row
    <3>4. rows[r].etag = rows[f].etag
      BY <3>2, <3>3 DEF LocalConflict
    <3>5. Echo(f)
      BY <1>6, <2>1, <3>1, <3>4 DEF Open, Apart, Clear
    <3>6. g = f
      BY <2>1, <3>5 DEF Echo
    <3>7. Applied(rows[r].etag)
      BY <1>6 DEF Open, InOrder
    <3> QED BY <2>1, <3>4, <3>6, <3>7
  <2>2. \A f \in InConflict : rows'[f].etag = rows[f].etag
    BY <1>4, <1>8 DEF Alike
  <2> QED BY <1>2, <1>7, <1>8, <2>1, <2>2 DEF Spared, Applied, Alike
<1> QED BY <1>2, <1>11, <1>12, <1>13, <1>15, <1>16, <1>17 DEF Open, Dead

\* A local change is sent; what it was about has the version of the entry.
LEMMA SendOpen == Inv /\ Open /\ Send => Open'
<1> SUFFICES ASSUME Inv, Open, Send PROVE Open'
  OBVIOUS
<1>1. /\ pc = "begun" /\ pc' = "answered" /\ Served /\ SetStatus(cur, "processing")
      /\ todo = {} /\ todo' = {}
      /\ UNCHANGED <<token, entry, cur, item, call, applied>>
  BY DEF Send, history, Open, InTurn
<1>2. /\ cur \in DOMAIN rows /\ rows[cur].status = "validated" /\ item.type = "local"
      /\ item.id = "old" /\ rows[cur].type = "local" /\ rows[cur].id = "old"
      /\ item.etag = rows[cur].etag /\ rows[cur].op = item.op /\ item.op # "create"
      /\ entry.id = "old"
  BY <1>1 DEF Open, Plain, InTurn, Working, Inv, Numbered, AtHand
<1>3. Now(cur, "processing")
  BY <1>1, <1>2, StatusNow
<1>4. InConflict' = InConflict /\ Waiting' = Waiting \ {cur} /\ cur \in Waiting
  <2>1. cur \notin InConflict /\ cur \in Waiting
    BY <1>2 DEF InConflict, Waiting, Pending
  <2> QED BY <1>2, <1>3, <2>1, NowSets DEF Pending
<1>5. InConflict \subseteq DOMAIN rows /\ Waiting \subseteq DOMAIN rows
  BY DEF InConflict, Waiting
<1>6. /\ DOMAIN rows' = DOMAIN rows
      /\ \A q \in DOMAIN rows :
            /\ rows'[q].type = rows[q].type /\ rows'[q].op = rows[q].op
            /\ rows'[q].id = rows[q].id /\ rows'[q].etag = rows[q].etag
      /\ \A q \in DOMAIN rows : q # cur => rows'[q] = rows[q]
      /\ rows'[cur].status = "processing" /\ recent' = recent \union {cur}
  BY <1>2, <1>3, NowKeeps DEF Now
<1>7. Exists("old") /\ ~Dead(log)
  <2>1. Exists("old")
    BY <1>1, <1>2 DEF Served
  <2> QED BY <2>1 DEF Exists, Top, Dead
<1>8. PICK c \in Nat :
         /\ log' = [log EXCEPT !["old"] = Append(@, c)] /\ answer'.id = "old"
         /\ item.op = "delete" => c = 0
         /\ item.op # "delete" => answer'.etag = Etag("old") + 1
         /\ item.op = "rename" => c = Top("old")
  <2>1. disk \in Nat /\ Top("old") \in Nat
    BY TopIsContent, Types DEF Inv, TypeOK, Ids
  <2>2. CASE item.op = "update"
    <3>1. PICK n \in Nat : n = Etag("old") + 1
      BY Ranges DEF Etag
    <3>2. /\ log' = [log EXCEPT !["old"] = Append(@, disk)]
          /\ answer' = [entry EXCEPT !.etag = n, !.ctag = disk, !.own = TRUE]
      BY <1>2, <2>2, <3>1 DEF Send, Append_
    <3>3. entry \in Entry
      BY DEF Inv, TypeOK
    <3>4. answer'.id = entry.id /\ answer'.etag = n
      BY <3>2, <3>3 DEF Entry
    <3> QED BY <1>2, <2>1, <2>2, <3>1, <3>2, <3>4
  <2>3. CASE item.op = "delete"
    <3>1. /\ log' = [log EXCEPT !["old"] = Append(@, 0)] /\ answer'.id = "old"
      BY <1>2, <2>3 DEF Send, Append_
    <3> QED BY <2>3, <3>1
  <2>4. CASE item.op = "rename"
    <3>1. /\ log' = [log EXCEPT !["old"] = Append(@, Top("old"))] /\ answer'.id = "old"
          /\ answer'.etag = Etag("old") + 1
      BY <1>2, <2>4 DEF Send, Append_
    <3> QED BY <2>1, <2>4, <3>1
  <2> QED BY <1>2, <2>2, <2>3, <2>4 DEF Send
<1>9. /\ \A e \in DOMAIN log["old"] : log'["old"][e] = log["old"][e]
      /\ Dead(log') <=> c = 0
  BY <1>8, VersionsStay DEF Ids
<1>10. \A e \in DOMAIN log["old"] : log["old"][e] \in applied => log'["old"][e] \in applied'
  BY <1>1, <1>9
<1>11. Plain'
  BY <1>1, <1>2, <1>6, <1>8 DEF Open, Plain, Working
<1>12. InTurn'
  <2>1. \A q \in DOMAIN rows :
           /\ rows[q].status \notin {"cancelled", "processing"}
           /\ rows[q].type = "remote" => rows[q].status \notin {"new", "validated", "error"}
    BY <1>1, NoneElse
  <2> QED BY <1>1, <1>2, <1>6, <2>1 DEF InTurn
<1>13. InOrder'
  <2>1. \A q \in DOMAIN rows' : rows'[q].type = "local" => log'["old"][rows'[q].etag] \in applied'
    BY <1>6, <1>10, VersionsKnown DEF Open, InOrder, Applied
  <2>2. \A q \in DOMAIN rows' : rows'[q].type = "remote" => rows'[q].etag <= token'["old"]
    BY <1>1, <1>6 DEF Open, InOrder
  <2>3. log'["old"][entry'.etag] \in applied'
    BY <1>1, <1>10, VersionsKnown DEF Open, InOrder, Applied
  <2>4. IF item'.op = "delete" THEN Dead(log') ELSE token'["old"] < answer'.etag
    <3>1. Etag("old") \in Nat /\ token["old"] <= Etag("old") /\ token["old"] \in Nat
      BY Ranges DEF Etag
    <3> QED BY <1>1, <1>8, <1>9, <3>1
  <2> QED BY <1>1, <2>1, <2>2, <2>3, <2>4 DEF InOrder, Applied
<1>14. Apart'
  <2>1. Apart
    BY <1>7 DEF Open
  <2>2. ASSUME NEW q \in Waiting', Ready(q)
        PROVE  Ready(q)'
    <3>1. q \in DOMAIN rows /\ q # cur /\ q \in Waiting
      BY <1>4, <1>5
    <3> QED BY <1>2, <1>3, <2>2, <3>1, NowKeeps
  <2>3. ASSUME NEW f \in InConflict, Clear(f)
        PROVE  Clear(f)'
    BY <1>1, <1>4, <1>5, <1>6, <2>3 DEF Clear
  <2>4. ASSUME NEW f \in InConflict, Echo(f)
        PROVE  Echo(f)'
    <3>1. rows'[f].etag = rows[f].etag /\ \A q \in Waiting : rows'[q].etag = rows[q].etag
      BY <1>5, <1>6
    <3>2. \A q \in Waiting' : rows'[q].etag = rows'[f].etag => Ready(q)'
      BY <1>4, <2>2, <2>4, <3>1 DEF Echo
    <3>3. ASSUME entry.etag = rows[f].etag
          PROVE  \E q \in DOMAIN rows' : /\ rows'[q].etag = rows'[f].etag
                                         /\ q \in Waiting' \/ (pc' = "answered" /\ q = cur')
      <4>1. PICK q \in Waiting : rows[q].etag = rows[f].etag
        BY <1>1, <2>4, <3>3 DEF Echo
      <4> QED BY <1>1, <1>4, <1>5, <1>6, <3>1, <4>1
    <3> QED BY <1>1, <1>4, <2>4, <3>2, <3>1, <3>3 DEF Echo, Working
  <2>5. \A f \in InConflict' : Leads(f)' => Clear(f)' \/ Echo(f)'
    BY <1>4, <2>1, <2>3, <2>4 DEF Apart, Leads
  <2>6. InConflict' = {} => \A q \in Waiting' : Ready(q)'
    BY <1>4, <2>1, <2>2 DEF Apart
  <2> QED BY <1>1, <2>5, <2>6 DEF Apart
<1>15. Paired'
  <2>1. ASSUME NEW f \in InConflict, ~Applied(rows[f].etag)
        PROVE  Matches'
    <3>1. item.op = "rename" /\ c = Top("old") /\ c # 0
      BY <1>1, <1>7, <1>8, <2>1 DEF Open, Spared, Exists
    <3>2. PICK l \in Waiting : rows[l].op \in {"update", "delete"}
      BY <1>7, <2>1 DEF Open, Paired, Matches
    <3>3. l \in Waiting' /\ rows'[l].op = rows[l].op
      BY <1>2, <1>4, <1>5, <1>6, <3>1, <3>2
    <3> QED BY <1>9, <3>1, <3>2, <3>3 DEF Matches
  <2>2. \A f \in InConflict : /\ rows'[f].etag = rows[f].etag
                              /\ Applied(rows[f].etag) => log'["old"][rows[f].etag] \in applied'
    BY <1>5, <1>6, <1>10, VersionsKnown DEF Open, Applied
  <2> QED BY <1>4, <2>1, <2>2 DEF Paired, Applied
<1>16. Spared'
  BY <1>1 DEF Spared
<1> QED BY <1>11, <1>12, <1>13, <1>14, <1>15, <1>16 DEF Open

\* The answer is stored: the entry is newer than what was reported.
LEMMA StoreAnswerOpen == Inv /\ Open /\ StoreAnswer => Open'
<1> SUFFICES ASSUME Inv, Open, StoreAnswer PROVE Open'
  OBVIOUS
<1>1. /\ pc = "answered" /\ pc' = "closing" /\ todo = {} /\ todo' = {} /\ cur \in DOMAIN rows
      /\ answer.id = "old" /\ entry.id = "old" /\ answer.etag # 0
      /\ UNCHANGED <<log, token, rows, recent, cur, item, call>>
  <2>1. /\ pc = "answered" /\ pc' = "closing" /\ UNCHANGED todo
        /\ UNCHANGED <<log, token, rows, recent, cur, item, call>>
    BY DEF StoreAnswer, onedrive
  <2>2. answer.id = "old" /\ entry.id = "old" /\ todo = {}
    BY <2>1 DEF Open, Plain, InTurn
  <2>3. cur \in DOMAIN rows /\ answer.etag \in DOMAIN log["old"]
    BY <2>1, <2>2 DEF Inv, Numbered, AtHand
  <2>4. answer.etag # 0
    BY <2>3, Ranges
  <2> QED BY <2>1, <2>2, <2>3, <2>4
<1>2. entry' = answer /\ applied' = applied \union {log["old"][answer.etag]}
  BY <1>1 DEF StoreAnswer
<1>3. InConflict' = InConflict /\ Waiting' = Waiting
  BY <1>1, SetsStay
<1>4. InConflict \subseteq DOMAIN rows /\ Waiting \subseteq DOMAIN rows
  BY DEF InConflict, Waiting
<1>5. Plain'
  BY <1>1, <1>2 DEF Open, Plain, Working
<1>6. InTurn'
  BY <1>1, <1>3 DEF Open, InTurn
<1>7. InOrder'
  BY <1>1, <1>2, <1>3 DEF Open, InOrder, Applied
<1>8. ASSUME ~Dead(log)
      PROVE  Apart'
  <2>1. Apart /\ token["old"] < answer.etag
    BY <1>1, <1>8 DEF Open, InOrder
  <2>2. \A q \in Waiting : Ready(q) => Ready(q)'
    BY <1>1 DEF Ready
  <2>3. ASSUME NEW f \in InConflict
        PROVE  entry'.etag # rows[f].etag
    <3>1. rows[f].etag <= token["old"] /\ rows[f].etag \in Nat /\ token["old"] \in Nat
            /\ answer.etag \in Nat
      BY <1>4, Ranges DEF Open, InOrder, InConflict
    <3> QED BY <1>2, <2>1, <3>1
  <2>4. ASSUME NEW f \in InConflict, Clear(f)
        PROVE  Clear(f)'
    BY <1>1, <1>3, <2>3, <2>4 DEF Clear
  <2>5. ASSUME NEW f \in InConflict, Echo(f)
        PROVE  Echo(f)'
    BY <1>1, <1>3, <2>2, <2>3, <2>5 DEF Echo, Working
  <2> QED BY <1>1, <1>3, <2>1, <2>2, <2>4, <2>5 DEF Apart, Leads
<1>9. Paired'
  BY <1>1, <1>2, <1>3 DEF Open, Paired, Matches, Applied
<1>10. Spared'
  BY <1>1 DEF Spared
<1> QED BY <1>1, <1>5, <1>6, <1>7, <1>8, <1>9, <1>10 DEF Open, Dead

-----------------------------------------------------------------------------
\* A cycle starts.

\* A bounded set of numbers has a greatest one.
LEMMA Greatest ==
    ASSUME NEW n \in Nat, NEW S \in SUBSET (0..n), S # {}
    PROVE  \E m \in S : \A x \in S : x <= m
<1> DEFINE T == {n - x : x \in S}
<1>0. \A x \in S : n - x \in Nat
  OBVIOUS
<1>1. T \in SUBSET Nat /\ T # {}
  BY <1>0
<1>2. PICK k \in T : \A y \in T : k <= y
  BY <1>1, Least
<1>3. PICK m \in S : k = n - m
  OBVIOUS
<1>4. ASSUME NEW x \in S
      PROVE  x <= m
  <2>1. n - x \in T
    OBVIOUS
  <2>2. n - m <= n - x /\ x \in Nat /\ m \in Nat
    BY <1>2, <1>3, <2>1
  <2> QED BY <2>2
<1> QED BY <1>4

\* Squashing the rows of one id keeps one, and one that deletes or sends content
\* where there was one.
LEMMA KeptSome ==
    ASSUME NEW n \in Nat, NEW W \in SUBSET (0..n), NEW t,
           \A r \in W : t[r].op \in {"update", "rename", "delete"}
    PROVE  /\ Kept(t, W) \subseteq W
           /\ W # {} => Kept(t, W) # {}
           /\ \A l \in W : t[l].op \in {"update", "delete"} =>
                 \E k \in Kept(t, W) : t[k].op \in {"update", "delete"}
<1> DEFINE OfOp(op) == {r \in W : t[r].op = op}
           LastOf(s) == {r \in s : \A q \in s : q <= r}
<1>1. OfOp("create") = {}
  OBVIOUS
<1>2. Kept(t, W) = OfOp("delete") \union LastOf(OfOp("update")) \union LastOf(OfOp("rename"))
  BY <1>1 DEF Kept
<1>3. ASSUME NEW s \in SUBSET (0..n), s # {}
      PROVE  LastOf(s) # {}
  <2>1. PICK m \in s : \A x \in s : x <= m
    BY <1>3, Greatest
  <2> QED BY <2>1
<1>4. \A op : OfOp(op) \in SUBSET (0..n)
  OBVIOUS
<1>5. ASSUME NEW l \in W, t[l].op \in {"update", "delete"}
      PROVE  \E k \in Kept(t, W) : t[k].op \in {"update", "delete"}
  <2>1. CASE t[l].op = "delete"
    BY <1>2, <2>1
  <2>2. CASE t[l].op = "update"
    <3>1. OfOp("update") # {}
      BY <2>2
    <3>2. PICK k \in LastOf(OfOp("update")) : TRUE
      BY <1>3, <1>4, <3>1
    <3>3. t[k].op = "update"
      OBVIOUS
    <3> QED BY <1>2, <3>3
  <2> QED BY <1>5, <2>1, <2>2
<1>6. ASSUME W # {}
      PROVE  Kept(t, W) # {}
  <2>1. PICK l \in W : TRUE
    BY <1>6
  <2>2. CASE t[l].op \in {"update", "delete"}
    BY <1>5, <2>2
  <2>3. CASE t[l].op = "rename"
    <3>1. OfOp("rename") # {}
      BY <2>3
    <3>2. LastOf(OfOp("rename")) # {}
      BY <1>3, <1>4, <3>1
    <3> QED BY <1>2, <3>2
  <2> QED BY <2>1, <2>2, <2>3
<1>7. Kept(t, W) \subseteq W
  BY <1>2
<1> QED BY <1>5, <1>6, <1>7

\* The local rows of a table that squashing looks at.
Live(t) == {r \in DOMAIN t : t[r].type = "local" /\ t[r].status \notin {"done", "gone"}}

\* What squashing does when there are one id and no create: rows go.
LEMMA SquashedPlain ==
    ASSUME NEW t \in Seq(Row), \A r \in DOMAIN t : t[r].id = "old" /\ t[r].op # "create"
    PROVE  /\ DOMAIN Squashed(t) = DOMAIN t
           /\ \E keep \in {Live(t), Kept(t, Live(t))} : \A r \in DOMAIN t :
                 Squashed(t)[r] =
                    IF t[r].status = "done" \/ (t[r].type = "local" /\ r \notin keep)
                    THEN [t[r] EXCEPT !.status = "gone"] ELSE t[r]
<1> DEFINE Of(id) == {r \in DOMAIN t : t[r].type = "local" /\ t[r].id = id
                                         /\ t[r].status \notin {"done", "gone"}}
           Unsent(id) == \E r \in Of(id) : t[r].status \in {"new", "validated", "error"}
           Left(id) == IF Unsent(id) THEN Kept(t, Of(id)) ELSE Of(id)
           Keep == UNION {Left(id) : id \in Ids}
           Creates(r) == \E s \in Of(t[r].id) : t[s].op = "create"
           y(r) == IF t[r].status = "done" \/ (t[r].type = "local" /\ r \notin Keep)
                   THEN [t[r] EXCEPT !.status = "gone"]
                   ELSE IF t[r].type = "local" /\ Unsent(t[r].id) /\ Creates(r)
                   THEN [t[r] EXCEPT !.op = "create"] ELSE t[r]
<1>1. Squashed(t) = [r \in DOMAIN t |-> y(r)]
  BY DEF Squashed
<1>2. Of("old") = Live(t) /\ Of("local") = {} /\ Of("new") = {}
  BY DEF Live
<1>3. Left("local") = {} /\ Left("new") = {}
  BY <1>2
<1>4. Left("old") \in {Live(t), Kept(t, Live(t))}
  BY <1>2
<1>5. \A r \in DOMAIN t : ~Creates(r)
  OBVIOUS
<1> HIDE DEF Left
<1>6. Keep = Left("old")
  BY <1>3 DEF Ids
<1> HIDE DEF Keep, Of, Unsent, Creates
<1>7. \A r \in DOMAIN t :
         y(r) = IF t[r].status = "done" \/ (t[r].type = "local" /\ r \notin Left("old"))
                THEN [t[r] EXCEPT !.status = "gone"] ELSE t[r]
  BY <1>5, <1>6
<1> HIDE DEF y
<1> QED BY <1>1, <1>4, <1>7

\* The remote row of a version that is reported.
News(x) ==
    /\ x \in Row /\ x.type = "remote" /\ x.op # "create" /\ x.id = "old" /\ x.status = "new"
    /\ x.etag = Len(log["old"]) /\ token["old"] < x.etag

\* The delta adds one row or none.
LEMMA StartRows ==
    ASSUME Inv, Plain, Start
    PROVE  \E t \in Seq(Row) : /\ rows' = Squashed(t)
                               /\ t = rows \/ \E x : News(x) /\ t = Append(rows, x)
<1>1. PICK a, b : a = Reported("old") /\ b = Reported("new") /\ rows' = Squashed(rows \o a \o b)
  BY DEF Start
<1>2. /\ log["old"] \in Seq(Nat) /\ token["old"] \in Nat /\ token["old"] <= Len(log["old"])
      /\ entry.id = "old" /\ log["new"] = << >> /\ rows \in Seq(Row)
  BY Ranges DEF Plain, Inv, TypeOK, Numbered, Logs
<1>3. b = << >>
  <2>1. token["new"] \in Nat /\ token["new"] <= Len(log["new"])
    BY DEF Inv, TypeOK, Ids
  <2>2. Etag("new") = token["new"]
    BY <1>2, <2>1 DEF Etag
  <2> QED BY <1>1, <2>2 DEF Reported
<1>4. a = << >> \/ \E x : News(x) /\ a = <<x>>
  <2>1. CASE Etag("old") = token["old"] \/ Detected("old") = "none"
    BY <1>1, <2>1 DEF Reported
  <2>2. CASE ~(Etag("old") = token["old"] \/ Detected("old") = "none")
    <3>1. PICK x : x = NewRow("remote", Detected("old"), "old", Etag("old")) /\ a = <<x>>
      BY <1>1, <2>2 DEF Reported
    <3>2. PICK op \in {"delete", "update"}, e \in Nat :
             op = Detected("old") /\ e = Etag("old") /\ e = Len(log["old"]) /\ token["old"] < e
      BY <1>2, <2>2 DEF Detected, Etag
    <3>3. x = NewRow("remote", op, "old", e)
      BY <3>1, <3>2
    <3>4. /\ x \in Row /\ x.type = "remote" /\ x.op = op /\ x.id = "old" /\ x.status = "new"
          /\ x.etag = e
      BY <3>3 DEF NewRow, Row, Tag, Ids
    <3>5. News(x)
      BY <3>2, <3>4 DEF News
    <3> QED BY <3>1, <3>5
  <2> QED BY <2>1, <2>2
<1>5. CASE a = << >>
  <2>1. (rows \o a) \o b = rows
    BY <1>2, <1>3, <1>5
  <2> QED BY <1>1, <1>2, <2>1
<1>6. ASSUME NEW x, News(x), a = <<x>>
      PROVE  \E t \in Seq(Row) : rows' = Squashed(t) /\ t = Append(rows, x)
  <2>1. x \in Row
    BY <1>6 DEF News
  <2>2. rows \o <<x>> \o << >> = Append(rows, x) /\ Append(rows, x) \in Seq(Row)
    BY <1>2, <2>1
  <2> QED BY <1>1, <1>3, <1>6, <2>2
<1> QED BY <1>4, <1>5, <1>6

\* What becomes of the rows when a cycle starts.
Begins ==
    /\ DOMAIN rows \subseteq DOMAIN rows'
    /\ \A r \in DOMAIN rows :
          /\ rows'[r].type = rows[r].type /\ rows'[r].op = rows[r].op /\ rows'[r].id = rows[r].id
          /\ rows'[r].etag = rows[r].etag
          /\ rows'[r] = rows[r] \/ rows'[r].status = "gone"
    /\ \A r \in DOMAIN rows' \ DOMAIN rows :
          /\ News(rows'[r]) /\ \A q \in DOMAIN rows : q < r
          /\ DOMAIN rows' = DOMAIN rows \union {r}
    /\ InConflict' = InConflict /\ Waiting' \subseteq Waiting
    /\ Matches => Matches'

\* The start of a cycle does what Begins says.
LEMMA StartBegins ==
    ASSUME Inv, Plain, InTurn, Start
    PROVE  Begins
<1>1. PICK t \in Seq(Row) : /\ rows' = Squashed(t)
                            /\ t = rows \/ \E x : News(x) /\ t = Append(rows, x)
  BY StartRows
<1>2. /\ DOMAIN rows = 1..Len(rows) /\ Len(rows) \in Nat /\ rows \in Seq(Row)
      /\ \A r \in DOMAIN rows : rows[r] \in Row /\ rows[r].id = "old" /\ rows[r].op # "create"
  BY Ranges DEF Plain, Inv, TypeOK
<1>3. PICK n \in Nat : n = Len(rows) + 1
  BY <1>2
<1>4. /\ DOMAIN rows \subseteq DOMAIN t /\ \A r \in DOMAIN rows : t[r] = rows[r] /\ r < n
      /\ \A r \in DOMAIN t \ DOMAIN rows :
            r = n /\ News(t[r]) /\ DOMAIN t = DOMAIN rows \union {n}
  <2>1. CASE t = rows
    BY <1>2, <1>3, <2>1
  <2>2. ASSUME NEW x, News(x), t = Append(rows, x)
        PROVE  /\ DOMAIN t = DOMAIN rows \union {n} /\ t[n] = x
               /\ \A r \in DOMAIN rows : t[r] = rows[r] /\ r < n
    <3>1. x \in Row
      BY <2>2 DEF News
    <3> QED BY <1>2, <1>3, <2>2, <3>1
  <2> QED BY <1>1, <2>1, <2>2
<1>5. \A r \in DOMAIN t : t[r] \in Row /\ t[r].id = "old" /\ t[r].op # "create"
  BY <1>2, <1>4 DEF News
<1>6. pc = "idle" /\ todo = {} /\ log' = log
  BY DEF Start, InTurn, onedrive
<1>7. Live(t) = Waiting
  <2>1. \A r \in DOMAIN t \ DOMAIN rows : t[r].type = "remote"
    BY <1>4 DEF News
  <2>2. \A r \in DOMAIN rows : rows[r].status \notin {"cancelled", "processing"}
    BY <1>6 DEF InTurn
  <2>3. \A r \in DOMAIN rows : rows[r].status \in Pending \union {"done", "gone"}
    BY <1>2, <2>2 DEF Row, Pending
  <2> QED BY <1>4, <2>1, <2>3 DEF Live, Waiting, Pending
<1>8. DOMAIN rows' = DOMAIN t
  BY <1>1, <1>5, SquashedPlain
<1>9. PICK keep \in {Waiting, Kept(t, Waiting)} : \A r \in DOMAIN t :
         rows'[r] = IF t[r].status = "done" \/ (t[r].type = "local" /\ r \notin keep)
                    THEN [t[r] EXCEPT !.status = "gone"] ELSE t[r]
  BY <1>1, <1>5, <1>7, SquashedPlain
<1>10. /\ keep \subseteq Waiting
       /\ Waiting # {} => keep # {}
       /\ \A l \in Waiting : t[l].op \in {"update", "delete"} =>
             \E k \in keep : t[k].op \in {"update", "delete"}
  <2>1. Waiting \in SUBSET (0..n)
    BY <1>2, <1>3 DEF Waiting
  <2>2. \A r \in Waiting : t[r].op \in {"update", "rename", "delete"}
    BY <1>4, <1>5 DEF Waiting, Row
  <2> QED BY <1>9, <2>1, <2>2, KeptSome
<1>11. ASSUME NEW x \in Row
       PROVE  LET y == [x EXCEPT !.status = "gone"]
              IN  /\ y.type = x.type /\ y.op = x.op /\ y.id = x.id /\ y.etag = x.etag
                  /\ y.status = "gone"
  BY DEF Row
<1>12. \A r \in DOMAIN rows :
          /\ rows'[r].type = rows[r].type /\ rows'[r].op = rows[r].op /\ rows'[r].id = rows[r].id
          /\ rows'[r].etag = rows[r].etag
          /\ rows'[r] = rows[r] \/ rows'[r].status = "gone"
  <2>1. ASSUME NEW r \in DOMAIN rows
        PROVE  /\ rows'[r].type = rows[r].type /\ rows'[r].op = rows[r].op
               /\ rows'[r].id = rows[r].id /\ rows'[r].etag = rows[r].etag
               /\ rows'[r] = rows[r] \/ rows'[r].status = "gone"
    <3>1. PICK x \in Row : x = rows[r]
      BY <1>2
    <3>2. rows'[r] = x \/ rows'[r] = [x EXCEPT !.status = "gone"]
      BY <1>4, <1>9, <3>1
    <3> QED BY <1>11, <3>1, <3>2
  <2> QED BY <2>1
<1>13. \A r \in DOMAIN rows : /\ r \in InConflict => rows'[r] = rows[r]
                              /\ r \in keep => rows'[r] = rows[r]
                              /\ rows[r].type = "local" /\ r \notin keep => rows'[r].status = "gone"
  <2>1. ASSUME NEW r \in DOMAIN rows, r \in InConflict \/ r \in keep
        PROVE  rows'[r] = rows[r]
    <3>1. rows[r].status # "done" /\ (rows[r].type = "local" => r \in keep)
      BY <1>10, <2>1 DEF InConflict, Waiting, Pending
    <3> QED BY <1>4, <1>9, <3>1
  <2>2. ASSUME NEW r \in DOMAIN rows, rows[r].type = "local", r \notin keep
        PROVE  rows'[r].status = "gone"
    <3>1. PICK x \in Row : x = rows[r]
      BY <1>2
    <3>2. rows'[r] = [x EXCEPT !.status = "gone"]
      BY <1>4, <1>9, <2>2, <3>1
    <3> QED BY <1>11, <3>2
  <2> QED BY <2>1, <2>2
<1>14. \A r \in DOMAIN rows' \ DOMAIN rows :
          r = n /\ News(rows'[r]) /\ DOMAIN rows' = DOMAIN rows \union {r}
  <2>1. ASSUME NEW r \in DOMAIN rows' \ DOMAIN rows
        PROVE  rows'[r] = t[r] /\ r = n /\ News(t[r]) /\ DOMAIN rows' = DOMAIN rows \union {r}
    <3>1. r = n /\ News(t[r]) /\ DOMAIN rows' = DOMAIN rows \union {r} /\ r \in DOMAIN t
      BY <1>4, <1>8
    <3>2. t[r].type = "remote" /\ t[r].status = "new"
      BY <3>1 DEF News
    <3> QED BY <1>9, <3>1, <3>2
  <2> QED BY <2>1
<1>15. \A r \in DOMAIN rows' \ DOMAIN rows : rows'[r].type = "remote" /\ rows'[r].status = "new"
  BY <1>14 DEF News
<1>16. InConflict' = InConflict
  BY <1>4, <1>8, <1>12, <1>13, <1>15 DEF InConflict
<1>17. Waiting' = keep
  <2>1. keep \subseteq DOMAIN rows /\ \A r \in keep : rows[r].type = "local" /\ rows[r].status \in Pending
    BY <1>10 DEF Waiting
  <2> QED BY <1>4, <1>8, <1>12, <1>13, <1>15, <2>1 DEF Waiting, Pending
<1>18. Matches => Matches'
  <2>1. Waiting \subseteq DOMAIN rows
    BY DEF Waiting
  <2>2. \A k \in keep : rows'[k].op = t[k].op /\ t[k].op = rows[k].op
    BY <1>4, <1>10, <1>12, <2>1
  <2>3. \A l \in Waiting : rows[l].op = t[l].op
    BY <1>4, <2>1
  <2> QED BY <1>6, <1>10, <1>17, <2>2, <2>3 DEF Matches
<1> QED BY <1>4, <1>8, <1>10, <1>12, <1>14, <1>16, <1>17, <1>18 DEF Begins

\* A cycle starts.
LEMMA StartOpen == Inv /\ Open /\ Start => Open'
<1> SUFFICES ASSUME Inv, Open, Start PROVE Open'
  OBVIOUS
<1>1. Begins
  BY StartBegins DEF Open
<1>2. /\ pc = "idle" /\ pc' = "listed" /\ todo' = Listed(rows') /\ todo = {}
      /\ UNCHANGED <<log, entry, recent, cur, item, answer, call, applied>>
      /\ token'["old"] = Len(log["old"])
  BY DEF Start, onedrive, history, Open, InTurn, Ids, Etag
<1>3. /\ InConflict \subseteq DOMAIN rows /\ Waiting \subseteq DOMAIN rows
      /\ InConflict' = InConflict /\ Waiting' \subseteq Waiting
  BY <1>1 DEF InConflict, Waiting, Begins
<1>4. /\ DOMAIN rows \subseteq DOMAIN rows'
      /\ \A r \in DOMAIN rows :
            /\ rows'[r].type = rows[r].type /\ rows'[r].op = rows[r].op
            /\ rows'[r].id = rows[r].id /\ rows'[r].etag = rows[r].etag
            /\ rows'[r] = rows[r] \/ rows'[r].status = "gone"
      /\ \A r \in DOMAIN rows' \ DOMAIN rows :
            /\ rows'[r].type = "remote" /\ rows'[r].op # "create" /\ rows'[r].id = "old"
            /\ rows'[r].status = "new" /\ rows'[r].etag = Len(log["old"])
            /\ token["old"] < rows'[r].etag
            /\ (\A q \in DOMAIN rows : q < r) /\ DOMAIN rows' = DOMAIN rows \union {r}
  BY <1>1 DEF Begins, News
<1>5. \A x \in todo' :
         x.at \in DOMAIN rows' \ DOMAIN rows /\ x.row = rows'[x.at] /\ todo' = {x}
  <2>1. \A r \in DOMAIN rows : rows[r].type = "remote" => rows[r].status \notin {"new", "validated", "error"}
    BY <1>2 DEF Open, InTurn
  <2>2. \A x \in todo' : /\ x.at \in DOMAIN rows' \ DOMAIN rows /\ x.row = rows'[x.at]
                         /\ x = [at |-> x.at, row |-> rows'[x.at]]
    BY <1>2, <1>4, <2>1 DEF Listed
  <2>3. ASSUME NEW x \in todo', NEW z \in todo'
        PROVE  x = z
    <3>1. PICK r \in DOMAIN rows' \ DOMAIN rows, q \in DOMAIN rows' \ DOMAIN rows :
             r = x.at /\ q = z.at
      BY <2>2
    <3>2. DOMAIN rows' = DOMAIN rows \union {r}
      BY <1>4
    <3>3. q = r
      BY <3>2
    <3> QED BY <2>2, <3>1, <3>3
  <2> QED BY <2>2, <2>3
<1>6. \A r \in DOMAIN rows' \ DOMAIN rows : \E x \in todo' : x.at = r
  <2>1. ASSUME NEW r \in DOMAIN rows' \ DOMAIN rows
        PROVE  [at |-> r, row |-> rows'[r]] \in todo'
    <3>1. rows'[r].type = "remote" /\ rows'[r].status = "new"
      BY <1>4
    <3> QED BY <1>2, <3>1 DEF Listed
  <2> QED BY <2>1
<1>14. \A x \in todo' :
          /\ x.row.status = "new" /\ x.row.etag = Len(log["old"]) /\ token["old"] < x.row.etag
          /\ \A q \in DOMAIN rows : q < x.at
  <2>1. ASSUME NEW x \in todo'
        PROVE  /\ x.row.status = "new" /\ x.row.etag = Len(log["old"])
               /\ token["old"] < x.row.etag /\ \A q \in DOMAIN rows : q < x.at
    <3>1. PICK r \in DOMAIN rows' \ DOMAIN rows : r = x.at /\ x.row = rows'[r]
      BY <1>5
    <3>2. /\ rows'[r].status = "new" /\ rows'[r].etag = Len(log["old"])
          /\ token["old"] < rows'[r].etag /\ \A q \in DOMAIN rows : q < r
      BY <1>4
    <3> QED BY <3>1, <3>2
  <2> QED BY <2>1
<1>7. pc \notin Working /\ pc' \notin Working
  BY <1>2 DEF Working
<1>8. Plain'
  <2>1. \A r \in DOMAIN rows' : rows'[r].id = "old" /\ rows'[r].op # "create"
    <3>1. \A r \in DOMAIN rows : rows'[r].id = "old" /\ rows'[r].op # "create"
      BY <1>4 DEF Open, Plain
    <3>2. \A r \in DOMAIN rows' \ DOMAIN rows : rows'[r].id = "old" /\ rows'[r].op # "create"
      BY <1>4
    <3> QED BY <3>1, <3>2
  <2>2. \A x \in todo' : rows'[x.at] = x.row
    BY <1>5
  <2>3. pc' # "answered"
    BY <1>2
  <2> QED BY <1>2, <1>7, <2>1, <2>2, <2>3 DEF Open, Plain
<1>9. InTurn'
  <2>1. \A r \in DOMAIN rows :
           /\ rows'[r].status \notin {"cancelled", "processing"}
           /\ rows'[r].type = "remote" => rows'[r].status \notin {"new", "validated", "error"}
    BY <1>2, <1>4 DEF Open, InTurn
  <2>2. \A x \in todo' : x.row.status = "new"
    BY <1>14
  <2> QED BY <1>2, <1>4, <1>5, <1>6, <2>1, <2>2 DEF InTurn
<1>10. InOrder'
  <2>1. token["old"] \in Nat /\ Len(log["old"]) \in Nat /\ token["old"] <= Len(log["old"])
          /\ \A r \in DOMAIN rows : rows[r].etag \in Nat
    BY Ranges
  <2>2. \A r \in DOMAIN rows' : rows'[r].type = "remote" => rows'[r].etag <= token'["old"]
    <3>1. \A r \in DOMAIN rows : rows[r].type = "remote" => rows[r].etag <= Len(log["old"])
      BY <2>1 DEF Open, InOrder
    <3>2. \A r \in DOMAIN rows : rows'[r].type = "remote" => rows'[r].etag <= Len(log["old"])
      BY <1>4, <3>1
    <3>3. \A r \in DOMAIN rows' \ DOMAIN rows : rows'[r].etag <= Len(log["old"])
      <4>1. ASSUME NEW r \in DOMAIN rows' \ DOMAIN rows
            PROVE  rows'[r].etag <= Len(log["old"])
        <5>1. rows'[r].etag = Len(log["old"])
          BY <1>4
        <5> QED BY <2>1, <5>1
      <4> QED BY <4>1
    <3> QED BY <1>2, <3>2, <3>3
  <2>3. \A r \in DOMAIN rows' : rows'[r].type = "local" => log'["old"][rows'[r].etag] \in applied'
    BY <1>2, <1>4 DEF Open, InOrder, Applied
  <2>4. log'["old"][entry'.etag] \in applied'
    BY <1>2 DEF Open, InOrder, Applied
  <2>5. \A f \in InConflict, x \in todo' : f < x.at /\ rows'[f].etag < x.row.etag
    <3>1. ASSUME NEW f \in InConflict, NEW x \in todo'
          PROVE  f < x.at /\ rows'[f].etag < x.row.etag
      <4>1. rows[f].etag <= token["old"]
        BY <1>3 DEF Open, InOrder, InConflict
      <4>2. token["old"] < x.row.etag /\ x.row.etag = Len(log["old"]) /\ f < x.at
        BY <1>3, <1>14
      <4>3. rows[f].etag < x.row.etag
        BY <1>3, <2>1, <4>1, <4>2
      <4> QED BY <1>3, <1>4, <4>2, <4>3
    <3> QED BY <3>1
  <2> QED BY <1>2, <1>3, <2>2, <2>3, <2>4, <2>5 DEF InOrder, Applied
<1>11. ASSUME ~Dead(log)
       PROVE  Apart'
  <2>1. Apart
    BY <1>11 DEF Open
  <2>2. ASSUME NEW q \in Waiting'
        PROVE  /\ q \in Waiting /\ rows'[q] = rows[q] /\ (Ready(q) => Ready(q)')
    <3>1. q \in Waiting /\ q \in DOMAIN rows
      BY <1>3
    <3>2. rows'[q].status # "gone"
      BY <2>2 DEF Waiting, Pending
    <3>3. rows'[q] = rows[q]
      BY <1>4, <3>1, <3>2
    <3>4. Ready(q) => Ready(q)'
      BY <1>2, <3>3 DEF Ready
    <3> QED BY <3>1, <3>3, <3>4
  <2>3. ASSUME NEW f \in InConflict, Leads(f)
        PROVE  Clear(f)'
    <3>1. Clear(f)
      BY <1>2, <2>1, <2>3 DEF Apart, Echo, Working
    <3>2. rows'[f].etag = rows[f].etag
      BY <1>3, <1>4
    <3> QED BY <1>2, <2>2, <3>1, <3>2 DEF Clear
  <2>4. InConflict = {} => \A q \in Waiting' : rows'[q].etag = entry'.etag /\ Ready(q)'
    BY <1>2, <2>1, <2>2 DEF Apart
  <2> QED BY <1>3, <2>3, <2>4 DEF Apart, Leads
<1>12. Paired'
  <2>1. \A f \in InConflict : rows'[f].etag = rows[f].etag
    BY <1>3, <1>4
  <2>2. Matches => Matches'
    BY <1>1 DEF Begins
  <2> QED BY <1>2, <1>3, <2>1, <2>2 DEF Open, Paired, Applied
<1>13. Spared'
  BY <1>2 DEF Spared
<1> QED BY <1>2, <1>8, <1>9, <1>10, <1>11, <1>12, <1>13 DEF Open, Dead

-----------------------------------------------------------------------------
\* All the steps.

\* At the start there is no row.
LEMMA InitOpen == Init => Open
<1> SUFFICES ASSUME Init PROVE Open
  OBVIOUS
<1>1. /\ rows = << >> /\ todo = {} /\ pc = "idle" /\ applied = {1} /\ entry.id = "old"
      /\ entry.etag = 1 /\ log["old"] = <<1>> /\ \A c \in Calls : call[c].pc = "idle"
  BY Records DEF Init, Ids
<1>2. DOMAIN rows = {} /\ InConflict = {} /\ Waiting = {} /\ log["old"][1] = 1
  BY <1>1 DEF InConflict, Waiting
<1> QED BY <1>1, <1>2 DEF Open, Plain, InTurn, InOrder, Applied, Apart, Paired, Spared, Working

\* The steps that only a call or its answer make possible.
LEMMA NotOpen ==
    ASSUME Inv, Open
    PROVE  /\ ~SendNew /\ ~Panics /\ ~Crash
           /\ \A c \in Calls : ~Answer(c)
<1>1. pc = "begun" => item.op # "create" /\ item.id = "old" /\ entry.id = "old"
  BY DEF Open, Plain, Working, Inv, Numbered, AtHand
<1>2. ~SendNew /\ ~Panics
  BY <1>1 DEF SendNew, Panics, Unwraps, Known
<1>3. \A c \in Calls : call[c].pc = "idle"
  BY DEF Open, Plain
<1> QED BY <1>2, <1>3 DEF Crash, AtWork, Answer, Cancel, Requeue, RenameEntry

\* Every step keeps it, until an answer is given.
LEMMA OpenNext == Inv /\ (yielded # {} \/ Open) /\ [Next]_vars => (yielded # {} \/ Open)'
<1> SUFFICES ASSUME Inv, yielded # {} \/ Open, [Next]_vars PROVE yielded' # {} \/ Open'
  OBVIOUS
<1>1. CASE yielded # {}
  <2> USE DEF history
  <2>1. RemoteEdit \/ User \/ TimePasses \/ DayPasses \/ Crash => yielded' = yielded
    BY DEF RemoteEdit, User, Write, Unlink, Rename, LocalChange, TimePasses, DayPasses, Crash
  <2>2. Cycle => yielded' = yielded
    <3>1. Start \/ CheckRemote \/ Park \/ Apply \/ FinishRow => yielded' = yielded
      BY DEF Start, CheckRemote, Park, Apply, FinishRow
    <3>2. CheckLocal \/ Panics \/ Refused \/ Send \/ StoreAnswer => yielded' = yielded
      BY DEF CheckLocal, Panics, Refused, Send, StoreAnswer
    <3>3. SendNew \/ Downloads \/ FetchContent \/ MoveToLocal => yielded' = yielded
      BY DEF SendNew, Downloads, FetchContent, MoveToLocal
    <3> QED BY <3>1, <3>2, <3>3 DEF Cycle
  <2>3. \A c \in Calls : Answer(c) => yielded' = yielded
    BY DEF Answer, Cancel, Requeue, RenameEntry
  <2>4. \A c \in Calls, r \in shown, choice \in Choices :
           Ask(c, r, choice) => yielded \subseteq yielded'
    BY DEF Ask
  <2>5. UNCHANGED vars => yielded' = yielded
    BY DEF vars
  <2> QED BY <1>1, <2>1, <2>2, <2>3, <2>4, <2>5 DEF Next
<1>2. ASSUME NEW c \in Calls, NEW r \in shown, NEW choice \in Choices, Ask(c, r, choice)
      PROVE  yielded' # {}
  BY <1>2 DEF Ask
<1>3. CASE Open
  <2>1. CASE RemoteEdit \/ User \/ TimePasses \/ DayPasses \/ Crash
    BY <1>3, <2>1, RemoteEditOpen, UserOpen, CalmOpen, NotOpen
  <2>2. CASE Cycle
    BY <1>3, <2>2, StartOpen, CheckRemoteOpen, ParkOpen, ApplyOpen, FinishRowOpen, CheckLocalOpen,
       RefusedOpen, SendOpen, StoreAnswerOpen, CalmOpen, NotOpen DEF Cycle
  <2>3. ASSUME NEW c \in Calls, Answer(c)
        PROVE  FALSE
    BY <1>3, <2>3, NotOpen
  <2>4. CASE UNCHANGED vars
    <3>1. /\ applied \subseteq applied' /\ log' = log
          /\ UNCHANGED <<token, entry, rows, recent, pc, Steps, call>>
      BY <2>4 DEF vars, onedrive, table, cycle, history, Steps
    <3> QED BY <1>3, <3>1, LogOpen
  <2> QED BY <1>2, <2>1, <2>2, <2>3, <2>4 DEF Next
<1> QED BY <1>1, <1>3

\* A conflict that is shown can be answered: a change of another client in
\* conflict has a pending local row, until the user has answered one.
THEOREM ConflictsAreAnswerable == Spec => []Answerable
<1>1. Inv /\ (yielded # {} \/ Open) => Answerable
  <2>1. ASSUME Inv, Open
        PROVE  Answerable
    <3>1. ASSUME NEW r \in InConflict, ~Applied(rows[r].etag)
          PROVE  PendingOf(rows[r].id, "local") # {}
      <4>1. Waiting # {}
        BY <2>1, <3>1 DEF Open, Paired, Matches
      <4>2. rows[r].id = "old"
        BY <2>1 DEF Open, Plain, InConflict
      <4> QED BY <2>1, <4>1, <4>2, PendingRows DEF Open
    <3>2. \A r \in InConflict : rows[r].id = "old"
      BY <2>1 DEF Open, Plain, InConflict
    <3> QED BY <3>1, <3>2 DEF Answerable, Applied, InConflict
  <2> QED BY <2>1 DEF Answerable
<1>2. Init => Inv /\ (yielded # {} \/ Open)
  BY InitInv, InitOpen
<1> QED BY <1>1, <1>2, NextInv, OpenNext, PTL DEF Spec

=============================================================================
