-------------------------- MODULE FolderTreeProofs --------------------------
(***************************************************************************)
(* What the tables of FolderTree keep through every request, rebuilding,   *)
(* failure and kill, for every number of them.                             *)
(*                                                                         *)
(* Identity: an id names one entry; a temporary one is minus its inode.    *)
(* RowsSound, Parents: rows and parents name entries or items that were    *)
(* made, and the id a row to create has for its parent is in the table, or *)
(* was replaced there and is in `cut`.  FuseSound,                         *)
(* CycleSound: what the request of FUSE and the row of the cycle hold      *)
(* between two statements.  Cared: an entry with a temporary id is         *)
(* deleted, lost, or has somebody who creates it.  One lemma per action    *)
(* shows that it keeps their conjunction Inv; the frame lemmas before them *)
(* (EntriesStep, RowsStep, ServerEffect, LeaveStep) say what is left to    *)
(* show for an action that changes entries, rows or items only.            *)
(***************************************************************************)
EXTENDS FolderTree, FiniteSetTheorems, SequenceTheorems, WellFoundedInduction, TLAPS

-----------------------------------------------------------------------------
\* The root stays what and where it is, on both sides.
Root ==
    /\ Len(db) >= 3 /\ Len(server) >= 3
    /\ db[1].id = 1 /\ db[1].pino = 0 /\ ~db[1].deleted
    /\ \A i \in DOMAIN db : i # 1 => db[i].path # << >>
    /\ server[1].path = << >>
    /\ \A n \in DOMAIN server : n # 1 => server[n].path # << >>

\* An entry's id: the temporary one it was made with, or one of OneDrive.
Identity ==
    /\ \A i \in DOMAIN db : db[i].id = -i \/ db[i].id \in DOMAIN server
    /\ \A i, j \in DOMAIN db : db[i].id = db[j].id => i = j
    /\ \A i \in DOMAIN db : db[i].id > 0 => server[db[i].id].by \in {0, i}

\* The items of OneDrive: made here or by others; a deleted one that was made
\* here is in `removed`.
Made ==
    /\ \A n \in DOMAIN server : server[n].by \in 0..Len(db)
    /\ \A n \in DOMAIN server : server[n].by # 0 => Live(n) \/ server[n].by \in removed
    /\ \A k \in DOMAIN feed : feed[k].id # 1
                               /\ (feed[k].op = "create" => server[feed[k].id].by = 0)
    /\ \A n \in DOMAIN server : n # 1 => server[n].parent \in DOMAIN server

\* An id that is, or was, somebody's.
Ref == {-i : i \in DOMAIN db} \union 0..Len(server)

\* A row of the delta names an item of OneDrive.
FromDelta(row) ==
    /\ row.id \in DOMAIN server /\ row.pid \in DOMAIN server
    /\ row.op = "create" => server[row.id].by = 0
\* An id that an entry has, or had until a row was left with it.
Named(id) == Known(id) \/ id \in cut
\* A row that creates an item names an entry that was made here.
ToCreate(row) ==
    /\ Named(row.id)
    /\ row.id > 0 => row.id \in DOMAIN server /\ server[row.id].by # 0
RowSound(row) ==
    /\ row.id \in Ref \ {1} /\ row.pid \in Ref
    /\ row.type = "remote" => FromDelta(row)
    /\ row.type = "local" /\ row.op = "create" /\ row.status # "gone" => ToCreate(row)
RowsSound ==
    /\ \A r \in DOMAIN rows : RowSound(rows[r])
    /\ \A i \in DOMAIN db : db[i].pid \in Ref

\* The parent of a row to create is in the table, unless its id was replaced there
\* and the row left with the old one.
HasParent(row) == Named(row.pid)
Parents ==
    \A r \in DOMAIN rows :
        rows[r].type = "local" /\ rows[r].op = "create" /\ rows[r].status # "gone" =>
            HasParent(rows[r])

\* The request of FUSE between its statements: nothing refers to a new entry
\* before its row is stored, and an entry it removes is marked.
Unreferred(i) ==
    /\ \A r \in DOMAIN rows : rows[r].id # -i /\ rows[r].pid # -i
    /\ item.id # -i /\ item.pid # -i
    /\ \A j \in DOMAIN db : db[j].pid # -i
    /\ under # i /\ \A k \in DOMAIN chain : chain[k] # i
FuseSound ==
    /\ fuse \in [pc : {"idle", "insert", "row"}, ino : Nat, row : Row]
    /\ fuse.pc # "idle" =>
          /\ fuse.ino \in DOMAIN db /\ fuse.row.pid \in Ref
          /\ fuse.row.type = "local" /\ fuse.row.status = "new"
    /\ fuse.pc = "insert" => fuse.row.op = "create"
    /\ fuse.pc = "row" =>
          /\ fuse.ino # 1 /\ fuse.row.id \in Ref \ {1}
          /\ IF fuse.row.op = "create"
             THEN fuse.row.id = -fuse.ino /\ db[fuse.ino].id = -fuse.ino /\ Unreferred(fuse.ino)
             ELSE /\ fuse.row.id < 0 => fuse.row.id = -fuse.ino
                  /\ db[fuse.ino].id < 0 => db[fuse.ino].deleted \/ fuse.ino \in lost

\* The cycle between its statements.
Remotely == {"restore", "reset", "apply"}
Rebuilding == {"climb", "rebuild", "made"}
Creating == {"created", "fetch"} \union Replacements
\* The rows have the new id, what names it as a parent may not.
Renamed == {"parents", "rowparents"}
CycleSound ==
    /\ pc \in {"idle", "listed"} => cur = 0
    /\ pc \notin {"idle", "listed"} => cur \in DOMAIN rows
    /\ item.pid \in Ref /\ item.id \in Ref \ {1}
    /\ \A r \in todo : rows[r].type = "remote"
    /\ pc \in Remotely => rows[cur].type = "remote" /\ item.type = "remote" /\ FromDelta(item)
    /\ pc \in {"restore", "reset"} => Known(item.pid)
    /\ pc = "restore" => item.pid # 1
    /\ pc \in Rebuilding \union Creating \union {"drop", "begun", "closing"} =>
          /\ rows[cur].type = "local" /\ rows[cur].status \notin {"done", "gone"}
          /\ rows[cur].id = IF pc \in Renamed THEN answer ELSE item.id
          /\ rows[cur].op = item.op /\ item.type = "local"
    /\ pc = "again" => rows[cur].status = "gone" /\ item.type = "local"
    /\ pc \in {"drop", "again"} => item.status = "new"
    /\ pc \in Rebuilding \union {"drop"} => rows[cur].status \in Open
    /\ pc \in Rebuilding \union Creating \union {"drop", "again"} => item.op = "create"
    /\ pc \in Rebuilding \union Creating \union {"drop", "again"} => ToCreate(item)
    /\ pc = "begun" /\ item.op = "create" => ToCreate(item)
    /\ pc \in {"rebuild", "made", "drop", "again"} => under \in DOMAIN db
    /\ pc \in {"drop", "again"} => Known(item.pid)
    /\ pc = "made" => db[under].id = -under /\ Known(db[under].pid)
    /\ 1 \notin {chain[k] : k \in DOMAIN chain}
    /\ pc \in Creating => answer \in DOMAIN server /\ answer # 1
    /\ pc = "created" => /\ Known(item.id) /\ ~Known(answer)
                         /\ server[answer].by = Inode(item.id)
    /\ pc \in Creating \ {"created"} => Known(answer)
    /\ pc \in Replacements => ~Known(item.id) /\ server[answer].by # 0
    /\ pc \in Renamed =>
          \A r \in DOMAIN rows :
              rows[r].type = "local" /\ rows[r].op = "create" /\ rows[r].status # "gone" =>
                  rows[r].id # item.id
    /\ pc \in {"fetch", "closing"} /\ item.op = "create" => item.id > 0

\* An entry OneDrive has not is deleted, lost, or somebody creates it.
Care(i) ==
    \/ db[i].deleted \/ i \in lost
    \/ Making(i) \/ i \in Unstored \/ \E r \in DOMAIN rows : Waits(r, i)
Cared ==
    /\ \A i \in DOMAIN db : db[i].id < 0 => Care(i)
    /\ \A i \in DOMAIN db : db[i].id < 0 /\ db[i].deleted => i \in removed
    /\ \A r \in DOMAIN rows : \A i \in DOMAIN db :
          /\ rows[r].type = "local" /\ rows[r].op = "delete"
          /\ rows[r].status \notin {"done", "gone"}
          /\ rows[r].id = db[i].id /\ db[i].id < 0
          => db[i].deleted \/ i \in lost

Inv ==
    /\ TypeOK /\ Root /\ Identity /\ Made /\ RowsSound /\ Parents /\ FuseSound
    /\ CycleSound /\ Cared

-----------------------------------------------------------------------------
\* The operators the steps are built from.

\* The least member of a set of numbers.
LEMMA LeastOf ==
    ASSUME NEW S \in SUBSET Nat, S # {}
    PROVE  \E x \in S : \A y \in S : x <= y
<1> DEFINE Less == OpToRel(<, Nat)
<1>1. PICK x \in S : \A y \in S : <<y, x>> \notin Less
  <2>1. IsWellFoundedOn(Less, Nat)
    BY NatLessThanWellFounded DEF Less
  <2> HIDE DEF Less
  <2> QED
    BY <2>1, WFMin
<1>2. \A y \in S : ~(y < x)
  BY <1>1 DEF OpToRel
<1> QED
  BY <1>2

\* The number an item has among those of a set of numbers.
LEMMA NthOf ==
    ASSUME NEW n \in Nat, NEW S \in SUBSET (1..n), NEW k \in 1..Cardinality(S)
    PROVE  \E x \in S : Cardinality({m \in S : m < x}) = k - 1
<1> DEFINE Below(x) == {m \in S : m < x}
           Misses == {j \in 1..Cardinality(S) : \A x \in S : Cardinality(Below(x)) # j - 1}
<1>1. IsFiniteSet(S) /\ Cardinality(S) \in Nat
  <2>1. IsFiniteSet(1..n)
    BY FS_Interval
  <2> QED
    BY <2>1, FS_Subset, FS_CardinalityType
<1>0. \A x \in S : x \in Nat
  OBVIOUS
<1>2. SUFFICES ASSUME Misses # {} PROVE FALSE
  BY <1>1
<1>3. PICK j \in Misses : \A i \in Misses : j <= i
  <2>1. Misses \subseteq Nat
    BY <1>1
  <2> HIDE DEF Misses
  <2> QED
    BY <1>2, <2>1, LeastOf
<1>4. j \in 1..Cardinality(S) /\ \A x \in S : Cardinality(Below(x)) # j - 1
  OBVIOUS
<1>5. CASE j = 1
  <2>1. S # {}
    BY <1>1, <1>4, FS_EmptySet
  <2>2. PICK x \in S : \A y \in S : x <= y
    BY <2>1, LeastOf
  <2>3. Below(x) = {}
    <3>1. \A y \in S : ~(y < x)
      BY <2>2, <1>0
    <3> QED
      BY <3>1
  <2> QED
    BY <1>4, <1>5, <2>2, <2>3, FS_EmptySet
<1>6. CASE j # 1
  <2>1. j - 1 \in 1..Cardinality(S) /\ j - 1 \notin Misses
    BY <1>1, <1>3, <1>4, <1>6
  <2>2. PICK x \in S : Cardinality(Below(x)) = j - 2
    BY <1>4, <2>1
  <2> DEFINE Up == {m \in S : m > x}
             Upto == Below(x) \union {x}
  <2>3. Cardinality(Upto) = j - 1 /\ IsFiniteSet(Below(x)) /\ IsFiniteSet(Upto)
    <3>1. IsFiniteSet(Below(x)) /\ x \notin Below(x)
      BY <1>1, FS_Subset
    <3> HIDE DEF Below
    <3> QED
      BY <1>4, <2>2, <3>1, FS_AddElement
  <2>4. Up # {}
    <3>1. SUFFICES ASSUME Up = {} PROVE FALSE
      OBVIOUS
    <3>2. S = Upto
      <4>1. \A y \in S : ~(y > x)
        BY <3>1
      <4>2. \A y \in S : y < x \/ y = x
        BY <4>1, <1>0
      <4> QED
        BY <4>2
    <3> HIDE DEF Upto
    <3> QED
      BY <1>1, <1>4, <2>3, <3>2
  <2>5. PICK y \in Up : \A z \in Up : y <= z
    <3>1. Up \in SUBSET Nat
      BY <1>0
    <3> HIDE DEF Up
    <3> QED
      BY <2>4, <3>1, LeastOf
  <2>6. Below(y) = Upto
    <3>1. y \in S /\ y > x /\ y \in Nat /\ x \in Nat
      BY <2>5, <1>0
    <3>2. ASSUME NEW z \in S PROVE z < y <=> z < x \/ z = x
      <4>1. z \in Nat
        BY <1>0
      <4>2. z > x => z \in Up
        OBVIOUS
      <4>3. z > x => y <= z
        BY <4>2, <2>5
      <4> HIDE DEF Up, Below, Upto
      <4> QED
        BY <3>1, <4>1, <4>3
    <3> QED
      BY <3>2
  <2>7. y \in S /\ Cardinality(Below(y)) = j - 1
    <3>1. y \in S
      BY <2>5
    <3> HIDE DEF Below, Upto
    <3> QED
      BY <2>3, <2>6, <3>1
  <2> QED
    BY <1>4, <2>7
<1> QED
  BY <1>5, <1>6

\* The delta reports each deleted item once.
LEMMA InOrderType ==
    ASSUME TypeOK, NEW S \in SUBSET DOMAIN server
    PROVE  InOrder(S) \in Seq(S)
<1>1. S \in SUBSET (1..Len(server)) /\ Len(server) \in Nat
  BY DEF TypeOK
<1>2. Cardinality(S) \in Nat
  <2>1. IsFiniteSet(1..Len(server))
    BY <1>1, FS_Interval
  <2> QED
    BY <1>1, <2>1, FS_Subset, FS_CardinalityType
<1> DEFINE Nth(k) == CHOOSE n \in S : Cardinality({m \in S : m < n}) = k - 1
<1>3. \A k \in 1..Cardinality(S) : Nth(k) \in S
  <2> TAKE k \in 1..Cardinality(S)
  <2>1. \E x \in S : Cardinality({m \in S : m < x}) = k - 1
    BY <1>1, NthOf
  <2> QED
    BY <2>1
<1>4. InOrder(S) = [k \in 1..Cardinality(S) |-> Nth(k)]
  BY DEF InOrder
<1> HIDE DEF Nth
<1> QED
  BY <1>2, <1>3, <1>4

\* OneDrive finds a name that is not in use: with n items, one of n + 1 is free.
LEMMA FreeNameType ==
    ASSUME TypeOK, NEW path \in Seq(Name), NEW name \in Name
    PROVE  FreeName(path, name) \in Nat
<1> DEFINE Taken(k) == At(Append(path, <<name[1], k>>))
           N == Len(server)
           Free_ == {k \in 0..N : Taken(k) = {}}
<1>1. N \in Nat /\ server \in Seq(Item) /\ DOMAIN server = 1..N
  BY DEF TypeOK
<1>2. Free_ # {}
  <2>1. SUFFICES ASSUME Free_ = {} PROVE FALSE
    OBVIOUS
  <2>2. \A k \in 0..N : \E n \in 1..N : server[n].path = Append(path, <<name[1], k>>)
    <3> TAKE k \in 0..N
    <3>1. Taken(k) # {}
      BY <2>1
    <3> QED
      BY <1>1, <3>1 DEF At
  <2> DEFINE f == [k \in 0..N |-> CHOOSE n \in 1..N :
                                     server[n].path = Append(path, <<name[1], k>>)]
  <2>3. f \in [0..N -> 1..N] /\ \A k \in 0..N : server[f[k]].path = Append(path, <<name[1], k>>)
    BY <2>2
  <2>4. IsFiniteSet(0..N) /\ IsFiniteSet(1..N) /\ Cardinality(1..N) < Cardinality(0..N)
    <3>1. IsFiniteSet(0..N) /\ Cardinality(0..N) = N + 1
      BY <1>1, FS_Interval
    <3>2. ASSUME NEW m \in Nat PROVE IsFiniteSet(1..m) /\ Cardinality(1..m) = m
      <4>1. IsFiniteSet(1..m) /\ Cardinality(1..m) = IF 1 > m THEN 0 ELSE m - 1 + 1
        BY FS_Interval
      <4> QED
        BY <4>1
    <3>3. IsFiniteSet(1..N) /\ Cardinality(1..N) = N
      BY <1>1, <3>2
    <3> HIDE DEF N
    <3> QED
      BY <1>1, <3>1, <3>3
  <2> HIDE DEF f, N
  <2>5. PICK x, y \in 0..N : x # y /\ f[x] = f[y]
    BY <2>3, <2>4, FS_PigeonHole
  <2>6. Append(path, <<name[1], x>>) = Append(path, <<name[1], y>>)
    BY <2>3, <2>5
  <2>7. <<name[1], x>> = <<name[1], y>>
    <3> DEFINE S == {name[1]} \X Nat
    <3>1. Append(path, <<name[1], x>>)[Len(path) + 1] = <<name[1], x>>
      OBVIOUS
    <3>2. Append(path, <<name[1], y>>)[Len(path) + 1] = <<name[1], y>>
      OBVIOUS
    <3> QED
      BY <2>6, <3>1, <3>2
  <2> QED
    BY <2>5, <2>7
<1>3. PICK k \in Free_ : \A l \in Free_ : k <= l
  <2>1. Free_ \subseteq Nat
    BY <1>1
  <2> HIDE DEF Free_
  <2> QED
    BY <1>2, <2>1, LeastOf
<1>4. k \in 0..N /\ Taken(k) = {} /\ \A l \in 0..k - 1 : Taken(l) # {}
  <2>1. k \in 0..N /\ Taken(k) = {}
    OBVIOUS
  <2>2. ASSUME NEW l \in 0..k - 1 PROVE Taken(l) # {}
    <3>1. l \in 0..N /\ l < k
      BY <1>1, <2>1, <2>2
    <3>2. l \notin Free_
      BY <1>1, <1>3, <2>1, <3>1
    <3> QED
      BY <3>1, <3>2
  <2> QED
    BY <2>1, <2>2
<1>5. FreeName(path, name) = CHOOSE j \in 0..N : Taken(j) = {} /\ \A l \in 0..j - 1 : Taken(l) # {}
  BY DEF FreeName
<1> HIDE DEF Taken
<1>6. FreeName(path, name) \in 0..N
  BY <1>4, <1>5
<1> QED
  BY <1>1, <1>6

-----------------------------------------------------------------------------
\* What no step does, and what that leaves as it was.

\* Items of OneDrive stay what they are, apart from being deleted.
ServerGrows ==
    /\ DOMAIN server \subseteq DOMAIN server'
    /\ \A n \in DOMAIN server : /\ server'[n].by = server[n].by
                                /\ server'[n].path = server[n].path
                                /\ server'[n].parent = server[n].parent
\* Every entry keeps its id.
IdsKept ==
    /\ DOMAIN db \subseteq DOMAIN db'
    /\ \A i \in DOMAIN db : db'[i].id = db[i].id
\* A row is still about what it was about.
SameRow(a, b) ==
    /\ a.type = b.type /\ a.op = b.op /\ a.id = b.id /\ a.pid = b.pid
    /\ b.status = "gone" => a.status = "gone"

\* An id that names an entry names one.
LEMMA KnownInode ==
    ASSUME NEW id, Known(id)
    PROVE  Inode(id) \in DOMAIN db /\ db[Inode(id)].id = id
BY DEF Known, Inode

\* The entry it names is the only one.
LEMMA InodeIs ==
    ASSUME Identity, NEW i \in DOMAIN db
    PROVE  Known(db[i].id) /\ Inode(db[i].id) = i
<1>1. Known(db[i].id)
  BY DEF Known
<1> QED
  BY <1>1, KnownInode DEF Identity

\* What is known stays so.
LEMMA KnownKept ==
    ASSUME IdsKept, NEW id, Known(id)
    PROVE  Known(id)'
BY DEF IdsKept, Known

\* And what is named.
LEMMA NamedKept ==
    ASSUME IdsKept, cut \subseteq cut', NEW id, Named(id)
    PROVE  Named(id)'
BY KnownKept DEF Named

\* The types of single members.
LEMMA Members ==
    ASSUME TypeOK
    PROVE  /\ DOMAIN db = 1..Len(db) /\ Len(db) \in Nat
           /\ DOMAIN rows = 1..Len(rows) /\ Len(rows) \in Nat
           /\ DOMAIN server = 1..Len(server) /\ Len(server) \in Nat
           /\ DOMAIN feed = 1..Len(feed) /\ Len(feed) \in Nat
           /\ \A i \in DOMAIN db : db[i] \in Entry
           /\ \A r \in DOMAIN rows : rows[r] \in Row
           /\ \A n \in DOMAIN server : server[n] \in Item
           /\ \A k \in DOMAIN feed : feed[k] \in [op : {"create", "delete"}, id : DOMAIN server]
<1>1. DOMAIN db = 1..Len(db) /\ Len(db) \in Nat /\ \A i \in DOMAIN db : db[i] \in Entry
  BY DEF TypeOK
<1>2. DOMAIN rows = 1..Len(rows) /\ Len(rows) \in Nat /\ \A r \in DOMAIN rows : rows[r] \in Row
  BY DEF TypeOK
<1>3. DOMAIN server = 1..Len(server) /\ Len(server) \in Nat
      /\ \A n \in DOMAIN server : server[n] \in Item
  BY DEF TypeOK
<1>4. DOMAIN feed = 1..Len(feed) /\ Len(feed) \in Nat
      /\ \A k \in DOMAIN feed : feed[k] \in [op : {"create", "delete"}, id : DOMAIN server]
  <2> DEFINE S == [op : {"create", "delete"}, id : DOMAIN server]
  <2>1. feed \in Seq(S)
    BY DEF TypeOK
  <2> HIDE DEF S
  <2>2. DOMAIN feed = 1..Len(feed) /\ Len(feed) \in Nat /\ \A k \in DOMAIN feed : feed[k] \in S
    BY <2>1
  <2> QED
    BY <2>2 DEF S
<1> QED
  BY <1>1, <1>2, <1>3, <1>4

\* Ids do not fall out of use.
LEMMA RefKept ==
    ASSUME TypeOK, TypeOK', ServerGrows, DOMAIN db \subseteq DOMAIN db'
    PROVE  Ref \subseteq Ref'
<1>1. Len(server) <= Len(server')
  <2>1. DOMAIN server = 1..Len(server) /\ Len(server) \in Nat
    BY Members
  <2>2. DOMAIN server' = 1..Len(server') /\ Len(server') \in Nat
    BY DEF TypeOK
  <2> HIDE DEF TypeOK
  <2>3. 1..Len(server) \subseteq 1..Len(server')
    BY <2>1, <2>2 DEF ServerGrows
  <2>4. ASSUME NEW a \in Nat, NEW b \in Nat, 1..a \subseteq 1..b PROVE a <= b
    <3>1. CASE a = 0
      BY <3>1
    <3>2. CASE a # 0
      BY <2>4, <3>2
    <3> QED
      BY <3>1, <3>2
  <2> QED
    BY <2>1, <2>2, <2>3, <2>4
<1>2. Len(server) \in Nat /\ Len(server') \in Nat
  BY DEF TypeOK
<1>3. 0..Len(server) \subseteq 0..Len(server')
  BY <1>1, <1>2
<1>4. {-i : i \in DOMAIN db} \subseteq {-i : i \in DOMAIN db'}
  OBVIOUS
<1> QED
  BY <1>3, <1>4 DEF Ref

\* A sound row stays sound while it waits.
LEMMA RowKept ==
    ASSUME TypeOK, TypeOK', ServerGrows, IdsKept, cut \subseteq cut',
           NEW row \in Row, RowSound(row)
    PROVE  RowSound(row)'
<1>1. Ref \subseteq Ref'
  BY RefKept DEF IdsKept
<1>2. row.id \in Ref' \ {1} /\ row.pid \in Ref'
  BY <1>1 DEF RowSound
<1>3. ASSUME row.type = "remote" PROVE FromDelta(row)'
  BY <1>3 DEF RowSound, FromDelta, ServerGrows
<1>4. ASSUME row.type = "local" /\ row.op = "create" /\ row.status # "gone"
      PROVE  ToCreate(row)'
  <2>1. ToCreate(row)
    BY <1>4 DEF RowSound
  <2>2. Named(row.id)'
    BY <2>1, NamedKept DEF ToCreate
  <2> QED
    BY <2>1, <2>2 DEF ToCreate, ServerGrows
<1> QED
  BY <1>2, <1>3, <1>4 DEF RowSound

\* Rows and parents still name entries when ids stay and items are only added.
LEMMA RowsSoundKept ==
    ASSUME TypeOK, TypeOK', RowsSound, ServerGrows, IdsKept, cut \subseteq cut',
           \A r \in DOMAIN rows' :
              \/ r \in DOMAIN rows /\ SameRow(rows'[r], rows[r])
              \/ rows'[r] = NoRow
              \/ \A row \in Row : rows'[r] = row => RowSound(row)',
           \A i \in DOMAIN db' :
              (i \in DOMAIN db /\ db'[i].pid = db[i].pid) \/ db'[i].pid \in Ref'
    PROVE  RowsSound'
<1>1. Ref \subseteq Ref'
  BY RefKept DEF IdsKept
<1>2. ASSUME NEW i \in DOMAIN db' PROVE db'[i].pid \in Ref'
  BY <1>1, <1>2 DEF RowsSound
<1>3. ASSUME NEW r \in DOMAIN rows' PROVE RowSound(rows[r])'
  <2>1. PICK row \in Row : row = rows'[r]
    BY DEF TypeOK
  <2>2. SUFFICES RowSound(row)'
    BY <2>1 DEF RowSound, FromDelta, ToCreate, Named, Known
  <2>3. CASE r \in DOMAIN rows /\ SameRow(rows'[r], rows[r])
    <3>1. PICK old \in Row : old = rows[r]
      BY <2>3 DEF TypeOK
    <3>2. RowSound(old)
      <4>1. RowSound(rows[r])
        BY <2>3 DEF RowsSound
      <4> QED
        BY <3>1, <4>1
    <3>3. RowSound(old)'
      BY <3>2, RowKept
    <3>4. SameRow(row, old)
      BY <2>1, <2>3, <3>1
    <3> QED
      BY <3>3, <3>4 DEF RowSound, SameRow, FromDelta, ToCreate, Named, Known
  <2>4. CASE rows'[r] = NoRow
    <3>1. 0 \in Ref'
      <4>1. Len(server') \in Nat
        BY DEF TypeOK
      <4> QED
        BY <4>1 DEF Ref
    <3> QED
      BY <2>1, <2>4, <3>1 DEF RowSound, NoRow
  <2> QED
    BY <2>1, <2>3, <2>4
<1> QED
  BY <1>2, <1>3 DEF RowsSound

\* Rows keep a parent.
LEMMA ParentsKept ==
    ASSUME TypeOK, TypeOK', Parents, IdsKept, cut \subseteq cut',
           \A r \in DOMAIN rows' :
              \/ r \in DOMAIN rows /\ SameRow(rows'[r], rows[r])
              \/ rows'[r] = NoRow
              \/ rows'[r].type = "remote" \/ rows'[r].op = "delete"
              \/ \A row \in Row : rows'[r] = row => HasParent(row)'
    PROVE  Parents'
<1> SUFFICES ASSUME NEW r \in DOMAIN rows', rows'[r].type = "local", rows'[r].op = "create",
                    rows'[r].status # "gone"
             PROVE  HasParent(rows[r])'
  BY DEF Parents
<1>1. PICK row \in Row : row = rows'[r]
  BY DEF TypeOK
<1>2. SUFFICES HasParent(row)'
  BY <1>1 DEF HasParent, Named, Known
<1>3. CASE r \in DOMAIN rows /\ SameRow(rows'[r], rows[r])
  <2>1. rows[r].type = "local" /\ rows[r].op = "create" /\ rows[r].status # "gone"
    BY <1>3 DEF SameRow
  <2>2. HasParent(rows[r])
    BY <1>3, <2>1 DEF Parents
  <2>3. rows[r].pid = row.pid /\ rows[r].id = row.id
    BY <1>1, <1>3 DEF SameRow
  <2> QED
    BY <2>2, <2>3, NamedKept DEF HasParent
<1> QED
  BY <1>1, <1>3 DEF NoRow

\* Ids stay those of one entry each.
LEMMA IdentityKept ==
    ASSUME TypeOK, TypeOK', Identity, ServerGrows, IdsKept,
           \A i \in DOMAIN db' \ DOMAIN db :
              \/ db'[i].id = -i
              \/ /\ db'[i].id \in DOMAIN server' /\ server'[db'[i].id].by = 0
                 /\ ~Known(db'[i].id),
           \A i, j \in DOMAIN db' \ DOMAIN db : i = j
    PROVE  Identity'
<1>0. /\ \A i \in DOMAIN db' : i \in Nat \ {0}
      /\ \A i \in DOMAIN db : i \in Nat \ {0}
      /\ \A n \in DOMAIN server' : n \in Nat \ {0}
  <2>1. DOMAIN db = 1..Len(db) /\ DOMAIN db' = 1..Len(db')
    BY DEF TypeOK
  <2>2. DOMAIN server' = 1..Len(server')
    BY DEF TypeOK
  <2> QED
    BY <2>1, <2>2
<1>1. ASSUME NEW i \in DOMAIN db' PROVE db'[i].id = -i \/ db'[i].id \in DOMAIN server'
  BY <1>1 DEF Identity, IdsKept, ServerGrows
<1>2. ASSUME NEW i \in DOMAIN db, NEW j \in DOMAIN db' \ DOMAIN db PROVE db'[i].id # db'[j].id
  <2>1. db'[i].id = db[i].id /\ (db[i].id = -i \/ db[i].id \in DOMAIN server)
    BY DEF Identity, IdsKept
  <2>2. CASE db'[j].id = -j
    <3>1. i # j /\ i \in Nat /\ j \in Nat \ {0}
      BY <1>0
    <3>2. \A n \in DOMAIN server : n \in Nat \ {0}
      BY Members
    <3> QED
      BY <2>1, <2>2, <3>1, <3>2
  <2>3. CASE ~Known(db'[j].id)
    BY <2>1, <2>3 DEF Known
  <2> QED
    BY <2>2, <2>3
<1>3. ASSUME NEW i \in DOMAIN db', NEW j \in DOMAIN db', db'[i].id = db'[j].id PROVE i = j
  <2>1. CASE i \in DOMAIN db /\ j \in DOMAIN db
    BY <1>3, <2>1 DEF Identity, IdsKept
  <2>2. CASE i \in DOMAIN db /\ j \notin DOMAIN db
    BY <1>2, <1>3, <2>2
  <2>3. CASE i \notin DOMAIN db /\ j \in DOMAIN db
    BY <1>2, <1>3, <2>3
  <2> QED
    BY <2>1, <2>2, <2>3
<1>4. ASSUME NEW i \in DOMAIN db', db'[i].id > 0 PROVE server'[db'[i].id].by \in {0, i}
  <2>1. CASE i \in DOMAIN db
    <3>1. db'[i].id = db[i].id /\ db[i].id \in DOMAIN server
      BY <1>0, <1>4, <2>1 DEF IdsKept, Identity
    <3> QED
      BY <1>4, <2>1, <3>1 DEF Identity, ServerGrows
  <2>2. CASE i \notin DOMAIN db
    BY <1>0, <1>4, <2>2
  <2> QED
    BY <2>1, <2>2
<1> QED
  BY <1>1, <1>3, <1>4 DEF Identity

\* The items of OneDrive.
LEMMA MadeKept ==
    ASSUME TypeOK, TypeOK', Made, ServerGrows, DOMAIN db \subseteq DOMAIN db',
           removed \subseteq removed',
           \A n \in DOMAIN server :
              server[n].live => server'[n].live \/ server[n].by \in removed' \union {0},
           \A n \in DOMAIN server' \ DOMAIN server :
              /\ server'[n].by \in {0} \union DOMAIN db' /\ server'[n].live
              /\ server'[n].parent \in DOMAIN server,
           \A k \in DOMAIN feed' :
              \/ k \in DOMAIN feed /\ feed'[k] = feed[k]
              \/ feed'[k].id # 1 /\ (feed'[k].op = "create" => server'[feed'[k].id].by = 0)
    PROVE  Made'
<1>0. /\ DOMAIN db' = 1..Len(db') /\ Len(db') \in Nat
      /\ DOMAIN db = 1..Len(db) /\ Len(db) \in Nat
  BY DEF TypeOK
<1>1. ASSUME NEW n \in DOMAIN server' PROVE server'[n].by \in 0..Len(db')
  <2>1. CASE n \in DOMAIN server
    <3>1. server'[n].by = server[n].by /\ server[n].by \in {0} \union DOMAIN db
      BY <1>0, <2>1 DEF Made, ServerGrows
    <3> QED
      BY <1>0, <3>1
  <2> QED
    BY <1>0, <2>1
<1>2. ASSUME NEW n \in DOMAIN server', server'[n].by # 0, ~server'[n].live
      PROVE  server'[n].by \in removed'
  BY <1>2 DEF Made, ServerGrows, Live
<1>3. ASSUME NEW k \in DOMAIN feed'
      PROVE  feed'[k].id # 1 /\ (feed'[k].op = "create" => server'[feed'[k].id].by = 0)
  <2>1. CASE k \in DOMAIN feed /\ feed'[k] = feed[k]
    <3>1. feed[k].id \in DOMAIN server
      BY <2>1, Members
    <3> QED
      BY <2>1, <3>1 DEF Made, ServerGrows
  <2> QED
    BY <2>1
<1>4. ASSUME NEW n \in DOMAIN server', n # 1 PROVE server'[n].parent \in DOMAIN server'
  BY <1>4 DEF Made, ServerGrows
<1> QED
  BY <1>1, <1>2, <1>3, <1>4 DEF Made, Live

\* The root.
LEMMA RootKept ==
    ASSUME TypeOK, TypeOK', Root, ServerGrows, DOMAIN db \subseteq DOMAIN db',
           db'[1].id = 1, db'[1].pino = 0, ~db'[1].deleted,
           \A i \in DOMAIN db' \ {1} :
              (i \in DOMAIN db /\ db'[i].path = db[i].path) \/ db'[i].path # << >>,
           \A n \in DOMAIN server' \ DOMAIN server : server'[n].path # << >>
    PROVE  Root'
<1>1. Len(db') >= 3
  <2>1. /\ DOMAIN db' = 1..Len(db') /\ Len(db') \in Nat
        /\ DOMAIN db = 1..Len(db) /\ Len(db) \in Nat /\ Len(db) >= 3
    BY DEF TypeOK, Root
  <2>2. 3 \in DOMAIN db'
    BY <2>1
  <2> QED
    BY <2>1, <2>2
<1>2. Len(server') >= 3
  <2>1. /\ DOMAIN server' = 1..Len(server') /\ Len(server') \in Nat
        /\ DOMAIN server = 1..Len(server) /\ Len(server) \in Nat
    BY DEF TypeOK
  <2>3. Len(server) >= 3
    BY DEF Root
  <2>2. 3 \in DOMAIN server'
    BY <2>1, <2>3 DEF ServerGrows
  <2> QED
    BY <2>1, <2>2
<1>3. server'[1].path = << >> /\ \A n \in DOMAIN server' : n # 1 => server'[n].path # << >>
  <2>1. 1 \in DOMAIN server
    BY DEF TypeOK, Root
  <2> QED
    BY <2>1 DEF Root, ServerGrows
<1>4. \A i \in DOMAIN db' : i # 1 => db'[i].path # << >>
  BY DEF Root
<1> QED
  BY <1>1, <1>2, <1>3, <1>4 DEF Root

\* Who cares for the entries OneDrive has not.
LEMMA CaredKept ==
    ASSUME TypeOK, TypeOK', Identity', RowsSound, Cared, IdsKept,
           lost \subseteq lost', removed \subseteq removed',
           \A i \in DOMAIN db : db[i].id < 0 /\ db[i].deleted =>
              db'[i].deleted \/ i \in lost' \/ (~Removing(i) /\ Care(i)'),
           \A i \in DOMAIN db' : db'[i].id < 0 /\ db'[i].deleted =>
              (i \in DOMAIN db /\ db[i].deleted) \/ i \in removed',
           \A i \in DOMAIN db : db[i].id < 0 /\ (Making(i) \/ i \in Unstored) => Care(i)',
           \A i \in DOMAIN db, r \in DOMAIN rows : db[i].id < 0 /\ Waits(r, i) => Care(i)',
           \A i \in DOMAIN db' \ DOMAIN db : db'[i].id < 0 => Care(i)',
           \A i \in DOMAIN db' \ DOMAIN db : i > Len(db),
           \A r \in DOMAIN rows' :
              /\ rows'[r].type = "local" /\ rows'[r].op = "delete"
              /\ rows'[r].status \notin {"done", "gone"} /\ rows'[r].id < 0
              => \/ /\ r \in DOMAIN rows /\ SameRow(rows'[r], rows[r])
                    /\ rows[r].status \notin {"done", "gone"}
                 \/ \A i \in DOMAIN db' : db'[i].id = rows'[r].id => db'[i].deleted \/ i \in lost'
    PROVE  Cared'
<1>1. ASSUME NEW i \in DOMAIN db', db'[i].id < 0 PROVE Care(i)'
  <2>1. CASE i \in DOMAIN db
    <3>1. db[i].id < 0
      BY <1>1, <2>1 DEF IdsKept
    <3>2. Care(i)
      BY <2>1, <3>1 DEF Cared
    <3>3. CASE db[i].deleted
      BY <2>1, <3>1, <3>3 DEF Care
    <3>4. CASE i \in lost
      BY <3>4 DEF Care
    <3>5. CASE Making(i) \/ i \in Unstored
      BY <2>1, <3>1, <3>5
    <3>6. CASE \E r \in DOMAIN rows : Waits(r, i)
      BY <2>1, <3>1, <3>6
    <3> QED
      BY <3>2, <3>3, <3>4, <3>5, <3>6 DEF Care
  <2> QED
    BY <1>1, <2>1
<1>2. ASSUME NEW i \in DOMAIN db', db'[i].id < 0, db'[i].deleted PROVE i \in removed'
  BY <1>2 DEF Cared, IdsKept
<1>3. ASSUME NEW r \in DOMAIN rows', NEW i \in DOMAIN db',
             rows'[r].type = "local", rows'[r].op = "delete",
             rows'[r].status \notin {"done", "gone"}, rows'[r].id = db'[i].id, db'[i].id < 0
      PROVE  db'[i].deleted \/ i \in lost'
  <2>1. CASE /\ r \in DOMAIN rows /\ SameRow(rows'[r], rows[r])
             /\ rows[r].status \notin {"done", "gone"}
    <3>1. rows[r].type = "local" /\ rows[r].op = "delete" /\ rows[r].id = db'[i].id
      BY <1>3, <2>1 DEF SameRow
    <3>2. i \in DOMAIN db
      <4>1. rows[r].id \in Ref
        BY <2>1 DEF RowsSound, RowSound
      <4>2. SUFFICES ASSUME i \notin DOMAIN db PROVE FALSE
        OBVIOUS
      <4>3. i > Len(db) /\ i \in Nat /\ Len(db) \in Nat /\ DOMAIN db = 1..Len(db)
        BY <4>2 DEF TypeOK
      <4>6. Len(server) \in Nat /\ \A n \in DOMAIN server' : n \in Nat
        <5>1. Len(server) \in Nat /\ DOMAIN server' = 1..Len(server')
          BY DEF TypeOK
        <5> QED
          BY <5>1
      <4>4. PICK j \in DOMAIN db : rows[r].id = -j
        BY <1>3, <3>1, <4>1, <4>3, <4>6 DEF Ref
      <4>5. db'[i].id = -i \/ db'[i].id \in DOMAIN server'
        BY DEF Identity
      <4> QED
        BY <1>3, <3>1, <4>2, <4>3, <4>4, <4>5, <4>6
    <3>3. db[i].id = rows[r].id /\ db[i].id < 0
      BY <1>3, <3>1, <3>2 DEF IdsKept
    <3>4. db[i].deleted \/ i \in lost
      BY <2>1, <3>1, <3>2, <3>3 DEF Cared
    <3>5. Removing(i)
      BY <2>1, <3>1, <3>3 DEF Removing
    <3> QED
      BY <3>2, <3>3, <3>4, <3>5
  <2> QED
    BY <1>3, <2>1
<1> QED
  BY <1>1, <1>2, <1>3 DEF Cared

\* Nothing comes to refer to a new entry.
LEMMA UnreferredKept ==
    ASSUME NEW i, Unreferred(i),
           \A r \in DOMAIN rows' :
              \/ r \in DOMAIN rows /\ SameRow(rows'[r], rows[r])
              \/ rows'[r].id # -i /\ rows'[r].pid # -i,
           item'.id # -i /\ item'.pid # -i,
           \A j \in DOMAIN db' : (j \in DOMAIN db /\ db'[j].pid = db[j].pid) \/ db'[j].pid # -i,
           under' # i, \A k \in DOMAIN chain' : chain'[k] # i
    PROVE  Unreferred(i)'
BY DEF Unreferred, SameRow

\* A request of FUSE waits while others work.
LEMMA FuseKept ==
    ASSUME TypeOK, TypeOK', FuseSound, fuse' = fuse, ServerGrows, IdsKept,
           lost \subseteq lost',
           \A i \in DOMAIN db : db[i].id < 0 /\ db[i].deleted =>
              db'[i].deleted \/ i \in lost' \/ ~Removing(i),
           fuse.pc = "row" /\ fuse.row.op = "create" => Unreferred(fuse.ino)'
    PROVE  FuseSound'
<1>1. Ref \subseteq Ref'
  BY RefKept DEF IdsKept
<1>2. fuse' \in [pc : {"idle", "insert", "row"}, ino : Nat, row : Row]
  BY DEF FuseSound
<1>3. ASSUME fuse.pc # "idle"
      PROVE  /\ fuse.ino \in DOMAIN db' /\ fuse.row.pid \in Ref'
             /\ fuse.row.type = "local" /\ fuse.row.status = "new"
  BY <1>1, <1>3 DEF FuseSound, IdsKept
<1>4. ASSUME fuse.pc = "row"
      PROVE  fuse.ino # 1 /\ fuse.row.id \in Ref' \ {1}
  BY <1>1, <1>4 DEF FuseSound
<1>5. ASSUME fuse.pc = "row", fuse.row.op = "create"
      PROVE  /\ fuse.row.id = -fuse.ino /\ db'[fuse.ino].id = -fuse.ino
             /\ Unreferred(fuse.ino)'
  BY <1>5 DEF FuseSound, IdsKept
<1>6. ASSUME fuse.pc = "row", fuse.row.op # "create"
      PROVE  /\ fuse.row.id < 0 => fuse.row.id = -fuse.ino
             /\ db'[fuse.ino].id < 0 => db'[fuse.ino].deleted \/ fuse.ino \in lost'
  <2>1. fuse.ino \in DOMAIN db /\ db'[fuse.ino].id = db[fuse.ino].id
    BY <1>6 DEF FuseSound, IdsKept
  <2>2. db[fuse.ino].id < 0 => db[fuse.ino].deleted \/ fuse.ino \in lost
    BY <1>6 DEF FuseSound
  <2>3. fuse.row.id < 0 => fuse.row.id = -fuse.ino
    BY <1>6 DEF FuseSound
  <2>4. fuse.row.op = "delete"
    BY <1>6 DEF FuseSound, Row
  <2>5. Removing(fuse.ino)
    BY <1>6, <2>4 DEF Removing
  <2> QED
    BY <2>1, <2>2, <2>3, <2>5
<1>7. fuse.pc = "insert" => fuse.row.op = "create"
  BY DEF FuseSound
<1> QED
  BY <1>2, <1>3, <1>4, <1>5, <1>6, <1>7 DEF FuseSound

\* The cycle waits while others work.
LEMMA CycleKept ==
    ASSUME TypeOK, TypeOK', CycleSound, UNCHANGED cycle, ServerGrows, IdsKept,
           cut \subseteq cut', Identity, Identity',
           \A r \in DOMAIN rows : r \in DOMAIN rows' /\ rows'[r] = rows[r],
           \A r \in DOMAIN rows' \ DOMAIN rows :
              rows'[r].op = "create" => rows'[r].id # item.id \/ pc \notin Renamed,
           \A i \in DOMAIN db : db'[i].pid = db[i].pid,
           \A i \in DOMAIN db' \ DOMAIN db : db'[i].id < 0
    PROVE  CycleSound'
<1>0. /\ pc' = pc /\ todo' = todo /\ cur' = cur /\ item' = item /\ chain' = chain
      /\ under' = under /\ answer' = answer
  BY DEF cycle
<1>1. Ref \subseteq Ref'
  BY RefKept DEF IdsKept
<1>2. /\ pc \in {"idle", "listed"} => cur = 0
      /\ pc \notin {"idle", "listed"} => cur \in DOMAIN rows'
      /\ item.pid \in Ref' /\ item.id \in Ref' \ {1}
      /\ \A r \in todo : rows'[r].type = "remote"
  BY <1>1 DEF CycleSound, TypeOK
<1>3. ASSUME pc \in Remotely
      PROVE  rows'[cur].type = "remote" /\ item.type = "remote" /\ FromDelta(item)'
  BY <1>0, <1>3 DEF CycleSound, FromDelta, ServerGrows, Remotely
<1>4. /\ pc \in {"restore", "reset"} => Known(item.pid)'
      /\ pc = "restore" => item.pid # 1
  BY <1>0, KnownKept DEF CycleSound, Known
<1>5. pc \in Rebuilding \union Creating \union {"drop", "begun", "closing"} =>
          /\ rows'[cur].type = "local" /\ rows'[cur].status \notin {"done", "gone"}
          /\ rows'[cur].id = IF pc \in Renamed THEN answer ELSE item.id
          /\ rows'[cur].op = item.op /\ item.type = "local"
  <2>1. SUFFICES ASSUME pc \in Rebuilding \union Creating \union {"drop", "begun", "closing"}
                 PROVE  rows'[cur] = rows[cur]
    BY DEF CycleSound
  <2>2. pc \notin {"idle", "listed"}
    BY <2>1 DEF Rebuilding, Creating, Replacements
  <2> QED
    BY <2>2 DEF CycleSound
<1>6. /\ pc = "again" => rows'[cur].status = "gone" /\ item.type = "local"
      /\ pc \in {"drop", "again"} => item.status = "new"
      /\ pc \in Rebuilding \union {"drop"} => rows'[cur].status \in Open
      /\ pc \in Rebuilding \union Creating \union {"drop", "again"} => item.op = "create"
  <2>1. pc \in Rebuilding \union {"drop", "again"} => rows'[cur] = rows[cur]
    BY DEF CycleSound, Rebuilding
  <2> QED
    BY <2>1 DEF CycleSound
<1>7. ASSUME ToCreate(item) PROVE ToCreate(item)'
  <2>1. Named(item.id)'
    BY <1>0, <1>7 DEF ToCreate, Named, Known, IdsKept
  <2> QED
    BY <1>0, <1>7, <2>1 DEF ToCreate, ServerGrows
<1>8. /\ pc \in Rebuilding \union Creating \union {"drop", "again"} => ToCreate(item)'
      /\ pc = "begun" /\ item.op = "create" => ToCreate(item)'
  BY <1>7 DEF CycleSound
<1>9. pc \in {"rebuild", "made", "drop", "again"} => under \in DOMAIN db'
  BY DEF CycleSound, IdsKept
<1>10. pc \in {"drop", "again"} => Known(item.pid)'
  BY <1>0 DEF CycleSound, Known, IdsKept
<1>11. pc = "made" => db'[under].id = -under /\ \E i \in DOMAIN db' : db'[i].id = db'[under].pid
  BY DEF CycleSound, Known, IdsKept
<1>12. 1 \notin {chain[k] : k \in DOMAIN chain}
  BY DEF CycleSound
<1>13. ASSUME pc = "created"
       PROVE  /\ Known(item.id)' /\ ~Known(answer)'
              /\ server'[answer].by = Inode(item.id)'
  <2>1. /\ answer \in DOMAIN server /\ ~Known(answer)
        /\ server[answer].by = Inode(item.id) /\ Known(item.id)
    BY <1>13 DEF CycleSound, Creating
  <2>2. ~Known(answer)'
    <3>1. answer \in Nat
      BY <2>1 DEF TypeOK
    <3>2. \A i \in DOMAIN db' : db'[i].id # answer
      BY <2>1, <3>1 DEF Known, IdsKept
    <3> QED
      BY <1>0, <3>2 DEF Known
  <2>3. PICK i \in DOMAIN db : db[i].id = item.id
    BY <2>1 DEF Known
  <2>4. Inode(item.id) = i
    BY <2>3, InodeIs
  <2>5. i \in DOMAIN db' /\ db'[i].id = item'.id
    BY <1>0, <2>3 DEF IdsKept
  <2>6. Inode(item.id)' = i
    BY <2>5 DEF Inode, Identity
  <2>7. Known(item.id)'
    BY <2>5 DEF Known
  <2> QED
    BY <2>1, <2>2, <2>4, <2>6, <2>7 DEF ServerGrows
<1>14. /\ pc \in Creating => answer \in DOMAIN server' /\ answer # 1
       /\ pc \in Creating \ {"created"} => Known(answer)'
  BY <1>0 DEF CycleSound, Known, IdsKept, ServerGrows
<1>16. ASSUME pc \in Replacements
       PROVE  ~Known(item.id)' /\ server'[answer].by # 0
  <2>1. ~Known(item.id) /\ answer \in DOMAIN server /\ server[answer].by # 0
    BY <1>16 DEF CycleSound, Creating
  <2>2. item.id \in Ref /\ Len(db) \in Nat /\ DOMAIN db = 1..Len(db)
    BY Members DEF CycleSound
  <2>3. ASSUME NEW i \in DOMAIN db' PROVE db'[i].id # item.id
    <3>1. CASE i \in DOMAIN db
      BY <2>1, <3>1 DEF Known, IdsKept
    <3>2. CASE i \notin DOMAIN db
      <4>1. db'[i].id < 0 /\ i \in Nat /\ i > Len(db) /\ \A n \in DOMAIN server' : n \in Nat
        <5>1. DOMAIN db' = 1..Len(db') /\ DOMAIN server' = 1..Len(server')
          BY DEF TypeOK
        <5> QED
          BY <2>2, <3>2, <5>1
      <4>2. db'[i].id = -i
        BY <4>1 DEF Identity
      <4>3. \A j \in DOMAIN db : -j # -i
        BY <2>2, <4>1
      <4>4. Len(server) \in Nat
        BY Members
      <4> QED
        BY <2>2, <4>1, <4>2, <4>3, <4>4 DEF Ref
    <3> QED
      BY <3>1, <3>2
  <2> QED
    BY <1>0, <2>1, <2>3 DEF Known, ServerGrows
<1>17. pc \in Renamed =>
          \A r \in DOMAIN rows' :
              rows'[r].type = "local" /\ rows'[r].op = "create" /\ rows'[r].status # "gone" =>
                  rows'[r].id # item.id
  BY DEF CycleSound
<1>15. pc \in {"fetch", "closing"} /\ item.op = "create" => item.id > 0
  BY DEF CycleSound
<1> QED
  BY <1>0, <1>2, <1>3, <1>4, <1>5, <1>6, <1>8, <1>9, <1>10, <1>11, <1>12, <1>13, <1>14, <1>15,
     <1>16, <1>17
     DEF CycleSound, Known

-----------------------------------------------------------------------------
\* Other clients.

\* A folder deleted on OneDrive goes with what is in it, and never the root.
LEMMA DeletedEffect ==
    ASSUME TypeOK, Root, NEW n \in DOMAIN server, n # 1, Deleted(n)
    PROVE  /\ server' \in Seq(Item) /\ DOMAIN server' = DOMAIN server /\ ServerGrows
           /\ \A m \in DOMAIN server :
                 server[m].live => server'[m].live \/ server[m].by \in MadeIn(n) \union {0}
           /\ feed' \in Seq([op : {"create", "delete"}, id : DOMAIN server'])
           /\ \A k \in DOMAIN feed' :
                 \/ k \in DOMAIN feed /\ feed'[k] = feed[k]
                 \/ feed'[k].id # 1 /\ feed'[k].op = "delete"
<1>0. DOMAIN server = 1..Len(server) /\ Len(server) \in Nat /\ \A m \in DOMAIN server : server[m] \in Item
  BY Members
<1>1. server' = [m \in DOMAIN server |-> [server[m] EXCEPT !.live = @ /\ m \notin TreeOf(n)]]
  BY DEF Deleted
<1>2. ASSUME NEW m \in DOMAIN server
      PROVE  /\ server'[m] \in Item /\ server'[m].by = server[m].by
             /\ server'[m].path = server[m].path /\ server'[m].parent = server[m].parent
             /\ server'[m].live = (server[m].live /\ m \notin TreeOf(n))
  <2>1. PICK x \in Item : x = server[m]
    BY <1>0
  <2>2. [x EXCEPT !.live = x.live /\ m \notin TreeOf(n)] \in Item
    BY DEF Item
  <2>3. server'[m] = [x EXCEPT !.live = x.live /\ m \notin TreeOf(n)]
    BY <1>1, <2>1
  <2>4. /\ server'[m].by = x.by /\ server'[m].path = x.path /\ server'[m].parent = x.parent
    BY <2>3 DEF Item
  <2>5. server'[m].live = (x.live /\ m \notin TreeOf(n))
    BY <2>3 DEF Item
  <2> QED
    BY <2>1, <2>2, <2>3, <2>4, <2>5
<1>3. DOMAIN server' = DOMAIN server /\ server' \in Seq(Item)
  <2>1. DOMAIN server' = DOMAIN server
    BY <1>1
  <2>2. server' \in [1..Len(server) -> Item]
    BY <1>0, <1>1, <1>2
  <2> QED
    BY <1>0, <2>1, <2>2
<1>4. ASSUME NEW m \in DOMAIN server, server[m].live
      PROVE  server'[m].live \/ server[m].by \in MadeIn(n) \union {0}
  BY <1>2, <1>4 DEF MadeIn
<1>5. TreeOf(n) \subseteq DOMAIN server /\ 1 \notin TreeOf(n)
  <2>1. server[n].path \in Seq(Name) /\ server[n].path # << >>
    BY <1>0 DEF Root, Item
  <2>2. ~IsPrefix(server[n].path, << >>)
    <3>1. Len(server[n].path) \in Nat \ {0}
      BY <2>1, EmptySeq
    <3> QED
      BY <3>1 DEF IsPrefix
  <2> QED
    BY <2>2 DEF TreeOf, Root
<1>6. PICK told \in Seq(DOMAIN server) :
        /\ \A k \in DOMAIN told : told[k] # 1
        /\ feed' = feed \o [k \in DOMAIN told |-> [op |-> "delete", id |-> told[k]]]
  <2>1. PICK report \in Reports :
          LET told == IF report = "all" THEN InOrder(TreeOf(n)) ELSE <<n>>
          IN  feed' = feed \o [k \in DOMAIN told |-> [op |-> "delete", id |-> told[k]]]
    BY DEF Deleted
  <2> DEFINE told == IF report = "all" THEN InOrder(TreeOf(n)) ELSE <<n>>
  <2>2. told \in Seq(DOMAIN server) /\ \A k \in DOMAIN told : told[k] # 1
    <3>1. InOrder(TreeOf(n)) \in Seq(TreeOf(n))
      BY <1>5, InOrderType
    <3> DEFINE s == InOrder(TreeOf(n))
    <3> HIDE DEF s
    <3>2. \A k \in DOMAIN s : s[k] \in TreeOf(n)
      BY <3>1 DEF s
    <3>3. s \in Seq(DOMAIN server)
      BY <1>5, <3>1, SeqMonotonic DEF s
    <3>4. <<n>> \in Seq(DOMAIN server) /\ \A k \in DOMAIN <<n>> : <<n>>[k] # 1
      OBVIOUS
    <3> QED
      BY <1>5, <3>2, <3>3, <3>4 DEF s
  <2> QED
    BY <2>1, <2>2
<1>7. /\ feed' \in Seq([op : {"create", "delete"}, id : DOMAIN server'])
      /\ \A k \in DOMAIN feed' : \/ k \in DOMAIN feed /\ feed'[k] = feed[k]
                                 \/ feed'[k].id # 1 /\ feed'[k].op = "delete"
  <2> DEFINE S == [op : {"create", "delete"}, id : DOMAIN server]
             new == [k \in DOMAIN told |-> [op |-> "delete", id |-> told[k]]]
  <2>1. DOMAIN told = 1..Len(told) /\ Len(told) \in Nat /\ \A k \in DOMAIN told : told[k] \in DOMAIN server
    OBVIOUS
  <2>2. \A k \in DOMAIN told : new[k] \in S /\ new[k].id # 1 /\ new[k].op = "delete"
    BY <1>6, <2>1
  <2>3. new \in Seq(S) /\ DOMAIN new = DOMAIN told
    <3>1. new \in [1..Len(told) -> S]
      BY <2>1, <2>2
    <3> QED
      BY <2>1, <3>1
  <2>4. feed \in Seq(S)
    BY DEF TypeOK
  <2> HIDE DEF S, new
  <2>5. feed' = feed \o new
    BY <1>6 DEF new
  <2>6. feed' \in Seq(S)
    BY <2>3, <2>4, <2>5
  <2>7. ASSUME NEW k \in DOMAIN feed'
        PROVE  \/ k \in DOMAIN feed /\ feed'[k] = feed[k]
               \/ feed'[k].id # 1 /\ feed'[k].op = "delete"
    <3>1. Len(feed') = Len(feed) + Len(new) /\ k \in 1..Len(feed')
      BY <2>3, <2>4, <2>5, <2>6
    <3>2. feed'[k] = IF k <= Len(feed) THEN feed[k] ELSE new[k - Len(feed)]
      BY <2>3, <2>4, <2>5, <3>1
    <3>3. CASE k <= Len(feed)
      BY <2>4, <3>1, <3>2, <3>3
    <3>4. CASE ~(k <= Len(feed))
      <4>1. k - Len(feed) \in DOMAIN new
        BY <2>3, <2>4, <3>1, <3>4
      <4> QED
        BY <2>2, <2>3, <3>2, <3>4, <4>1
    <3> QED
      BY <3>3, <3>4
  <2> QED
    BY <1>3, <2>6, <2>7 DEF S
<1> QED
  BY <1>2, <1>3, <1>4, <1>7 DEF ServerGrows

-----------------------------------------------------------------------------
\* What the steps do to the tables.

\* A statement that does not touch the entries and OneDrive.
LEMMA Untouched ==
    ASSUME db' = db, server' = server
    PROVE  /\ IdsKept /\ ServerGrows /\ Ref' = Ref
           /\ \A id : Known(id)' <=> Known(id)
           /\ \A id : Inode(id)' = Inode(id)
           /\ Identity => Identity'
           /\ Root => Root'
<1>1. IdsKept /\ ServerGrows /\ Ref' = Ref
  BY DEF IdsKept, ServerGrows, Ref
<1>2. \A id : (Known(id)' <=> Known(id)) /\ Inode(id)' = Inode(id)
  BY DEF Known, Inode
<1>3. Identity => Identity'
  BY DEF Identity
<1>4. Root => Root'
  BY DEF Root
<1> QED
  BY <1>1, <1>2, <1>3, <1>4

\* update_status_by_id changes the status of one row.
LEMMA StatusEffect ==
    ASSUME TypeOK, NEW r \in DOMAIN rows, NEW status,
           status \in {"new", "validated", "processing", "done", "error", "conflicted"},
           SetStatus(r, status)
    PROVE  /\ rows' \in Seq(Row) /\ DOMAIN rows' = DOMAIN rows /\ Len(rows') = Len(rows)
           /\ recent' \subseteq DOMAIN rows
           /\ \A s \in DOMAIN rows : SameRow(rows'[s], rows[s])
           /\ \A s \in DOMAIN rows : SameRow(rows[s], rows'[s])
           /\ \A s \in DOMAIN rows : s # r => rows'[s] = rows[s]
           /\ rows[r].status # "gone" => rows'[r].status = status
           /\ rows[r].status = "gone" => rows'[r].status = "gone"
<1>1. rows' = [rows EXCEPT ![r].status = IF @ = "gone" THEN @ ELSE status]
  BY DEF SetStatus
<1>2. PICK x \in Row : x = rows[r]
  BY Members
<1> DEFINE y == [x EXCEPT !.status = IF x.status = "gone" THEN "gone" ELSE status]
<1>3. y \in Row /\ SameRow(x, y) /\ SameRow(y, x)
      /\ (x.status # "gone" => y.status = status) /\ (x.status = "gone" => y.status = "gone")
  BY DEF Row, SameRow
<1>4. rows'[r] = y
  BY <1>1, <1>2
<1> HIDE DEF y
<1>5. DOMAIN rows' = DOMAIN rows /\ \A s \in DOMAIN rows : s # r => rows'[s] = rows[s]
  BY <1>1
<1>6. rows' \in Seq(Row) /\ Len(rows') = Len(rows)
  <2>1. DOMAIN rows = 1..Len(rows) /\ Len(rows) \in Nat /\ \A s \in DOMAIN rows : rows[s] \in Row
    BY Members
  <2>2. rows' \in [1..Len(rows) -> Row]
    BY <1>1, <1>3, <1>4, <1>5, <2>1
  <2> QED
    BY <2>1, <2>2
<1>7. recent' \subseteq DOMAIN rows
  BY DEF SetStatus, TypeOK
<1>8. \A s \in DOMAIN rows : SameRow(rows[s], rows[s])
  BY DEF SameRow
<1> QED
  BY <1>2, <1>3, <1>4, <1>5, <1>6, <1>7, <1>8

\* A row stored is the last one.
LEMMA AppendEffect ==
    ASSUME TypeOK, NEW row \in Row, rows' = Append(rows, row)
    PROVE  /\ rows' \in Seq(Row) /\ DOMAIN rows' = 1..Len(rows) + 1 /\ Len(rows') = Len(rows) + 1
           /\ DOMAIN rows \subseteq DOMAIN rows'
           /\ \A s \in DOMAIN rows : rows'[s] = rows[s] /\ SameRow(rows'[s], rows[s])
           /\ \A s \in DOMAIN rows' : s \in DOMAIN rows \/ s = Len(rows) + 1
           /\ rows'[Len(rows) + 1] = row /\ Len(rows) + 1 \in DOMAIN rows'
<1>1. DOMAIN rows = 1..Len(rows) /\ Len(rows) \in Nat /\ rows \in Seq(Row)
  BY DEF TypeOK
<1>2. rows' \in Seq(Row) /\ Len(rows') = Len(rows) + 1 /\ DOMAIN rows' = 1..Len(rows) + 1
  BY <1>1
<1>3. \A s \in DOMAIN rows : rows'[s] = rows[s]
  BY <1>1
<1>4. rows'[Len(rows) + 1] = row
  BY <1>1
<1>5. DOMAIN rows \subseteq DOMAIN rows' /\ \A s \in DOMAIN rows' : s \in DOMAIN rows \/ s = Len(rows) + 1
  BY <1>1, <1>2
<1>6. \A s \in DOMAIN rows : SameRow(rows'[s], rows[s])
  BY <1>3 DEF SameRow
<1> QED
  BY <1>1, <1>2, <1>3, <1>4, <1>5, <1>6

\* An entry stored is the last one, and takes no id from another.
LEMMA EntryEffect ==
    ASSUME TypeOK, NEW e \in Entry, db' = Append(db, e), e.pino \in 0..Len(db) + 1
    PROVE  /\ db' \in Seq(Entry) /\ DOMAIN db' = 1..Len(db) + 1 /\ Len(db') = Len(db) + 1
           /\ DOMAIN db \subseteq DOMAIN db' /\ IdsKept
           /\ \A i \in DOMAIN db : db'[i] = db[i]
           /\ DOMAIN db' \ DOMAIN db = {Len(db) + 1}
           /\ db'[Len(db) + 1] = e /\ Len(db) + 1 \in DOMAIN db'
           /\ \A i \in DOMAIN db' : db'[i].pino \in 0..Len(db')
           /\ chain \in Seq(DOMAIN db')
<1>1. DOMAIN db = 1..Len(db) /\ Len(db) \in Nat /\ db \in Seq(Entry)
  BY DEF TypeOK
<1>2. db' \in Seq(Entry) /\ Len(db') = Len(db) + 1 /\ DOMAIN db' = 1..Len(db) + 1
  BY <1>1
<1>3. \A i \in DOMAIN db : db'[i] = db[i]
  BY <1>1
<1>4. db'[Len(db) + 1] = e
  BY <1>1
<1>5. DOMAIN db \subseteq DOMAIN db' /\ DOMAIN db' \ DOMAIN db = {Len(db) + 1}
  BY <1>1, <1>2
<1>6. IdsKept
  BY <1>3, <1>5 DEF IdsKept
<1>7. \A i \in DOMAIN db' : db'[i].pino \in 0..Len(db')
  <2>1. \A i \in DOMAIN db : db[i].pino \in 0..Len(db) + 1
    BY <1>1 DEF TypeOK
  <2> QED
    BY <1>2, <1>3, <1>4, <1>5, <2>1
<1>8. chain \in Seq(DOMAIN db')
  <2>1. chain \in Seq(DOMAIN db)
    BY DEF TypeOK
  <2> QED
    BY <1>5, <2>1, SeqMonotonic
<1> QED
  BY <1>1, <1>2, <1>3, <1>4, <1>5, <1>6, <1>7, <1>8

\* The row of an entry, but of the root, and of an item.
LEMMA NewRowType ==
    ASSUME NEW type \in {"remote", "local"}, NEW op \in {"create", "delete"}, NEW e,
           e.path \in Seq(Name), e.path # << >>, e.id \in Int, e.pid \in Int,
           e.folder \in BOOLEAN
    PROVE  /\ NewRow(type, op, e) \in Row
           /\ NewRow(type, op, e).type = type /\ NewRow(type, op, e).op = op
           /\ NewRow(type, op, e).id = e.id /\ NewRow(type, op, e).pid = e.pid
           /\ NewRow(type, op, e).status = "new"
<1>1. Front(e.path) \in Seq(Name)
  <2>1. Len(e.path) \in Nat \ {0}
    BY EmptySeq
  <2> QED
    BY <2>1 DEF Front
<1>2. Last(e.path) \in Name
  <2>1. Len(e.path) \in Nat \ {0}
    BY EmptySeq
  <2> QED
    BY <2>1 DEF Last
<1> HIDE DEF Name
<1> QED
  BY <1>1, <1>2 DEF NewRow, Row

\* A dropped row.
LEMMA NoRowType == NoRow \in Row
<1>1. <<"folder", 0>> \in Name
  BY DEF Name
<1>2. << >> \in Seq(Name)
  OBVIOUS
<1> QED
  BY <1>1, <1>2 DEF NoRow, Row

\* What the user made in a folder.
LEMMA MadeInType ==
    ASSUME TypeOK, Made, NEW n
    PROVE  MadeIn(n) \subseteq DOMAIN db
<1>1. DOMAIN db = 1..Len(db) /\ Len(db) \in Nat
  BY DEF TypeOK
<1> QED
  BY <1>1 DEF MadeIn, TreeOf, Made

\* What other clients do leaves the tables, FUSE and the cycle alone.
LEMMA OthersStep ==
    ASSUME Inv, UNCHANGED <<db, rows, recent, fuse, cycle, lost, cut>>,
           server' \in Seq(Item), ServerGrows,
           feed' \in Seq([op : {"create", "delete"}, id : DOMAIN server']),
           removed \subseteq removed', removed' \subseteq DOMAIN db,
           \A n \in DOMAIN server :
              server[n].live => server'[n].live \/ server[n].by \in removed' \union {0},
           \A n \in DOMAIN server' \ DOMAIN server :
              /\ server'[n].by = 0 /\ server'[n].live /\ server'[n].path # << >>
              /\ server'[n].parent \in DOMAIN server,
           \A k \in DOMAIN feed' :
              \/ k \in DOMAIN feed /\ feed'[k] = feed[k]
              \/ feed'[k].id # 1 /\ (feed'[k].op = "create" => server'[feed'[k].id].by = 0)
    PROVE  Inv'
<1> USE DEF Inv
<1>0. /\ db' = db /\ rows' = rows /\ recent' = recent /\ fuse' = fuse /\ pc' = pc /\ todo' = todo
      /\ cur' = cur /\ item' = item /\ chain' = chain /\ under' = under /\ answer' = answer
      /\ lost' = lost /\ cut' = cut
  BY DEF cycle
<1>1. TypeOK'
  <2>1. answer \in 0..Len(server')
    <3>1. DOMAIN server = 1..Len(server) /\ Len(server) \in Nat /\ answer \in 0..Len(server)
      BY DEF TypeOK
    <3>2. DOMAIN server' = 1..Len(server') /\ Len(server') \in Nat
      OBVIOUS
    <3>3. answer # 0 => answer \in DOMAIN server'
      BY <3>1 DEF ServerGrows
    <3> QED
      BY <3>1, <3>2, <3>3
  <2>2. removed' \union lost' \subseteq DOMAIN db'
    BY <1>0 DEF TypeOK
  <2> QED
    BY <1>0, <2>1, <2>2 DEF TypeOK
<1>2. IdsKept /\ DOMAIN db \subseteq DOMAIN db' /\ DOMAIN db' \ DOMAIN db = {}
  BY <1>0 DEF IdsKept
<1>3. Identity'
  BY <1>1, <1>2, IdentityKept
<1>4. Made'
  BY <1>1, <1>2, MadeKept
<1>5. Root'
  BY <1>0, <1>1, <1>2, RootKept DEF Root
<1>6. RowsSound'
  BY <1>0, <1>1, <1>2, RowsSoundKept DEF SameRow
<1>7. Parents'
  BY <1>0, <1>1, <1>2, ParentsKept DEF SameRow
<1>8. CycleSound'
  BY <1>0, <1>1, <1>2, <1>3, CycleKept
<1>9. FuseSound'
  <2>1. \A i : Unreferred(i) => Unreferred(i)'
    BY <1>0 DEF Unreferred
  <2> QED
    BY <1>0, <1>1, <1>2, <2>1, FuseKept DEF FuseSound
<1>10. Cared'
  <2>1. \A i \in DOMAIN db : (Making(i) \/ i \in Unstored) => Care(i)'
    BY <1>0 DEF Making, Unstored, Care
  <2>2. \A i \in DOMAIN db, r \in DOMAIN rows : Waits(r, i) => Care(i)'
    BY <1>0 DEF Waits, Care
  <2> QED
    BY <1>0, <1>1, <1>2, <1>3, <2>1, <2>2, CaredKept DEF SameRow
<1> QED
  BY <1>1, <1>3, <1>4, <1>5, <1>6, <1>7, <1>8, <1>9, <1>10

\* An item stored on OneDrive.
LEMMA ServerEffect ==
    ASSUME TypeOK, NEW x \in Item, server' = Append(server, x)
    PROVE  /\ server' \in Seq(Item) /\ DOMAIN server' = 1..Len(server) + 1
           /\ Len(server') = Len(server) + 1
           /\ ServerGrows /\ \A n \in DOMAIN server : server'[n] = server[n]
           /\ DOMAIN server' \ DOMAIN server = {Len(server) + 1}
           /\ server'[Len(server) + 1] = x /\ Len(server) + 1 \in DOMAIN server'
           /\ feed \in Seq([op : {"create", "delete"}, id : DOMAIN server'])
<1>1. DOMAIN server = 1..Len(server) /\ Len(server) \in Nat /\ server \in Seq(Item)
  BY DEF TypeOK
<1>2. server' \in Seq(Item) /\ Len(server') = Len(server) + 1 /\ DOMAIN server' = 1..Len(server) + 1
  BY <1>1
<1>3. \A n \in DOMAIN server : server'[n] = server[n]
  BY <1>1
<1>4. server'[Len(server) + 1] = x
  BY <1>1
<1>5. DOMAIN server \subseteq DOMAIN server' /\ DOMAIN server' \ DOMAIN server = {Len(server) + 1}
  BY <1>1, <1>2
<1>6. ServerGrows
  BY <1>3, <1>5 DEF ServerGrows
<1>7. feed \in Seq([op : {"create", "delete"}, id : DOMAIN server'])
  <2> DEFINE S == [op : {"create", "delete"}, id : DOMAIN server]
             T == [op : {"create", "delete"}, id : DOMAIN server']
  <2>1. feed \in Seq(S)
    BY DEF TypeOK
  <2>2. S \subseteq T
    BY <1>5
  <2> HIDE DEF S, T
  <2>3. feed \in Seq(T)
    BY <2>1, <2>2, SeqMonotonic
  <2> QED
    BY <2>3 DEF T
<1> QED
  BY <1>1, <1>2, <1>3, <1>4, <1>5, <1>6, <1>7

\* Another client deletes a folder: what was made here in it is now in `removed`.
LEMMA RemoteDeleteStep ==
    ASSUME Inv, NEW n \in DOMAIN server, RemoteDelete(n)
    PROVE  Inv'
<1> USE DEF Inv
<1>1. n # 1 /\ Deleted(n) /\ removed' = removed \union MadeIn(n)
      /\ UNCHANGED <<db, rows, recent, fuse, cycle, lost, cut>>
  BY DEF RemoteDelete, RemoteChange
<1>2. MadeIn(n) \subseteq DOMAIN db /\ removed \subseteq DOMAIN db
  BY MadeInType DEF TypeOK
<1>3. /\ server' \in Seq(Item) /\ DOMAIN server' = DOMAIN server /\ ServerGrows
      /\ \A m \in DOMAIN server :
            server[m].live => server'[m].live \/ server[m].by \in MadeIn(n) \union {0}
      /\ feed' \in Seq([op : {"create", "delete"}, id : DOMAIN server'])
      /\ \A k \in DOMAIN feed' :
            \/ k \in DOMAIN feed /\ feed'[k] = feed[k]
            \/ feed'[k].id # 1 /\ feed'[k].op = "delete"
  BY <1>1, DeletedEffect
<1> QED
  BY <1>1, <1>2, <1>3, OthersStep

\* Another client adds a file: an item made by nobody here, told of in the delta.
LEMMA RemoteCreateStep ==
    ASSUME Inv, NEW n \in DOMAIN server, RemoteCreate(n)
    PROVE  Inv'
<1> USE DEF Inv
<1> DEFINE x == [path |-> Append(server[n].path, <<"theirs", Len(server)>>), parent |-> n,
                 folder |-> FALSE, live |-> TRUE, by |-> 0]
           new == [op |-> "create", id |-> Len(server) + 1]
           T == [op : {"create", "delete"}, id : DOMAIN server']
<1>1. /\ server' = Append(server, x) /\ feed' = Append(feed, new) /\ removed' = removed
      /\ UNCHANGED <<db, rows, recent, fuse, cycle, lost, cut>>
  BY DEF RemoteCreate, RemoteChange
<1>2. x \in Item /\ x.path # << >> /\ Len(server) \in Nat
  <2>1. server[n].path \in Seq(Name) /\ n \in Nat /\ Len(server) \in Nat
    BY Members DEF Item
  <2>2. <<"theirs", Len(server)>> \in Name
    BY <2>1 DEF Name
  <2> HIDE DEF Name
  <2>3. /\ Append(server[n].path, <<"theirs", Len(server)>>) \in Seq(Name)
        /\ Append(server[n].path, <<"theirs", Len(server)>>) # << >>
    BY <2>1, <2>2, AppendProperties
  <2> QED
    BY <2>1, <2>3 DEF Item
<1>3. x.by = 0 /\ x.live /\ x.parent = n
  OBVIOUS
<1> HIDE DEF x
<1>4. /\ server' \in Seq(Item) /\ ServerGrows /\ \A m \in DOMAIN server : server'[m] = server[m]
      /\ DOMAIN server' \ DOMAIN server = {Len(server) + 1}
      /\ server'[Len(server) + 1] = x /\ Len(server) + 1 \in DOMAIN server'
      /\ feed \in Seq(T)
  BY <1>1, <1>2, ServerEffect
<1>5. feed' \in Seq(T) /\ \A k \in DOMAIN feed' : (k \in DOMAIN feed /\ feed'[k] = feed[k]) \/ feed'[k] = new
  <2>1. new \in T
    BY <1>4
  <2> HIDE DEF T, new
  <2> QED
    BY <1>1, <1>4, <2>1
<1>6. new.id # 1 /\ server'[new.id].by = 0
  <2>1. Len(server) \in Nat /\ Len(server) >= 3
    BY <1>2 DEF Root
  <2> QED
    BY <1>3, <1>4, <2>1
<1>7. removed' \subseteq DOMAIN db
  BY <1>1 DEF TypeOK
<1> HIDE DEF new
<1>8. /\ \A m \in DOMAIN server : server[m].live => server'[m].live
      /\ \A m \in DOMAIN server' \ DOMAIN server :
            /\ server'[m].by = 0 /\ server'[m].live /\ server'[m].path # << >>
            /\ server'[m].parent \in DOMAIN server
  BY <1>2, <1>3, <1>4
<1>9. \A k \in DOMAIN feed' :
         \/ k \in DOMAIN feed /\ feed'[k] = feed[k]
         \/ feed'[k].id # 1 /\ (feed'[k].op = "create" => server'[feed'[k].id].by = 0)
  BY <1>5, <1>6
<1> HIDE DEF Inv
<1> QED
  BY <1>1, <1>4, <1>5, <1>7, <1>8, <1>9, OthersStep

-----------------------------------------------------------------------------
\* The user, and FUSE.

\* The id the next entry will have is nobody's.
LEMMA NewId ==
    ASSUME TypeOK, NEW ref \in Ref
    PROVE  ref # -(Len(db) + 1)
<1>1. DOMAIN db = 1..Len(db) /\ Len(db) \in Nat /\ Len(server) \in Nat
  BY DEF TypeOK
<1>2. CASE \E i \in DOMAIN db : ref = -i
  BY <1>1, <1>2
<1>3. CASE ref \in 0..Len(server)
  BY <1>1, <1>3
<1> QED
  BY <1>2, <1>3 DEF Ref

\* The id of an entry is one of those.
LEMMA IdsAreRefs ==
    ASSUME TypeOK, Identity, NEW i \in DOMAIN db
    PROVE  db[i].id \in Ref /\ db[i].id \in Int
<1>1. DOMAIN server = 1..Len(server) /\ Len(server) \in Nat /\ i \in Nat
  BY Members
<1> QED
  BY <1>1 DEF Ref, Identity

\* FUSE alone goes on.
LEMMA FuseOnly ==
    ASSUME Inv, UNCHANGED <<server, feed, db, rows, recent, cycle>>, FuseSound',
           lost \subseteq lost', lost' \subseteq DOMAIN db, removed' = removed,
           cut' = cut, Unstored \subseteq lost' \union Unstored'
    PROVE  Inv'
<1> USE DEF Inv
<1>0. /\ db' = db /\ rows' = rows /\ recent' = recent /\ pc' = pc /\ todo' = todo
      /\ cur' = cur /\ item' = item /\ chain' = chain /\ under' = under /\ answer' = answer
      /\ server' = server /\ feed' = feed
  BY DEF cycle
<1>1. TypeOK'
  <2>1. fuse'.pc \in {"idle", "insert", "row"} /\ fuse'.row \in Row
    BY DEF FuseSound
  <2>2. removed' \union lost' \subseteq DOMAIN db'
    BY <1>0 DEF TypeOK
  <2> QED
    BY <1>0, <2>1, <2>2 DEF TypeOK
<1>2. IdsKept /\ ServerGrows /\ Identity' /\ Root'
  BY <1>0, Untouched
<1>3. DOMAIN db \subseteq DOMAIN db' /\ DOMAIN db' \ DOMAIN db = {} /\ DOMAIN server' \ DOMAIN server = {}
  BY <1>0
<1>4. Made'
  BY <1>0, <1>1, <1>2, <1>3, MadeKept
<1>5. RowsSound'
  BY <1>0, <1>1, <1>2, RowsSoundKept DEF SameRow
<1>6. Parents'
  BY <1>0, <1>1, <1>2, ParentsKept DEF SameRow
<1>7. CycleSound'
  BY <1>0, <1>1, <1>2, <1>3, CycleKept
<1>8. Cared'
  <2>1. \A i \in DOMAIN db : (Making(i) \/ i \in Unstored) => Care(i)'
    BY <1>0 DEF Making, Care
  <2>2. \A i \in DOMAIN db, r \in DOMAIN rows : Waits(r, i) => Care(i)'
    BY <1>0 DEF Waits, Care
  <2> QED
    BY <1>0, <1>1, <1>2, <1>3, <2>1, <2>2, CaredKept DEF SameRow
<1> QED
  BY <1>1, <1>2, <1>4, <1>5, <1>6, <1>7, <1>8

\* What is to be made in a folder.
LEMMA NewEntryType ==
    ASSUME TypeOK, Root, Identity, NEW dir \in DOMAIN db, NEW name \in Name, NEW folder \in BOOLEAN
    PROVE  /\ NewEntry(name, dir, folder) \in Entry
           /\ NewEntry(name, dir, folder).path # << >>
           /\ NewEntry(name, dir, folder).id = -(Len(db) + 1)
           /\ NewEntry(name, dir, folder).pid = db[dir].id
           /\ NewEntry(name, dir, folder).pino = dir
           /\ NewEntry(name, dir, folder).deleted = FALSE
<1>1. db[dir].path \in Seq(Name) /\ dir \in Nat /\ Len(db) \in Nat /\ db[dir].id \in Int
  BY Members DEF Entry
<1> HIDE DEF Name
<1>2. Append(db[dir].path, name) \in Seq(Name) /\ Append(db[dir].path, name) # << >>
  BY <1>1, AppendProperties
<1> QED
  BY <1>1, <1>2 DEF NewEntry, Entry

\* mkdir or create has read the parent; nothing is stored yet.
LEMMA MakeStep ==
    ASSUME Inv, NEW dir \in DOMAIN db, NEW n \in Names, NEW folder \in BOOLEAN, Make(dir, n, folder)
    PROVE  Inv'
<1> USE DEF Inv
<1> DEFINE e == NewEntry(<<n, 0>>, dir, folder)
           row == NewRow("local", "create", e)
<1>1. /\ fuse.pc = "idle" /\ UNCHANGED <<server, feed, db, rows, recent, cycle, lost, removed, cut>>
      /\ fuse' = [pc |-> "insert", ino |-> dir, row |-> row]
  BY DEF Make, Permitted
<1>2. <<n, 0>> \in Name
  BY DEF Name
<1>3. /\ e \in Entry /\ e.path # << >> /\ e.pid = db[dir].id
  BY <1>2, NewEntryType
<1> HIDE DEF e
<1>4. row \in Row /\ row.type = "local" /\ row.op = "create" /\ row.pid = e.pid /\ row.status = "new"
  <2>1. e.path \in Seq(Name) /\ e.id \in Int /\ e.pid \in Int /\ e.folder \in BOOLEAN
    BY <1>3 DEF Entry
  <2> QED
    BY <1>3, <2>1, NewRowType
<1> HIDE DEF row
<1>5. db[dir].id \in Ref /\ dir \in Nat
  BY IdsAreRefs, Members
<1>6. FuseSound'
  <2>1. fuse' \in [pc : {"idle", "insert", "row"}, ino : Nat, row : Row]
    BY <1>1, <1>4, <1>5
  <2>2. fuse'.ino \in DOMAIN db' /\ fuse'.row.pid \in Ref' /\ fuse'.row.op = "create"
    BY <1>1, <1>3, <1>4, <1>5, Untouched
  <2>3. fuse'.row.type = "local" /\ fuse'.row.status = "new" /\ fuse'.pc = "insert"
    BY <1>1, <1>4
  <2> QED
    BY <2>1, <2>2, <2>3 DEF FuseSound
<1>7. Unstored = {}
  BY <1>1 DEF Unstored
<1>8. lost' \subseteq DOMAIN db
  BY <1>1 DEF TypeOK
<1> HIDE DEF Inv
<1> QED
  BY <1>1, <1>6, <1>7, <1>8, FuseOnly

\* The row is not stored: the entry is in `lost` from here on.
LEMMA FuseRowFailsStep ==
    ASSUME Inv, FuseRowFails
    PROVE  Inv'
<1> USE DEF Inv
<1>1. /\ fuse.pc = "row" /\ fuse' = Idle /\ lost' = lost \union {fuse.ino}
      /\ UNCHANGED <<server, feed, db, rows, recent, cycle, removed, cut>>
  BY DEF FuseRowFails
<1>2. FuseSound'
  BY <1>1, NoRowType DEF FuseSound, Idle
<1>3. Unstored \subseteq lost'
  BY <1>1 DEF Unstored
<1>4. lost' \subseteq DOMAIN db
  BY <1>1 DEF TypeOK, FuseSound
<1> HIDE DEF Inv
<1> QED
  BY <1>1, <1>2, <1>3, <1>4, FuseOnly

\* The new entry has the next inode, which nothing can refer to yet.
LEMMA FuseInsertStep ==
    ASSUME Inv, FuseInsert
    PROVE  Inv'
<1> USE DEF Inv
<1>i. PICK i \in Nat : i = Len(db) + 1
  BY Members
<1> DEFINE e == [id |-> -i, pid |-> fuse.row.pid, pino |-> fuse.ino, folder |-> fuse.row.folder,
                 deleted |-> FALSE, path |-> Append(fuse.row.dir, fuse.row.name)]
           row == NewRow("local", "create", e)
<1>1. /\ fuse.pc = "insert" /\ db' = Append(db, e) /\ fuse' = [pc |-> "row", ino |-> i, row |-> row]
      /\ UNCHANGED <<server, feed, rows, recent, cycle, lost, removed, cut>>
  BY <1>i DEF FuseInsert, history
<1>0. /\ rows' = rows /\ recent' = recent /\ pc' = pc /\ todo' = todo /\ lost' = lost
      /\ cur' = cur /\ item' = item /\ chain' = chain /\ under' = under /\ answer' = answer
      /\ server' = server /\ feed' = feed /\ removed' = removed /\ cut' = cut
  BY <1>1 DEF cycle
<1>2. /\ fuse.ino \in DOMAIN db /\ fuse.row.pid \in Ref /\ fuse.row \in Row
      /\ Len(db) \in Nat /\ DOMAIN db = 1..Len(db) /\ Len(db) >= 3
  BY <1>1, Members DEF FuseSound, Root
<1>3. fuse.ino \in 0..Len(db) /\ fuse.row.pid \in Int /\ fuse.row.folder \in BOOLEAN
  BY <1>2 DEF Row
<1>4. e.path \in Seq(Name) /\ e.path # << >>
  <2>1. fuse.row.dir \in Seq(Name) /\ fuse.row.name \in Name
    BY <1>2 DEF Row
  <2> HIDE DEF Name
  <2> QED
    BY <2>1, AppendProperties
<1>5. e \in Entry /\ e.id = -i /\ e.pid = fuse.row.pid /\ e.pino = fuse.ino /\ ~e.deleted
  BY <1>i, <1>2, <1>3, <1>4 DEF Entry
<1> HIDE DEF e
<1>6. row \in Row /\ row.type = "local" /\ row.op = "create" /\ row.id = -i
      /\ row.pid = fuse.row.pid /\ row.status = "new"
  <2>1. e.path \in Seq(Name) /\ e.id \in Int /\ e.pid \in Int /\ e.folder \in BOOLEAN
    BY <1>5 DEF Entry
  <2> QED
    BY <1>4, <1>5, <2>1, NewRowType
<1> HIDE DEF row
<1>7. /\ db' \in Seq(Entry) /\ DOMAIN db' = 1..Len(db) + 1 /\ Len(db') = Len(db) + 1
      /\ DOMAIN db \subseteq DOMAIN db' /\ IdsKept
      /\ \A j \in DOMAIN db : db'[j] = db[j]
      /\ DOMAIN db' \ DOMAIN db = {i}
      /\ db'[i] = e /\ i \in DOMAIN db'
      /\ \A j \in DOMAIN db' : db'[j].pino \in 0..Len(db')
      /\ chain \in Seq(DOMAIN db')
  <2>1. e.pino \in 0..Len(db) + 1
    BY <1>2, <1>3, <1>5
  <2> QED
    BY <1>i, <1>1, <1>5, <2>1, EntryEffect
<1>8. TypeOK'
  <2>1. fuse'.pc \in {"idle", "insert", "row"} /\ fuse'.row \in Row
    BY <1>1, <1>6
  <2>2. removed' \union lost' \subseteq DOMAIN db' /\ under' \in 0..Len(db')
    BY <1>0, <1>2, <1>7 DEF TypeOK
  <2>3. /\ server' \in Seq(Item) /\ feed' \in Seq([op : {"create", "delete"}, id : DOMAIN server'])
        /\ rows' \in Seq(Row) /\ recent' \subseteq DOMAIN rows'
        /\ todo' \subseteq DOMAIN rows' /\ cur' \in 0..Len(rows') /\ item' \in Row
        /\ answer' \in 0..Len(server')
    BY <1>0 DEF TypeOK
  <2>4. /\ pc' \in {"idle", "listed", "restore", "reset", "apply", "climb", "rebuild", "made",
                   "drop", "again", "begun", "created", "fetch", "closing"} \union Replacements
        /\ cut' \subseteq Int
    BY <1>0 DEF TypeOK
  <2> QED
    BY <1>0, <1>7, <2>1, <2>2, <2>3, <2>4 DEF TypeOK
<1>9. ServerGrows /\ DOMAIN server' \ DOMAIN server = {}
  BY <1>0 DEF ServerGrows
<1>10. Identity'
  BY <1>5, <1>7, <1>8, <1>9, IdentityKept
<1>11. Made'
  BY <1>0, <1>7, <1>8, <1>9, MadeKept
<1>12. Root'
  <2>0. 1 \in DOMAIN db
    BY <1>2
  <2>1. db'[1].id = 1 /\ db'[1].pino = 0 /\ ~db'[1].deleted
    BY <1>7, <2>0 DEF Root
  <2> QED
    BY <1>4, <1>7, <1>8, <1>9, <2>1, RootKept DEF e
<1>13. Ref \subseteq Ref' /\ Ref' = Ref \union {-i}
  <2>1. Ref \subseteq Ref'
    BY <1>7, <1>8, <1>9, RefKept
  <2>2. {-j : j \in DOMAIN db'} = {-j : j \in DOMAIN db} \union {-i}
    BY <1>7
  <2> QED
    BY <1>0, <2>1, <2>2 DEF Ref
<1>14. RowsSound'
  <2>1. \A j \in DOMAIN db' : (j \in DOMAIN db /\ db'[j].pid = db[j].pid) \/ db'[j].pid \in Ref'
    BY <1>2, <1>5, <1>7, <1>13
  <2> QED
    BY <1>0, <1>7, <1>8, <1>9, <2>1, RowsSoundKept DEF SameRow
<1>15. Parents'
  BY <1>0, <1>7, <1>8, ParentsKept DEF SameRow
<1>16. CycleSound'
  BY <1>0, <1>1, <1>2, <1>5, <1>7, <1>8, <1>9, <1>10, CycleKept
<1>17. FuseSound'
  <2>1. Unreferred(i)'
    <3>1. \A ref \in Ref : ref # -i
      BY <1>i, NewId
    <3>2. \A r \in DOMAIN rows : rows[r].id # -i /\ rows[r].pid # -i
      BY <3>1 DEF RowsSound, RowSound
    <3>3. item.id # -i /\ item.pid # -i
      BY <3>1 DEF CycleSound
    <3>4. \A j \in DOMAIN db' : db'[j].pid # -i
      BY <1>2, <1>5, <1>7, <3>1 DEF RowsSound
    <3>5. under # i /\ \A k \in DOMAIN chain : chain[k] # i
      <4>1. under \in 0..Len(db) /\ chain \in Seq(DOMAIN db)
        BY DEF TypeOK
      <4>2. i \notin DOMAIN db /\ i \notin 0..Len(db)
        BY <1>i, <1>2
      <4> QED
        BY <4>1, <4>2
    <3> QED
      BY <1>0, <3>2, <3>3, <3>4, <3>5 DEF Unreferred
  <2>2. fuse' \in [pc : {"idle", "insert", "row"}, ino : Nat, row : Row]
    BY <1>1, <1>6
  <2>3. fuse'.pc = "row" /\ fuse'.ino = i /\ fuse'.row = row
    BY <1>1
  <2>4. i \in DOMAIN db' /\ i # 1 /\ row.pid \in Ref' /\ row.id \in Ref' \ {1} /\ db'[i].id = -i
    BY <1>i, <1>2, <1>5, <1>6, <1>7, <1>13
  <2> QED
    BY <1>6, <2>1, <2>2, <2>3, <2>4 DEF FuseSound
<1>18. Cared'
  <2>1. ASSUME NEW j \in DOMAIN db, Making(j) \/ j \in Unstored PROVE Care(j)'
    BY <1>0, <1>1, <1>7, <2>1 DEF Making, Unstored, Care
  <2>2. ASSUME NEW j \in DOMAIN db, NEW r \in DOMAIN rows, Waits(r, j) PROVE Care(j)'
    BY <1>0, <1>7, <2>2 DEF Waits, Care
  <2>3. \A j \in DOMAIN db' \ DOMAIN db : Care(j)'
    BY <1>1, <1>7 DEF Unstored, Care
  <2>4. \A j \in DOMAIN db' \ DOMAIN db : j > Len(db) /\ ~db'[j].deleted
    BY <1>i, <1>5, <1>7
  <2>5. \A j \in DOMAIN db : db'[j].deleted = db[j].deleted
    BY <1>7
  <2> QED
    BY <1>0, <1>7, <1>8, <1>10, <2>1, <2>2, <2>3, <2>4, <2>5, CaredKept DEF SameRow
<1> QED
  BY <1>8, <1>10, <1>11, <1>12, <1>14, <1>15, <1>16, <1>17, <1>18

\* Entries are marked as deleted.
LEMMA MarkEffect ==
    ASSUME TypeOK, NEW gone,
           db' = [i \in DOMAIN db |-> [db[i] EXCEPT !.deleted = @ \/ i \in gone]]
    PROVE  /\ db' \in Seq(Entry) /\ DOMAIN db' = DOMAIN db /\ Len(db') = Len(db) /\ IdsKept
           /\ \A i \in DOMAIN db : /\ db'[i].id = db[i].id /\ db'[i].pid = db[i].pid
                                   /\ db'[i].pino = db[i].pino /\ db'[i].path = db[i].path
                                   /\ db'[i].deleted = (db[i].deleted \/ i \in gone)
           /\ \A i \in DOMAIN db' : db'[i].pino \in 0..Len(db')
<1>1. ASSUME NEW i \in DOMAIN db
      PROVE  /\ db'[i] \in Entry /\ db'[i].id = db[i].id /\ db'[i].pid = db[i].pid
             /\ db'[i].pino = db[i].pino /\ db'[i].path = db[i].path
             /\ db'[i].deleted = (db[i].deleted \/ i \in gone)
  <2>1. PICK x \in Entry : x = db[i]
    BY Members
  <2> DEFINE y == [x EXCEPT !.deleted = x.deleted \/ i \in gone]
  <2>2. /\ y \in Entry /\ y.id = x.id /\ y.pid = x.pid /\ y.pino = x.pino /\ y.path = x.path
    BY DEF Entry
  <2>3. y.deleted = (x.deleted \/ i \in gone)
    BY DEF Entry
  <2>4. db'[i] = y
    BY <2>1
  <2> HIDE DEF y
  <2> QED
    BY <2>1, <2>2, <2>3, <2>4
<1>2. DOMAIN db' = DOMAIN db /\ db' \in Seq(Entry) /\ Len(db') = Len(db)
  <2>1. DOMAIN db = 1..Len(db) /\ Len(db) \in Nat
    BY Members
  <2>2. db' \in [1..Len(db) -> Entry]
    BY <1>1, <2>1
  <2> QED
    BY <2>1, <2>2
<1>3. \A i \in DOMAIN db' : db'[i].pino \in 0..Len(db')
  BY <1>1, <1>2 DEF TypeOK
<1> QED
  BY <1>1, <1>2, <1>3 DEF IdsKept

\* The root is in no folder.
LEMMA RootApart ==
    ASSUME TypeOK, Root, NEW dir \in DOMAIN db, dir # 1
    PROVE  1 \notin Descendants(dir)
<1>1. DOMAIN db = 1..Len(db) /\ Len(db) \in Nat /\ db[1].pino = 0
  BY Members DEF Root
<1> DEFINE live == {j \in DOMAIN db : ~db[j].deleted}
           S == live \ {1}
<1>2. ASSUME NEW j \in live, db[j].pino \in S \union {dir} PROVE j \in S
  BY <1>1, <1>2
<1>3. S \in SUBSET live /\ 1 \notin S
  OBVIOUS
<1> HIDE DEF S
<1> QED
  BY <1>2, <1>3 DEF Descendants

\* A removed folder and all below it are marked, and in `removed`.
LEMMA RmdirStep ==
    ASSUME Inv, NEW dir \in DOMAIN db, Rmdir(dir)
    PROVE  Inv'
<1> USE DEF Inv
<1> DEFINE gone == {dir} \union Descendants(dir)
           row == NewRow("local", "delete", db[dir])
<1>1. /\ fuse.pc = "idle" /\ dir > 1
      /\ db' = [i \in DOMAIN db |-> [db[i] EXCEPT !.deleted = @ \/ i \in gone]]
      /\ removed' = removed \union gone
      /\ fuse' = [pc |-> "row", ino |-> dir, row |-> row]
      /\ UNCHANGED <<server, feed, rows, recent, cycle, lost, cut>>
  BY DEF Rmdir, Permitted
<1>0. /\ rows' = rows /\ recent' = recent /\ pc' = pc /\ todo' = todo /\ lost' = lost
      /\ cur' = cur /\ item' = item /\ chain' = chain /\ under' = under /\ answer' = answer
      /\ server' = server /\ feed' = feed /\ cut' = cut
  BY <1>1 DEF cycle
<1>2. gone \subseteq DOMAIN db /\ 1 \notin gone /\ dir \in gone
  <2>1. Descendants(dir) \subseteq DOMAIN db /\ dir # 1
    BY <1>1 DEF Descendants
  <2> QED
    BY <1>1, <2>1, RootApart
<1> HIDE DEF gone
<1>3. /\ db' \in Seq(Entry) /\ DOMAIN db' = DOMAIN db /\ Len(db') = Len(db) /\ IdsKept
      /\ \A i \in DOMAIN db : /\ db'[i].id = db[i].id /\ db'[i].pid = db[i].pid
                              /\ db'[i].pino = db[i].pino /\ db'[i].path = db[i].path
                              /\ db'[i].deleted = (db[i].deleted \/ i \in gone)
      /\ \A i \in DOMAIN db' : db'[i].pino \in 0..Len(db')
  BY <1>1, MarkEffect
<1>4. db[dir] \in Entry /\ db[dir].path # << >> /\ dir # 1 /\ dir \in Nat
  BY <1>1, Members DEF Root
<1>5. /\ row \in Row /\ row.type = "local" /\ row.op = "delete" /\ row.id = db[dir].id
      /\ row.pid = db[dir].pid /\ row.status = "new"
  <2>1. /\ db[dir].path \in Seq(Name) /\ db[dir].id \in Int /\ db[dir].pid \in Int
        /\ db[dir].folder \in BOOLEAN
    BY <1>4 DEF Entry
  <2> QED
    BY <1>4, <2>1, NewRowType
<1> HIDE DEF row
<1>6. TypeOK'
  <2>1. fuse'.pc \in {"idle", "insert", "row"} /\ fuse'.row \in Row
    BY <1>1, <1>5
  <2>2. removed' \union lost' \subseteq DOMAIN db' /\ under' \in 0..Len(db') /\ chain' \in Seq(DOMAIN db')
    BY <1>0, <1>1, <1>2, <1>3 DEF TypeOK
  <2> QED
    BY <1>0, <1>3, <2>1, <2>2 DEF TypeOK
<1>7. ServerGrows /\ DOMAIN server' \ DOMAIN server = {} /\ DOMAIN db' \ DOMAIN db = {}
  BY <1>0, <1>3 DEF ServerGrows
<1>8. Identity'
  BY <1>3, <1>6, <1>7, IdentityKept
<1>9. Made'
  <2>1. removed \subseteq removed'
    BY <1>1
  <2> QED
    BY <2>1, <1>0, <1>3, <1>6, <1>7, MadeKept
<1>10. Root'
  <2>0. 1 \in DOMAIN db
    BY Members DEF Root
  <2>1. db'[1].id = 1 /\ db'[1].pino = 0 /\ ~db'[1].deleted
    BY <1>2, <1>3, <2>0 DEF Root
  <2> QED
    BY <1>3, <1>6, <1>7, <2>1, RootKept
<1>11. RowsSound'
  BY <1>0, <1>3, <1>6, <1>7, RowsSoundKept DEF SameRow
<1>12. Parents'
  BY <1>0, <1>3, <1>6, ParentsKept DEF SameRow
<1>13. CycleSound'
  BY <1>0, <1>1, <1>3, <1>6, <1>7, <1>8, CycleKept
<1>14. FuseSound'
  <2>1. Ref \subseteq Ref'
    BY <1>3, <1>6, <1>7, RefKept
  <2>2. db[dir].id \in Ref /\ db[dir].pid \in Ref
    BY IdsAreRefs DEF RowsSound
  <2>3. db[dir].id # 1
    <3>1. 1 \in DOMAIN db /\ db[1].id = 1
      BY Members DEF Root
    <3> QED
      BY <1>4, <3>1 DEF Identity
  <2>4. db[dir].id < 0 => db[dir].id = -dir
    <3>1. \A n \in DOMAIN server : n \in Nat
      BY Members
    <3> QED
      BY <3>1 DEF Identity
  <2>5. fuse' \in [pc : {"idle", "insert", "row"}, ino : Nat, row : Row]
    BY <1>1, <1>4, <1>5
  <2>6. fuse'.pc = "row" /\ fuse'.ino = dir /\ fuse'.row = row
    BY <1>1
  <2>7. dir \in DOMAIN db' /\ db'[dir].deleted
    BY <1>2, <1>3
  <2> QED
    BY <1>4, <1>5, <2>1, <2>2, <2>3, <2>4, <2>5, <2>6, <2>7 DEF FuseSound
<1>15. Cared'
  <2>1. ASSUME NEW j \in DOMAIN db, Making(j) \/ j \in Unstored PROVE Care(j)'
    BY <1>0, <1>1, <1>3, <2>1 DEF Making, Unstored, Care
  <2>2. ASSUME NEW j \in DOMAIN db, NEW r \in DOMAIN rows, Waits(r, j) PROVE Care(j)'
    BY <1>0, <1>3, <2>2 DEF Waits, Care
  <2>3. \A i \in DOMAIN db' : db'[i].deleted => db[i].deleted \/ i \in removed'
    BY <1>1, <1>3
  <2>4. \A i \in DOMAIN db : db[i].deleted => db'[i].deleted
    BY <1>3
  <2>5. removed \subseteq removed' /\ lost \subseteq lost'
    BY <1>0, <1>1
  <2> QED
    BY <1>0, <1>3, <1>6, <1>7, <1>8, <2>1, <2>2, <2>3, <2>4, <2>5, CaredKept DEF SameRow
<1> QED
  BY <1>6, <1>8, <1>9, <1>10, <1>11, <1>12, <1>13, <1>14, <1>15

\* The row of the request is stored: it takes care of the entry it creates.
LEMMA FuseRowStep ==
    ASSUME Inv, FuseRow
    PROVE  Inv'
<1> USE DEF Inv
<1>1. /\ fuse.pc = "row" /\ rows' = Append(rows, fuse.row) /\ fuse' = Idle
      /\ cut' = IF Known(fuse.row.pid) THEN cut ELSE cut \union {fuse.row.pid}
      /\ UNCHANGED <<server, feed, db, recent, cycle, removed, lost>>
  BY DEF FuseRow
<1>0. /\ recent' = recent /\ pc' = pc /\ todo' = todo /\ db' = db
      /\ cur' = cur /\ item' = item /\ chain' = chain /\ under' = under /\ answer' = answer
      /\ server' = server /\ feed' = feed /\ removed' = removed /\ lost' = lost
  BY <1>1 DEF cycle
<1>i. PICK i \in DOMAIN db : i = fuse.ino
  BY <1>1 DEF FuseSound
<1>row. PICK row \in Row : row = fuse.row
  BY DEF FuseSound
<1>2. /\ row.pid \in Ref /\ row.type = "local" /\ row.status = "new" /\ row.id \in Ref \ {1}
      /\ row.op \in {"create", "delete"}
      /\ row.op = "create" => row.id = -i /\ db[i].id = -i
      /\ row.op # "create" => /\ row.id < 0 => row.id = -i
                              /\ db[i].id < 0 => db[i].deleted \/ i \in lost
  BY <1>1, <1>i, <1>row DEF FuseSound, Row
<1>n. PICK n \in Nat : n = Len(rows) + 1
  BY Members
<1>3. /\ rows' \in Seq(Row) /\ DOMAIN rows' = 1..Len(rows) + 1 /\ Len(rows') = Len(rows) + 1
      /\ DOMAIN rows \subseteq DOMAIN rows'
      /\ \A s \in DOMAIN rows : rows'[s] = rows[s] /\ SameRow(rows'[s], rows[s])
      /\ \A s \in DOMAIN rows' : s \in DOMAIN rows \/ s = n
      /\ rows'[n] = row /\ n \in DOMAIN rows'
  BY <1>1, <1>row, <1>n, AppendEffect
<1>4. cut \subseteq cut' /\ cut' \subseteq Int
  <2>1. row.pid \in Int
    BY DEF Row
  <2> QED
    BY <1>1, <1>row, <2>1 DEF TypeOK
<1>5. TypeOK'
  <2>1. fuse'.pc \in {"idle", "insert", "row"} /\ fuse'.row \in Row
    BY <1>1, NoRowType DEF Idle
  <2>2. removed' \union lost' \subseteq DOMAIN db'
    BY <1>0 DEF TypeOK
  <2>3. recent' \subseteq DOMAIN rows' /\ todo' \subseteq DOMAIN rows' /\ cur' \in 0..Len(rows')
    BY <1>0, <1>3, Members DEF TypeOK
  <2> QED
    BY <1>0, <1>3, <1>4, <2>1, <2>2, <2>3 DEF TypeOK
<1>6. IdsKept /\ ServerGrows /\ Ref' = Ref /\ Identity' /\ Root' /\ \A id : Known(id)' <=> Known(id)
  BY <1>0, Untouched
<1>7. DOMAIN db \subseteq DOMAIN db' /\ DOMAIN db' \ DOMAIN db = {} /\ DOMAIN server' \ DOMAIN server = {}
  BY <1>0
<1>8. Made'
  BY <1>0, <1>5, <1>6, <1>7, MadeKept
<1>9. RowsSound'
  <2>1. RowSound(row)'
    <3>1. row.op = "create" => ToCreate(row)'
      <4>1. row.op = "create" => Known(row.id) /\ ~(row.id > 0)
        BY <1>2, Members DEF Known
      <4> QED
        BY <1>6, <4>1 DEF ToCreate, Named
    <3> QED
      BY <1>2, <1>6, <3>1 DEF RowSound
  <2> QED
    BY <1>0, <1>3, <1>4, <1>5, <1>6, <2>1, RowsSoundKept
<1>10. Parents'
  <2>1. HasParent(row)'
    BY <1>1, <1>6, <1>row DEF HasParent, Named
  <2> QED
    BY <1>3, <1>4, <1>5, <1>6, <2>1, ParentsKept
<1>11. CycleSound'
  <2>1. row.op = "create" => Known(row.id)
    BY <1>2 DEF Known
  <2>2. pc \in Renamed => ~Known(item.id)
    BY DEF CycleSound, Renamed, Replacements
  <2>3. \A r \in DOMAIN rows' \ DOMAIN rows :
            rows'[r].op = "create" => rows'[r].id # item.id \/ pc \notin Renamed
    BY <1>3, <2>1, <2>2
  <2> QED
    BY <1>0, <1>1, <1>3, <1>4, <1>5, <1>6, <1>7, <2>3, CycleKept
<1>12. FuseSound'
  BY <1>1, NoRowType DEF FuseSound, Idle
<1>13. Cared'
  <2>1. ASSUME NEW j \in DOMAIN db, db[j].id < 0, Making(j) \/ j \in Unstored PROVE Care(j)'
    <3>1. CASE Making(j)
      BY <1>0, <3>1 DEF Making, Care
    <3>2. CASE j = i /\ row.op = "create"
      <4>1. Waits(n, i)'
        BY <1>0, <1>2, <1>3, <3>2 DEF Waits, Open
      <4> QED
        BY <1>3, <3>2, <4>1 DEF Care
    <3>3. CASE j = i /\ row.op # "create"
      BY <1>0, <1>2, <2>1, <3>3 DEF Care
    <3> QED
      BY <1>i, <2>1, <3>1, <3>2, <3>3 DEF Unstored
  <2>2. ASSUME NEW j \in DOMAIN db, NEW r \in DOMAIN rows, Waits(r, j) PROVE Care(j)'
    BY <1>0, <1>3, <2>2 DEF Waits, Care
  <2>3. ASSUME row.op = "delete", row.id < 0, NEW j \in DOMAIN db, db[j].id = row.id
        PROVE  db[j].deleted \/ j \in lost
    <3>1. j = i
      <4>1. j \in Nat /\ i \in Nat /\ \A m \in DOMAIN server : m \in Nat
        BY Members
      <4> QED
        BY <1>2, <2>3, <4>1 DEF Identity
    <3> QED
      BY <1>2, <2>3, <3>1
  <2>4. /\ \A j \in DOMAIN db : db'[j].deleted = db[j].deleted
        /\ removed \subseteq removed'
    BY <1>0
  <2>5. \A r \in DOMAIN rows' :
              /\ rows'[r].type = "local" /\ rows'[r].op = "delete"
              /\ rows'[r].status \notin {"done", "gone"} /\ rows'[r].id < 0
              => \/ /\ r \in DOMAIN rows /\ SameRow(rows'[r], rows[r])
                    /\ rows[r].status \notin {"done", "gone"}
                 \/ \A j \in DOMAIN db' : db'[j].id = rows'[r].id => db'[j].deleted \/ j \in lost'
    BY <1>0, <1>3, <2>3
  <2> QED
    BY <1>0, <1>5, <1>6, <1>7, <2>1, <2>2, <2>4, <2>5, CaredKept
<1> QED
  BY <1>5, <1>6, <1>8, <1>9, <1>10, <1>11, <1>12, <1>13

-----------------------------------------------------------------------------
\* The cycle.

\* Between two rows it holds nothing.
LEMMA IdleSound ==
    ASSUME TypeOK', pc' \in {"idle", "listed"}, cur' = 0, item' = NoRow,
           \A r \in todo' : rows'[r].type = "remote",
           1 \notin {chain'[k] : k \in DOMAIN chain'}
    PROVE  CycleSound'
<1>1. 0 \in Ref'
  <2>1. Len(server') \in Nat
    BY DEF TypeOK
  <2> QED
    BY <2>1 DEF Ref
<1>2. item'.pid \in Ref' /\ item'.id \in Ref' \ {1}
  BY <1>1 DEF NoRow
<1>3. pc' \notin {"restore", "reset", "apply", "climb", "rebuild", "made", "created", "fetch",
                  "rowid", "parents", "rowparents", "drop", "again", "begun", "closing"}
  OBVIOUS
<1> QED
  BY <1>2, <1>3 DEF CycleSound, Remotely, Rebuilding, Creating, Replacements, Renamed

\* What a step of the cycle that touches rows alone has to keep.
RowsGo ==
    \A r \in DOMAIN rows' :
        \/ /\ r \in DOMAIN rows /\ SameRow(rows'[r], rows[r])
           /\ rows[r].status = "done" => \/ rows'[r].status \in {"done", "gone"}
                                         \/ rows'[r].type = "remote" \/ rows'[r].id > 0
        \/ rows'[r] = NoRow
        \/ \A row \in Row : rows'[r] = row =>
              RowSound(row) /\ (row.type = "remote" \/ (row.op = "create" /\ HasParent(row)))

\* A step that leaves entries and items alone, and rows only where it says.
LEMMA RowsStep ==
    ASSUME Inv, TypeOK', db' = db, server' = server, removed' = removed, cut' = cut,
           feed' = feed \/ feed' = << >>, lost \subseteq lost',
           RowsGo, CycleSound', FuseSound',
           \A i \in DOMAIN db :
              db[i].id < 0 /\ (Making(i) \/ i \in Unstored \/ \E r \in DOMAIN rows : Waits(r, i))
              => Care(i)'
    PROVE  Inv'
<1> USE DEF Inv
<1>1. IdsKept /\ ServerGrows /\ Ref' = Ref /\ Identity' /\ Root' /\ \A id : Known(id)' <=> Known(id)
  BY Untouched
<1>2. DOMAIN db \subseteq DOMAIN db' /\ DOMAIN db' \ DOMAIN db = {} /\ DOMAIN server' \ DOMAIN server = {}
  OBVIOUS
<1>3. Made'
  <2>1. \A k \in DOMAIN feed' : k \in DOMAIN feed /\ feed'[k] = feed[k]
    OBVIOUS
  <2> QED
    BY <1>1, <1>2, <2>1, MadeKept
<1>4. RowsSound'
  <2>1. \A r \in DOMAIN rows' :
              \/ r \in DOMAIN rows /\ SameRow(rows'[r], rows[r])
              \/ rows'[r] = NoRow
              \/ \A row \in Row : rows'[r] = row => RowSound(row)
    BY DEF RowsGo
  <2>2. \A row : RowSound(row) => RowSound(row)'
    BY <1>1 DEF RowSound, FromDelta, ToCreate, Named
  <2> QED
    BY <1>1, <2>1, <2>2, RowsSoundKept
<1>5. Parents'
  <2>1. \A row : HasParent(row) => HasParent(row)'
    BY <1>1 DEF HasParent, Named
  <2>2. \A r \in DOMAIN rows' :
              \/ r \in DOMAIN rows /\ SameRow(rows'[r], rows[r])
              \/ rows'[r] = NoRow
              \/ rows'[r].type = "remote"
              \/ \A row \in Row : rows'[r] = row => HasParent(row)'
    BY <2>1 DEF RowsGo
  <2> QED
    BY <1>1, <2>2, ParentsKept
<1>6. Cared'
  <2>1. \A i \in DOMAIN db : db[i].id < 0 /\ (Making(i) \/ i \in Unstored) => Care(i)'
    OBVIOUS
  <2>2. \A i \in DOMAIN db, r \in DOMAIN rows : db[i].id < 0 /\ Waits(r, i) => Care(i)'
    OBVIOUS
  <2>3. ASSUME NEW r \in DOMAIN rows', rows'[r].type = "local", rows'[r].op = "delete",
               rows'[r].status \notin {"done", "gone"}, rows'[r].id < 0
        PROVE  r \in DOMAIN rows /\ SameRow(rows'[r], rows[r]) /\ rows[r].status \notin {"done", "gone"}
    <3>1. PICK row \in Row : row = rows'[r]
      BY DEF TypeOK
    <3>2. row # NoRow /\ ~(row.op = "create") /\ ~(row.type = "remote")
      BY <2>3, <3>1 DEF NoRow
    <3>3. /\ r \in DOMAIN rows /\ SameRow(rows'[r], rows[r])
          /\ rows[r].status = "done" => \/ rows'[r].status \in {"done", "gone"}
                                        \/ rows'[r].type = "remote" \/ rows'[r].id > 0
      BY <3>1, <3>2 DEF RowsGo
    <3>4. ~(rows'[r].id > 0)
      <4>1. rows'[r].id \in Int
        BY <3>1 DEF Row
      <4> QED
        BY <2>3, <4>1
    <3>5. rows[r].status # "done"
      BY <2>3, <3>3, <3>4
    <3>6. rows[r].status # "gone"
      BY <2>3, <3>3, Members DEF SameRow, NoRow
    <3> QED
      BY <3>3, <3>5, <3>6
  <2>4. removed \subseteq removed'
    OBVIOUS
  <2>5. \A i \in DOMAIN db : db'[i].deleted = db[i].deleted
    OBVIOUS
  <2> QED
    BY <1>1, <1>2, <2>1, <2>2, <2>3, <2>4, <2>5, CaredKept
<1> QED
  BY <1>1, <1>3, <1>4, <1>5, <1>6

\* A request of FUSE waits while the cycle works on rows.
LEMMA QuietFuse ==
    ASSUME Inv, TypeOK', db' = db, server' = server, fuse' = fuse, lost \subseteq lost',
           \A i \in DOMAIN db : db[i].id = -i /\ Unreferred(i) => Unreferred(i)'
    PROVE  FuseSound'
<1> USE DEF Inv
<1>1. IdsKept /\ ServerGrows
  BY Untouched
<1>2. fuse.pc = "row" /\ fuse.row.op = "create" => Unreferred(fuse.ino)'
  BY DEF FuseSound
<1> QED
  BY <1>1, <1>2, FuseKept

\* Rows that nobody touches.
LEMMA SameRows ==
    ASSUME rows' = rows
    PROVE  RowsGo
BY DEF RowsGo, SameRow

\* What would be created when the cycle stops where it is.
LEMMA Stopped ==
    ASSUME Inv, NEW i \in DOMAIN db, db[i].id < 0, Making(i) \/ \E r \in DOMAIN rows : Waits(r, i)
    PROVE  \/ i \in InWindow
           \/ \E r \in DOMAIN rows : Waits(r, i) /\ rows[r].status \in Open
<1> USE DEF Inv
<1>1. CASE Making(i)
  <2>1. CASE pc = "made" /\ i = under
    BY <2>1 DEF InWindow
  <2>2. CASE pc = "again" /\ db[i].id = item.id
    BY <2>2, InodeIs DEF InWindow
  <2> QED
    BY <1>1, <2>1, <2>2 DEF Making
<1>2. ASSUME NEW r \in DOMAIN rows, Waits(r, i), rows[r].status \notin Open PROVE i \in InWindow
  <2>1. /\ r = cur /\ rows[cur].status = "processing" /\ rows[cur].type = "local"
        /\ rows[cur].op = "create" /\ rows[cur].id = db[i].id
    BY <1>2 DEF Waits
  <2>2. pc \notin {"idle", "listed"}
    <3>1. 0 \notin DOMAIN rows
      BY Members
    <3> QED
      BY <1>2, <2>1, <3>1 DEF CycleSound
  <2>3. pc \notin Remotely
    BY <2>1 DEF CycleSound
  <2>4. pc \notin Rebuilding \union {"drop", "again"}
    BY <2>1 DEF CycleSound, Open
  <2>5. pc \in Creating \union {"begun", "closing"}
    BY <2>2, <2>3, <2>4 DEF TypeOK, Remotely, Rebuilding, Creating
  <2>0. pc \notin Renamed
    <3>1. answer \in Nat /\ db[i].id \in Int
      BY IdsAreRefs, Members DEF TypeOK
    <3> QED
      BY <1>2, <2>1, <2>5, <3>1 DEF CycleSound
  <2>6. item.id = db[i].id /\ item.op = "create" /\ Known(item.id)
    BY <2>0, <2>1, <2>5 DEF CycleSound, Known
  <2>7. pc \in {"begun", "created"}
    <3>1. ~(item.id > 0)
      <4>1. db[i].id \in Int
        BY IdsAreRefs
      <4> QED
        BY <2>6, <4>1
    <3>2. pc \notin Replacements
      BY <2>6 DEF CycleSound
    <3> QED
      BY <2>5, <2>6, <3>1, <3>2 DEF CycleSound, Creating
  <2>8. Known(item.id) /\ Inode(item.id) = i
    BY <2>6, InodeIs
  <2> QED
    BY <2>7, <2>8 DEF InWindow
<1> QED
  BY <1>1, <1>2

\* What is in a window is an entry.
LEMMA WindowIn ==
    ASSUME Inv
    PROVE  InWindow \subseteq DOMAIN db /\ Unstored \subseteq DOMAIN db
<1> USE DEF Inv
<1>1. Unstored \subseteq DOMAIN db
  BY DEF Unstored, FuseSound
<1>2. Known(item.id) => Inode(item.id) \in DOMAIN db
  BY KnownInode
<1>3. pc = "created" => Known(item.id)
  BY DEF CycleSound
<1>4. pc = "made" => under \in DOMAIN db
  BY DEF CycleSound
<1> QED
  BY <1>1, <1>2, <1>3, <1>4 DEF InWindow

\* Time changes no table.
LEMMA TimePassesStep ==
    ASSUME Inv, TimePasses
    PROVE  Inv'
<1> USE DEF Inv
<1>0. /\ rows' = rows /\ recent' = {} /\ pc' = pc /\ todo' = todo /\ db' = db /\ fuse' = fuse
      /\ cur' = cur /\ item' = item /\ chain' = chain /\ under' = under /\ answer' = answer
      /\ server' = server /\ feed' = feed /\ removed' = removed /\ cut' = cut /\ lost' = lost
  BY DEF TimePasses, cycle, history
<1>1. TypeOK'
  BY <1>0 DEF TypeOK
<1>2. RowsGo
  BY <1>0, SameRows
<1>3. CycleSound'
  BY <1>0, <1>1, Untouched, CycleKept DEF cycle
<1>4. FuseSound'
  BY <1>0, <1>1, QuietFuse DEF Unreferred
<1>5. ASSUME NEW i \in DOMAIN db, Making(i) \/ i \in Unstored \/ \E r \in DOMAIN rows : Waits(r, i)
      PROVE  Care(i)'
  BY <1>0, <1>5 DEF Care, Making, Unstored, Waits
<1> QED
  BY <1>0, <1>1, <1>2, <1>3, <1>4, <1>5, RowsStep

\* The daemon is killed: whoever took care of an entry has stored the row, or it is lost.
LEMMA CrashStep ==
    ASSUME Inv, Crash
    PROVE  Inv'
<1> USE DEF Inv
<1>0. /\ rows' = rows /\ recent' = recent /\ pc' = "idle" /\ todo' = {} /\ db' = db /\ fuse' = Idle
      /\ cur' = 0 /\ item' = NoRow /\ chain' = << >> /\ under' = 0 /\ answer' = 0
      /\ server' = server /\ feed' = feed /\ removed' = removed /\ cut' = cut
      /\ lost' = lost \union Unstored \union InWindow
  BY DEF Crash, EndCycle, Leave
<1>1. TypeOK'
  <2>1. removed' \union lost' \subseteq DOMAIN db'
    BY <1>0, WindowIn DEF TypeOK
  <2>2. fuse'.pc \in {"idle", "insert", "row"} /\ fuse'.row \in Row /\ item' \in Row
    BY <1>0, NoRowType DEF Idle
  <2>3. /\ cur' \in 0..Len(rows') /\ under' \in 0..Len(db') /\ answer' \in 0..Len(server')
        /\ chain' \in Seq(DOMAIN db')
    BY <1>0, Members
  <2>4. /\ server' \in Seq(Item) /\ db' \in Seq(Entry)
        /\ \A i \in DOMAIN db' : db'[i].pino \in 0..Len(db')
        /\ feed' \in Seq([op : {"create", "delete"}, id : DOMAIN server'])
        /\ rows' \in Seq(Row) /\ recent' \subseteq DOMAIN rows'
    BY <1>0 DEF TypeOK
  <2> QED
    BY <1>0, <2>1, <2>2, <2>3, <2>4 DEF TypeOK
<1>2. RowsGo
  BY <1>0, SameRows
<1>3. CycleSound'
  BY <1>0, <1>1, IdleSound
<1>4. FuseSound'
  BY <1>0, NoRowType DEF FuseSound, Idle
<1>5. ASSUME NEW i \in DOMAIN db, db[i].id < 0,
             Making(i) \/ i \in Unstored \/ \E r \in DOMAIN rows : Waits(r, i)
      PROVE  Care(i)'
  <2>1. CASE i \in Unstored
    BY <1>0, <2>1 DEF Care
  <2>2. CASE i \in InWindow
    BY <1>0, <2>2 DEF Care
  <2>3. CASE \E r \in DOMAIN rows : Waits(r, i) /\ rows[r].status \in Open
    BY <1>0, <2>3 DEF Care, Waits
  <2> QED
    BY <1>5, <2>1, <2>2, <2>3, Stopped
<1> QED
  BY <1>0, <1>1, <1>2, <1>3, <1>4, <1>5, RowsStep

\* Between two rows: what waits is not the row at work.
LEMMA WaitsListed ==
    ASSUME Inv, pc \in {"idle", "listed"}, NEW r \in DOMAIN rows, NEW i \in DOMAIN db, Waits(r, i)
    PROVE  rows[r].status \in Open
<1>1. 0 \notin DOMAIN rows /\ cur = 0
  BY Members DEF Inv, CycleSound
<1> QED
  BY <1>1 DEF Waits

\* The end of a cycle changes no table.
LEMMA FinishStep ==
    ASSUME Inv, Finish
    PROVE  Inv'
<1> USE DEF Inv
<1>0. /\ rows' = rows /\ recent' = recent /\ pc' = "idle" /\ todo' = {} /\ db' = db /\ fuse' = fuse
      /\ cur' = 0 /\ item' = NoRow /\ chain' = << >> /\ under' = 0 /\ answer' = 0
      /\ server' = server /\ feed' = feed /\ removed' = removed /\ cut' = cut /\ lost' = lost /\ pc = "listed"
  BY DEF Finish, EndCycle, Leave, history
<1>1. TypeOK'
  <2>1. /\ cur' \in 0..Len(rows') /\ under' \in 0..Len(db') /\ answer' \in 0..Len(server')
        /\ chain' \in Seq(DOMAIN db') /\ item' \in Row
    BY <1>0, Members, NoRowType
  <2> QED
    BY <1>0, <2>1 DEF TypeOK
<1>2. RowsGo
  BY <1>0, SameRows
<1>3. CycleSound'
  BY <1>0, <1>1, IdleSound
<1>4. FuseSound'
  <2>1. ASSUME NEW i \in DOMAIN db, Unreferred(i) PROVE Unreferred(i)'
    <3>1. i # 0 /\ -i # 0
      BY Members
    <3> QED
      BY <1>0, <2>1, <3>1 DEF Unreferred, NoRow
  <2> QED
    BY <1>0, <1>1, <2>1, QuietFuse
<1>5. ASSUME NEW i \in DOMAIN db, db[i].id < 0,
             Making(i) \/ i \in Unstored \/ \E r \in DOMAIN rows : Waits(r, i)
      PROVE  Care(i)'
  <2>1. CASE i \in Unstored
    BY <1>0, <2>1 DEF Care, Unstored
  <2>2. CASE \E r \in DOMAIN rows : Waits(r, i)
    BY <1>0, <2>2, WaitsListed DEF Care, Waits
  <2> QED
    BY <1>0, <1>5, <2>1, <2>2 DEF Making
<1> QED
  BY <1>0, <1>1, <1>2, <1>3, <1>4, <1>5, RowsStep

\* The cycle leaves the row it works on with a status, and takes the next.
LEMMA LeaveStep ==
    ASSUME Inv, NEW status, status \in {"conflicted", "done", "error"},
           SetStatus(cur, status), Leave("listed"), cur \in DOMAIN rows,
           db' = db, server' = server, feed' = feed, fuse' = fuse, todo' = todo,
           removed' = removed, cut' = cut,
           chain' \in {chain, << >>}, under' \in {under, 0}, answer' \in {answer, 0},
           lost \subseteq lost', lost' \subseteq DOMAIN db,
           rows[cur].status = "done" => rows[cur].type = "remote" \/ status = "done",
           \A i \in DOMAIN db : db[i].id < 0 /\ (Making(i) \/ Waits(cur, i)) =>
              \/ i \in lost'
              \/ Waits(cur, i) /\ status \in Open /\ rows[cur].status # "gone"
    PROVE  Inv'
<1> USE DEF Inv
<1>0. pc' = "listed" /\ cur' = 0 /\ item' = NoRow
  BY DEF Leave
<1>1. /\ rows' \in Seq(Row) /\ DOMAIN rows' = DOMAIN rows /\ Len(rows') = Len(rows)
      /\ recent' \subseteq DOMAIN rows
      /\ \A s \in DOMAIN rows : SameRow(rows'[s], rows[s])
      /\ \A s \in DOMAIN rows : SameRow(rows[s], rows'[s])
      /\ \A s \in DOMAIN rows : s # cur => rows'[s] = rows[s]
      /\ rows[cur].status # "gone" => rows'[cur].status = status
      /\ rows[cur].status = "gone" => rows'[cur].status = "gone"
  BY StatusEffect
<1>2. TypeOK'
  <2>1. /\ cur' \in 0..Len(rows') /\ under' \in 0..Len(db') /\ answer' \in 0..Len(server')
        /\ item' \in Row
    BY <1>0, <1>1, Members, NoRowType DEF TypeOK
  <2>2. chain' \in Seq(DOMAIN db')
    <3>1. chain \in Seq(DOMAIN db)
      BY DEF TypeOK
    <3>2. << >> \in Seq(DOMAIN db)
      OBVIOUS
    <3> QED
      BY <3>1, <3>2
  <2>3. removed' \union lost' \subseteq DOMAIN db' /\ todo' \subseteq DOMAIN rows'
    BY <1>1 DEF TypeOK
  <2> QED
    BY <1>0, <1>1, <2>1, <2>2, <2>3 DEF TypeOK
<1>3. RowsGo
  <2> SUFFICES ASSUME NEW r \in DOMAIN rows, rows[r].status = "done"
               PROVE  rows'[r].status \in {"done", "gone"} \/ rows'[r].type = "remote"
    BY <1>1 DEF RowsGo
  <2> QED
    BY <1>1 DEF SameRow
<1>4. CycleSound'
  <2>0. todo' \subseteq DOMAIN rows /\ \A r \in todo' : rows[r].type = "remote"
    BY DEF CycleSound, TypeOK
  <2>1. \A r \in todo' : rows'[r].type = "remote"
    BY <1>1, <2>0 DEF SameRow
  <2>2. 1 \notin {chain'[k] : k \in DOMAIN chain'}
    BY DEF CycleSound
  <2> QED
    BY <1>0, <1>2, <2>1, <2>2, IdleSound
<1>5. FuseSound'
  <2>1. ASSUME NEW i \in DOMAIN db, Unreferred(i) PROVE Unreferred(i)'
    <3>1. i # 0 /\ -i # 0
      BY Members
    <3>2. /\ item'.id # -i /\ item'.pid # -i /\ under' # i
          /\ \A k \in DOMAIN chain' : chain'[k] # i
      BY <1>0, <2>1, <3>1 DEF Unreferred, NoRow
    <3>3. \A r \in DOMAIN rows' : r \in DOMAIN rows /\ SameRow(rows'[r], rows[r])
      BY <1>1
    <3>4. \A j \in DOMAIN db' : j \in DOMAIN db /\ db'[j].pid = db[j].pid
      OBVIOUS
    <3> QED
      BY <2>1, <3>2, <3>3, <3>4, UnreferredKept
  <2> QED
    BY <1>2, <2>1, QuietFuse
<1>6. ASSUME NEW i \in DOMAIN db, db[i].id < 0,
             Making(i) \/ i \in Unstored \/ \E r \in DOMAIN rows : Waits(r, i)
      PROVE  Care(i)'
  <2>1. CASE i \in Unstored
    BY <2>1 DEF Care, Unstored
  <2>2. CASE i \in lost'
    BY <2>2 DEF Care
  <2>3. CASE Waits(cur, i) /\ status \in Open /\ rows[cur].status # "gone"
    BY <1>1, <2>3 DEF Care, Waits, SameRow
  <2>4. ASSUME NEW r \in DOMAIN rows, r # cur, Waits(r, i) PROVE Care(i)'
    BY <1>1, <2>4 DEF Care, Waits
  <2> QED
    BY <1>6, <2>1, <2>2, <2>3, <2>4
<1> QED
  BY <1>2, <1>3, <1>4, <1>5, <1>6, RowsStep

\* A parent that is not in the table leaves the row in error, to be tried again.
LEMMA NoAncestorStep ==
    ASSUME Inv, NoAncestor
    PROVE  Inv'
<1> USE DEF Inv
<1>1. /\ pc = "climb" /\ SetStatus(cur, "error") /\ Leave("listed") /\ chain' = << >>
      /\ server' = server /\ feed' = feed /\ db' = db /\ fuse' = fuse /\ todo' = todo
      /\ under' = under /\ answer' = answer /\ removed' = removed /\ cut' = cut /\ lost' = lost
  BY DEF NoAncestor, RowError, history
<1>2. cur \in DOMAIN rows /\ rows[cur].status \notin {"done", "gone"}
  BY <1>1 DEF CycleSound, Rebuilding
<1>3. \A i \in DOMAIN db : ~Making(i)
  BY <1>1 DEF Making
<1>4. lost' \subseteq DOMAIN db
  BY <1>1 DEF TypeOK
<1>5. "error" \in Open
  BY DEF Open
<1> HIDE DEF Inv
<1> QED
  BY <1>1, <1>2, <1>3, <1>4, <1>5, LeaveStep

\* A row is done only when the entry it creates has an id of OneDrive.
LEMMA FinishRowStep ==
    ASSUME Inv, FinishRow
    PROVE  Inv'
<1> USE DEF Inv
<1>1. /\ pc = "closing" /\ SetStatus(cur, "done") /\ Leave("listed")
      /\ server' = server /\ feed' = feed /\ db' = db /\ fuse' = fuse /\ todo' = todo
      /\ chain' = chain /\ under' = under /\ answer' = answer /\ removed' = removed /\ cut' = cut /\ lost' = lost
  BY DEF FinishRow, history
<1>2. cur \in DOMAIN rows
  BY <1>1 DEF CycleSound
<1>3. ASSUME NEW i \in DOMAIN db, db[i].id < 0 PROVE ~Making(i) /\ ~Waits(cur, i)
  <2>1. rows[cur].op = "create" => rows[cur].id > 0
    BY <1>1 DEF CycleSound, Renamed
  <2>2. db[i].id \in Int
    BY IdsAreRefs
  <2> QED
    BY <1>1, <1>3, <2>1, <2>2 DEF Making, Waits
<1>4. lost' \subseteq DOMAIN db
  BY <1>1 DEF TypeOK
<1> HIDE DEF Inv
<1> QED
  BY <1>1, <1>2, <1>3, <1>4, LeaveStep

\* A row whose entry has another id ends the cycle; nobody waits for it.
LEMMA HandlerPanicsStep ==
    ASSUME Inv, HandlerPanics
    PROVE  Inv'
<1> USE DEF Inv
<1>0. /\ rows' = rows /\ recent' = recent /\ pc' = "idle" /\ todo' = {} /\ db' = db /\ fuse' = fuse
      /\ cur' = 0 /\ item' = NoRow /\ chain' = << >> /\ under' = 0 /\ answer' = 0
      /\ server' = server /\ feed' = feed /\ removed' = removed /\ cut' = cut /\ lost' = lost
      /\ pc = "begun" /\ ~Known(item.id)
  BY DEF HandlerPanics, Panics, EndCycle, Leave, history
<1>1. TypeOK'
  <2>1. /\ cur' \in 0..Len(rows') /\ under' \in 0..Len(db') /\ answer' \in 0..Len(server')
        /\ chain' \in Seq(DOMAIN db') /\ item' \in Row
    BY <1>0, Members, NoRowType
  <2> QED
    BY <1>0, <2>1 DEF TypeOK
<1>2. RowsGo
  BY <1>0, SameRows
<1>3. CycleSound'
  BY <1>0, <1>1, IdleSound
<1>4. FuseSound'
  <2>1. ASSUME NEW i \in DOMAIN db, Unreferred(i) PROVE Unreferred(i)'
    <3>1. i # 0 /\ -i # 0
      BY Members
    <3> QED
      BY <1>0, <2>1, <3>1 DEF Unreferred, NoRow
  <2> QED
    BY <1>0, <1>1, <2>1, QuietFuse
<1>5. ASSUME NEW i \in DOMAIN db, db[i].id < 0,
             Making(i) \/ i \in Unstored \/ \E r \in DOMAIN rows : Waits(r, i)
      PROVE  Care(i)'
  <2>1. CASE i \in Unstored
    BY <1>0, <2>1 DEF Care, Unstored
  <2>2. CASE \E r \in DOMAIN rows : Waits(r, i)
    <3>1. i \notin InWindow
      BY <1>0 DEF InWindow
    <3>2. PICK r \in DOMAIN rows : Waits(r, i) /\ rows[r].status \in Open
      BY <1>5, <2>2, <3>1, Stopped
    <3> QED
      BY <1>0, <3>2 DEF Care, Waits
  <2> QED
    BY <1>0, <1>5, <2>1, <2>2 DEF Making
<1> QED
  BY <1>0, <1>1, <1>2, <1>3, <1>4, <1>5, RowsStep

\* A failed row waits again, or its entry was in a window.
LEMMA HandlerFailsStep ==
    ASSUME Inv, HandlerFails
    PROVE  Inv'
<1> USE DEF Inv
<1>1. /\ pc \in {"begun", "created", "fetch", "climb", "rebuild", "made", "drop", "again"}
                \union Replacements
      /\ SetStatus(cur, "error") /\ Leave("listed") /\ chain' = << >> /\ under' = 0 /\ answer' = 0
      /\ server' = server /\ feed' = feed /\ db' = db /\ fuse' = fuse /\ todo' = todo
      /\ removed' = removed /\ cut' = cut
      /\ lost' = lost \union (IF pc = "begun" THEN {} ELSE InWindow)
  BY DEF HandlerFails, RowError
<1>2. cur \in DOMAIN rows /\ rows[cur].status # "done"
  BY <1>1 DEF CycleSound, Rebuilding, Creating, Replacements, Renamed
<1>3. lost' \subseteq DOMAIN db /\ lost \subseteq lost'
  BY <1>1, WindowIn DEF TypeOK
<1>4. "error" \in Open
  BY DEF Open
<1>5. ASSUME NEW i \in DOMAIN db, db[i].id < 0, Making(i) \/ Waits(cur, i)
      PROVE  i \in lost' \/ (Waits(cur, i) /\ rows[cur].status # "gone")
  <2>1. Waits(cur, i) => rows[cur].status # "gone"
    BY DEF Waits, Open
  <2>2. CASE Making(i)
    <3>1. pc # "begun" /\ i \in InWindow
      BY <2>2, InodeIs DEF Making, InWindow
    <3> QED
      BY <1>1, <3>1
  <2> QED
    BY <1>5, <2>1, <2>2
<1> HIDE DEF Inv
<1> QED
  BY <1>1, <1>2, <1>3, <1>4, <1>5, LeaveStep

\* A remote row is taken, with what its check says of its parent.
LEMMA CheckRemoteStep ==
    ASSUME Inv, CheckRemote
    PROVE  Inv'
<1> USE DEF Inv
<1>1. /\ pc = "listed" /\ rows' = rows /\ recent' = recent /\ db' = db /\ fuse' = fuse
      /\ chain' = chain /\ under' = under /\ answer' = answer
      /\ server' = server /\ feed' = feed /\ removed' = removed /\ cut' = cut /\ lost' = lost
  BY DEF CheckRemote, history
<1>2. PICK r \in todo : /\ cur' = r /\ item' = rows[r] /\ todo' = todo \ {r}
                        /\ pc' = IF Orphan(rows[r]) THEN "restore" ELSE "apply"
  BY DEF CheckRemote
<1>3. r \in DOMAIN rows /\ rows[r] \in Row /\ rows[r].type = "remote" /\ cur = 0
  <2>1. r \in DOMAIN rows
    BY DEF TypeOK
  <2> QED
    BY <1>1, <2>1, Members DEF CycleSound
<1>4. TypeOK'
  <2>1. cur' \in 0..Len(rows')
    BY <1>1, <1>2, <1>3, Members
  <2> QED
    BY <1>1, <1>2, <1>3, <2>1 DEF TypeOK
<1>5. RowsGo
  BY <1>1, SameRows
<1>6. CycleSound'
  <2>1. \A id : (Known(id)' <=> Known(id)) /\ Inode(id)' = Inode(id)
    BY <1>1, Untouched
  <2>2. Ref' = Ref
    BY <1>1, Untouched
  <2>3. rows[r].id \in Ref \ {1} /\ rows[r].pid \in Ref /\ FromDelta(rows[r])
    BY <1>3 DEF RowsSound, RowSound
  <2>4. FromDelta(item)'
    BY <1>1, <1>2, <2>3 DEF FromDelta
  <2>5. pc' = "restore" => Known(rows[r].pid) /\ rows[r].pid # 1
    <3>1. 1 \in DOMAIN db /\ db[1].id = 1 /\ ~db[1].deleted
      BY Members DEF Root
    <3>2. Inode(1) = 1
      BY <3>1, InodeIs
    <3> QED
      BY <1>2, <3>1, <3>2 DEF Orphan
  <2>6. \A s \in todo' : rows'[s].type = "remote"
    BY <1>1, <1>2 DEF CycleSound
  <2>7. 1 \notin {chain'[k] : k \in DOMAIN chain'}
    BY <1>1 DEF CycleSound
  <2>8. pc' \in {"restore", "apply"}
    BY <1>2
  <2> QED
    BY <1>1, <1>2, <1>3, <2>1, <2>2, <2>3, <2>4, <2>5, <2>6, <2>7, <2>8
       DEF CycleSound, Remotely, Rebuilding, Creating, Replacements, Renamed
<1>7. FuseSound'
  <2>1. ASSUME NEW i \in DOMAIN db, Unreferred(i) PROVE Unreferred(i)'
    BY <1>1, <1>2, <1>3, <2>1 DEF Unreferred
  <2> QED
    BY <1>1, <1>4, <2>1, QuietFuse
<1>8. ASSUME NEW i \in DOMAIN db, db[i].id < 0,
             Making(i) \/ i \in Unstored \/ \E s \in DOMAIN rows : Waits(s, i)
      PROVE  Care(i)'
  <2>1. CASE i \in Unstored
    BY <1>1, <2>1 DEF Care, Unstored
  <2>2. ASSUME NEW s \in DOMAIN rows, Waits(s, i) PROVE Care(i)'
    BY <1>1, <2>2, WaitsListed DEF Care, Waits
  <2> QED
    BY <1>1, <1>8, <2>1, <2>2 DEF Making
<1> QED
  BY <1>1, <1>4, <1>5, <1>6, <1>7, <1>8, RowsStep

\* A row of the restored parent becomes new, which is a status that waits.
LEMMA ResetStep ==
    ASSUME Inv, Reset
    PROVE  Inv'
<1> USE DEF Inv
<1>1. /\ pc = "reset" /\ pc' = "apply" /\ db' = db /\ fuse' = fuse /\ todo' = todo /\ cur' = cur
      /\ item' = item /\ chain' = chain /\ under' = under /\ answer' = answer
      /\ server' = server /\ feed' = feed /\ removed' = removed /\ cut' = cut /\ lost' = lost
  BY DEF Reset, history
<1>2. item.pid > 0 /\ FromDelta(item) /\ item.type = "remote" /\ cur \in DOMAIN rows
      /\ rows[cur].type = "remote"
  <2>1. FromDelta(item) /\ item.type = "remote" /\ cur \in DOMAIN rows /\ rows[cur].type = "remote"
    BY <1>1 DEF CycleSound, Remotely
  <2> QED
    BY <2>1, Members DEF FromDelta
<1>3. /\ rows' \in Seq(Row) /\ DOMAIN rows' = DOMAIN rows /\ Len(rows') = Len(rows)
      /\ recent' \subseteq DOMAIN rows
      /\ \A s \in DOMAIN rows : SameRow(rows'[s], rows[s])
      /\ \A s \in DOMAIN rows : \/ rows'[s] = rows[s]
                                \/ rows[s].id > 0 /\ rows'[s].id > 0
  <2>1. CASE rows' = rows /\ recent' = recent
    BY <2>1 DEF TypeOK, SameRow
  <2>2. CASE \E r \in DOMAIN rows : rows[r].id = item.pid /\ SetStatus(r, "new")
    <3>1. PICK r \in DOMAIN rows : rows[r].id = item.pid /\ SetStatus(r, "new")
      BY <2>2
    <3>2. /\ rows' \in Seq(Row) /\ DOMAIN rows' = DOMAIN rows /\ Len(rows') = Len(rows)
          /\ recent' \subseteq DOMAIN rows
          /\ \A s \in DOMAIN rows : SameRow(rows'[s], rows[s])
          /\ \A s \in DOMAIN rows : s # r => rows'[s] = rows[s]
      BY <3>1, StatusEffect
    <3> QED
      BY <1>2, <3>1, <3>2 DEF SameRow
  <2> QED
    BY <2>1, <2>2 DEF Reset
<1>4. TypeOK'
  <2>1. recent' \subseteq DOMAIN rows' /\ todo' \subseteq DOMAIN rows' /\ cur' \in 0..Len(rows')
    BY <1>1, <1>3 DEF TypeOK
  <2> QED
    BY <1>1, <1>3, <2>1 DEF TypeOK
<1>5. RowsGo
  BY <1>3 DEF RowsGo
<1>6. CycleSound'
  <2>1. \A id : (Known(id)' <=> Known(id))
    BY <1>1, Untouched
  <2>2. Ref' = Ref
    BY <1>1, Untouched
  <2>3. item'.id \in Ref' \ {1} /\ item'.pid \in Ref'
    BY <1>1, <2>2 DEF CycleSound
  <2>4. FromDelta(item)'
    BY <1>1, <1>2 DEF FromDelta
  <2>5. todo \subseteq DOMAIN rows /\ \A s \in todo : rows[s].type = "remote"
    BY DEF CycleSound, TypeOK
  <2>6. \A s \in todo' : rows'[s].type = "remote"
    BY <1>1, <1>3, <2>5 DEF SameRow
  <2>7. 1 \notin {chain'[k] : k \in DOMAIN chain'}
    BY <1>1 DEF CycleSound
  <2>8. rows'[cur].type = "remote" /\ cur \in DOMAIN rows'
    BY <1>2, <1>3 DEF SameRow
  <2> QED
    BY <1>1, <1>2, <2>3, <2>4, <2>6, <2>7, <2>8
       DEF CycleSound, Remotely, Rebuilding, Creating, Replacements, Renamed
<1>7. FuseSound'
  <2>1. ASSUME NEW i \in DOMAIN db, Unreferred(i) PROVE Unreferred(i)'
    BY <1>1, <1>3, <2>1 DEF Unreferred, SameRow
  <2> QED
    BY <1>1, <1>4, <2>1, QuietFuse
<1>8. ASSUME NEW i \in DOMAIN db, db[i].id < 0,
             Making(i) \/ i \in Unstored \/ \E s \in DOMAIN rows : Waits(s, i)
      PROVE  Care(i)'
  <2>1. CASE i \in Unstored
    BY <1>1, <2>1 DEF Care, Unstored
  <2>2. ASSUME NEW s \in DOMAIN rows, Waits(s, i) PROVE Care(i)'
    <3>1. ~(rows[s].id > 0)
      <4>1. rows[s].id = db[i].id /\ db[i].id \in Int
        BY <2>2, IdsAreRefs DEF Waits
      <4> QED
        BY <1>8, <4>1
    <3>2. rows'[s] = rows[s]
      BY <1>3, <3>1
    <3> QED
      BY <1>1, <1>3, <2>2, <3>2 DEF Care, Waits
  <2> QED
    BY <1>1, <1>8, <2>1, <2>2 DEF Making
<1> QED
  BY <1>1, <1>4, <1>5, <1>6, <1>7, <1>8, RowsStep

\* A local row is taken: it still is who creates its entry.
LEMMA BeginStep ==
    ASSUME Inv, NEW r \in DOMAIN rows, Begin(r)
    PROVE  Inv'
<1> USE DEF Inv
<1>1. /\ pc = "listed" /\ item' = rows[r] /\ cur' = r /\ db' = db /\ fuse' = fuse /\ todo' = todo
      /\ chain' = chain /\ under' = under /\ answer' = answer
      /\ server' = server /\ feed' = feed /\ removed' = removed /\ cut' = cut /\ lost' = lost
      /\ r \in Selectable
  BY DEF Begin, NextRow, history
<1>2. rows[r].type = "local" /\ rows[r].status \in Open /\ rows[r] \in Row
  BY <1>1, Members DEF Selectable
<1>3. PICK status \in {"validated", "processing"} :
        /\ SetStatus(r, status)
        /\ \/ status = "validated" /\ pc' = "climb" /\ rows[r].op = "create"
           \/ status = "processing" /\ pc' = "begun"
  BY DEF Begin
<1>4. /\ rows' \in Seq(Row) /\ DOMAIN rows' = DOMAIN rows /\ Len(rows') = Len(rows)
      /\ recent' \subseteq DOMAIN rows
      /\ \A s \in DOMAIN rows : SameRow(rows'[s], rows[s])
      /\ \A s \in DOMAIN rows : SameRow(rows[s], rows'[s])
      /\ \A s \in DOMAIN rows : s # r => rows'[s] = rows[s]
      /\ rows'[r].status = status
  BY <1>2, <1>3, StatusEffect DEF Open
<1>5. TypeOK'
  <2>1. recent' \subseteq DOMAIN rows' /\ todo' \subseteq DOMAIN rows' /\ cur' \in 0..Len(rows')
    BY <1>1, <1>4, Members DEF TypeOK
  <2>2. item' \in Row /\ pc' \in {"climb", "begun"}
    BY <1>1, <1>2, <1>3
  <2> QED
    BY <1>1, <1>4, <2>1, <2>2 DEF TypeOK
<1>6. RowsGo
  BY <1>2, <1>4 DEF RowsGo, Open
<1>7. CycleSound'
  <2>1. \A id : (Known(id)' <=> Known(id))
    BY <1>1, Untouched
  <2>2. Ref' = Ref
    BY <1>1, Untouched
  <2>3. item'.id \in Ref' \ {1} /\ item'.pid \in Ref'
    BY <1>1, <2>2 DEF RowsSound, RowSound
  <2>4. rows[r].op = "create" => ToCreate(item)'
    <3>1. rows[r].op = "create" => ToCreate(rows[r])
      BY <1>2 DEF RowsSound, RowSound, Open
    <3> QED
      BY <1>1, <2>1, <3>1 DEF ToCreate, Named
  <2>5. todo \subseteq DOMAIN rows /\ \A s \in todo : rows[s].type = "remote"
    BY DEF CycleSound, TypeOK
  <2>6. \A s \in todo' : rows'[s].type = "remote"
    BY <1>1, <1>4, <2>5 DEF SameRow
  <2>7. 1 \notin {chain'[k] : k \in DOMAIN chain'}
    BY <1>1 DEF CycleSound
  <2>8. /\ rows'[cur'].type = "local" /\ cur' \in DOMAIN rows' /\ rows'[cur'].status = status
        /\ rows'[cur'].id = item'.id /\ rows'[cur'].op = item'.op /\ item'.type = "local"
    BY <1>1, <1>2, <1>4 DEF SameRow
  <2>9. pc' = "climb" => rows'[cur'].status \in Open /\ item'.op = "create"
    BY <1>1, <1>3, <2>8 DEF Open
  <2> QED
    BY <1>1, <1>3, <2>3, <2>4, <2>6, <2>7, <2>8, <2>9
       DEF CycleSound, Remotely, Rebuilding, Creating, Replacements, Renamed
<1>8. FuseSound'
  <2>1. ASSUME NEW i \in DOMAIN db, Unreferred(i) PROVE Unreferred(i)'
    BY <1>1, <1>4, <2>1 DEF Unreferred, SameRow
  <2> QED
    BY <1>1, <1>5, <2>1, QuietFuse
<1>9. ASSUME NEW i \in DOMAIN db, db[i].id < 0,
             Making(i) \/ i \in Unstored \/ \E s \in DOMAIN rows : Waits(s, i)
      PROVE  Care(i)'
  <2>1. CASE i \in Unstored
    BY <1>1, <2>1 DEF Care, Unstored
  <2>2. ASSUME NEW s \in DOMAIN rows, Waits(s, i) PROVE Care(i)'
    <3>1. CASE s = r
      BY <1>1, <1>3, <1>4, <2>2, <3>1 DEF Care, Waits, SameRow, Open
    <3>2. CASE s # r
      BY <1>1, <1>4, <2>2, <3>2, WaitsListed DEF Care, Waits
    <3> QED
      BY <3>1, <3>2
  <2> QED
    BY <1>1, <1>9, <2>1, <2>2 DEF Making
<1> QED
  BY <1>1, <1>5, <1>6, <1>7, <1>8, <1>9, RowsStep

\* One deleted parent more is in the chain, or the climb ends at one that is not.
LEMMA ClimbStep ==
    ASSUME Inv, Climb
    PROVE  Inv'
<1> USE DEF Inv
<1>1. /\ pc = "climb" /\ rows' = rows /\ recent' = recent /\ db' = db /\ fuse' = fuse
      /\ todo' = todo /\ cur' = cur /\ item' = item /\ answer' = answer
      /\ server' = server /\ feed' = feed /\ removed' = removed /\ cut' = cut /\ lost' = lost
      /\ Known(Above)
  BY DEF Climb, history
<1>2. PICK a \in DOMAIN db : a = Inode(Above) /\ db[a].id = Above
  BY <1>1, KnownInode
<1>3. \/ /\ db[a].deleted /\ chain' = <<a>> \o chain /\ pc' = "climb" /\ under' = under
      \/ /\ under' = a /\ pc' = "rebuild" /\ chain' = chain
  BY <1>1, <1>2 DEF Climb
<1>4. chain \in Seq(DOMAIN db)
  BY DEF TypeOK
<1>5. /\ chain' \in Seq(DOMAIN db)
      /\ \A k \in DOMAIN chain' :
            (k - 1 \in DOMAIN chain /\ chain'[k] = chain[k - 1])
            \/ (chain'[k] = a /\ (db[a].deleted))
            \/ (k \in DOMAIN chain /\ chain'[k] = chain[k])
  <2>1. CASE chain' = chain
    BY <1>4, <2>1
  <2>2. CASE db[a].deleted /\ chain' = <<a>> \o chain
    <3> DEFINE S == DOMAIN db
    <3>1. chain \in Seq(S) /\ <<a>> \in Seq(S) /\ Len(<<a>>) = 1 /\ <<a>>[1] = a
      BY <1>4
    <3> HIDE DEF S
    <3>2. chain' \in Seq(S) /\ Len(chain') = Len(chain) + 1 /\ Len(chain) \in Nat
          /\ DOMAIN chain' = 1..Len(chain) + 1 /\ DOMAIN chain = 1..Len(chain)
          /\ \A k \in 1..Len(chain) + 1 : chain'[k] = IF k <= 1 THEN <<a>>[k] ELSE chain[k - 1]
      BY <2>2, <3>1
    <3>3. ASSUME NEW k \in DOMAIN chain'
          PROVE  (k - 1 \in DOMAIN chain /\ chain'[k] = chain[k - 1]) \/ chain'[k] = a
      BY <3>1, <3>2
    <3> QED
      BY <2>2, <3>2, <3>3 DEF S
  <2> QED
    BY <1>3, <2>1, <2>2
<1>6. TypeOK'
  <2>1. under' \in 0..Len(db') /\ chain' \in Seq(DOMAIN db') /\ pc' \in {"climb", "rebuild"}
    BY <1>1, <1>3, <1>5, Members DEF TypeOK
  <2> QED
    BY <1>1, <2>1 DEF TypeOK
<1>7. RowsGo
  BY <1>1, SameRows
<1>8. CycleSound'
  <2>1. \A id : (Known(id)' <=> Known(id))
    BY <1>1, Untouched
  <2>2. Ref' = Ref
    BY <1>1, Untouched
  <2>3. /\ item'.id \in Ref' \ {1} /\ item'.pid \in Ref' /\ cur \in DOMAIN rows
        /\ \A s \in todo : rows[s].type = "remote"
        /\ rows[cur].type = "local" /\ rows[cur].status \in Open
        /\ rows[cur].id = item.id /\ rows[cur].op = item.op /\ item.type = "local"
        /\ item.op = "create" /\ ToCreate(item)
    BY <1>1, <2>2 DEF CycleSound, Rebuilding, Renamed
  <2>4. ToCreate(item)'
    BY <1>1, <2>1, <2>3 DEF ToCreate, Named
  <2>5. 1 \notin {chain'[k] : k \in DOMAIN chain'}
    <3>1. a = 1 => ~db[a].deleted
      BY DEF Root
    <3>2. \A k \in DOMAIN chain : chain[k] # 1
      BY DEF CycleSound
    <3>3. ASSUME NEW k \in DOMAIN chain' PROVE chain'[k] # 1
      BY <1>5, <3>1, <3>2
    <3> QED
      BY <3>3
  <2>6. pc' \in {"climb", "rebuild"} /\ (pc' = "rebuild" => under' \in DOMAIN db')
    BY <1>1, <1>3
  <2> QED
    BY <1>1, <2>3, <2>4, <2>5, <2>6
       DEF CycleSound, Remotely, Rebuilding, Creating, Open, Replacements, Renamed
<1>9. FuseSound'
  <2>1. ASSUME NEW i \in DOMAIN db, db[i].id = -i, Unreferred(i) PROVE Unreferred(i)'
    <3>1. a # i
      <4>1. Above # -i
        <5>1. CASE chain = << >>
          BY <2>1, <5>1 DEF Above, Unreferred
        <5>2. CASE chain # << >>
          <6>1. Head(chain) \in DOMAIN db
            BY <1>4, <5>2
          <6> QED
            BY <2>1, <5>2, <6>1 DEF Above, Unreferred
        <5> QED
          BY <5>1, <5>2
      <4> QED
        BY <1>2, <2>1, <4>1
    <3>2. under' # i
      BY <1>3, <2>1, <3>1 DEF Unreferred
    <3>3. \A k \in DOMAIN chain' : chain'[k] # i
      BY <1>5, <2>1, <3>1 DEF Unreferred
    <3> QED
      BY <1>1, <2>1, <3>2, <3>3 DEF Unreferred
  <2> QED
    BY <1>1, <1>6, <2>1, QuietFuse
<1>10. ASSUME NEW i \in DOMAIN db, db[i].id < 0,
             Making(i) \/ i \in Unstored \/ \E s \in DOMAIN rows : Waits(s, i)
      PROVE  Care(i)'
  BY <1>1, <1>10 DEF Making, Unstored, Waits, Care
<1> QED
  BY <1>1, <1>6, <1>7, <1>8, <1>9, <1>10, RowsStep

\* The row of a rebuilt folder takes care of its entry.
LEMMA RebuildRowStep ==
    ASSUME Inv, RebuildRow
    PROVE  Inv'
<1> USE DEF Inv
<1>1. /\ pc = "made" /\ recent' = recent /\ db' = db /\ fuse' = fuse /\ pc' = "rebuild"
      /\ todo' = todo /\ cur' = cur /\ item' = item /\ answer' = answer /\ chain' = chain
      /\ under' = under
      /\ server' = server /\ feed' = feed /\ removed' = removed /\ cut' = cut /\ lost' = lost
      /\ rows' = Append(rows, NewRow("local", "create", db[under]))
  BY DEF RebuildRow, history
<1>u. PICK u \in DOMAIN db : u = under /\ db[u].id = -u /\ Known(db[u].pid)
  BY <1>1 DEF CycleSound
<1>2. u \in Nat /\ u # 1 /\ db[u] \in Entry /\ db[u].path # << >>
  BY <1>u, Members DEF Root
<1>row. PICK row \in Row : /\ row = NewRow("local", "create", db[u])
                           /\ row.type = "local" /\ row.op = "create" /\ row.id = -u
                           /\ row.pid = db[u].pid /\ row.status = "new"
  <2>1. /\ db[u].path \in Seq(Name) /\ db[u].id \in Int /\ db[u].pid \in Int
        /\ db[u].folder \in BOOLEAN
    BY <1>2 DEF Entry
  <2> QED
    BY <1>u, <1>2, <2>1, NewRowType
<1>n. PICK n \in Nat : n = Len(rows) + 1
  BY Members
<1>3. /\ rows' \in Seq(Row) /\ DOMAIN rows' = 1..Len(rows) + 1 /\ Len(rows') = Len(rows) + 1
      /\ DOMAIN rows \subseteq DOMAIN rows'
      /\ \A s \in DOMAIN rows : rows'[s] = rows[s] /\ SameRow(rows'[s], rows[s])
      /\ \A s \in DOMAIN rows' : s \in DOMAIN rows \/ s = n
      /\ rows'[n] = row /\ n \in DOMAIN rows'
  BY <1>1, <1>u, <1>row, <1>n, AppendEffect
<1>4. TypeOK'
  <2>1. recent' \subseteq DOMAIN rows' /\ todo' \subseteq DOMAIN rows' /\ cur' \in 0..Len(rows')
    BY <1>1, <1>3, Members DEF TypeOK
  <2> QED
    BY <1>1, <1>3, <2>1 DEF TypeOK
<1>5. RowSound(row) /\ HasParent(row)
  <2>1. row.id \in Ref \ {1} /\ row.pid \in Ref
    BY <1>u, <1>row, <1>2, IdsAreRefs DEF RowsSound
  <2>2. Known(row.id) /\ ~(row.id > 0)
    BY <1>u, <1>row, <1>2 DEF Known
  <2> QED
    BY <1>u, <1>row, <2>1, <2>2 DEF RowSound, ToCreate, HasParent, Named
<1>6. RowsGo
  <2> SUFFICES ASSUME NEW s \in DOMAIN rows'
               PROVE  \/ s \in DOMAIN rows /\ rows'[s] = rows[s] /\ SameRow(rows'[s], rows[s])
                      \/ s = n
    BY <1>3, <1>5, <1>row DEF RowsGo
  <2> QED
    BY <1>3
<1>7. CycleSound'
  <2>1. \A id : (Known(id)' <=> Known(id))
    BY <1>1, Untouched
  <2>2. Ref' = Ref
    BY <1>1, Untouched
  <2>3. /\ item'.id \in Ref' \ {1} /\ item'.pid \in Ref' /\ cur \in DOMAIN rows
        /\ \A s \in todo : rows[s].type = "remote"
        /\ rows[cur].type = "local" /\ rows[cur].status \in Open
        /\ rows[cur].id = item.id /\ rows[cur].op = item.op /\ item.type = "local"
        /\ item.op = "create" /\ ToCreate(item)
        /\ 1 \notin {chain[k] : k \in DOMAIN chain}
    BY <1>1, <2>2 DEF CycleSound, Rebuilding, Renamed
  <2>4. ToCreate(item)'
    BY <1>1, <2>1, <2>3 DEF ToCreate, Named
  <2>5. todo' \subseteq DOMAIN rows
    BY <1>1 DEF TypeOK
  <2>6. rows'[cur] = rows[cur] /\ cur \in DOMAIN rows' /\ \A s \in todo' : rows'[s].type = "remote"
    BY <1>1, <1>3, <2>3, <2>5
  <2> QED
    BY <1>1, <1>u, <2>3, <2>4, <2>6
       DEF CycleSound, Remotely, Rebuilding, Creating, Open, Replacements, Renamed
<1>8. FuseSound'
  <2>1. ASSUME NEW i \in DOMAIN db, Unreferred(i) PROVE Unreferred(i)'
    <3>1. row.id # -i /\ row.pid # -i
      <4>1. u # i /\ db[u].pid # -i
        BY <1>u, <2>1 DEF Unreferred
      <4>2. i \in Nat
        BY Members
      <4> QED
        BY <1>2, <1>row, <4>1, <4>2
    <3> QED
      BY <1>1, <1>3, <2>1, <3>1 DEF Unreferred
  <2> QED
    BY <1>1, <1>4, <2>1, QuietFuse
<1>9. ASSUME NEW i \in DOMAIN db, db[i].id < 0,
             Making(i) \/ i \in Unstored \/ \E s \in DOMAIN rows : Waits(s, i)
      PROVE  Care(i)'
  <2>1. CASE i \in Unstored
    BY <1>1, <2>1 DEF Care, Unstored
  <2>2. ASSUME NEW s \in DOMAIN rows, Waits(s, i) PROVE Care(i)'
    BY <1>1, <1>3, <2>2 DEF Care, Waits
  <2>3. CASE Making(i)
    <3>1. i = u
      BY <1>1, <1>u, <2>3 DEF Making
    <3>2. Waits(n, i)'
      BY <1>1, <1>u, <1>row, <1>3, <3>1 DEF Waits, Open
    <3> QED
      BY <1>3, <3>2 DEF Care
  <2> QED
    BY <1>9, <2>1, <2>2, <2>3
<1> QED
  BY <1>1, <1>4, <1>6, <1>7, <1>8, <1>9, RowsStep

\* The row is gone from the table, and `again` takes care of its entry.
LEMMA DropRowStep ==
    ASSUME Inv, DropRow
    PROVE  Inv'
<1> USE DEF Inv
<1>1. /\ pc = "drop" /\ db' = db /\ fuse' = fuse /\ pc' = "again"
      /\ todo' = todo /\ cur' = cur /\ item' = item /\ answer' = answer /\ chain' = chain
      /\ under' = under /\ recent' = recent \ {cur}
      /\ server' = server /\ feed' = feed /\ removed' = removed /\ cut' = cut /\ lost' = lost
      /\ rows' = [rows EXCEPT ![cur] = NoRow]
  BY DEF DropRow, history
<1>2. /\ cur \in DOMAIN rows /\ rows[cur].type = "local" /\ rows[cur].id = item.id
      /\ item.type = "local" /\ item.status = "new" /\ item.op = "create" /\ ToCreate(item)
      /\ under \in DOMAIN db /\ Known(item.pid)
      /\ \A s \in todo : rows[s].type = "remote"
      /\ 1 \notin {chain[k] : k \in DOMAIN chain}
      /\ item.id \in Ref \ {1} /\ item.pid \in Ref
  BY <1>1 DEF CycleSound, Renamed
<1>3. /\ rows' \in Seq(Row) /\ DOMAIN rows' = DOMAIN rows /\ Len(rows') = Len(rows)
      /\ rows'[cur] = NoRow /\ \A s \in DOMAIN rows : s # cur => rows'[s] = rows[s]
  <2>1. rows \in Seq(Row)
    BY DEF TypeOK
  <2> QED
    BY <1>1, <1>2, <2>1, NoRowType
<1>4. TypeOK'
  <2>1. recent' \subseteq DOMAIN rows' /\ todo' \subseteq DOMAIN rows' /\ cur' \in 0..Len(rows')
    BY <1>1, <1>3 DEF TypeOK
  <2> QED
    BY <1>1, <1>3, <2>1 DEF TypeOK
<1>5. RowsGo
  BY <1>3 DEF RowsGo, SameRow
<1>6. CycleSound'
  <2>1. \A id : (Known(id)' <=> Known(id))
    BY <1>1, Untouched
  <2>2. Ref' = Ref
    BY <1>1, Untouched
  <2>3. ToCreate(item)' /\ Known(item.pid)'
    BY <1>1, <1>2, <2>1 DEF ToCreate, Named
  <2>4. todo' \subseteq DOMAIN rows /\ cur \notin todo'
    BY <1>1, <1>2 DEF TypeOK
  <2>5. rows'[cur].status = "gone" /\ \A s \in todo' : rows'[s].type = "remote"
    BY <1>1, <1>2, <1>3, <2>4 DEF NoRow
  <2> QED
    BY <1>1, <1>2, <1>3, <2>2, <2>3, <2>5
       DEF CycleSound, Remotely, Rebuilding, Creating, Replacements, Renamed
<1>7. FuseSound'
  <2>1. ASSUME NEW i \in DOMAIN db, Unreferred(i) PROVE Unreferred(i)'
    <3>1. -i # 0
      BY Members
    <3> QED
      BY <1>1, <1>3, <2>1, <3>1 DEF Unreferred, NoRow
  <2> QED
    BY <1>1, <1>4, <2>1, QuietFuse
<1>8. ASSUME NEW i \in DOMAIN db, db[i].id < 0,
             Making(i) \/ i \in Unstored \/ \E s \in DOMAIN rows : Waits(s, i)
      PROVE  Care(i)'
  <2>1. CASE i \in Unstored
    BY <1>1, <2>1 DEF Care, Unstored
  <2>2. ASSUME NEW s \in DOMAIN rows, Waits(s, i) PROVE Care(i)'
    <3>1. CASE s = cur
      BY <1>1, <1>2, <2>2, <3>1 DEF Care, Waits, Making
    <3>2. CASE s # cur
      BY <1>1, <1>3, <2>2, <3>2 DEF Care, Waits
    <3> QED
      BY <3>1, <3>2
  <2> QED
    BY <1>1, <1>8, <2>1, <2>2 DEF Making
<1> QED
  BY <1>1, <1>4, <1>5, <1>6, <1>7, <1>8, RowsStep

\* The row is back, and takes care of its entry.
LEMMA StoreAgainStep ==
    ASSUME Inv, StoreAgain
    PROVE  Inv'
<1> USE DEF Inv
<1>1. /\ pc = "again" /\ recent' = recent /\ db' = db /\ fuse' = fuse /\ pc' = "listed"
      /\ todo' = todo /\ cur' = 0 /\ item' = NoRow /\ answer' = answer /\ chain' = chain
      /\ under' = 0
      /\ server' = server /\ feed' = feed /\ removed' = removed /\ cut' = cut /\ lost' = lost
      /\ rows' = Append(rows, item)
  BY DEF StoreAgain, Leave, history
<1>row. PICK row \in Row : row = item
  BY DEF TypeOK
<1>2. /\ cur \in DOMAIN rows /\ rows[cur].status = "gone" /\ row.type = "local"
      /\ row.status = "new" /\ row.op = "create" /\ RowSound(row) /\ HasParent(row)
      /\ \A s \in todo : rows[s].type = "remote"
      /\ 1 \notin {chain[k] : k \in DOMAIN chain}
  BY <1>1, <1>row DEF CycleSound, RowSound, HasParent, Named
<1>n. PICK n \in Nat : n = Len(rows) + 1
  BY Members
<1>3. /\ rows' \in Seq(Row) /\ DOMAIN rows' = 1..Len(rows) + 1 /\ Len(rows') = Len(rows) + 1
      /\ DOMAIN rows \subseteq DOMAIN rows'
      /\ \A s \in DOMAIN rows : rows'[s] = rows[s] /\ SameRow(rows'[s], rows[s])
      /\ \A s \in DOMAIN rows' : s \in DOMAIN rows \/ s = n
      /\ rows'[n] = row /\ n \in DOMAIN rows'
  BY <1>1, <1>row, <1>n, AppendEffect
<1>4. TypeOK'
  <2>1. recent' \subseteq DOMAIN rows' /\ todo' \subseteq DOMAIN rows' /\ cur' \in 0..Len(rows')
        /\ under' \in 0..Len(db') /\ item' \in Row
    BY <1>1, <1>3, Members, NoRowType DEF TypeOK
  <2> QED
    BY <1>1, <1>3, <2>1 DEF TypeOK
<1>5. RowsGo
  <2> SUFFICES ASSUME NEW s \in DOMAIN rows'
               PROVE  \/ s \in DOMAIN rows /\ rows'[s] = rows[s] /\ SameRow(rows'[s], rows[s])
                      \/ s = n
    BY <1>2, <1>3 DEF RowsGo
  <2> QED
    BY <1>3
<1>6. CycleSound'
  <2>1. todo' \subseteq DOMAIN rows
    BY <1>1 DEF TypeOK
  <2>2. \A s \in todo' : rows'[s].type = "remote"
    BY <1>1, <1>2, <1>3, <2>1
  <2> QED
    BY <1>1, <1>2, <1>4, <2>2, IdleSound
<1>7. FuseSound'
  <2>1. ASSUME NEW i \in DOMAIN db, Unreferred(i) PROVE Unreferred(i)'
    <3>1. -i # 0 /\ i # 0
      BY Members
    <3>2. row.id # -i /\ row.pid # -i
      BY <1>row, <2>1 DEF Unreferred
    <3> QED
      BY <1>1, <1>3, <2>1, <3>1, <3>2 DEF Unreferred, NoRow
  <2> QED
    BY <1>1, <1>4, <2>1, QuietFuse
<1>8. ASSUME NEW i \in DOMAIN db, db[i].id < 0,
             Making(i) \/ i \in Unstored \/ \E s \in DOMAIN rows : Waits(s, i)
      PROVE  Care(i)'
  <2>1. CASE i \in Unstored
    BY <1>1, <2>1 DEF Care, Unstored
  <2>2. ASSUME NEW s \in DOMAIN rows, Waits(s, i) PROVE Care(i)'
    <3>1. s # cur
      BY <1>2, <2>2 DEF Waits, Open
    <3> QED
      BY <1>1, <1>3, <2>2, <3>1 DEF Care, Waits
  <2>3. CASE Making(i)
    <3>1. row.id = db[i].id
      BY <1>1, <1>row, <2>3 DEF Making
    <3>2. Waits(n, i)'
      BY <1>1, <1>2, <1>3, <3>1 DEF Waits, Open
    <3> QED
      BY <1>3, <3>2 DEF Care
  <2> QED
    BY <1>8, <2>1, <2>2, <2>3
<1> QED
  BY <1>1, <1>4, <1>5, <1>6, <1>7, <1>8, RowsStep

\* What the delta reports.
LEMMA ReportedRows ==
    ASSUME TypeOK, Made, Root
    PROVE  /\ Reported \in Seq(Row)
           /\ \A k \in DOMAIN Reported : /\ Reported[k].type = "remote" /\ Reported[k].id \in Ref \ {1}
                                         /\ Reported[k].pid \in Ref /\ FromDelta(Reported[k])
<1>1. ASSUME NEW k \in DOMAIN feed
      PROVE  /\ Reported[k] \in Row /\ Reported[k].type = "remote" /\ Reported[k].id \in Ref \ {1}
             /\ Reported[k].pid \in Ref /\ FromDelta(Reported[k])
  <2>1. PICK c \in [op : {"create", "delete"}, id : DOMAIN server] : c = feed[k]
    BY Members
  <2>2. c.id # 1 /\ (c.op = "create" => server[c.id].by = 0)
    BY <2>1 DEF Made
  <2>3. PICK x \in Item : x = server[c.id]
    BY Members
  <2> DEFINE e == [id |-> c.id, pid |-> x.parent, path |-> x.path, folder |-> x.folder]
  <2>4. Reported[k] = NewRow("remote", c.op, e)
    BY <2>1, <2>3 DEF Reported
  <2>5. x.path # << >> /\ x.parent \in DOMAIN server
    BY <2>2, <2>3 DEF Made, Root
  <2>6. \A n \in DOMAIN server : n \in Int /\ n \in Ref
    BY Members DEF Ref
  <2>7. e.path \in Seq(Name) /\ e.folder \in BOOLEAN /\ e.id \in Int /\ e.pid \in Int /\ e.path # << >>
    BY <2>5, <2>6 DEF Item
  <2>8. e.id = c.id /\ e.pid = x.parent /\ c.op \in {"create", "delete"} /\ c.id \in DOMAIN server
    OBVIOUS
  <2> HIDE DEF e
  <2>9. /\ Reported[k] \in Row /\ Reported[k].type = "remote" /\ Reported[k].id = c.id
        /\ Reported[k].pid = x.parent /\ Reported[k].op = c.op
    BY <2>4, <2>7, <2>8, NewRowType
  <2> QED
    BY <2>2, <2>5, <2>6, <2>8, <2>9 DEF FromDelta
<1>2. DOMAIN Reported = DOMAIN feed /\ Reported \in Seq(Row)
  <2>1. DOMAIN feed = 1..Len(feed) /\ Len(feed) \in Nat
    BY Members
  <2>2. DOMAIN Reported = DOMAIN feed /\ Reported = [k \in DOMAIN feed |-> Reported[k]]
    BY DEF Reported
  <2>3. Reported \in [1..Len(feed) -> Row]
    BY <1>1, <2>1, <2>2
  <2> QED
    BY <2>1, <2>2, <2>3
<1> QED
  BY <1>1, <1>2

\* Squashing drops the rows to create only of entries that also have one to be deleted.
LEMMA StartStep ==
    ASSUME Inv, Start
    PROVE  Inv'
<1> USE DEF Inv
<1> DEFINE table == rows \o Reported
<1>1. /\ pc = "idle" /\ db' = db /\ fuse' = fuse /\ pc' = "listed" /\ cur' = cur
      /\ item' = item /\ answer' = answer /\ chain' = chain /\ under' = under
      /\ server' = server /\ feed' = << >> /\ removed' = removed /\ cut' = cut /\ lost' = lost
      /\ rows' = Squashed(table)
      /\ recent' = recent \ {r \in DOMAIN rows' : rows'[r] = NoRow}
      /\ todo' \subseteq DOMAIN rows' /\ \A r \in todo' : rows'[r].type = "remote"
  BY DEF Start, history
<1>2. /\ table \in Seq(Row) /\ DOMAIN rows \subseteq DOMAIN table
      /\ \A r \in DOMAIN rows : table[r] = rows[r]
      /\ \A r \in DOMAIN table \ DOMAIN rows :
            /\ table[r].type = "remote" /\ table[r].id \in Ref \ {1} /\ table[r].pid \in Ref
            /\ FromDelta(table[r])
  <2>1. /\ Reported \in Seq(Row)
        /\ \A k \in DOMAIN Reported : /\ Reported[k].type = "remote" /\ Reported[k].id \in Ref \ {1}
                                      /\ Reported[k].pid \in Ref /\ FromDelta(Reported[k])
    BY ReportedRows
  <2> DEFINE rep == Reported
  <2> HIDE DEF rep
  <2>2. rows \in Seq(Row) /\ rep \in Seq(Row)
    BY <2>1 DEF TypeOK, rep
  <2>3. /\ rows \o rep \in Seq(Row) /\ DOMAIN (rows \o rep) = 1..Len(rows) + Len(rep)
        /\ Len(rows) \in Nat /\ Len(rep) \in Nat /\ DOMAIN rows = 1..Len(rows)
        /\ DOMAIN rep = 1..Len(rep)
    BY <2>2
  <2>4. \A r \in 1..Len(rows) + Len(rep) :
           (rows \o rep)[r] = IF r <= Len(rows) THEN rows[r] ELSE rep[r - Len(rows)]
    BY <2>2
  <2>5. \A r \in DOMAIN rows : (rows \o rep)[r] = rows[r] /\ r \in DOMAIN (rows \o rep)
    BY <2>3, <2>4
  <2>6. ASSUME NEW r \in DOMAIN (rows \o rep) \ DOMAIN rows
        PROVE  \E k \in DOMAIN rep : (rows \o rep)[r] = rep[k]
    <3>1. r - Len(rows) \in DOMAIN rep /\ (rows \o rep)[r] = rep[r - Len(rows)]
      BY <2>3, <2>4
    <3> QED
      BY <3>1
  <2> QED
    BY <2>1, <2>3, <2>5, <2>6 DEF rep
<1> HIDE DEF table
<1> DEFINE Of(op, id) == {r \in DOMAIN table : table[r].type = "local" /\ table[r].op = op
                            /\ table[r].id = id /\ table[r].status \notin {"done", "gone"}}
           Goes(r) == \/ table[r].status = "done"
                      \/ /\ table[r].type = "local"
                         /\ Of("create", table[r].id) # {} /\ Of("delete", table[r].id) # {}
<1>3. rows' = [r \in DOMAIN table |-> IF Goes(r) THEN NoRow ELSE table[r]]
  BY <1>1 DEF Squashed
<1>4. ASSUME NEW r \in DOMAIN rows, NEW i \in DOMAIN db, db[i].id < 0, Waits(r, i), Goes(r)
      PROVE  db[i].deleted \/ i \in lost
  <2>1. rows[r].status \in Open /\ rows[r].id = db[i].id
    BY <1>1, <1>4, WaitsListed DEF Waits
  <2>2. Of("delete", rows[r].id) # {}
    BY <1>2, <1>4, <2>1 DEF Open
  <2>3. PICK s \in DOMAIN table : table[s].type = "local" /\ table[s].op = "delete"
                            /\ table[s].id = rows[r].id /\ table[s].status \notin {"done", "gone"}
    BY <2>2
  <2>4. s \in DOMAIN rows /\ table[s] = rows[s]
    BY <1>2, <2>3
  <2> QED
    BY <1>4, <2>1, <2>3, <2>4 DEF Cared
<1> HIDE DEF Goes
<1>5. /\ DOMAIN rows' = DOMAIN table /\ rows' \in Seq(Row) /\ Len(rows') = Len(table)
      /\ \A r \in DOMAIN rows' : rows'[r] = NoRow \/ rows'[r] = table[r]
      /\ \A r \in DOMAIN rows' : ~Goes(r) => rows'[r] = table[r]
  <2>1. DOMAIN table = 1..Len(table) /\ Len(table) \in Nat /\ \A r \in DOMAIN table : table[r] \in Row
    BY <1>2
  <2>2. rows' \in [1..Len(table) -> Row]
    BY <1>3, <2>1, NoRowType
  <2> QED
    BY <1>3, <2>1, <2>2
<1>6. TypeOK'
  <2>1. recent' \subseteq DOMAIN rows' /\ todo' \subseteq DOMAIN rows'
    BY <1>1, <1>2, <1>5 DEF TypeOK
  <2>2. cur' \in 0..Len(rows')
    BY <1>1, <1>5 DEF CycleSound
  <2>3. feed' \in Seq([op : {"create", "delete"}, id : DOMAIN server'])
    BY <1>1
  <2> QED
    BY <1>1, <1>5, <2>1, <2>2, <2>3 DEF TypeOK
<1>7. RowsGo
  <2> SUFFICES ASSUME NEW r \in DOMAIN rows', rows'[r] # NoRow
               PROVE  \/ r \in DOMAIN rows /\ rows'[r] = rows[r]
                      \/ RowSound(table[r]) /\ table[r].type = "remote" /\ rows'[r] = table[r]
    BY DEF RowsGo, SameRow
  <2>1. rows'[r] = table[r] /\ r \in DOMAIN table
    BY <1>5
  <2>2. CASE r \in DOMAIN rows
    BY <1>2, <2>1, <2>2
  <2>3. CASE r \notin DOMAIN rows
    BY <1>2, <2>1, <2>3 DEF RowSound
  <2> QED
    BY <2>2, <2>3
<1>8. CycleSound'
  <2>1. Ref' = Ref
    BY <1>1, Untouched
  <2>2. cur = 0 /\ item.pid \in Ref /\ item.id \in Ref \ {1} /\ 1 \notin {chain[k] : k \in DOMAIN chain}
    BY <1>1 DEF CycleSound
  <2> QED
    BY <1>1, <2>1, <2>2 DEF CycleSound, Remotely, Rebuilding, Creating, Replacements, Renamed
<1>9. FuseSound'
  <2>1. ASSUME NEW i \in DOMAIN db, Unreferred(i) PROVE Unreferred(i)'
    <3>1. -i # 0 /\ \A n \in DOMAIN server : n # -i
      BY Members
    <3>2. ASSUME NEW r \in DOMAIN rows' PROVE rows'[r].id # -i /\ rows'[r].pid # -i
      <4>1. CASE rows'[r] = NoRow
        BY <3>1, <4>1 DEF NoRow
      <4>2. CASE r \in DOMAIN rows /\ rows'[r] = table[r]
        BY <1>2, <2>1, <4>2 DEF Unreferred
      <4>3. CASE r \in DOMAIN table \ DOMAIN rows /\ rows'[r] = table[r]
        BY <1>2, <3>1, <4>3 DEF FromDelta
      <4> QED
        BY <1>5, <4>1, <4>2, <4>3
    <3> QED
      BY <1>1, <2>1, <3>2 DEF Unreferred
  <2> QED
    BY <1>1, <1>6, <2>1, QuietFuse
<1>10. ASSUME NEW i \in DOMAIN db, db[i].id < 0,
             Making(i) \/ i \in Unstored \/ \E s \in DOMAIN rows : Waits(s, i)
      PROVE  Care(i)'
  <2>1. CASE i \in Unstored
    BY <1>1, <2>1 DEF Care, Unstored
  <2>2. ASSUME NEW s \in DOMAIN rows, Waits(s, i) PROVE Care(i)'
    <3>1. CASE Goes(s)
      BY <1>1, <1>4, <1>10, <2>2, <3>1 DEF Care
    <3>2. CASE ~Goes(s)
      <4>1. rows'[s] = rows[s] /\ s \in DOMAIN rows'
        BY <1>2, <1>5, <3>2
      <4> QED
        BY <1>1, <2>2, <4>1 DEF Care, Waits
    <3> QED
      BY <3>1, <3>2
  <2> QED
    BY <1>1, <1>10, <2>1, <2>2 DEF Making
<1> QED
  BY <1>1, <1>6, <1>7, <1>8, <1>9, <1>10, RowsStep

-----------------------------------------------------------------------------
\* The cycle, when it touches entries.

\* What a step of the cycle has to keep when every entry keeps its id.
LEMMA EntriesStep ==
    ASSUME Inv, TypeOK', IdsKept, ServerGrows, Identity', Made', Root', CycleSound',
           lost \subseteq lost', removed \subseteq removed', cut' = cut, fuse' = fuse, RowsGo,
           \A i \in DOMAIN db' :
              (i \in DOMAIN db /\ db'[i].pid = db[i].pid) \/ db'[i].pid \in Ref',
           \A i \in DOMAIN db : db[i].id = -i /\ Unreferred(i) => Unreferred(i)',
           \A i \in DOMAIN db : db[i].id < 0 =>
              IF db[i].deleted
              THEN db'[i].deleted \/ i \in lost' \/ (~Removing(i) /\ Care(i)')
              ELSE ~db'[i].deleted,
           \A i \in DOMAIN db' \ DOMAIN db :
              i > Len(db) /\ (db'[i].id < 0 => Care(i)' /\ ~db'[i].deleted),
           \A i \in DOMAIN db :
              db[i].id < 0 /\ (Making(i) \/ i \in Unstored \/ \E r \in DOMAIN rows : Waits(r, i))
              => Care(i)'
    PROVE  Inv'
<1> USE DEF Inv
<1>1. RowsSound'
  <2>1. ASSUME NEW r \in DOMAIN rows'
        PROVE  \/ r \in DOMAIN rows /\ SameRow(rows'[r], rows[r])
               \/ rows'[r] = NoRow
               \/ \A row \in Row : rows'[r] = row => RowSound(row)'
    BY RowKept DEF RowsGo
  <2> QED
    BY <2>1, RowsSoundKept
<1>2. Parents'
  <2>2. ASSUME NEW row \in Row, HasParent(row) PROVE HasParent(row)'
    BY <2>2, NamedKept DEF HasParent
  <2>3. ASSUME NEW r \in DOMAIN rows'
        PROVE  \/ r \in DOMAIN rows /\ SameRow(rows'[r], rows[r])
               \/ rows'[r] = NoRow
               \/ rows'[r].type = "remote" \/ rows'[r].op = "delete"
               \/ \A row \in Row : rows'[r] = row => HasParent(row)'
    BY <2>2 DEF RowsGo
  <2> QED
    BY <2>3, ParentsKept
<1>3. FuseSound'
  <2>1. fuse.pc = "row" /\ fuse.row.op = "create" => Unreferred(fuse.ino)'
    BY DEF FuseSound
  <2>2. \A i \in DOMAIN db : db[i].id < 0 /\ db[i].deleted =>
           db'[i].deleted \/ i \in lost' \/ ~Removing(i)
    OBVIOUS
  <2> QED
    BY <2>1, <2>2, FuseKept
<1>4. Cared'
  <2>1. \A i \in DOMAIN db : db[i].id < 0 /\ db[i].deleted =>
           db'[i].deleted \/ i \in lost' \/ (~Removing(i) /\ Care(i)')
    OBVIOUS
  <2>2. ASSUME NEW i \in DOMAIN db', db'[i].id < 0, db'[i].deleted
        PROVE  i \in DOMAIN db /\ db[i].deleted
    BY <2>2 DEF IdsKept
  <2>3. \A i \in DOMAIN db : db[i].id < 0 /\ (Making(i) \/ i \in Unstored) => Care(i)'
    OBVIOUS
  <2>4. \A i \in DOMAIN db, r \in DOMAIN rows : db[i].id < 0 /\ Waits(r, i) => Care(i)'
    OBVIOUS
  <2>5. \A i \in DOMAIN db' \ DOMAIN db : i > Len(db) /\ (db'[i].id < 0 => Care(i)')
    OBVIOUS
  <2>6. ASSUME NEW r \in DOMAIN rows', rows'[r].type = "local", rows'[r].op = "delete",
               rows'[r].status \notin {"done", "gone"}, rows'[r].id < 0
        PROVE  r \in DOMAIN rows /\ SameRow(rows'[r], rows[r]) /\ rows[r].status \notin {"done", "gone"}
    <3>1. PICK row \in Row : row = rows'[r]
      BY DEF TypeOK
    <3>2. row # NoRow /\ ~(row.op = "create") /\ ~(row.type = "remote")
      BY <2>6, <3>1 DEF NoRow
    <3>3. /\ r \in DOMAIN rows /\ SameRow(rows'[r], rows[r])
          /\ rows[r].status = "done" => \/ rows'[r].status \in {"done", "gone"}
                                        \/ rows'[r].type = "remote" \/ rows'[r].id > 0
      BY <3>1, <3>2 DEF RowsGo
    <3>4. ~(rows'[r].id > 0)
      <4>1. rows'[r].id \in Int
        BY <3>1 DEF Row
      <4> QED
        BY <2>6, <4>1
    <3>5. rows[r].status # "done"
      BY <2>6, <3>3, <3>4
    <3> QED
      BY <2>6, <3>3, <3>5 DEF SameRow
  <2>7. removed \subseteq removed'
    OBVIOUS
  <2> QED
    BY <2>1, <2>2, <2>3, <2>4, <2>5, <2>6, <2>7, CaredKept
<1> QED
  BY <1>1, <1>2, <1>3, <1>4

\* The entry made of what OneDrive says of an item, but of the root.
LEMMA FetchedType ==
    ASSUME TypeOK, Root, Made, NEW n \in DOMAIN server, n # 1
    PROVE  /\ Fetched(n) \in Entry /\ Fetched(n).id = n /\ Fetched(n).pid \in DOMAIN server
           /\ Fetched(n).path # << >> /\ ~Fetched(n).deleted
           /\ Fetched(n).pino \in 0..Len(db)
<1>1. PICK x \in Item : x = server[n]
  BY Members
<1>2. x.parent \in DOMAIN server /\ x.path # << >> /\ x.path \in Seq(Name) /\ x.folder \in BOOLEAN
  BY <1>1 DEF Made, Root, Item
<1>3. \A m \in DOMAIN server : m \in Int
  BY Members
<1> DEFINE pino == IF Known(x.parent) THEN Inode(x.parent) ELSE 0
<1>4. pino \in 0..Len(db) /\ pino \in Nat
  <2>1. Known(x.parent) => Inode(x.parent) \in DOMAIN db
    BY KnownInode
  <2> QED
    BY <2>1, Members
<1>5. Fetched(n) = [id |-> n, pid |-> x.parent, folder |-> x.folder, deleted |-> FALSE,
                    path |-> x.path, pino |-> pino]
  BY <1>1 DEF Fetched
<1> HIDE DEF pino
<1> QED
  BY <1>2, <1>3, <1>4, <1>5 DEF Entry

\* It takes the place of the entry with its id.
LEMMA FetchedEffect ==
    ASSUME Inv, NEW n \in DOMAIN server, n # 1, Known(n),
           db' = [db EXCEPT ![Inode(n)] = Fetched(n)]
    PROVE  /\ db' \in Seq(Entry) /\ DOMAIN db' = DOMAIN db /\ Len(db') = Len(db) /\ IdsKept
           /\ \A i \in DOMAIN db' : db'[i].pino \in 0..Len(db')
           /\ \A i \in DOMAIN db : db'[i] = db[i] \/ (db[i].id > 0 /\ i # 1 /\ db'[i].pid \in DOMAIN server)
           /\ \A i \in DOMAIN db \ {1} : db'[i].path # << >>
           /\ db'[1].id = 1 /\ db'[1].pino = 0 /\ ~db'[1].deleted
<1> USE DEF Inv
<1>1. PICK i \in DOMAIN db : i = Inode(n) /\ db[i].id = n
  BY KnownInode
<1>2. PICK e \in Entry : /\ e = Fetched(n) /\ e.id = n /\ e.pid \in DOMAIN server /\ e.path # << >>
                         /\ e.pino \in 0..Len(db)
  BY FetchedType
<1>3. db' = [db EXCEPT ![i] = e] /\ db \in Seq(Entry)
  BY <1>1, <1>2 DEF TypeOK
<1>4. /\ db' \in Seq(Entry) /\ DOMAIN db' = DOMAIN db /\ Len(db') = Len(db)
      /\ db'[i] = e /\ \A j \in DOMAIN db : j # i => db'[j] = db[j]
  <2>1. DOMAIN db = 1..Len(db) /\ Len(db) \in Nat /\ \A j \in DOMAIN db : db[j] \in Entry
    BY Members
  <2>2. DOMAIN db' = DOMAIN db /\ db'[i] = e /\ \A j \in DOMAIN db : j # i => db'[j] = db[j]
    BY <1>3
  <2>3. db' \in [1..Len(db) -> Entry]
    BY <1>3, <2>1, <2>2
  <2> QED
    BY <2>1, <2>2, <2>3
<1>5. n > 0 /\ i # 1 /\ 1 \in DOMAIN db
  BY <1>1, Members DEF Root
<1>6. IdsKept
  BY <1>1, <1>2, <1>4 DEF IdsKept
<1>7. \A j \in DOMAIN db' : db'[j].pino \in 0..Len(db')
  BY <1>2, <1>4 DEF TypeOK
<1>8. \A j \in DOMAIN db : db'[j] = db[j] \/ (db[j].id > 0 /\ j # 1 /\ db'[j].pid \in DOMAIN server)
  BY <1>1, <1>2, <1>4, <1>5
<1>9. \A j \in DOMAIN db \ {1} : db'[j].path # << >>
  BY <1>2, <1>4 DEF Root
<1>10. db'[1].id = 1 /\ db'[1].pino = 0 /\ ~db'[1].deleted
  BY <1>4, <1>5 DEF Root
<1> QED
  BY <1>4, <1>6, <1>7, <1>8, <1>9, <1>10

\* The restored parent is an item of OneDrive, and so is its own parent.
LEMMA RestoreStep ==
    ASSUME Inv, Restore
    PROVE  Inv'
<1> USE DEF Inv
<1>1. /\ pc = "restore" /\ fuse' = fuse /\ todo' = todo /\ answer' = answer /\ chain' = chain
      /\ under' = under
      /\ server' = server /\ feed' = feed /\ removed' = removed /\ cut' = cut /\ lost' = lost
  BY DEF Restore, history
<1>2. /\ cur \in DOMAIN rows /\ rows[cur].type = "remote" /\ item.type = "remote" /\ FromDelta(item)
      /\ Known(item.pid) /\ item.pid # 1 /\ item.pid \in DOMAIN server
      /\ item.id \in Ref \ {1} /\ item.pid \in Ref
      /\ \A s \in todo : rows[s].type = "remote"
      /\ 1 \notin {chain[k] : k \in DOMAIN chain}
  BY <1>1 DEF CycleSound, Remotely, FromDelta
<1>3. CASE SetStatus(cur, "conflicted") /\ Leave("listed") /\ db' = db
  <2>1. \A i \in DOMAIN db : ~Making(i) /\ ~Waits(cur, i)
    BY <1>1, <1>2 DEF Making, Waits
  <2>2. lost' \subseteq DOMAIN db
    BY <1>1 DEF TypeOK
  <2> HIDE DEF Inv
  <2> QED
    BY <1>1, <1>2, <1>3, <2>1, <2>2, LeaveStep
<1>4. CASE /\ db' = [db EXCEPT ![Inode(item.pid)] = Fetched(item.pid)]
           /\ pc' = "reset" /\ UNCHANGED <<rows, recent, cur, item, events>>
  <2>1. /\ db' \in Seq(Entry) /\ DOMAIN db' = DOMAIN db /\ Len(db') = Len(db) /\ IdsKept
        /\ \A i \in DOMAIN db' : db'[i].pino \in 0..Len(db')
        /\ \A i \in DOMAIN db : db'[i] = db[i] \/ (db[i].id > 0 /\ i # 1 /\ db'[i].pid \in DOMAIN server)
        /\ \A i \in DOMAIN db \ {1} : db'[i].path # << >>
        /\ db'[1].id = 1 /\ db'[1].pino = 0 /\ ~db'[1].deleted
    BY <1>2, <1>4, FetchedEffect
  <2>2. rows' = rows /\ recent' = recent /\ cur' = cur /\ item' = item /\ pc' = "reset"
    BY <1>4
  <2>3. TypeOK'
    <3>1. chain' \in Seq(DOMAIN db') /\ under' \in 0..Len(db') /\ removed' \union lost' \subseteq DOMAIN db'
      BY <1>1, <2>1 DEF TypeOK
    <3> QED
      BY <1>1, <2>1, <2>2, <3>1 DEF TypeOK
  <2>4. ServerGrows /\ DOMAIN db' \ DOMAIN db = {} /\ DOMAIN server' \ DOMAIN server = {}
    BY <1>1, <2>1 DEF ServerGrows
  <2>5. Identity'
    BY <2>1, <2>3, <2>4, IdentityKept
  <2>6. Made'
    BY <1>1, <2>1, <2>3, <2>4, MadeKept
  <2>7. Root'
    BY <2>1, <2>3, <2>4, RootKept
  <2>8. Ref \subseteq Ref' /\ \A n \in DOMAIN server : n \in Ref'
    <3>1. Ref \subseteq Ref'
      BY <2>1, <2>3, <2>4, RefKept
    <3> QED
      BY <3>1, Members DEF Ref
  <2>9. RowsGo
    BY <2>2, SameRows
  <2>10. CycleSound'
    <3>1. Known(item.pid)'
      BY <1>2, <2>1, <2>2 DEF Known, IdsKept
    <3>2. FromDelta(item)'
      BY <1>1, <1>2, <2>2 DEF FromDelta
    <3> QED
      BY <1>1, <1>2, <2>2, <2>8, <3>1, <3>2
         DEF CycleSound, Remotely, Rebuilding, Creating, Replacements, Renamed
  <2>11. ASSUME NEW i \in DOMAIN db, db[i].id = -i, Unreferred(i) PROVE Unreferred(i)'
    <3>1. \A n \in DOMAIN server : n # -i
      BY Members
    <3> QED
      BY <1>1, <2>1, <2>2, <2>11, <3>1 DEF Unreferred
  <2>12. ASSUME NEW i \in DOMAIN db, db[i].id < 0 PROVE db'[i] = db[i]
    <3>1. ~(db[i].id > 0)
      <4>1. db[i].id \in Int
        BY IdsAreRefs
      <4> QED
        BY <2>12, <4>1
    <3> QED
      BY <2>1, <3>1
  <2>13. ASSUME NEW i \in DOMAIN db, db[i].id < 0,
                Making(i) \/ i \in Unstored \/ \E r \in DOMAIN rows : Waits(r, i)
         PROVE  Care(i)'
    <3>1. db'[i] = db[i] /\ ~Making(i)
      BY <1>1, <2>12, <2>13 DEF Making
    <3> QED
      BY <1>1, <2>2, <2>13, <3>1 DEF Care, Unstored, Waits
  <2>14. \A i \in DOMAIN db' :
              (i \in DOMAIN db /\ db'[i].pid = db[i].pid) \/ db'[i].pid \in Ref'
    BY <2>1, <2>8
  <2> HIDE DEF Inv
  <2> QED
    BY <1>1, <2>1, <2>3, <2>4, <2>5, <2>6, <2>7, <2>9, <2>10, <2>11, <2>12, <2>13, <2>14, EntriesStep
<1>5. <1>3!1 \/ <1>4!1
  BY DEF Restore
<1> QED
  BY <1>3, <1>4, <1>5

\* What is stored of a created item keeps its id.
LEMMA FetchStep ==
    ASSUME Inv, Fetch
    PROVE  Inv'
<1> USE DEF Inv
<1>1. /\ pc = "fetch" /\ pc' = "closing" /\ fuse' = fuse /\ todo' = todo /\ answer' = 0
      /\ chain' = chain /\ under' = under /\ rows' = rows /\ recent' = recent /\ cur' = cur
      /\ item' = item
      /\ server' = server /\ feed' = feed /\ removed' = removed /\ cut' = cut /\ lost' = lost
  BY DEF Fetch, history
<1>2. /\ cur \in DOMAIN rows /\ rows[cur].type = "local" /\ rows[cur].status \notin {"done", "gone"}
      /\ rows[cur].id = item.id /\ rows[cur].op = item.op /\ item.type = "local"
      /\ item.op = "create" /\ item.id > 0
      /\ answer \in DOMAIN server /\ answer # 1 /\ Known(answer)
      /\ item.id \in Ref \ {1} /\ item.pid \in Ref
      /\ \A s \in todo : rows[s].type = "remote"
      /\ 1 \notin {chain[k] : k \in DOMAIN chain}
  BY <1>1 DEF CycleSound, Creating, Replacements, Renamed
<1>3. /\ db' \in Seq(Entry) /\ DOMAIN db' = DOMAIN db /\ Len(db') = Len(db) /\ IdsKept
      /\ \A i \in DOMAIN db' : db'[i].pino \in 0..Len(db')
      /\ \A i \in DOMAIN db : db'[i] = db[i] \/ (db[i].id > 0 /\ i # 1 /\ db'[i].pid \in DOMAIN server)
      /\ \A i \in DOMAIN db \ {1} : db'[i].path # << >>
      /\ db'[1].id = 1 /\ db'[1].pino = 0 /\ ~db'[1].deleted
  <2>1. CASE db' = db
    BY <2>1 DEF TypeOK, Root, IdsKept
  <2>2. CASE db' = [db EXCEPT ![Inode(answer)] = Fetched(answer)]
    BY <1>2, <2>2, FetchedEffect
  <2> QED
    BY <2>1, <2>2 DEF Fetch
<1>4. TypeOK'
  <2>1. /\ chain' \in Seq(DOMAIN db') /\ under' \in 0..Len(db') /\ removed' \union lost' \subseteq DOMAIN db'
        /\ answer' \in 0..Len(server')
    BY <1>1, <1>3, Members DEF TypeOK
  <2> QED
    BY <1>1, <1>3, <2>1 DEF TypeOK
<1>5. ServerGrows /\ DOMAIN db' \ DOMAIN db = {} /\ DOMAIN server' \ DOMAIN server = {}
  BY <1>1, <1>3 DEF ServerGrows
<1>6. Identity'
  BY <1>3, <1>4, <1>5, IdentityKept
<1>7. Made'
  BY <1>1, <1>3, <1>4, <1>5, MadeKept
<1>8. Root'
  BY <1>3, <1>4, <1>5, RootKept
<1>9. Ref \subseteq Ref' /\ \A n \in DOMAIN server : n \in Ref'
  <2>1. Ref \subseteq Ref'
    BY <1>3, <1>4, <1>5, RefKept
  <2> QED
    BY <2>1, Members DEF Ref
<1>10. RowsGo
  BY <1>1, SameRows
<1>11. CycleSound'
  BY <1>1, <1>2, <1>9 DEF CycleSound, Remotely, Rebuilding, Creating, Replacements, Renamed
<1>12. ASSUME NEW i \in DOMAIN db, db[i].id = -i, Unreferred(i) PROVE Unreferred(i)'
  <2>1. \A n \in DOMAIN server : n # -i
    BY Members
  <2> QED
    BY <1>1, <1>3, <1>12, <2>1 DEF Unreferred
<1>13. ASSUME NEW i \in DOMAIN db, db[i].id < 0 PROVE db'[i] = db[i]
  <2>1. ~(db[i].id > 0)
    <3>1. db[i].id \in Int
      BY IdsAreRefs
    <3> QED
      BY <1>13, <3>1
  <2> QED
    BY <1>3, <2>1
<1>14. ASSUME NEW i \in DOMAIN db, db[i].id < 0,
              Making(i) \/ i \in Unstored \/ \E r \in DOMAIN rows : Waits(r, i)
       PROVE  Care(i)'
  <2>1. db'[i] = db[i] /\ ~Making(i)
    BY <1>1, <1>13, <1>14 DEF Making
  <2> QED
    BY <1>1, <1>14, <2>1 DEF Care, Unstored, Waits
<1>15. \A i \in DOMAIN db' :
              (i \in DOMAIN db /\ db'[i].pid = db[i].pid) \/ db'[i].pid \in Ref'
  BY <1>3, <1>9
<1> HIDE DEF Inv
<1> QED
  BY <1>1, <1>3, <1>4, <1>5, <1>6, <1>7, <1>8, <1>10, <1>11, <1>12, <1>13, <1>14, <1>15, EntriesStep

\* What process_remote_item does to the entries.
LEMMA ApplyEffect ==
    ASSUME Inv, Apply
    PROVE  /\ db' \in Seq(Entry) /\ DOMAIN db \subseteq DOMAIN db' /\ Len(db) <= Len(db')
           /\ Len(db') \in Nat /\ IdsKept
           /\ \A i \in DOMAIN db' : db'[i].pino \in 0..Len(db')
           /\ \A i \in DOMAIN db : \/ db[i].id > 0
                                   \/ db'[i].deleted = db[i].deleted
           /\ \A i \in DOMAIN db : db'[i].pid = db[i].pid \/ db'[i].pid \in DOMAIN server
           /\ \A i \in DOMAIN db' \ DOMAIN db :
                 /\ i > Len(db) /\ db'[i].id \in DOMAIN server /\ server[db'[i].id].by = 0
                 /\ ~Known(db'[i].id) /\ db'[i].pid \in DOMAIN server
           /\ \A i, j \in DOMAIN db' \ DOMAIN db : i = j
           /\ \A i \in DOMAIN db' \ {1} : db'[i].path # << >>
           /\ db'[1].id = 1 /\ db'[1].pino = 0 /\ ~db'[1].deleted
           /\ chain \in Seq(DOMAIN db')
<1> USE DEF Inv
<1>1. pc = "apply"
  BY DEF Apply
<1>2. FromDelta(item) /\ item.id # 1 /\ item.id \in DOMAIN server /\ item.id > 0
  <2>1. FromDelta(item) /\ item.id # 1
    BY <1>1 DEF CycleSound, Remotely
  <2> QED
    BY <2>1, Members DEF FromDelta
<1>3. 1 \in DOMAIN db /\ Len(db) \in Nat /\ DOMAIN db = 1..Len(db) /\ chain \in Seq(DOMAIN db)
  BY Members DEF Root, TypeOK
<1>4. CASE item.op = "delete"
  <2> DEFINE gone == {i \in DOMAIN db : db[i].id = item.id}
  <2>1. db' = [i \in DOMAIN db |-> [db[i] EXCEPT !.deleted = @ \/ i \in gone]]
    BY <1>4 DEF Apply
  <2>2. 1 \notin gone /\ \A i \in gone : db[i].id > 0
    BY <1>2 DEF Root
  <2> HIDE DEF gone
  <2>3. /\ db' \in Seq(Entry) /\ DOMAIN db' = DOMAIN db /\ Len(db') = Len(db) /\ IdsKept
        /\ \A i \in DOMAIN db : /\ db'[i].id = db[i].id /\ db'[i].pid = db[i].pid
                                /\ db'[i].pino = db[i].pino /\ db'[i].path = db[i].path
                                /\ db'[i].deleted = (db[i].deleted \/ i \in gone)
        /\ \A i \in DOMAIN db' : db'[i].pino \in 0..Len(db')
    BY <2>1, MarkEffect
  <2>4. db'[1].id = 1 /\ db'[1].pino = 0 /\ ~db'[1].deleted
    BY <1>3, <2>2, <2>3 DEF Root
  <2>5. \A i \in DOMAIN db' \ {1} : db'[i].path # << >>
    BY <2>3 DEF Root
  <2>6. \A i \in DOMAIN db : db[i].id > 0 \/ db'[i].deleted = db[i].deleted
    BY <2>2, <2>3, Members DEF Entry
  <2> QED
    BY <1>3, <2>3, <2>4, <2>5, <2>6
<1>5. CASE item.op # "delete" /\ Known(item.id)
  <2>1. db' = [db EXCEPT ![Inode(item.id)] = Fetched(item.id)]
    BY <1>5 DEF Apply
  <2>2. /\ db' \in Seq(Entry) /\ DOMAIN db' = DOMAIN db /\ Len(db') = Len(db) /\ IdsKept
        /\ \A i \in DOMAIN db' : db'[i].pino \in 0..Len(db')
        /\ \A i \in DOMAIN db : db'[i] = db[i] \/ (db[i].id > 0 /\ i # 1 /\ db'[i].pid \in DOMAIN server)
        /\ \A i \in DOMAIN db \ {1} : db'[i].path # << >>
        /\ db'[1].id = 1 /\ db'[1].pino = 0 /\ ~db'[1].deleted
    BY <1>2, <1>5, <2>1, FetchedEffect
  <2> QED
    BY <1>3, <2>2
<1>6. CASE item.op # "delete" /\ ~Known(item.id)
  <2>1. PICK e \in Entry : /\ e = Fetched(item.id) /\ e.id = item.id /\ e.pid \in DOMAIN server
                           /\ e.path # << >> /\ e.pino \in 0..Len(db)
    BY <1>2, FetchedType
  <2>2. db' = Append(db, e) /\ e.pino \in 0..Len(db) + 1
    BY <1>3, <1>6, <2>1 DEF Apply
  <2>3. /\ db' \in Seq(Entry) /\ DOMAIN db' = 1..Len(db) + 1 /\ Len(db') = Len(db) + 1
        /\ DOMAIN db \subseteq DOMAIN db' /\ IdsKept
        /\ \A i \in DOMAIN db : db'[i] = db[i]
        /\ DOMAIN db' \ DOMAIN db = {Len(db) + 1}
        /\ db'[Len(db) + 1] = e /\ Len(db) + 1 \in DOMAIN db'
        /\ \A i \in DOMAIN db' : db'[i].pino \in 0..Len(db')
        /\ chain \in Seq(DOMAIN db')
    BY <2>2, EntryEffect
  <2>4. server[item.id].by = 0
    <3>1. item.op = "create"
      BY <1>6 DEF TypeOK, Row
    <3> QED
      BY <1>2, <3>1 DEF FromDelta
  <2>5. db'[1].id = 1 /\ db'[1].pino = 0 /\ ~db'[1].deleted
    BY <1>3, <2>3 DEF Root
  <2>6. \A i \in DOMAIN db' \ {1} : db'[i].path # << >>
    <3>1. \A i \in DOMAIN db \ {1} : db'[i].path # << >>
      BY <2>3 DEF Root
    <3> QED
      BY <2>1, <2>3, <3>1
  <2>7. \A i \in DOMAIN db' \ DOMAIN db :
           /\ i > Len(db) /\ db'[i].id \in DOMAIN server /\ server[db'[i].id].by = 0
           /\ ~Known(db'[i].id) /\ db'[i].pid \in DOMAIN server
    BY <1>2, <1>3, <1>6, <2>1, <2>3, <2>4
  <2> QED
    BY <1>3, <2>3, <2>5, <2>6, <2>7
<1> QED
  BY <1>4, <1>5, <1>6

\* A remote row adds an entry with an id no other has, or changes that of its id.
LEMMA ApplyStep ==
    ASSUME Inv, Apply
    PROVE  Inv'
<1> USE DEF Inv
<1>1. /\ pc = "apply" /\ pc' = "listed" /\ cur' = 0 /\ item' = NoRow /\ SetStatus(cur, "done")
      /\ fuse' = fuse /\ todo' = todo /\ answer' = answer
      /\ chain' = chain /\ under' = under
      /\ server' = server /\ feed' = feed /\ removed' = removed /\ cut' = cut /\ lost' = lost
  BY DEF Apply, Leave, history
<1>2. /\ cur \in DOMAIN rows /\ rows[cur].type = "remote"
      /\ \A s \in todo : rows[s].type = "remote"
      /\ 1 \notin {chain[k] : k \in DOMAIN chain}
  BY <1>1 DEF CycleSound, Remotely
<1>3. /\ db' \in Seq(Entry) /\ DOMAIN db \subseteq DOMAIN db' /\ Len(db) <= Len(db')
      /\ Len(db') \in Nat /\ IdsKept
      /\ \A i \in DOMAIN db' : db'[i].pino \in 0..Len(db')
      /\ \A i \in DOMAIN db : \/ db[i].id > 0
                              \/ db'[i].deleted = db[i].deleted
      /\ \A i \in DOMAIN db : db'[i].pid = db[i].pid \/ db'[i].pid \in DOMAIN server
      /\ \A i \in DOMAIN db' \ DOMAIN db :
            /\ i > Len(db) /\ db'[i].id \in DOMAIN server /\ server[db'[i].id].by = 0
            /\ ~Known(db'[i].id) /\ db'[i].pid \in DOMAIN server
      /\ \A i, j \in DOMAIN db' \ DOMAIN db : i = j
      /\ \A i \in DOMAIN db' \ {1} : db'[i].path # << >>
      /\ db'[1].id = 1 /\ db'[1].pino = 0 /\ ~db'[1].deleted
      /\ chain \in Seq(DOMAIN db')
  BY ApplyEffect
<1>4. /\ rows' \in Seq(Row) /\ DOMAIN rows' = DOMAIN rows /\ Len(rows') = Len(rows)
      /\ recent' \subseteq DOMAIN rows
      /\ \A s \in DOMAIN rows : SameRow(rows'[s], rows[s])
      /\ \A s \in DOMAIN rows : s # cur => rows'[s] = rows[s]
  BY <1>1, <1>2, StatusEffect
<1>5. TypeOK'
  <2>1. under' \in 0..Len(db') /\ removed' \union lost' \subseteq DOMAIN db'
    <3>1. under \in 0..Len(db) /\ Len(db) \in Nat /\ removed \union lost \subseteq DOMAIN db
      BY DEF TypeOK
    <3> QED
      BY <1>1, <1>3, <3>1
  <2>2. /\ recent' \subseteq DOMAIN rows' /\ todo' \subseteq DOMAIN rows' /\ cur' \in 0..Len(rows')
        /\ item' \in Row
    BY <1>1, <1>4, Members, NoRowType DEF TypeOK
  <2> QED
    BY <1>1, <1>3, <1>4, <2>1, <2>2 DEF TypeOK
<1>6. ServerGrows /\ DOMAIN server' \ DOMAIN server = {}
  BY <1>1 DEF ServerGrows
<1>7. Identity'
  BY <1>1, <1>3, <1>5, <1>6, IdentityKept
<1>8. Made'
  BY <1>1, <1>3, <1>5, <1>6, MadeKept
<1>9. Root'
  BY <1>3, <1>5, <1>6, RootKept
<1>10. Ref \subseteq Ref' /\ \A n \in DOMAIN server : n \in Ref'
  <2>1. Ref \subseteq Ref'
    BY <1>3, <1>5, <1>6, RefKept
  <2> QED
    BY <2>1, Members DEF Ref
<1>11. RowsGo
  <2> SUFFICES ASSUME NEW r \in DOMAIN rows, rows[r].status = "done"
               PROVE  rows'[r].status \in {"done", "gone"} \/ rows'[r].type = "remote"
    BY <1>4 DEF RowsGo
  <2> QED
    BY <1>2, <1>4 DEF SameRow
<1>12. CycleSound'
  <2>1. todo \subseteq DOMAIN rows
    BY DEF TypeOK
  <2>2. \A s \in todo' : rows'[s].type = "remote"
    BY <1>1, <1>2, <1>4, <2>1 DEF SameRow
  <2> QED
    BY <1>1, <1>2, <1>5, <2>2, IdleSound
<1>13. ASSUME NEW i \in DOMAIN db, db[i].id = -i, Unreferred(i) PROVE Unreferred(i)'
  <2>1. -i # 0 /\ i # 0 /\ \A n \in DOMAIN server : n # -i
    BY Members
  <2>2. \A r \in DOMAIN rows' : rows'[r].id # -i /\ rows'[r].pid # -i
    BY <1>4, <1>13 DEF Unreferred, SameRow
  <2>3. \A j \in DOMAIN db' : db'[j].pid # -i
    BY <1>3, <1>13, <2>1 DEF Unreferred
  <2> QED
    BY <1>1, <1>13, <2>1, <2>2, <2>3 DEF Unreferred, NoRow
<1>14. ASSUME NEW i \in DOMAIN db, db[i].id < 0 PROVE db'[i].deleted = db[i].deleted
  <2>1. ~(db[i].id > 0)
    <3>1. db[i].id \in Int
      BY IdsAreRefs
    <3> QED
      BY <1>14, <3>1
  <2> QED
    BY <1>3, <2>1
<1>15. ASSUME NEW i \in DOMAIN db, db[i].id < 0,
              Making(i) \/ i \in Unstored \/ \E r \in DOMAIN rows : Waits(r, i)
       PROVE  Care(i)'
  <2>1. ~Making(i)
    BY <1>1 DEF Making
  <2>2. CASE i \in Unstored
    BY <1>1, <2>2 DEF Care, Unstored
  <2>3. ASSUME NEW r \in DOMAIN rows, Waits(r, i) PROVE Care(i)'
    <3>1. r # cur
      BY <1>2, <2>3 DEF Waits
    <3>2. db'[i].id = db[i].id /\ rows'[r] = rows[r] /\ r \in DOMAIN rows'
      BY <1>3, <1>4, <3>1 DEF IdsKept
    <3> QED
      BY <2>3, <3>1, <3>2 DEF Care, Waits
  <2> QED
    BY <1>15, <2>1, <2>2, <2>3
<1>16. \A i \in DOMAIN db' :
              (i \in DOMAIN db /\ db'[i].pid = db[i].pid) \/ db'[i].pid \in Ref'
  BY <1>3, <1>10
<1>17. ASSUME NEW i \in DOMAIN db' \ DOMAIN db PROVE i > Len(db) /\ ~(db'[i].id < 0)
  <2>1. db'[i].id \in DOMAIN server /\ i > Len(db)
    BY <1>3
  <2> QED
    BY <2>1, Members
<1> HIDE DEF Inv
<1> QED
  BY <1>1, <1>3, <1>5, <1>6, <1>7, <1>8, <1>9, <1>11, <1>12, <1>13, <1>14, <1>15, <1>16, <1>17,
     EntriesStep

\* A rebuilt folder is a new entry under the one rebuilt before it.
LEMMA RebuildEntryStep ==
    ASSUME Inv, RebuildEntry
    PROVE  Inv'
<1> USE DEF Inv
<1>1. /\ pc = "rebuild" /\ chain # << >> /\ pc' = "made" /\ fuse' = fuse /\ todo' = todo
      /\ answer' = answer /\ chain' = Tail(chain) /\ under' = Len(db) + 1 /\ rows' = rows
      /\ recent' = recent /\ cur' = cur /\ item' = item
      /\ server' = server /\ feed' = feed /\ removed' = removed /\ cut' = cut /\ lost' = lost
      /\ db' = Append(db, NewEntry(Last(db[Head(chain)].path), under, TRUE))
  BY DEF RebuildEntry, history
<1>2. /\ cur \in DOMAIN rows /\ rows[cur].type = "local" /\ rows[cur].status \in Open
      /\ rows[cur].id = item.id /\ rows[cur].op = item.op /\ item.type = "local"
      /\ item.op = "create" /\ ToCreate(item) /\ under \in DOMAIN db
      /\ item.id \in Ref \ {1} /\ item.pid \in Ref
      /\ \A s \in todo : rows[s].type = "remote"
      /\ \A k \in DOMAIN chain : chain[k] # 1
  BY <1>1 DEF CycleSound, Rebuilding, Renamed
<1>i. PICK i \in Nat : i = Len(db) + 1
  BY Members
<1>3. Len(db) \in Nat /\ DOMAIN db = 1..Len(db) /\ 1 \in DOMAIN db /\ i \notin DOMAIN db
  BY <1>i, Members DEF Root
<1>4. /\ Tail(chain) \in Seq(DOMAIN db) /\ Head(chain) \in DOMAIN db /\ Head(chain) # 1
      /\ \A k \in DOMAIN Tail(chain) : k + 1 \in DOMAIN chain /\ Tail(chain)[k] = chain[k + 1]
  <2> DEFINE S == DOMAIN db
  <2>1. chain \in Seq(S)
    BY DEF TypeOK
  <2> HIDE DEF S
  <2>2. Tail(chain) \in Seq(S) /\ Head(chain) = chain[1] /\ 1 \in DOMAIN chain /\ chain[1] \in S
    BY <1>1, <2>1
  <2>3. \A k \in DOMAIN Tail(chain) : k + 1 \in DOMAIN chain /\ Tail(chain)[k] = chain[k + 1]
    BY <1>1, <2>1
  <2> QED
    BY <1>2, <2>2, <2>3 DEF S
<1>5. PICK e \in Entry : /\ e = NewEntry(Last(db[Head(chain)].path), under, TRUE)
                         /\ e.path # << >> /\ e.id = -i /\ e.pid = db[under].id
                         /\ e.pino = under /\ e.deleted = FALSE
  <2>1. Last(db[Head(chain)].path) \in Name
    <3>1. db[Head(chain)].path \in Seq(Name) /\ db[Head(chain)].path # << >>
      BY <1>4, Members DEF Root, Entry
    <3>2. Len(db[Head(chain)].path) \in Nat \ {0}
      BY <3>1, EmptySeq
    <3> QED
      BY <3>1, <3>2 DEF Last
  <2> QED
    BY <1>i, <1>2, <2>1, NewEntryType
<1>6. /\ db' \in Seq(Entry) /\ DOMAIN db' = 1..Len(db) + 1 /\ Len(db') = Len(db) + 1
      /\ DOMAIN db \subseteq DOMAIN db' /\ IdsKept
      /\ \A j \in DOMAIN db : db'[j] = db[j]
      /\ DOMAIN db' \ DOMAIN db = {i}
      /\ db'[i] = e /\ i \in DOMAIN db'
      /\ \A j \in DOMAIN db' : db'[j].pino \in 0..Len(db')
  <2>0. under \in 0..Len(db) + 1
    BY <1>2, <1>3
  <2>1. e.pino \in 0..Len(db) + 1
    BY <1>5, <2>0
  <2> QED
    BY <1>i, <1>1, <1>5, <2>1, EntryEffect
<1>7. TypeOK'
  <2>1. removed' \union lost' \subseteq DOMAIN db' /\ under' \in 0..Len(db')
    BY <1>1, <1>3, <1>6 DEF TypeOK
  <2>2. chain' \in Seq(DOMAIN db')
    BY <1>1, <1>4, <1>6, SeqMonotonic
  <2> QED
    BY <1>1, <1>6, <2>1, <2>2 DEF TypeOK
<1>8. ServerGrows /\ DOMAIN server' \ DOMAIN server = {}
  BY <1>1 DEF ServerGrows
<1>9. Identity'
  BY <1>5, <1>6, <1>7, <1>8, IdentityKept
<1>10. Made'
  BY <1>1, <1>6, <1>7, <1>8, MadeKept
<1>11. Root'
  <2>1. db'[1].id = 1 /\ db'[1].pino = 0 /\ ~db'[1].deleted
    BY <1>3, <1>6 DEF Root
  <2>2. \A j \in DOMAIN db' \ {1} :
           (j \in DOMAIN db /\ db'[j].path = db[j].path) \/ db'[j].path # << >>
    <3>1. db'[i].path # << >>
      BY ONLY <1>5, <1>6
    <3>2. \A j \in DOMAIN db' : (j \in DOMAIN db /\ db'[j] = db[j]) \/ j = i
      BY ONLY <1>6
    <3> QED
      BY ONLY <3>1, <3>2
  <2> QED
    BY <1>6, <1>7, <1>8, <2>1, <2>2, RootKept
<1>12. Ref \subseteq Ref'
  BY <1>6, <1>7, <1>8, RefKept
<1>13. RowsGo
  BY <1>1, SameRows
<1>14. CycleSound'
  <2>1. ToCreate(item)'
    <3>1. Named(item.id)'
      BY <1>1, <1>2, <1>6 DEF ToCreate, Known, IdsKept, Named
    <3> QED
      BY <1>1, <1>2, <3>1 DEF ToCreate
  <2>2. db'[under'].id = -under' /\ Known(db[under].pid)' \in BOOLEAN /\ under' = i
    BY <1>i, <1>1, <1>5, <1>6 DEF Known
  <2>3. \E j \in DOMAIN db' : db'[j].id = db'[under'].pid
    BY <1>2, <1>5, <1>6, <2>2 DEF IdsKept
  <2>4. Known(db[under].pid)'
    BY <2>3 DEF Known
  <2>5. 1 \notin {chain'[k] : k \in DOMAIN chain'}
    BY <1>1, <1>2, <1>4
  <2> QED
    BY <1>1, <1>2, <1>6, <1>12, <2>1, <2>2, <2>4, <2>5
       DEF CycleSound, Remotely, Rebuilding, Creating, Open, Replacements, Renamed
<1>15. ASSUME NEW j \in DOMAIN db, db[j].id = -j, Unreferred(j) PROVE Unreferred(j)'
  <2>1. db[under].id # -j
    BY <1>2, <1>15 DEF Unreferred, Identity
  <2>2. \A k \in DOMAIN db' : db'[k].pid # -j
    BY <1>5, <1>6, <1>15, <2>1 DEF Unreferred
  <2>3. under' # j
    BY <1>i, <1>1, <1>3
  <2>4. \A k \in DOMAIN chain' : chain'[k] # j
    BY <1>1, <1>4, <1>15 DEF Unreferred
  <2> QED
    BY <1>1, <1>15, <2>2, <2>3, <2>4 DEF Unreferred
<1>16. ASSUME NEW j \in DOMAIN db, db[j].id < 0,
              Making(j) \/ j \in Unstored \/ \E r \in DOMAIN rows : Waits(r, j)
       PROVE  Care(j)'
  <2>1. db'[j] = db[j] /\ ~Making(j)
    BY <1>1, <1>6 DEF Making
  <2> QED
    BY <1>1, <1>16, <2>1 DEF Care, Unstored, Waits
<1>17. Care(i)'
  BY <1>i, <1>1 DEF Care, Making
<1>18. \A j \in DOMAIN db' :
              (j \in DOMAIN db /\ db'[j].pid = db[j].pid) \/ db'[j].pid \in Ref'
  <2>1. db[under].id \in Ref
    BY <1>2, IdsAreRefs
  <2> QED
    BY <1>5, <1>6, <1>12, <2>1
<1>19. \A j \in DOMAIN db' \ DOMAIN db : j > Len(db) /\ (db'[j].id < 0 => Care(j)' /\ ~db'[j].deleted)
  <2> SUFFICES i > Len(db) /\ Care(i)' /\ ~db'[i].deleted
    BY <1>6
  <2>1. db'[i].deleted = FALSE
    BY ONLY <1>5, <1>6
  <2>2. i > Len(db)
    BY ONLY <1>i, <1>3
  <2> QED
    BY <1>17, <2>1, <2>2
<1>20. \A j \in DOMAIN db : db'[j].deleted = db[j].deleted
  BY <1>6
<1> HIDE DEF Inv
<1> QED
  BY <1>1, <1>6, <1>7, <1>8, <1>9, <1>10, <1>11, <1>13, <1>14, <1>15, <1>16, <1>18, <1>19, <1>20,
     EntriesStep

\* The item is moved under the rebuilt chain; it may be revived while removed.
LEMMA ReparentStep ==
    ASSUME Inv, Reparent
    PROVE  Inv'
<1> USE DEF Inv
<1>1. /\ pc = "rebuild" /\ pc' = "drop" /\ fuse' = fuse /\ todo' = todo
      /\ answer' = answer /\ chain' = chain /\ under' = under /\ rows' = rows
      /\ recent' = recent /\ cur' = cur /\ item' = Moved
      /\ server' = server /\ feed' = feed /\ removed' = removed /\ cut' = cut
      /\ lost' = lost \union {i \in DOMAIN db : db[i].id = item.id /\ Removing(i)}
      /\ db' = [i \in DOMAIN db |-> IF db[i].id # item.id THEN db[i]
                    ELSE [db[i] EXCEPT !.pino = under, !.pid = Moved.pid, !.deleted = FALSE]]
  BY DEF Reparent
<1>2. /\ cur \in DOMAIN rows /\ rows[cur].type = "local" /\ rows[cur].status \in Open
      /\ rows[cur].id = item.id /\ rows[cur].op = item.op /\ item.type = "local"
      /\ item.op = "create" /\ ToCreate(item) /\ under \in DOMAIN db
      /\ item.id \in Ref \ {1}
      /\ \A s \in todo : rows[s].type = "remote"
      /\ 1 \notin {chain[k] : k \in DOMAIN chain}
  BY <1>1 DEF CycleSound, Rebuilding, Renamed
<1>p. PICK parent \in Entry : parent = db[under]
  BY <1>2, Members
<1>3. PICK x \in Row : x = item
  BY DEF TypeOK
<1>4. PICK y \in Row : /\ y = Moved /\ y.id = item.id /\ y.pid = db[under].id /\ y.type = "local"
                       /\ y.op = "create" /\ y.status = "new"
  <2> DEFINE y == [x EXCEPT !.pid = parent.id, !.dir = parent.path, !.status = "new"]
  <2>1. parent.id \in Int /\ parent.path \in Seq(Name)
    BY DEF Entry
  <2> HIDE DEF Name
  <2>2. y \in Row /\ y.id = x.id /\ y.pid = parent.id /\ y.type = x.type /\ y.op = x.op /\ y.status = "new"
    BY <2>1 DEF Row
  <2>3. Moved = y
    BY <1>3, <1>p DEF Moved
  <2> QED
    BY <1>2, <1>3, <1>p, <2>2, <2>3
<1>u. under \in 0..Len(db) /\ under \in Nat /\ db[under].id \in Int /\ db[under].id \in Ref
  BY <1>2, IdsAreRefs, Members
<1>5. ASSUME NEW i \in DOMAIN db
      PROVE  /\ db'[i] \in Entry /\ db'[i].id = db[i].id /\ db'[i].path = db[i].path
             /\ db'[i].pid \in {db[i].pid, db[under].id} /\ db'[i].pino \in {db[i].pino, under}
             /\ IF db[i].id = item.id THEN ~db'[i].deleted ELSE db'[i] = db[i]
  <2>1. PICK z \in Entry : z = db[i]
    BY Members
  <2> DEFINE w == [z EXCEPT !.pino = under, !.pid = y.pid, !.deleted = FALSE]
  <2>2. /\ w \in Entry /\ w.id = z.id /\ w.path = z.path /\ w.pid = y.pid /\ w.pino = under
        /\ w.deleted = FALSE
    BY <1>4, <1>u DEF Entry
  <2>3. db'[i] = IF z.id # item.id THEN z ELSE w
    BY <1>1, <1>4, <2>1
  <2> HIDE DEF w
  <2> QED
    BY <1>4, <2>1, <2>2, <2>3
<1>6. DOMAIN db' = DOMAIN db /\ db' \in Seq(Entry) /\ Len(db') = Len(db) /\ IdsKept
  <2>1. DOMAIN db = 1..Len(db) /\ Len(db) \in Nat /\ DOMAIN db' = DOMAIN db
    BY <1>1, Members
  <2>2. db' \in [1..Len(db) -> Entry]
    BY <1>1, <1>5, <2>1
  <2> QED
    BY <1>5, <2>1, <2>2 DEF IdsKept
<1>7. TypeOK'
  <2>1. removed' \union lost' \subseteq DOMAIN db' /\ under' \in 0..Len(db') /\ item' \in Row
    BY <1>1, <1>4, <1>6 DEF TypeOK
  <2>2. \A i \in DOMAIN db' : db'[i].pino \in 0..Len(db')
    BY <1>5, <1>6, <1>u DEF TypeOK
  <2>3. chain' \in Seq(DOMAIN db')
    BY <1>1, <1>6 DEF TypeOK
  <2> QED
    BY <1>1, <1>6, <2>1, <2>2, <2>3 DEF TypeOK
<1>8. ServerGrows /\ DOMAIN server' \ DOMAIN server = {} /\ DOMAIN db' \ DOMAIN db = {}
  BY <1>1, <1>6 DEF ServerGrows
<1>9. Identity'
  BY <1>6, <1>7, <1>8, IdentityKept
<1>10. lost \subseteq lost'
  BY <1>1
<1>11. Made'
  BY <1>1, <1>6, <1>7, <1>8, <1>10, MadeKept
<1>12. Root'
  <2>1. 1 \in DOMAIN db /\ db[1].id # item.id
    BY <1>2, Members DEF Root
  <2>2. db'[1].id = 1 /\ db'[1].pino = 0 /\ ~db'[1].deleted
    BY <1>5, <2>1 DEF Root
  <2> QED
    BY <1>5, <1>6, <1>7, <1>8, <2>2, RootKept
<1>13. Ref \subseteq Ref'
  BY <1>6, <1>7, <1>8, RefKept
<1>14. RowsGo
  BY <1>1, SameRows
<1>15. CycleSound'
  <2>1. ToCreate(item)'
    <3>0. item'.id = item.id /\ Named(item.id)
      BY <1>1, <1>2, <1>4 DEF ToCreate
    <3>1. Named(item.id)'
      BY <1>1, <1>6, <3>0 DEF Known, IdsKept, Named
    <3> QED
      BY <1>1, <1>2, <1>4, <3>1 DEF ToCreate
  <2>2. Known(item.pid)'
    BY <1>1, <1>2, <1>4, <1>6 DEF Known, IdsKept
  <2> QED
    BY <1>1, <1>2, <1>4, <1>6, <1>13, <1>u, <2>1, <2>2
       DEF CycleSound, Remotely, Rebuilding, Creating, Open, Replacements, Renamed
<1>16. ASSUME NEW i \in DOMAIN db, db[i].id = -i, Unreferred(i) PROVE Unreferred(i)'
  <2>1. db[under].id # -i
    BY <1>2, <1>16 DEF Unreferred, Identity
  <2>2. \A j \in DOMAIN db' : db'[j].pid # -i
    BY <1>5, <1>6, <1>16, <2>1 DEF Unreferred
  <2> QED
    BY <1>1, <1>4, <1>16, <2>1, <2>2 DEF Unreferred
<1>17. ASSUME NEW i \in DOMAIN db, db[i].id < 0,
              Making(i) \/ i \in Unstored \/ \E r \in DOMAIN rows : Waits(r, i)
       PROVE  Care(i)'
  <2>1. db'[i].id = db[i].id /\ ~Making(i)
    BY <1>1, <1>5 DEF Making
  <2> QED
    BY <1>1, <1>17, <2>1 DEF Care, Unstored, Waits
<1>18. ASSUME NEW i \in DOMAIN db, db[i].id < 0, db[i].deleted
       PROVE  db'[i].deleted \/ i \in lost' \/ (~Removing(i) /\ Care(i)')
  <2>1. CASE db[i].id = item.id
    <3>1. Waits(cur, i)'
      BY <1>1, <1>2, <1>5, <2>1 DEF Waits
    <3>2. Care(i)'
      BY <1>1, <1>2, <3>1 DEF Care
    <3> QED
      BY <1>1, <2>1, <3>2
  <2>2. CASE db[i].id # item.id
    BY <1>5, <1>18, <2>2
  <2> QED
    BY <2>1, <2>2
<1>19. ASSUME NEW i \in DOMAIN db, ~db[i].deleted PROVE ~db'[i].deleted
  BY <1>5, <1>19
<1>20. \A i \in DOMAIN db' :
              (i \in DOMAIN db /\ db'[i].pid = db[i].pid) \/ db'[i].pid \in Ref'
  BY <1>5, <1>6, <1>13, <1>u
<1> HIDE DEF Inv
<1> QED
  BY <1>1, <1>6, <1>7, <1>8, <1>9, <1>10, <1>11, <1>12, <1>14, <1>15, <1>16, <1>17, <1>18, <1>19,
     <1>20, EntriesStep

\* OneDrive creates the item, with an id nothing here has.
LEMMA SendStep ==
    ASSUME Inv, Send
    PROVE  Inv'
<1> USE DEF Inv
<1>1. /\ pc = "begun" /\ pc' = "created" /\ fuse' = fuse /\ todo' = todo /\ item.op = "create"
      /\ answer' = Len(server) + 1 /\ chain' = chain /\ under' = under /\ rows' = rows
      /\ recent' = recent /\ cur' = cur /\ item' = item /\ db' = db
      /\ feed' = feed /\ removed' = removed /\ cut' = cut /\ lost' = lost /\ Granted
      /\ Known(item.id)
  BY DEF Send, Panics, history
<1>2. /\ cur \in DOMAIN rows /\ rows[cur].type = "local" /\ rows[cur].status \notin {"done", "gone"}
      /\ rows[cur].id = item.id /\ rows[cur].op = item.op /\ item.type = "local"
      /\ ToCreate(item)
      /\ item.id \in Ref \ {1} /\ item.pid \in Ref
      /\ \A s \in todo : rows[s].type = "remote"
      /\ 1 \notin {chain[k] : k \in DOMAIN chain}
  BY <1>1 DEF CycleSound, Renamed
<1>i. PICK i \in DOMAIN db : i = Inode(item.id)
  BY <1>1, KnownInode
<1>3. PICK n \in DOMAIN server :
         server' = Append(server, [path |-> Append(server[n].path,
                                      <<item.name[1], FreeName(server[n].path, item.name)>>),
                                   parent |-> n, folder |-> item.folder, live |-> TRUE, by |-> i])
  <2>1. PICK n \in IF item.folder THEN At(item.dir) ELSE {item.pid} :
         server' = Append(server, [path |-> Append(server[n].path,
                                      <<item.name[1], FreeName(server[n].path, item.name)>>),
                                   parent |-> n, folder |-> item.folder, live |-> TRUE, by |-> i])
    BY <1>i DEF Send
  <2>2. n \in DOMAIN server
    BY <1>1, <2>1 DEF Granted, At
  <2> QED
    BY <2>1, <2>2
<1>4. PICK x \in Item : /\ server' = Append(server, x) /\ x.path # << >> /\ x.parent = n /\ x.live
                        /\ x.by = i
  <2>1. server[n].path \in Seq(Name) /\ item.name \in Name /\ item.folder \in BOOLEAN
    BY Members DEF Item, TypeOK, Row
  <2>2. FreeName(server[n].path, item.name) \in Nat
    BY <2>1, FreeNameType
  <2> DEFINE name == <<item.name[1], FreeName(server[n].path, item.name)>>
             x == [path |-> Append(server[n].path, name), parent |-> n, folder |-> item.folder,
                   live |-> TRUE, by |-> i]
  <2>3. name \in Name
    BY <2>1, <2>2 DEF Name
  <2>4. n \in Nat /\ i \in Nat
    BY Members
  <2>5. server' = Append(server, x)
    BY <1>3
  <2> HIDE DEF name, Name
  <2>6. Append(server[n].path, name) \in Seq(Name) /\ Append(server[n].path, name) # << >>
    BY <2>1, <2>3, AppendProperties
  <2>7. x \in Item
    BY <2>1, <2>4, <2>6 DEF Item
  <2> QED
    BY <2>5, <2>6, <2>7
<1>5. /\ server' \in Seq(Item) /\ DOMAIN server' = 1..Len(server) + 1
      /\ Len(server') = Len(server) + 1
      /\ ServerGrows /\ \A m \in DOMAIN server : server'[m] = server[m]
      /\ DOMAIN server' \ DOMAIN server = {Len(server) + 1}
      /\ server'[Len(server) + 1] = x /\ Len(server) + 1 \in DOMAIN server'
      /\ feed \in Seq([op : {"create", "delete"}, id : DOMAIN server'])
  BY <1>4, ServerEffect
<1>6. Len(server) \in Nat /\ DOMAIN server = 1..Len(server) /\ Len(server) >= 3
  BY Members DEF Root
<1>7. TypeOK'
  <2>1. answer' \in 0..Len(server')
    BY <1>1, <1>5, <1>6
  <2> QED
    BY <1>1, <1>5, <2>1 DEF TypeOK
<1>8. IdsKept /\ DOMAIN db' \ DOMAIN db = {} /\ DOMAIN db \subseteq DOMAIN db'
  BY <1>1 DEF IdsKept
<1>9. Identity'
  BY <1>5, <1>7, <1>8, IdentityKept
<1>10. Made'
  <2>1. ASSUME NEW m \in DOMAIN server' \ DOMAIN server
        PROVE  /\ server'[m].by \in {0} \union DOMAIN db' /\ server'[m].live
               /\ server'[m].parent \in DOMAIN server
    <3>1. server'[m] = x
      BY <1>5, <2>1
    <3> QED
      BY <1>1, <1>4, <3>1
  <2>2. \A m \in DOMAIN server : server[m].live => server'[m].live
    BY <1>5
  <2> QED
    BY <1>1, <1>5, <1>7, <1>8, <2>1, <2>2, MadeKept
<1>11. Root'
  <2>1. \A m \in DOMAIN server' \ DOMAIN server : server'[m].path # << >>
    BY <1>4, <1>5
  <2>2. db'[1].id = 1 /\ db'[1].pino = 0 /\ ~db'[1].deleted
    BY <1>1 DEF Root
  <2>3. \A j \in DOMAIN db' : j \in DOMAIN db /\ db'[j].path = db[j].path
    BY <1>1
  <2> QED
    BY <1>5, <1>7, <1>8, <2>1, <2>2, <2>3, RootKept
<1>12. Ref \subseteq Ref'
  BY <1>5, <1>7, <1>8, RefKept
<1>13. RowsGo
  BY <1>1, SameRows
<1>14. CycleSound'
  <2>1. \A id : (Known(id)' <=> Known(id)) /\ Inode(id)' = Inode(id)
    BY <1>1 DEF Known, Inode
  <2>2. ToCreate(item)'
    <3>1. item.id > 0 => server'[item.id].by # 0 /\ item.id \in DOMAIN server'
      BY <1>2, <1>5 DEF ToCreate, ServerGrows
    <3>2. Known(item.id)'
      BY <1>1, <2>1
    <3> QED
      BY <1>1, <3>1, <3>2 DEF ToCreate, Named
  <2>8. Known(item.id)'
    BY <1>1, <2>1
  <2>3. \A j \in DOMAIN db : db[j].id # Len(server) + 1
    BY <1>6, Members DEF Identity
  <2>4. ~Known(answer)'
    BY <1>1, <2>3 DEF Known
  <2>5. answer' \in DOMAIN server' /\ answer' # 1 /\ server'[answer'].by = Inode(item.id)'
    BY <1>1, <1>i, <1>4, <1>5, <1>6, <2>1
  <2>6. Inode(item.id)' = Inode(item.id)
    BY <1>1, <2>1
  <2>7. /\ item'.id \in Ref' \ {1} /\ item'.pid \in Ref' /\ cur' \in DOMAIN rows'
        /\ \A s \in todo' : rows'[s].type = "remote"
        /\ 1 \notin {chain'[k] : k \in DOMAIN chain'}
        /\ rows'[cur'].type = "local" /\ rows'[cur'].status \notin {"done", "gone"}
        /\ rows'[cur'].id = item'.id /\ rows'[cur'].op = item'.op /\ item'.type = "local"
        /\ item'.op = "create" /\ pc' = "created"
    BY <1>1, <1>2, <1>12
  <2> QED
    BY <2>2, <2>4, <2>5, <2>6, <2>7, <2>8
       DEF CycleSound, Remotely, Rebuilding, Creating, Replacements, Renamed
<1>15. ASSUME NEW j \in DOMAIN db, Unreferred(j) PROVE Unreferred(j)'
  BY <1>1, <1>15 DEF Unreferred
<1>16. ASSUME NEW j \in DOMAIN db, db[j].id < 0,
              Making(j) \/ j \in Unstored \/ \E r \in DOMAIN rows : Waits(r, j)
       PROVE  Care(j)'
  <2>1. ~Making(j)
    BY <1>1 DEF Making
  <2> QED
    BY <1>1, <1>16, <2>1 DEF Care, Unstored, Waits
<1> HIDE DEF Inv
<1> QED
  BY <1>1, <1>5, <1>7, <1>8, <1>9, <1>10, <1>11, <1>13, <1>14, <1>15, <1>16, EntriesStep

\* A folder is deleted with all in it, and the entry of the row is stored back.
LEMMA DeleteOnServerStep ==
    ASSUME Inv, DeleteOnServer
    PROVE  Inv'
<1> USE DEF Inv
<1>1. /\ pc = "begun" /\ pc' = "closing" /\ fuse' = fuse /\ todo' = todo /\ item.op = "delete"
      /\ answer' = answer /\ chain' = chain /\ under' = under /\ rows' = rows
      /\ recent' = recent /\ cur' = cur /\ item' = item
      /\ cut' = cut /\ Known(item.id)
  BY DEF DeleteOnServer, Granted
<1>2. /\ cur \in DOMAIN rows /\ rows[cur].type = "local" /\ rows[cur].status \notin {"done", "gone"}
      /\ rows[cur].id = item.id /\ rows[cur].op = item.op /\ item.type = "local"
      /\ item.id \in Ref \ {1} /\ item.pid \in Ref
      /\ \A s \in todo : rows[s].type = "remote"
      /\ 1 \notin {chain[k] : k \in DOMAIN chain}
  BY <1>1 DEF CycleSound, Renamed
<1>i. PICK i \in DOMAIN db : i = Inode(item.id) /\ db[i].id = item.id
  BY <1>1, KnownInode
<1>3. i # 1 /\ 1 \in DOMAIN db
  BY <1>2, <1>i, Members DEF Root
<1>n. PICK n \in At(db[i].path) :
        /\ Deleted(n) /\ removed' = removed \union MadeIn(n)
        /\ lost' = lost \union (IF item.id < 0 THEN {i} ELSE {})
  BY <1>i DEF DeleteOnServer
<1>4. n \in DOMAIN server /\ n # 1
  BY <1>3, <1>n DEF At, Root
<1>5. /\ server' \in Seq(Item) /\ DOMAIN server' = DOMAIN server /\ ServerGrows
      /\ \A m \in DOMAIN server :
            server[m].live => server'[m].live \/ server[m].by \in MadeIn(n) \union {0}
      /\ feed' \in Seq([op : {"create", "delete"}, id : DOMAIN server'])
      /\ \A k \in DOMAIN feed' :
            \/ k \in DOMAIN feed /\ feed'[k] = feed[k]
            \/ feed'[k].id # 1 /\ feed'[k].op = "delete"
  BY <1>4, <1>n, DeletedEffect
<1>6. MadeIn(n) \subseteq DOMAIN db /\ lost' \subseteq DOMAIN db /\ lost \subseteq lost'
      /\ removed' \subseteq DOMAIN db /\ removed \subseteq removed'
      /\ MadeIn(n) \subseteq removed' /\ (item.id < 0 => i \in lost')
  BY <1>n, MadeInType DEF TypeOK
<1>7. PICK e \in Entry : /\ db' = [db EXCEPT ![i] = e] /\ e.id = db[i].id /\ e.path = db[i].path
                         /\ e.pid = item.pid /\ e.deleted = FALSE /\ e.pino \in 0..Len(db)
  <2>1. PICK x \in Entry : x = db[i]
    BY Members
  <2> DEFINE pino == IF Known(item.pid) THEN Inode(item.pid) ELSE 0
  <2>2. pino \in 0..Len(db) /\ pino \in Nat
    <3>1. Known(item.pid) => Inode(item.pid) \in DOMAIN db
      BY KnownInode
    <3> QED
      BY <3>1, Members
  <2>3. item.pid \in Int
    BY DEF TypeOK, Row
  <2> DEFINE e == [x EXCEPT !.pid = item.pid, !.deleted = FALSE, !.pino = pino]
  <2>4. db' = [db EXCEPT ![i] = e]
    BY <1>i, <2>1 DEF DeleteOnServer
  <2> HIDE DEF pino
  <2>5. /\ e \in Entry /\ e.id = x.id /\ e.path = x.path /\ e.pid = item.pid /\ e.deleted = FALSE
        /\ e.pino = pino
    BY <2>2, <2>3 DEF Entry
  <2> QED
    BY <2>1, <2>2, <2>4, <2>5
<1>8. /\ DOMAIN db' = DOMAIN db /\ db'[i] = e /\ \A j \in DOMAIN db : j # i => db'[j] = db[j]
      /\ db' \in Seq(Entry) /\ Len(db') = Len(db)
  <2>1. DOMAIN db = 1..Len(db) /\ Len(db) \in Nat /\ \A j \in DOMAIN db : db[j] \in Entry
    BY Members
  <2>2. DOMAIN db' = DOMAIN db /\ db'[i] = e /\ \A j \in DOMAIN db : j # i => db'[j] = db[j]
    BY <1>7
  <2>3. db' \in [1..Len(db) -> Entry]
    BY <1>7, <2>1, <2>2
  <2> QED
    BY <2>1, <2>2, <2>3
<1>9. IdsKept
  BY <1>7, <1>8 DEF IdsKept
<1>10. TypeOK'
  <2>1. answer' \in 0..Len(server')
    <3>1. DOMAIN server = 1..Len(server) /\ Len(server) \in Nat /\ answer \in 0..Len(server)
      BY DEF TypeOK
    <3>2. DOMAIN server' = 1..Len(server') /\ Len(server') \in Nat
      BY <1>5
    <3>3. answer # 0 => answer \in DOMAIN server'
      BY <1>5, <3>1
    <3> QED
      BY <1>1, <3>1, <3>2, <3>3
  <2>2. \A j \in DOMAIN db' : db'[j].pino \in 0..Len(db')
    <3>1. \A j \in DOMAIN db : db[j].pino \in 0..Len(db)
      BY DEF TypeOK
    <3> QED
      BY <1>7, <1>8, <3>1
  <2>3. removed' \union lost' \subseteq DOMAIN db' /\ chain' \in Seq(DOMAIN db') /\ under' \in 0..Len(db')
    BY <1>1, <1>6, <1>8 DEF TypeOK
  <2>4. pc' \in {"closing"}
    BY <1>1
  <2> QED
    BY <1>1, <1>5, <1>8, <2>1, <2>2, <2>3, <2>4 DEF TypeOK
<1>11. DOMAIN db' \ DOMAIN db = {} /\ DOMAIN server' \ DOMAIN server = {} /\ DOMAIN db \subseteq DOMAIN db'
  BY <1>5, <1>8
<1>12. Identity'
  BY <1>5, <1>9, <1>10, <1>11, IdentityKept
<1>13. Made'
  <2>1. \A m \in DOMAIN server : server[m].live => server'[m].live \/ server[m].by \in removed' \union {0}
    BY <1>5, <1>6
  <2> QED
    BY <1>5, <1>6, <1>10, <1>11, <2>1, MadeKept
<1>14. Root'
  <2>1. db'[1].id = 1 /\ db'[1].pino = 0 /\ ~db'[1].deleted
    BY <1>3, <1>8 DEF Root
  <2>2. \A j \in DOMAIN db' : j \in DOMAIN db /\ db'[j].path = db[j].path
    BY <1>7, <1>8
  <2> QED
    BY <1>5, <1>10, <1>11, <2>1, <2>2, RootKept
<1>15. Ref \subseteq Ref'
  BY <1>5, <1>10, <1>11, RefKept
<1>16. RowsGo
  BY <1>1, SameRows
<1>17. CycleSound'
  BY <1>1, <1>2, <1>15 DEF CycleSound, Remotely, Rebuilding, Creating, Replacements, Renamed
<1>18. ASSUME NEW j \in DOMAIN db, Unreferred(j) PROVE Unreferred(j)'
  <2>1. \A k \in DOMAIN db' : db'[k].pid # -j
    BY <1>7, <1>8, <1>18 DEF Unreferred
  <2> QED
    BY <1>1, <1>18, <2>1 DEF Unreferred
<1>19. ASSUME NEW j \in DOMAIN db, db[j].id < 0,
              Making(j) \/ j \in Unstored \/ \E r \in DOMAIN rows : Waits(r, j)
       PROVE  Care(j)'
  <2>1. ~Making(j) /\ db'[j].id = db[j].id
    BY <1>1, <1>9 DEF Making, IdsKept
  <2> QED
    BY <1>1, <1>19, <2>1 DEF Care, Unstored, Waits
<1>20. ASSUME NEW j \in DOMAIN db, db[j].id < 0
       PROVE  IF db[j].deleted THEN db'[j].deleted \/ j \in lost' ELSE ~db'[j].deleted
  <2>1. CASE j = i
    BY <1>i, <1>6, <1>7, <1>8, <1>20, <2>1
  <2>2. CASE j # i
    BY <1>8, <2>2
  <2> QED
    BY <2>1, <2>2
<1>21. \A j \in DOMAIN db' :
              (j \in DOMAIN db /\ db'[j].pid = db[j].pid) \/ db'[j].pid \in Ref'
  BY <1>2, <1>7, <1>8, <1>15
<1> HIDE DEF Inv
<1> QED
  BY <1>1, <1>5, <1>6, <1>9, <1>10, <1>11, <1>12, <1>13, <1>14, <1>16, <1>17, <1>18, <1>19, <1>20,
     <1>21, EntriesStep

\* What the statements that replace an id leave as it was: only what had the one id
\* gets the other.
LEMMA ReplaceStep ==
    ASSUME Inv, TypeOK', Identity', CycleSound',
           pc \in Creating, answer \in DOMAIN server, answer # 1,
           server' = server, feed' = feed, fuse' = fuse, under' = under, chain' = chain,
           cur' = cur, removed' = removed, lost' = lost,
           pc' \in Creating,
           DOMAIN db' = DOMAIN db,
           \A j \in DOMAIN db :
              /\ db'[j].id = db[j].id \/ (db[j].id = item.id /\ db'[j].id = answer)
              /\ db'[j].pid = db[j].pid \/ db'[j].pid = answer
              /\ db'[j].pino = db[j].pino /\ db'[j].deleted = db[j].deleted
              /\ db'[j].path = db[j].path,
           DOMAIN rows' = DOMAIN rows,
           \A r \in DOMAIN rows :
              /\ rows'[r].id = rows[r].id \/ (rows[r].id = item.id /\ rows'[r].id = answer)
              /\ rows'[r].pid = rows[r].pid \/ rows'[r].pid = answer
              /\ rows'[r].type = rows[r].type /\ rows'[r].op = rows[r].op
              /\ rows'[r].status = rows[r].status,
           item'.id \in {item.id, answer}, item'.pid = item.pid,
           \A r \in DOMAIN rows, j \in DOMAIN db :
              rows[r].id = db[j].id /\ db'[j].id < 0 => rows'[r].id = db'[j].id,
           \A r \in DOMAIN rows :
              rows[r].type = "local" /\ rows[r].op = "create" /\ rows[r].status # "gone" =>
                 (ToCreate(rows[r]) => ToCreate(rows[r])') /\ Named(rows[r].pid)'
    PROVE  Inv'
<1> USE DEF Inv
<1>1. answer \in Nat \ {0} /\ answer \in Ref \ {1} /\ item.id \in Int /\ item.id \in Ref \ {1}
  <2>1. item.id \in Int /\ item.id \in Ref \ {1}
    BY DEF CycleSound, TypeOK, Row
  <2>2. answer \in 0..Len(server) /\ answer \in Nat \ {0}
    BY Members
  <2> QED
    BY <2>1, <2>2 DEF Ref
<1>2. DOMAIN db = 1..Len(db) /\ Len(db) \in Nat /\ Len(db') = Len(db) /\ Len(rows') = Len(rows)
  <2>1. DOMAIN db' = 1..Len(db') /\ Len(db') \in Nat /\ DOMAIN rows' = 1..Len(rows') /\ Len(rows') \in Nat
    BY DEF TypeOK
  <2>2. DOMAIN db = 1..Len(db) /\ Len(db) \in Nat /\ DOMAIN rows = 1..Len(rows) /\ Len(rows) \in Nat
    BY Members
  <2>3. ASSUME NEW a \in Nat, NEW b \in Nat, 1..a = 1..b PROVE a = b
    <3>1. a # 0 => a \in 1..a
      OBVIOUS
    <3>2. b # 0 => b \in 1..b
      OBVIOUS
    <3> QED
      BY <2>3, <3>1, <3>2
  <2> QED
    BY <2>1, <2>2, <2>3
<1>3. Ref' = Ref
  BY DEF Ref
<1>4. ASSUME NEW j \in DOMAIN db, db'[j].id < 0
      PROVE  db[j].id < 0 /\ db'[j].id = db[j].id
  BY <1>1, <1>4
<1>5. Made'
  BY <1>2 DEF Made, Live
<1>6. Root'
  <2>1. 1 \in DOMAIN db /\ db[1].id = 1 /\ item.id # 1
    BY <1>1, <1>2 DEF Root
  <2>2. db'[1].id = 1
    BY <2>1
  <2> QED
    BY <1>2, <2>1, <2>2 DEF Root
<1>7. RowsSound'
  <2>1. ASSUME NEW r \in DOMAIN rows PROVE RowSound(rows[r])'
    <3>1. RowSound(rows[r])
      BY DEF RowsSound
    <3>2. rows'[r].id \in Ref' \ {1} /\ rows'[r].pid \in Ref'
      BY <1>1, <1>3, <3>1 DEF RowSound
    <3>3. rows'[r].type = "remote" => FromDelta(rows[r])'
      <4>1. HAVE rows'[r].type = "remote"
      <4>2. FromDelta(rows[r])
        BY <3>1, <4>1 DEF RowSound
      <4>3. rows'[r].id \in DOMAIN server' /\ rows'[r].pid \in DOMAIN server'
        BY <4>2 DEF FromDelta
      <4>4. rows[r].op = "create" => rows[r].id # item.id
        <5>1. ToCreate(item) /\ \A n \in DOMAIN server : n > 0
          BY Members DEF CycleSound
        <5> QED
          BY <4>2, <5>1 DEF FromDelta, ToCreate
      <4> QED
        BY <4>2, <4>3, <4>4 DEF FromDelta
    <3>4. rows'[r].type = "local" /\ rows'[r].op = "create" /\ rows'[r].status # "gone"
          => ToCreate(rows[r])'
      BY <3>1 DEF RowSound
    <3> QED
      BY <3>2, <3>3, <3>4 DEF RowSound
  <2>2. \A j \in DOMAIN db : db'[j].pid \in Ref'
    BY <1>1, <1>3 DEF RowsSound
  <2> QED
    BY <2>1, <2>2 DEF RowsSound
<1>8. Parents'
  BY DEF Parents, HasParent
<1>9. FuseSound'
  <2>1. fuse.pc # "idle" =>
          /\ fuse'.ino \in DOMAIN db' /\ fuse'.row.pid \in Ref'
          /\ fuse'.row.type = "local" /\ fuse'.row.status = "new"
    BY <1>3 DEF FuseSound
  <2>2. ASSUME fuse.pc = "row", fuse.row.op = "create"
        PROVE  /\ fuse'.row.id = -fuse'.ino /\ db'[fuse'.ino].id = -fuse'.ino
               /\ Unreferred(fuse.ino)'
    <3>1. /\ fuse.ino \in DOMAIN db /\ fuse.row.id = -fuse.ino /\ db[fuse.ino].id = -fuse.ino
          /\ Unreferred(fuse.ino)
      BY <2>2 DEF FuseSound
    <3>2. item.id # -fuse.ino /\ answer # -fuse.ino
      <4>1. fuse.ino \in Nat
        BY <1>2, <3>1
      <4> QED
        BY <1>1, <3>1, <4>1 DEF Unreferred
    <3>3. db'[fuse.ino].id = -fuse.ino
      BY <3>1, <3>2
    <3>4. \A r \in DOMAIN rows' : rows'[r].id # -fuse.ino /\ rows'[r].pid # -fuse.ino
      BY <3>1, <3>2 DEF Unreferred
    <3>5. \A j \in DOMAIN db' : db'[j].pid # -fuse.ino
      BY <3>1, <3>2 DEF Unreferred
    <3>6. item'.id # -fuse.ino /\ item'.pid # -fuse.ino
      BY <3>1, <3>2 DEF Unreferred
    <3>7. Unreferred(fuse.ino)'
      BY <3>1, <3>4, <3>5, <3>6 DEF Unreferred
    <3> QED
      BY <3>1, <3>3, <3>7
  <2>3. ASSUME fuse.pc = "row", fuse.row.op # "create"
        PROVE  /\ fuse'.row.id < 0 => fuse'.row.id = -fuse'.ino
               /\ db'[fuse'.ino].id < 0 => db'[fuse'.ino].deleted \/ fuse'.ino \in lost'
    <3>1. /\ fuse.ino \in DOMAIN db
          /\ fuse.row.id < 0 => fuse.row.id = -fuse.ino
          /\ db[fuse.ino].id < 0 => db[fuse.ino].deleted \/ fuse.ino \in lost
      BY <2>3 DEF FuseSound
    <3> QED
      BY <1>4, <3>1
  <2>4. fuse.pc = "row" => fuse'.ino # 1 /\ fuse'.row.id \in Ref' \ {1}
    BY <1>3 DEF FuseSound
  <2>5. /\ fuse' \in [pc : {"idle", "insert", "row"}, ino : Nat, row : Row]
        /\ fuse'.pc = "insert" => fuse'.row.op = "create"
    BY DEF FuseSound
  <2> QED
    BY <2>1, <2>2, <2>3, <2>4, <2>5 DEF FuseSound
<1>10. Cared'
  <2>1. ASSUME NEW j \in DOMAIN db, db'[j].id < 0 PROVE Care(j)'
    <3>1. Care(j)
      BY <1>4, <2>1 DEF Cared
    <3>2. ~Making(j)
      BY DEF Making, Creating, Replacements
    <3>3. ASSUME NEW r \in DOMAIN rows, Waits(r, j) PROVE Waits(r, j)'
      <4>1. rows[r].id = db[j].id
        BY <3>3 DEF Waits
      <4>2. rows'[r].id = db'[j].id
        BY <2>1, <4>1
      <4> QED
        BY <3>3, <4>2 DEF Waits
    <3>4. Unstored' = Unstored
      BY DEF Unstored
    <3> QED
      BY <3>1, <3>2, <3>3, <3>4 DEF Care
  <2>2. \A j \in DOMAIN db : db'[j].id < 0 /\ db'[j].deleted => j \in removed'
    BY <1>4 DEF Cared
  <2>3. ASSUME NEW r \in DOMAIN rows, NEW j \in DOMAIN db,
               rows'[r].type = "local", rows'[r].op = "delete",
               rows'[r].status \notin {"done", "gone"}, rows'[r].id = db'[j].id, db'[j].id < 0
        PROVE  db'[j].deleted \/ j \in lost'
    <3>1. rows[r].id = db[j].id /\ db[j].id < 0
      BY <1>1, <1>4, <2>3
    <3> QED
      BY <2>3, <3>1 DEF Cared
  <2> QED
    BY <2>1, <2>2, <2>3 DEF Cared
<1> QED
  BY <1>5, <1>6, <1>7, <1>8, <1>9, <1>10

\* The entries of an item get its OneDrive id; what else has the other keeps it, and
\* the id is in `cut`.
LEMMA ReplaceIdStep ==
    ASSUME Inv, ReplaceId
    PROVE  Inv'
<1> USE DEF Inv
<1>1. /\ pc = "created" /\ pc' = "rowid" /\ fuse' = fuse /\ todo' = todo /\ server' = server
      /\ answer' = answer /\ chain' = chain /\ under' = under /\ recent' = recent /\ cur' = cur
      /\ feed' = feed /\ removed' = removed /\ lost' = lost /\ rows' = rows /\ item' = item
      /\ cut' = cut \union {item.id}
      /\ db' = [j \in DOMAIN db |-> [db[j] EXCEPT !.id = IF @ = item.id THEN answer ELSE @]]
  BY DEF ReplaceId
<1>2. /\ cur \in DOMAIN rows /\ rows[cur].type = "local" /\ rows[cur].status \notin {"done", "gone"}
      /\ rows[cur].id = item.id /\ rows[cur].op = item.op /\ item.type = "local"
      /\ ToCreate(item) /\ item.op = "create"
      /\ item.id \in Ref \ {1} /\ item.pid \in Ref
      /\ \A s \in todo : rows[s].type = "remote"
      /\ 1 \notin {chain[k] : k \in DOMAIN chain}
      /\ answer \in DOMAIN server /\ answer # 1 /\ ~Known(answer) /\ Known(item.id)
      /\ server[answer].by = Inode(item.id)
  BY <1>1 DEF CycleSound, Creating, Replacements, Renamed
<1>3. answer \in Nat \ {0} /\ item.id \in Int
  BY <1>2, Members DEF TypeOK, Row
<1>4. PICK i \in DOMAIN db : i = Inode(item.id) /\ db[i].id = item.id
  BY <1>2, KnownInode
<1>5. server[answer].by = i /\ i # 0
  BY <1>2, <1>4, Members
<1>6. DOMAIN db' = DOMAIN db /\ \A j \in DOMAIN db :
         /\ db'[j] \in Entry
         /\ db'[j].id = IF db[j].id = item.id THEN answer ELSE db[j].id
         /\ db'[j].pid = db[j].pid /\ db'[j].pino = db[j].pino
         /\ db'[j].deleted = db[j].deleted /\ db'[j].path = db[j].path
  <2>1. ASSUME NEW j \in DOMAIN db
        PROVE  /\ db'[j] \in Entry
               /\ db'[j].id = IF db[j].id = item.id THEN answer ELSE db[j].id
               /\ db'[j].pid = db[j].pid /\ db'[j].pino = db[j].pino
               /\ db'[j].deleted = db[j].deleted /\ db'[j].path = db[j].path
    <3>1. PICK e \in Entry : e = db[j]
      BY Members
    <3>2. db'[j] = [e EXCEPT !.id = IF @ = item.id THEN answer ELSE @]
      BY <1>1, <3>1
    <3> QED
      BY <1>3, <3>1, <3>2 DEF Entry
  <2>2. DOMAIN db' = DOMAIN db
    BY <1>1
  <2> QED
    BY <2>1, <2>2
<1>7. TypeOK'
  <2>1. DOMAIN db = 1..Len(db) /\ Len(db) \in Nat
    BY Members
  <2>2. db' \in Seq(Entry) /\ Len(db') = Len(db)
    <3>1. db' \in [1..Len(db) -> Entry]
      BY <1>1, <1>6, <2>1
    <3> QED
      BY <2>1, <3>1
  <2>3. \A j \in DOMAIN db' : db'[j].pino \in 0..Len(db')
    BY <1>6, <2>2 DEF TypeOK
  <2>4. cut' \subseteq Int
    BY <1>1, <1>3 DEF TypeOK
  <2> QED
    BY <1>1, <1>6, <2>2, <2>3, <2>4 DEF TypeOK, Replacements
<1>8. /\ \A j \in DOMAIN db : j # i => db[j].id # item.id /\ db'[j].id = db[j].id
      /\ \A j \in DOMAIN db : db[j].id # answer
      /\ db'[i].id = answer /\ answer # item.id
  BY <1>2, <1>4, <1>6 DEF Identity, Known
<1>9. Identity'
  <2>1. \A j \in DOMAIN db' : db'[j].id = -j \/ db'[j].id \in DOMAIN server'
    BY <1>1, <1>2, <1>6, <1>8 DEF Identity
  <2>2. \A j, k \in DOMAIN db' : db'[j].id = db'[k].id => j = k
    BY <1>6, <1>8 DEF Identity
  <2>3. \A j \in DOMAIN db' : db'[j].id > 0 => server'[db'[j].id].by \in {0, j}
    BY <1>1, <1>2, <1>4, <1>5, <1>6, <1>8 DEF Identity
  <2> QED
    BY <2>1, <2>2, <2>3 DEF Identity
<1>10. ASSUME NEW id, Named(id) PROVE Named(id)'
  <2>1. CASE id \in cut \/ id = item.id
    BY <1>1, <2>1 DEF Named
  <2>2. CASE id # item.id /\ Known(id)
    <3>1. PICK j \in DOMAIN db : db[j].id = id
      BY <2>2 DEF Known
    <3>2. j \in DOMAIN db' /\ db'[j].id = id
      BY <1>6, <2>2, <3>1
    <3> QED
      BY <3>2 DEF Named, Known
  <2> QED
    BY <1>10, <2>1, <2>2 DEF Named
<1>11. CycleSound'
  <2>1. Known(answer)'
    BY <1>1, <1>6, <1>8 DEF Known
  <2>2. ToCreate(item)'
    BY <1>1, <1>2, <1>10 DEF ToCreate
  <2>3. ~Known(item.id)'
    BY <1>1, <1>6, <1>8 DEF Known
  <2>4. Ref \subseteq Ref'
    BY <1>1, <1>6 DEF Ref
  <2>5. server'[answer'].by # 0
    BY <1>1, <1>5
  <2> QED
    BY <1>1, <1>2, <2>1, <2>2, <2>3, <2>4, <2>5
       DEF CycleSound, Remotely, Rebuilding, Creating, Replacements, Renamed
<1>12. ASSUME NEW r \in DOMAIN rows,
              rows[r].type = "local", rows[r].op = "create", rows[r].status # "gone"
       PROVE  (ToCreate(rows[r]) => ToCreate(rows[r])') /\ Named(rows[r].pid)'
  <2>1. Named(rows[r].pid)
    BY <1>12 DEF Parents, HasParent
  <2>2. PICK p : p = rows[r].pid /\ p = rows'[r].pid
    BY <1>1
  <2>3. PICK x : x = rows[r].id /\ x = rows'[r].id
    BY <1>1
  <2>4. Named(p)'
    BY <1>10, <2>1, <2>2
  <2>5. Named(x) => Named(x)'
    BY <1>10
  <2> QED
    BY <1>1, <2>2, <2>3, <2>4, <2>5 DEF ToCreate
<1>13. ASSUME NEW r \in DOMAIN rows, NEW j \in DOMAIN db, rows[r].id = db[j].id, db'[j].id < 0
       PROVE  rows'[r].id = db'[j].id
  BY <1>1, <1>3, <1>6, <1>13
<1>14. pc \in Creating /\ pc' \in Creating
  BY <1>1 DEF Creating, Replacements
<1> HIDE DEF Inv
<1> QED
  BY <1>1, <1>2, <1>6, <1>7, <1>9, <1>11, <1>12, <1>13, <1>14, ReplaceStep

\* Then the rows of the item; nobody waits under the temporary id.
LEMMA ReplaceRowIdStep ==
    ASSUME Inv, ReplaceRowId
    PROVE  Inv'
<1> USE DEF Inv
<1>1. /\ pc = "rowid" /\ pc' = "parents" /\ fuse' = fuse /\ todo' = todo /\ server' = server
      /\ answer' = answer /\ chain' = chain /\ under' = under /\ recent' = recent /\ cur' = cur
      /\ feed' = feed /\ removed' = removed /\ lost' = lost /\ db' = db /\ item' = item
      /\ cut' = cut
  BY DEF ReplaceRowId, history
<1>e. rows' = [r \in DOMAIN rows |-> [rows[r] EXCEPT !.id = IF @ = item.id THEN answer ELSE @]]
  BY DEF ReplaceRowId, history
<1>2. /\ cur \in DOMAIN rows /\ rows[cur].type = "local" /\ rows[cur].status \notin {"done", "gone"}
      /\ rows[cur].id = item.id /\ rows[cur].op = item.op /\ item.type = "local"
      /\ ToCreate(item) /\ item.op = "create"
      /\ item.id \in Ref \ {1} /\ item.pid \in Ref
      /\ \A s \in todo : rows[s].type = "remote"
      /\ 1 \notin {chain[k] : k \in DOMAIN chain}
      /\ answer \in DOMAIN server /\ answer # 1 /\ Known(answer) /\ ~Known(item.id)
      /\ server[answer].by # 0
  BY <1>1 DEF CycleSound, Creating, Replacements, Renamed
<1>3. answer \in Nat \ {0} /\ answer # item.id
  BY <1>2, Members
<1>4. DOMAIN rows' = DOMAIN rows /\ \A r \in DOMAIN rows :
         /\ rows'[r] \in Row
         /\ rows'[r].id = IF rows[r].id = item.id THEN answer ELSE rows[r].id
         /\ rows'[r].pid = rows[r].pid
         /\ rows'[r].type = rows[r].type /\ rows'[r].op = rows[r].op
         /\ rows'[r].status = rows[r].status
  <2>1. ASSUME NEW r \in DOMAIN rows
        PROVE  /\ rows'[r] \in Row
               /\ rows'[r].id = IF rows[r].id = item.id THEN answer ELSE rows[r].id
               /\ rows'[r].pid = rows[r].pid
               /\ rows'[r].type = rows[r].type /\ rows'[r].op = rows[r].op
               /\ rows'[r].status = rows[r].status
    <3>1. PICK row \in Row : row = rows[r]
      BY Members
    <3>2. rows'[r] = [row EXCEPT !.id = IF @ = item.id THEN answer ELSE @]
      BY <1>e, <3>1
    <3> QED
      BY <1>3, <3>1, <3>2 DEF Row
  <2>2. DOMAIN rows' = DOMAIN rows
    BY <1>e
  <2> QED
    BY <2>1, <2>2
<1>5. TypeOK'
  <2>1. DOMAIN rows = 1..Len(rows) /\ Len(rows) \in Nat
    BY Members
  <2>2. rows' \in Seq(Row) /\ Len(rows') = Len(rows)
    <3>1. rows' \in [1..Len(rows) -> Row]
      BY <1>e, <1>4, <2>1
    <3> QED
      BY <2>1, <3>1
  <2> QED
    BY <1>1, <1>4, <2>2 DEF TypeOK, Replacements
<1>6. Identity'
  BY <1>1 DEF Identity
<1>7. \A id : (Known(id)' <=> Known(id)) /\ (Named(id)' <=> Named(id))
  BY <1>1 DEF Known, Named
<1>8. CycleSound'
  <2>1. Known(answer)' /\ ~Known(item.id)' /\ ToCreate(item)'
    BY <1>1, <1>2, <1>7 DEF ToCreate
  <2>2. Ref' = Ref
    BY <1>1 DEF Ref
  <2>3. rows'[cur].id = answer /\ \A s \in todo : rows'[s].type = "remote"
    BY <1>2, <1>4 DEF TypeOK
  <2>4. \A r \in DOMAIN rows' : rows'[r].id # item.id
    BY <1>3, <1>4
  <2>5. /\ item'.id \in Ref' \ {1} /\ item'.pid \in Ref' /\ cur' \in DOMAIN rows'
        /\ \A s \in todo' : rows'[s].type = "remote"
        /\ 1 \notin {chain'[k] : k \in DOMAIN chain'}
        /\ rows'[cur'].type = "local" /\ rows'[cur'].status \notin {"done", "gone"}
        /\ rows'[cur'].id = answer' /\ rows'[cur'].op = item'.op /\ item'.type = "local"
        /\ item'.op = "create" /\ pc' = "parents"
    BY <1>1, <1>2, <1>4, <2>2, <2>3
  <2>6. /\ answer' \in DOMAIN server' /\ answer' # 1 /\ server'[answer'].by # 0
        /\ \A r \in DOMAIN rows' : rows'[r].id # item'.id
    BY <1>1, <1>2, <2>4
  <2> QED
    BY <2>1, <2>5, <2>6
       DEF CycleSound, Remotely, Rebuilding, Creating, Replacements, Renamed
<1>9. ASSUME NEW r \in DOMAIN rows,
             rows[r].type = "local", rows[r].op = "create", rows[r].status # "gone"
      PROVE  (ToCreate(rows[r]) => ToCreate(rows[r])') /\ Named(rows[r].pid)'
  <2>1. PICK p : p = rows[r].pid /\ p = rows'[r].pid
    BY <1>4
  <2>2. Named(p)'
    BY <1>7, <1>9, <2>1 DEF Parents, HasParent
  <2>3. PICK x : x = rows'[r].id /\ x = IF rows[r].id = item.id THEN answer ELSE rows[r].id
    BY <1>4
  <2>4. Named(answer) /\ (Named(rows[r].id) => Named(x))
    BY <1>2, <2>3 DEF Named
  <2>5. Named(x)' <=> Named(x)
    BY <1>7
  <2>6. ToCreate(rows[r]) => ToCreate(rows[r])'
    BY <1>1, <1>2, <2>3, <2>4, <2>5 DEF ToCreate
  <2> QED
    BY <2>1, <2>2, <2>6
<1>10. ASSUME NEW r \in DOMAIN rows, NEW j \in DOMAIN db, rows[r].id = db[j].id
       PROVE  rows'[r].id = db'[j].id
  BY <1>1, <1>2, <1>4, <1>10 DEF Known
<1>11. pc \in Creating /\ pc' \in Creating
  BY <1>1 DEF Creating, Replacements
<1> HIDE DEF Inv
<1> QED
  BY <1>1, <1>2, <1>4, <1>5, <1>6, <1>8, <1>9, <1>10, <1>11, ReplaceStep

\* Then the children's entries; ...
LEMMA ReplaceParentsStep ==
    ASSUME Inv, ReplaceParents
    PROVE  Inv'
<1> USE DEF Inv
<1>1. /\ pc = "parents" /\ pc' = "rowparents" /\ fuse' = fuse /\ todo' = todo /\ server' = server
      /\ answer' = answer /\ chain' = chain /\ under' = under /\ recent' = recent /\ cur' = cur
      /\ feed' = feed /\ removed' = removed /\ lost' = lost /\ rows' = rows /\ item' = item
      /\ cut' = cut
      /\ db' = [j \in DOMAIN db |-> [db[j] EXCEPT !.pid = IF @ = item.id THEN answer ELSE @]]
  BY DEF ReplaceParents, history
<1>2. /\ answer \in DOMAIN server /\ answer # 1 /\ ToCreate(item) /\ server[answer].by # 0
      /\ Known(answer) /\ ~Known(item.id)
  BY <1>1 DEF CycleSound, Creating, Replacements
<1>3. answer \in Nat \ {0}
  BY <1>2, Members
<1>4. DOMAIN db' = DOMAIN db /\ \A j \in DOMAIN db :
         /\ db'[j] \in Entry /\ db'[j].id = db[j].id
         /\ db'[j].pid = db[j].pid \/ db'[j].pid = answer
         /\ db'[j].pino = db[j].pino /\ db'[j].deleted = db[j].deleted /\ db'[j].path = db[j].path
  <2>1. ASSUME NEW j \in DOMAIN db
        PROVE  /\ db'[j] \in Entry /\ db'[j].id = db[j].id
               /\ db'[j].pid = db[j].pid \/ db'[j].pid = answer
               /\ db'[j].pino = db[j].pino /\ db'[j].deleted = db[j].deleted
               /\ db'[j].path = db[j].path
    <3>1. PICK e \in Entry : e = db[j]
      BY Members
    <3>2. db'[j] = [e EXCEPT !.pid = IF @ = item.id THEN answer ELSE @]
      BY <1>1, <3>1
    <3> QED
      BY <1>3, <3>1, <3>2 DEF Entry
  <2>2. DOMAIN db' = DOMAIN db
    BY <1>1
  <2> QED
    BY <2>1, <2>2
<1>5. TypeOK'
  <2>1. DOMAIN db = 1..Len(db) /\ Len(db) \in Nat
    BY Members
  <2>2. db' \in Seq(Entry) /\ Len(db') = Len(db)
    <3>1. db' \in [1..Len(db) -> Entry]
      BY <1>1, <1>4, <2>1
    <3> QED
      BY <2>1, <3>1
  <2>3. \A j \in DOMAIN db' : db'[j].pino \in 0..Len(db')
    BY <1>4, <2>2 DEF TypeOK
  <2> QED
    BY <1>1, <1>4, <2>2, <2>3 DEF TypeOK, Replacements
<1>6. Identity'
  <2>1. \A j \in DOMAIN db' : db'[j].id = -j \/ db'[j].id \in DOMAIN server'
    BY <1>1, <1>4 DEF Identity
  <2>2. \A j, k \in DOMAIN db' : db'[j].id = db'[k].id => j = k
    BY <1>4 DEF Identity
  <2>3. \A j \in DOMAIN db' : db'[j].id > 0 => server'[db'[j].id].by \in {0, j}
    BY <1>1, <1>4 DEF Identity
  <2> QED
    BY <2>1, <2>2, <2>3 DEF Identity
<1>7. \A id : (Known(id)' <=> Known(id)) /\ (Named(id)' <=> Named(id))
  BY <1>1, <1>4 DEF Known, Named
<1>8. CycleSound'
  <2>1. Known(answer)' /\ ~Known(item.id)' /\ ToCreate(item)'
    BY <1>1, <1>2, <1>7 DEF ToCreate
  <2>2. Ref' = Ref
    BY <1>1, <1>4 DEF Ref
  <2> QED
    BY <1>1, <1>2, <2>1, <2>2
       DEF CycleSound, Remotely, Rebuilding, Creating, Replacements, Renamed
<1>9. ASSUME NEW r \in DOMAIN rows,
             rows[r].type = "local", rows[r].op = "create", rows[r].status # "gone"
      PROVE  (ToCreate(rows[r]) => ToCreate(rows[r])') /\ Named(rows[r].pid)'
  <2>1. Named(rows[r].pid)
    BY <1>9 DEF Parents, HasParent
  <2> QED
    BY <1>1, <1>7, <2>1 DEF ToCreate
<1>11. pc \in Creating /\ pc' \in Creating
  BY <1>1 DEF Creating, Replacements
<1> HIDE DEF Inv
<1> QED
  BY <1>1, <1>2, <1>4, <1>5, <1>6, <1>8, <1>9, <1>11, ReplaceStep

\* ... and their rows, with which the id is out of use.
LEMMA ReplaceRowParentsStep ==
    ASSUME Inv, ReplaceRowParents
    PROVE  Inv'
<1> USE DEF Inv
<1>1. /\ pc = "rowparents" /\ pc' = "fetch" /\ fuse' = fuse /\ todo' = todo /\ server' = server
      /\ answer' = answer /\ chain' = chain /\ under' = under /\ recent' = recent /\ cur' = cur
      /\ feed' = feed /\ removed' = removed /\ lost' = lost /\ db' = db
      /\ cut' = cut \ {item.id} /\ item' = [item EXCEPT !.id = answer]
  BY DEF ReplaceRowParents
<1>e. rows' = [r \in DOMAIN rows |-> [rows[r] EXCEPT !.pid = IF @ = item.id THEN answer ELSE @]]
  BY DEF ReplaceRowParents
<1>2. /\ cur \in DOMAIN rows /\ rows[cur].type = "local" /\ rows[cur].status \notin {"done", "gone"}
      /\ rows[cur].id = answer /\ rows[cur].op = item.op /\ item.type = "local"
      /\ ToCreate(item) /\ item.op = "create"
      /\ item.id \in Ref \ {1} /\ item.pid \in Ref
      /\ \A s \in todo : rows[s].type = "remote"
      /\ 1 \notin {chain[k] : k \in DOMAIN chain}
      /\ answer \in DOMAIN server /\ answer # 1 /\ Known(answer) /\ ~Known(item.id)
      /\ server[answer].by # 0
      /\ \A r \in DOMAIN rows :
            rows[r].type = "local" /\ rows[r].op = "create" /\ rows[r].status # "gone" =>
                rows[r].id # item.id
  BY <1>1 DEF CycleSound, Creating, Replacements, Renamed
<1>3. answer \in Nat \ {0} /\ answer \in Ref \ {1} /\ answer \in Int
  BY <1>2, Members DEF Ref
<1>4. DOMAIN rows' = DOMAIN rows /\ \A r \in DOMAIN rows :
         /\ rows'[r] \in Row /\ rows'[r].id = rows[r].id
         /\ rows'[r].pid = IF rows[r].pid = item.id THEN answer ELSE rows[r].pid
         /\ rows'[r].type = rows[r].type /\ rows'[r].op = rows[r].op
         /\ rows'[r].status = rows[r].status
  <2>1. ASSUME NEW r \in DOMAIN rows
        PROVE  /\ rows'[r] \in Row /\ rows'[r].id = rows[r].id
               /\ rows'[r].pid = IF rows[r].pid = item.id THEN answer ELSE rows[r].pid
               /\ rows'[r].type = rows[r].type /\ rows'[r].op = rows[r].op
               /\ rows'[r].status = rows[r].status
    <3>1. PICK row \in Row : row = rows[r]
      BY Members
    <3>2. rows'[r] = [row EXCEPT !.pid = IF @ = item.id THEN answer ELSE @]
      BY <1>e, <3>1
    <3> QED
      BY <1>3, <3>1, <3>2 DEF Row
  <2>2. DOMAIN rows' = DOMAIN rows
    BY <1>e
  <2> QED
    BY <2>1, <2>2
<1>5. item' \in Row /\ item'.id = answer /\ item'.pid = item.pid /\ item'.op = item.op
      /\ item'.type = item.type
  <2>1. PICK row \in Row : row = item
    BY DEF TypeOK
  <2>2. item' = [row EXCEPT !.id = answer]
    BY <1>1, <2>1
  <2> QED
    BY <1>3, <2>1, <2>2 DEF Row
<1>6. TypeOK'
  <2>1. DOMAIN rows = 1..Len(rows) /\ Len(rows) \in Nat
    BY Members
  <2>2. rows' \in Seq(Row) /\ Len(rows') = Len(rows)
    <3>1. rows' \in [1..Len(rows) -> Row]
      BY <1>e, <1>4, <2>1
    <3> QED
      BY <2>1, <3>1
  <2> QED
    BY <1>1, <1>4, <1>5, <2>2 DEF TypeOK, Replacements
<1>7. Identity'
  BY <1>1 DEF Identity
<1>8. \A id : (Known(id)' <=> Known(id)) /\ (id # item.id /\ Named(id) => Named(id)')
  BY <1>1 DEF Known, Named
<1>9. CycleSound'
  <2>1. Known(answer)'
    BY <1>1, <1>2, <1>8
  <2>2. ToCreate(item)'
    BY <1>1, <1>2, <1>5, <2>1 DEF ToCreate, Named
  <2>3. Ref' = Ref
    BY <1>1 DEF Ref
  <2>4. rows'[cur].id = answer /\ \A s \in todo : rows'[s].type = "remote"
    BY <1>2, <1>4 DEF TypeOK
  <2>5. /\ item'.id \in Ref' \ {1} /\ item'.pid \in Ref' /\ cur' \in DOMAIN rows'
        /\ \A s \in todo' : rows'[s].type = "remote"
        /\ 1 \notin {chain'[k] : k \in DOMAIN chain'}
        /\ rows'[cur'].type = "local" /\ rows'[cur'].status \notin {"done", "gone"}
        /\ rows'[cur'].id = item'.id /\ rows'[cur'].op = item'.op /\ item'.type = "local"
        /\ item'.op = "create" /\ pc' = "fetch" /\ item'.id > 0
    BY <1>1, <1>2, <1>3, <1>4, <1>5, <2>3, <2>4
  <2>6. answer' \in DOMAIN server' /\ answer' # 1
    BY <1>1, <1>2
  <2> QED
    BY <2>1, <2>2, <2>5, <2>6
       DEF CycleSound, Remotely, Rebuilding, Creating, Replacements, Renamed
<1>10. ASSUME NEW r \in DOMAIN rows,
              rows[r].type = "local", rows[r].op = "create", rows[r].status # "gone"
       PROVE  (ToCreate(rows[r]) => ToCreate(rows[r])') /\ Named(rows[r].pid)'
  <2>1. Named(rows[r].pid)
    BY <1>10 DEF Parents, HasParent
  <2>2. PICK p : p = rows'[r].pid /\ p = IF rows[r].pid = item.id THEN answer ELSE rows[r].pid
    BY <1>4
  <2>3. Named(p)'
    <3>1. answer # item.id /\ Named(answer)
      BY <1>2 DEF Named
    <3> QED
      BY <1>8, <2>1, <2>2, <3>1
  <2>4. PICK x : x = rows[r].id /\ x = rows'[r].id
    BY <1>4
  <2>5. Named(x) => Named(x)'
    BY <1>2, <1>8, <1>10, <2>4
  <2>6. ToCreate(rows[r]) => ToCreate(rows[r])'
    BY <1>1, <2>4, <2>5 DEF ToCreate
  <2> QED
    BY <2>2, <2>3, <2>6
<1>11. pc \in Creating /\ pc' \in Creating
  BY <1>1 DEF Creating, Replacements
<1>12. \A r \in DOMAIN rows, j \in DOMAIN db :
          rows[r].id = db[j].id /\ db'[j].id < 0 => rows'[r].id = db'[j].id
  BY <1>1, <1>4
<1> HIDE DEF Inv
<1> QED
  BY <1>1, <1>2, <1>4, <1>5, <1>6, <1>7, <1>9, <1>10, <1>11, <1>12, ReplaceStep

-----------------------------------------------------------------------------
\* Two folders under the root, on both sides, and nothing waiting.
LEMMA InitInv == Init => Inv
<1> SUFFICES ASSUME Init PROVE Inv
  OBVIOUS
<1> DEFINE path(i) == [k \in 1..i - 1 |-> <<"folder", 0>>]
<1>1. \A i \in 1..3 : path(i) \in Seq(Name) /\ (path(i) = << >> <=> i = 1)
  <2> TAKE i \in 1..3
  <2>1. <<"folder", 0>> \in Name
    BY DEF Name
  <2>2. i - 1 \in Nat
    OBVIOUS
  <2>3. path(i) \in [1..(i - 1) -> Name]
    BY <2>1
  <2>4. path(i) \in Seq(Name) /\ Len(path(i)) = i - 1
    BY <2>2, <2>3
  <2>5. path(i) = << >> <=> Len(path(i)) = 0
    BY <2>4, EmptySeq
  <2> HIDE DEF path
  <2> QED
    BY <2>4, <2>5
<1>2. /\ server = [i \in 1..3 |-> [path |-> path(i), parent |-> i - 1, folder |-> TRUE,
                                   live |-> TRUE, by |-> i]]
      /\ db = [i \in 1..3 |-> [id |-> i, pid |-> i - 1, pino |-> i - 1, folder |-> TRUE,
                               deleted |-> FALSE, path |-> server[i].path]]
      /\ feed = << >> /\ rows = << >> /\ recent = {} /\ fuse = Idle
      /\ pc = "idle" /\ todo = {} /\ cur = 0 /\ item = NoRow
      /\ chain = << >> /\ under = 0 /\ answer = 0 /\ removed = {} /\ lost = {} /\ cut = {}
  BY DEF Init
<1> HIDE DEF path
<1>3. DOMAIN server = 1..3 /\ \A i \in 1..3 :
         /\ server[i] \in Item
         /\ server[i].path = path(i) /\ server[i].parent = i - 1 /\ server[i].live
         /\ server[i].by = i
  BY <1>1, <1>2 DEF Item
<1>4. DOMAIN db = 1..3 /\ \A i \in 1..3 :
         /\ db[i] \in Entry
         /\ db[i].id = i /\ db[i].pid = i - 1 /\ db[i].pino = i - 1 /\ ~db[i].deleted
         /\ db[i].path = path(i)
  BY <1>1, <1>2, <1>3 DEF Entry
<1>5. server \in Seq(Item) /\ Len(server) = 3 /\ db \in Seq(Entry) /\ Len(db) = 3
  <2>1. server \in [1..3 -> Item] /\ db \in [1..3 -> Entry]
    BY <1>2, <1>3, <1>4
  <2>2. server \in Seq(Item) /\ db \in Seq(Entry)
    <3>1. ASSUME NEW S, NEW f \in [1..3 -> S] PROVE f \in Seq(S)
      <4>1. 3 \in Nat
        OBVIOUS
      <4>2. f \in UNION {[1..n -> S] : n \in Nat}
        BY <4>1, Zenon
      <4> QED
        BY <4>2, SeqDef, Zenon
    <3> QED
      BY ONLY <2>1, <3>1, Zenon
  <2>3. Len(server) = 3 /\ Len(db) = 3
    BY <1>3, <1>4, <2>2, LenProperties
  <2> QED
    BY <2>2, <2>3
<1>6. /\ item \in Row /\ item.id = 0 /\ item.pid = 0
      /\ fuse \in [pc : {"idle", "insert", "row"}, ino : Nat, row : Row] /\ fuse.pc = "idle"
  BY <1>2, NoRowType DEF NoRow, Idle
<1>7. DOMAIN rows = {} /\ Len(rows) = 0 /\ DOMAIN feed = {} /\ DOMAIN chain = {}
  BY <1>2
<1>8. TypeOK
  <2>1. feed \in Seq([op : {"create", "delete"}, id : DOMAIN server]) /\ rows \in Seq(Row)
        /\ chain \in Seq(DOMAIN db)
    BY <1>2
  <2>2. \A i \in DOMAIN db : db[i].pino \in 0..Len(db)
    BY <1>4, <1>5
  <2>3. fuse.pc \in {"idle", "insert", "row"} /\ fuse.row \in Row
    BY <1>6
  <2> QED
    BY <1>2, <1>5, <1>6, <1>7, <2>1, <2>2, <2>3 DEF TypeOK
<1>9. Root
  BY <1>1, <1>3, <1>4, <1>5 DEF Root
<1>10. Identity
  BY <1>3, <1>4 DEF Identity
<1>11. Made
  BY <1>3, <1>5, <1>7 DEF Made, Live
<1>12. RowsSound /\ Parents
  BY <1>4, <1>5, <1>7 DEF RowsSound, Parents, Ref
<1>13. FuseSound
  BY <1>6 DEF FuseSound
<1>14. CycleSound
  BY <1>2, <1>5, <1>6, <1>7
     DEF CycleSound, Remotely, Rebuilding, Creating, Ref, Replacements, Renamed
<1>15. Cared
  BY <1>4, <1>7 DEF Cared
<1> QED
  BY <1>8, <1>9, <1>10, <1>11, <1>12, <1>13, <1>14, <1>15 DEF Inv

\* A step that changes nothing.
LEMMA StutterStep ==
    ASSUME Inv, UNCHANGED vars
    PROVE  Inv'
<1> USE DEF Inv
<1>1. /\ server' = server /\ feed' = feed /\ db' = db /\ rows' = rows /\ recent' = recent
      /\ fuse' = fuse /\ pc' = pc /\ todo' = todo /\ cur' = cur /\ item' = item
      /\ chain' = chain /\ under' = under /\ answer' = answer /\ removed' = removed /\ cut' = cut
      /\ lost' = lost
  BY DEF vars, cycle, history
<1>2. TypeOK'
  BY <1>1 DEF TypeOK
<1>3. FuseSound'
  BY <1>1 DEF FuseSound, Unreferred, Ref
<1>4. CycleSound'
  BY <1>1 DEF CycleSound, ToCreate, FromDelta, Known, Inode, Ref, Named
<1>5. RowsGo
  BY <1>1, SameRows
<1>6. ASSUME NEW i \in DOMAIN db,
             Making(i) \/ i \in Unstored \/ \E r \in DOMAIN rows : Waits(r, i)
      PROVE  Care(i)'
  BY <1>1, <1>6 DEF Care, Making, Unstored, Waits
<1> HIDE DEF Inv
<1> QED
  BY <1>1, <1>2, <1>3, <1>4, <1>5, <1>6, RowsStep

\* Every step keeps the tables as they should be.
LEMMA NextInv == Inv /\ [Next]_vars => Inv'
<1> SUFFICES ASSUME Inv, [Next]_vars PROVE Inv'
  OBVIOUS
<1>1. CASE User
  <2>1. ASSUME NEW dir \in DOMAIN db, Rmdir(dir) PROVE Inv'
    BY <2>1, RmdirStep
  <2>2. ASSUME NEW dir \in DOMAIN db, NEW n \in Names, Mkdir(dir, n) \/ Create(dir, n)
        PROVE  Inv'
    <3>1. ASSUME NEW folder \in BOOLEAN, Make(dir, n, folder) PROVE Inv'
      BY <3>1, MakeStep
    <3> QED
      BY <2>2, <3>1 DEF Mkdir, Create
  <2> QED
    BY <1>1, <2>1, <2>2 DEF User
<1>2. CASE OtherClients
  BY <1>2, RemoteDeleteStep, RemoteCreateStep DEF OtherClients
<1>3. CASE FuseStep
  BY <1>3, FuseInsertStep, FuseRowStep, FuseRowFailsStep DEF FuseStep
<1>4. CASE Cycle
  <2>1. CASE Start \/ CheckRemote \/ Restore \/ Reset \/ Apply \/ Finish
    BY <2>1, StartStep, CheckRemoteStep, RestoreStep, ResetStep, ApplyStep, FinishStep
  <2>2. ASSUME NEW r \in DOMAIN rows, Begin(r) PROVE Inv'
    BY <2>2, BeginStep
  <2>3. CASE Climb \/ NoAncestor \/ RebuildEntry \/ RebuildRow \/ Reparent \/ DropRow \/ StoreAgain
    BY <2>3, ClimbStep, NoAncestorStep, RebuildEntryStep, RebuildRowStep, ReparentStep,
       DropRowStep, StoreAgainStep
  <2>4. CASE HandlerPanics \/ HandlerFails \/ Send \/ Fetch \/ DeleteOnServer \/ FinishRow
    BY <2>4, HandlerPanicsStep, HandlerFailsStep, SendStep, FetchStep, DeleteOnServerStep,
       FinishRowStep
  <2>5. CASE ReplaceId \/ ReplaceRowId \/ ReplaceParents \/ ReplaceRowParents
    BY <2>5, ReplaceIdStep, ReplaceRowIdStep, ReplaceParentsStep, ReplaceRowParentsStep
  <2> QED
    BY <1>4, <2>1, <2>2, <2>3, <2>4, <2>5 DEF Cycle
<1>5. CASE TimePasses
  BY <1>5, TimePassesStep
<1>6. CASE Crash
  BY <1>6, CrashStep
<1>7. CASE UNCHANGED vars
  BY <1>7, StutterStep
<1> QED
  BY <1>1, <1>2, <1>3, <1>4, <1>5, <1>6, <1>7 DEF Next

-----------------------------------------------------------------------------
\* What OneDrive, the two tables, the request of FUSE and the cycle hold are what
\* their types say, and every index among them is one of its table.
THEOREM TypesAreKept == Spec => []TypeOK
<1>1. Inv => TypeOK
  BY DEF Inv
<1> QED
  BY <1>1, InitInv, NextInv, PTL DEF Spec

\* The tables stay sound through every statement, failure and kill, those between
\* the statements that replace an id (update_onedrive_id,
\* update_parent_id_for_children) among them: each id names one entry, a row to
\* create names an entry and a parent, both by an id in use or by one that those
\* statements were cut short of replacing, and whatever OneDrive has not somebody
\* takes care of.
THEOREM TablesStaySound == Spec => []Inv
<1> QED
  BY InitInv, NextInv, PTL DEF Spec

\* The parent of a row to create is on OneDrive, deleted and so rebuilt, or about to
\* be created, unless the row has an id of it that was replaced in the entries and
\* not in the row: recreate_parent_chain_and_reorder_item, mkdir and rmdir leave no
\* other, nor does a failure or a kill at any statement that replaces an id.
THEOREM ParentsCome == Spec => []ParentComes
<1>1. Inv => ParentComes
  <2> SUFFICES ASSUME Inv, NEW r \in DOMAIN rows, NEW i \in DOMAIN db, Waits(r, i),
                      rows[r].pid \notin cut
               PROVE  \E p \in DOMAIN db :
                          /\ db[p].id = rows[r].pid
                          /\ \/ db[p].id > 0 \/ db[p].deleted \/ p \in lost \/ Making(p)
                             \/ \E s \in DOMAIN rows : Waits(s, p)
    BY DEF ParentComes
  <2> USE DEF Inv
  <2>1. rows[r].type = "local" /\ rows[r].op = "create" /\ rows[r].status # "gone"
    BY DEF Waits, Open
  <2>2. Known(rows[r].pid)
    BY <2>1 DEF Parents, HasParent, Named
  <2>3. PICK p \in DOMAIN db : db[p].id = rows[r].pid
    BY <2>2 DEF Known
  <2>4. p \in Nat /\ db[p].id \in Int /\ (db[p].id > 0 \/ (db[p].id < 0 /\ db[p].id = -p))
    <3>1. p \in Nat /\ p > 0 /\ \A n \in DOMAIN server : n > 0 /\ n \in Nat
      BY Members
    <3>2. db[p].id = -p \/ db[p].id \in DOMAIN server
      BY DEF Identity
    <3> QED
      BY <3>1, <3>2
  <2>5. CASE db[p].id > 0
    BY <2>3, <2>5
  <2>6. CASE db[p].id < 0
    <3>1. Care(p)
      BY <2>6 DEF Cared
    <3>2. p \in Unstored => db[p].deleted \/ p \in lost
      <4>1. HAVE p \in Unstored
      <4>2. fuse.pc = "row" /\ fuse.ino = p
        BY <4>1 DEF Unstored
      <4>3. ~Unreferred(p)
        BY <2>3, <2>4, <2>6 DEF Unreferred
      <4> QED
        BY <2>6, <4>2, <4>3 DEF FuseSound
    <3> QED
      BY <2>3, <3>1, <3>2 DEF Care
  <2> QED
    BY <2>4, <2>5, <2>6
<1> QED
  BY <1>1, InitInv, NextInv, PTL DEF Spec

\* What the user made and did not remove is on OneDrive, or somebody creates it,
\* unless another client removed it or it was in a window at which `lost` is set:
\* deleting, restoring and rebuilding its parents does not lose it.
THEOREM NewItemsAreKept == Spec => []NewItemsKept
<1>1. Inv => NewItemsKept
  <2> SUFFICES ASSUME Inv, NEW i \in 4..Len(db)
               PROVE  \/ i \in removed \union lost
                      \/ db[i].id > 0 /\ server[db[i].id].by = 0
                      \/ OnServer(i) \/ i \in Unstored \/ Making(i)
                      \/ \E r \in DOMAIN rows : Waits(r, i)
    BY DEF NewItemsKept
  <2> USE DEF Inv
  <2>1. i \in DOMAIN db /\ i \in Nat /\ i > 0
    BY Members
  <2>2. db[i].id = -i \/ db[i].id \in DOMAIN server
    BY <2>1 DEF Identity
  <2>3. CASE db[i].id = -i
    <3>1. db[i].id < 0
      BY <2>1, <2>3
    <3> QED
      BY <2>1, <3>1 DEF Cared, Care
  <2>4. CASE db[i].id \in DOMAIN server
    <3>1. db[i].id > 0
      BY <2>4, Members
    <3>2. server[db[i].id].by \in {0, i}
      BY <2>1, <3>1 DEF Identity
    <3>3. server[db[i].id].by # 0 => Live(db[i].id) \/ server[db[i].id].by \in removed
      BY <2>4 DEF Made
    <3> QED
      BY <2>4, <3>1, <3>2, <3>3 DEF OnServer
  <2> QED
    BY <2>2, <2>3, <2>4
<1> QED
  BY <1>1, InitInv, NextInv, PTL DEF Spec

=============================================================================
