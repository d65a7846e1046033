---------------------------- MODULE SettingsProofs ----------------------------
(***************************************************************************)
(* Settings for every set of folders and calls and every bound: what the   *)
(* user chose is kept, and no file of a sync folder is forgotten.          *)
(*                                                                         *)
(* ChoicesKept speaks of quiet moments only.  In between, the memory is    *)
(* ahead of the choices by the toggle that holds the lock (MemAgrees), and *)
(* the file is torn or ahead by the one call that saves (FileAgrees).      *)
(* FolderComplete holds at a start only if the folders the file brings     *)
(* back were complete when the daemon ended (FileComplete).                *)
(***************************************************************************)
EXTENDS Settings, TLAPS

Saving(a) == actor[a].pc \in {"save", "write"}
Toggling(c) == Saving(c) /\ actor[c].op = "toggle"
Queueing(c) == actor[c].pc \in {"query", "queue"}

\* What each actor may be at.
Shape ==
    /\ actor[Handler].op = "default"
    /\ actor[Handler].pc \in {"idle", "save", "write", "open"}
    /\ actor[Handler].val = Default
    /\ \A c \in Calls :
          /\ actor[c].pc # "open"
          /\ actor[c].pc # "idle" => actor[c].op # "default"
          /\ actor[c].pc = "lock" \/ Queueing(c) => actor[c].op \in {"add", "remove"}
    /\ cycle.pc \in {"idle", "run"} => cycle.item = {}
    /\ cycle.pc \in {"decide", "queue"} => \E f \in Folders : cycle.item = {f}

\* Who changes the memory, or has changed it and saves, holds the lock.
Holder == \A c \in Calls : Queueing(c) \/ Toggling(c) => lock = c

MemAgrees ==
    up /\ ~cut =>
        mem = IF \E c \in Calls : Toggling(c) THEN Apply("toggle", {}, wish) ELSE wish

FileAgrees ==
    /\ ~cut => ~Saving(Handler)
    /\ ~cut /\ ~overlap =>
          /\ \A c, d \in Calls : actor[c].pc # "idle" /\ actor[d].pc # "idle" => c = d
          /\ \A c \in Calls :
                /\ Saving(c) => actor[c].val = Apply(actor[c].op, actor[c].arg, wish)
                /\ actor[c].pc = "write" => file = Unreadable
                /\ actor[c].pc = "lock" =>
                      file = Whole(Apply(actor[c].op, actor[c].arg, wish))
          /\ (\A c \in Calls : actor[c].pc \notin {"write", "lock"}) => file = Whole(wish)

\* The file of a folder is there, or will be.
Covered(f) ==
    \/ f \in missed \/ copy[f] = "new" \/ f \in queue \/ f \in cycle.item
    \/ \E c \in Calls : Queueing(c) /\ actor[c].op = "add" /\ f \in actor[c].arg
Adds(c, f) == actor[c].op = "add" /\ f \in actor[c].arg

MemComplete == \A f \in mem.folders \intersect entry : Covered(f)

\* A folder the file has and the memory lacks was given up, or is being added.
FileComplete ==
    /\ ~up => \A f \in file.val.folders \intersect wish.folders \intersect entry : Covered(f)
    /\ up => \A f \in file.val.folders \intersect wish.folders :
                f \in mem.folders \/ \E c \in Calls : actor[c].pc = "lock" /\ Adds(c, f)
    /\ \A c \in Calls : Saving(c) =>
          \A f \in actor[c].val.folders \intersect wish.folders : f \in mem.folders \/ Adds(c, f)

Inv == TypeOK /\ Shape /\ Holder
Agree == MemAgrees /\ FileAgrees
Complete == MemComplete /\ FileComplete

-----------------------------------------------------------------------------
\* What the steps do to an actor.

\* A choice of the user is a choice.
LEMMA ApplyKeepsValues ==
    ASSUME NEW v \in Value, NEW f \in SUBSET Folders, NEW op \in Op
    PROVE  Apply(op, f, v) \in Value
BY DEF Apply, Value

\* Actor a takes the given fields, and no other actor moves.
Sets(a, pc, op, arg, val) ==
    /\ actor' \in [Actors -> Step]
    /\ actor'[a].pc = pc /\ actor'[a].op = op /\ actor'[a].arg = arg /\ actor'[a].val = val
    /\ \A b \in Actors : b # a => actor'[b] = actor[b]

\* What an assignment to one call does.
LEMMA Assigned ==
    ASSUME TypeOK, NEW a \in Actors, NEW r \in Step, actor' = [actor EXCEPT ![a] = r]
    PROVE  Sets(a, r.pc, r.op, r.arg, r.val)
BY DEF Types, TypeOK, Sets

\* Go changes the step of its actor and nothing else.
LEMMA GoSets ==
    ASSUME TypeOK, NEW a \in Actors,
           NEW p \in {"idle", "save", "write", "lock", "query", "queue", "open"}, Go(a, p)
    PROVE  Sets(a, p, actor[a].op, actor[a].arg, actor[a].val)
<1> DEFINE r == [actor[a] EXCEPT !.pc = p]
<1>1. actor[a] \in Step
  BY DEF Types, TypeOK
<1>2. r \in Step /\ r.pc = p /\ r.op = actor[a].op /\ r.arg = actor[a].arg /\ r.val = actor[a].val
  BY <1>1 DEF Step
<1>3. actor' = [actor EXCEPT ![a] = r]
  BY DEF Go
<1> HIDE DEF r
<1> QED BY <1>2, <1>3, Assigned

\* The records the actions build are of the sets the types name.
LEMMA Records ==
    /\ Default \in Value /\ Unreadable \in Content /\ NoItem \in Item
    /\ \A v \in Value : Whole(v) \in Content
    /\ \A p \in {"idle", "run", "decide", "queue"}, s \in SUBSET Folders :
          [pc |-> p, item |-> s] \in Item
    /\ \A x \in Item, p \in {"idle", "run", "decide", "queue"} : [x EXCEPT !.pc = p] \in Item
    /\ \A x \in Item : x.item \in SUBSET Folders
    /\ \A x \in Step : x.arg \in SUBSET Folders /\ x.val \in Value /\ x.op \in Op
    /\ \A x \in Content : x.val \in Value
    /\ \A v \in Value : v.folders \in SUBSET Folders
BY DEF Default, Value, Unreadable, Content, NoItem, Item, Whole, Step

\* An actor at rest is an actor.
LEMMA IdleIsStep == Idle \in Step
BY DEF Idle, Step, Op, Value, Default

\* Stop leaves its actor at rest.
LEMMA StopSets ==
    ASSUME TypeOK, NEW a \in Actors, Stop(a)
    PROVE  Sets(a, "idle", "default", {}, Default)
<1>1. Sets(a, Idle.pc, Idle.op, Idle.arg, Idle.val)
  BY IdleIsStep, Assigned DEF Stop
<1> QED BY <1>1 DEF Idle

\* A call starts with the settings it read, changed as it asks.
LEMMA BeginSets ==
    ASSUME TypeOK, NEW c \in Calls, NEW op \in {"add", "remove", "toggle"},
           NEW f \in SUBSET Folders, Begin(c, op, f)
    PROVE  Sets(c, "save", op, f, Apply(op, f, mem))
<1> DEFINE v == Apply(op, f, mem)
           r == [pc |-> "save", op |-> op, arg |-> f, val |-> v]
<1>1. v \in Value
  BY ApplyKeepsValues DEF Types, TypeOK, Op
<1>2. actor' = [actor EXCEPT ![c] = r]
  BY DEF Begin
<1> HIDE DEF v
<1>3. r \in Step
  BY <1>1 DEF Step, Op
<1>4. Sets(c, r.pc, r.op, r.arg, r.val)
  BY <1>2, <1>3, Assigned DEF Actors
<1> QED BY <1>4 DEF v

\* After the query a call holds the folders it has rows to queue for.
LEMMA QuerySets ==
    ASSUME TypeOK, NEW c \in Calls, Query(c)
    PROVE  Sets(c, "queue", actor[c].op,
                {f \in actor[c].arg \intersect entry : actor[c].op = "add"}, actor[c].val)
<1> DEFINE g == {f \in actor[c].arg \intersect entry : actor[c].op = "add"}
           r == [actor[c] EXCEPT !.pc = "queue", !.arg = g]
<1>1. actor[c] \in Step /\ c \in Actors
  BY DEF Types, TypeOK, Actors
<1>2. actor' = [actor EXCEPT ![c] = r]
  BY <1>1 DEF Query, TypeOK
<1>3. g \in SUBSET Folders
  BY <1>1 DEF Step
<1> HIDE DEF g
<1>4. /\ r \in Step /\ r.pc = "queue" /\ r.op = actor[c].op /\ r.arg = g
      /\ r.val = actor[c].val
  BY <1>1, <1>3 DEF Step
<1> HIDE DEF r
<1> QED BY <1>1, <1>2, <1>4, Assigned DEF g

\* The file handler reads the settings, or writes the default ones over an
\* unreadable file.
LEMMA HandlerStartSets ==
    ASSUME TypeOK, NEW f \in Folders, HandlerStart(f)
    PROVE  \E p \in {"open", "save"} : /\ Sets(Handler, p, "default", {f}, Default)
                                       /\ p = "open" <=> file.state = "whole"
<1> DEFINE p == IF file.state = "whole" THEN "open" ELSE "save"
           r == [pc |-> p, op |-> "default", arg |-> {f}, val |-> Default]
<1>1. p \in {"open", "save"} /\ (p = "open" <=> file.state = "whole")
  OBVIOUS
<1>2. actor' = [actor EXCEPT ![Handler] = r]
  BY DEF HandlerStart
<1> HIDE DEF p
<1>3. r \in Step
  BY <1>1 DEF Step, Op, Default, Value
<1>4. Sets(Handler, r.pc, r.op, r.arg, r.val)
  BY <1>2, <1>3, Assigned DEF Actors
<1> QED BY <1>1, <1>4

\* A kill leaves the file handler alone.
LEMMA KillSets ==
    ASSUME TypeOK, Kill
    PROVE  /\ actor' \in [Actors -> Step] /\ actor'[Handler] = actor[Handler]
           /\ \A c \in Calls : actor'[c] = Idle
BY IdleIsStep, ActorsDiffer DEF Types, TypeOK, Kill, Actors

\* The parts of the invariant the steps below use.
LEMMA InvGives ==
    ASSUME Inv
    PROVE  /\ TypeOK /\ Shape /\ Holder
           /\ actor \in [Actors -> Step]
           /\ lock # Nobody => lock \in Calls
           /\ ~up => lock = Nobody /\ cycle = NoItem /\ \A c \in Calls : actor[c] = Idle
           /\ overlap \in BOOLEAN /\ cut \in BOOLEAN
           /\ copy \in [Folders -> {"none", "old", "new"}]
           /\ mem.folders \subseteq Folders
BY DEF Inv, TypeOK, Types, AtRest, Value

\* A call begins on its own, from the settings that hold, or overlaps.
LEMMA BeginAgrees ==
    ASSUME Inv, Agree, NEW c \in Calls, NEW op \in {"add", "remove", "toggle"},
           NEW f \in SUBSET Folders, Begin(c, op, f)
    PROVE  FileAgrees'
<1> USE InvGives, ActorsDiffer DEF Actors
<1>1. Sets(c, "save", op, f, Apply(op, f, mem))
  BY BeginSets
<1>2. UNCHANGED <<file, wish, cut>> /\ up /\ lock = Nobody
  BY DEF Begin, disk
<1>3. ~cut' => ~Saving(Handler)'
  BY <1>1, <1>2 DEF Sets, Agree, FileAgrees, Saving
<1>4. SUFFICES ASSUME ~cut', ~overlap'
      PROVE  /\ \A d \in Calls : d # c => actor'[d].pc = "idle"
             /\ actor'[c].val = Apply(actor'[c].op, actor'[c].arg, wish')
             /\ actor'[c].pc = "save" /\ file' = Whole(wish')
  BY <1>3, <1>4 DEF FileAgrees, Saving
<1>5. \A d \in Calls : actor[d].pc = "idle"
  BY <1>4 DEF Begin
<1>6. ~overlap
  BY <1>4 DEF Begin
<1>7. file = Whole(wish)
  BY <1>2, <1>4, <1>5, <1>6 DEF Agree, FileAgrees
<1>8. mem = wish
  BY <1>2, <1>4, <1>5 DEF Agree, MemAgrees, Toggling, Saving
<1> QED BY <1>1, <1>2, <1>5, <1>7, <1>8 DEF Sets

\* No step takes an actor to a place its operation does not go, and the cycle
\* holds an item only between its entry and its row.
LEMMA ShapeStep == TypeOK /\ Shape /\ [Next]_vars => Shape'
<1> SUFFICES ASSUME TypeOK, Shape, [Next]_vars PROVE Shape'
  OBVIOUS
<1> USE ActorsDiffer DEF Sets, Saving, Queueing, Actors, Idle, disk, history, Shape, NoItem
<1>1. ASSUME Start PROVE Shape'
  BY <1>1 DEF Start
<1>2. ASSUME Kill PROVE Shape'
  BY <1>2, KillSets DEF Kill, Fault
<1>3. ASSUME HandlerQueue PROVE Shape'
  BY <1>3, StopSets DEF HandlerQueue
<1>4. ASSUME CycleStart PROVE Shape'
  BY <1>4 DEF CycleStart
<1>5. ASSUME CycleEnd PROVE Shape'
  BY <1>5 DEF CycleEnd
<1>6. ASSUME Decide PROVE Shape'
  BY <1>6 DEF Decide
<1>7. ASSUME QueueItem PROVE Shape'
  BY <1>7 DEF QueueItem, Fault
<1>8. ASSUME NEW f \in Folders, StoreItem(f) PROVE Shape'
  BY <1>8 DEF StoreItem
<1>9. ASSUME NEW f \in Folders, Download(f) PROVE Shape'
  BY <1>9 DEF Download, Fault
<1>10. ASSUME NEW f \in Folders, HandlerStart(f) PROVE Shape'
  BY <1>10, HandlerStartSets DEF HandlerStart, Event
<1>11. ASSUME NEW f \in Folders, RemoteChange(f) PROVE Shape'
  BY <1>11 DEF RemoteChange, Event
<1>12. ASSUME NEW c \in Calls, NEW f \in Folders, Add(c, f) PROVE Shape'
  BY <1>12, BeginSets DEF Add, Begin, Event
<1>13. ASSUME NEW c \in Calls, NEW f \in Folders, Remove(c, f) PROVE Shape'
  BY <1>13, BeginSets DEF Remove, Begin, Event
<1>14. ASSUME NEW c \in Calls, Toggle(c) PROVE Shape'
  BY <1>14, BeginSets DEF Toggle, Begin, Event
<1>15. ASSUME NEW c \in Calls, Lock(c) PROVE Shape'
  BY <1>15, GoSets DEF Lock
<1>16. ASSUME NEW c \in Calls, Query(c) PROVE Shape'
  BY <1>16, QuerySets DEF Query
<1>17. ASSUME NEW c \in Calls, QueueFiles(c) PROVE Shape'
  BY <1>17, StopSets DEF QueueFiles
<1>18. ASSUME NEW c \in Calls, QueueFails(c) PROVE Shape'
  BY <1>18, StopSets DEF QueueFails, Fault
<1>19. ASSUME NEW a \in Actors, SaveOpen(a) PROVE Shape'
  BY <1>19, GoSets DEF SaveOpen
<1>20. ASSUME NEW a \in Actors, SaveWrite(a) PROVE Shape'
  <2>1. CASE actor[a].op = "toggle"
    BY <1>20, <2>1, StopSets DEF SaveWrite
  <2>2. CASE actor[a].op # "toggle" /\ a = Handler
    BY <1>20, <2>2, GoSets DEF SaveWrite
  <2>3. CASE actor[a].op # "toggle" /\ a # Handler
    <3>1. Sets(a, "lock", actor[a].op, actor[a].arg, actor[a].val)
      BY <1>20, <2>3, GoSets DEF SaveWrite
    <3>2. actor[a].op \in Op /\ a \in Calls /\ UNCHANGED cycle
      BY <1>20, <2>3, Records DEF SaveWrite, TypeOK, Types
    <3> QED BY <1>20, <2>3, <3>1, <3>2 DEF SaveWrite, Op
  <2> QED BY <2>1, <2>2, <2>3
<1>21. ASSUME NEW a \in Actors, SaveFails(a) PROVE Shape'
  BY <1>21, StopSets DEF SaveFails, Fault
<1>22. CASE UNCHANGED vars
  BY <1>22 DEF vars, disk, history
<1> QED
  BY <1>1, <1>2, <1>3, <1>4, <1>5, <1>6, <1>7, <1>8, <1>9, <1>10, <1>11, <1>12, <1>13, <1>14, <1>15, <1>16, <1>17, <1>18, <1>19, <1>20, <1>21, <1>22 DEF Next, Call, Cycle

\* Only the call that holds the lock changes the memory, queues, or saves a toggle.
LEMMA HolderStep == TypeOK /\ Shape /\ Holder /\ [Next]_vars => Holder'
<1> SUFFICES ASSUME TypeOK, Shape, Holder, [Next]_vars PROVE Holder'
  OBVIOUS
<1> USE ActorsDiffer DEF Sets, Saving, Queueing, Actors, Idle, disk, history, Shape, Holder, Toggling
<1>1. ASSUME Start PROVE Holder'
  BY <1>1 DEF Start
<1>2. ASSUME Kill PROVE Holder'
  BY <1>2, KillSets DEF Kill, Fault
<1>3. ASSUME HandlerQueue PROVE Holder'
  BY <1>3, StopSets DEF HandlerQueue
<1>4. ASSUME CycleStart PROVE Holder'
  BY <1>4 DEF CycleStart
<1>5. ASSUME CycleEnd PROVE Holder'
  BY <1>5 DEF CycleEnd
<1>6. ASSUME Decide PROVE Holder'
  BY <1>6 DEF Decide
<1>7. ASSUME QueueItem PROVE Holder'
  BY <1>7 DEF QueueItem, Fault
<1>8. ASSUME NEW f \in Folders, StoreItem(f) PROVE Holder'
  BY <1>8 DEF StoreItem
<1>9. ASSUME NEW f \in Folders, Download(f) PROVE Holder'
  BY <1>9 DEF Download, Fault
<1>10. ASSUME NEW f \in Folders, HandlerStart(f) PROVE Holder'
  BY <1>10, HandlerStartSets DEF HandlerStart, Event
<1>11. ASSUME NEW f \in Folders, RemoteChange(f) PROVE Holder'
  BY <1>11 DEF RemoteChange, Event
<1>12. ASSUME NEW c \in Calls, NEW f \in Folders, Add(c, f) PROVE Holder'
  BY <1>12, BeginSets DEF Add, Begin, Event
<1>13. ASSUME NEW c \in Calls, NEW f \in Folders, Remove(c, f) PROVE Holder'
  BY <1>13, BeginSets DEF Remove, Begin, Event
<1>14. ASSUME NEW c \in Calls, Toggle(c) PROVE Holder'
  BY <1>14, BeginSets DEF Toggle, Begin, Event
<1>15. ASSUME NEW c \in Calls, Lock(c) PROVE Holder'
  BY <1>15, GoSets DEF Lock
<1>16. ASSUME NEW c \in Calls, Query(c) PROVE Holder'
  BY <1>16, QuerySets DEF Query
<1>17. ASSUME NEW c \in Calls, QueueFiles(c) PROVE Holder'
  BY <1>17, StopSets DEF QueueFiles
<1>18. ASSUME NEW c \in Calls, QueueFails(c) PROVE Holder'
  BY <1>18, StopSets DEF QueueFails, Fault
<1>19. ASSUME NEW a \in Actors, SaveOpen(a) PROVE Holder'
  BY <1>19, GoSets DEF SaveOpen
<1>20. ASSUME NEW a \in Actors, SaveWrite(a) PROVE Holder'
  BY <1>20, GoSets, StopSets DEF SaveWrite
<1>21. ASSUME NEW a \in Actors, SaveFails(a) PROVE Holder'
  BY <1>21, StopSets DEF SaveFails, Fault
<1>22. CASE UNCHANGED vars
  BY <1>22 DEF vars, disk, history
<1> QED
  BY <1>1, <1>2, <1>3, <1>4, <1>5, <1>6, <1>7, <1>8, <1>9, <1>10, <1>11, <1>12, <1>13, <1>14, <1>15, <1>16, <1>17, <1>18, <1>19, <1>20, <1>21, <1>22 DEF Next, Call, Cycle

\* The lock is given back by whatever ends the work of its holder.
LEMMA LockStep == TypeOK /\ Shape /\ Holder /\ [Next]_vars => LockHeld'
<1> SUFFICES ASSUME TypeOK, Shape, Holder, [Next]_vars PROVE LockHeld'
  OBVIOUS
<1> USE ActorsDiffer DEF Sets, Saving, Queueing, Actors, Idle, disk, history, Shape, NoItem, TypeOK, Toggling, Holder, LockHeld, Types, AtRest
<1>1. ASSUME Start PROVE LockHeld'
  BY <1>1 DEF Start
<1>2. ASSUME Kill PROVE LockHeld'
  BY <1>2, KillSets DEF Kill, Fault
<1>3. ASSUME HandlerQueue PROVE LockHeld'
  BY <1>3, StopSets DEF HandlerQueue
<1>4. ASSUME CycleStart PROVE LockHeld'
  BY <1>4 DEF CycleStart
<1>5. ASSUME CycleEnd PROVE LockHeld'
  BY <1>5 DEF CycleEnd
<1>6. ASSUME Decide PROVE LockHeld'
  BY <1>6 DEF Decide
<1>7. ASSUME QueueItem PROVE LockHeld'
  BY <1>7 DEF QueueItem, Fault
<1>8. ASSUME NEW f \in Folders, StoreItem(f) PROVE LockHeld'
  BY <1>8 DEF StoreItem
<1>9. ASSUME NEW f \in Folders, Download(f) PROVE LockHeld'
  BY <1>9 DEF Download, Fault
<1>10. ASSUME NEW f \in Folders, HandlerStart(f) PROVE LockHeld'
  BY <1>10, HandlerStartSets DEF HandlerStart, Event
<1>11. ASSUME NEW f \in Folders, RemoteChange(f) PROVE LockHeld'
  BY <1>11 DEF RemoteChange, Event
<1>12. ASSUME NEW c \in Calls, NEW f \in Folders, Add(c, f) PROVE LockHeld'
  BY <1>12, BeginSets DEF Add, Begin, Event
<1>13. ASSUME NEW c \in Calls, NEW f \in Folders, Remove(c, f) PROVE LockHeld'
  BY <1>13, BeginSets DEF Remove, Begin, Event
<1>14. ASSUME NEW c \in Calls, Toggle(c) PROVE LockHeld'
  BY <1>14, BeginSets DEF Toggle, Begin, Event
<1>15. ASSUME NEW c \in Calls, Lock(c) PROVE LockHeld'
  BY <1>15, GoSets DEF Lock
<1>16. ASSUME NEW c \in Calls, Query(c) PROVE LockHeld'
  BY <1>16, QuerySets DEF Query
<1>17. ASSUME NEW c \in Calls, QueueFiles(c) PROVE LockHeld'
  BY <1>17, StopSets DEF QueueFiles
<1>18. ASSUME NEW c \in Calls, QueueFails(c) PROVE LockHeld'
  BY <1>18, StopSets DEF QueueFails, Fault
<1>19. ASSUME NEW a \in Actors, SaveOpen(a) PROVE LockHeld'
  BY <1>19, GoSets DEF SaveOpen
<1>20. ASSUME NEW a \in Actors, SaveWrite(a) PROVE LockHeld'
  BY <1>20, GoSets, StopSets DEF SaveWrite
<1>21. ASSUME NEW a \in Actors, SaveFails(a) PROVE LockHeld'
  BY <1>21, StopSets DEF SaveFails, Fault
<1>22. CASE UNCHANGED vars
  BY <1>22 DEF vars, disk, history
<1> QED
  BY <1>1, <1>2, <1>3, <1>4, <1>5, <1>6, <1>7, <1>8, <1>9, <1>10, <1>11, <1>12, <1>13, <1>14, <1>15, <1>16, <1>17, <1>18, <1>19, <1>20, <1>21, <1>22 DEF Next, Call, Cycle

\* A daemon that is down has no calls, no cycle and no lock; the file handler goes on.
LEMMA RestStep == TypeOK /\ Shape /\ [Next]_vars => AtRest'
<1> SUFFICES ASSUME TypeOK, Shape, [Next]_vars PROVE AtRest'
  OBVIOUS
<1> USE ActorsDiffer DEF Sets, Saving, Queueing, Actors, Idle, disk, history, Shape, NoItem, TypeOK, AtRest, LockHeld, Types
<1>1. ASSUME Start PROVE AtRest'
  BY <1>1 DEF Start
<1>2. ASSUME Kill PROVE AtRest'
  BY <1>2, KillSets DEF Kill, Fault
<1>3. ASSUME HandlerQueue PROVE AtRest'
  BY <1>3, StopSets DEF HandlerQueue
<1>4. ASSUME CycleStart PROVE AtRest'
  BY <1>4 DEF CycleStart
<1>5. ASSUME CycleEnd PROVE AtRest'
  BY <1>5 DEF CycleEnd
<1>6. ASSUME Decide PROVE AtRest'
  BY <1>6 DEF Decide
<1>7. ASSUME QueueItem PROVE AtRest'
  BY <1>7 DEF QueueItem, Fault
<1>8. ASSUME NEW f \in Folders, StoreItem(f) PROVE AtRest'
  BY <1>8 DEF StoreItem
<1>9. ASSUME NEW f \in Folders, Download(f) PROVE AtRest'
  BY <1>9 DEF Download, Fault
<1>10. ASSUME NEW f \in Folders, HandlerStart(f) PROVE AtRest'
  BY <1>10, HandlerStartSets DEF HandlerStart, Event
<1>11. ASSUME NEW f \in Folders, RemoteChange(f) PROVE AtRest'
  BY <1>11 DEF RemoteChange, Event
<1>12. ASSUME NEW c \in Calls, NEW f \in Folders, Add(c, f) PROVE AtRest'
  BY <1>12, BeginSets DEF Add, Begin, Event
<1>13. ASSUME NEW c \in Calls, NEW f \in Folders, Remove(c, f) PROVE AtRest'
  BY <1>13, BeginSets DEF Remove, Begin, Event
<1>14. ASSUME NEW c \in Calls, Toggle(c) PROVE AtRest'
  BY <1>14, BeginSets DEF Toggle, Begin, Event
<1>15. ASSUME NEW c \in Calls, Lock(c) PROVE AtRest'
  BY <1>15, GoSets DEF Lock
<1>16. ASSUME NEW c \in Calls, Query(c) PROVE AtRest'
  <2>1. up /\ UNCHANGED up
    BY <1>16 DEF Query
  <2> QED BY <2>1
<1>17. ASSUME NEW c \in Calls, QueueFiles(c) PROVE AtRest'
  BY <1>17, StopSets DEF QueueFiles
<1>18. ASSUME NEW c \in Calls, QueueFails(c) PROVE AtRest'
  BY <1>18, StopSets DEF QueueFails, Fault
<1>19. ASSUME NEW a \in Actors, SaveOpen(a) PROVE AtRest'
  <2>1. a # Handler => up
    BY <1>19 DEF SaveOpen
  <2>2. UNCHANGED <<up, mem, cycle>> /\ (~up => UNCHANGED lock)
    BY <1>19, <2>1 DEF SaveOpen
  <2>3. \A c \in Calls : ~up => actor'[c] = actor[c]
    BY <1>19, <2>1, GoSets DEF SaveOpen
  <2> QED BY <2>2, <2>3
<1>20. ASSUME NEW a \in Actors, SaveWrite(a) PROVE AtRest'
  <2>1. a # Handler => up
    BY <1>20 DEF SaveWrite
  <2>2. UNCHANGED <<up, mem, cycle>> /\ (~up => UNCHANGED lock)
    BY <1>20, <2>1 DEF SaveWrite
  <2>3. \A c \in Calls : ~up => actor'[c] = actor[c]
    BY <1>20, <2>1, GoSets, StopSets DEF SaveWrite
  <2> QED BY <2>2, <2>3
<1>21. ASSUME NEW a \in Actors, SaveFails(a) PROVE AtRest'
  <2>1. a # Handler => up
    BY <1>21 DEF SaveFails, Fault
  <2>2. UNCHANGED <<up, mem, cycle>> /\ (~up => UNCHANGED lock)
    BY <1>21, <2>1 DEF SaveFails, Fault
  <2>3. \A c \in Calls : ~up => actor'[c] = actor[c]
    BY <1>21, <2>1, StopSets DEF SaveFails, Fault
  <2> QED BY <2>2, <2>3
<1>22. CASE UNCHANGED vars
  BY <1>22 DEF vars, disk, history
<1> QED
  BY <1>1, <1>2, <1>3, <1>4, <1>5, <1>6, <1>7, <1>8, <1>9, <1>10, <1>11, <1>12, <1>13, <1>14, <1>15, <1>16, <1>17, <1>18, <1>19, <1>20, <1>21, <1>22 DEF Next, Call, Cycle

\* Every step keeps the types; the records are updated as the lemmas above say.
LEMMA TypesStep == TypeOK /\ [Next]_vars => Types'
<1> SUFFICES ASSUME TypeOK, [Next]_vars PROVE Types'
  OBVIOUS
<1> USE ActorsDiffer, ApplyKeepsValues, SizesAssumption, Records DEF Sets, Types, TypeOK, Actors, disk, history
<1>1. ASSUME Start PROVE Types'
  BY <1>1 DEF Start
<1>2. ASSUME Kill PROVE Types'
  <2>1. actor' \in [Actors -> Step]
    BY <1>2, KillSets
  <2>2. wish' \in Value
    BY <1>2 DEF Kill
  <2>3. missed' \subseteq Folders
    BY <1>2 DEF Kill
  <2>4. cut' \in BOOLEAN
    BY <1>2 DEF Kill
  <2>a. /\ up' = FALSE /\ mem' = Default /\ lock' = Nobody /\ cycle' = NoItem
        /\ faults < MaxFaults /\ faults' = faults + 1
    BY <1>2 DEF Kill, Fault
  <2>5. /\ up' \in BOOLEAN /\ mem' \in Value /\ lock' \in Calls \union {Nobody}
        /\ cycle' \in Item
    BY <2>a
  <2>7. faults' \in 0..MaxFaults
    BY <2>a
  <2>6. UNCHANGED <<disk, news, events, overlap>>
    BY <1>2 DEF Kill
  <2> QED BY <2>1, <2>2, <2>3, <2>4, <2>5, <2>6, <2>7
<1>3. ASSUME HandlerQueue PROVE Types'
  BY <1>3, StopSets DEF HandlerQueue
<1>4. ASSUME CycleStart PROVE Types'
  BY <1>4 DEF CycleStart
<1>5. ASSUME CycleEnd PROVE Types'
  BY <1>5 DEF CycleEnd
<1>6. ASSUME Decide PROVE Types'
  BY <1>6 DEF Decide
<1>7. ASSUME QueueItem PROVE Types'
  BY <1>7 DEF QueueItem, Fault
<1>8. ASSUME NEW f \in Folders, StoreItem(f) PROVE Types'
  BY <1>8 DEF StoreItem
<1>9. ASSUME NEW f \in Folders, Download(f) PROVE Types'
  BY <1>9 DEF Download, Fault
<1>10. ASSUME NEW f \in Folders, HandlerStart(f) PROVE Types'
  <2>1. actor' \in [Actors -> Step]
    BY <1>10, HandlerStartSets DEF HandlerStart
  <2>2. cut' \in BOOLEAN
    BY <1>10 DEF HandlerStart, Event
  <2> QED BY <1>10, <2>1, <2>2 DEF HandlerStart, Event
<1>11. ASSUME NEW f \in Folders, RemoteChange(f) PROVE Types'
  BY <1>11 DEF RemoteChange, Event
<1>12. ASSUME NEW c \in Calls, NEW f \in Folders, Add(c, f) PROVE Types'
  <2>1. actor' \in [Actors -> Step]
    BY <1>12, BeginSets DEF Add
  <2>2. overlap' \in BOOLEAN
    BY <1>12 DEF Add, Begin, Event
  <2> QED BY <1>12, <2>1, <2>2 DEF Add, Begin, Event
<1>13. ASSUME NEW c \in Calls, NEW f \in Folders, Remove(c, f) PROVE Types'
  <2>1. actor' \in [Actors -> Step]
    BY <1>13, BeginSets DEF Remove
  <2>2. overlap' \in BOOLEAN
    BY <1>13 DEF Remove, Begin, Event
  <2> QED BY <1>13, <2>1, <2>2 DEF Remove, Begin, Event
<1>14. ASSUME NEW c \in Calls, Toggle(c) PROVE Types'
  <2>1. actor' \in [Actors -> Step] /\ mem' \in Value
    BY <1>14, BeginSets DEF Toggle, Op
  <2>2. overlap' \in BOOLEAN
    BY <1>14 DEF Toggle, Begin
  <2> QED BY <1>14, <2>1, <2>2 DEF Toggle, Begin, Event
<1>15. ASSUME NEW c \in Calls, Lock(c) PROVE Types'
  BY <1>15, GoSets DEF Lock
<1>16. ASSUME NEW c \in Calls, Query(c) PROVE Types'
  BY <1>16, QuerySets DEF Query
<1>17. ASSUME NEW c \in Calls, QueueFiles(c) PROVE Types'
  BY <1>17, StopSets DEF QueueFiles
<1>18. ASSUME NEW c \in Calls, QueueFails(c) PROVE Types'
  BY <1>18, StopSets DEF QueueFails, Fault
<1>19. ASSUME NEW a \in Actors, SaveOpen(a) PROVE Types'
  BY <1>19, GoSets DEF SaveOpen
<1>20. ASSUME NEW a \in Actors, SaveWrite(a) PROVE Types'
  BY <1>20, GoSets, StopSets DEF SaveWrite
<1>21. ASSUME NEW a \in Actors, SaveFails(a) PROVE Types'
  BY <1>21, StopSets DEF SaveFails, Fault
<1>22. CASE UNCHANGED vars
  BY <1>22 DEF vars, disk, history
<1> QED
  BY <1>1, <1>2, <1>3, <1>4, <1>5, <1>6, <1>7, <1>8, <1>9, <1>10, <1>11, <1>12, <1>13, <1>14, <1>15, <1>16, <1>17, <1>18, <1>19, <1>20, <1>21, <1>22 DEF Next, Call, Cycle

\* The memory stays the choices, with the toggle that is being saved.
LEMMA MemAgreesStep == Inv /\ Agree /\ [Next]_vars => MemAgrees'
<1> SUFFICES ASSUME Inv, Agree, [Next]_vars PROVE MemAgrees'
  OBVIOUS
<1> USE ActorsDiffer, InvGives DEF Sets, Saving, Queueing, Toggling, Actors, disk, history, Shape, Holder, Agree, MemAgrees
<1>1. ASSUME Start PROVE MemAgrees'
  <2>1. SUFFICES ASSUME ~cut' PROVE mem' = wish' /\ \A c \in Calls : actor'[c] = Idle
    BY <1>1 DEF Start, Idle
  <2>2. \A c \in Calls : actor[c] = Idle /\ actor'[c] = actor[c]
    BY <1>1 DEF Start
  <2>3. ~cut /\ ~overlap
    BY <1>1, <2>1 DEF Start
  <2>4. file = Whole(wish)
    BY <2>2, <2>3 DEF FileAgrees, Idle
  <2> QED BY <1>1, <2>2, <2>4 DEF Start, Whole
<1>2. ASSUME Kill PROVE MemAgrees'
  BY <1>2, KillSets DEF Kill, Fault
<1>3. ASSUME HandlerQueue PROVE MemAgrees'
  BY <1>3, StopSets DEF HandlerQueue
<1>4. ASSUME CycleStart PROVE MemAgrees'
  BY <1>4 DEF CycleStart
<1>5. ASSUME CycleEnd PROVE MemAgrees'
  BY <1>5 DEF CycleEnd
<1>6. ASSUME Decide PROVE MemAgrees'
  BY <1>6 DEF Decide
<1>7. ASSUME QueueItem PROVE MemAgrees'
  BY <1>7 DEF QueueItem, Fault
<1>8. ASSUME NEW f \in Folders, StoreItem(f) PROVE MemAgrees'
  BY <1>8 DEF StoreItem
<1>9. ASSUME NEW f \in Folders, Download(f) PROVE MemAgrees'
  BY <1>9 DEF Download, Fault
<1>10. ASSUME NEW f \in Folders, HandlerStart(f) PROVE MemAgrees'
  BY <1>10, HandlerStartSets DEF HandlerStart, Event
<1>11. ASSUME NEW f \in Folders, RemoteChange(f) PROVE MemAgrees'
  BY <1>11 DEF RemoteChange, Event
<1>12. ASSUME NEW c \in Calls, NEW f \in Folders, Add(c, f) PROVE MemAgrees'
  BY <1>12, BeginSets DEF Add, Begin, Event
<1>13. ASSUME NEW c \in Calls, NEW f \in Folders, Remove(c, f) PROVE MemAgrees'
  BY <1>13, BeginSets DEF Remove, Begin, Event
<1>14. ASSUME NEW c \in Calls, Toggle(c) PROVE MemAgrees'
  BY <1>14, BeginSets DEF Toggle, Begin, Event
<1>15. ASSUME NEW c \in Calls, Lock(c) PROVE MemAgrees'
  BY <1>15, GoSets DEF Lock
<1>16. ASSUME NEW c \in Calls, Query(c) PROVE MemAgrees'
  BY <1>16, QuerySets DEF Query
<1>17. ASSUME NEW c \in Calls, QueueFiles(c) PROVE MemAgrees'
  BY <1>17, StopSets DEF QueueFiles
<1>18. ASSUME NEW c \in Calls, QueueFails(c) PROVE MemAgrees'
  BY <1>18, StopSets DEF QueueFails, Fault
<1>19. ASSUME NEW a \in Actors, SaveOpen(a) PROVE MemAgrees'
  BY <1>19, GoSets DEF SaveOpen
<1>20. ASSUME NEW a \in Actors, SaveWrite(a) PROVE MemAgrees'
  BY <1>20, GoSets, StopSets DEF SaveWrite
<1>21. ASSUME NEW a \in Actors, SaveFails(a) PROVE MemAgrees'
  <2>1. CASE actor[a].op = "toggle"
    BY <1>21, <2>1 DEF SaveFails
  <2>2. CASE actor[a].op # "toggle"
    <3>1. \A c \in Calls : Toggling(c)' <=> Toggling(c)
      BY <1>21, <2>2, StopSets DEF SaveFails
    <3> QED BY <1>21, <3>1 DEF SaveFails
  <2> QED BY <2>1, <2>2
<1>22. CASE UNCHANGED vars
  BY <1>22 DEF vars, disk, history
<1> QED
  BY <1>1, <1>2, <1>3, <1>4, <1>5, <1>6, <1>7, <1>8, <1>9, <1>10, <1>11, <1>12, <1>13, <1>14, <1>15, <1>16, <1>17, <1>18, <1>19, <1>20, <1>21, <1>22 DEF Next, Call, Cycle

\* The file stays the choices, with the call that saves, if no other does.
LEMMA FileAgreesStep == Inv /\ Agree /\ [Next]_vars => FileAgrees'
<1> SUFFICES ASSUME Inv, Agree, [Next]_vars PROVE FileAgrees'
  OBVIOUS
<1> USE ActorsDiffer, InvGives DEF Sets, Saving, Queueing, Toggling, Actors, disk, history, Shape, Holder, Agree, FileAgrees
<1>1. ASSUME Start PROVE FileAgrees'
  <2>1. SUFFICES ASSUME ~cut'
        PROVE  ~Saving(Handler)' /\ file' = Whole(wish') /\ \A c \in Calls : actor'[c] = Idle
    BY <1>1 DEF Start, Idle
  <2>2. \A c \in Calls : actor[c] = Idle /\ actor'[c] = actor[c]
    BY <1>1 DEF Start
  <2>3. ~cut /\ ~overlap
    BY <1>1, <2>1 DEF Start
  <2>4. file = Whole(wish)
    BY <2>2, <2>3 DEF Idle
  <2> QED BY <1>1, <2>2, <2>3, <2>4 DEF Start, Whole
<1>2. ASSUME Kill PROVE FileAgrees'
  <2>1. ~cut' => ~Saving(Handler)'
    BY <1>2, KillSets DEF Kill
  <2>2. \A c \in Calls : actor'[c].pc = "idle"
    BY <1>2, KillSets DEF Idle
  <2>3. SUFFICES ASSUME ~cut', ~overlap' PROVE file' = Whole(wish')
    BY <2>1, <2>2
  <2>4. ~cut /\ ~overlap /\ (\A c \in Calls : actor[c].pc # "write") /\ file' = file
    BY <1>2, <2>3 DEF Kill
  <2>5. CASE \A c \in Calls : actor[c].pc # "lock"
    <3>1. wish' = wish
      BY <1>2, <2>5 DEF Kill
    <3> QED BY <2>4, <2>5, <3>1
  <2>6. CASE \E c \in Calls : actor[c].pc = "lock"
    <3>1. PICK c \in Calls : actor[c].pc = "lock" /\ wish' = Apply(actor[c].op, actor[c].arg, wish)
      BY <1>2, <2>6 DEF Kill
    <3> QED BY <2>4, <3>1
  <2> QED BY <2>5, <2>6
<1>3. ASSUME HandlerQueue PROVE FileAgrees'
  BY <1>3, StopSets DEF HandlerQueue
<1>4. ASSUME CycleStart PROVE FileAgrees'
  BY <1>4 DEF CycleStart
<1>5. ASSUME CycleEnd PROVE FileAgrees'
  BY <1>5 DEF CycleEnd
<1>6. ASSUME Decide PROVE FileAgrees'
  BY <1>6 DEF Decide
<1>7. ASSUME QueueItem PROVE FileAgrees'
  BY <1>7 DEF QueueItem, Fault
<1>8. ASSUME NEW f \in Folders, StoreItem(f) PROVE FileAgrees'
  BY <1>8 DEF StoreItem
<1>9. ASSUME NEW f \in Folders, Download(f) PROVE FileAgrees'
  BY <1>9 DEF Download, Fault
<1>10. ASSUME NEW f \in Folders, HandlerStart(f) PROVE FileAgrees'
  BY <1>10, HandlerStartSets DEF HandlerStart, Event
<1>11. ASSUME NEW f \in Folders, RemoteChange(f) PROVE FileAgrees'
  BY <1>11 DEF RemoteChange, Event
<1>12. ASSUME NEW c \in Calls, NEW f \in Folders, Add(c, f) PROVE FileAgrees'
  BY <1>12, BeginAgrees DEF Add
<1>13. ASSUME NEW c \in Calls, NEW f \in Folders, Remove(c, f) PROVE FileAgrees'
  BY <1>13, BeginAgrees DEF Remove
<1>14. ASSUME NEW c \in Calls, Toggle(c) PROVE FileAgrees'
  BY <1>14, BeginAgrees DEF Toggle
<1>15. ASSUME NEW c \in Calls, Lock(c) PROVE FileAgrees'
  BY <1>15, GoSets DEF Lock
<1>16. ASSUME NEW c \in Calls, Query(c) PROVE FileAgrees'
  BY <1>16, QuerySets DEF Query
<1>17. ASSUME NEW c \in Calls, QueueFiles(c) PROVE FileAgrees'
  BY <1>17, StopSets DEF QueueFiles
<1>18. ASSUME NEW c \in Calls, QueueFails(c) PROVE FileAgrees'
  BY <1>18, StopSets DEF QueueFails, Fault
<1>19. ASSUME NEW a \in Actors, SaveOpen(a) PROVE FileAgrees'
  BY <1>19, GoSets DEF SaveOpen
<1>20. ASSUME NEW a \in Actors, SaveWrite(a) PROVE FileAgrees'
  <2>1. SUFFICES ASSUME ~cut PROVE FileAgrees'
    BY <1>20 DEF SaveWrite
  <2>2. a \in Calls /\ actor[a].pc = "write" /\ UNCHANGED <<overlap, cut>> /\ a # Handler
    BY <1>20, <2>1 DEF SaveWrite
  <2>3. actor'[Handler] = actor[Handler]
    BY <1>20, <2>2, GoSets, StopSets DEF SaveWrite
  <2>4. SUFFICES ASSUME ~overlap PROVE FileAgrees'
    BY <2>1, <2>2, <2>3
  <2>5. /\ \A d \in Calls : d # a => actor[d].pc = "idle"
        /\ actor[a].val = Apply(actor[a].op, actor[a].arg, wish)
        /\ file = Unreadable
    BY <2>1, <2>2, <2>4
  <2>6. file' = Whole(Apply(actor[a].op, actor[a].arg, wish))
    BY <1>20, <2>5 DEF SaveWrite, Unreadable
  <2>7. CASE actor[a].op = "toggle"
    <3>1. /\ \A d \in Calls : actor'[d].pc = "idle"
          /\ wish' = Apply("toggle", {}, wish)
      BY <1>20, <2>2, <2>5, <2>7, StopSets DEF SaveWrite
    <3>2. wish' = Apply("toggle", actor[a].arg, wish)
      BY <3>1 DEF Apply
    <3> QED BY <2>1, <2>2, <2>3, <2>6, <2>7, <3>1, <3>2
  <2>8. CASE actor[a].op # "toggle"
    <3>1. Sets(a, "lock", actor[a].op, actor[a].arg, actor[a].val) /\ wish' = wish
      BY <1>20, <2>2, <2>8, GoSets DEF SaveWrite
    <3> QED BY <2>1, <2>2, <2>3, <2>5, <2>6, <3>1
  <2> QED BY <2>7, <2>8
<1>21. ASSUME NEW a \in Actors, SaveFails(a) PROVE FileAgrees'
  <2>1. SUFFICES ASSUME ~cut' PROVE FileAgrees'
    OBVIOUS
  <2>2. ~cut /\ actor[a].pc = "save" /\ actor[a].op # "toggle" /\ UNCHANGED <<file, wish, overlap>>
    BY <1>21, <2>1 DEF SaveFails
  <2>3. Sets(a, "idle", "default", {}, Default)
    BY <1>21, StopSets DEF SaveFails
  <2> QED BY <2>1, <2>2, <2>3
<1>22. CASE UNCHANGED vars
  BY <1>22 DEF vars, disk, history
<1> QED
  BY <1>1, <1>2, <1>3, <1>4, <1>5, <1>6, <1>7, <1>8, <1>9, <1>10, <1>11, <1>12, <1>13, <1>14, <1>15, <1>16, <1>17, <1>18, <1>19, <1>20, <1>21, <1>22 DEF Next, Call, Cycle

\* A file is given up by queue, cycle or call only to another of them, to the local
\* copy, or to the losses that are named.
LEMMA MemCompleteStep == Inv /\ Complete /\ [Next]_vars => MemComplete'
<1> SUFFICES ASSUME Inv, Complete, [Next]_vars PROVE MemComplete'
  OBVIOUS
<1> USE ActorsDiffer, InvGives DEF Sets, Saving, Queueing, Toggling, Actors, disk, history, Shape, Holder, Complete, MemComplete, Covered
<1>1. ASSUME Start PROVE MemComplete'
  <2>1. SUFFICES ASSUME NEW f \in mem'.folders \intersect entry' PROVE Covered(f)'
    OBVIOUS
  <2>2. /\ mem' = file.val /\ missed' = missed \union (mem'.folders \ wish.folders)
        /\ UNCHANGED <<entry, copy, queue, cycle, actor>>
    BY <1>1 DEF Start
  <2>3. CASE f \in missed'
    BY <2>3
  <2>4. CASE f \notin missed'
    <3>1. f \in file.val.folders \intersect wish.folders \intersect entry
      BY <2>2, <2>4
    <3>2. Covered(f)
      BY <1>1, <3>1 DEF Start, FileComplete
    <3> QED BY <2>2, <3>2
  <2> QED BY <2>3, <2>4
<1>2. ASSUME Kill PROVE MemComplete'
  BY <1>2 DEF Kill, Default
<1>3. ASSUME HandlerQueue PROVE MemComplete'
  BY <1>3, StopSets DEF HandlerQueue
<1>4. ASSUME CycleStart PROVE MemComplete'
  BY <1>4 DEF CycleStart, NoItem
<1>5. ASSUME CycleEnd PROVE MemComplete'
  BY <1>5 DEF CycleEnd
<1>6. ASSUME Decide PROVE MemComplete'
  BY <1>6 DEF Decide
<1>7. ASSUME QueueItem PROVE MemComplete'
  BY <1>7 DEF QueueItem, Fault
<1>8. ASSUME NEW f \in Folders, StoreItem(f) PROVE MemComplete'
  BY <1>8 DEF StoreItem
<1>9. ASSUME NEW f \in Folders, Download(f) PROVE MemComplete'
  <2>1. SUFFICES ASSUME NEW g \in mem.folders \intersect entry PROVE Covered(g)'
    BY <1>9 DEF Download
  <2>2. Covered(g) /\ g \in Folders /\ UNCHANGED <<actor, cycle>> /\ queue' = queue \ {f}
    BY <1>9, <2>1 DEF Download
  <2>3. CASE g = f
    BY <1>9, <2>2, <2>3 DEF Download
  <2>4. CASE g # f
    BY <1>9, <2>2, <2>4 DEF Download
  <2> QED BY <2>3, <2>4
<1>10. ASSUME NEW f \in Folders, HandlerStart(f) PROVE MemComplete'
  BY <1>10, HandlerStartSets DEF HandlerStart, Event
<1>11. ASSUME NEW f \in Folders, RemoteChange(f) PROVE MemComplete'
  BY <1>11 DEF RemoteChange, Event
<1>12. ASSUME NEW c \in Calls, NEW f \in Folders, Add(c, f) PROVE MemComplete'
  BY <1>12, BeginSets DEF Add, Begin, Event
<1>13. ASSUME NEW c \in Calls, NEW f \in Folders, Remove(c, f) PROVE MemComplete'
  BY <1>13, BeginSets DEF Remove, Begin, Event
<1>14. ASSUME NEW c \in Calls, Toggle(c) PROVE MemComplete'
  <2>1. mem'.folders = mem.folders
    BY <1>14 DEF Toggle, Apply
  <2>2. UNCHANGED <<entry, copy, queue, missed, cycle>> /\ actor[c].pc = "idle"
    BY <1>14 DEF Toggle, Begin
  <2>3. \A d \in Calls : d # c => actor'[d] = actor[d]
    BY <1>14, BeginSets DEF Toggle
  <2> QED BY <2>1, <2>2, <2>3
<1>15. ASSUME NEW c \in Calls, Lock(c) PROVE MemComplete'
  <2>1. mem'.folders \subseteq mem.folders \union {f \in actor[c].arg : actor[c].op = "add"}
    BY <1>15 DEF Lock, Apply
  <2>2. Sets(c, "query", actor[c].op, actor[c].arg, actor[c].val) /\ actor[c].pc = "lock"
    BY <1>15, GoSets DEF Lock
  <2>3. UNCHANGED <<entry, copy, queue, missed, cycle>>
    BY <1>15 DEF Lock
  <2> QED BY <2>1, <2>2, <2>3
<1>16. ASSUME NEW c \in Calls, Query(c) PROVE MemComplete'
  <2>1. Sets(c, "queue", actor[c].op, {f \in actor[c].arg \intersect entry : actor[c].op = "add"},
             actor[c].val)
    BY <1>16, QuerySets
  <2>2. UNCHANGED <<mem, entry, copy, queue, missed, cycle>>
    BY <1>16 DEF Query
  <2> QED BY <2>1, <2>2
<1>17. ASSUME NEW c \in Calls, QueueFiles(c) PROVE MemComplete'
  BY <1>17, StopSets DEF QueueFiles
<1>18. ASSUME NEW c \in Calls, QueueFails(c) PROVE MemComplete'
  BY <1>18, StopSets DEF QueueFails, Fault
<1>19. ASSUME NEW a \in Actors, SaveOpen(a) PROVE MemComplete'
  BY <1>19, GoSets DEF SaveOpen
<1>20. ASSUME NEW a \in Actors, SaveWrite(a) PROVE MemComplete'
  BY <1>20, GoSets, StopSets DEF SaveWrite
<1>21. ASSUME NEW a \in Actors, SaveFails(a) PROVE MemComplete'
  BY <1>21, StopSets DEF SaveFails, Fault
<1>22. CASE UNCHANGED vars
  BY <1>22 DEF vars, disk, history
<1> QED
  BY <1>1, <1>2, <1>3, <1>4, <1>5, <1>6, <1>7, <1>8, <1>9, <1>10, <1>11, <1>12, <1>13, <1>14, <1>15, <1>16, <1>17, <1>18, <1>19, <1>20, <1>21, <1>22 DEF Next, Call, Cycle

\* A start that brings back a folder finds its files as they were left.
LEMMA FileCompleteStep == Inv /\ Complete /\ [Next]_vars => FileComplete'
<1> SUFFICES ASSUME Inv, Complete, [Next]_vars PROVE FileComplete'
  OBVIOUS
<1> USE ActorsDiffer, InvGives DEF Sets, Saving, Queueing, Toggling, Actors, disk, history, Shape, Holder, Complete, FileComplete, Covered, Adds
<1>1. ASSUME Start PROVE FileComplete'
  <2>1. /\ up' /\ ~up /\ mem' = file.val /\ file' = Whole(file.val)
        /\ UNCHANGED <<actor, wish>>
    BY <1>1 DEF Start
  <2>2. \A c \in Calls : actor[c].pc = "idle"
    BY <2>1 DEF Idle
  <2> QED BY <2>1, <2>2 DEF Whole
<1>2. ASSUME Kill PROVE FileComplete'
  <2>1. (\A c \in Calls : actor'[c].pc = "idle") /\ ~up' /\ up
    BY <1>2, KillSets DEF Kill, Idle
  <2>2. SUFFICES ASSUME NEW f \in file'.val.folders \intersect wish'.folders \intersect entry'
                 PROVE  Covered(f)'
    BY <2>1
  <2>3. UNCHANGED <<file, entry, copy, queue>> /\ f \in file.val.folders /\ f \in entry
    BY <1>2, <2>2 DEF Kill
  <2>4. /\ missed \union cycle.item \subseteq missed'
        /\ \A c \in Calls : Adds(c, f) /\ actor[c].pc \in {"lock", "query", "queue"} => f \in missed'
    BY <1>2 DEF Kill
  <2>5. CASE f \in mem.folders
    BY <2>3, <2>4, <2>5 DEF MemComplete, Covered
  <2>6. CASE f \notin mem.folders /\ f \in wish.folders
    BY <2>1, <2>3, <2>4, <2>6
  <2>7. CASE f \notin wish.folders
    <3>1. PICK c \in Calls : actor[c].pc = "lock" /\ wish' = Apply(actor[c].op, actor[c].arg, wish)
      BY <1>2, <2>2, <2>7 DEF Kill
    <3>2. Adds(c, f)
      BY <2>2, <2>7, <3>1 DEF Apply
    <3> QED BY <2>4, <3>1, <3>2
  <2> QED BY <2>5, <2>6, <2>7
<1>3. ASSUME HandlerQueue PROVE FileComplete'
  BY <1>3, StopSets DEF HandlerQueue
<1>4. ASSUME CycleStart PROVE FileComplete'
  BY <1>4 DEF CycleStart
<1>5. ASSUME CycleEnd PROVE FileComplete'
  BY <1>5 DEF CycleEnd
<1>6. ASSUME Decide PROVE FileComplete'
  <2>1. up /\ UNCHANGED <<up, mem, file, actor, wish>>
    BY <1>6 DEF Decide, NoItem
  <2> QED BY <2>1
<1>7. ASSUME QueueItem PROVE FileComplete'
  BY <1>7 DEF QueueItem, Fault
<1>8. ASSUME NEW f \in Folders, StoreItem(f) PROVE FileComplete'
  BY <1>8 DEF StoreItem
<1>9. ASSUME NEW f \in Folders, Download(f) PROVE FileComplete'
  <2>1. up /\ UNCHANGED <<up, mem, file, actor, wish>>
    BY <1>9 DEF Download, NoItem
  <2> QED BY <2>1
<1>10. ASSUME NEW f \in Folders, HandlerStart(f) PROVE FileComplete'
  BY <1>10, HandlerStartSets DEF HandlerStart, Event
<1>11. ASSUME NEW f \in Folders, RemoteChange(f) PROVE FileComplete'
  BY <1>11 DEF RemoteChange, Event
<1>12. ASSUME NEW c \in Calls, NEW f \in Folders, Add(c, f) PROVE FileComplete'
  <2>1. Sets(c, "save", "add", {f}, Apply("add", {f}, mem))
    BY <1>12, BeginSets DEF Add
  <2>2. UNCHANGED <<up, mem, file, wish>> /\ actor[c].pc = "idle" /\ up
    BY <1>12 DEF Add, Begin
  <2>3. \A g \in actor'[c].val.folders : g \in mem'.folders \/ Adds(c, g)'
    BY <2>1, <2>2 DEF Apply
  <2>4. \A d \in Calls : d # c => actor'[d] = actor[d]
    BY <2>1
  <2>5. \A d \in Calls, g \in Folders :
           actor[d].pc = "lock" /\ Adds(d, g) => actor'[d].pc = "lock" /\ Adds(d, g)'
    BY <2>2, <2>4
  <2>6. \A d \in Calls : Saving(d)' => d = c \/ Saving(d)
    BY <2>4
  <2>7. \A x \in wish.folders : x \in Folders
    BY Records DEF Inv, TypeOK, Types
  <2> QED BY <2>2, <2>3, <2>4, <2>5, <2>6, <2>7
<1>13. ASSUME NEW c \in Calls, NEW f \in Folders, Remove(c, f) PROVE FileComplete'
  <2>1. Sets(c, "save", "remove", {f}, Apply("remove", {f}, mem))
    BY <1>13, BeginSets DEF Remove
  <2>2. UNCHANGED <<up, mem, file, wish>> /\ actor[c].pc = "idle" /\ up
    BY <1>13 DEF Remove, Begin
  <2>3. \A g \in actor'[c].val.folders : g \in mem'.folders \/ Adds(c, g)'
    BY <2>1, <2>2 DEF Apply
  <2>4. \A d \in Calls : d # c => actor'[d] = actor[d]
    BY <2>1
  <2>5. \A d \in Calls, g \in Folders :
           actor[d].pc = "lock" /\ Adds(d, g) => actor'[d].pc = "lock" /\ Adds(d, g)'
    BY <2>2, <2>4
  <2>6. \A d \in Calls : Saving(d)' => d = c \/ Saving(d)
    BY <2>4
  <2>7. \A x \in wish.folders : x \in Folders
    BY Records DEF Inv, TypeOK, Types
  <2> QED BY <2>2, <2>3, <2>4, <2>5, <2>6, <2>7
<1>14. ASSUME NEW c \in Calls, Toggle(c) PROVE FileComplete'
  <2>1. mem'.folders = mem.folders /\ Apply("toggle", {}, mem).folders = mem.folders
    BY <1>14 DEF Toggle, Apply
  <2>2. UNCHANGED <<up, file, wish>> /\ actor[c].pc = "idle" /\ up
    BY <1>14 DEF Toggle, Begin
  <2>3. Sets(c, "save", "toggle", {}, Apply("toggle", {}, mem))
    BY <1>14, BeginSets DEF Toggle
  <2> QED BY <2>1, <2>2, <2>3
<1>15. ASSUME NEW c \in Calls, Lock(c) PROVE FileComplete'
  <2>1. /\ actor[c].op \in {"add", "remove"} /\ actor[c].pc = "lock"
        /\ Sets(c, "query", actor[c].op, actor[c].arg, actor[c].val)
        /\ up /\ UNCHANGED <<up, file>>
    BY <1>15, GoSets DEF Lock, Idle
  <2>2. \A f \in wish'.folders \ wish.folders : f \in mem'.folders
    BY <1>15, <2>1 DEF Lock, Apply
  <2>3. \A f \in wish'.folders : f \in mem.folders \/ Adds(c, f) => f \in mem'.folders
    BY <1>15, <2>1 DEF Lock, Apply
  <2>4. \A d \in Calls : Saving(d)' => d # c /\ Saving(d) /\ actor'[d] = actor[d]
    BY <2>1
  <2>5. ASSUME NEW f \in file'.val.folders \intersect wish'.folders
        PROVE  f \in mem'.folders \/ \E d \in Calls : actor'[d].pc = "lock" /\ Adds(d, f)'
    <3>1. CASE f \in wish.folders /\ f \notin mem.folders
      <4>1. PICK d \in Calls : actor[d].pc = "lock" /\ Adds(d, f)
        BY <2>1, <2>5, <3>1
      <4> QED BY <2>1, <2>3, <2>5, <4>1
    <3> QED BY <2>2, <2>3, <2>5, <3>1
  <2>6. ASSUME NEW d \in Calls, Saving(d)', NEW f \in actor'[d].val.folders \intersect wish'.folders
        PROVE  f \in mem'.folders \/ Adds(d, f)'
    BY <2>2, <2>3, <2>4, <2>6
  <2> QED BY <2>1, <2>5, <2>6
<1>16. ASSUME NEW c \in Calls, Query(c) PROVE FileComplete'
  <2>1. /\ Sets(c, "queue", actor[c].op, {f \in actor[c].arg \intersect entry : actor[c].op = "add"},
             actor[c].val) /\ actor[c].pc = "query"
    BY <1>16, QuerySets DEF Query
  <2>2. UNCHANGED <<up, mem, file, wish, entry>> /\ up
    BY <1>16, <2>1 DEF Query, Idle
  <2> QED BY <2>1, <2>2
<1>17. ASSUME NEW c \in Calls, QueueFiles(c) PROVE FileComplete'
  BY <1>17, StopSets DEF QueueFiles
<1>18. ASSUME NEW c \in Calls, QueueFails(c) PROVE FileComplete'
  BY <1>18, StopSets DEF QueueFails, Fault
<1>19. ASSUME NEW a \in Actors, SaveOpen(a) PROVE FileComplete'
  <2>1. /\ Sets(a, "write", actor[a].op, actor[a].arg, actor[a].val) /\ actor[a].pc = "save"
    BY <1>19, GoSets DEF SaveOpen
  <2>2. UNCHANGED <<up, mem, wish>> /\ file'.val.folders = {}
    BY <1>19, <2>1 DEF SaveOpen, Unreadable, Default
  <2> QED BY <2>1, <2>2
<1>20. ASSUME NEW a \in Actors, SaveWrite(a) PROVE FileComplete'
  <2>1. /\ UNCHANGED <<up, mem, entry>> /\ wish'.folders = wish.folders /\ actor[a].pc = "write"
    BY <1>20 DEF SaveWrite, Apply
  <2>2. file'.val.folders \subseteq actor[a].val.folders
    BY <1>20 DEF SaveWrite, Unreadable, Whole, Default
  <2>3. /\ \A b \in Actors : b # a => actor'[b] = actor[b]
        /\ actor'[a].pc \notin {"save", "write"}
    <3>1. CASE actor[a].op = "toggle"
      BY <1>20, <3>1, StopSets DEF SaveWrite
    <3>2. CASE actor[a].op # "toggle"
      BY <1>20, <3>2, GoSets DEF SaveWrite
    <3> QED BY <3>1, <3>2
  <2>4. CASE a = Handler
    BY <2>1, <2>2, <2>3, <2>4 DEF Default
  <2>5. CASE a \in Calls
    <3>1. up
      BY <2>1, <2>5 DEF Idle
    <3>2. \A f \in actor[a].val.folders \intersect wish.folders : f \in mem.folders \/ Adds(a, f)
      BY <2>1, <2>5
    <3>3. \A f \in Folders : Adds(a, f) => actor'[a].pc = "lock" /\ Adds(a, f)'
      BY <1>20, <2>5, GoSets, ActorsDiffer DEF SaveWrite
    <3>4. \A f \in actor[a].val.folders : f \in Folders
      BY <2>5, Records
    <3> QED BY <2>1, <2>2, <2>3, <2>5, <3>1, <3>2, <3>3, <3>4
  <2> QED BY <2>4, <2>5
<1>21. ASSUME NEW a \in Actors, SaveFails(a) PROVE FileComplete'
  BY <1>21, StopSets DEF SaveFails, Fault
<1>22. CASE UNCHANGED vars
  BY <1>22 DEF vars, disk, history
<1> QED
  BY <1>1, <1>2, <1>3, <1>4, <1>5, <1>6, <1>7, <1>8, <1>9, <1>10, <1>11, <1>12, <1>13, <1>14, <1>15, <1>16, <1>17, <1>18, <1>19, <1>20, <1>21, <1>22 DEF Next, Call, Cycle

-----------------------------------------------------------------------------
\* At the start nothing is at work, nothing is chosen and nothing is known.
LEMMA InitAll == Init => Inv /\ Agree /\ Complete
<1> SUFFICES ASSUME Init PROVE Inv /\ Agree /\ Complete
  OBVIOUS
<1>1. \A a \in Actors : actor[a] = Idle
  BY DEF Init
<1>2. Types
  <2>1. up \in BOOLEAN /\ overlap \in BOOLEAN /\ cut \in BOOLEAN
    BY DEF Init
  <2>2. mem \in Value /\ wish \in Value /\ file \in Content /\ cycle \in Item
    BY Records DEF Init
  <2>3. actor \in [Actors -> Step]
    BY IdleIsStep DEF Init
  <2>4. events \in 0..MaxEvents /\ faults \in 0..MaxFaults
    BY SizesAssumption DEF Init
  <2> QED BY <2>1, <2>2, <2>3, <2>4 DEF Init, Types
<1>3. LockHeld /\ AtRest
  BY <1>1 DEF Init, LockHeld, AtRest, Actors
<1>4. Shape /\ Holder
  BY <1>1 DEF Init, Shape, Holder, Toggling, Saving, Queueing, Actors, Idle, NoItem
<1>5. Agree
  BY <1>1 DEF Init, Agree, MemAgrees, FileAgrees, Saving, Actors, Idle
<1>6. Complete
  BY <1>1 DEF Init, Complete, MemComplete, FileComplete, Saving, Actors, Idle, Default, Whole
<1> QED BY <1>2, <1>3, <1>4, <1>5, <1>6 DEF Inv, TypeOK

\* Every step keeps who is where.
LEMMA InvStep == Inv /\ [Next]_vars => Inv'
BY ShapeStep, HolderStep, LockStep, RestStep, TypesStep DEF Inv, TypeOK

\* The invariant is inductive with the agreement, and with the completeness.
LEMMA Invariant == Spec => [](Inv /\ Agree /\ Complete)
<1>1. Init => Inv /\ Agree /\ Complete
  BY InitAll
<1>2. (Inv /\ Agree /\ Complete) /\ [Next]_vars => (Inv /\ Agree /\ Complete)'
  BY InvStep, MemAgreesStep, FileAgreesStep, MemCompleteStep, FileCompleteStep
     DEF Agree, Complete
<1> QED
  BY <1>1, <1>2, PTL DEF Spec

-----------------------------------------------------------------------------
\* The settings, the lock and the steps of calls, cycle and file handler stay in
\* their sets; the lock belongs to a call at work; a daemon that is down does and
\* holds nothing.
THEOREM TypeCorrect == Spec => []TypeOK
<1>1. Inv => TypeOK
  BY DEF Inv
<1> QED
  BY <1>1, Invariant, PTL

\* Whatever calls overlap, the daemon obeys what the calls that took effect chose,
\* and starts with it again if they did not overlap.
THEOREM ChoicesAreKept == Spec => []ChoicesKept
<1>1. Agree => ChoicesKept
  BY DEF Agree, MemAgrees, FileAgrees, ChoicesKept, Quiet, Toggling, Saving, Actors
<1> QED
  BY <1>1, Invariant, PTL

\* No file of a sync folder is forgotten between the call that adds the folder and
\* the cycle that stores the file, in whatever order they come.
THEOREM FoldersAreComplete == Spec => []FolderComplete
<1>1. Inv /\ Complete => FolderComplete
  BY DEF Complete, MemComplete, FolderComplete, Covered
<1> QED
  BY <1>1, Invariant, PTL

===============================================================================
