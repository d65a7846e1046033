--------------------------- MODULE SchedulerProofs ---------------------------
(***************************************************************************)
(* Scheduler: mutual exclusion of the sync cycles and the refinement of    *)
(* SerialExecutor, for every set of cycles.                                *)
(*                                                                         *)
(* OneCycleAtATime alone is not inductive: a release hands the mutex to    *)
(* the head of the queue, so the invariant must say that the waiters are   *)
(* exactly queued tasks, each waiting once (QueueOfWaiters), and that the  *)
(* owner is the running task (OwnerRuns).                                  *)
(***************************************************************************)
EXTENDS Scheduler, SequenceTheorems, TLAPS

\* The owner recorded by the mutex is exactly the running cycle.
OwnerRuns == \A c \in Cycles : cycle[c] = "running" <=> owner = c

\* The ticker's guard and the mutex agree while the process is up.
TickerHolds == main # "exited" => (ticker # "asleep" <=> owner = Ticker)

Distinct(s) == \A i, j \in 1..Len(s) : s[i] = s[j] => i = j

\* The waiters of the mutex are the queued tasks, each once.
QueueOfWaiters ==
    /\ Distinct(queue)
    /\ \A i \in 1..Len(queue) : cycle[queue[i]] = "queued"

Inv == TypeOK /\ OwnerRuns /\ TickerHolds /\ QueueOfWaiters

\* What Release leaves, from any map `after` of task states in which the
\* waiters are still queued and no task but the releasing one ran.
LEMMA ReleaseInv ==
    ASSUME TypeOK, QueueOfWaiters,
           NEW after \in [Cycles -> CycleStates],
           \A c \in Cycles : after[c] # "running",
           \A i \in 1..Len(queue) : after[queue[i]] = "queued",
           Release(after)
    PROVE  /\ owner' \in Cycles \union {NoOwner}
           /\ queue' \in Seq(Cycles)
           /\ cycle' \in [Cycles -> CycleStates]
           /\ OwnerRuns'
           /\ QueueOfWaiters'
<1> USE OwnersDiffer
<1>1. CASE queue = << >>
  BY <1>1 DEF Release, TypeOK, OwnerRuns, QueueOfWaiters, Distinct
<1>2. CASE queue # << >>
  <2> DEFINE h == Head(queue)
  <2>1. /\ h \in Cycles
        /\ h = queue[1]
        /\ Len(queue) \in Nat \ {0}
        /\ Tail(queue) \in Seq(Cycles)
        /\ Len(Tail(queue)) = Len(queue) - 1
        /\ \A i \in 1..Len(Tail(queue)) : Tail(queue)[i] = queue[i+1]
    BY <1>2, HeadTailProperties, EmptySeq DEF TypeOK
  <2>2. /\ owner' = h
        /\ cycle' = [after EXCEPT ![h] = "running"]
        /\ queue' = Tail(queue)
    BY <1>2 DEF Release
  <2>3. cycle' \in [Cycles -> CycleStates]
    BY <2>1, <2>2 DEF CycleStates
  <2>4. OwnerRuns'
    BY <2>1, <2>2 DEF OwnerRuns
  <2>5. \A i \in 1..Len(queue') : queue'[i] \in Cycles /\ queue'[i] # h
                                  /\ after[queue'[i]] = "queued"
    BY <2>1, <2>2 DEF QueueOfWaiters, Distinct, TypeOK
  <2>6. \A i \in 1..Len(queue') : cycle'[queue'[i]] = "queued"
    BY <2>2, <2>5
  <2>7. Distinct(queue)'
    <3>1. \A i, j \in 1..Len(queue) : queue[i] = queue[j] => i = j
      BY DEF QueueOfWaiters, Distinct
    <3>2. \A i, j \in 1..Len(queue') : queue'[i] = queue'[j] => i = j
      <4> SUFFICES ASSUME NEW i \in 1..Len(queue'), NEW j \in 1..Len(queue'),
                          queue'[i] = queue'[j]
                   PROVE  i = j
        OBVIOUS
      <4>1. i + 1 \in 1..Len(queue) /\ j + 1 \in 1..Len(queue)
        BY <2>1, <2>2
      <4>2. queue[i+1] = queue[j+1]
        BY <2>1, <2>2
      <4> QED BY <3>1, <4>1, <4>2
    <3> QED BY <3>2 DEF Distinct
  <2> QED BY <2>1, <2>2, <2>3, <2>4, <2>6, <2>7 DEF QueueOfWaiters
<1> QED BY <1>1, <1>2

\* When main.rs starts, no task runs, holds the mutex or waits for it.
LEMMA InitInv == Init => Inv
<1> SUFFICES ASSUME Init PROVE Inv
  OBVIOUS
<1> USE OwnersDiffer DEF Init
<1>1. queue \in Seq(Cycles) /\ Len(queue) = 0
  BY EmptySeq
<1>2. TypeOK
  BY <1>1 DEF TypeOK, CycleStates
<1>3. OwnerRuns /\ TickerHolds
  BY DEF OwnerRuns, TickerHolds
<1>4. QueueOfWaiters
  BY <1>1 DEF QueueOfWaiters, Distinct
<1> QED BY <1>2, <1>3, <1>4 DEF Inv

\* A waiter that arrives is a task that was not waiting.
LEMMA LockInv ==
    ASSUME Inv, NEW c \in Cycles, Lock(c)
    PROVE  Inv'
<1> USE OwnersDiffer
<1>1. CASE owner = NoOwner
  <2>1. /\ owner' = c
        /\ cycle' = [cycle EXCEPT ![c] = "running"]
        /\ queue' = queue
        /\ UNCHANGED <<ticker, aborted, main>>
    BY <1>1 DEF Lock
  <2>2. TypeOK'
    BY <2>1 DEF Inv, TypeOK, CycleStates
  <2>3. OwnerRuns'
    BY <1>1, <2>1 DEF Inv, OwnerRuns, TypeOK
  <2>4. QueueOfWaiters'
    BY <2>1, LenProperties DEF Inv, QueueOfWaiters, Distinct, TypeOK, Lock
  <2>5. TickerHolds'
    BY <1>1, <2>1 DEF Inv, TickerHolds, TypeOK
  <2> QED BY <2>2, <2>3, <2>4, <2>5 DEF Inv
<1>2. CASE owner # NoOwner
  <2>1. /\ owner' = owner
        /\ cycle' = [cycle EXCEPT ![c] = "queued"]
        /\ queue' = Append(queue, c)
        /\ UNCHANGED <<ticker, aborted, main>>
        /\ cycle[c] = "spawned"
    BY <1>2 DEF Lock
  <2>2. /\ queue' \in Seq(Cycles)
        /\ Len(queue') = Len(queue) + 1
        /\ \A i \in 1..Len(queue) : queue'[i] = queue[i]
        /\ queue'[Len(queue) + 1] = c
        /\ Len(queue) \in Nat
    BY <2>1, AppendProperties, LenProperties DEF Inv, TypeOK
  <2>3. TypeOK'
    BY <2>1, <2>2 DEF Inv, TypeOK, CycleStates
  <2>4. OwnerRuns'
    BY <2>1 DEF Inv, OwnerRuns, TypeOK
  <2>5. \A i \in 1..Len(queue) : queue[i] \in Cycles /\ queue[i] # c
    BY <2>1, LenProperties DEF Inv, QueueOfWaiters, TypeOK
  <2>6. \A i \in 1..Len(queue') : cycle'[queue'[i]] = "queued"
    BY <2>1, <2>2, <2>5 DEF Inv, QueueOfWaiters, TypeOK
  <2>7. \A i, j \in 1..Len(queue') : queue'[i] = queue'[j] => i = j
    BY <2>2, <2>5 DEF Inv, QueueOfWaiters, Distinct
  <2>8. TickerHolds'
    BY <2>1 DEF Inv, TickerHolds
  <2> QED BY <2>3, <2>4, <2>6, <2>7, <2>8 DEF Inv, QueueOfWaiters, Distinct
<1> QED BY <1>1, <1>2

\* No tick, cycle, handover or stop breaks the invariant.
LEMMA StepInv == Inv /\ [Next]_vars => Inv'
<1> SUFFICES ASSUME Inv, [Next]_vars PROVE Inv'
  OBVIOUS
<1> USE OwnersDiffer DEF Inv
<1>1. CASE TickLock
  BY <1>1 DEF TickLock, TypeOK, OwnerRuns, TickerHolds, QueueOfWaiters, Distinct
<1>2. CASE TickUnlock
  <2>1. owner = Ticker /\ \A c \in Cycles : cycle[c] # "running"
    BY <1>2 DEF TickUnlock, TickerHolds, OwnerRuns
  <2>2. Release(cycle)
    BY <1>2 DEF TickUnlock
  <2>3. /\ owner' \in Cycles \union {NoOwner}
        /\ queue' \in Seq(Cycles)
        /\ cycle' \in [Cycles -> CycleStates]
        /\ OwnerRuns'
        /\ QueueOfWaiters'
    BY <2>1, <2>2, ReleaseInv DEF TypeOK, QueueOfWaiters
  <2> QED BY <1>2, <2>3 DEF TickUnlock, TypeOK, TickerHolds
<1>3. ASSUME NEW c \in Cycles, Spawn(c) PROVE Inv'
  <2>1. \A i \in 1..Len(queue) : queue[i] \in Cycles /\ queue[i] # c
    BY <1>3, LenProperties DEF Spawn, QueueOfWaiters, TypeOK
  <2> QED BY <1>3, <2>1 DEF Spawn, TypeOK, CycleStates, OwnerRuns, TickerHolds, QueueOfWaiters, Distinct
<1>4. ASSUME NEW c \in Cycles, Lock(c) PROVE Inv'
  BY <1>4, LockInv
<1>5. ASSUME NEW c \in Cycles, Finish(c) PROVE Inv'
  <2> DEFINE after == [cycle EXCEPT ![c] = "done"]
  <2>1. after \in [Cycles -> CycleStates]
    BY DEF TypeOK, CycleStates
  <2>2. \A d \in Cycles : after[d] # "running"
    BY <1>5 DEF Finish, OwnerRuns, TypeOK
  <2>3. \A i \in 1..Len(queue) : after[queue[i]] = "queued"
    BY <1>5, LenProperties DEF Finish, QueueOfWaiters, TypeOK
  <2>4. Release(after)
    BY <1>5 DEF Finish
  <2> HIDE DEF after
  <2>5. /\ owner' \in Cycles \union {NoOwner}
        /\ queue' \in Seq(Cycles)
        /\ cycle' \in [Cycles -> CycleStates]
        /\ OwnerRuns'
        /\ QueueOfWaiters'
    BY <2>1, <2>2, <2>3, <2>4, ReleaseInv
  <2>6. owner = c /\ ticker = "asleep"
    BY <1>5 DEF Finish, OwnerRuns, TickerHolds, TypeOK
  <2> QED BY <1>5, <2>5, <2>6 DEF Finish, TypeOK, TickerHolds
<1>6. CASE Signal
  BY <1>6 DEF Signal, TypeOK, OwnerRuns, TickerHolds, QueueOfWaiters, Distinct
<1>7. CASE StopTaskManager
  BY <1>7 DEF StopTaskManager, TypeOK, OwnerRuns, TickerHolds, QueueOfWaiters, Distinct
<1>8. CASE Exit
  BY <1>8, EmptySeq DEF Exit, TypeOK, CycleStates, OwnerRuns, TickerHolds, QueueOfWaiters, Distinct
<1>9. CASE UNCHANGED vars
  BY <1>9 DEF vars, TypeOK, OwnerRuns, TickerHolds, QueueOfWaiters, Distinct
<1> QED BY <1>1, <1>2, <1>3, <1>4, <1>5, <1>6, <1>7, <1>8, <1>9 DEF Next

\* The invariant holds in every reachable state.
LEMMA SpecInv == Spec => []Inv
<1> QED BY InitInv, StepInv, PTL DEF Spec

\* However many cycles are spawned and wherever main.rs stops, the owner of the
\* mutex, its queue and the states of the cycles are of their kinds.
THEOREM TypeCorrect == Spec => []TypeOK
<1>1. Inv => TypeOK
  BY DEF Inv
<1> QED BY <1>1, SpecInv, PTL

\* Two sync cycles never run at once (simple_scheduler.rs, the mutex
\* sync_running), however many cycles are spawned and wherever main.rs stops.
THEOREM MutualExclusion == Spec => []OneCycleAtATime
<1>1. Inv => OneCycleAtATime
  BY DEF Inv, OwnerRuns, OneCycleAtATime
<1> QED BY <1>1, SpecInv, PTL

\* No cycle is spawned while one runs: the ticker spawns under its own guard.
THEOREM NoPileUp == Spec => SpawnsOnlyWhenIdle
<1>1. Inv /\ [Next]_vars
        => [\A c \in Cycles : cycle[c] = "unborn" /\ cycle'[c] = "spawned"
              => \A d \in Cycles : cycle[d] # "running"]_cycle
  <2> SUFFICES ASSUME Inv, Next,
                      NEW c \in Cycles, cycle[c] = "unborn", cycle'[c] = "spawned",
                      NEW d \in Cycles
               PROVE  cycle[d] # "running"
    BY DEF vars
  <2>1. Spawn(c)
    <3>1. ~(TickLock \/ Signal \/ StopTaskManager \/ Exit)
      BY DEF TickLock, Signal, StopTaskManager, Exit
    <3>2. \A e \in Cycles : ~Lock(e)
      BY DEF Lock, Inv, TypeOK
    <3>3. ~TickUnlock /\ \A e \in Cycles : ~Finish(e)
      BY DEF TickUnlock, Finish, Release, Inv, TypeOK
    <3>4. \A e \in Cycles : Spawn(e) => e = c
      BY DEF Spawn, Inv, TypeOK
    <3> QED BY <3>1, <3>2, <3>3, <3>4 DEF Next
  <2>2. owner = Ticker
    BY <2>1 DEF Spawn, Inv, TickerHolds
  <2> QED BY <2>2, OwnersDiffer DEF Inv, OwnerRuns
<1> QED BY <1>1, SpecInv, PTL DEF Spec, SpawnsOnlyWhenIdle

-----------------------------------------------------------------------------
\* The refinement: each step of the scheduler is a step of SerialExecutor or
\* leaves its phases as they were.

Phases == [c \in Cycles |-> PhaseOf(cycle[c])]

\* The phase of each state of a task.
LEMMA PhaseValues ==
    /\ PhaseOf("unborn") = "idle"
    /\ PhaseOf("spawned") = "pending" /\ PhaseOf("queued") = "pending"
    /\ PhaseOf("running") = "active"
    /\ PhaseOf("done") = "ended" /\ PhaseOf("killed") = "ended"
BY DEF PhaseOf

\* A step that sets the state of one task sets its phase.
LEMMA PhaseUpdate ==
    ASSUME TypeOK, NEW c \in Cycles, NEW s,
           cycle' = [cycle EXCEPT ![c] = s]
    PROVE  Phases' = [Phases EXCEPT ![c] = PhaseOf(s)]
<1>1. \A d \in Cycles : cycle'[d] = IF d = c THEN s ELSE cycle[d]
  BY DEF TypeOK
<1> QED BY <1>1 DEF Phases, PhaseOf

\* A release is the start of a waiter or nothing, when the releaser was the
\* ticker, and the end of the running cycle, with or without a successor,
\* when it was a cycle.
LEMMA TickUnlockStep ==
    ASSUME Inv, TickUnlock
    PROVE  (\E d \in Cycles : Serial!Start(d)) \/ UNCHANGED Phases
<1> USE OwnersDiffer
<1>1. Serial!Active = {}
  BY DEF Serial!Active, Inv, OwnerRuns, TickerHolds, TickUnlock, PhaseOf, TypeOK, CycleStates
<1>2. CASE queue = << >>
  BY <1>2 DEF TickUnlock, Release, Phases
<1>3. CASE queue # << >>
  <2> DEFINE h == Head(queue)
  <2>1. h \in Cycles /\ h = queue[1] /\ Len(queue) \in Nat \ {0}
    BY <1>3, HeadTailProperties, EmptySeq DEF Inv, TypeOK
  <2>2. cycle[h] = "queued"
    BY <2>1 DEF Inv, QueueOfWaiters
  <2>3. cycle' = [cycle EXCEPT ![h] = "running"]
    BY <1>3 DEF TickUnlock, Release
  <2>4. Phases[h] = "pending" /\ Phases' = [Phases EXCEPT ![h] = "active"]
    <3>1. Phases[h] = "pending"
      BY <2>1, <2>2, PhaseValues DEF Phases
    <3>2. Phases' = [Phases EXCEPT ![h] = PhaseOf("running")]
      BY <2>1, <2>3, PhaseUpdate DEF Inv
    <3> QED BY <3>1, <3>2, PhaseValues
  <2> QED BY <1>1, <2>1, <2>4 DEF Serial!Start, Phases
<1> QED BY <1>2, <1>3

\* A cycle that ends hands over to the next waiter, if there is one.
LEMMA FinishStep ==
    ASSUME Inv, NEW c \in Cycles, Finish(c)
    PROVE  Serial!End(c) \/ \E d \in Cycles : Serial!Handover(c, d)
<1>1. cycle[c] = "running" /\ Phases[c] = "active"
  BY DEF Finish, Phases, PhaseOf
<1>2. CASE queue = << >>
  <2>1. cycle' = [cycle EXCEPT ![c] = "done"]
    BY <1>2 DEF Finish, Release
  <2>2. Phases' = [Phases EXCEPT ![c] = "ended"]
    BY <2>1, PhaseUpdate, PhaseValues DEF Inv
  <2> QED BY <1>1, <2>2 DEF Serial!End, Phases
<1>3. CASE queue # << >>
  <2> DEFINE h == Head(queue)
  <2>1. h \in Cycles /\ h = queue[1] /\ Len(queue) \in Nat \ {0}
    BY <1>3, HeadTailProperties, EmptySeq DEF Inv, TypeOK
  <2>2. cycle[h] = "queued" /\ h # c
    BY <1>1, <2>1 DEF Inv, QueueOfWaiters
  <2>3. cycle' = [[cycle EXCEPT ![c] = "done"] EXCEPT ![h] = "running"]
    BY <1>3 DEF Finish, Release
  <2>4. /\ Phases[h] = "pending"
        /\ Phases' = [Phases EXCEPT ![c] = "ended", ![h] = "active"]
    <3>1. Phases[h] = "pending"
      BY <2>1, <2>2, PhaseValues DEF Phases
    <3>2. Phases' = [Phases EXCEPT ![c] = PhaseOf("done"), ![h] = PhaseOf("running")]
      <4>1. \A e \in Cycles :
              cycle'[e] = IF e = h THEN "running" ELSE IF e = c THEN "done" ELSE cycle[e]
        BY <2>1, <2>2, <2>3 DEF Inv, TypeOK
      <4> HIDE DEF h
      <4> DEFINE f == [Phases EXCEPT ![c] = PhaseOf("done"), ![h] = PhaseOf("running")]
      <4>2. \A e \in Cycles :
              f[e] = PhaseOf(IF e = h THEN "running" ELSE IF e = c THEN "done" ELSE cycle[e])
        BY <2>1 DEF Phases, PhaseOf
      <4>3. \A e \in Cycles : Phases'[e] = f[e]
        BY <4>1, <4>2 DEF Phases, PhaseOf
      <4> QED BY <4>3 DEF Phases
    <3> QED BY <3>1, <3>2, PhaseValues
  <2> QED BY <1>1, <2>1, <2>4 DEF Serial!Handover, Phases
<1> QED BY <1>2, <1>3

\* A cycle that locks starts when the mutex is free and waits when it is not.
LEMMA LockStep ==
    ASSUME Inv, NEW c \in Cycles, Lock(c)
    PROVE  Serial!Start(c) \/ UNCHANGED Phases
<1> USE OwnersDiffer
<1>1. cycle[c] = "spawned" /\ Phases[c] = "pending"
  BY DEF Lock, Phases, PhaseOf
<1>2. CASE owner = NoOwner
  <2>1. Serial!Active = {}
    BY <1>2 DEF Serial!Active, Inv, OwnerRuns, PhaseOf, TypeOK, CycleStates
  <2>2. cycle' = [cycle EXCEPT ![c] = "running"]
    BY <1>2 DEF Lock
  <2>3. Phases' = [Phases EXCEPT ![c] = "active"]
    BY <2>2, PhaseUpdate, PhaseValues DEF Inv
  <2> QED BY <1>1, <2>1, <2>3 DEF Serial!Start, Phases
<1>3. CASE owner # NoOwner
  <2>1. cycle' = [cycle EXCEPT ![c] = "queued"]
    BY <1>3 DEF Lock
  <2>2. Phases' = [Phases EXCEPT ![c] = "pending"]
    BY <2>1, PhaseUpdate, PhaseValues DEF Inv
  <2> QED BY <1>1, <2>2 DEF Phases
<1> QED BY <1>2, <1>3

\* The scheduler runs the cycles as the serial executor does.
THEOREM SchedulerIsSerial == Spec => ImplementsSerialExecutor
<1>1. Init => Serial!Init
  BY DEF Init, Serial!Init, PhaseOf
<1>2. Inv /\ [Next]_vars => [Serial!Next]_Phases
  <2> SUFFICES ASSUME Inv, [Next]_vars PROVE [Serial!Next]_Phases
    OBVIOUS
  <2>1. CASE TickUnlock
    BY <2>1, TickUnlockStep DEF Serial!Next
  <2>2. ASSUME NEW c \in Cycles, Spawn(c) PROVE Serial!Next
    <3>1. Phases[c] = "idle"
      BY <2>2, PhaseValues DEF Spawn, Phases
    <3>2. Phases' = [Phases EXCEPT ![c] = "pending"]
      BY <2>2, PhaseUpdate, PhaseValues DEF Spawn, Inv
    <3> QED BY <3>1, <3>2 DEF Serial!Submit, Serial!Next, Phases
  <2>3. ASSUME NEW c \in Cycles, Lock(c) PROVE [Serial!Next]_Phases
    BY <2>3, LockStep DEF Serial!Next
  <2>4. ASSUME NEW c \in Cycles, Finish(c) PROVE Serial!Next
    BY <2>4, FinishStep DEF Serial!Next
  <2>5. CASE Exit
    <3>1. Phases' = [c \in Cycles |-> IF Phases[c] = "idle" THEN "idle" ELSE "ended"]
      BY <2>5 DEF Exit, Phases, PhaseOf, Inv, TypeOK, CycleStates
    <3> QED BY <3>1 DEF Serial!Abandon, Serial!Next, Phases
  <2>6. CASE TickLock \/ Signal \/ StopTaskManager \/ UNCHANGED vars
    BY <2>6 DEF TickLock, Signal, StopTaskManager, vars, Phases
  <2> QED BY <2>1, <2>2, <2>3, <2>4, <2>5, <2>6 DEF Next
<1> QED BY <1>1, <1>2, SpecInv, PTL DEF Spec, ImplementsSerialExecutor, Serial!Spec, Phases
=============================================================================
