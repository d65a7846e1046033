------------------------------ MODULE Scheduler ------------------------------
(***************************************************************************)
(* The sync task of daemon/src/scheduler/simple_scheduler.rs and the way   *)
(* daemon/src/main.rs starts and stops it.                                 *)
(*                                                                         *)
(* A ticker wakes every 30 s.  It tries the mutex `sync_running`; when it  *)
(* is free it spawns a task for one sync cycle and drops its guard at the  *)
(* end of the `if let`.  The spawned task takes the SAME mutex and runs    *)
(* the cycle under it.  The runtime has several worker threads, so the     *)
(* spawned task may reach `lock().await` while the ticker still holds its  *)
(* guard.  A tick that finds the mutex taken only logs, a stuttering step. *)
(*                                                                         *)
(* tokio's Mutex (external) is fair: waiters queue in arrival order and a  *)
(* release hands the mutex to the first of them.                           *)
(***************************************************************************)
EXTENDS Sequences, Naturals, FiniteSets

CONSTANTS
    Cycles,         \* the tasks the ticker may ever spawn
    Ticker,         \* owner of the mutex: the ticker's try_lock guard
    NoOwner         \* the mutex is free

ASSUME OwnersDiffer == Ticker # NoOwner /\ Ticker \notin Cycles /\ NoOwner \notin Cycles

VARIABLES
    owner,          \* who holds sync_running
    queue,          \* tasks waiting in lock().await, in arrival order
    cycle,          \* the state of every task
    ticker,         \* where the ticker is between two awaits
    aborted,        \* SimpleTaskManager::shutdown has aborted the ticker
    main            \* "up", "draining" after the signal, "exited"

vars == <<owner, queue, cycle, ticker, aborted, main>>

CycleStates == {"unborn", "spawned", "queued", "running", "done", "killed"}

TypeOK ==
    /\ owner \in Cycles \union {Ticker, NoOwner}
    /\ queue \in Seq(Cycles)
    /\ cycle \in [Cycles -> CycleStates]
    /\ ticker \in {"asleep", "locked", "spawned"}
    /\ aborted \in BOOLEAN
    /\ main \in {"up", "draining", "exited"}

Init ==
    /\ owner = NoOwner
    /\ queue = << >>
    /\ cycle = [c \in Cycles |-> "unborn"]
    /\ ticker = "asleep"
    /\ aborted = FALSE
    /\ main = "up"

\* Bound of the model: the ticker wakes while a task is left to spawn.
TaskLeft == \E c \in Cycles : cycle[c] = "unborn"

-----------------------------------------------------------------------------
\* The ticker.

\* Mutant: the result of try_lock is not looked at.
TickLock_Ungated ==
    /\ main # "exited"
    /\ ticker = "asleep"
    /\ ~aborted
    /\ TaskLeft
    /\ ticker' = "locked"
    /\ UNCHANGED <<owner, queue, cycle, aborted, main>>

\* interval.tick() fires and try_lock succeeds.  Tokio cancels an aborted task
\* at its next await, so an aborted ticker does not wake again.
TickLock ==
    /\ main # "exited"
    /\ ticker = "asleep"
    /\ ~aborted
    /\ TaskLeft
    /\ owner = NoOwner
    /\ owner' = Ticker
    /\ ticker' = "locked"
    /\ UNCHANGED <<queue, cycle, aborted, main>>

\* tokio::spawn of the task that will run one cycle.
Spawn(c) ==
    /\ main # "exited"
    /\ ticker = "locked"
    /\ cycle[c] = "unborn"
    /\ cycle' = [cycle EXCEPT ![c] = "spawned"]
    /\ ticker' = "spawned"
    /\ UNCHANGED <<owner, queue, aborted, main>>

\* The mutex passes to the first waiter, or becomes free; `after` is the map of
\* task states the caller leaves.
Release(after) ==
    IF queue = << >>
    THEN /\ owner' = NoOwner
         /\ cycle' = after
         /\ UNCHANGED queue
    ELSE /\ owner' = Head(queue)
         /\ cycle' = [after EXCEPT ![Head(queue)] = "running"]
         /\ queue' = Tail(queue)

\* Mutant: the guard lives on after the `if let`.
TickUnlock_KeepsGuard ==
    /\ main # "exited"
    /\ ticker = "spawned"
    /\ ticker' = "asleep"
    /\ UNCHANGED <<owner, queue, cycle, aborted, main>>

\* The end of the `if let`: the ticker's guard is dropped.
TickUnlock ==
    /\ main # "exited"
    /\ ticker = "spawned"
    /\ ticker' = "asleep"
    /\ Release(cycle)
    /\ UNCHANGED <<aborted, main>>

-----------------------------------------------------------------------------
\* The spawned tasks.

\* Mutants: the task runs without the mutex; it queues the owner, not itself.
Lock_Unchecked(c) ==
    /\ main # "exited"
    /\ cycle[c] = "spawned"
    /\ owner' = c
    /\ cycle' = [cycle EXCEPT ![c] = "running"]
    /\ UNCHANGED <<queue, ticker, aborted, main>>

Lock_QueuesOwner(c) ==
    /\ main # "exited"
    /\ cycle[c] = "spawned"
    /\ owner # NoOwner
    /\ queue' = Append(queue, owner)
    /\ cycle' = [cycle EXCEPT ![c] = "queued"]
    /\ UNCHANGED <<owner, ticker, aborted, main>>

\* lock().await: at once when the mutex is free, otherwise the task queues.
Lock(c) ==
    /\ main # "exited"
    /\ cycle[c] = "spawned"
    /\ \/ /\ owner = NoOwner
          /\ owner' = c
          /\ cycle' = [cycle EXCEPT ![c] = "running"]
          /\ UNCHANGED queue
       \/ /\ owner # NoOwner
          /\ queue' = Append(queue, c)
          /\ cycle' = [cycle EXCEPT ![c] = "queued"]
          /\ UNCHANGED owner
    /\ UNCHANGED <<ticker, aborted, main>>

\* SyncCycle::run returned Ok or Err, or panicked: in each case the guard is
\* dropped with the task.
Finish(c) ==
    /\ main # "exited"
    /\ cycle[c] = "running"
    /\ Release([cycle EXCEPT ![c] = "done"])
    /\ UNCHANGED <<ticker, aborted, main>>

-----------------------------------------------------------------------------
\* Shutdown in main.rs.

\* SIGINT or SIGTERM: ShutdownManager::shutdown broadcasts.
Signal ==
    /\ main = "up"
    /\ main' = "draining"
    /\ UNCHANGED <<owner, queue, cycle, ticker, aborted>>

\* The task-manager task receives the broadcast and runs
\* SimpleTaskManager::shutdown, which aborts the one handle it keeps.
StopTaskManager ==
    /\ main = "draining"
    /\ ~aborted
    /\ aborted' = TRUE
    /\ UNCHANGED <<owner, queue, cycle, ticker, main>>

\* main has waited for the task manager, or for its 30 s timeout, and returns:
\* the runtime is dropped and with it every task that did not finish.
Exit ==
    /\ main = "draining"
    /\ main' = "exited"
    /\ cycle' = [c \in Cycles |->
                    IF cycle[c] \in {"spawned", "queued", "running"}
                    THEN "killed" ELSE cycle[c]]
    /\ owner' = NoOwner
    /\ queue' = << >>
    /\ UNCHANGED <<ticker, aborted>>

Next ==
    \/ TickLock \/ TickUnlock
    \/ \E c \in Cycles : Spawn(c) \/ Lock(c) \/ Finish(c)
    \/ Signal \/ StopTaskManager \/ Exit

\* The runtime polls every ready task.  A cycle returns because each of its
\* requests and statements does (or fails).  Nothing makes a signal arrive.
Fairness ==
    /\ WF_vars(TickUnlock)
    /\ WF_vars(\E c \in Cycles : Spawn(c))
    /\ \A c \in Cycles : WF_vars(Lock(c)) /\ WF_vars(Finish(c))

Spec == Init /\ [][Next]_vars /\ Fairness

-----------------------------------------------------------------------------
\* Properties.

\* Two sync cycles never run at once ("overlap protection",
\* simple_scheduler.rs:29), although the mutex is first taken by the ticker,
\* dropped, and taken again by the task it spawned.
OneCycleAtATime ==
    \A c, d \in Cycles : cycle[c] = "running" /\ cycle[d] = "running" => c = d

\* No cycle is spawned while one runs ("overlap protection"), so that cycles
\* longer than the interval do not pile up: the ticker keeps its guard over the
\* spawn.
SpawnsOnlyWhenIdle ==
    [][\A c \in Cycles : cycle[c] = "unborn" /\ cycle'[c] = "spawned"
          => \A d \in Cycles : cycle[d] # "running"]_cycle

\* A task that was spawned gets the mutex and finishes unless the process
\* exits: the ticker's guard, held while the task is spawned, never blocks it.
SpawnedCycleEnds ==
    \A c \in Cycles : cycle[c] = "spawned" ~> cycle[c] \in {"done", "killed"}

\* The scheduler implements the serial executor.
PhaseOf(s) ==
    IF s = "unborn" THEN "idle"
    ELSE IF s \in {"spawned", "queued"} THEN "pending"
    ELSE IF s = "running" THEN "active" ELSE "ended"

Serial == INSTANCE SerialExecutor WITH phase <- [c \in Cycles |-> PhaseOf(cycle[c])]

ImplementsSerialExecutor == Serial!Spec
=============================================================================
