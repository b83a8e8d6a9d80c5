------------------------------ MODULE Shutdown -------------------------------
(***************************************************************************)
(* The graceful shutdown of pipitor (src/app/shutdown.rs, and its use in   *)
(* src/app.rs): the application waits until every task that posts a tweet  *)
(* has dropped its handle.  Handles share one Arc; the last one to go is   *)
(* to wake the waiting application through an AtomicWaker.                 *)
(*                                                                         *)
(* The tasks run on the worker threads of the runtime, the application on  *)
(* the main thread: a step is one atomic operation on the Arc's count or   *)
(* on the waker.                                                           *)
(***************************************************************************)
EXTENDS Integers, FiniteSets

CONSTANT Tasks    \* as many tasks as may be alive at once

ASSUME TasksAssumption == IsFiniteSet(Tasks)

VARIABLES
    main,     \* where the application is
    count,    \* the strong count of `Inner`, the application's own handle included
    waker,    \* the AtomicWaker holds the application's waker
    woken,    \* the application has been woken and not yet polled
    task      \* what each task is doing, "none" if it has no handle

shutdownVars == <<main, count, waker, woken, task>>

ShutdownTypeOK ==
    /\ main \in {"serving", "draining", "check", "register", "waiting", "ready", "exited"}
    /\ count \in Nat
    /\ waker \in BOOLEAN /\ woken \in BOOLEAN
    /\ task \in [Tasks -> {"none", "running", "wake", "release"}]

ShutdownInit ==
    /\ main = "serving"
    /\ count = 1
    /\ waker = FALSE /\ woken = FALSE
    /\ task = [t \in Tasks |-> "none"]

------------------------------------------------------------------------------
(* The application.                                                          *)

\* `Sender` clones the handle into each task it spawns, while the application serves or
\* exhausts the list timeline on its way down.
Spawn(t) ==
    /\ main \in {"serving", "draining"}
    /\ task[t] = "none"
    /\ task' = [task EXCEPT ![t] = "running"]
    /\ count' = count + 1
    /\ UNCHANGED <<main, waker, woken>>

\* `App::poll` takes a wake from an earlier wait.
Serve ==
    /\ main = "serving" /\ woken
    /\ woken' = FALSE
    /\ UNCHANGED <<main, count, waker, task>>

\* `App::shutdown`, by a signal, by an IPC request or in `App::reset`.
StartShutdown ==
    /\ main = "serving"
    /\ main' = "draining"
    /\ UNCHANGED <<count, waker, woken, task>>

\* The list timeline ends; no more tasks.
Drained ==
    /\ main = "draining"
    /\ main' = "check"
    /\ UNCHANGED <<count, waker, woken, task>>

\* Faulty variant: the application forgets that its own handle counts.
Check_two ==
    /\ main = "check"
    /\ main' = IF count <= 2 THEN "ready" ELSE "register"
    /\ UNCHANGED <<count, waker, woken, task>>

\* `Shutdown::poll` reads the count ...
Check ==
    /\ main = "check"
    /\ main' = IF count = 1 THEN "ready" ELSE "register"
    /\ UNCHANGED <<count, waker, woken, task>>

\* ... and registers only then.
Register ==
    /\ main = "register"
    /\ waker' = TRUE
    /\ main' = "waiting"
    /\ UNCHANGED <<count, woken, task>>

\* A wake makes the runtime poll again.
Poll ==
    /\ main = "waiting" /\ woken
    /\ woken' = FALSE
    /\ main' = "check"
    /\ UNCHANGED <<count, waker, task>>

\* `App::reset` goes on serving, otherwise the process ends.
Finish ==
    /\ main = "ready"
    /\ main' \in {"serving", "exited"}
    /\ UNCHANGED <<count, waker, woken, task>>

\* The main task waits for signals and IPC as well.
OtherWake ==
    /\ main # "exited"
    /\ woken' = TRUE
    /\ UNCHANGED <<main, count, waker, task>>

------------------------------------------------------------------------------
(* A task: `Handle::drop`, then the Arc's own decrement.                     *)

\* Faulty variant: the handle releases the count itself, and the Arc again.
Drop_releases(t) ==
    /\ task[t] = "running"
    /\ task' = [task EXCEPT ![t] = IF count = 2 THEN "wake" ELSE "release"]
    /\ count' = count - 1
    /\ UNCHANGED <<main, waker, woken>>

Drop(t) ==
    /\ task[t] = "running"
    /\ task' = [task EXCEPT ![t] = IF count = 2 THEN "wake" ELSE "release"]
    /\ UNCHANGED <<main, count, waker, woken>>

Wake(t) ==
    /\ task[t] = "wake"
    /\ woken' = (woken \/ waker)
    /\ waker' = FALSE
    /\ task' = [task EXCEPT ![t] = "release"]
    /\ UNCHANGED <<main, count>>

Release(t) ==
    /\ task[t] = "release"
    /\ count' = count - 1
    /\ task' = [task EXCEPT ![t] = "none"]
    /\ UNCHANGED <<main, waker, woken>>

ShutdownNext ==
    \/ Serve \/ StartShutdown \/ Drained \/ Check \/ Register \/ Poll \/ Finish \/ OtherWake
    \/ \E t \in Tasks : Spawn(t) \/ Drop(t) \/ Wake(t) \/ Release(t)

ShutdownSpec == ShutdownInit /\ [][ShutdownNext]_shutdownVars

------------------------------------------------------------------------------

\* A shutdown never completes under a task that is still posting or recording a tweet,
\* whatever is dropped, woken and polled in between: nothing is cut off half way when
\* the process exits.
WaitsForAll == main \in {"ready", "exited"} => \A t \in Tasks : task[t] = "none"

\* shutdown.rs:9: it "waits until all of its handles get dropped".  So once they are,
\* the wait ends: the application is not left asleep with nobody to wake it.
WokenWhenAllDropped == main = "waiting" /\ count = 1 => woken

==============================================================================
