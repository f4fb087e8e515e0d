-------------------------- MODULE CancellationToken --------------------------
(***************************************************************************)
(* CancellationToken of crates/mb-printer-executor: an atomic flag and one *)
(* AtomicWaker, shared by every clone.  Executions poll cancelled(), each  *)
(* as the losing side of its race; callers call cancel() from other        *)
(* threads.  The waker is the one of futures-util, modelled at the grain   *)
(* of its compare-and-swap operations, because its single slot and its     *)
(* two state bits are what decides whether a wakeup is lost.               *)
(***************************************************************************)
CONSTANTS
    Tasks,      \* executions that share the token
    Cancellers, \* threads that call cancel(), once each
    Nobody      \* not a task: the empty slot of the waker

ASSUME TokenAssumption == Nobody \notin Tasks

VARIABLES
    cancelled,   \* Inner.cancelled
    registering, \* AtomicWaker: the task that holds the REGISTERING bit, or Nobody
    waking,      \* AtomicWaker: the WAKING bit
    slot,        \* AtomicWaker: the registered waker, or Nobody
    task,        \* where each execution is
    scheduled,   \* executions that will be polled again
    canceller    \* where each cancel() call is

token == <<cancelled, registering, waking, slot, task, scheduled, canceller>>

TokenInit ==
    /\ cancelled = FALSE
    /\ registering = Nobody
    /\ waking = FALSE
    /\ slot = Nobody
    /\ task = [t \in Tasks |-> "asleep"]
    /\ scheduled = Tasks
    /\ canceller = [c \in Cancellers |-> "idle"]

-----------------------------------------------------------------------------
(* cancelled(): one poll. *)

\* The executor polls its race; the first test of the flag.
Poll(t) ==
    /\ task[t] = "asleep"
    /\ t \in scheduled
    /\ scheduled' = scheduled \ {t}
    /\ task' = [task EXCEPT ![t] = IF cancelled THEN "resolved" ELSE "register"]
    /\ UNCHANGED <<cancelled, registering, waking, slot, canceller>>

\* AtomicWaker::register takes the slot; or it finds a wake in progress and wakes
\* the caller; or it finds another registration and does nothing.
Register(t) ==
    /\ task[t] = "register"
    /\ \/ /\ registering = Nobody /\ ~waking
          /\ registering' = t
          /\ task' = [task EXCEPT ![t] = "store"]
          /\ UNCHANGED scheduled
       \/ /\ registering = Nobody /\ waking
          /\ scheduled' = scheduled \union {t}
          /\ task' = [task EXCEPT ![t] = "recheck"]
          /\ UNCHANGED registering
       \/ /\ registering # Nobody
          /\ task' = [task EXCEPT ![t] = "recheck"]
          /\ UNCHANGED <<registering, scheduled>>
    /\ UNCHANGED <<cancelled, waking, slot, canceller>>

\* The waker is stored while the REGISTERING bit keeps everyone else out.
Store(t) ==
    /\ task[t] = "store"
    /\ slot' = t
    /\ task' = [task EXCEPT ![t] = "release"]
    /\ UNCHANGED <<cancelled, registering, waking, scheduled, canceller>>

\* The slot is released; a wake that came meanwhile left its bit, and the waker
\* just stored is taken out again and woken.
Release(t) ==
    /\ task[t] = "release"
    /\ registering' = Nobody
    /\ \/ /\ ~waking
          /\ UNCHANGED <<slot, waking, scheduled>>
       \/ /\ waking
          /\ slot' = Nobody
          /\ waking' = FALSE
          /\ scheduled' = scheduled \union {t}
    /\ task' = [task EXCEPT ![t] = "recheck"]
    /\ UNCHANGED <<cancelled, canceller>>

\* Mutant of Recheck: the poll is pending once the waker is registered.
RecheckNever(t) ==
    /\ task[t] = "recheck"
    /\ task' = [task EXCEPT ![t] = "asleep"]
    /\ UNCHANGED <<cancelled, registering, waking, slot, scheduled, canceller>>

\* The second test of the flag.
Recheck(t) ==
    /\ task[t] = "recheck"
    /\ task' = [task EXCEPT ![t] = IF cancelled THEN "resolved" ELSE "asleep"]
    /\ UNCHANGED <<cancelled, registering, waking, slot, scheduled, canceller>>

\* The other side of the race makes progress and wakes the execution.
OperationWakes(t) ==
    /\ task[t] = "asleep"
    /\ t \notin scheduled
    /\ scheduled' = scheduled \union {t}
    /\ UNCHANGED <<cancelled, registering, waking, slot, task, canceller>>

-----------------------------------------------------------------------------
(* cancel(). *)

\* Mutant of SetFlag: the waker is used before the flag is set.
SetFlagLast(c) ==
    /\ canceller[c] \in {"idle", "finish"}
    /\ cancelled' = (cancelled \/ canceller[c] = "finish")
    /\ canceller' = [canceller EXCEPT ![c] = IF @ = "idle" THEN "wake" ELSE "done"]
    /\ UNCHANGED <<registering, waking, slot, task, scheduled>>

SetFlag(c) ==
    /\ canceller[c] = "idle"
    /\ cancelled' = TRUE
    /\ canceller' = [canceller EXCEPT ![c] = "wake"]
    /\ UNCHANGED <<registering, waking, slot, task, scheduled>>

\* AtomicWaker::take sets the WAKING bit; only who finds both bits clear goes on.
SetWaking(c) ==
    /\ canceller[c] = "wake"
    /\ waking' = TRUE
    /\ canceller' = [canceller EXCEPT
           ![c] = IF ~waking /\ registering = Nobody THEN "take" ELSE "finish"]
    /\ UNCHANGED <<cancelled, registering, slot, task, scheduled>>

\* The waker is taken out, the bit cleared, the task woken.
TakeWaker(c) ==
    /\ canceller[c] = "take"
    /\ slot' = Nobody
    /\ waking' = FALSE
    /\ scheduled' = scheduled \union ({slot} \ {Nobody})
    /\ canceller' = [canceller EXCEPT ![c] = "finish"]
    /\ UNCHANGED <<cancelled, registering, task>>

\* cancel() returns.
CancelReturns(c) ==
    /\ canceller[c] = "finish"
    /\ canceller' = [canceller EXCEPT ![c] = "done"]
    /\ UNCHANGED <<cancelled, registering, waking, slot, task, scheduled>>

-----------------------------------------------------------------------------

TaskStep(t) == Poll(t) \/ Register(t) \/ Store(t) \/ Release(t) \/ Recheck(t)

CancelStep(c) == SetWaking(c) \/ TakeWaker(c) \/ CancelReturns(c)

TokenNext ==
    \/ \E t \in Tasks : TaskStep(t) \/ OperationWakes(t)
    \/ \E c \in Cancellers : SetFlag(c) \/ CancelStep(c)

\* The runtime polls a scheduled execution and threads keep running; nobody need
\* ever cancel, and the other side of the race need never make progress.
TokenSpec ==
    /\ TokenInit /\ [][TokenNext]_token
    /\ \A t \in Tasks : WF_token(TaskStep(t))
    /\ \A c \in Cancellers : WF_token(CancelStep(c))

-----------------------------------------------------------------------------

TokenTypeOK ==
    /\ cancelled \in BOOLEAN
    /\ registering \in Tasks \union {Nobody}
    /\ waking \in BOOLEAN
    /\ slot \in Tasks \union {Nobody}
    /\ task \in [Tasks -> {"asleep", "register", "store", "release", "recheck", "resolved"}]
    /\ scheduled \subseteq Tasks
    /\ canceller \in [Cancellers -> {"idle", "wake", "take", "finish", "done"}]

\* No wakeup is lost: once a cancel() call has returned, an execution that sleeps
\* on the token is scheduled or will be, whatever the order of the flag, the two
\* tests and the waker's own steps.
NoLostWakeup ==
    \A t \in Tasks :
        (\E c \in Cancellers : canceller[c] = "done") /\ task[t] = "asleep" =>
            t \in scheduled \/ \E c \in Cancellers : canceller[c] = "take" /\ slot = t

\* What makes NoLostWakeup inductive when one execution uses the token: the bits of
\* the waker say who is inside it, cancel() sets the flag first, an execution that
\* sleeps unscheduled has its waker in the slot, and a cancel() that is past the
\* waker's bit leaves another one at the slot if it did not wake the sleeper itself.
TokenInv ==
    /\ TokenTypeOK
    /\ \A t \in Tasks : task[t] \in {"store", "release"} <=> registering = t
    /\ \A c \in Cancellers : canceller[c] = "take" => waking /\ registering = Nobody
    /\ waking => registering # Nobody \/ \E c \in Cancellers : canceller[c] = "take"
    /\ \A c, d \in Cancellers : canceller[c] = "take" /\ canceller[d] = "take" => c = d
    /\ \A c \in Cancellers : canceller[c] # "idle" => cancelled
    /\ waking => \E c \in Cancellers : canceller[c] # "idle"
    /\ \A t \in Tasks : task[t] = "release" => slot = t
    /\ \A t \in Tasks : task[t] = "recheck" /\ ~cancelled => slot = t
    /\ \A t \in Tasks : task[t] = "asleep" /\ t \notin scheduled =>
           /\ slot = t
           /\ \A c \in Cancellers : canceller[c] \in {"finish", "done"} =>
                  \E d \in Cancellers : canceller[d] = "take"

\* A requested cancellation resolves every future that waits for it, without help
\* from the operation it races with.
Resolves == \A t \in Tasks : cancelled ~> task[t] = "resolved"
=============================================================================
