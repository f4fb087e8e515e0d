--------------------------- MODULE HardwareWorkers ---------------------------
(***************************************************************************)
(* BoundedHardwareWorkers: calls to hardware APIs that block, run on        *)
(* threads of their own and limited by a semaphore.  A call waits for a    *)
(* permit, then for its operation, each for a limited time, and its future *)
(* may be dropped at both waits; the operation itself cannot be stopped.   *)
(* A permit travels from the semaphore to the call and with the operation  *)
(* to its thread.                                                          *)
(***************************************************************************)
EXTENDS Integers, Sequences

CONSTANTS
    Calls,      \* calls of run(), one operation each
    Permits     \* the permits of the semaphore

ASSUME WorkersAssumption == Permits # {}

VARIABLES
    free,       \* permits in the semaphore
    waiting,    \* the semaphore's queue of calls
    call,       \* "new", "queued", "running" or the result of the call
    operation,  \* "none", "spawned", "active" or "over": the closure of the call
    permit      \* the permits a call's operation holds: none or one

workers == <<free, waiting, call, operation, permit>>

WorkersInit ==
    /\ free = Permits
    /\ waiting = <<>>
    /\ call = [c \in Calls |-> "new"]
    /\ operation = [c \in Calls |-> "none"]
    /\ permit = [c \in Calls |-> {}]

\* run() with a zero timeout fails before it asks for a permit.
Refuse(c) ==
    /\ call[c] = "new"
    /\ call' = [call EXCEPT ![c] = "WorkerFailed"]
    /\ UNCHANGED <<free, waiting, operation, permit>>

\* acquire_owned joins the queue, which is first come, first served.
Enqueue(c) ==
    /\ call[c] = "new"
    /\ call' = [call EXCEPT ![c] = "queued"]
    /\ waiting' = Append(waiting, c)
    /\ UNCHANGED <<free, operation, permit>>

\* The first call in the queue gets a permit and hands it to a blocking thread.
Acquire(c) ==
    /\ call[c] = "queued"
    /\ waiting # <<>> /\ Head(waiting) = c
    /\ \E q \in free :
           /\ free' = free \ {q}
           /\ permit' = [permit EXCEPT ![c] = {q}]
    /\ waiting' = Tail(waiting)
    /\ call' = [call EXCEPT ![c] = "running"]
    /\ operation' = [operation EXCEPT ![c] = "spawned"]

\* Mutant of LeaveQueue: the call returns but keeps its place.
LeaveQueueBehind(c) ==
    /\ call[c] = "queued"
    /\ call' = [call EXCEPT ![c] = "QueueTimeout"]
    /\ UNCHANGED <<free, waiting, operation, permit>>

\* The queue timeout passes, or the call is dropped while it waits.
LeaveQueue(c) ==
    /\ call[c] = "queued"
    /\ call' \in {[call EXCEPT ![c] = "QueueTimeout"], [call EXCEPT ![c] = "Dropped"]}
    /\ \E i \in 1..Len(waiting) :
           /\ waiting[i] = c
           /\ waiting' = SubSeq(waiting, 1, i - 1) \o SubSeq(waiting, i + 1, Len(waiting))
    /\ UNCHANGED <<free, operation, permit>>

StartOperation(c) ==
    /\ operation[c] = "spawned"
    /\ operation' = [operation EXCEPT ![c] = "active"]
    /\ UNCHANGED <<free, waiting, call, permit>>

\* Mutant of OperationEnds: a call nobody waits for any more keeps its permit.
OperationEndsUnlessLate(c) ==
    /\ operation[c] = "active"
    /\ operation' = [operation EXCEPT ![c] = "over"]
    /\ IF call[c] = "running"
       THEN free' = free \union permit[c] /\ permit' = [permit EXCEPT ![c] = {}]
       ELSE UNCHANGED <<free, permit>>
    /\ call' \in IF call[c] = "running"
                 THEN {[call EXCEPT ![c] = "Ok"], [call EXCEPT ![c] = "WorkerFailed"]}
                 ELSE {call}
    /\ UNCHANGED waiting

\* The system call exits, or the operation panics; the permit is dropped with the
\* closure, and the call is told if it still waits.
OperationEnds(c) ==
    /\ operation[c] = "active"
    /\ operation' = [operation EXCEPT ![c] = "over"]
    /\ free' = free \union permit[c]
    /\ permit' = [permit EXCEPT ![c] = {}]
    /\ call' \in IF call[c] = "running"
                 THEN {[call EXCEPT ![c] = "Ok"], [call EXCEPT ![c] = "WorkerFailed"]}
                 ELSE {call}
    /\ UNCHANGED waiting

\* Mutant of GiveUp: the permit belongs to the call, not to its operation.
GiveUpPermit(c) ==
    /\ call[c] = "running"
    /\ call' = [call EXCEPT ![c] = "OperationTimeout"]
    /\ free' = free \union permit[c]
    /\ permit' = [permit EXCEPT ![c] = {}]
    /\ UNCHANGED <<waiting, operation>>

\* The device timeout passes, or the call is dropped: the operation goes on.
GiveUp(c) ==
    /\ call[c] = "running"
    /\ call' \in {[call EXCEPT ![c] = "OperationTimeout"], [call EXCEPT ![c] = "Dropped"]}
    /\ UNCHANGED <<free, waiting, operation, permit>>

WorkersNext ==
    \E c \in Calls :
        \/ Refuse(c) \/ Enqueue(c) \/ Acquire(c) \/ LeaveQueue(c)
        \/ StartOperation(c) \/ OperationEnds(c) \/ GiveUp(c)

WorkersSpec == WorkersInit /\ [][WorkersNext]_workers

\* A call is given a permit and then a thread.
Serve(c) == Acquire(c) \/ StartOperation(c)

\* The runtime hands out free permits and starts blocking tasks.  No operation need ever
\* return (a write to a serial port or to a Bluetooth channel has no timeout), and no timer
\* is needed.
FairWorkersSpec == WorkersSpec /\ \A c \in Calls : WF_workers(Serve(c))

-----------------------------------------------------------------------------

Results == {"Ok", "WorkerFailed", "QueueTimeout", "OperationTimeout", "Dropped"}

WorkersTypeOK ==
    /\ free \subseteq Permits
    /\ waiting \in Seq(Calls)
    /\ call \in [Calls -> {"new", "queued", "running"} \union Results]
    /\ operation \in [Calls -> {"none", "spawned", "active", "over"}]
    /\ permit \in [Calls -> SUBSET Permits]

InDevice(c) == operation[c] \in {"spawned", "active"}

\* Capacity stays occupied until the system call truly exits: each operation on a
\* thread has a permit of its own, so there are never more than permits, however
\* many calls timed out or were dropped.
CapacityIsRespected ==
    /\ \A c \in Calls : InDevice(c) => permit[c] # {} /\ permit[c] \intersect free = {}
    /\ \A c, d \in Calls : InDevice(c) /\ InDevice(d) /\ c # d => permit[c] \intersect permit[d] = {}

\* No permit is lost: those that no operation on a thread holds are free.
PermitsComeBack == \A q \in Permits : q \in free \/ \E c \in Calls : InDevice(c) /\ q \in permit[c]

\* The permits are divided between the semaphore and the operations on threads; this
\* is inductive.
WorkersInv ==
    /\ WorkersTypeOK
    /\ CapacityIsRespected
    /\ PermitsComeBack
    /\ \A c \in Calls : ~InDevice(c) => permit[c] = {}
    /\ \A c \in Calls : call[c] \in {"new", "queued", "QueueTimeout"} => operation[c] = "none"

\* A call that waits for a permit is served or leaves, unless all permits stay with
\* operations that never return: abandoned operations that did return and calls that left
\* the queue never keep the pool from it.
QueuedCallsAreServed ==
    (\A c \in Calls : call[c] = "queued" ~> call[c] # "queued") \/ <>[](free = {})
=============================================================================
