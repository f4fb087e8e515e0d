---------------------------- MODULE ThreadsProofs ----------------------------
(***************************************************************************)
(* The parts of the SDK in which threads or processes share memory,         *)
(* channels or files: a token used by one execution loses no wakeup, for    *)
(* any number of cancellers; the permits of the hardware workers bound the  *)
(* operations on threads and are never lost, for any number of calls and    *)
(* permits; a blocking call returns what its own plan did, for any number   *)
(* of executions and steps and any capacity of the channels; and a key is   *)
(* executed once, for any number of processes, keys and crashes, and once  *)
(* more only when a power loss took the name of its file away.             *)
(***************************************************************************)
EXTENDS CancellationToken, HardwareWorkers, BlockingClient, Replay, TLAPS

-----------------------------------------------------------------------------
(* The cancellation token *)

\* The invariant holds initially.
LEMMA TokenInvInit == TokenInit => TokenInv
BY TokenAssumption, Zenon DEF TokenInit, TokenInv, TokenTypeOK

\* A step of the execution's poll preserves the invariant.
LEMMA TaskStepInv ==
    ASSUME TokenInv, NEW t \in Tasks, Tasks = {t}, TaskStep(t) \/ OperationWakes(t)
    PROVE  TokenInv'
<1>0. t # Nobody /\ registering \in {t, Nobody} /\ slot \in {t, Nobody}
    BY TokenAssumption DEF TokenInv, TokenTypeOK
<1>1. CASE Poll(t)
    BY <1>0, <1>1 DEF TokenInv, TokenTypeOK, Poll
<1>2. CASE Register(t)
    BY <1>0, <1>2 DEF TokenInv, TokenTypeOK, Register
<1>3. CASE Store(t)
    BY <1>0, <1>3 DEF TokenInv, TokenTypeOK, Store
<1>4. CASE Release(t)
  <2>1. CASE waking
      BY <1>0, <1>4, <2>1, Zenon DEF TokenInv, TokenTypeOK, Release
  <2>2. CASE ~waking
    <3>1. /\ registering = t /\ registering' = Nobody /\ slot = t
          /\ task' = [task EXCEPT ![t] = "recheck"]
          /\ UNCHANGED <<cancelled, slot, waking, scheduled, canceller>>
        BY <1>0, <1>4, <2>2 DEF TokenInv, Release
    <3>2. task'[t] = "recheck" /\ TokenTypeOK'
        BY <3>1 DEF TokenInv, TokenTypeOK
    <3> QED BY <1>0, <2>2, <3>1, <3>2 DEF TokenInv
  <2> QED BY <2>1, <2>2
<1>5. CASE Recheck(t)
    BY <1>0, <1>5 DEF TokenInv, TokenTypeOK, Recheck
<1>6. CASE OperationWakes(t)
    BY <1>0, <1>6 DEF TokenInv, TokenTypeOK, OperationWakes
<1> QED BY <1>1, <1>2, <1>3, <1>4, <1>5, <1>6 DEF TaskStep

\* A step of a cancel() call preserves the invariant.
LEMMA CancelStepInv ==
    ASSUME TokenInv, NEW t \in Tasks, Tasks = {t}, NEW c \in Cancellers, SetFlag(c) \/ CancelStep(c)
    PROVE  TokenInv'
<1>0. t # Nobody /\ registering \in {t, Nobody} /\ slot \in {t, Nobody}
    BY TokenAssumption DEF TokenInv, TokenTypeOK
<1>1. CASE SetFlag(c)
    BY <1>0, <1>1 DEF TokenInv, TokenTypeOK, SetFlag
<1>2. CASE SetWaking(c)
    BY <1>0, <1>2 DEF TokenInv, TokenTypeOK, SetWaking
<1>3. CASE TakeWaker(c)
    BY <1>0, <1>3, Zenon DEF TokenInv, TokenTypeOK, TakeWaker
<1>4. CASE CancelReturns(c)
    BY <1>0, <1>4 DEF TokenInv, TokenTypeOK, CancelReturns
<1> QED BY <1>1, <1>2, <1>3, <1>4 DEF CancelStep

\* A token that one execution waits on loses no wakeup, however many threads call
\* cancel() and however their steps interleave with the poll and the waker.
THEOREM OneExecutionIsWoken ==
    ASSUME NEW t, Tasks = {t}
    PROVE  TokenSpec => []NoLostWakeup
<1>1. TokenInit => TokenInv
    BY TokenInvInit
<1>2. TokenInv /\ [TokenNext]_token => TokenInv'
  <2> SUFFICES ASSUME TokenInv, [TokenNext]_token PROVE TokenInv'
      OBVIOUS
  <2>1. t \in Tasks
      OBVIOUS
  <2>2. CASE UNCHANGED token
      BY <2>2 DEF token, TokenInv, TokenTypeOK
  <2>3. CASE TaskStep(t) \/ OperationWakes(t)
      BY <2>1, <2>3, TaskStepInv
  <2>4. ASSUME NEW c \in Cancellers, SetFlag(c) \/ CancelStep(c) PROVE TokenInv'
      BY <2>1, <2>4, CancelStepInv
  <2> QED BY <2>2, <2>3, <2>4 DEF TokenNext
<1>3. TokenInv => NoLostWakeup
    BY DEF TokenInv, NoLostWakeup
<1> QED BY <1>1, <1>2, <1>3, PTL DEF TokenSpec

-----------------------------------------------------------------------------
(* The hardware workers *)

\* The semaphore has all permits and nothing runs.
LEMMA WorkersInvInit == WorkersInit => WorkersInv
BY DEF WorkersInit, WorkersInv, WorkersTypeOK, CapacityIsRespected, PermitsComeBack, InDevice,
    Results

\* Joining and leaving the queue, and returning early, move no permit.
LEMMA QueueStep ==
    ASSUME WorkersInv, NEW c \in Calls, Refuse(c) \/ Enqueue(c) \/ LeaveQueue(c) \/ GiveUp(c)
    PROVE  WorkersInv'
<1>1. UNCHANGED <<free, operation, permit>>
    BY Zenon DEF Refuse, Enqueue, LeaveQueue, GiveUp
<1>2. call' \in [Calls -> {"new", "queued", "running"} \union Results]
    BY Zenon DEF Refuse, Enqueue, LeaveQueue, GiveUp, WorkersInv, WorkersTypeOK, Results
<1>3. waiting' \in Seq(Calls)
    <2>1. CASE Enqueue(c)
        BY <2>1 DEF Enqueue, WorkersInv, WorkersTypeOK
    <2>2. CASE LeaveQueue(c)
        <3>1. PICK i \in 1..Len(waiting) :
                  waiting' = SubSeq(waiting, 1, i - 1) \o SubSeq(waiting, i + 1, Len(waiting))
            BY <2>2, Zenon DEF LeaveQueue
        <3>2. waiting \in Seq(Calls)
            BY DEF WorkersInv, WorkersTypeOK
        <3>3. SubSeq(waiting, 1, i - 1) \in Seq(Calls)
            BY <3>2
        <3>4. SubSeq(waiting, i + 1, Len(waiting)) \in Seq(Calls)
            BY <3>2
        <3> QED
            BY <3>1, <3>3, <3>4
    <2>3. CASE Refuse(c) \/ GiveUp(c)
        BY <2>3 DEF Refuse, GiveUp, WorkersInv, WorkersTypeOK
    <2> QED
        BY <2>1, <2>2, <2>3
<1>4. \A d \in Calls : call'[d] \in {"new", "queued", "QueueTimeout"} =>
          call[d] \in {"new", "queued", "QueueTimeout"}
    BY Zenon DEF Refuse, Enqueue, LeaveQueue, GiveUp, WorkersInv, WorkersTypeOK
<1> QED
    BY <1>1, <1>2, <1>3, <1>4 DEF WorkersInv, WorkersTypeOK, CapacityIsRespected, PermitsComeBack,
                                   InDevice

\* A permit that was free goes to the operation of the call.
LEMMA AcquireStep ==
    ASSUME WorkersInv, NEW c \in Calls, Acquire(c)
    PROVE  WorkersInv'
<1>1. PICK q \in free : free' = free \ {q} /\ permit' = [permit EXCEPT ![c] = {q}]
    BY Zenon DEF Acquire
<1>2. operation' = [operation EXCEPT ![c] = "spawned"] /\ call' = [call EXCEPT ![c] = "running"]
    BY DEF Acquire
<1>3. waiting' \in Seq(Calls)
    BY DEF Acquire, WorkersInv, WorkersTypeOK
<1>4. operation[c] = "none" /\ permit[c] = {} /\ ~InDevice(c)
    BY DEF Acquire, WorkersInv, WorkersTypeOK, InDevice
<1>5. WorkersTypeOK'
    BY <1>1, <1>2, <1>3 DEF WorkersInv, WorkersTypeOK
<1>6. CapacityIsRespected'
    BY <1>1, <1>2, <1>4 DEF WorkersInv, WorkersTypeOK, CapacityIsRespected, InDevice
<1>7. PermitsComeBack'
    BY <1>1, <1>2, <1>4 DEF WorkersInv, WorkersTypeOK, PermitsComeBack, InDevice
<1> QED
    BY <1>1, <1>2, <1>4, <1>5, <1>6, <1>7 DEF WorkersInv, WorkersTypeOK, InDevice

\* A thread that starts keeps its permit, one that is over gives it back.
LEMMA OperationStep ==
    ASSUME WorkersInv, NEW c \in Calls, StartOperation(c) \/ OperationEnds(c)
    PROVE  WorkersInv'
<1>1. CASE StartOperation(c)
    BY <1>1 DEF StartOperation, WorkersInv, WorkersTypeOK, CapacityIsRespected, PermitsComeBack,
        InDevice
<1>2. CASE OperationEnds(c)
    <2>1. /\ operation[c] = "active" /\ operation' = [operation EXCEPT ![c] = "over"]
          /\ free' = free \union permit[c] /\ permit' = [permit EXCEPT ![c] = {}]
          /\ waiting' = waiting
        BY <1>2 DEF OperationEnds
    <2>2. call' \in [Calls -> {"new", "queued", "running"} \union Results]
        BY <1>2 DEF OperationEnds, WorkersInv, WorkersTypeOK, Results
    <2>3. \A d \in Calls : call'[d] \in {"new", "queued", "QueueTimeout"} => call'[d] = call[d] /\ d # c
        BY <1>2 DEF OperationEnds, WorkersInv, WorkersTypeOK
    <2>4. WorkersTypeOK'
        BY <2>1, <2>2, Zenon DEF WorkersInv, WorkersTypeOK
    <2>5. CapacityIsRespected'
        BY <2>1 DEF WorkersInv, WorkersTypeOK, CapacityIsRespected, InDevice
    <2>6. PermitsComeBack'
        BY <2>1 DEF WorkersInv, WorkersTypeOK, PermitsComeBack, InDevice
    <2> QED
        BY <2>1, <2>3, <2>4, <2>5, <2>6 DEF WorkersInv, WorkersTypeOK, InDevice
<1> QED
    BY <1>1, <1>2

\* Every step of the pool keeps WorkersInv.
THEOREM WorkersInvariant == WorkersSpec => []WorkersInv
<1>1. WorkersInv /\ [WorkersNext]_workers => WorkersInv'
    <2> SUFFICES ASSUME WorkersInv, [WorkersNext]_workers PROVE WorkersInv'
        OBVIOUS
    <2>1. CASE UNCHANGED workers
        BY <2>1 DEF workers, WorkersInv, WorkersTypeOK, CapacityIsRespected, PermitsComeBack,
            InDevice
    <2>2. CASE WorkersNext
        BY <2>2, QueueStep, AcquireStep, OperationStep DEF WorkersNext
    <2> QED
        BY <2>1, <2>2
<1> QED
    BY <1>1, WorkersInvInit, PTL DEF WorkersSpec

\* Timed-out and dropped calls never let more operations run than there are permits.
THEOREM CapacityHolds == WorkersSpec => []CapacityIsRespected
<1>1. WorkersInv => CapacityIsRespected
    BY DEF WorkersInv
<1> QED
    BY <1>1, WorkersInvariant, PTL

\* No permit is lost, whatever the order of timeouts, drops and late operations.
THEOREM PermitsAreConserved == WorkersSpec => []PermitsComeBack
<1>1. WorkersInv => PermitsComeBack
    BY DEF WorkersInv
<1> QED
    BY <1>1, WorkersInvariant, PTL

-----------------------------------------------------------------------------
(* The blocking client *)

ResultKinds == {"Ok", "Err", "Unknown"}
EventKinds == {"progress"} \union ResultKinds

BlockingTypeOK ==
    /\ client \in {"connect", "open", "submit", "receive", "shutdown", "acknowledge", "join", "gone"}
    /\ closing \in {"no", "disconnect", "drop"}
    /\ executions \in 0..MaxExecutions
    /\ seen \in Nat
    /\ answer \in {"none", "ok", "error"}
    /\ returned \in [kind : {"none", "Transport"} \union ResultKinds, steps : Nat]
    /\ commands \in Seq(0..MaxExecutions)
    /\ events \in Seq([kind : EventKinds, steps : Nat])
    /\ worker \in {"start", "recv", "execute", "report", "close", "leaving", "stopped"}
    /\ current \in 0..executions
    /\ done \in [1..MaxExecutions -> Nat]

\* The worker is in the middle of an execution.
Executing(e) == worker \in {"execute", "report"} /\ current = e

\* The command channel is empty but for the command its only sender waits for.
ChannelInv ==
    /\ client \notin {"receive", "acknowledge", "gone"} => commands = <<>>
    /\ client \in {"acknowledge", "gone"} => commands \in {<<>>, <<0>>}
    /\ client = "receive" => commands \in {<<>>, <<executions>>}
    /\ worker = "stopped" => commands = <<>>
    /\ worker = "close" => commands = <<>> /\ client \in {"acknowledge", "gone"}
    /\ client = "acknowledge" /\ answer # "none" => worker \in {"leaving", "stopped"} /\ commands = <<>>

AllProgress(n) == \A i \in 1..n : events[i].kind = "progress"

\* The result that is the last event tells what the plan did.
ResultIsLast ==
    /\ events # <<>>
    /\ LET result == events[Len(events)]
       IN  /\ result.kind \in ResultKinds
           /\ seen + Len(events) - 1 = result.steps
           /\ \/ done[executions] = result.steps
              \/ result.kind = "Unknown" /\ done[executions] = result.steps + 1

\* Where the execution that the caller listens to is: in the channel, at the printer, reported or
\* not, over, or lost with its worker.
ReceiveInv ==
    client = "receive" =>
        \/ /\ commands = <<executions>> /\ ~Executing(executions)
           /\ events = <<>> /\ seen = 0 /\ done[executions] = 0
        \/ /\ commands = <<>> /\ worker = "execute" /\ current = executions
           /\ AllProgress(Len(events)) /\ seen + Len(events) = done[executions]
        \/ /\ commands = <<>> /\ worker = "report" /\ current = executions
           /\ AllProgress(Len(events)) /\ seen + Len(events) + 1 = done[executions]
        \/ /\ commands = <<>> /\ ~Executing(executions)
           /\ AllProgress(Len(events))
        \/ /\ commands = <<>> /\ ~Executing(executions)
           /\ AllProgress(Len(events) - 1) /\ ResultIsLast

\* Where the caller is, and what it can have been told by then: no execution is begun before it
\* is asked for, and one whose result was returned is over.
CallInv ==
    /\ worker = "start" => client = "connect" /\ answer = "none"
    /\ client = "connect" => returned.kind = "none"
    /\ \A e \in 1..MaxExecutions : e > executions => done[e] = 0
    /\ client \in {"submit", "receive"} => executions > 0 /\ returned.kind = "none"
    /\ client = "submit" =>
           /\ ~Executing(executions)
           /\ events = <<>> /\ seen = 0 /\ done[executions] = 0
    /\ worker \in {"execute", "report"} => current > 0
    /\ client = "open" /\ returned.kind \in ResultKinds => executions > 0 /\ ~Executing(executions)

\* What makes ResultIsOwn inductive: the execution that is listened to has sent one event for
\* each of its steps, in a channel of its own.
BlockingInv ==
    /\ BlockingTypeOK
    /\ ChannelInv
    /\ CallInv
    /\ ReceiveInv
    /\ ResultIsOwn

\* What the channel operations do to a sequence.
LEMMA TailFacts ==
    ASSUME NEW S, NEW e \in Seq(S), e # <<>>
    PROVE  /\ Tail(e) \in Seq(S)
           /\ Len(e) \in Nat \ {0} /\ Len(Tail(e)) = Len(e) - 1
           /\ Head(e) = e[1] /\ e[1] \in S
           /\ \A i \in 1..(Len(e) - 1) : Tail(e)[i] = e[i + 1]
OBVIOUS

LEMMA AppendFacts ==
    ASSUME NEW S, NEW e \in Seq(S), NEW x \in S
    PROVE  /\ Append(e, x) \in Seq(S) /\ Append(e, x) # <<>>
           /\ Len(e) \in Nat /\ Len(Append(e, x)) = Len(e) + 1
           /\ Append(e, x)[Len(e) + 1] = x
           /\ \A i \in 1..Len(e) : Append(e, x)[i] = e[i]
OBVIOUS

LEMMA BlockingReceive ==
    ASSUME BlockingInv, Receive
    PROVE  BlockingInv'
<1> DEFINE Ev == [kind : EventKinds, steps : Nat]
<1> USE ClientAssumption
<1>0. /\ BlockingTypeOK /\ ChannelInv /\ CallInv /\ ReceiveInv
      /\ events \in Seq(Ev) /\ seen \in Nat /\ client = "receive" /\ events # <<>>
      /\ events' = Tail(events)
      /\ executions \in 1..MaxExecutions
      /\ UNCHANGED <<closing, executions, answer, commands, worker, current, done>>
    BY DEF BlockingInv, BlockingTypeOK, CallInv, Receive, printer
<1>1. /\ Tail(events) \in Seq(Ev)
      /\ Len(events) \in Nat \ {0} /\ Len(events') = Len(events) - 1
      /\ Head(events) = events[1] /\ events[1] \in Ev
      /\ \A i \in 1..(Len(events) - 1) : events'[i] = events[i + 1]
    BY <1>0, TailFacts, Zenon
<1>2. events[1].kind \in EventKinds /\ events[1].steps \in Nat
    BY <1>1
<1>c. commands = <<>>
    BY <1>0 DEF ReceiveInv
<1> HIDE DEF Ev
<1>3. CASE events[1].kind = "progress"
  <2>1. seen' = seen + 1 /\ UNCHANGED <<client, returned>>
      BY <1>1, <1>3 DEF Receive
  <2>2. BlockingTypeOK'
      BY <1>0, <1>1, <2>1 DEF BlockingTypeOK, Ev
  <2>3. ChannelInv' /\ CallInv'
      BY <1>0, <2>1 DEF ChannelInv, CallInv, Executing
  <2>4. ASSUME AllProgress(Len(events)) PROVE AllProgress(Len(events))'
      BY <1>1, <2>4 DEF AllProgress
  <2>5. ASSUME AllProgress(Len(events) - 1), ResultIsLast
        PROVE  AllProgress(Len(events) - 1)' /\ ResultIsLast'
    <3>1. Len(events) > 1
        BY <1>1, <1>3, <2>5 DEF ResultIsLast, ResultKinds
    <3>2. AllProgress(Len(events) - 1)'
        BY <1>1, <2>5, <3>1 DEF AllProgress
    <3>3. events'[Len(events')] = events[Len(events)] /\ events' # <<>>
        BY <1>1, <3>1
    <3>4. seen' + Len(events') = seen + Len(events)
        BY <1>0, <1>1, <2>1
    <3> QED
        BY <1>0, <2>1, <2>5, <3>2, <3>3, <3>4, SMTT(60) DEF ResultIsLast
  <2>6. ReceiveInv'
    <3>1. CASE worker = "execute" /\ current = executions /\ AllProgress(Len(events)) /\ seen + Len(events) = done[executions]
        BY <1>0, <1>1, <1>c, <2>1, <2>4, <3>1 DEF ReceiveInv
    <3>2. CASE worker = "report" /\ current = executions /\ AllProgress(Len(events)) /\ seen + Len(events) + 1 = done[executions]
        BY <1>0, <1>1, <1>c, <2>1, <2>4, <3>2 DEF ReceiveInv
    <3>3. CASE ~Executing(executions) /\ AllProgress(Len(events))
        BY <1>0, <1>c, <2>1, <2>4, <3>3 DEF ReceiveInv, Executing
    <3>4. CASE ~Executing(executions) /\ AllProgress(Len(events) - 1) /\ ResultIsLast
        BY <1>0, <1>c, <2>1, <2>5, <3>4 DEF ReceiveInv, Executing
    <3> QED
        BY <1>0, <3>1, <3>2, <3>3, <3>4, Zenon DEF ReceiveInv
  <2>7. ResultIsOwn'
      BY <1>0, <2>1 DEF ResultIsOwn
  <2> QED
      BY <2>2, <2>3, <2>6, <2>7 DEF BlockingInv
<1>4. CASE events[1].kind # "progress"
  <2>1. client' = "open" /\ returned' = events[1] /\ UNCHANGED seen
      BY <1>1, <1>4 DEF Receive
  <2>2. BlockingTypeOK'
      BY <1>0, <1>1, <1>2, <1>4, <2>1, Zenon DEF BlockingTypeOK, Ev, EventKinds
  <2>3. ~AllProgress(Len(events))
      BY <1>1, <1>4 DEF AllProgress
  <2>4. ~Executing(executions) /\ AllProgress(Len(events) - 1) /\ ResultIsLast
      BY <1>0, <1>c, <2>3 DEF ReceiveInv
  <2>5. Len(events) = 1
      BY <1>1, <1>4, <2>4 DEF AllProgress
  <2>6. ChannelInv' /\ ReceiveInv'
      BY <1>0, <1>c, <2>1 DEF ChannelInv, ReceiveInv
  <2>7. CallInv'
      BY <1>0, <2>1, <2>4, Zenon DEF CallInv, Executing
  <2>8. ResultIsOwn'
      BY <1>0, <1>2, <2>1, <2>4, <2>5 DEF ResultIsOwn, ResultIsLast
  <2> QED
      BY <2>2, <2>6, <2>7, <2>8 DEF BlockingInv
<1> QED
    BY <1>3, <1>4

LEMMA BlockingTake ==
    ASSUME BlockingInv, Take
    PROVE  BlockingInv'
<1> USE ClientAssumption
<1>0. /\ BlockingTypeOK /\ ChannelInv /\ CallInv /\ ReceiveInv /\ ResultIsOwn
      /\ commands \in Seq(0..MaxExecutions) /\ commands # <<>> /\ worker = "recv"
      /\ commands' = Tail(commands) /\ current' = Head(commands)
      /\ worker' = IF Head(commands) = 0 THEN "close" ELSE "execute"
      /\ UNCHANGED <<client, closing, executions, seen, answer, returned, events, done>>
    BY DEF BlockingInv, BlockingTypeOK, Take, caller
<1>1. commands' \in Seq(0..MaxExecutions)
    BY <1>0, TailFacts
<1>2. CASE client = "receive"
  <2>1. commands = <<executions>> /\ executions \in 1..MaxExecutions
      BY <1>0, <1>2 DEF ChannelInv, CallInv, BlockingTypeOK
  <2>2. commands' = <<>> /\ current' = executions /\ worker' = "execute"
      BY <1>0, <2>1
  <2>3. BlockingTypeOK' /\ ChannelInv' /\ CallInv' /\ ResultIsOwn'
      BY <1>0, <1>1, <1>2, <2>1, <2>2 DEF BlockingTypeOK, ChannelInv, CallInv, ResultIsOwn,
          Executing
  <2>4. events = <<>> /\ seen = 0 /\ done[executions] = 0
      BY <1>0, <1>2 DEF ReceiveInv
  <2>5. ReceiveInv'
      BY <1>0, <2>2, <2>4 DEF ReceiveInv, AllProgress
  <2> QED
      BY <2>3, <2>5 DEF BlockingInv
<1>3. CASE client # "receive"
  <2>1. commands = <<0>> /\ client \in {"acknowledge", "gone"}
      BY <1>0, <1>3 DEF ChannelInv, BlockingTypeOK
  <2>2. commands' = <<>> /\ current' = 0 /\ worker' = "close"
      BY <1>0, <2>1
  <2>3. BlockingTypeOK' /\ CallInv' /\ ReceiveInv' /\ ResultIsOwn'
      BY <1>0, <1>1, <2>1, <2>2 DEF BlockingTypeOK, CallInv, ReceiveInv, ResultIsOwn, Executing
  <2>4. ChannelInv'
      BY <1>0, <2>1, <2>2 DEF ChannelInv
  <2> QED
      BY <2>3, <2>4 DEF BlockingInv
<1> QED
    BY <1>2, <1>3

\* One more step of the execution in progress: the others keep theirs.
LEMMA OneMoreStep ==
    ASSUME BlockingTypeOK, current \in 1..MaxExecutions,
           done' = [done EXCEPT ![current] = @ + 1]
    PROVE  /\ done' \in [1..MaxExecutions -> Nat]
           /\ done[current] \in Nat /\ done'[current] = done[current] + 1
           /\ \A e \in 1..MaxExecutions : e # current => done'[e] = done[e]
BY DEF BlockingTypeOK

LEMMA BlockingStep ==
    ASSUME BlockingInv, Step
    PROVE  BlockingInv'
<1> USE ClientAssumption
<1>0. /\ BlockingTypeOK /\ ChannelInv /\ CallInv /\ ReceiveInv /\ ResultIsOwn
      /\ executions \in 0..MaxExecutions /\ current \in 0..executions
      /\ worker = "execute" /\ worker' = "report"
      /\ done' = [done EXCEPT ![current] = @ + 1]
      /\ UNCHANGED <<client, closing, executions, seen, answer, returned, commands, events, current>>
    BY DEF BlockingInv, BlockingTypeOK, Step, caller
<1>1. current \in 1..MaxExecutions
    BY <1>0 DEF CallInv
<1>2. /\ done' \in [1..MaxExecutions -> Nat]
      /\ done[current] \in Nat /\ done'[current] = done[current] + 1
      /\ \A e \in 1..MaxExecutions : e # current => done'[e] = done[e]
    BY <1>0, <1>1, OneMoreStep
<1>3. BlockingTypeOK' /\ ChannelInv'
    BY <1>0, <1>2, Zenon DEF BlockingTypeOK, ChannelInv
<1>4. CallInv'
    BY <1>0, <1>1, <1>2 DEF CallInv, Executing
<1>5. ResultIsOwn'
    BY <1>0, <1>1, <1>2 DEF CallInv, ResultIsOwn, Executing, ResultKinds
<1>6. ReceiveInv'
  <2> SUFFICES ASSUME client = "receive" PROVE ReceiveInv'
      BY <1>0, Zenon DEF ReceiveInv
  <2>1. executions \in 1..MaxExecutions
      BY <1>0 DEF CallInv
  <2>2. CASE current = executions
    <3>1. commands = <<>> /\ AllProgress(Len(events)) /\ seen + Len(events) = done[executions]
        BY <1>0, <2>2 DEF ReceiveInv, Executing
    <3>2. AllProgress(Len(events))'
        BY <1>0, <3>1 DEF AllProgress
    <3> QED
        BY <1>0, <1>2, <2>2, <3>1, <3>2 DEF ReceiveInv
  <2>3. CASE current # executions
    <3>1. done'[executions] = done[executions]
        BY <1>2, <2>1, <2>3
    <3> QED
        BY <1>0, <2>3, <3>1, Zenon DEF ReceiveInv, Executing, ResultIsLast, AllProgress
  <2> QED
      BY <2>2, <2>3
<1> QED
    BY <1>3, <1>4, <1>5, <1>6 DEF BlockingInv

LEMMA BlockingReport ==
    ASSUME BlockingInv, Report
    PROVE  BlockingInv'
<1> USE ClientAssumption
<1>0. /\ BlockingTypeOK /\ ChannelInv /\ CallInv /\ ReceiveInv /\ ResultIsOwn
      /\ executions \in 0..MaxExecutions /\ current \in 0..executions
      /\ worker = "report" /\ worker' = "execute"
      /\ UNCHANGED <<client, closing, executions, seen, answer, returned, commands, current, done>>
    BY DEF BlockingInv, BlockingTypeOK, Report, caller, printer
<1>1. current \in 1..MaxExecutions
    BY <1>0 DEF CallInv
<1>2. CASE UNCHANGED events /\ ~Listening
  <2>1. BlockingTypeOK' /\ ChannelInv'
      BY <1>0, <1>2 DEF BlockingTypeOK, ChannelInv
  <2>2. CallInv'
      BY <1>0, <1>2, Zenon DEF CallInv, Executing
  <2>3. ResultIsOwn'
      BY <1>0, Zenon DEF ResultIsOwn
  <2>4. ReceiveInv'
      BY <1>0, <1>2, Zenon DEF ReceiveInv, Executing, AllProgress, ResultIsLast, Listening
  <2> QED
      BY <2>1, <2>2, <2>3, <2>4, Zenon DEF BlockingInv
<1>3. CASE /\ Listening
           /\ events' = Append(events, [kind |-> "progress", steps |-> done[current]])
  <2> DEFINE Ev == [kind : EventKinds, steps : Nat]
             x == [kind |-> "progress", steps |-> done[current]]
  <2>1. events \in Seq(Ev) /\ x \in Ev /\ seen \in Nat /\ x.kind = "progress"
      BY <1>0, <1>1 DEF BlockingTypeOK, EventKinds
  <2> HIDE DEF Ev, x
  <2>2. /\ events' \in Seq(Ev)
        /\ Len(events) \in Nat /\ Len(events') = Len(events) + 1
        /\ events'[Len(events) + 1] = x
        /\ \A i \in 1..Len(events) : events'[i] = events[i]
      BY <1>3, <2>1, AppendFacts DEF x
  <2>3. client = "receive" /\ current = executions
      BY <1>3 DEF Listening
  <2>4. BlockingTypeOK' /\ ChannelInv' /\ CallInv' /\ ResultIsOwn'
      BY <1>0, <2>2, <2>3, Zenon DEF BlockingTypeOK, ChannelInv, CallInv, ResultIsOwn, Executing, Ev
  <2>5. commands = <<>> /\ AllProgress(Len(events)) /\ seen + Len(events) + 1 = done[executions]
      BY <1>0, <2>3 DEF ReceiveInv, Executing
  <2>6. AllProgress(Len(events))'
    <3> SUFFICES ASSUME NEW i \in 1..Len(events') PROVE events'[i].kind = "progress"
        BY DEF AllProgress
    <3>1. CASE i = Len(events) + 1
        BY <2>1, <2>2, <3>1
    <3>2. CASE i \in 1..Len(events)
        BY <2>2, <2>5, <3>2 DEF AllProgress
    <3> QED
        BY <2>2, <3>1, <3>2
  <2>7. seen' + Len(events') = done'[executions']
      BY <1>0, <2>1, <2>2, <2>5
  <2>8. ReceiveInv'
      BY <1>0, <2>3, <2>5, <2>6, <2>7 DEF ReceiveInv
  <2> QED
      BY <2>4, <2>8 DEF BlockingInv
<1> QED
    BY <1>2, <1>3 DEF Report

LEMMA BlockingFinish ==
    ASSUME BlockingInv, Finish
    PROVE  BlockingInv'
<1> USE ClientAssumption
<1>0. /\ BlockingTypeOK /\ ChannelInv /\ CallInv /\ ReceiveInv /\ ResultIsOwn
      /\ executions \in 0..MaxExecutions /\ current \in 0..executions /\ seen \in Nat
      /\ worker = "execute" /\ worker' = "recv"
      /\ UNCHANGED <<client, closing, executions, seen, answer, returned, commands, current>>
    BY DEF BlockingInv, BlockingTypeOK, Finish, caller
<1>1. current \in 1..MaxExecutions /\ done[current] \in Nat
    BY <1>0 DEF CallInv, BlockingTypeOK
<1>2. PICK verdict \in ResultKinds :
          /\ \/ ~Listening /\ UNCHANGED events
             \/ /\ Listening
                /\ events' = Append(events, [kind |-> verdict, steps |-> done[current]])
          /\ \/ UNCHANGED done
             \/ verdict = "Unknown" /\ done' = [done EXCEPT ![current] = @ + 1]
    BY DEF Finish, ResultKinds
<1>3. /\ done' \in [1..MaxExecutions -> Nat]
      /\ \A e \in 1..MaxExecutions : e # current => done'[e] = done[e]
      /\ \/ done'[current] = done[current]
         \/ verdict = "Unknown" /\ done'[current] = done[current] + 1
  <2>1. CASE UNCHANGED done
      BY <1>0, <2>1 DEF BlockingTypeOK
  <2>2. CASE verdict = "Unknown" /\ done' = [done EXCEPT ![current] = @ + 1]
      BY <1>0, <1>1, <2>2, OneMoreStep
  <2> QED
      BY <1>2, <2>1, <2>2
<1>4. ChannelInv'
    BY <1>0 DEF ChannelInv
<1>5. CASE UNCHANGED events /\ ~Listening
  <2>1. BlockingTypeOK' /\ CallInv'
      BY <1>0, <1>1, <1>3, <1>5 DEF BlockingTypeOK, CallInv, Executing
  <2>2. ResultIsOwn'
      BY <1>0, <1>3 DEF CallInv, ResultIsOwn, Executing, ResultKinds
  <2>3. ReceiveInv'
    <3> SUFFICES ASSUME client = "receive" PROVE ReceiveInv'
        BY <1>0 DEF ReceiveInv
    <3>1. executions \in 1..MaxExecutions /\ current # executions
        BY <1>0, <1>5 DEF CallInv, Listening
    <3>2. done'[executions] = done[executions]
        BY <1>3, <3>1
    <3> QED
        BY <1>0, <1>5, <3>1, <3>2, Zenon DEF ReceiveInv, Executing, ResultIsLast, AllProgress
  <2> QED
      BY <1>4, <2>1, <2>2, <2>3 DEF BlockingInv
<1>6. CASE /\ Listening
           /\ events' = Append(events, [kind |-> verdict, steps |-> done[current]])
  <2> DEFINE Ev == [kind : EventKinds, steps : Nat]
             x == [kind |-> verdict, steps |-> done[current]]
  <2>1. events \in Seq(Ev) /\ x \in Ev /\ x.kind = verdict /\ x.steps = done[current]
      BY <1>0, <1>1 DEF BlockingTypeOK, EventKinds
  <2> HIDE DEF Ev, x
  <2>2. /\ events' \in Seq(Ev) /\ events' # <<>>
        /\ Len(events) \in Nat /\ Len(events') = Len(events) + 1
        /\ events'[Len(events) + 1] = x
        /\ \A i \in 1..Len(events) : events'[i] = events[i]
      BY <1>6, <2>1, AppendFacts DEF x
  <2>3. client = "receive" /\ current = executions
      BY <1>6 DEF Listening
  <2>4. BlockingTypeOK' /\ CallInv' /\ ResultIsOwn'
      BY <1>0, <1>1, <1>3, <2>2, <2>3, SMTT(60) DEF BlockingTypeOK, CallInv, ResultIsOwn,
          Executing, Ev
  <2>5. commands = <<>> /\ AllProgress(Len(events)) /\ seen + Len(events) = done[executions]
      BY <1>0, <2>3 DEF ReceiveInv, Executing
  <2>6. AllProgress(Len(events) - 1)'
      BY <2>2, <2>5 DEF AllProgress
  <2>7. ResultIsLast'
    <3>1. seen' + Len(events') - 1 = done[current]
        BY <1>0, <2>2, <2>3, <2>5
    <3> QED
        BY <1>0, <1>3, <2>1, <2>2, <2>3, <3>1 DEF ResultIsLast
  <2>8. ReceiveInv'
      BY <1>0, <2>5, <2>6, <2>7 DEF ReceiveInv, Executing
  <2> QED
      BY <1>4, <2>4, <2>8 DEF BlockingInv
<1> QED
    BY <1>2, <1>5, <1>6

LEMMA BlockingPanic ==
    ASSUME BlockingInv, Panic
    PROVE  BlockingInv'
<1> USE ClientAssumption
<1>0. /\ BlockingTypeOK /\ ChannelInv /\ CallInv /\ ReceiveInv /\ ResultIsOwn
      /\ executions \in 0..MaxExecutions /\ current \in 0..executions
      /\ worker = "execute" /\ worker' = "leaving"
      /\ UNCHANGED <<client, closing, executions, seen, answer, returned, commands, events, current>>
    BY DEF BlockingInv, BlockingTypeOK, Panic, caller
<1>1. current \in 1..MaxExecutions
    BY <1>0 DEF CallInv
<1>2. /\ done' \in [1..MaxExecutions -> Nat]
      /\ \A e \in 1..MaxExecutions : e # current => done'[e] = done[e]
  <2>1. CASE done' = done
      BY <1>0, <2>1 DEF BlockingTypeOK
  <2>2. CASE done' = [done EXCEPT ![current] = @ + 1]
      BY <1>0, <1>1, <2>2, OneMoreStep
  <2> QED
      BY <2>1, <2>2 DEF Panic
<1>3. BlockingTypeOK' /\ ChannelInv'
    BY <1>0, <1>2 DEF BlockingTypeOK, ChannelInv
<1>4. CallInv'
    BY <1>0, <1>1, <1>2 DEF CallInv, Executing
<1>5. ResultIsOwn'
    BY <1>0, <1>1, <1>2 DEF CallInv, ResultIsOwn, Executing, ResultKinds
<1>6. ReceiveInv'
  <2> SUFFICES ASSUME client = "receive" PROVE ReceiveInv'
      BY <1>0 DEF ReceiveInv
  <2>1. executions \in 1..MaxExecutions
      BY <1>0 DEF CallInv
  <2>2. CASE current = executions
    <3>1. commands = <<>> /\ AllProgress(Len(events))
        BY <1>0, <2>2 DEF ReceiveInv, Executing
    <3>2. AllProgress(Len(events))'
        BY <1>0, <3>1 DEF AllProgress
    <3> QED
        BY <1>0, <3>1, <3>2 DEF ReceiveInv, Executing
  <2>3. CASE current # executions
    <3>1. done'[executions] = done[executions]
        BY <1>2, <2>1, <2>3
    <3> QED
        BY <1>0, <2>3, <3>1, Zenon DEF ReceiveInv, Executing, ResultIsLast, AllProgress
  <2> QED
      BY <2>2, <2>3
<1> QED
    BY <1>3, <1>4, <1>5, <1>6 DEF BlockingInv

LEMMA BlockingLeave ==
    ASSUME BlockingInv, Leave
    PROVE  BlockingInv'
<1>0. /\ BlockingTypeOK /\ ChannelInv /\ CallInv /\ ReceiveInv /\ ResultIsOwn
      /\ worker = "leaving" /\ worker' = "stopped" /\ commands' = <<>>
      /\ UNCHANGED <<client, closing, executions, seen, answer, returned, events, current, done>>
    BY DEF BlockingInv, Leave, caller, printer
<1>1. BlockingTypeOK'
    BY <1>0 DEF BlockingTypeOK
<1>2. ChannelInv' /\ CallInv' /\ ResultIsOwn'
    BY <1>0 DEF ChannelInv, CallInv, ResultIsOwn, Executing
<1>3. ReceiveInv'
  <2>1. CASE client = "receive" /\ events = <<>>
      BY <1>0, <2>1 DEF ReceiveInv, Executing, AllProgress
  <2>2. CASE client = "receive" /\ events # <<>>
      BY <1>0, <2>2, Zenon DEF ReceiveInv, Executing, AllProgress, ResultIsLast
  <2> QED
      BY <1>0, <2>1, <2>2, Zenon DEF ReceiveInv
<1> QED
    BY <1>1, <1>2, <1>3 DEF BlockingInv

LEMMA BlockingOthers ==
    ASSUME BlockingInv,
           \/ Start \/ Connected \/ Execute \/ Submit \/ WorkerLost \/ CallbackPanics
           \/ Close("disconnect") \/ Close("drop") \/ RequestShutdown \/ ShutdownLost
           \/ DropTimeout \/ Acknowledged \/ Join \/ Disconnect
    PROVE  BlockingInv'
<1> USE ClientAssumption
<1>0. BlockingTypeOK /\ ChannelInv /\ CallInv /\ ReceiveInv /\ ResultIsOwn
    BY DEF BlockingInv
<1>1. CASE Start
  <2>1. BlockingTypeOK'
      BY <1>0, <1>1 DEF BlockingTypeOK, Start, caller, printer, NoResult
  <2>2. ChannelInv' /\ CallInv'
      BY <1>0, <1>1, Zenon DEF BlockingTypeOK, ChannelInv, CallInv, Executing, ResultKinds, Start,
          caller, printer, NoResult
  <2>3. ReceiveInv' /\ ResultIsOwn'
      BY <1>0, <1>1, Zenon DEF BlockingTypeOK, CallInv, ReceiveInv, ResultIsOwn, Executing,
          AllProgress,
          ResultIsLast, caller, printer, NoResult, Start
  <2> QED
      BY <2>1, <2>2, <2>3 DEF BlockingInv
<1>2. CASE Connected
  <2>1. BlockingTypeOK'
      BY <1>0, <1>2 DEF BlockingTypeOK, Connected, caller, printer, NoResult
  <2>2. ChannelInv' /\ CallInv'
      BY <1>0, <1>2, Zenon DEF BlockingTypeOK, ChannelInv, CallInv, Executing, ResultKinds,
          Connected,
          caller, printer, NoResult
  <2>3. ReceiveInv' /\ ResultIsOwn'
      BY <1>0, <1>2, Zenon DEF BlockingTypeOK, CallInv, ReceiveInv, ResultIsOwn, Executing,
          AllProgress,
          ResultIsLast, caller, printer, NoResult, Connected
  <2> QED
      BY <2>1, <2>2, <2>3 DEF BlockingInv
<1>3. CASE Execute
  <2>1. BlockingTypeOK'
      BY <1>0, <1>3 DEF BlockingTypeOK, Execute, caller, printer, NoResult
  <2>2. ChannelInv' /\ CallInv'
      BY <1>0, <1>3 DEF BlockingTypeOK, ChannelInv, CallInv, Executing, ResultKinds, Execute,
          caller, printer, NoResult
  <2>3. ReceiveInv' /\ ResultIsOwn'
      BY <1>0, <1>3, Zenon DEF BlockingTypeOK, CallInv, ReceiveInv, ResultIsOwn, Executing,
          AllProgress,
          ResultIsLast, caller, printer, NoResult, Execute
  <2> QED
      BY <2>1, <2>2, <2>3 DEF BlockingInv
<1>4. CASE Submit
  <2>1. BlockingTypeOK'
      BY <1>0, <1>4 DEF BlockingTypeOK, Submit, caller, printer, NoResult
  <2>2. ChannelInv' /\ CallInv'
      BY <1>0, <1>4 DEF BlockingTypeOK, ChannelInv, CallInv, Executing, ResultKinds, Submit,
          caller, printer, NoResult
  <2>3. ReceiveInv' /\ ResultIsOwn'
    <3>1. commands' = <<executions>>
        BY <1>0, <1>4 DEF ChannelInv, Submit
    <3>2. events = <<>> /\ seen = 0 /\ done[executions] = 0 /\ ~Executing(executions)
        BY <1>0, <1>4, SMTT(60) DEF BlockingTypeOK, CallInv, Executing, Submit
    <3>3. client' = "receive" /\ UNCHANGED <<executions, events, seen, done, worker, current>>
        BY <1>4 DEF Submit, printer
    <3> QED
        BY <3>1, <3>2, <3>3, Zenon DEF ReceiveInv, ResultIsOwn, Executing
  <2> QED
      BY <2>1, <2>2, <2>3 DEF BlockingInv
<1>5. CASE WorkerLost
  <2>1. BlockingTypeOK'
      BY <1>0, <1>5, Zenon DEF BlockingTypeOK, WorkerLost, caller, printer, NoResult
  <2>2. ChannelInv' /\ CallInv'
      BY <1>0, <1>5, Zenon DEF BlockingTypeOK, ChannelInv, CallInv, Executing, ResultKinds,
          WorkerLost,
          caller, printer, NoResult
  <2>3. ReceiveInv' /\ ResultIsOwn'
      BY <1>0, <1>5, Zenon DEF BlockingTypeOK, CallInv, ReceiveInv, ResultIsOwn, Executing,
          AllProgress,
          ResultIsLast, caller, printer, NoResult, WorkerLost
  <2> QED
      BY <2>1, <2>2, <2>3 DEF BlockingInv
<1>6. CASE CallbackPanics
  <2>1. BlockingTypeOK'
      BY <1>0, <1>6 DEF BlockingTypeOK, CallbackPanics, caller, printer, NoResult
  <2>2. ChannelInv' /\ CallInv'
      BY <1>0, <1>6, Zenon DEF BlockingTypeOK, ChannelInv, CallInv, ReceiveInv, Executing,
          ResultKinds,
          CallbackPanics, caller, printer, NoResult
  <2>3. ReceiveInv' /\ ResultIsOwn'
      BY <1>0, <1>6, Zenon DEF BlockingTypeOK, CallInv, ReceiveInv, ResultIsOwn, Executing,
          AllProgress,
          ResultIsLast, caller, printer, NoResult, CallbackPanics
  <2> QED
      BY <2>1, <2>2, <2>3 DEF BlockingInv
<1>7. CASE Close("disconnect")
  <2>1. BlockingTypeOK'
      BY <1>0, <1>7, Zenon DEF BlockingTypeOK, Close, caller, printer, NoResult
  <2>2. ChannelInv' /\ CallInv'
      BY <1>0, <1>7, Zenon DEF BlockingTypeOK, ChannelInv, CallInv, Executing, ResultKinds, Close,
          caller, printer, NoResult
  <2>3. ReceiveInv' /\ ResultIsOwn'
      BY <1>0, <1>7, Zenon DEF BlockingTypeOK, CallInv, ReceiveInv, ResultIsOwn, Executing,
          AllProgress,
          ResultIsLast, caller, printer, NoResult, Close
  <2> QED
      BY <2>1, <2>2, <2>3 DEF BlockingInv
<1>8. CASE Close("drop")
  <2>1. BlockingTypeOK'
      BY <1>0, <1>8, Zenon DEF BlockingTypeOK, Close, caller, printer, NoResult
  <2>2. ChannelInv' /\ CallInv'
      BY <1>0, <1>8, Zenon DEF BlockingTypeOK, ChannelInv, CallInv, Executing, ResultKinds, Close,
          caller, printer, NoResult
  <2>3. ReceiveInv' /\ ResultIsOwn'
      BY <1>0, <1>8, Zenon DEF BlockingTypeOK, CallInv, ReceiveInv, ResultIsOwn, Executing,
          AllProgress,
          ResultIsLast, caller, printer, NoResult, Close
  <2> QED
      BY <2>1, <2>2, <2>3 DEF BlockingInv
<1>9. CASE RequestShutdown
  <2>1. BlockingTypeOK'
      BY <1>0, <1>9 DEF BlockingTypeOK, RequestShutdown, caller, printer, NoResult
  <2>2. ChannelInv' /\ CallInv'
      BY <1>0, <1>9, SMTT(60) DEF BlockingTypeOK, ChannelInv, CallInv, Executing, ResultKinds,
          RequestShutdown, caller, printer, NoResult
  <2>3. ReceiveInv' /\ ResultIsOwn'
      BY <1>0, <1>9, Zenon DEF BlockingTypeOK, CallInv, ReceiveInv, ResultIsOwn, Executing,
          AllProgress,
          ResultIsLast, caller, printer, NoResult, RequestShutdown
  <2> QED
      BY <2>1, <2>2, <2>3 DEF BlockingInv
<1>10. CASE ShutdownLost
  <2>1. BlockingTypeOK'
      BY <1>0, <1>10, Zenon DEF BlockingTypeOK, ShutdownLost, ShutdownFails, caller, printer,
          NoResult
  <2>2. ChannelInv' /\ CallInv'
      BY <1>0, <1>10, Zenon DEF BlockingTypeOK, ChannelInv, CallInv, Executing, ResultKinds,
          ShutdownLost, ShutdownFails, caller, printer, NoResult
  <2>3. ReceiveInv' /\ ResultIsOwn'
      BY <1>0, <1>10, Zenon DEF BlockingTypeOK, CallInv, ReceiveInv, ResultIsOwn, Executing,
          AllProgress, ResultIsLast, caller, printer, NoResult, ShutdownLost, ShutdownFails
  <2> QED
      BY <2>1, <2>2, <2>3 DEF BlockingInv
<1>11. CASE DropTimeout
  <2>1. BlockingTypeOK'
      BY <1>0, <1>11, Zenon DEF BlockingTypeOK, DropTimeout, ShutdownFails, caller, printer,
          NoResult
  <2>2. ChannelInv' /\ CallInv'
      BY <1>0, <1>11, Zenon DEF BlockingTypeOK, ChannelInv, CallInv, Executing, ResultKinds,
          DropTimeout, ShutdownFails, caller, printer, NoResult
  <2>3. ReceiveInv' /\ ResultIsOwn'
      BY <1>0, <1>11, Zenon DEF BlockingTypeOK, CallInv, ReceiveInv, ResultIsOwn, Executing,
          AllProgress, ResultIsLast, caller, printer, NoResult, DropTimeout, ShutdownFails
  <2> QED
      BY <2>1, <2>2, <2>3 DEF BlockingInv
<1>12. CASE Acknowledged
  <2>1. BlockingTypeOK'
      BY <1>0, <1>12, Zenon DEF BlockingTypeOK, Acknowledged, ShutdownFails, caller, printer,
          NoResult
  <2>2. ChannelInv' /\ CallInv'
      BY <1>0, <1>12, Zenon DEF BlockingTypeOK, ChannelInv, CallInv, Executing, ResultKinds,
          Acknowledged, ShutdownFails, caller, printer, NoResult
  <2>3. ReceiveInv' /\ ResultIsOwn'
      BY <1>0, <1>12, Zenon DEF BlockingTypeOK, CallInv, ReceiveInv, ResultIsOwn, Executing,
          AllProgress, ResultIsLast, caller, printer, NoResult, Acknowledged, ShutdownFails
  <2> QED
      BY <2>1, <2>2, <2>3 DEF BlockingInv
<1>13. CASE Join
  <2>1. BlockingTypeOK'
      BY <1>0, <1>13 DEF BlockingTypeOK, Join, caller, printer, NoResult
  <2>2. ChannelInv' /\ CallInv'
      BY <1>0, <1>13, Zenon DEF BlockingTypeOK, ChannelInv, CallInv, Executing, ResultKinds, Join,
          caller, printer, NoResult
  <2>3. ReceiveInv' /\ ResultIsOwn'
      BY <1>0, <1>13, Zenon DEF BlockingTypeOK, CallInv, ReceiveInv, ResultIsOwn, Executing,
          AllProgress, ResultIsLast, caller, printer, NoResult, Join
  <2> QED
      BY <2>1, <2>2, <2>3 DEF BlockingInv
<1>14. CASE Disconnect
  <2>1. BlockingTypeOK'
      BY <1>0, <1>14 DEF BlockingTypeOK, Disconnect, caller, printer, NoResult
  <2>2. ChannelInv' /\ CallInv'
      BY <1>0, <1>14, Zenon DEF BlockingTypeOK, ChannelInv, CallInv, Executing, ResultKinds,
          Disconnect,
          caller, printer, NoResult
  <2>3. ReceiveInv' /\ ResultIsOwn'
      BY <1>0, <1>14, Zenon DEF BlockingTypeOK, CallInv, ReceiveInv, ResultIsOwn, Executing,
          AllProgress, ResultIsLast, caller, printer, NoResult, Disconnect
  <2> QED
      BY <2>1, <2>2, <2>3 DEF BlockingInv
<1> QED
    BY <1>1, <1>2, <1>3, <1>4, <1>5, <1>6, <1>7, <1>8, <1>9, <1>10, <1>11, <1>12, <1>13, <1>14

LEMMA BlockingNext ==
    ASSUME BlockingInv, [Next]_vars
    PROVE  BlockingInv'
<1>1. CASE Receive \/ Take \/ Step
    BY <1>1, BlockingReceive, BlockingTake, BlockingStep
<1>2. CASE Report \/ Finish \/ Panic \/ Leave
    BY <1>2, BlockingReport, BlockingFinish, BlockingPanic, BlockingLeave
<1>3. CASE \/ Start \/ Connected \/ Execute \/ Submit \/ WorkerLost \/ CallbackPanics
           \/ Close("disconnect") \/ Close("drop") \/ RequestShutdown \/ ShutdownLost
           \/ DropTimeout \/ Acknowledged \/ Join \/ Disconnect
    BY <1>3, BlockingOthers
<1>4. CASE UNCHANGED vars
  <2>1. BlockingTypeOK' /\ ChannelInv'
      BY <1>4 DEF vars, caller, printer, BlockingInv, BlockingTypeOK, ChannelInv
  <2>2. CallInv'
      BY <1>4, Zenon DEF vars, caller, printer, BlockingInv, CallInv, Executing
  <2>3. ReceiveInv'
      BY <1>4, Zenon DEF vars, caller, printer, BlockingInv, ReceiveInv, Executing, AllProgress,
          ResultIsLast
  <2>4. ResultIsOwn'
      BY <1>4, Zenon DEF vars, caller, printer, BlockingInv, ResultIsOwn
  <2> QED
      BY <2>1, <2>2, <2>3, <2>4, Zenon DEF BlockingInv
<1> QED
    BY <1>1, <1>2, <1>3, <1>4 DEF Next, Caller, Worker

LEMMA BlockingInvInit == Init => BlockingInv
BY ClientAssumption, SMTT(60) DEF Init, BlockingInv, BlockingTypeOK, ChannelInv, CallInv,
    ReceiveInv,
    ResultIsOwn, Executing, AllProgress, ResultIsLast, NoResult, ResultKinds, EventKinds

THEOREM BlockingInvariant == Spec => []BlockingInv
BY BlockingInvInit, BlockingNext, PTL DEF Spec

\* What execute returns is what its own plan did and its callback has seen every step of it,
\* for any capacity of the two channels, any plan and any number of abandoned executions.
THEOREM ResultsAreOwn == Spec => []ResultIsOwn
<1>1. BlockingInv => ResultIsOwn
    BY DEF BlockingInv
<1> QED
    BY <1>1, BlockingInvariant, PTL

\* A command channel of one place is enough: the client never has to wait to send a command.
THEOREM ClientNeverBlocksOnSend == Spec => []SendsNeverBlock
<1>1. BlockingInv => SendsNeverBlock
    BY ClientAssumption DEF BlockingInv, ChannelInv, SendsNeverBlock
<1> QED
    BY <1>1, BlockingInvariant, PTL

-----------------------------------------------------------------------------
(* The replay stores *)

\* The stores start empty and nothing has been executed.
LEMMA ReplayInvInit == ReplayInit => ReplayInv
BY DEF ReplayInit, ReplayInv, ReplayTypeOK, OncePerProcess, OnceUnlessLost, ClaimIsExclusive, None

\* A claim takes a key that nobody holds and that was not executed since its name was lost.
LEMMA ClaimStep ==
    ASSUME ReplayInv, NEW p \in Procs, NEW k \in Keys, ClaimInMemory(p, k) \/ CreateFile(p, k)
    PROVE  ReplayInv'
<1>1. CASE ClaimInMemory(p, k)
    BY <1>1, SMTT(60) DEF ClaimInMemory, Goto, ReplayInv, ReplayTypeOK, OncePerProcess, OnceUnlessLost,
                ClaimIsExclusive
<1>2. CASE CreateFile(p, k)
    <2>1. CASE UNCHANGED <<entries, key, at>>
        BY <1>2, <2>1, ZenonT(40) DEF CreateFile, ReplayInv, ReplayTypeOK, OncePerProcess, OnceUnlessLost,
                          ClaimIsExclusive
    <2>2. CASE /\ k \notin entries
               /\ entries' = entries \union {k}
               /\ key' = [key EXCEPT ![p] = k]
               /\ Goto(p, "created")
        BY <1>2, <2>2, SMTT(60) DEF CreateFile, Goto, ReplayInv, ReplayTypeOK, OncePerProcess,
            OnceUnlessLost,
                          ClaimIsExclusive
    <2> QED
        BY <1>2, <2>1, <2>2 DEF CreateFile
<1> QED
    BY <1>1, <1>2, Zenon

\* A claim that is used is synced; the one that failed is left behind.
LEMMA SyncStep ==
    ASSUME ReplayInv, NEW p \in Procs, SyncFile(p)
    PROVE  ReplayInv'
<1>1. PICK s \in {"claimed", "idle"} :
          /\ at' = [at EXCEPT ![p] = s]
          /\ synced' = IF s = "claimed" THEN synced \union {key[p]} ELSE synced
    BY DEF SyncFile, Goto
<1>2. /\ at[p] = "created" /\ kind = "file" /\ key[p] \in entries /\ key[p] \in Keys
      /\ UNCHANGED <<kind, memory, entries, key, lifetime, total, lost, crashes>>
    BY Zenon DEF SyncFile, ReplayInv, ReplayTypeOK, ClaimIsExclusive
<1>3. durable' \in SUBSET entries
    BY <1>2 DEF SyncFile, ReplayInv, ReplayTypeOK
<1>4. ReplayTypeOK'
    BY <1>1, <1>2, <1>3 DEF ReplayInv, ReplayTypeOK
<1>5. \A q \in Procs : at'[q] = IF q = p THEN s ELSE at[q]
    BY <1>1 DEF ReplayInv, ReplayTypeOK
<1>6. OncePerProcess' /\ OnceUnlessLost'
    BY <1>2, Zenon DEF ReplayInv, OncePerProcess, OnceUnlessLost
<1>7. ClaimIsExclusive'
    BY <1>2, <1>5 DEF ReplayInv, ClaimIsExclusive
<1>8. \A k \in Keys : k \notin entries' => total'[k] <= lost'[k]
    BY <1>2, Zenon DEF ReplayInv
<1>9. \A q \in Procs : at'[q] \in {"claimed", "executing"} => key'[q] \in entries' \intersect synced'
    BY <1>1, <1>2, <1>5, Zenon DEF ReplayInv
<1> QED
    BY <1>2, <1>4, <1>6, <1>7, <1>8, <1>9, Zenon DEF ReplayInv

\* The execution of a claimed key is the first since its name was lost.
LEMMA BeginStep ==
    ASSUME ReplayInv, NEW p \in Procs, Begin(p)
    PROVE  ReplayInv'
<1>1. ReplayTypeOK'
    BY DEF Begin, Goto, ReplayInv, ReplayTypeOK
<1>2. /\ at[p] = "claimed" /\ key[p] \in Keys
      /\ UNCHANGED <<kind, memory, entries, synced, durable, key, lost>>
    BY DEF Begin, ReplayInv, ReplayTypeOK
<1>3. \A q \in Procs : at'[q] = IF q = p THEN "executing" ELSE at[q]
    BY DEF Begin, Goto, ReplayInv, ReplayTypeOK
<1>4. \A q \in Procs, k \in Keys :
          lifetime'[q][k] = IF q = p /\ k = key[p] THEN lifetime[q][k] + 1 ELSE lifetime[q][k]
    BY <1>2, Zenon DEF Begin, ReplayInv, ReplayTypeOK
<1>5. \A k \in Keys : total'[k] = IF k = key[p] THEN total[k] + 1 ELSE total[k]
    BY <1>2 DEF Begin, ReplayInv, ReplayTypeOK
<1>6. CASE kind = "memory"
  <2>1. lifetime[p][key[p]] = 0 /\ key[p] \in memory[p]
      BY <1>2, <1>6, Zenon DEF ReplayInv
  <2>0. \A q \in Procs, k \in Keys : lifetime[q][k] <= 1
      BY <1>6, Zenon DEF ReplayInv, OncePerProcess
  <2>2. OncePerProcess'
    <3> SUFFICES ASSUME NEW q \in Procs, NEW k \in Keys PROVE lifetime'[q][k] <= 1
        BY Zenon DEF OncePerProcess
    <3>1. CASE q = p /\ k = key[p]
      <4>1. lifetime'[q][k] = lifetime[p][key[p]] + 1
          BY <1>2, <1>4, <3>1, Zenon
      <4> QED
          BY <2>1, <4>1
    <3>2. CASE ~(q = p /\ k = key[p])
      <4>1. lifetime'[q][k] = lifetime[q][k]
          BY <1>4, <3>2, Zenon
      <4> QED
          BY <2>0, <4>1, Zenon
    <3> QED
        BY <3>1, <3>2
  <2>3. \A q \in Procs : \A k \in Keys : lifetime'[q][k] > 0 => k \in memory'[q]
      BY <1>2, <1>4, <1>6, <2>1, Zenon DEF ReplayInv
  <2>4. \A q \in Procs :
            /\ at'[q] # "created"
            /\ at'[q] = "claimed" => key'[q] \in memory'[q] /\ lifetime'[q][key'[q]] = 0
    <3> SUFFICES ASSUME NEW q \in Procs, q # p
                 PROVE  /\ at'[q] # "created"
                        /\ at'[q] = "claimed" => key'[q] \in memory'[q] /\ lifetime'[q][key'[q]] = 0
        BY <1>3
    <3>1. key[q] \in Keys
        BY DEF ReplayInv, ReplayTypeOK
    <3> QED
        BY <1>2, <1>3, <1>4, <1>6, <3>1 DEF ReplayInv
  <2> QED
      BY <1>1, <1>2, <1>6, <2>2, <2>3, <2>4, Zenon DEF ReplayInv, OnceUnlessLost, ClaimIsExclusive
<1>7. CASE kind = "file"
  <2>1. total[key[p]] <= lost[key[p]] /\ key[p] \in entries /\ key[p] \in synced
      BY <1>2, <1>7, Zenon DEF ReplayInv, ClaimIsExclusive
  <2>0. \A k \in Keys : total[k] \in Nat /\ lost[k] \in Nat /\ total[k] <= 1 + lost[k]
      BY <1>7, Zenon DEF ReplayInv, ReplayTypeOK, OnceUnlessLost
  <2>2. OnceUnlessLost'
      BY <1>2, <1>5, <2>0, <2>1 DEF OnceUnlessLost
  <2>3. ClaimIsExclusive'
    <3> SUFFICES ASSUME NEW q \in Procs, at'[q] \in {"created", "claimed"}
                 PROVE  /\ key'[q] \in entries'
                        /\ total'[key'[q]] <= lost'[key'[q]]
                        /\ \A r \in Procs : at'[r] \in {"created", "claimed"} /\ key'[r] = key'[q] => r = q
        BY DEF ClaimIsExclusive
    <3>1. q # p /\ at[q] \in {"created", "claimed"} /\ key[q] \in Keys
        BY <1>3, Zenon DEF ReplayInv, ReplayTypeOK
    <3>2. key[q] # key[p]
        BY <1>2, <1>7, <3>1, Zenon DEF ReplayInv, ClaimIsExclusive
    <3>3. /\ key[q] \in entries /\ total[key[q]] <= lost[key[q]]
          /\ \A r \in Procs : at[r] \in {"created", "claimed"} /\ key[r] = key[q] => r = q
        BY <1>7, <3>1, Zenon DEF ReplayInv, ClaimIsExclusive
    <3> QED
        BY <1>2, <1>3, <1>5, <3>1, <3>2, <3>3
  <2>4. \A k \in Keys : k \notin entries' => total'[k] <= lost'[k]
    <3> SUFFICES ASSUME NEW k \in Keys, k \notin entries PROVE total'[k] <= lost'[k]
        BY <1>2
    <3>1. k # key[p] /\ total[k] <= lost[k]
        BY <1>7, <2>1, Zenon DEF ReplayInv
    <3> QED
        BY <1>2, <1>5, <3>1
  <2>5. \A q \in Procs : at'[q] \in {"claimed", "executing"} => key'[q] \in entries' \intersect synced'
      BY <1>2, <1>3, <1>7, <2>1, Zenon DEF ReplayInv
  <2> QED
      BY <1>1, <1>2, <1>7, <2>2, <2>3, <2>4, <2>5, Zenon DEF ReplayInv, OncePerProcess
<1> QED
    BY <1>6, <1>7, Zenon DEF ReplayInv, ReplayTypeOK

\* Neither the end of an execution nor a crash gives a key back.
LEMMA EndStep ==
    ASSUME ReplayInv, NEW p \in Procs, End(p) \/ Crash(p)
    PROVE  ReplayInv'
<1>1. CASE End(p)
    BY <1>1, Zenon DEF End, Goto, ReplayInv, ReplayTypeOK, OncePerProcess, OnceUnlessLost,
        ClaimIsExclusive
<1>2. CASE Crash(p)
    <2>1. /\ at' = [at EXCEPT ![p] = "idle"]
          /\ memory' = [memory EXCEPT ![p] = {}]
          /\ lifetime' = [lifetime EXCEPT ![p] = None]
          /\ UNCHANGED <<kind, entries, synced, durable, key, total, lost>>
        BY <1>2 DEF Crash, Goto
    <2>2. None \in [Keys -> Nat] /\ \A k \in Keys : None[k] = 0 /\ ~(None[k] > 0)
        BY DEF None
    <2>3. ReplayTypeOK'
        BY <1>2, <2>2 DEF Crash, Goto, ReplayInv, ReplayTypeOK
    <2>4. \A q \in Procs : /\ at'[q] = IF q = p THEN "idle" ELSE at[q]
                           /\ memory'[q] = IF q = p THEN {} ELSE memory[q]
                           /\ lifetime'[q] = IF q = p THEN None ELSE lifetime[q]
        BY <2>1, Zenon DEF ReplayInv, ReplayTypeOK
    <2>5. OncePerProcess'
      <3>1. kind = "memory" => \A q \in Procs, k \in Keys : lifetime[q][k] <= 1
          BY Zenon DEF ReplayInv, OncePerProcess
      <3> QED
          BY <2>1, <2>2, <2>4, <3>1 DEF OncePerProcess
    <2>6. \A q \in Procs : kind' = "memory" =>
              /\ \A k \in Keys : lifetime'[q][k] > 0 => k \in memory'[q]
              /\ at'[q] # "created"
              /\ at'[q] = "claimed" => key'[q] \in memory'[q] /\ lifetime'[q][key'[q]] = 0
      <3> SUFFICES ASSUME NEW q \in Procs, kind' = "memory"
                   PROVE  /\ \A k \in Keys : lifetime'[q][k] > 0 => k \in memory'[q]
                          /\ at'[q] # "created"
                          /\ at'[q] = "claimed" => key'[q] \in memory'[q] /\ lifetime'[q][key'[q]] = 0
          BY Zenon
      <3>1. CASE q = p
          BY <2>2, <2>4, <3>1, Zenon
      <3>2. CASE q # p
        <4>1. at'[q] = at[q] /\ memory'[q] = memory[q] /\ lifetime'[q] = lifetime[q] /\ key' = key
            BY <2>1, <2>4, <3>2
        <4> QED
            BY <2>1, <4>1, Zenon DEF ReplayInv
      <3> QED
          BY <3>1, <3>2, Zenon
    <2>7. OnceUnlessLost'
        BY <2>1, Zenon DEF ReplayInv, OnceUnlessLost
    <2>8. \A q \in Procs : at'[q] # "idle" => at'[q] = at[q]
        BY <2>4, Zenon
    <2>9. ClaimIsExclusive'
        BY <2>1, <2>8, ZenonT(40) DEF ReplayInv, ClaimIsExclusive
    <2>10. /\ kind' = "file" => \A k \in Keys : k \notin entries' => total'[k] <= lost'[k]
           /\ \A q \in Procs : kind' = "file" /\ at'[q] \in {"claimed", "executing"} =>
                  key'[q] \in entries' \intersect synced'
        BY <2>1, <2>8, Zenon DEF ReplayInv
    <2> QED
        BY <2>3, <2>5, <2>6, <2>7, <2>9, <2>10, Zenon DEF ReplayInv
<1> QED
    BY <1>1, <1>2

\* A power loss that takes the name of an executed key away is counted.
LEMMA PowerLossStep ==
    ASSUME ReplayInv, PowerLoss
    PROVE  ReplayInv'
<1>1. /\ \A p \in Procs : at'[p] = "idle" /\ memory'[p] = {} /\ lifetime'[p] = None
      /\ kind' = kind /\ key' = key /\ total' = total /\ crashes' = crashes + 1
    BY DEF PowerLoss
<1>2. None \in [Keys -> Nat] /\ \A k \in Keys : None[k] = 0 /\ None[k] <= 1 /\ ~(None[k] > 0)
    BY DEF None
<1>3. \A k \in Keys : total[k] \in Nat /\ lost[k] \in Nat
    BY DEF ReplayInv, ReplayTypeOK
<1>4. entries' \in SUBSET entries
    BY DEF PowerLoss, ReplayInv, ReplayTypeOK
<1>5. /\ \A k \in Keys : lost'[k] = IF k \in entries \ entries' THEN lost[k] + 1 ELSE lost[k]
      /\ lost' \in [Keys -> Nat]
    BY <1>3 DEF PowerLoss
<1>6. ReplayTypeOK'
    BY <1>2, <1>4, <1>5 DEF PowerLoss, ReplayInv, ReplayTypeOK
<1>7. OncePerProcess'
    BY <1>1, <1>2, Zenon DEF OncePerProcess
<1>8. ClaimIsExclusive'
    BY <1>1 DEF ClaimIsExclusive
<1>9. ASSUME kind = "file", NEW k \in Keys
      PROVE  total[k] <= 1 + lost'[k] /\ (k \notin entries' => total[k] <= lost'[k])
  <2>1. total[k] <= 1 + lost[k] /\ (k \notin entries => total[k] <= lost[k])
      BY <1>9, Zenon DEF ReplayInv, OnceUnlessLost
  <2> QED
      BY <1>3, <1>4, <1>5, <2>1
<1>10. OnceUnlessLost' /\ (kind' = "file" => \A k \in Keys : k \notin entries' => total'[k] <= lost'[k])
    BY <1>1, <1>9, Zenon DEF OnceUnlessLost
<1>11. \A p \in Procs : at'[p] \notin {"created", "claimed", "executing"}
    BY <1>1
<1>12. \A p \in Procs : kind' = "memory" =>
           /\ \A k \in Keys : lifetime'[p][k] > 0 => k \in memory'[p]
           /\ at'[p] # "created"
           /\ at'[p] = "claimed" => key'[p] \in memory'[p] /\ lifetime'[p][key'[p]] = 0
    BY <1>1, <1>2, <1>11
<1>13. \A p \in Procs : kind' = "file" /\ at'[p] \in {"claimed", "executing"} =>
           key'[p] \in entries' \intersect synced'
    BY <1>11, Zenon
<1> QED
    BY <1>6, <1>7, <1>8, <1>10, <1>12, <1>13, Zenon DEF ReplayInv

\* Every behaviour of the stores keeps ReplayInv: at most one execution per key between two
\* losses of its name, and per process life.
THEOREM ReplayInvariant == ReplaySpec => []ReplayInv
<1>1. ReplayInv /\ [ReplayNext]_replay => ReplayInv'
    <2> SUFFICES ASSUME ReplayInv, [ReplayNext]_replay PROVE ReplayInv'
        OBVIOUS
    <2>1. CASE UNCHANGED replay
        BY <2>1, Zenon DEF replay, ReplayInv, ReplayTypeOK, OncePerProcess, OnceUnlessLost,
            ClaimIsExclusive
    <2>2. CASE ReplayNext
        BY <2>2, ClaimStep, SyncStep, BeginStep, EndStep, PowerLossStep DEF ReplayNext
    <2> QED
        BY <2>1, <2>2
<1> QED
    BY <1>1, ReplayInvInit, PTL DEF ReplaySpec

\* A memory store executes a key at most once in the life of its process, and FileReplayStore
\* at most once across processes and their crashes, and once more after each power loss that
\* took the name of the key's file away.
THEOREM StoresExecuteOnce == ReplaySpec => []ExecutesOnce
<1>1. ReplayInv => ExecutesOnce
    BY Zenon DEF ReplayInv, ExecutesOnce
<1> QED
    BY <1>1, ReplayInvariant, PTL

\* The claim is in the directory, written and synced, before the first byte can be sent.
THEOREM ClaimPrecedesEffect == ReplaySpec => []ClaimBeforeEffect
<1>1. ReplayInv => ClaimBeforeEffect
    BY DEF ReplayInv, ClaimBeforeEffect
<1> QED
    BY <1>1, ReplayInvariant, PTL
=============================================================================
