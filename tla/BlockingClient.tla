--------------------------- MODULE BlockingClient ---------------------------
(***************************************************************************)
(* BlockingPrinterClient: a caller without a runtime, and the worker       *)
(* thread that owns the runtime and the transport.  Commands and progress  *)
(* events go through bounded channels on which either side can block.  An  *)
(* execution is a number of steps, each of which reaches the printer and   *)
(* is then reported; what the executor does inside is Executor.  The       *)
(* caller's progress callback may panic, which ends the call and not the   *)
(* execution.                                                              *)
(***************************************************************************)
EXTENDS Integers, Sequences

CONSTANTS
    CommandCapacity,    \* of the command channel
    EventCapacity,      \* of the event channel of an execution
    Steps,              \* steps of a plan
    MaxExecutions       \* bound on the executions of a behaviour

ASSUME ClientAssumption ==
    /\ CommandCapacity \in Nat \ {0} /\ EventCapacity \in Nat \ {0}
    /\ Steps \in Nat \ {0} /\ MaxExecutions \in Nat

VARIABLES
    client,     \* "connect", "open", "submit", "receive", "shutdown", "acknowledge", "join" or "gone"
    closing,    \* "no", "disconnect" or "drop": who asked for the shutdown
    executions, \* executions asked for; the last one is the one listened to
    seen,       \* progress events the present call handed to the callback
    answer,     \* the worker's word on connecting, then on Shutdown: "none", "ok" or "error"
    returned,   \* what the last execute returned: [kind, steps]
    commands,   \* the command channel: numbers of executions, 0 for Shutdown
    events,     \* events the caller has not received: step numbers, or results
    worker,     \* "start", "recv", "execute", "report", "close", "leaving" or "stopped"
    current,    \* the execution in progress
    done,       \* steps that reached the printer, by execution
    disconnected, \* transport.disconnect() was called
    panicked    \* the worker panicked

caller == <<client, closing, executions, seen, answer, returned>>
printer == <<done, disconnected, panicked>>
vars == <<caller, commands, events, worker, current, printer>>

NoResult == [kind |-> "none", steps |-> 0]

Init ==
    /\ client = "connect" /\ closing = "no"
    /\ executions = 0 /\ seen = 0 /\ answer = "none" /\ returned = NoResult
    /\ commands = <<>> /\ events = <<>>
    /\ worker = "start" /\ current = 0
    /\ done = [e \in 1..MaxExecutions |-> 0]
    /\ disconnected = FALSE /\ panicked = FALSE

-----------------------------------------------------------------------------
(* connect_btleplug and from_transport *)

\* The worker builds its runtime and connects, and says how that went; or panics.
Start ==
    /\ worker = "start"
    /\ \/ worker' = "recv" /\ answer' = "ok" /\ UNCHANGED panicked
       \/ worker' = "leaving" /\ answer' = "error" /\ UNCHANGED panicked
       \/ worker' = "leaving" /\ UNCHANGED answer /\ panicked' = TRUE
    /\ UNCHANGED <<client, closing, executions, seen, returned, commands, events, current, done, disconnected>>

\* The client waits for that word; connect_btleplug also joins a worker that failed,
\* from_transport returns at once.
Connected ==
    /\ client = "connect"
    /\ \/ answer = "ok" /\ client' = "open"
       \/ (answer = "error" \/ worker = "stopped") /\ answer # "ok" /\ client' = "gone"
    /\ answer' = "none"
    /\ UNCHANGED <<closing, executions, seen, returned, commands, events, worker, current, printer>>

-----------------------------------------------------------------------------
(* execute_with_progress *)

Execute ==
    /\ client = "open"
    /\ executions < MaxExecutions
    /\ executions' = executions + 1
    /\ client' = "submit"
    /\ seen' = 0
    /\ events' = <<>>
    /\ returned' = NoResult
    /\ UNCHANGED <<closing, answer, commands, worker, current, printer>>

Submit ==
    /\ client = "submit"
    /\ worker # "stopped"
    /\ Len(commands) < CommandCapacity
    /\ commands' = Append(commands, executions)
    /\ client' = "receive"
    /\ UNCHANGED <<closing, executions, seen, answer, returned, events, worker, current, printer>>

\* The worker is gone, before or after it got the command: an error without progress.
WorkerLost ==
    /\ \/ client = "submit" /\ worker = "stopped"
       \/ /\ client = "receive" /\ events = <<>>
          /\ worker = "stopped"
    /\ client' = "open"
    /\ returned' = [kind |-> "Transport", steps |-> 0]
    /\ UNCHANGED <<closing, executions, seen, answer, commands, events, worker, current, printer>>

\* Mutant of Receive: the caller does not wait for ever.
ReceiveOrTimeout ==
    /\ client = "receive"
    /\ client' = "open"
    /\ events' = <<>>
    /\ UNCHANGED <<closing, executions, seen, answer, returned, commands, worker, current, printer>>

\* A progress event goes to the callback, the result to the caller.
Receive ==
    /\ client = "receive"
    /\ events # <<>>
    /\ events' = Tail(events)
    /\ \/ /\ Head(events).kind = "progress"
          /\ seen' = seen + 1
          /\ UNCHANGED <<client, returned>>
       \/ /\ Head(events).kind # "progress"
          /\ client' = "open"
          /\ returned' = Head(events)
          /\ UNCHANGED seen
    /\ UNCHANGED <<closing, executions, answer, commands, worker, current, printer>>

\* The callback panics: the receiver is dropped, the execution goes on.
CallbackPanics ==
    /\ client = "receive"
    /\ events # <<>> /\ Head(events).kind = "progress"
    /\ client' = "open"
    /\ events' = <<>>
    /\ UNCHANGED <<closing, executions, seen, answer, returned, commands, worker, current, printer>>

-----------------------------------------------------------------------------
(* disconnect and Drop *)

\* Mutant of Close: a client without Drop.
CloseAbruptly(how) ==
    /\ client = "open"
    /\ closing' = how
    /\ client' = IF how = "drop" THEN "gone" ELSE "shutdown"
    /\ UNCHANGED <<executions, seen, answer, returned, commands, events, worker, current, printer>>

Close(how) ==
    /\ client = "open"
    /\ closing' = how
    /\ client' = "shutdown"
    /\ UNCHANGED <<executions, seen, answer, returned, commands, events, worker, current, printer>>

RequestShutdown ==
    /\ client = "shutdown"
    /\ worker # "stopped"
    /\ Len(commands) < CommandCapacity
    /\ commands' = Append(commands, 0)
    /\ client' = "acknowledge"
    /\ answer' = "none"
    /\ UNCHANGED <<closing, executions, seen, returned, events, worker, current, printer>>

\* disconnect fails and the client it consumed is dropped, which asks once more; Drop
\* gives up and detaches the thread.
ShutdownFails ==
    IF closing = "disconnect" THEN client' = "shutdown" /\ closing' = "drop"
    ELSE client' = "gone" /\ UNCHANGED closing

\* The command channel is closed, or the reply was dropped with it.
ShutdownLost ==
    /\ client \in {"shutdown", "acknowledge"}
    /\ answer = "none"
    /\ worker = "stopped"
    /\ ShutdownFails
    /\ UNCHANGED <<executions, seen, answer, returned, commands, events, worker, current, printer>>

DropTimeout ==
    /\ client = "acknowledge"
    /\ closing = "drop"
    /\ ShutdownFails
    /\ UNCHANGED <<executions, seen, answer, returned, commands, events, worker, current, printer>>

Acknowledged ==
    /\ client = "acknowledge"
    /\ answer # "none"
    /\ answer' = "none"
    /\ IF answer = "ok" THEN client' = "join" /\ UNCHANGED closing ELSE ShutdownFails
    /\ UNCHANGED <<executions, seen, returned, commands, events, worker, current, printer>>

Join ==
    /\ client = "join"
    /\ worker = "stopped"
    /\ client' = "gone"
    /\ UNCHANGED <<closing, executions, seen, answer, returned, commands, events, worker, current, printer>>

-----------------------------------------------------------------------------
(* run_worker *)

\* The channel never closes on a waiting worker: every client that goes away has left
\* a Shutdown in it.
Take ==
    /\ worker = "recv"
    /\ commands # <<>>
    /\ commands' = Tail(commands)
    /\ current' = Head(commands)
    /\ worker' = IF Head(commands) = 0 THEN "close" ELSE "execute"
    /\ UNCHANGED <<caller, events, done, disconnected, panicked>>

\* A step reaches the printer.
Step ==
    /\ worker = "execute"
    /\ done[current] < Steps
    /\ done' = [done EXCEPT ![current] = @ + 1]
    /\ worker' = "report"
    /\ UNCHANGED <<caller, commands, events, current, disconnected, panicked>>

\* Mutant of Listening: one event channel for all executions.
ListeningToAny == client = "receive"

Listening == client = "receive" /\ executions = current

\* Mutant of Report: the channel outlives the caller's interest in it.
ReportAlways ==
    /\ worker = "report"
    /\ Len(events) < EventCapacity
    /\ events' = Append(events, [kind |-> "progress", steps |-> done[current]])
    /\ worker' = "execute"
    /\ UNCHANGED <<caller, commands, current, printer>>

\* The executor's callback sends the event; it blocks while the channel is full and
\* returns at once when nobody listens.
Report ==
    /\ worker = "report"
    /\ \/ ~Listening /\ UNCHANGED events
       \/ /\ Listening /\ Len(events) < EventCapacity
          /\ events' = Append(events, [kind |-> "progress", steps |-> done[current]])
    /\ worker' = "execute"
    /\ UNCHANGED <<caller, commands, current, printer>>

\* The result is sent: a success after the last step, an error at any, and an
\* unknown outcome when a write failed whose step may have reached the printer.
Finish ==
    /\ worker = "execute"
    /\ \E kind \in {"Ok", "Err", "Unknown"} :
           /\ kind = "Ok" => done[current] = Steps
           /\ kind = "Unknown" => done[current] < Steps
           /\ \/ ~Listening /\ UNCHANGED events
              \/ /\ Listening /\ Len(events) < EventCapacity
                 /\ events' = Append(events, [kind |-> kind, steps |-> done[current]])
           /\ \/ UNCHANGED done
              \/ kind = "Unknown" /\ done' = [done EXCEPT ![current] = @ + 1]
    /\ worker' = "recv"
    /\ UNCHANGED <<caller, commands, current, disconnected, panicked>>

\* Shutdown: the transport is disconnected, the reply sent, the loop left.
Disconnect ==
    /\ worker = "close"
    /\ disconnected' = TRUE
    /\ answer' \in IF client = "acknowledge" THEN {"ok", "error"} ELSE {answer}
    /\ worker' = "leaving"
    /\ UNCHANGED <<client, closing, executions, seen, returned, commands, events, current, done, panicked>>

\* The transport panics in a step: what it did before, the printer has.
Panic ==
    /\ worker = "execute"
    /\ done[current] < Steps
    /\ done' \in {done, [done EXCEPT ![current] = @ + 1]}
    /\ worker' = "leaving"
    /\ panicked' = TRUE
    /\ UNCHANGED <<caller, commands, events, current, disconnected>>

\* The receiver is dropped with the commands in it.
Leave ==
    /\ worker = "leaving"
    /\ worker' = "stopped"
    /\ commands' = <<>>
    /\ UNCHANGED <<caller, events, current, printer>>

-----------------------------------------------------------------------------

Caller == Connected \/ Submit \/ WorkerLost \/ Receive \/ RequestShutdown \/ ShutdownLost \/ Acknowledged \/ Join

Worker == Start \/ Take \/ Step \/ Report \/ Finish \/ Disconnect \/ Panic \/ Leave

\* The worker waits for its transport: to connect, to write or wait, or to disconnect.
InTransport ==
    \/ worker \in {"start", "close"}
    \/ worker = "execute" /\ done[current] < Steps

Next ==
    \/ Execute \/ Close("disconnect") \/ Close("drop")
    \/ Caller \/ CallbackPanics \/ DropTimeout
    \/ Worker

Spec == Init /\ [][Next]_vars

\* Both threads are scheduled and the second that Drop waits passes.  A future of the
\* transport need not resolve: over Bluetooth a write waits for the printer's credit, and a
\* caller without a token cannot end that.
FairSpec == Spec /\ WF_vars(Caller) /\ WF_vars(DropTimeout) /\ WF_vars(~InTransport /\ Worker)

-----------------------------------------------------------------------------

\* No send on the command channel ever blocks, so the second that Drop waits for its
\* reply is all it waits for: a caller can abandon only an execution that has begun,
\* and the channel holds at most the one after it.
SendsNeverBlock ==
    client \in {"submit", "shutdown"} /\ worker # "stopped" => Len(commands) < CommandCapacity

\* What execute returns is what its own plan did, up to the one write whose outcome
\* it calls unknown, and the callback has seen every step of it, although the events
\* and the result of an abandoned execution may still be on their way when the next
\* one is asked for.
ResultIsOwn ==
    client = "open" /\ returned.kind \in {"Ok", "Err", "Unknown"} =>
        /\ seen = returned.steps
        /\ done[executions] \in {returned.steps} \cup
               (IF returned.kind = "Unknown" THEN {returned.steps + 1} ELSE {})

\* Every call returns: the two threads never block each other for good on their
\* bounded channels, whether or not the worker survives.
EveryCallReturns == client \notin {"open", "gone"} ~> client \in {"open", "gone"}

\* However the client went away, the worker ends; and if it had connected and did not
\* panic, it has disconnected the transport.
WorkerEnds ==
    client = "gone" ~> worker = "stopped" /\ (closing = "no" \/ panicked \/ disconnected)

\* Drop returns, whatever its worker waits for.
DropReturns == closing = "drop" ~> client = "gone"

\* The two threads and their bounded channels never keep each other: commands can always be
\* sent, Drop returns, and unless the transport itself never answers, calls return and the
\* worker ends.
NothingHangs == []SendsNeverBlock /\ DropReturns /\ (<>[]InTransport \/ (EveryCallReturns /\ WorkerEnds))
=============================================================================
