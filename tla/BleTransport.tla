---------------------------- MODULE BleTransport ----------------------------
(***************************************************************************)
(* The Bluetooth LE transport of crates/mb-printer-native: connecting and  *)
(* selecting characteristics, subscribing, the task that forwards          *)
(* notifications into a bounded queue, credit flow control, response       *)
(* waits, and the ways to close it.                                        *)
(*                                                                         *)
(* One call runs at a time (every method takes &mut self), but a call can  *)
(* be abandoned at each of its awaits, the forwarding task runs on its     *)
(* own, and the printer notifies and hangs up when it likes.  The          *)
(* Bluetooth stack (btleplug) is the environment.  A notification is a     *)
(* credit frame, a limit frame or a response, numbered in order.           *)
(***************************************************************************)
EXTENDS Integers, Sequences

CONSTANTS
    PayloadLimit,   \* options.payload_limit
    QueueCapacity,  \* NOTIFICATION_QUEUE_CAPACITY, of the channel and of pending_responses
    Lengths,        \* lengths of the writes asked for
    Grants,         \* credits a credit frame may carry
    FlowLimits,     \* limits a limit frame may carry, zero among them
    MaxFrames,      \* bound on the notifications of a behaviour
    MaxWrites       \* bound on the GATT writes of a behaviour

ASSUME BleAssumption ==
    /\ PayloadLimit \in Nat \ {0}
    /\ QueueCapacity \in Nat \ {0}
    /\ Lengths \subseteq Nat
    /\ Grants \subseteq Nat
    /\ FlowLimits \subseteq Nat
    /\ MaxFrames \in Nat
    /\ MaxWrites \in Nat

VARIABLES
    profile,    \* the capabilities: is a notification required, is there flow control
    phase,      \* "new", "linked", "open", "failed" or "dropped"
    link,       \* the peripheral is connected
    state,      \* NotificationState
    call,       \* the call in progress: [op, len]
    forwarder,  \* "none", "opened" (the stream exists), "running" or "ended"
    enabled,    \* the printer sends notifications
    stream,     \* notifications the forwarding task has not forwarded
    queue,      \* the mpsc channel
    credits, maximum, pending, \* CreditFlowState; maximum is 0 for None
    frames,     \* number of notifications sent
    granted,    \* credits the printer granted
    transmitted,\* GATT writes handed to the stack
    kept,       \* responses that entered the notification stream
    received    \* responses returned to the caller

flow == <<credits, maximum, pending>>
printer == <<frames, granted, kept>>
notifications == <<forwarder, enabled, stream, queue, flow, printer>>
history == <<transmitted, received>>
vars == <<profile, phase, link, state, call, forwarder, enabled, stream, queue, flow, printer,
          transmitted, received>>

Idle == [op |-> "none", len |-> 0]

Profiles == [notification : {"none", "optional", "required"}, flow : BOOLEAN]

\* The characteristics found: can the write one be written, can the notifying one notify.
Offers == [write : BOOLEAN, notify : {"absent", "notify", "other"}]

Init ==
    /\ profile \in Profiles
    /\ phase = "new"
    /\ link \in BOOLEAN
    /\ state = "Unsupported"
    /\ call = Idle
    /\ forwarder = "none"
    /\ enabled = FALSE
    /\ stream = <<>> /\ queue = <<>>
    /\ credits = 0 /\ maximum = 0 /\ pending = <<>>
    /\ frames = 0 /\ granted = 0
    /\ transmitted = 0
    /\ kept = <<>> /\ received = <<>>

-----------------------------------------------------------------------------
(* connect *)

\* The scan fails, the peripheral is not found or cannot be connected.
ConnectFails ==
    /\ phase = "new"
    /\ phase' = "failed"
    /\ UNCHANGED <<profile, link, state, call, notifications, history>>

Link ==
    /\ phase = "new"
    /\ phase' = "linked"
    /\ link' = TRUE
    /\ UNCHANGED <<profile, state, call, notifications, history>>

\* discover_services fails: the connection that was made is left behind.
DiscoverFails ==
    /\ phase = "linked"
    /\ phase' = "failed"
    /\ UNCHANGED <<profile, link, state, call, notifications, history>>

\* select_characteristics: may these characteristics be used, and does one notify.
Notifies(o) == profile.notification # "none" /\ o.notify = "notify"

Selectable(o) ==
    /\ o.write
    /\ profile.notification = "none" \/ o.notify = "notify"
          \/ (o.notify = "absent" /\ profile.notification = "optional")
    /\ profile.flow => Notifies(o)

Select(o) ==
    /\ phase = "linked"
    /\ \/ /\ Selectable(o)
          /\ phase' = "open"
          /\ state' = IF Notifies(o) THEN "Available" ELSE "Unsupported"
          /\ UNCHANGED link
       \/ /\ ~Selectable(o)
          /\ phase' = "failed"
          /\ link' \in {link, FALSE}
          /\ UNCHANGED state
    /\ UNCHANGED <<profile, call, notifications, history>>

-----------------------------------------------------------------------------
(* Calls. *)

Ready == phase = "open" /\ call = Idle

\* The call ends; what it did stays.
Done == call' = Idle

\* subscribe_inner returns at once, and changes nothing, unless notifications are
\* available.
BeginSubscribe ==
    /\ Ready
    /\ state = "Available"
    /\ call' = [Idle EXCEPT !.op = "open"]
    /\ UNCHANGED <<profile, phase, link, state, notifications, history>>

\* notifications() resolves: from here on nothing the printer sends is lost.
StreamOpens ==
    /\ call.op = "open"
    /\ forwarder' = "opened"
    /\ call' = [call EXCEPT !.op = "enable"]
    /\ UNCHANGED <<profile, phase, link, state, enabled, stream, queue, flow, printer, history>>

\* The printer accepts the subscription, before the caller knows.
PrinterEnables ==
    /\ call.op = "enable"
    /\ link /\ ~enabled
    /\ enabled' = TRUE
    /\ UNCHANGED <<profile, phase, link, state, call, forwarder, stream, queue, flow, printer, history>>

Subscribed ==
    /\ call.op = "enable"
    /\ enabled
    /\ forwarder' = "running"
    /\ state' = "Subscribed"
    /\ Done
    /\ UNCHANGED <<profile, phase, link, enabled, stream, queue, flow, printer, history>>

\* subscribe_inner fails or is abandoned: its local stream is dropped.
SubscribeEnds ==
    /\ call.op \in {"open", "enable"}
    /\ forwarder' = "none"
    /\ stream' = <<>>
    /\ kept' = received
    /\ Done
    /\ UNCHANGED <<profile, phase, link, state, enabled, queue, flow, frames, granted, history>>

\* write_inner refuses a call before its first await.
WriteRefused(n) ==
    \/ state = "Disconnected"
    \/ n > PayloadLimit
    \/ profile.flow /\ state # "Subscribed"

BeginWrite(n) ==
    /\ Ready
    /\ transmitted < MaxWrites
    /\ \/ WriteRefused(n) /\ UNCHANGED call
       \/ /\ ~WriteRefused(n)
          /\ call' = [op |-> IF profile.flow THEN "credit" ELSE "send", len |-> n]
    /\ UNCHANGED <<profile, phase, link, state, notifications, history>>

\* CreditFlowState::observe for a frame that is one of flow control.
Observe(f) ==
    /\ credits' = IF f.kind = "credit" THEN credits + f.n ELSE credits
    /\ maximum' = IF f.kind = "limit" /\ f.n # 0 THEN f.n ELSE maximum

\* Mutant of ReceiveForCredit: a full response queue is waited for instead.
ReceiveForCreditStalls ==
    /\ call.op = "credit"
    /\ credits = 0
    /\ queue # <<>>
    /\ queue' = Tail(queue)
    /\ \/ /\ Head(queue).kind # "response"
          /\ Observe(Head(queue))
          /\ UNCHANGED pending
       \/ /\ Head(queue).kind = "response"
          /\ Len(pending) < QueueCapacity
          /\ pending' = Append(pending, Head(queue).n)
          /\ UNCHANGED <<credits, maximum>>
    /\ UNCHANGED <<profile, phase, link, state, call, forwarder, enabled, stream, printer, history>>

\* Mutant of ReceiveForCredit: responses are set aside without a limit.
ReceiveForCreditUnbounded ==
    /\ call.op = "credit"
    /\ credits = 0
    /\ queue # <<>>
    /\ queue' = Tail(queue)
    /\ \/ /\ Head(queue).kind # "response"
          /\ Observe(Head(queue))
          /\ UNCHANGED pending
       \/ /\ Head(queue).kind = "response"
          /\ pending' = Append(pending, Head(queue).n)
          /\ UNCHANGED <<credits, maximum>>
    /\ UNCHANGED <<profile, phase, link, state, call, forwarder, enabled, stream, printer, history>>

\* receive_for_credit takes one notification: flow control is observed, a response
\* is set aside; when too many are, the write fails and the transport gives up.
ReceiveForCredit ==
    /\ call.op = "credit"
    /\ credits = 0
    /\ queue # <<>>
    /\ queue' = Tail(queue)
    /\ \/ /\ Head(queue).kind # "response"
          /\ Observe(Head(queue))
          /\ UNCHANGED <<state, call, pending>>
       \/ /\ Head(queue).kind = "response"
          /\ Len(pending) < QueueCapacity
          /\ pending' = Append(pending, Head(queue).n)
          /\ UNCHANGED <<state, call, credits, maximum>>
       \/ /\ Head(queue).kind = "response"
          /\ Len(pending) = QueueCapacity
          /\ state' = "Disconnected"
          /\ Done
          /\ UNCHANGED flow
    /\ UNCHANGED <<profile, phase, link, forwarder, enabled, stream, printer, history>>

\* Mutant of TakeCredit: the credit of a write that is refused is not consumed, nor
\* that of the write that is not.
TakeCreditFree ==
    /\ call.op = "credit"
    /\ credits > 0
    /\ call' = IF maximum # 0 /\ call.len > maximum THEN Idle ELSE [call EXCEPT !.op = "send"]
    /\ UNCHANGED <<profile, phase, link, state, notifications, history>>

\* A credit is there: it is consumed, then the write is held against the printer's limit.
TakeCredit ==
    /\ call.op = "credit"
    /\ credits > 0
    /\ credits' = credits - 1
    /\ call' = IF maximum # 0 /\ call.len > maximum THEN Idle ELSE [call EXCEPT !.op = "send"]
    /\ UNCHANGED <<profile, phase, link, state, forwarder, enabled, stream, queue, maximum, pending,
                   printer, history>>

\* peripheral.write hands the bytes to the stack.
Transmit ==
    /\ call.op = "send"
    /\ link
    /\ transmitted' = transmitted + 1
    /\ call' = [call EXCEPT !.op = "sent"]
    /\ UNCHANGED <<profile, phase, link, state, forwarder, enabled, stream, queue, flow, printer,
                   received>>

\* The write resolves, fails or is abandoned; the stack may send it all the same.
WriteEnds ==
    /\ call.op \in {"send", "sent"}
    /\ Done
    /\ \/ UNCHANGED transmitted
       \/ call.op = "send" /\ link /\ transmitted' = transmitted + 1
    /\ UNCHANGED <<profile, phase, link, state, forwarder, enabled, stream, queue, flow, printer,
                   received>>

\* The executor drops a write or a wait that lost its race; recv() is cancel safe.
Abandon ==
    /\ call.op \in {"credit", "wait"}
    /\ Done
    /\ UNCHANGED <<profile, phase, link, state, notifications, history>>

\* Mutant of BeginWait: the responses set aside are left for later.
BeginWaitQueueFirst ==
    /\ Ready
    /\ \/ /\ profile.flow => state # "Subscribed"
          /\ state # "Subscribed"
          /\ UNCHANGED <<call, pending, received>>
       \/ /\ state = "Subscribed"
          /\ profile.flow /\ pending # <<>> /\ queue = <<>>
          /\ received' = Append(received, Head(pending))
          /\ pending' = Tail(pending)
          /\ UNCHANGED call
       \/ /\ state = "Subscribed"
          /\ pending = <<>> \/ queue # <<>>
          /\ call' = [Idle EXCEPT !.op = "wait"]
          /\ UNCHANGED <<pending, received>>
    /\ UNCHANGED <<profile, phase, link, state, forwarder, enabled, stream, queue, credits, maximum,
                   printer, transmitted>>

\* wait_inner: unavailable or an error without a subscription, then the responses
\* that were set aside, then the queue.
BeginWait ==
    /\ Ready
    /\ \/ /\ state # "Subscribed"
          /\ UNCHANGED <<call, pending, received>>
       \/ /\ state = "Subscribed"
          /\ profile.flow /\ pending # <<>>
          /\ received' = Append(received, Head(pending))
          /\ pending' = Tail(pending)
          /\ UNCHANGED call
       \/ /\ state = "Subscribed"
          /\ ~(profile.flow /\ pending # <<>>)
          /\ call' = [Idle EXCEPT !.op = "wait"]
          /\ UNCHANGED <<pending, received>>
    /\ UNCHANGED <<profile, phase, link, state, forwarder, enabled, stream, queue, credits, maximum,
                   printer, transmitted>>

\* receive_flow_response and wait_notification_state take one notification.
ReceiveResponse ==
    /\ call.op = "wait"
    /\ queue # <<>>
    /\ queue' = Tail(queue)
    /\ \/ /\ profile.flow /\ Head(queue).kind # "response"
          /\ Observe(Head(queue))
          /\ UNCHANGED <<call, received>>
       \/ /\ ~(profile.flow /\ Head(queue).kind # "response")
          /\ received' = Append(received, Head(queue).n)
          /\ Done
          /\ UNCHANGED <<credits, maximum>>
    /\ UNCHANGED <<profile, phase, link, state, forwarder, enabled, stream, pending, printer,
                   transmitted>>

WaitTimeout ==
    /\ call.op = "wait"
    /\ Done
    /\ UNCHANGED <<profile, phase, link, state, notifications, history>>

\* recv() returns None: the stream has ended and the queue is empty.
StreamEnded ==
    /\ call.op = "wait" \/ (call.op = "credit" /\ credits = 0)
    /\ queue = <<>>
    /\ forwarder = "ended"
    /\ state' = "Disconnected"
    /\ Done
    /\ UNCHANGED <<profile, phase, link, notifications, history>>

\* Abort the forwarding task and drop the receiver.
StopForwarding ==
    /\ state' = "Disconnected"
    /\ forwarder' = "none"
    /\ stream' = <<>> /\ queue' = <<>>

\* disconnect_inner; once the state is Disconnected it returns Ok without any effect.
BeginDisconnect ==
    /\ Ready
    /\ state # "Disconnected"
    /\ StopForwarding
    /\ call' = [Idle EXCEPT !.op = "close"]
    /\ UNCHANGED <<profile, phase, link, enabled, flow, printer, transmitted, received>>

\* peripheral.disconnect resolves, fails, or is abandoned.
DisconnectEnds ==
    /\ call.op = "close"
    /\ Done
    /\ link' \in {link, FALSE}
    /\ UNCHANGED <<profile, phase, state, forwarder, enabled, stream, queue, flow, printer,
                   transmitted, received>>

DropTransport ==
    /\ Ready
    /\ phase' = "dropped"
    /\ StopForwarding
    /\ UNCHANGED <<profile, link, call, enabled, flow, printer, history>>

-----------------------------------------------------------------------------
(* The printer and the forwarding task. *)

\* A notification: flow control only from a printer that has it.
Notify(f) ==
    /\ link /\ enabled
    /\ frames < MaxFrames
    /\ profile.flow \/ f.kind = "response"
    /\ frames' = frames + 1
    /\ granted' = IF f.kind = "credit" THEN granted + f.n ELSE granted
    /\ IF forwarder \in {"opened", "running"}
       THEN /\ stream' = Append(stream, f)
            /\ kept' = IF f.kind = "response" THEN Append(kept, f.n) ELSE kept
       ELSE UNCHANGED <<stream, kept>>
    /\ UNCHANGED <<profile, phase, link, state, call, forwarder, enabled, queue, flow, history>>

Frames ==
    [kind : {"credit"}, n : Grants] \union [kind : {"limit"}, n : FlowLimits]
        \union [kind : {"response"}, n : {frames + 1}]

HangUp ==
    /\ link
    /\ link' = FALSE
    /\ enabled' = FALSE
    /\ UNCHANGED <<profile, phase, state, call, forwarder, stream, queue, flow, printer, history>>

\* The forwarding task moves a notification, when the channel has room.
Forward ==
    /\ forwarder = "running"
    /\ stream # <<>>
    /\ Len(queue) < QueueCapacity
    /\ queue' = Append(queue, Head(stream))
    /\ stream' = Tail(stream)
    /\ UNCHANGED <<profile, phase, link, state, call, forwarder, enabled, flow, frames, granted,
                   kept, history>>

ForwarderEnds ==
    /\ forwarder = "running"
    /\ ~link
    /\ stream = <<>>
    /\ forwarder' = "ended"
    /\ UNCHANGED <<profile, phase, link, state, call, enabled, stream, queue, flow, printer, history>>

-----------------------------------------------------------------------------

Connect == ConnectFails \/ Link \/ DiscoverFails \/ \E o \in Offers : Select(o)

CreditStep == ReceiveForCredit \/ TakeCredit \/ StreamEnded

Next ==
    \/ Connect
    \/ BeginSubscribe \/ StreamOpens \/ PrinterEnables \/ Subscribed \/ SubscribeEnds
    \/ \E n \in Lengths : BeginWrite(n)
    \/ CreditStep \/ Transmit \/ WriteEnds \/ Abandon
    \/ BeginWait \/ ReceiveResponse \/ WaitTimeout
    \/ BeginDisconnect \/ DisconnectEnds \/ DropTransport
    \/ \E f \in Frames : Notify(f)
    \/ HangUp \/ Forward \/ ForwarderEnds

Spec == Init /\ [][Next]_vars

\* The runtime runs the forwarding task and polls the write that waits for credit.
FairSpec == Spec /\ WF_vars(Forward) /\ WF_vars(ForwarderEnds) /\ WF_vars(CreditStep)

-----------------------------------------------------------------------------

\* The printer is never sent a write it gave no credit for, whatever calls are
\* abandoned, refused or repeated, and the unsigned counter does not wrap: writes handed
\* over, the write on its way and the credits left never exceed the credits granted.
WithinCredit ==
    profile.flow =>
        credits >= 0 /\ transmitted + credits + (IF call.op = "send" THEN 1 ELSE 0) <= granted

\* The numbers of the responses among the notifications of s.
Responses(s) ==
    LET upTo[i \in 0..Len(s)] ==
            IF i = 0 THEN <<>>
            ELSE IF s[i].kind = "response" THEN Append(upTo[i - 1], s[i].n)
            ELSE upTo[i - 1]
    IN  upTo[Len(s)]

\* While subscribed, no response is lost, duplicated or overtaken, although writes
\* that wait for credit take responses out of the queue and waits are abandoned:
\* those returned, set aside, queued and not yet forwarded are those received.  And a
\* printer that floods the host with responses costs bounded memory.
ResponsesInOrder ==
    /\ state = "Subscribed" => kept = received \o pending \o Responses(queue) \o Responses(stream)
    /\ Len(pending) <= QueueCapacity /\ Len(queue) <= QueueCapacity

\* A write that waits for credit gets what is on its way to it: the forwarding task,
\* the bounded queue and the write never wait for each other.
CreditArrives ==
    (call.op = "credit" /\ \E k \in 1..Len(queue \o stream) :
                              (queue \o stream)[k].kind = "credit" /\ (queue \o stream)[k].n > 0)
        ~> call.op # "credit"
=============================================================================
