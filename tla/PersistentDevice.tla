-------------------------- MODULE PersistentDevice --------------------------
(***************************************************************************)
(* PersistentDevice: the owner thread and the bounded command queue behind *)
(* the serial, RFCOMM and USB transports.  A call puts a command in the    *)
(* queue and waits for its reply; it can be abandoned at both awaits, and  *)
(* a command that is in the queue is carried out all the same.  One call   *)
(* runs at a time, but commands of abandoned calls pile up behind a slow   *)
(* device.                                                                 *)
(***************************************************************************)
EXTENDS Integers, Sequences

CONSTANTS
    Capacity,   \* of the command channel
    MaxCalls    \* bound on the calls of a behaviour

ASSUME DeviceAssumption == Capacity \in Nat \ {0} /\ MaxCalls \in Nat

VARIABLES
    shared,     \* UsbTransport: the transport owns the backend too
    transport,  \* "open" or "dropped"
    owned,      \* self.worker is Some
    calls,      \* calls made so far; the present one has this number
    ongoing,       \* the call in progress: [op, at], at "send", "reply" or "join"
    reply,      \* its oneshot: "none", "ok" or "error"
    outcome,    \* how the last call ended: "none", "ok", "error" or "abandoned"
    channel,      \* commands not taken by the thread: [id, op]
    worker,     \* "recv", "busy", "leaving" (out of its loop) or "stopped"
    command,    \* the command the thread carries out
    queued,     \* history: numbers of the commands that were put in the queue
    performed,  \* history: numbers of the commands the device carried out
    closed,     \* history: disconnect() has returned Ok
    detached    \* history: a disconnect was abandoned while it joined the thread

caller == <<calls, ongoing, reply, outcome>>
thread == <<worker, command, performed>>
device == <<shared, transport, owned, caller, channel, thread, queued, closed, detached>>

NoCall == [op |-> "none", at |-> "none"]
NoCommand == [id |-> 0, op |-> "none"]
Operations == {"write", "read", "disconnect"}

DeviceInit ==
    /\ shared \in BOOLEAN
    /\ transport = "open"
    /\ owned = TRUE
    /\ calls = 0 /\ ongoing = NoCall /\ reply = "none" /\ outcome = "none"
    /\ channel = <<>> /\ queued = <<>>
    /\ worker = "recv" /\ command = NoCommand /\ performed = <<>>
    /\ closed = FALSE /\ detached = FALSE

-----------------------------------------------------------------------------
(* The calls. *)

EndCall(result) ==
    /\ ongoing' = NoCall
    /\ reply' = "none"
    /\ outcome' = result

\* write, read and disconnect are called; disconnect returns at once when the thread
\* was joined before.
BeginCall(op) ==
    /\ transport = "open"
    /\ ongoing = NoCall
    /\ calls < MaxCalls
    /\ calls' = calls + 1
    /\ \/ /\ op = "disconnect" /\ ~owned
          /\ EndCall("ok")
          /\ closed' = TRUE
       \/ /\ op # "disconnect" \/ owned
          /\ ongoing' = [op |-> op, at |-> "send"]
          /\ UNCHANGED <<reply, outcome, closed>>
    /\ UNCHANGED <<shared, transport, owned, channel, thread, queued, detached>>

\* The channel takes the command when it has room.
Send ==
    /\ ongoing.at = "send"
    /\ worker # "stopped"
    /\ Len(channel) < Capacity
    /\ channel' = Append(channel, [id |-> calls, op |-> ongoing.op])
    /\ queued' = Append(queued, calls)
    /\ ongoing' = [ongoing EXCEPT !.at = "reply"]
    /\ UNCHANGED <<shared, transport, owned, calls, reply, outcome, thread, closed, detached>>

\* The receiver is gone.
SendFails ==
    /\ ongoing.at = "send"
    /\ worker = "stopped"
    /\ EndCall("error")
    /\ UNCHANGED <<shared, transport, owned, calls, channel, thread, queued, closed, detached>>

\* The reply arrives; disconnect, whose result no backend makes an error, goes on to
\* join the thread.
Reply ==
    /\ ongoing.at = "reply"
    /\ reply # "none"
    /\ \/ ongoing.op # "disconnect" /\ EndCall(reply) /\ UNCHANGED owned
       \/ /\ ongoing.op = "disconnect"
          /\ ongoing' = [ongoing EXCEPT !.at = "join"]
          /\ owned' = FALSE
          /\ UNCHANGED <<reply, outcome>>
    /\ UNCHANGED <<shared, transport, calls, channel, thread, queued, closed, detached>>

\* The thread dropped the command, and with it the sender of the reply.
Pending(id) == command.id = id \/ \E i \in 1..Len(channel) : channel[i].id = id

ReplyDropped ==
    /\ ongoing.at = "reply"
    /\ reply = "none"
    /\ ~Pending(calls)
    /\ EndCall("error")
    /\ UNCHANGED <<shared, transport, owned, calls, channel, thread, queued, closed, detached>>

\* Mutant of Join: the thread is not waited for.
JoinNobody ==
    /\ ongoing.at = "join"
    /\ EndCall("ok")
    /\ closed' = TRUE
    /\ UNCHANGED <<shared, transport, owned, calls, channel, thread, queued, detached>>

Join ==
    /\ ongoing.at = "join"
    /\ worker = "stopped"
    /\ EndCall("ok")
    /\ closed' = TRUE
    /\ UNCHANGED <<shared, transport, owned, calls, channel, thread, queued, detached>>

\* The future is dropped; a command it put in the queue stays there.
AbandonCall ==
    /\ ongoing # NoCall
    /\ EndCall("abandoned")
    /\ detached' = (detached \/ ongoing.at = "join")
    /\ UNCHANGED <<shared, transport, owned, calls, channel, thread, queued, closed>>

\* Drop: a Disconnect if the channel has room, and in any case the end of the
\* channel.  Nothing waits for the thread.
DropDevice ==
    /\ transport = "open"
    /\ ongoing = NoCall
    /\ transport' = "dropped"
    /\ owned' = FALSE
    /\ IF owned /\ worker # "stopped" /\ Len(channel) < Capacity
       THEN /\ channel' = Append(channel, [id |-> calls + 1, op |-> "disconnect"])
            /\ queued' = Append(queued, calls + 1)
       ELSE UNCHANGED <<channel, queued>>
    /\ UNCHANGED <<shared, caller, thread, closed, detached>>

-----------------------------------------------------------------------------
(* The owner thread. *)

\* Mutant of Take: the thread serves the newest command first.
TakeLast ==
    /\ worker = "recv"
    /\ channel # <<>>
    /\ command' = channel[Len(channel)]
    /\ channel' = SubSeq(channel, 1, Len(channel) - 1)
    /\ worker' = "busy"
    /\ UNCHANGED <<shared, transport, owned, caller, performed, queued, closed, detached>>

Take ==
    /\ worker = "recv"
    /\ channel # <<>>
    /\ command' = Head(channel)
    /\ channel' = Tail(channel)
    /\ worker' = "busy"
    /\ UNCHANGED <<shared, transport, owned, caller, performed, queued, closed, detached>>

\* The backend returns; the reply is lost if nobody waits for it, and a Disconnect
\* is the last command.
Perform ==
    /\ worker = "busy"
    /\ performed' = Append(performed, command.id)
    /\ reply' \in IF ongoing.at = "reply" /\ command.id = calls
                  THEN IF command.op = "disconnect" THEN {"ok"} ELSE {"ok", "error"}
                  ELSE {reply}
    /\ command' = NoCommand
    /\ worker' = IF command.op = "disconnect" THEN "leaving" ELSE "recv"
    /\ UNCHANGED <<shared, transport, owned, calls, ongoing, outcome, channel, queued, closed, detached>>

\* The backend panics.
Panic ==
    /\ worker = "busy"
    /\ command' = NoCommand
    /\ worker' = "leaving"
    /\ UNCHANGED <<shared, transport, owned, caller, performed, channel, queued, closed, detached>>

\* Mutant of ChannelEnds: the thread waits for a Disconnect.
ChannelEndsNever ==
    /\ worker = "recv"
    /\ transport = "dropped" /\ channel # <<>>
    /\ worker' = "leaving"
    /\ UNCHANGED <<shared, transport, owned, caller, command, performed, channel, queued, closed, detached>>

\* The sender is gone and the queue is empty.
ChannelEnds ==
    /\ worker = "recv"
    /\ transport = "dropped" /\ channel = <<>>
    /\ worker' = "leaving"
    /\ UNCHANGED <<shared, transport, owned, caller, command, performed, channel, queued, closed, detached>>

\* Mutant of Stop: commands that came too late are kept.
StopKeeping ==
    /\ worker = "leaving"
    /\ worker' = "stopped"
    /\ UNCHANGED <<shared, transport, owned, caller, channel, command, performed, queued, closed, detached>>

\* The receiver, its commands and the thread's backend are dropped.
Stop ==
    /\ worker = "leaving"
    /\ worker' = "stopped"
    /\ channel' = <<>>
    /\ UNCHANGED <<shared, transport, owned, caller, command, performed, queued, closed, detached>>

-----------------------------------------------------------------------------

Worker == Take \/ Perform \/ Panic \/ ChannelEnds \/ Stop

\* The thread is in a write of the device.
InDeviceWrite == worker = "busy" /\ command.op = "write"

Resume == Send \/ SendFails \/ Reply \/ ReplyDropped \/ Join

DeviceNext ==
    \/ \E op \in Operations : BeginCall(op)
    \/ Resume \/ AbandonCall \/ DropDevice
    \/ Worker

DeviceSpec == DeviceInit /\ [][DeviceNext]_device

\* The thread is scheduled, a read ends with its timeout, and the runtime polls the call
\* that is ready.  A write need not return: write_all on an RFCOMM socket and the flush of a
\* serial port wait for the printer.
FairDeviceSpec == DeviceSpec /\ WF_device(~InDeviceWrite /\ Worker) /\ WF_device(Resume)

-----------------------------------------------------------------------------

\* The device carries out the commands in the order of the calls and each at most
\* once, whichever calls were abandoned.
InOrderOnce ==
    /\ Len(performed) <= Len(queued)
    /\ \A i \in 1..Len(performed) : performed[i] = queued[i]
    /\ \A i, j \in 1..Len(queued) : i < j => queued[i] < queued[j]

\* After a call that returned Ok nothing written earlier can still reach
\* the device: commands of abandoned calls were carried out before it.
OkMeansDrained ==
    outcome = "ok" /\ ongoing = NoCall /\ transport = "open" =>
        worker # "busy" /\ (channel = <<>> \/ worker \in {"leaving", "stopped"})

\* No call waits for ever, not even one whose command reached the channel while the
\* thread was leaving it.
EveryCallEnds == ongoing # NoCall ~> ongoing = NoCall

\* A dropped transport lets go of its device, full queue or not.
DropEndsThread == transport = "dropped" ~> worker = "stopped"

\* Neither a caller nor the device's thread is left waiting for the other; only a write that
\* the device never finishes keeps them.
NobodyIsLeftWaiting == <>[]InDeviceWrite \/ (EveryCallEnds /\ DropEndsThread)

\* The backend is dropped with its last owner.
Released == worker = "stopped" /\ (shared => transport = "dropped")

\* Once disconnect returned Ok nobody holds the device any more, unless an earlier
\* disconnect was abandoned while it joined the thread, or the transport itself shares
\* the backend (USB).
DisconnectReleases == closed /\ ~detached /\ ~shared => Released

\* What Ok says of a call is so when it returns: of a write or a wait, that nothing older is
\* outstanding; of a disconnect, that the device is free for others.
OkIsTrue == OkMeansDrained /\ DisconnectReleases
=============================================================================
