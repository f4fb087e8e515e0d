------------------------------ MODULE Executor ------------------------------
(***************************************************************************)
(* The plan executor of crates/mb-printer-executor: execute_inner, its     *)
(* whole-plan preflight, the action loop, the physical chunking of raster  *)
(* data, the race of every awaited effect against cancellation, and the    *)
(* collection and validation of responses.                                 *)
(*                                                                         *)
(* The transport is the environment.  Every await is a control point at    *)
(* which the effect may complete, fail, or lose the race against a         *)
(* cancellation requested from another task.  A write is a sequence of     *)
(* bytes handed over one at a time, so it can be abandoned after any       *)
(* number of them; what was handed over may still be accepted after the    *)
(* executor has returned, because dropping the write future withdraws      *)
(* nothing.  Payloads are abstract: byte p of action a is the pair <<a,p>> *)
(* and a response is its length and the place of its first 0x1a.           *)
(***************************************************************************)
EXTENDS Integers, Sequences

CONSTANTS
    Plans,              \* the plans an execution may be given
    Limits,             \* values payload_limit() and command_limit() may return
    Chunks,             \* response frames: [len, mark], mark = place of the first 0x1a or 0
    StatusLen,          \* length of a Brother status frame (32)
    MaxPlanActions,     \* MAX_PLAN_ACTIONS
    MaxRetained,        \* MAX_RETAINED_RESPONSE_BYTES
    MaxFixedReads,      \* MAX_FIXED_RESPONSE_READS
    MaxMultipartReads   \* MAX_MULTIPART_READS

Kinds == {"JobBoundary", "Subscribe", "Delay", "CommandWrite", "RasterWrite",
          "WaitForResponse", "CollectResponse"}

VariableLength == {"BrotherObjbrnet", "BrotherWifiScan", "BrotherSystemReport"}

Validations == {"Any", "Phomemo", "BrotherStatus32"} \union VariableLength

\* A plan action; the fields its kind does not have are zero.
Action == [kind : Kinds, len : Nat, chunk : Nat, atomic : BOOLEAN, timeout : Nat,
           idle : Nat, fallback : Nat, max : Nat, validation : Validations]

Frame == [len : Nat, mark : Nat]

ASSUME ConstantsAssumption ==
    /\ Plans \subseteq Seq(Action)
    /\ Limits \subseteq Nat
    /\ Chunks \subseteq Frame
    /\ \A c \in Chunks : c.mark <= c.len
    /\ StatusLen \in Nat \ {0}
    /\ MaxPlanActions \in Nat
    /\ MaxRetained \in Nat
    /\ MaxFixedReads \in Nat \ {0}
    /\ MaxMultipartReads \in Nat \ {0}

Results == {"Running", "Completed", "Cancelled", "WriteOutcomeUnknown", "Transport",
            "Timeout", "Response", "InvalidPlan", "AtomicTooLarge"}

VARIABLES
    plan,            \* the plan being executed
    commandLimit,    \* command_limit(), read once before preflight
    payloadLimit,    \* payload_limit(), which the transport may renegotiate at any time
    changedAt,       \* history: the action between whose pieces it last changed, or 0
    cancelRequested, \* Cancellation::is_cancelled()
    pc,              \* where the executor's task is
    index,           \* the action being executed, 1-based
    pieceLimit,      \* payload_limit as read at the raster boundary
    logical,         \* first byte (0-based) of the current logical raster chunk
    offset,          \* bytes of the current write action confirmed so far
    inflight,        \* the write handed to the transport: the action, its next byte, its end
    buf,             \* the response being assembled
    reads,           \* reads done for it
    progress,        \* Progress, its responses kept as their number and total length
    result,          \* what execute_inner returned, or "Running"
    device           \* the bytes the transport has taken, in order

vars == <<plan, commandLimit, payloadLimit, changedAt, cancelRequested, pc, index, pieceLimit,
          logical, offset, inflight, buf, reads, progress, result, device>>

environment == <<commandLimit, payloadLimit, changedAt, cancelRequested>>
raster == <<pieceLimit, logical, offset>>
collection == <<buf, reads>>

NoWrite == [action |-> 0, next |-> 0, to |-> 0]
EmptyFrame == [len |-> 0, mark |-> 0]
NoProgress == [last |-> 0, bytes |-> 0, potential |-> FALSE, responses |-> 0, retained |-> 0]

Current == plan[index]

Smaller(m, n) == IF m < n THEN m ELSE n

-----------------------------------------------------------------------------
(* Preflight. *)

IsWrite(a) == a.kind \in {"CommandWrite", "RasterWrite"}

\* The bytes that the collection actions among the first i may retain.
Declared(p, i) ==
    LET upTo[k \in 0..Len(p)] ==
            IF k = 0 THEN 0
            ELSE IF p[k].kind = "CollectResponse" THEN upTo[k - 1] + p[k].max
            ELSE upTo[k - 1]
    IN  upTo[i]

\* Preflight rejects action i of plan p.
Rejected(p, i, limit) ==
    \/ p[i].kind = "CommandWrite" /\ p[i].atomic /\ p[i].len > limit
    \/ p[i].kind = "RasterWrite" /\ p[i].chunk = 0
    \/ p[i].kind = "WaitForResponse" /\ (p[i].timeout = 0 \/ p[i].validation \in VariableLength)
    \/ /\ p[i].kind = "CollectResponse"
       /\ \/ p[i].timeout = 0 \/ p[i].idle = 0 \/ p[i].max = 0
          \/ Declared(p, i) > MaxRetained

Accepted(p, payload, command) ==
    /\ payload # 0
    /\ command # 0
    /\ Len(p) <= MaxPlanActions
    /\ \A i \in 1..Len(p) : ~Rejected(p, i, command)

\* The error of a plan that is not accepted: the first rejected action decides.
PreflightError(p, payload, command) ==
    IF /\ payload # 0 /\ command # 0 /\ Len(p) <= MaxPlanActions
       /\ \E i \in 1..Len(p) : /\ Rejected(p, i, command) /\ p[i].kind = "CommandWrite"
                               /\ \A k \in 1..(i - 1) : ~Rejected(p, k, command)
    THEN "AtomicTooLarge"
    ELSE "InvalidPlan"

-----------------------------------------------------------------------------
(* How an execution moves on and ends. *)

\* The executor returns r; the write it may leave behind stays with the transport.
Finish(r) ==
    /\ result' = r
    /\ pc' = "done"
    /\ UNCHANGED <<plan, environment, index, raster, inflight, collection, progress, device>>

\* The next turn of the loop: the variables local to the action's arm are gone.
Advance ==
    /\ index' = index + 1
    /\ pc' = "action"
    /\ pieceLimit' = 0 /\ logical' = 0 /\ offset' = 0
    /\ buf' = EmptyFrame /\ reads' = 0
    /\ UNCHANGED <<plan, environment, result, device>>

\* Mutant of Complete: the action that follows is reported as completed.
CompleteOneAhead(p) ==
    /\ progress' = [p EXCEPT !.last = index + 1]
    /\ Advance

\* last_completed_action and the progress callback.
Complete(p) ==
    /\ progress' = [p EXCEPT !.last = index]
    /\ Advance

\* The error returned for a failed effect other than a write.
NonWriteError == {"Cancelled", "Transport"}

Init ==
    /\ plan \in Plans
    /\ commandLimit \in Limits
    /\ payloadLimit \in Limits
    /\ changedAt = 0
    /\ cancelRequested = FALSE
    /\ pc = "preflight"
    /\ index = 1
    /\ pieceLimit = 0 /\ logical = 0 /\ offset = 0
    /\ inflight = NoWrite
    /\ buf = EmptyFrame /\ reads = 0
    /\ progress = NoProgress
    /\ result = "Running"
    /\ device = <<>>

Preflight ==
    /\ pc = "preflight"
    /\ \/ /\ Accepted(plan, payloadLimit, commandLimit)
          /\ pc' = "action"
          /\ UNCHANGED <<plan, environment, index, raster, inflight, collection,
                         progress, result, device>>
       \/ /\ ~Accepted(plan, payloadLimit, commandLimit)
          /\ Finish(PreflightError(plan, payloadLimit, commandLimit))

-----------------------------------------------------------------------------
(* The action loop. *)

AtAction(kind) ==
    /\ pc = "action"
    /\ index <= Len(plan)
    /\ Current.kind = kind
    /\ ~cancelRequested

Goto(label) ==
    /\ pc' = label
    /\ UNCHANGED <<plan, environment, index, inflight, progress, result, device>>

\* check_cancelled, at the top of the loop and before every physical write.
CheckCancelled ==
    /\ \/ pc = "action" /\ index <= Len(plan)
       \/ pc = "write"
    /\ cancelRequested
    /\ Finish("Cancelled")

JobBoundary ==
    /\ AtAction("JobBoundary")
    /\ Complete(progress)
    /\ UNCHANGED inflight

BeginSubscribe ==
    /\ AtAction("Subscribe")
    /\ Goto("subscribe")
    /\ UNCHANGED <<raster, collection>>

BeginDelay ==
    /\ AtAction("Delay")
    /\ Goto("delay")
    /\ UNCHANGED <<raster, collection>>

BeginCommand ==
    /\ AtAction("CommandWrite")
    /\ Goto("write")
    /\ UNCHANGED <<raster, collection>>

\* Mutant of BeginRaster: pieces have the size of a command.
BeginRasterByCommandLimit ==
    /\ AtAction("RasterWrite")
    /\ payloadLimit # 0
    /\ Current.len # 0
    /\ pieceLimit' = commandLimit
    /\ Goto("write")
    /\ UNCHANGED <<logical, offset, collection>>

\* The payload limit is read again here; an empty raster has no piece to write.
BeginRaster ==
    /\ AtAction("RasterWrite")
    /\ \/ /\ payloadLimit = 0
          /\ Finish("InvalidPlan")
       \/ /\ payloadLimit # 0
          /\ Current.len = 0
          /\ Complete(progress)
          /\ UNCHANGED inflight
       \/ /\ payloadLimit # 0
          /\ Current.len # 0
          /\ pieceLimit' = payloadLimit
          /\ Goto("write")
          /\ UNCHANGED <<logical, offset, collection>>

BeginWait ==
    /\ AtAction("WaitForResponse")
    /\ Goto("collect")
    /\ UNCHANGED <<raster, collection>>

BeginCollect ==
    /\ AtAction("CollectResponse")
    /\ Goto("multipart")
    /\ UNCHANGED <<raster, collection>>

Return ==
    /\ pc = "action"
    /\ index > Len(plan)
    /\ Finish("Completed")

\* Mutant of RaceCancelled: the subscription is awaited without a race.
RaceCancelledUnlessSubscribing ==
    /\ \/ pc \in {"delay", "pacing", "fallback"}
       \/ pc = "collect" /\ reads < MaxFixedReads
       \/ pc = "multipart" /\ reads < MaxMultipartReads
    /\ cancelRequested
    /\ Finish("Cancelled")

\* An effect other than a write loses its race against the cancellation.
RaceCancelled ==
    /\ \/ pc \in {"subscribe", "delay", "pacing", "fallback"}
       \/ pc = "collect" /\ reads < MaxFixedReads
       \/ pc = "multipart" /\ reads < MaxMultipartReads
    /\ cancelRequested
    /\ Finish("Cancelled")

Subscribed ==
    /\ pc = "subscribe"
    /\ Complete(progress)
    /\ UNCHANGED inflight

SubscribeFailed ==
    /\ pc = "subscribe"
    /\ \E r \in NonWriteError : Finish(r)

DelayDone ==
    /\ pc \in {"delay", "fallback"}
    /\ Complete(progress)
    /\ UNCHANGED inflight

-----------------------------------------------------------------------------
(* Writes. *)

\* Mutant of PieceEnd: physical chunks run across the logical ones.
PieceEndAcrossChunks ==
    IF Current.kind = "CommandWrite"
    THEN Current.len
    ELSE Smaller(offset + pieceLimit, Current.len)

\* The end of the piece that starts at offset: a command is one piece, a raster
\* piece ends with its logical chunk, its payload or the limit.
PieceEnd ==
    IF Current.kind = "CommandWrite"
    THEN Current.len
    ELSE Smaller(offset + pieceLimit, Smaller(logical + Current.chunk, Current.len))

\* Mutant of StartPiece: the check before the physical write is missing.
StartPieceUnchecked ==
    /\ pc = "write"
    /\ progress' = [progress EXCEPT !.potential = TRUE]
    /\ inflight' = [action |-> index, next |-> offset, to |-> PieceEnd]
    /\ pc' = "writing"
    /\ UNCHANGED <<plan, environment, index, raster, collection, result, device>>

\* write_piece up to its await: the last check, the flag, the transport call.
StartPiece ==
    /\ pc = "write"
    /\ ~cancelRequested
    /\ progress' = [progress EXCEPT !.potential = TRUE]
    /\ inflight' = [action |-> index, next |-> offset, to |-> PieceEnd]
    /\ pc' = "writing"
    /\ UNCHANGED <<plan, environment, index, raster, collection, result, device>>

\* The transport takes one more byte, whether or not the executor still waits.
Accept ==
    /\ inflight.next < inflight.to
    /\ device' = Append(device, <<inflight.action, inflight.next + 1>>)
    /\ inflight' = [inflight EXCEPT !.next = @ + 1]
    /\ UNCHANGED <<plan, environment, pc, index, raster, collection, progress, result>>

\* The write resolves Ok: all of the piece was taken.  A raster piece is paced.
WriteOk ==
    /\ pc = "writing"
    /\ inflight.next = inflight.to
    /\ inflight' = NoWrite
    /\ LET p == [progress EXCEPT !.bytes = @ + (inflight.to - offset)]
       IN  \/ /\ Current.kind = "CommandWrite"
              /\ Complete(p)
           \/ /\ Current.kind = "RasterWrite"
              /\ progress' = p
              /\ offset' = inflight.to
              /\ pc' = "pacing"
              /\ UNCHANGED <<plan, environment, index, pieceLimit, logical, collection,
                             result, device>>

\* The write resolves with an error, of whatever kind.
WriteFailed ==
    /\ pc = "writing"
    /\ Finish("WriteOutcomeUnknown")

\* Mutant of WriteCancelled: an abandoned write is an ordinary cancellation.
WriteCancelledPlainly ==
    /\ pc = "writing"
    /\ cancelRequested
    /\ Finish("Cancelled")

\* The write loses its race against the cancellation.
WriteCancelled ==
    /\ pc = "writing"
    /\ cancelRequested
    /\ Finish("WriteOutcomeUnknown")

\* The delay after a physical write; then the next piece, chunk or action.
Paced ==
    /\ pc = "pacing"
    /\ \/ /\ offset = Current.len
          /\ Complete(progress)
          /\ UNCHANGED inflight
       \/ /\ offset # Current.len
          /\ logical' = IF offset = logical + Current.chunk THEN offset ELSE logical
          /\ Goto("write")
          /\ UNCHANGED <<pieceLimit, offset, collection>>

-----------------------------------------------------------------------------
(* Responses. *)

Extend(b, c) ==
    [len |-> b.len + c.len,
     mark |-> IF b.mark # 0 THEN b.mark ELSE IF c.mark # 0 THEN b.len + c.mark ELSE 0]

\* split_off at the first 0x1a.
FromMark(b) == [len |-> (b.len - b.mark) + 1, mark |-> 1]

\* validate: magic stands for the content test of the validators that look for
\* a fixed byte string, which the abstraction of a frame does not decide.
Valid(validation, b, magic) ==
    \/ validation = "Any" /\ b.len > 0
    \/ validation = "Phomemo" /\ b.len >= 3 /\ b.mark = 1
    \/ validation = "BrotherStatus32" /\ b.len = StatusLen /\ magic
    \/ validation \in VariableLength /\ b.len > 0 /\ magic

\* A response is validated and retained, or the execution fails.
Respond(b) ==
    \E magic \in BOOLEAN :
        \/ /\ Valid(Current.validation, b, magic)
           /\ Complete([progress EXCEPT !.responses = @ + 1, !.retained = @ + b.len])
           /\ UNCHANGED inflight
        \/ /\ ~Valid(Current.validation, b, magic)
           /\ Finish("Response")

\* WaitForResponse ends without a response.
NoResponse ==
    \/ /\ Current.fallback > 0
       /\ Goto("fallback")
       /\ UNCHANGED <<raster, collection>>
    \/ /\ Current.fallback = 0
       /\ Current.validation = "BrotherStatus32"
       /\ Complete(progress)
       /\ UNCHANGED inflight
    \/ /\ Current.fallback = 0
       /\ Current.validation # "BrotherStatus32"
       /\ Finish("Timeout")

\* collect_response: the frame is complete.
Enough(b) ==
    \/ Current.validation = "Any" /\ b.len >= 1
    \/ Current.validation = "BrotherStatus32" /\ b.len >= StatusLen
    \/ Current.validation = "Phomemo" /\ b.mark # 0 /\ (b.len - b.mark) + 1 >= 3

\* Mutant of ReadChunk: the limit is applied to each response by itself.
ReadChunkAlone(c) ==
    /\ pc = "collect"
    /\ reads < MaxFixedReads
    /\ LET b == Extend(buf, c)
       IN  \/ /\ b.len > MaxRetained
              /\ Finish("Response")
           \/ /\ b.len <= MaxRetained
              /\ Enough(b)
              /\ Respond(IF Current.validation = "Phomemo" THEN FromMark(b) ELSE b)
           \/ /\ b.len <= MaxRetained
              /\ ~Enough(b)
              /\ buf' = b
              /\ reads' = reads + 1
              /\ Goto("collect")
              /\ UNCHANGED raster

\* collect_response receives a chunk.
ReadChunk(c) ==
    /\ pc = "collect"
    /\ reads < MaxFixedReads
    /\ LET b == Extend(buf, c)
       IN  \/ /\ progress.retained + b.len > MaxRetained
              /\ Finish("Response")
           \/ /\ progress.retained + b.len <= MaxRetained
              /\ Enough(b)
              /\ Respond(IF Current.validation = "Phomemo" THEN FromMark(b) ELSE b)
           \/ /\ progress.retained + b.len <= MaxRetained
              /\ ~Enough(b)
              /\ buf' = b
              /\ reads' = reads + 1
              /\ Goto("collect")
              /\ UNCHANGED raster

\* Mutant of ReadsEnd: a frame that has begun is awaited without a deadline.
ReadsEndWhenEmpty ==
    /\ pc = "collect"
    /\ buf.len = 0
    /\ NoResponse

\* collect_response runs out of time or of reads, or the transport has nothing.
\* After the last read an empty response is still handed to the validator.
ReadsEnd ==
    /\ pc = "collect"
    /\ \/ /\ \/ Current.validation = "Phomemo"
             \/ buf.len = 0 /\ reads < MaxFixedReads
          /\ NoResponse
       \/ /\ Current.validation # "Phomemo"
          /\ buf.len # 0 \/ reads = MaxFixedReads
          /\ Respond(buf)

\* A wait for a response fails.
ReadFailed ==
    /\ \/ pc = "collect" /\ reads < MaxFixedReads
       \/ pc = "multipart" /\ reads < MaxMultipartReads
    /\ \E r \in NonWriteError : Finish(r)

\* collect_multipart_response has what it will get, or nothing.
Collected ==
    \/ buf.len = 0 /\ Finish("Timeout")
    \/ buf.len # 0 /\ Respond(buf)

\* collect_multipart_response receives a chunk; an empty one means idle.
MultipartChunk(c) ==
    /\ pc = "multipart"
    /\ reads < MaxMultipartReads
    /\ \/ /\ c.len = 0
          /\ Collected
       \/ /\ c.len # 0
          /\ buf.len + c.len > Current.max
          /\ Finish("Response")
       \/ /\ c.len # 0
          /\ buf.len + c.len <= Current.max
          /\ buf' = Extend(buf, c)
          /\ reads' = reads + 1
          /\ Goto("multipart")
          /\ UNCHANGED raster

\* The total or the idle timeout passes, or the transport has nothing.
MultipartEnd ==
    /\ pc = "multipart"
    /\ reads < MaxMultipartReads
    /\ Collected

\* All reads are used, none was empty: an error unless the total timeout has passed.
MultipartExhausted ==
    /\ pc = "multipart"
    /\ reads = MaxMultipartReads
    /\ Respond(buf) \/ Finish("Response")

-----------------------------------------------------------------------------
(* The environment and the specification. *)

RequestCancel ==
    /\ ~cancelRequested
    /\ cancelRequested' = TRUE
    /\ UNCHANGED <<plan, commandLimit, payloadLimit, changedAt, pc, index, raster, inflight,
                   collection, progress, result, device>>

\* A credit-flow frame or a browser getter gives another payload limit.
Renegotiate ==
    /\ pc # "done"
    /\ payloadLimit' \in Limits \ {payloadLimit}
    /\ changedAt' = IF pc \in {"write", "writing", "pacing"} THEN index ELSE changedAt
    /\ UNCHANGED <<plan, commandLimit, cancelRequested, pc, index, raster, inflight,
                   collection, progress, result, device>>

\* Steps the executor takes by itself when it is polled.
Local ==
    \/ Preflight \/ CheckCancelled
    \/ JobBoundary \/ BeginSubscribe \/ BeginDelay \/ BeginCommand \/ BeginRaster
    \/ BeginWait \/ BeginCollect \/ Return
    \/ StartPiece
    \/ MultipartExhausted

\* The cancellation future resolves first.
LoseRace == RaceCancelled \/ WriteCancelled

\* A deadline passes: these effects are bounded by a timer of the host.
Timer == DelayDone \/ Paced \/ ReadsEnd \/ MultipartEnd

\* The transport answers.
Answer ==
    \/ Subscribed \/ SubscribeFailed
    \/ WriteOk \/ WriteFailed
    \/ ReadFailed
    \/ \E c \in Chunks : ReadChunk(c) \/ MultipartChunk(c)

Next == Local \/ LoseRace \/ Timer \/ Answer \/ Accept \/ RequestCancel \/ Renegotiate

Spec == Init /\ [][Next]_vars

\* The host polls the executor's task, wakes it on cancellation and fires its
\* timers.  Nothing is assumed of the printer: a write may stay pending for ever.
Fairness == WF_vars(Local) /\ WF_vars(LoseRace) /\ WF_vars(Timer)

FairSpec == Spec /\ Fairness

-----------------------------------------------------------------------------
(* Properties. *)

\* What the WebAssembly boundary makes of a result (map_execution_result): a status and the
\* progress.  The errors of preflight carry none, and a raster action that finds a payload
\* limit of zero ends with one of them.
Reported == IF result \in {"InvalidPlan", "AtomicTooLarge"} THEN NoProgress ELSE progress

JsStatus ==
    CASE result = "Running" -> "running"
      [] result = "Completed" -> "completed"
      [] result = "Cancelled" /\ Reported.bytes = 0 -> "cancelled-before-send"
      [] result = "Cancelled" /\ Reported.bytes # 0 -> "cancelled-partial"
      [] result = "WriteOutcomeUnknown" -> "outcome-unknown"
      [] OTHER -> "failed"

Labels == {"preflight", "action", "subscribe", "delay", "write", "writing", "pacing",
           "collect", "multipart", "fallback", "done"}

TypeOK ==
    /\ plan \in Plans
    /\ commandLimit \in Limits
    /\ payloadLimit \in Limits
    /\ changedAt \in Nat
    /\ cancelRequested \in BOOLEAN
    /\ pc \in Labels
    /\ index \in Nat \ {0}
    /\ pieceLimit \in Nat /\ logical \in Nat /\ offset \in Nat
    /\ inflight \in [action : Nat, next : Nat, to : Nat]
    /\ buf \in Frame /\ reads \in Nat
    /\ progress \in [last : Nat, bytes : Nat, potential : BOOLEAN, responses : Nat,
                     retained : Nat]
    /\ result \in Results
    /\ device \in Seq(Nat \X Nat)

\* Byte q of action i is one the plan writes.
InPlan(i, q) == i \in 1..Len(plan) /\ IsWrite(plan[i]) /\ q \in 1..plan[i].len

Delivered(i, q) == \E k \in 1..Len(device) : device[k] = <<i, q>>

\* The execution as a PrintJob: the bytes of the plan, those handed over and not
\* yet taken, and what the result says of them.
JobBytes == UNION {{i} \X (1..plan[i].len) : i \in {j \in 1..Len(plan) : IsWrite(plan[j])}}

PendingBytes == {inflight.action} \X ((inflight.next + 1)..inflight.to)

JobResult ==
    CASE result \in {"Running", "Completed"} -> result
      [] result = "WriteOutcomeUnknown" -> "Unknown"
      [] OTHER -> "Exact"

Job == INSTANCE PrintJob WITH
    job <- JobBytes, taken <- device, pending <- PendingBytes,
    confirmed <- progress.bytes, cancelled <- cancelRequested, result <- JobResult

\* At every moment, also after the executor returned, what the transport took is
\* a prefix of the plan's byte stream: only bytes of the plan, in order, none
\* twice, and none before all its predecessors.
DeliveredIsPrefix ==
    /\ \A k \in 1..Len(device) : InPlan(device[k][1], device[k][2])
    /\ \A j, k \in 1..Len(device) : j < k => Job!Before(device[j], device[k])
    /\ \A k \in 1..Len(device) : \A i \in 1..Len(plan) : \A q \in 1..plan[i].len :
           IsWrite(plan[i]) /\ Job!Before(<<i, q>>, device[k]) => Delivered(i, q)

\* bytes_written and potentially_accepted_write never claim too much: confirmed
\* bytes were taken, and beyond them only the piece of the pending or abandoned
\* write can have been taken; with the flag clear nothing was.
ConfirmedWasDelivered ==
    /\ progress.bytes <= Len(device)
    /\ Len(device) <= progress.bytes + (IF inflight = NoWrite THEN 0 ELSE inflight.to - offset)
    /\ ~progress.potential => device = <<>>

\* Everything the plan writes before action i was taken, and nothing of what follows.
TakenUpTo(i) ==
    /\ \A h \in 1..Len(plan) : \A q \in 1..plan[h].len : h < i /\ IsWrite(plan[h]) => Delivered(h, q)
    /\ \A k \in 1..Len(device) : device[k][1] < i

\* The status and the bytesWritten handed to JavaScript are true of the printer for ever after.
\* Two of them leave open what the printer has: "outcome-unknown", and "failed" with the code
\* invalid-plan, which reports no bytes.  That one means that the printer has nothing, or that
\* a raster action found a payload limit of zero; then it has the actions before that one,
\* whose number the error names, and never gets more.
StatusIsTruthful ==
    /\ JsStatus = "completed" => TakenUpTo(Len(plan) + 1)
    /\ JsStatus = "cancelled-before-send" => device = <<>>
    /\ JsStatus \notin {"running", "outcome-unknown"} =>
           \/ Len(device) = Reported.bytes
           \/ result = "InvalidPlan" /\ Current.kind = "RasterWrite" /\ TakenUpTo(index)

\* What Progress says of bytes_written, "Total bytes confirmed written by the transport", of
\* the bytesWritten of an execution that failed.
ReportedBytesWereConfirmed == JsStatus = "failed" => Reported.bytes = progress.bytes

\* last_completed_action locates the printer in the plan: it has every byte of
\* the actions up to it and none of those after the one that follows it.
LastCompletedLocates ==
    /\ \A i \in 1..progress.last : \A q \in 1..plan[i].len :
           IsWrite(plan[i]) => Delivered(i, q)
    /\ \A k \in 1..Len(device) : device[k][1] <= progress.last + 1

\* A physical write honours the limits: an atomic command goes out whole and
\* within the command limit preflight saw; a raster piece is not empty, lies within
\* one logical chunk and fits the limit read at the raster boundary, which is the one
\* in force unless the transport changed it between two pieces of that very action.
PieceWithinLimits ==
    inflight # NoWrite =>
        \/ /\ plan[inflight.action].kind = "CommandWrite"
           /\ offset = 0 /\ inflight.to = plan[inflight.action].len
           /\ plan[inflight.action].atomic => inflight.to <= commandLimit
        \/ /\ plan[inflight.action].kind = "RasterWrite"
           /\ offset < inflight.to
           /\ inflight.to - offset <= pieceLimit
           /\ changedAt # inflight.action => inflight.to - offset <= payloadLimit
           /\ LET chunk == plan[inflight.action].chunk
              IN  offset \div chunk = (inflight.to - 1) \div chunk

\* Without a collection action the responses kept never exceed the executor's limit; each
\* collection can add what it declared, and they declare no more than the limit together.
RetainedIsBounded ==
    pc # "preflight" =>
        /\ progress.retained <= MaxRetained + Declared(plan, progress.last)
        /\ result \notin {"InvalidPlan", "AtomicTooLarge"} => Declared(plan, progress.last) <= MaxRetained

\* The limits hold at every step, although a printer may lower its own meanwhile and every
\* response is collected with a limit of its own: those of a write and those of what is kept.
WithinLimits == PieceWithinLimits /\ RetainedIsBounded

\* What the documentation of MAX_RETAINED_RESPONSE_BYTES says, "Maximum total response bytes
\* retained for one execution".
RetainedWithinMaximum == progress.retained <= MaxRetained

\* The execution keeps the promises of PrintJob: at-most-once delivery in order,
\* no new piece after cancellation or after the result, and exact results.
KeepsJobPromises == Job!JobSpec

\* A requested cancellation ends the execution even when the printer never
\* answers: every await is raced against it.
CancellationEnds == cancelRequested ~> pc = "done"

\* An execution that never returns is stuck in a subscription or a write: every
\* delay and every response wait is bounded.
OnlyTheTransportBlocks == <>(pc = "done") \/ <>[](pc = "subscribe") \/ <>[](pc = "writing")

\* An execution ends by itself or can be ended: what is not bounded is a call of the transport,
\* and cancellation ends that too.
ExecutionEnds == CancellationEnds /\ OnlyTheTransportBlocks

-----------------------------------------------------------------------------
(* The inductive invariant behind the safety properties. *)

\* Bytes of the current action the transport has taken.
Reach == IF inflight = NoWrite THEN offset ELSE inflight.next

\* The transport has exactly the bytes of the finished actions and the first
\* Reach bytes of the current one.
Frontier ==
    /\ \A k \in 1..Len(device) :
           /\ InPlan(device[k][1], device[k][2])
           /\ device[k][1] < index \/ (device[k][1] = index /\ device[k][2] <= Reach)
    /\ \A i \in 1..Len(plan) : \A q \in 1..plan[i].len :
           IsWrite(plan[i]) /\ (i < index \/ (i = index /\ q <= Reach)) => Delivered(i, q)

Ordered == \A j, k \in 1..Len(device) : j < k => Job!Before(device[j], device[k])

Counted ==
    /\ Len(device) = progress.bytes + (Reach - offset)
    /\ ~progress.potential => device = <<>> /\ inflight = NoWrite

\* Where the task is in the loops over actions, logical chunks and pieces.
Control ==
    /\ index <= Len(plan) + 1
    /\ pc \notin {"preflight", "action", "done"} => index <= Len(plan)
    /\ progress.last = index - 1
    /\ pc \in {"preflight", "action", "subscribe", "delay", "collect", "multipart", "fallback"}
          => offset = 0 /\ logical = 0 /\ ~(pc \in {"subscribe", "delay", "collect", "multipart",
                                                 "fallback"} /\ IsWrite(Current))
    /\ pc \in {"write", "writing"} => IsWrite(Current)
    /\ pc \in {"write", "writing"} /\ Current.kind = "CommandWrite" => offset = 0
    /\ pc \in {"write", "writing"} /\ Current.kind = "RasterWrite" =>
          /\ offset < Current.len /\ logical <= offset /\ offset < logical + Current.chunk
          /\ pieceLimit > 0
    /\ pc = "pacing" =>
          /\ Current.kind = "RasterWrite"
          /\ offset <= Current.len /\ logical <= offset /\ offset <= logical + Current.chunk
          /\ pieceLimit > 0
    /\ pc \notin {"preflight", "done"} =>
          \A i \in 1..Len(plan) : plan[i].kind = "RasterWrite" => plan[i].chunk > 0
    /\ buf.mark <= buf.len

\* A write is in flight while the executor awaits it, or was abandoned by an
\* execution that says so.
InFlight ==
    /\ pc = "writing" => inflight # NoWrite
    /\ inflight # NoWrite =>
          /\ pc = "writing" \/ result = "WriteOutcomeUnknown"
          /\ inflight.action = index /\ index <= Len(plan) /\ IsWrite(Current)
          /\ offset <= inflight.next /\ inflight.next <= inflight.to /\ inflight.to <= Current.len
          /\ Current.kind = "RasterWrite" => /\ offset < inflight.to
                                            /\ inflight.to <= logical + Current.chunk
          /\ Current.kind = "CommandWrite" => inflight.to = Current.len
    /\ result = "Running" <=> pc # "done"
    /\ result = "Completed" => index = Len(plan) + 1

\* Implies DeliveredIsPrefix, ConfirmedWasDelivered, StatusIsTruthful and
\* LastCompletedLocates, and is preserved by every step of the executor, the
\* transport and the caller.
IInv == TypeOK /\ Control /\ InFlight /\ Frontier /\ Ordered /\ Counted
=============================================================================
