--------------------------- MODULE ExecutorProofs ---------------------------
(***************************************************************************)
(* Proofs about Executor, for every set of plans, limits and frames.       *)
(***************************************************************************)
EXTENDS Executor, Basics

ProgressType == [last : Nat, bytes : Nat, potential : BOOLEAN, responses : Nat, retained : Nat]

\* The current action is an action of the plan.
LEMMA CurrentAction ==
    ASSUME TypeOK
    PROVE  /\ plan \in Seq(Action)
           /\ Len(plan) \in Nat
           /\ \A i \in 1..Len(plan) : plan[i] \in Action
           /\ \A i \in 1..Len(plan) : plan[i].len \in Nat /\ plan[i].chunk \in Nat
           /\ index <= Len(plan) =>
                 /\ index \in 1..Len(plan) /\ Current \in Action
                 /\ Current.len \in Nat /\ Current.chunk \in Nat
<1>1. plan \in Seq(Action) /\ index \in Nat \ {0}
    BY ConstantsAssumption DEF TypeOK
<1>2. Len(plan) \in Nat /\ \A i \in 1..Len(plan) : plan[i] \in Action
    BY <1>1
<1>3. \A i \in 1..Len(plan) : plan[i].len \in Nat /\ plan[i].chunk \in Nat
    BY <1>2 DEF Action
<1>4. index <= Len(plan) => index \in 1..Len(plan)
    BY <1>1, <1>2
<1> QED BY <1>1, <1>2, <1>3, <1>4 DEF Current

\* The bytes the transport took, and the place up to which it took them, are numbers.
LEMMA DeviceBytes ==
    ASSUME TypeOK
    PROVE  /\ \A k \in 1..Len(device) : device[k][1] \in Nat /\ device[k][2] \in Nat
           /\ Reach \in Nat /\ index \in Nat
<1>1. device \in Seq(Nat \X Nat) /\ inflight.next \in Nat /\ offset \in Nat /\ index \in Nat
    BY DEF TypeOK
<1> QED BY <1>1 DEF Reach

\* A step that leaves the plan, the device and the position alone keeps what is
\* known of the delivered bytes.
LEMMA QuietStep ==
    ASSUME Frontier, Ordered, UNCHANGED <<plan, index, device>>, Reach' = Reach
    PROVE  Frontier' /\ Ordered'
BY Zenon DEF Frontier, Ordered, InPlan, Delivered, IsWrite, Job!Before

\* Returning a result other than by a plain completion of the last action keeps
\* the invariant, provided an abandoned write is reported as such.
LEMMA FinishStep ==
    ASSUME IInv, NEW r \in Results \ {"Running"}, pc # "done", Finish(r),
           r = "Completed" => index = Len(plan) + 1,
           inflight # NoWrite => r = "WriteOutcomeUnknown"
    PROVE  IInv'
<1> USE DEF Finish, environment, raster, collection
<1>1. TypeOK'
    BY DEF IInv, TypeOK, Labels
<1>2. Control'
    BY DEF IInv, Control, IsWrite, Current
<1>3. InFlight'
    BY DEF IInv, InFlight, IsWrite, Current
<1>4. Frontier' /\ Ordered'
    BY QuietStep DEF IInv, Reach
<1>5. Counted'
    BY DEF IInv, Counted, Reach
<1> QED BY <1>1, <1>2, <1>3, <1>4, <1>5 DEF IInv

\* Completing an action whose bytes are all delivered keeps the invariant.
LEMMA CompleteStep ==
    ASSUME IInv, Advance, inflight' = NoWrite,
           progress' \in ProgressType, progress'.last = index,
           progress'.bytes = Len(device), ~progress'.potential => device = <<>>,
           pc \notin {"preflight", "done"}, index <= Len(plan),
           IsWrite(Current) => \A q \in 1..Current.len : Delivered(index, q)
    PROVE  IInv'
<1> USE DEF Advance, environment
<1>0. /\ TypeOK /\ Control /\ Frontier /\ Ordered /\ InFlight
      /\ plan' = plan /\ device' = device /\ index' = index + 1 /\ index \in Nat
      /\ Len(plan) \in Nat /\ device \in Seq(Nat \X Nat)
      /\ \A i \in 1..Len(plan) : plan[i].len \in Nat
    BY CurrentAction, Zenon DEF IInv, TypeOK
<1>1. TypeOK'
  <2>1. inflight' \in [action : Nat, next : Nat, to : Nat]
      BY DEF NoWrite
  <2>2. buf' \in Frame
      BY DEF EmptyFrame, Frame
  <2> QED BY <2>1, <2>2 DEF IInv, TypeOK, Labels, ProgressType
<1>2. Control'
  <2>1. \A i \in 1..Len(plan) : plan[i].kind = "RasterWrite" => plan[i].chunk > 0
      BY <1>0 DEF Control
  <2>2. buf'.mark <= buf'.len
      BY DEF EmptyFrame
  <2> QED BY <1>0, <2>1, <2>2 DEF Control
<1>3. InFlight'
    BY DEF IInv, TypeOK, InFlight
<1>4. Frontier'
  <2>1. Reach' = 0
      BY DEF Reach
  <2>3. ASSUME NEW k \in 1..Len(device)
        PROVE  /\ InPlan(device[k][1], device[k][2])
               /\ device[k][1] < index + 1
    <3>1. device[k][1] \in Nat
        BY <1>0, SMTT(30)
    <3>2. InPlan(device[k][1], device[k][2]) /\ (device[k][1] < index \/ device[k][1] = index)
        BY <1>0, Zenon DEF Frontier
    <3> QED BY <1>0, <3>1, <3>2
  <2>4. ASSUME NEW i \in 1..Len(plan), NEW q \in 1..plan[i].len,
               IsWrite(plan[i]), i < index + 1
        PROVE  Delivered(i, q)
    <3>1. CASE i = index
        BY <3>1, <2>4 DEF Current
    <3>2. CASE i < index
        BY <1>0, <3>2, <2>4 DEF Frontier
    <3> QED BY <1>0, <2>4, <3>1, <3>2
  <2>5. \A k \in 1..Len(device) : device[k][1] \in Nat
      BY <1>0, SMTT(30)
  <2>6. ASSUME NEW k \in 1..Len(device')
        PROVE  /\ InPlan(device[k][1], device[k][2])'
               /\ (device[k][1] < index)'
      BY <1>0, <2>3, Zenon DEF InPlan, IsWrite
  <2>7. ASSUME NEW i \in 1..Len(plan'), NEW q \in 1..plan'[i].len,
               IsWrite(plan[i])', (i < index)' \/ (i = index /\ q <= Reach)'
        PROVE  Delivered(i, q)'
    <3>1. i < index + 1
        BY <1>0, <2>1, <2>7
    <3>2. Delivered(i, q)
        BY <1>0, <2>4, <2>7, <3>1 DEF IsWrite
    <3> QED BY <1>0, <3>2, Zenon DEF Delivered
  <2> QED BY <2>6, <2>7 DEF Frontier
<1>5. Ordered'
    BY DEF IInv, Ordered, Job!Before
<1>6. Counted'
  <2>1. device' = device /\ inflight' = NoWrite /\ Len(device) \in Nat
      BY <1>0
  <2>2. offset' = 0 /\ Reach' = 0
      BY DEF Reach
  <2> QED BY <2>1, <2>2 DEF Counted
<1> QED BY <1>1, <1>2, <1>3, <1>4, <1>5, <1>6 DEF IInv

\* Moving on within an action without touching what was sent keeps the
\* invariant, once Control and TypeOK are seen to.
LEMMA MoveStep ==
    ASSUME IInv, TypeOK', Control',
           UNCHANGED <<plan, index, inflight, offset, progress, result, device>>,
           inflight = NoWrite, pc # "done", pc' \notin {"done", "writing"}
    PROVE  IInv'
<1>1. InFlight'
    BY DEF IInv, InFlight, IsWrite, Current
<1>2. Frontier' /\ Ordered'
    BY QuietStep DEF IInv, Reach
<1>3. Counted'
    BY DEF IInv, Counted, Reach
<1> QED BY <1>1, <1>2, <1>3 DEF IInv

\* Only an awaited or an abandoned write is in flight.
LEMMA NothingInFlight ==
    ASSUME IInv, pc \notin {"writing", "done"}
    PROVE  inflight = NoWrite
BY DEF IInv, InFlight

-----------------------------------------------------------------------------

\* The invariant holds before execute_inner begins.
LEMMA InitIInv == Init => IInv
<1> SUFFICES ASSUME Init PROVE IInv
    OBVIOUS
<1>1. TypeOK
  <2>1. inflight \in [action : Nat, next : Nat, to : Nat] /\ buf \in Frame
      BY DEF Init, NoWrite, EmptyFrame, Frame
  <2>2. progress \in ProgressType
      BY DEF Init, NoProgress, ProgressType
  <2>3. device \in Seq(Nat \X Nat)
      BY DEF Init
  <2>4. cancelRequested \in BOOLEAN /\ pc \in Labels /\ result \in Results
      BY Zenon DEF Init, Labels, Results
  <2> QED BY <2>1, <2>2, <2>3, <2>4 DEF Init, TypeOK, ProgressType
<1>2. Control
    BY <1>1, CurrentAction DEF Init, Control, NoProgress, EmptyFrame
<1>3. InFlight
    BY DEF Init, InFlight
<1>4. Len(device) = 0 /\ index = 1 /\ Reach = 0
    BY DEF Init, Reach
<1>6. ASSUME NEW i \in 1..Len(plan), NEW q \in 1..plan[i].len
      PROVE  ~(i < index \/ (i = index /\ q <= Reach))
    BY <1>1, <1>4, CurrentAction
<1>7. Frontier /\ Ordered
    BY <1>4, <1>6 DEF Frontier, Ordered
<1>5. Counted
    BY DEF Init, Counted, Reach, NoProgress
<1> QED BY <1>1, <1>2, <1>3, <1>5, <1>7 DEF IInv

\* Preflight, which refuses the plan or starts at its first action, keeps the invariant.
LEMMA PreflightStep == IInv /\ Preflight => IInv'
<1> SUFFICES ASSUME IInv, Preflight PROVE IInv'
    OBVIOUS
<1>1. pc = "preflight" /\ inflight = NoWrite
    BY NothingInFlight DEF Preflight
<1>2. CASE Accepted(plan, payloadLimit, commandLimit) /\ ~Finish(PreflightError(plan, payloadLimit, commandLimit))
  <2>0. /\ pc' = "action" /\ UNCHANGED <<plan, environment, index, raster, inflight, collection,
                                        progress, result, device>>
      BY <1>2 DEF Preflight
  <2>1. TypeOK'
      BY <2>0 DEF IInv, TypeOK, Labels, environment, raster, collection
  <2>2. \A i \in 1..Len(plan) : plan[i].kind = "RasterWrite" => plan[i].chunk > 0
    <3> SUFFICES ASSUME NEW i \in 1..Len(plan), plan[i].kind = "RasterWrite"
                 PROVE  plan[i].chunk > 0
        OBVIOUS
    <3>1. plan[i].chunk # 0
        BY <1>2 DEF Accepted, Rejected
    <3> QED BY <3>1, CurrentAction DEF IInv
  <2>3. Control'
      BY <1>1, <2>0, <2>2 DEF IInv, Control, raster, collection
  <2> QED BY <1>1, <2>0, <2>1, <2>3, MoveStep DEF raster
<1>3. CASE Finish(PreflightError(plan, payloadLimit, commandLimit))
  <2>1. PreflightError(plan, payloadLimit, commandLimit) \in {"AtomicTooLarge", "InvalidPlan"}
      BY DEF PreflightError
  <2>2. CASE Finish("AtomicTooLarge")
      BY <1>1, <2>2, FinishStep DEF Results
  <2>3. CASE Finish("InvalidPlan")
      BY <1>1, <2>3, FinishStep DEF Results
  <2> QED BY <1>3, <2>1, <2>2, <2>3
<1> QED BY <1>2, <1>3 DEF Preflight

\* An action that writes nothing and has nothing to say completes.
LEMMA CompleteNonWrite ==
    ASSUME IInv, Advance, inflight' = inflight,
           progress' \in ProgressType, progress'.last = index,
           progress'.bytes = progress.bytes, progress'.potential = progress.potential,
           pc \notin {"preflight", "writing", "done"}, index <= Len(plan),
           IsWrite(Current) => offset = Current.len
    PROVE  IInv'
<1>1. inflight = NoWrite
    BY NothingInFlight
<1>2. Len(device) = progress.bytes /\ (~progress.potential => device = <<>>)
    BY <1>1 DEF IInv, TypeOK, Counted, Reach
<1>3. ASSUME IsWrite(Current), NEW q \in 1..Current.len
      PROVE  Delivered(index, q)
  <2>1. index \in 1..Len(plan) /\ Current.len \in Nat
      BY CurrentAction DEF IInv
  <2>2. Reach = offset /\ q <= Reach
      BY <1>1, <1>3, <2>1 DEF Reach
  <2> QED BY <1>3, <2>1, <2>2 DEF IInv, Frontier, Current
<1> QED BY <1>1, <1>2, <1>3, CompleteStep

\* Completing an action that wrote all it has to, with no new progress but last_completed_action,
\* keeps the invariant.
LEMMA CompleteQuietly ==
    ASSUME IInv, Complete(progress), inflight' = inflight,
           pc \notin {"preflight", "writing", "done"}, index <= Len(plan),
           IsWrite(Current) => offset = Current.len
    PROVE  IInv'
<1>1. /\ progress' \in ProgressType /\ progress'.last = index
      /\ progress'.bytes = progress.bytes /\ progress'.potential = progress.potential
    BY Zenon DEF IInv, TypeOK, Complete, ProgressType
<1> QED BY <1>1, CompleteNonWrite DEF Complete

\* Looking at cancellation, starting an action and returning keep the invariant.
LEMMA BeginStep ==
    IInv /\ (CheckCancelled \/ JobBoundary \/ BeginSubscribe \/ BeginDelay \/ BeginCommand
            \/ BeginRaster \/ BeginWait \/ BeginCollect \/ Return) => IInv'
<1> SUFFICES ASSUME IInv,
                    CheckCancelled \/ JobBoundary \/ BeginSubscribe \/ BeginDelay \/ BeginCommand
                    \/ BeginRaster \/ BeginWait \/ BeginCollect \/ Return
             PROVE  IInv'
    OBVIOUS
<1>0. pc \in {"action", "write"} /\ inflight = NoWrite
  <2>1. pc \in {"action", "write"}
      BY DEF CheckCancelled, JobBoundary, BeginSubscribe, BeginDelay, BeginCommand, BeginRaster,
             BeginWait, BeginCollect, Return, AtAction
  <2> QED BY <2>1, NothingInFlight
<1>1. CASE CheckCancelled
    BY <1>0, <1>1, FinishStep DEF CheckCancelled, Results
<1>2. CASE JobBoundary
    BY <1>2, CompleteQuietly DEF JobBoundary, AtAction, IsWrite
<1>3. CASE BeginSubscribe \/ BeginDelay \/ BeginWait \/ BeginCollect
  <2>1. /\ pc = "action" /\ index <= Len(plan) /\ ~IsWrite(Current)
        /\ pc' \in {"subscribe", "delay", "collect", "multipart"}
        /\ UNCHANGED <<plan, environment, index, raster, inflight, collection, progress, result, device>>
      BY <1>3 DEF BeginSubscribe, BeginDelay, BeginWait, BeginCollect, AtAction, Goto, IsWrite
  <2>2. TypeOK'
      BY <2>1 DEF IInv, TypeOK, Labels, environment, raster, collection
  <2>3. Control'
      BY <2>1, Zenon DEF IInv, Control, raster, collection, IsWrite, Current
  <2> QED BY <1>0, <2>1, <2>2, <2>3, MoveStep DEF raster
<1>4. CASE BeginCommand
  <2>1. /\ pc = "action" /\ index <= Len(plan) /\ Current.kind = "CommandWrite" /\ pc' = "write"
        /\ UNCHANGED <<plan, environment, index, raster, inflight, collection, progress, result, device>>
      BY <1>4 DEF BeginCommand, AtAction, Goto
  <2>2. TypeOK'
      BY <2>1 DEF IInv, TypeOK, Labels, environment, raster, collection
  <2>3. Control'
      BY <2>1, Zenon DEF IInv, Control, raster, collection, IsWrite, Current
  <2> QED BY <1>0, <2>1, <2>2, <2>3, MoveStep DEF raster
<1>5. CASE BeginRaster
  <2>0. /\ pc = "action" /\ index <= Len(plan) /\ Current.kind = "RasterWrite"
        /\ offset = 0 /\ logical = 0
      BY <1>5, Zenon DEF BeginRaster, AtAction, IInv, Control
  <2>1. CASE Finish("InvalidPlan")
      BY <1>0, <2>1, FinishStep DEF Results
  <2>2. CASE Current.len = 0 /\ Complete(progress) /\ UNCHANGED inflight
      BY <1>0, <2>0, <2>2, CompleteQuietly
  <2>3. CASE /\ payloadLimit # 0 /\ Current.len # 0 /\ pieceLimit' = payloadLimit
             /\ Goto("write") /\ UNCHANGED <<logical, offset, collection>>
    <3>1. payloadLimit \in Nat /\ Current.len \in Nat /\ Current.chunk \in Nat /\ index \in 1..Len(plan)
        BY <2>0, ConstantsAssumption, CurrentAction, Zenon DEF IInv, TypeOK
    <3>2. Current.chunk > 0
        BY <2>0, <3>1, Zenon DEF IInv, Control, Current
    <3>3. TypeOK'
        BY <2>3, <3>1 DEF IInv, TypeOK, Labels, Goto, environment, collection
    <3>5. /\ pc' = "write" /\ offset' = 0 /\ logical' = 0 /\ pieceLimit' > 0
          /\ UNCHANGED <<plan, index, progress, buf>>
        BY <2>0, <2>3, <3>1 DEF Goto, collection
    <3>4. Control'
        BY <2>0, <2>3, <3>1, <3>2, <3>5, SMTT(30) DEF IInv, Control, IsWrite, Current
    <3> QED BY <1>0, <2>3, <3>3, <3>4, MoveStep DEF Goto
  <2> QED BY <1>5, <2>1, <2>2, <2>3 DEF BeginRaster
<1>6. CASE Return
  <2>1. index = Len(plan) + 1
      BY <1>6, CurrentAction, SMTT(30) DEF Return, IInv, TypeOK, Control
  <2> QED BY <1>0, <1>6, <2>1, FinishStep DEF Return, Results
<1> QED BY <1>1, <1>2, <1>3, <1>4, <1>5, <1>6

\* A subscription or a delay that ends, or loses its race with cancellation, keeps the invariant.
LEMMA EffectStep ==
    IInv /\ (RaceCancelled \/ Subscribed \/ SubscribeFailed \/ DelayDone) => IInv'
<1> SUFFICES ASSUME IInv, RaceCancelled \/ Subscribed \/ SubscribeFailed \/ DelayDone
             PROVE  IInv'
    OBVIOUS
<1>0. pc \notin {"preflight", "action", "writing", "done"} /\ inflight = NoWrite
  <2>1. pc \notin {"preflight", "action", "writing", "done"}
      BY DEF RaceCancelled, Subscribed, SubscribeFailed, DelayDone
  <2> QED BY <2>1, NothingInFlight
<1>1. CASE RaceCancelled
    BY <1>0, <1>1, FinishStep DEF RaceCancelled, Results
<1>2. CASE SubscribeFailed
    BY <1>0, <1>2, FinishStep DEF SubscribeFailed, NonWriteError, Results
<1>3. CASE Subscribed \/ DelayDone
  <2>1. index <= Len(plan) /\ ~IsWrite(Current)
      BY <1>3, Zenon DEF IInv, Control, Subscribed, DelayDone
  <2> QED BY <1>0, <1>3, <2>1, CompleteQuietly DEF Subscribed, DelayDone
<1> QED BY <1>1, <1>2, <1>3

\* A piece that is about to be written starts at offset and ends within its
\* action and, for raster data, within its logical chunk.
LEMMA PieceBounds ==
    ASSUME IInv, pc = "write"
    PROVE  /\ index \in 1..Len(plan) /\ IsWrite(Current) /\ Current.len \in Nat
           /\ offset \in Nat /\ PieceEnd \in Nat
           /\ offset <= PieceEnd /\ PieceEnd <= Current.len
           /\ Current.kind = "RasterWrite" =>
                 offset < PieceEnd /\ PieceEnd <= logical + Current.chunk
           /\ Current.kind = "CommandWrite" => PieceEnd = Current.len
<1>1. /\ TypeOK /\ Control
      /\ index \in 1..Len(plan) /\ IsWrite(Current)
      /\ Current.len \in Nat /\ Current.chunk \in Nat
      /\ offset \in Nat /\ logical \in Nat /\ pieceLimit \in Nat
    BY CurrentAction, Zenon DEF IInv, Control, TypeOK
<1>2. CASE Current.kind = "CommandWrite"
    BY <1>1, <1>2 DEF PieceEnd, Control
<1>3. CASE Current.kind = "RasterWrite"
  <2>1. /\ offset < Current.len /\ logical <= offset /\ offset < logical + Current.chunk
        /\ pieceLimit > 0
      BY <1>1, <1>3 DEF Control
  <2>2. /\ PieceEnd \in Nat /\ offset < PieceEnd /\ PieceEnd <= Current.len
        /\ PieceEnd <= logical + Current.chunk
      BY <1>1, <1>3, <2>1, SMTT(30) DEF PieceEnd, Smaller
  <2> QED BY <1>1, <1>3, <2>2
<1> QED BY <1>1, <1>2, <1>3 DEF IsWrite

\* Handing a piece to the transport preserves the invariant.
LEMMA StartPieceStep == IInv /\ StartPiece => IInv'
<1> SUFFICES ASSUME IInv, StartPiece PROVE IInv'
    OBVIOUS
<1> USE DEF StartPiece, environment, raster, collection
<1>0. /\ TypeOK /\ Control /\ inflight = NoWrite /\ pc = "write" /\ pc' = "writing"
      /\ result = "Running" /\ result' = "Running"
      /\ index \in 1..Len(plan) /\ IsWrite(Current)
      /\ Current.len \in Nat /\ Current.chunk \in Nat
      /\ offset \in Nat /\ logical \in Nat /\ pieceLimit \in Nat
      /\ UNCHANGED <<plan, index, pieceLimit, logical, offset, buf, reads, device>>
    BY NothingInFlight, CurrentAction DEF IInv, Control, InFlight, TypeOK
<1>1. /\ PieceEnd \in Nat /\ offset <= PieceEnd /\ PieceEnd <= Current.len
      /\ Current.kind = "RasterWrite" => offset < PieceEnd /\ PieceEnd <= logical + Current.chunk
      /\ Current.kind = "CommandWrite" => PieceEnd = Current.len
    BY <1>0, PieceBounds
<1>2. /\ inflight' = [action |-> index, next |-> offset, to |-> PieceEnd]
      /\ inflight'.action = index /\ inflight'.next = offset /\ inflight'.to = PieceEnd
      /\ inflight' # NoWrite
    BY <1>0 DEF NoWrite
<1>3. progress' \in ProgressType /\ progress'.last = progress.last /\ progress'.bytes = progress.bytes
      /\ progress'.potential = TRUE
    BY <1>0, Zenon DEF TypeOK, ProgressType
<1>4. TypeOK'
  <2>1. inflight' \in [action : Nat, next : Nat, to : Nat]
      BY <1>0, <1>1, <1>2
  <2>2. pc' \in Labels
      BY <1>0 DEF Labels
  <2> QED BY <1>0, <1>3, <2>1, <2>2 DEF TypeOK, ProgressType
<1>5. Control'
    BY <1>0, <1>3 DEF Control, IsWrite, Current
<1>6. InFlight'
    BY <1>0, <1>1, <1>2 DEF InFlight, IsWrite, Current
<1>7. Reach' = Reach
    BY <1>0, <1>2 DEF Reach
<1>8. Frontier' /\ Ordered'
    BY <1>0, <1>7, QuietStep DEF IInv
<1>9. Counted'
    BY <1>0, <1>3, <1>7 DEF IInv, Counted
<1> QED BY <1>4, <1>5, <1>6, <1>8, <1>9 DEF IInv

\* The transport takes the next byte of the plan.
LEMMA AcceptStep == IInv /\ Accept => IInv'
<1> SUFFICES ASSUME IInv, Accept PROVE IInv'
    OBVIOUS
<1>a. TypeOK /\ Control /\ InFlight /\ Frontier /\ Ordered /\ Counted
    BY DEF IInv
<1>b. /\ inflight.next \in Nat /\ inflight.to \in Nat /\ inflight.action \in Nat
      /\ offset \in Nat /\ index \in Nat /\ progress.bytes \in Nat
    BY <1>a DEF TypeOK
<1>c. device \in Seq(Nat \X Nat)
    BY <1>a DEF TypeOK
<1>d. Len(device) \in Nat /\ \A k \in 1..Len(device) : device[k][1] \in Nat /\ device[k][2] \in Nat
    BY <1>c
<1>e. UNCHANGED <<plan, commandLimit, payloadLimit, changedAt, cancelRequested, pc, index, pieceLimit,
                  logical, offset, buf, reads, progress, result>>
    BY DEF Accept, environment, raster, collection
<1>1. inflight # NoWrite /\ inflight.next < inflight.to
    BY DEF NoWrite, Accept
<1>2. /\ inflight.action = index /\ index \in 1..Len(plan) /\ IsWrite(Current)
      /\ Current.len \in Nat /\ inflight.next + 1 <= inflight.to /\ inflight.to <= Current.len
      /\ offset <= inflight.next /\ Reach = inflight.next
    BY <1>a, <1>b, <1>1, CurrentAction DEF InFlight, Reach
<1>3. /\ inflight'.action = index /\ inflight'.next = inflight.next + 1 /\ inflight'.to = inflight.to
      /\ inflight' \in [action : Nat, next : Nat, to : Nat]
  <2>1. inflight \in [action : Nat, next : Nat, to : Nat]
      BY <1>a DEF TypeOK
  <2>2. inflight' = [inflight EXCEPT !.next = inflight.next + 1]
      BY DEF Accept
  <2> QED BY <1>b, <1>2, <2>1, <2>2
<1>4. inflight' # NoWrite /\ Reach' = Reach + 1
  <2>1. inflight' # NoWrite
      BY <1>2, <1>3 DEF NoWrite
  <2> QED BY <1>2, <1>3, <2>1 DEF Reach
<1>f. <<index, inflight.next + 1>> \in Nat \X Nat
    BY <1>b
<1>g. device' = Append(device, <<index, inflight.next + 1>>)
    BY <1>2 DEF Accept
<1>5. device' \in Seq(Nat \X Nat)
    BY <1>c, <1>f, <1>g
<1>6. Len(device') = Len(device) + 1
    BY <1>c, <1>f, <1>g
<1>7. \A k \in 1..Len(device) : device'[k] = device[k]
    BY <1>c, <1>f, <1>g
<1>8. device'[Len(device) + 1] = <<index, inflight.next + 1>>
    BY <1>c, <1>f, <1>g
<1>9. \A k \in 1..Len(device') : k \in 1..Len(device) \/ k = Len(device) + 1
    BY <1>d, <1>6
<1>10. Len(device) + 1 \in 1..Len(device') /\ \A k \in 1..Len(device) : k \in 1..Len(device')
    BY <1>d, <1>6
<1>11. TypeOK'
    BY <1>a, <1>e, <1>3, <1>5 DEF TypeOK
<1>12. Control'
    BY <1>a, <1>e, Zenon DEF Control, IsWrite, Current
<1>13. InFlight'
  <2>1. /\ pc = "writing" \/ result = "WriteOutcomeUnknown"
        /\ result = "Running" <=> pc # "done"
        /\ result = "Completed" => index = Len(plan) + 1
        /\ Current.kind = "RasterWrite" =>
              offset < inflight.to /\ inflight.to <= logical + Current.chunk
        /\ Current.kind = "CommandWrite" => inflight.to = Current.len
      BY <1>a, <1>1 DEF InFlight
  <2>2. index <= Len(plan) /\ offset <= inflight.next + 1
      BY <1>b, <1>2
  <2> QED BY <1>e, <1>2, <1>3, <1>4, <2>1, <2>2, Zenon DEF InFlight, IsWrite, Current
<1>14. Frontier'
  <2>1. ASSUME NEW k \in 1..Len(device')
        PROVE  /\ InPlan(device[k][1], device[k][2])'
               /\ (device[k][1] < index \/ (device[k][1] = index /\ device[k][2] <= Reach))'
    <3>1. CASE k = Len(device) + 1
      <4>1. (device[k][1])' = index /\ (device[k][2])' = inflight.next + 1
          BY <1>8, <3>1
      <4>2. InPlan(index, inflight.next + 1)
          BY <1>b, <1>2, SMTT(30) DEF InPlan, IsWrite, Current
      <4>3. InPlan(device[k][1], device[k][2])'
          BY <1>e, <4>1, <4>2, Zenon DEF InPlan, IsWrite
      <4>4. (device[k][1] = index /\ device[k][2] <= Reach)'
          BY <1>b, <1>e, <1>2, <1>4, <4>1
      <4> QED BY <4>3, <4>4
    <3>2. CASE k \in 1..Len(device)
      <4>1. device[k]' = device[k]
          BY <1>7, <3>2
      <4>2. /\ InPlan(device[k][1], device[k][2])
            /\ device[k][1] < index \/ (device[k][1] = index /\ device[k][2] <= Reach)
          BY <1>a, <3>2, Zenon DEF Frontier
      <4>3. device[k][2] \in Nat /\ Reach \in Nat
          BY <1>b, <1>d, <1>2, <3>2, Zenon
      <4>4. InPlan(device[k][1], device[k][2])'
          BY <1>e, <4>1, <4>2, Zenon DEF InPlan, IsWrite
      <4> QED BY <1>e, <1>4, <4>1, <4>2, <4>3, <4>4
    <3> QED BY <1>9, <3>1, <3>2
  <2>2. ASSUME NEW i \in 1..Len(plan'), NEW q \in 1..plan'[i].len,
               IsWrite(plan[i])', (i < index)' \/ (i = index /\ q <= Reach)'
        PROVE  Delivered(i, q)'
    <3>1. plan[i].len \in Nat /\ q \in Nat
        BY <1>a, <1>e, CurrentAction
    <3>2. CASE i = index /\ q = inflight.next + 1
        BY <1>8, <1>10, <3>2 DEF Delivered
    <3>3. CASE i < index \/ (i = index /\ q <= Reach)
      <4>1. Delivered(i, q)
          BY <1>a, <1>e, <2>2, <3>3, Zenon DEF Frontier, IsWrite
      <4>2. PICK k \in 1..Len(device) : device[k] = <<i, q>>
          BY <4>1 DEF Delivered
      <4>3. k \in 1..Len(device') /\ device'[k] = <<i, q>>
          BY <1>7, <1>10, <4>2, Zenon
      <4> QED BY <4>3 DEF Delivered
    <3> QED BY <1>b, <1>e, <1>2, <1>4, <2>2, <3>1, <3>2, <3>3, SMTT(30)
  <2> QED BY <2>1, <2>2, Zenon DEF Frontier
<1>15. Ordered'
  <2> SUFFICES ASSUME NEW j \in 1..Len(device'), NEW k \in 1..Len(device'), j < k
               PROVE  Job!Before(device[j], device[k])'
      BY DEF Ordered
  <2>1. j \in 1..Len(device)
      BY <1>d, <1>6
  <2>2. device'[j] = device[j] /\ device[j][1] \in Nat /\ device[j][2] \in Nat
      BY <1>d, <1>7, <2>1
  <2>3. CASE k = Len(device) + 1
    <3>1. device[j][1] < index \/ (device[j][1] = index /\ device[j][2] <= Reach)
        BY <1>a, <2>1, Zenon DEF Frontier
    <3>2. device'[k][1] = index /\ device'[k][2] = inflight.next + 1
        BY <1>8, <2>3
    <3>3. Reach < inflight.next + 1 /\ Reach \in Nat
        BY <1>b, <1>2
    <3>4. device'[j][1] < index \/ (device'[j][1] = index /\ device'[j][2] < inflight.next + 1)
        BY <1>b, <1>2, <2>2, <3>1, <3>3, SMTT(30)
    <3> QED BY <3>2, <3>4 DEF Job!Before
  <2>4. CASE k \in 1..Len(device)
    <3>1. Job!Before(device[j], device[k]) /\ device'[k] = device[k]
        BY <1>a, <1>7, <2>1, <2>4 DEF Ordered
    <3> QED BY <2>2, <3>1 DEF Job!Before
  <2> QED BY <1>9, <2>3, <2>4
<1>16. Counted'
  <2>1. progress.potential /\ Len(device) = progress.bytes + (Reach - offset)
      BY <1>a, <1>1 DEF Counted
  <2>2. Len(device') = progress.bytes + ((Reach + 1) - offset)
      BY <1>b, <1>d, <1>2, <1>6, <2>1, SMTT(30)
  <2> QED BY <1>e, <1>4, <2>1, <2>2 DEF Counted
<1> QED BY <1>11, <1>12, <1>13, <1>14, <1>15, <1>16 DEF IInv

\* A write whose outcome is unknown ends the execution and keeps the invariant.
LEMMA WriteEndsStep == IInv /\ (WriteFailed \/ WriteCancelled) => IInv'
<1> SUFFICES ASSUME IInv, WriteFailed \/ WriteCancelled PROVE IInv'
    OBVIOUS
<1>1. pc = "writing" /\ Finish("WriteOutcomeUnknown")
    BY DEF WriteFailed, WriteCancelled
<1> QED BY <1>1, FinishStep DEF Results

\* A write that resolves Ok confirms its piece.
LEMMA WriteOkStep == IInv /\ WriteOk => IInv'
<1> SUFFICES ASSUME IInv, WriteOk PROVE IInv'
    OBVIOUS
<1> DEFINE p == [progress EXCEPT !.bytes = progress.bytes + (inflight.to - offset)]
<1>a. TypeOK /\ Control /\ InFlight /\ Frontier /\ Ordered /\ Counted
    BY DEF IInv
<1>b. /\ inflight.next \in Nat /\ inflight.to \in Nat /\ offset \in Nat /\ logical \in Nat
      /\ index \in Nat /\ progress.bytes \in Nat /\ progress \in ProgressType
      /\ index <= Len(plan) /\ index \in 1..Len(plan)
      /\ Current.len \in Nat /\ Current.chunk \in Nat
  <2>1. index <= Len(plan)
      BY <1>a DEF WriteOk, Control
  <2> QED BY <1>a, <2>1, CurrentAction DEF TypeOK, ProgressType
<1>1. /\ pc = "writing" /\ inflight.next = inflight.to /\ inflight' = NoWrite
      /\ inflight # NoWrite /\ IsWrite(Current)
      /\ offset <= inflight.to /\ inflight.to <= Current.len
      /\ Current.kind = "RasterWrite" => inflight.to <= logical + Current.chunk
      /\ Current.kind = "CommandWrite" => inflight.to = Current.len
    BY <1>a DEF WriteOk, InFlight
<1>2. Reach = inflight.to /\ Len(device) = progress.bytes + (inflight.to - offset)
    BY <1>a, <1>1 DEF Reach, Counted
<1>3. /\ p \in ProgressType /\ p.bytes = Len(device) /\ p.last = progress.last
      /\ p.potential = progress.potential
  <2>1. progress.bytes + (inflight.to - offset) \in Nat
      BY <1>b, <1>1
  <2> QED BY <1>b, <1>2, <2>1, Zenon DEF ProgressType
<1>4. progress.potential
    BY <1>a, <1>1 DEF Counted
<1>5. CASE Current.kind = "CommandWrite" /\ Complete(p)
  <2>1. /\ progress' \in ProgressType /\ progress'.last = index
        /\ progress'.bytes = Len(device) /\ progress'.potential = progress.potential
    <3>1. progress' = [p EXCEPT !.last = index]
        BY <1>5 DEF Complete
    <3>2. [p EXCEPT !.last = index] \in ProgressType
        BY <1>b, <1>3, Zenon DEF ProgressType
    <3> HIDE DEF p
    <3> QED BY <1>3, <3>1, <3>2 DEF ProgressType
  <2>2. ASSUME NEW q \in 1..Current.len
        PROVE  Delivered(index, q)
    <3>1. q <= Reach
        BY <1>b, <1>1, <1>2, <1>5
    <3> QED BY <1>a, <1>b, <1>1, <3>1, Zenon DEF Frontier, Current
  <2> QED BY <1>b, <1>1, <1>4, <1>5, <2>1, <2>2, CompleteStep, Zenon DEF Complete
<1>6. CASE /\ Current.kind = "RasterWrite" /\ progress' = p /\ offset' = inflight.to /\ pc' = "pacing"
           /\ UNCHANGED <<plan, environment, index, pieceLimit, logical, collection, result, device>>
  <2> HIDE DEF p
  <2>1. TypeOK'
    <3>1. inflight' \in [action : Nat, next : Nat, to : Nat]
        BY <1>1 DEF NoWrite
    <3> QED BY <1>a, <1>b, <1>3, <1>6, <3>1, Zenon DEF TypeOK, Labels, ProgressType, environment, collection
  <2>2. Control'
    <3>1. /\ Current' = Current /\ pieceLimit > 0 /\ logical <= inflight.to
          /\ progress'.last = index - 1 /\ UNCHANGED <<plan, index, pieceLimit, logical, buf>>
          /\ buf.mark <= buf.len
        BY <1>a, <1>b, <1>1, <1>3, <1>6, SMTT(30) DEF Control, Current, collection
    <3>2. \A i \in 1..Len(plan) : plan[i].kind = "RasterWrite" => plan[i].chunk > 0
        BY <1>a, <1>1, Zenon DEF Control
    <3> QED BY <1>b, <1>1, <1>6, <3>1, <3>2, SMTT(30) DEF Control
  <2>3. InFlight'
      BY <1>a, <1>1, <1>6, Zenon DEF InFlight
  <2>4. Reach' = Reach
      BY <1>1, <1>2, <1>6 DEF Reach
  <2>5. Frontier' /\ Ordered'
      BY <1>a, <1>6, <2>4, QuietStep
  <2>6. Counted'
    <3>1. progress'.potential
        BY <1>3, <1>4, <1>6, Zenon
    <3>2. (Len(device) = progress.bytes + (Reach - offset))'
      <4>1. progress'.bytes = Len(device) /\ device' = device /\ Reach' = offset' /\ offset' \in Nat
          BY <1>b, <1>2, <1>3, <1>6, <2>4, Zenon
      <4>2. Len(device) \in Nat
          BY <1>b, <1>1, <1>2
      <4> QED BY <4>1, <4>2
    <3> QED BY <3>1, <3>2 DEF Counted
  <2> QED BY <2>1, <2>2, <2>3, <2>5, <2>6 DEF IInv
<1> QED BY <1>5, <1>6 DEF WriteOk

\* Going on to the next piece or chunk of raster data keeps the invariant.
LEMMA PacedStep == IInv /\ Paced => IInv'
<1> SUFFICES ASSUME IInv, Paced PROVE IInv'
    OBVIOUS
<1>0. /\ TypeOK /\ Control /\ pc = "pacing" /\ inflight = NoWrite
      /\ index <= Len(plan) /\ index \in 1..Len(plan) /\ Current.kind = "RasterWrite"
      /\ offset \in Nat /\ logical \in Nat /\ Current.len \in Nat /\ Current.chunk \in Nat
      /\ offset <= Current.len /\ logical <= offset /\ offset <= logical + Current.chunk
      /\ pieceLimit > 0
    BY NothingInFlight, CurrentAction, Zenon DEF Paced, IInv, Control, TypeOK
<1>1. CASE offset = Current.len /\ Complete(progress) /\ UNCHANGED inflight
    BY <1>0, <1>1, CompleteQuietly
<1>2. CASE /\ offset # Current.len
           /\ logical' = IF offset = logical + Current.chunk THEN offset ELSE logical
           /\ Goto("write") /\ UNCHANGED <<pieceLimit, offset, collection>>
  <2>1. Current.chunk > 0
      BY <1>0, Zenon DEF Control, Current
  <2>2. /\ logical' \in Nat /\ logical' <= offset /\ offset < logical' + Current.chunk
        /\ offset < Current.len
      BY <1>0, <1>2, <2>1, SMTT(30)
  <2>3. /\ pc' = "write"
        /\ UNCHANGED <<plan, environment, index, inflight, progress, result, device, pieceLimit,
                       offset, buf, reads>>
      BY <1>2 DEF Goto, collection
  <2>4. TypeOK'
      BY <1>0, <2>2, <2>3, Zenon DEF TypeOK, Labels, environment
  <2>5. Control'
      BY <1>0, <2>2, <2>3, Zenon DEF Control, IsWrite, Current
  <2> QED BY <1>0, <2>3, <2>4, <2>5, MoveStep, Zenon
<1> QED BY <1>1, <1>2 DEF Paced

-----------------------------------------------------------------------------
(* Responses. *)

\* Appending a chunk to the response collected so far gives a response.
LEMMA ExtendFrame ==
    ASSUME NEW b \in Frame, b.mark <= b.len, NEW c \in Chunks
    PROVE  Extend(b, c) \in Frame /\ Extend(b, c).mark <= Extend(b, c).len
<1>1. c \in Frame /\ c.mark <= c.len
    BY ConstantsAssumption
<1> QED BY <1>1 DEF Frame, Extend

\* Collecting keeps the invariant whichever way the collection goes on.
LEMMA CollectingStep ==
    ASSUME IInv, pc \in {"collect", "multipart"}, pc' = pc,
           buf' \in Frame, buf'.mark <= buf'.len, reads' \in Nat,
           UNCHANGED <<plan, environment, index, inflight, progress, result, device, raster>>
    PROVE  IInv'
<1>1. TypeOK'
    BY Zenon DEF IInv, TypeOK, environment, raster
<1>2. Control'
    BY Zenon DEF IInv, Control, raster, IsWrite, Current
<1> QED BY <1>1, <1>2, MoveStep, NothingInFlight, Zenon DEF raster

\* A response that is retained, or refused by its validator.
LEMMA RespondStep ==
    ASSUME IInv, pc \in {"collect", "multipart"}, NEW STATE b, b \in Frame, Respond(b)
    PROVE  IInv'
<1>0. /\ inflight = NoWrite /\ index <= Len(plan) /\ ~IsWrite(Current)
      /\ progress \in ProgressType /\ index \in Nat
    BY NothingInFlight, Zenon DEF IInv, Control, TypeOK, ProgressType
<1>1. CASE Finish("Response")
    BY <1>0, <1>1, FinishStep DEF Results
<1>2. CASE /\ Complete([progress EXCEPT !.responses = @ + 1, !.retained = @ + b.len])
           /\ UNCHANGED inflight
  <2>1. b.len \in Nat /\ progress.responses + 1 \in Nat /\ progress.retained + b.len \in Nat
      BY <1>0 DEF Frame, ProgressType
  <2>2. /\ progress' \in ProgressType /\ progress'.last = index
        /\ progress'.bytes = progress.bytes /\ progress'.potential = progress.potential
      BY <1>0, <1>2, <2>1, Zenon DEF Complete, ProgressType
  <2> QED BY <1>0, <1>2, <2>2, CompleteNonWrite DEF Complete
<1> QED BY <1>1, <1>2 DEF Respond

\* A chunk of a response keeps the invariant.
LEMMA ReadStep ==
    ASSUME IInv, NEW c \in Chunks, ReadChunk(c) \/ MultipartChunk(c)
    PROVE  IInv'
<1>0. /\ pc \in {"collect", "multipart"} /\ inflight = NoWrite
      /\ buf \in Frame /\ buf.mark <= buf.len /\ reads \in Nat
    BY NothingInFlight, Zenon DEF ReadChunk, MultipartChunk, IInv, TypeOK, Control
<1>1. Extend(buf, c) \in Frame /\ Extend(buf, c).mark <= Extend(buf, c).len
    BY <1>0, ExtendFrame
<1>2. CASE Finish("Response")
    BY <1>0, <1>2, FinishStep DEF Results
<1>3. CASE Finish("Timeout")
    BY <1>0, <1>3, FinishStep DEF Results
<1>4. CASE /\ buf' = Extend(buf, c) /\ reads' = reads + 1 /\ UNCHANGED raster
           /\ (pc = "collect" /\ Goto("collect")) \/ (pc = "multipart" /\ Goto("multipart"))
  <2>1. reads' \in Nat
      BY <1>0, <1>4
  <2> QED BY <1>0, <1>1, <1>4, <2>1, CollectingStep, Zenon DEF Goto
<1>5. CASE Respond(buf)
    BY <1>0, <1>5, RespondStep
<1>6. CASE Respond(IF Current.validation = "Phomemo" THEN FromMark(Extend(buf, c)) ELSE Extend(buf, c))
  <2> DEFINE b == IF Current.validation = "Phomemo" THEN FromMark(Extend(buf, c)) ELSE Extend(buf, c)
  <2>1. FromMark(Extend(buf, c)) \in Frame
      BY <1>1 DEF FromMark, Frame
  <2>2. b \in Frame
      BY <1>1, <2>1
  <2>3. Respond(b)
      BY <1>6
  <2> HIDE DEF b
  <2> QED BY <1>0, <2>2, <2>3, RespondStep
<1>8. CASE ReadChunk(c)
    BY <1>2, <1>4, <1>6, <1>8, Zenon DEF ReadChunk
<1>9. CASE MultipartChunk(c)
    BY <1>2, <1>3, <1>4, <1>5, <1>9, Zenon DEF MultipartChunk, Collected
<1> QED BY <1>8, <1>9

\* The end of a collection, by timeout, error or its read limit, keeps the invariant.
LEMMA ReadingEndsStep ==
    IInv /\ (ReadsEnd \/ ReadFailed \/ MultipartEnd \/ MultipartExhausted) => IInv'
<1> SUFFICES ASSUME IInv, ReadsEnd \/ ReadFailed \/ MultipartEnd \/ MultipartExhausted
             PROVE  IInv'
    OBVIOUS
<1>0. /\ pc \in {"collect", "multipart"} /\ inflight = NoWrite /\ buf \in Frame
      /\ index <= Len(plan) /\ ~IsWrite(Current)
    BY NothingInFlight, Zenon DEF ReadsEnd, ReadFailed, MultipartEnd, MultipartExhausted, IInv,
        TypeOK, Control
<1>1. CASE Respond(buf)
    BY <1>0, <1>1, RespondStep
<1>2. CASE Finish("Response") \/ Finish("Timeout") \/ Finish("Cancelled") \/ Finish("Transport")
    BY <1>0, <1>2, FinishStep, Zenon DEF Results
<1>3. CASE NoResponse
  <2>1. CASE Goto("fallback") /\ UNCHANGED <<raster, collection>>
    <3>1. TypeOK'
        BY <2>1, Zenon DEF IInv, TypeOK, Goto, Labels, environment, raster, collection
    <3>2. Control'
        BY <1>0, <2>1, Zenon DEF IInv, Control, Goto, raster, collection, IsWrite, Current
    <3> QED BY <1>0, <2>1, <3>1, <3>2, MoveStep, Zenon DEF Goto, raster
  <2>2. CASE Complete(progress) /\ UNCHANGED inflight
      BY <1>0, <2>2, CompleteQuietly
  <2> QED BY <1>2, <1>3, <2>1, <2>2, Zenon DEF NoResponse
<1> QED BY <1>1, <1>2, <1>3, Zenon
    DEF ReadsEnd, ReadFailed, NonWriteError, MultipartEnd, MultipartExhausted, Collected

\* Cancellation and a renegotiated limit keep the invariant.
LEMMA EnvironmentStep == IInv /\ (RequestCancel \/ Renegotiate \/ UNCHANGED vars) => IInv'
<1> SUFFICES ASSUME IInv, RequestCancel \/ Renegotiate \/ UNCHANGED vars
             PROVE  IInv'
    OBVIOUS
<1>1. UNCHANGED <<plan, commandLimit, pc, index, pieceLimit, logical, offset, inflight, buf, reads,
                  progress, result, device>>
    BY DEF RequestCancel, Renegotiate, vars, raster, collection
<1>2. TypeOK'
  <2>1. cancelRequested' \in BOOLEAN
      BY Zenon DEF RequestCancel, Renegotiate, vars, IInv, TypeOK
  <2>2. payloadLimit' \in Limits
      BY DEF RequestCancel, Renegotiate, vars, IInv, TypeOK
  <2>3. changedAt' \in Nat
    <3>1. changedAt \in Nat /\ index \in Nat
        BY DEF IInv, TypeOK
    <3> QED BY <3>1, Zenon DEF RequestCancel, Renegotiate, vars
  <2> QED BY <1>1, <2>1, <2>2, <2>3, Zenon DEF IInv, TypeOK
<1>3. Control'
    BY <1>1, Zenon DEF IInv, Control, IsWrite, Current
<1>4. InFlight'
    BY <1>1, Zenon DEF IInv, InFlight, IsWrite, Current
<1>5. Frontier' /\ Ordered'
    BY <1>1, QuietStep DEF IInv, Reach
<1>6. Counted'
    BY <1>1 DEF IInv, Counted, Reach
<1> QED BY <1>2, <1>3, <1>4, <1>5, <1>6 DEF IInv

-----------------------------------------------------------------------------
(* The theorems. *)

\* Every step keeps the invariant.
LEMMA NextIInv == IInv /\ [Next]_vars => IInv'
<1> SUFFICES ASSUME IInv, [Next]_vars PROVE IInv'
    OBVIOUS
<1>1. CASE Local
    BY <1>1, PreflightStep, BeginStep, StartPieceStep, ReadingEndsStep DEF Local
<1>2. CASE LoseRace
    BY <1>2, EffectStep, WriteEndsStep DEF LoseRace
<1>3. CASE Timer
    BY <1>3, EffectStep, PacedStep, ReadingEndsStep DEF Timer
<1>4. CASE Answer
    BY <1>4, EffectStep, WriteOkStep, WriteEndsStep, ReadingEndsStep, ReadStep DEF Answer
<1>5. CASE Accept
    BY <1>5, AcceptStep
<1>6. CASE RequestCancel \/ Renegotiate \/ UNCHANGED vars
    BY <1>6, EnvironmentStep
<1> QED BY <1>1, <1>2, <1>3, <1>4, <1>5, <1>6 DEF Next

\* The inductive invariant holds in every execution of every plan: the types,
\* the position in the loops, and what the transport has taken.
THEOREM ExecutorInvariant == Spec => []IInv
BY InitIInv, NextIInv, PTL DEF Spec

\* The frontier and the order of the bytes taken make them a prefix of the plan's.
LEMMA PrefixFromIInv == IInv => DeliveredIsPrefix
<1> SUFFICES ASSUME IInv PROVE DeliveredIsPrefix
    OBVIOUS
<1>1. \A k \in 1..Len(device) : InPlan(device[k][1], device[k][2])
    BY Zenon DEF IInv, Frontier
<1>2. ASSUME NEW k \in 1..Len(device), NEW i \in 1..Len(plan), NEW q \in 1..plan[i].len,
             IsWrite(plan[i]), Job!Before(<<i, q>>, device[k])
      PROVE  Delivered(i, q)
  <2>1. device[k][1] < index \/ (device[k][1] = index /\ device[k][2] <= Reach)
      BY Zenon DEF IInv, Frontier
  <2>2. /\ device[k][1] \in Nat /\ device[k][2] \in Nat /\ index \in Nat /\ Reach \in Nat
        /\ plan[i].len \in Nat
      BY CurrentAction, DeviceBytes, Zenon DEF IInv
  <2>3. i < device[k][1] \/ (i = device[k][1] /\ q < device[k][2])
      BY <1>2, Zenon DEF Job!Before
  <2>4. i < index \/ (i = index /\ q <= Reach)
      BY <2>1, <2>2, <2>3, SMTT(30)
  <2> QED BY <1>2, <2>4, Zenon DEF IInv, Frontier
<1> QED BY <1>1, <1>2, Zenon DEF DeliveredIsPrefix, IInv, Ordered

\* Whatever the plan, the transport's limits and the moment of a failure or a
\* cancellation, the printer only ever has a prefix of the plan's bytes.
THEOREM DeliveryIsPrefix == Spec => []DeliveredIsPrefix
BY ExecutorInvariant, PrefixFromIInv, PTL

\* The counts of the invariant bound what progress claims and hides.
LEMMA ConfirmedFromIInv == IInv => ConfirmedWasDelivered
<1> SUFFICES ASSUME IInv PROVE ConfirmedWasDelivered
    OBVIOUS
<1>1. /\ offset \in Nat /\ progress.bytes \in Nat /\ inflight.next \in Nat /\ inflight.to \in Nat
      /\ Len(device) = progress.bytes + (Reach - offset)
      /\ ~progress.potential => device = <<>>
    BY DEF IInv, TypeOK, Counted
<1>2. CASE inflight = NoWrite
    BY <1>1, <1>2 DEF ConfirmedWasDelivered, Reach
<1>3. CASE inflight # NoWrite
  <2>1. offset <= inflight.next /\ inflight.next <= inflight.to
      BY <1>3, Zenon DEF IInv, InFlight
  <2> QED BY <1>1, <1>3, <2>1 DEF ConfirmedWasDelivered, Reach
<1> QED BY <1>2, <1>3

\* Progress never confirms a byte the transport did not take, and hides at most
\* the piece of the pending or abandoned write.
THEOREM ProgressIsSound == Spec => []ConfirmedWasDelivered
BY ExecutorInvariant, ConfirmedFromIInv, PTL

\* last_completed_action is the action before the frontier.
LEMMA LocatesFromIInv == IInv => LastCompletedLocates
<1> SUFFICES ASSUME IInv PROVE LastCompletedLocates
    OBVIOUS
<1>1. progress.last = index - 1 /\ index \in Nat \ {0} /\ index <= Len(plan) + 1 /\ Len(plan) \in Nat
    BY CurrentAction, Zenon DEF IInv, TypeOK, Control
<1>2. \A i \in 1..progress.last : i \in 1..Len(plan) /\ i < index
    BY <1>1
<1>3. ASSUME NEW k \in 1..Len(device)
      PROVE  device[k][1] <= progress.last + 1
  <2>1. device[k][1] < index \/ device[k][1] = index
      BY Zenon DEF IInv, Frontier
  <2>2. device[k][1] \in Nat
      BY DeviceBytes, Zenon DEF IInv
  <2> QED BY <1>1, <2>1, <2>2, SMTT(30)
<1>4. ASSUME NEW i \in 1..progress.last, NEW q \in 1..plan[i].len, IsWrite(plan[i])
      PROVE  Delivered(i, q)
    BY <1>2, <1>4, Zenon DEF IInv, Frontier
<1> QED BY <1>3, <1>4, Zenon DEF LastCompletedLocates

\* last_completed_action tells where in the plan the printer is.
THEOREM LastCompletedIsExact == Spec => []LastCompletedLocates
BY ExecutorInvariant, LocatesFromIInv, PTL

-----------------------------------------------------------------------------
(* Refinement of PrintJob. *)

\* The bytes of the abstract job are those the plan writes.
LEMMA JobBytesInPlan == \A b : b \in JobBytes <=> \E i, q : b = <<i, q>> /\ InPlan(i, q)
BY SMTT(30) DEF JobBytes, InPlan

\* An execution begins as a job does.
LEMMA JobStart == Init => Job!Start
<1> SUFFICES ASSUME Init PROVE Job!Start
    OBVIOUS
<1>1. PendingBytes = {}
  <2>1. (inflight.next + 1)..inflight.to = {}
      BY DEF Init, NoWrite
  <2> QED BY <2>1 DEF PendingBytes
<1>2. JobResult = "Running"
    BY DEF Init, JobResult
<1> QED BY <1>1, <1>2, Zenon DEF Init, NoProgress, Job!Start

\* Without a write in flight nothing is pending and the count is exact.
LEMMA QuietIsExact ==
    ASSUME IInv, inflight = NoWrite
    PROVE  PendingBytes = {} /\ progress.bytes = Len(device)
<1>1. (inflight.next + 1)..inflight.to = {}
    BY DEF NoWrite
<1>2. PendingBytes = {}
    BY <1>1 DEF PendingBytes
<1> QED BY <1>2 DEF IInv, TypeOK, Counted, Reach

\* The bytes not yet taken lie beyond the frontier.
LEMMA RemainingBytes ==
    ASSUME IInv, inflight = NoWrite
    PROVE  \A b : b \in Job!Remaining <=>
              \E i, q : b = <<i, q>> /\ InPlan(i, q) /\ ~(i < index \/ (i = index /\ q <= offset))
<1>0. Reach = offset
    BY DEF Reach
<1>1. ASSUME NEW i, NEW q, InPlan(i, q)
      PROVE  Delivered(i, q) <=> (i < index \/ (i = index /\ q <= offset))
  <2>1. ASSUME Delivered(i, q) PROVE i < index \/ (i = index /\ q <= offset)
    <3>1. PICK k \in 1..Len(device) : device[k] = <<i, q>>
        BY <2>1, Zenon DEF Delivered
    <3>2. device[k][1] = i /\ device[k][2] = q
        BY <3>1
    <3> QED BY <1>0, <3>2, Zenon DEF IInv, Frontier
  <2>2. ASSUME i < index \/ (i = index /\ q <= offset) PROVE Delivered(i, q)
      BY <1>0, <1>1, <2>2, Zenon DEF IInv, Frontier, InPlan
  <2> QED BY <2>1, <2>2
<1>2. \A b : b \in Job!Remaining <=> b \in JobBytes /\ \A k \in 1..Len(device) : device[k] # b
    BY DEF Job!Remaining
<1>3. \A i, q : (\A k \in 1..Len(device) : device[k] # <<i, q>>) <=> ~Delivered(i, q)
    BY DEF Delivered
<1>4. TAKE b
<1>5. ASSUME b \in Job!Remaining
      PROVE  \E i, q : b = <<i, q>> /\ InPlan(i, q) /\ ~(i < index \/ (i = index /\ q <= offset))
  <2>1. PICK i, q : b = <<i, q>> /\ InPlan(i, q)
      BY <1>2, <1>5, JobBytesInPlan, Zenon
  <2>2. ~Delivered(i, q)
      BY <1>2, <1>3, <1>5, <2>1, Zenon
  <2>3. ~(i < index \/ (i = index /\ q <= offset))
      BY <1>1, <2>1, <2>2, Zenon
  <2> QED BY <2>1, <2>3, Zenon
<1>6. ASSUME NEW i, NEW q, b = <<i, q>>, InPlan(i, q), ~(i < index \/ (i = index /\ q <= offset))
      PROVE  b \in Job!Remaining
  <2>1. ~Delivered(i, q)
      BY <1>1, <1>6, Zenon
  <2>2. b \in JobBytes
      BY <1>6, JobBytesInPlan, Zenon
  <2> QED BY <1>2, <1>3, <1>6, <2>1, <2>2, Zenon
<1> QED BY <1>5, <1>6, Zenon

\* Ending with a result that the invariant justifies is an End step.
LEMMA FinishIsEnd ==
    ASSUME IInv, pc # "done", NEW r \in Results \ {"Running"}, Finish(r),
           r = "Completed" => index = Len(plan) + 1,
           inflight # NoWrite => r = "WriteOutcomeUnknown"
    PROVE  Job!Step
<1>1. /\ result = "Running" /\ result' = r
      /\ UNCHANGED <<plan, inflight, progress, device, cancelRequested>>
    BY Zenon DEF IInv, InFlight, Finish, environment
<1>2. JobResult = "Running" /\ UNCHANGED <<JobBytes, device, PendingBytes, progress.bytes, cancelRequested>>
    BY <1>1 DEF JobResult, JobBytes, IsWrite, PendingBytes
<1>3. CASE r = "WriteOutcomeUnknown"
  <2>1. JobResult' = "Unknown"
      BY <1>1, <1>3 DEF JobResult
  <2> QED BY <1>2, <2>1, Zenon DEF Job!Step, Job!End
<1>4. CASE r = "Completed"
  <2>1. JobResult' = "Completed"
      BY <1>1, <1>4 DEF JobResult
  <2>2. Job!Exact
      BY <1>4, QuietIsExact DEF Job!Exact
  <2>3. Job!Remaining = {}
    <3>1. ASSUME NEW i, NEW q, InPlan(i, q) PROVE i < index
        BY <1>4, <3>1, CurrentAction, SMTT(30) DEF InPlan, IInv
    <3>2. inflight = NoWrite
        BY <1>4
    <3> QED BY <3>1, <3>2, RemainingBytes
  <2> QED BY <1>2, <2>1, <2>2, <2>3, Zenon DEF Job!Step, Job!End
<1>5. CASE r \notin {"WriteOutcomeUnknown", "Completed"}
  <2>1. JobResult' = "Exact"
      BY <1>1, <1>5 DEF JobResult, Results
  <2>2. Job!Exact
      BY <1>5, QuietIsExact DEF Job!Exact
  <2> QED BY <1>2, <2>1, <2>2, Zenon DEF Job!Step, Job!End
<1> QED BY <1>3, <1>4, <1>5

\* A step that changes neither the plan, the write in flight, the count, the
\* bytes taken nor the result is a stuttering step of PrintJob.
LEMMA Stutters ==
    ASSUME UNCHANGED <<plan, inflight, progress.bytes, device, cancelRequested, result>>
    PROVE  UNCHANGED Job!jobVars
<1>1. JobBytes' = JobBytes
    BY DEF JobBytes, IsWrite
<1>2. PendingBytes' = PendingBytes
    BY DEF PendingBytes
<1>3. JobResult' = JobResult
    BY Zenon DEF JobResult
<1> QED BY <1>1, <1>2, <1>3 DEF Job!jobVars

\* Handing a piece to the transport offers it; an empty command offers nothing.
LEMMA StartPieceIsOffer ==
    ASSUME IInv, StartPiece
    PROVE  Job!Step \/ UNCHANGED Job!jobVars
<1>1. /\ inflight = NoWrite /\ result = "Running" /\ ~cancelRequested
      /\ UNCHANGED <<plan, device, cancelRequested, result>>
    BY DEF IInv, InFlight, StartPiece, environment
<1>2. pc = "write"
    BY DEF StartPiece
<1>3. /\ index \in 1..Len(plan) /\ IsWrite(plan[index]) /\ plan[index].len \in Nat
      /\ offset \in Nat /\ PieceEnd \in Nat
      /\ offset <= PieceEnd /\ PieceEnd <= plan[index].len
    BY <1>2, PieceBounds, Zenon DEF Current
<1>4. inflight' = [action |-> index, next |-> offset, to |-> PieceEnd]
    BY DEF StartPiece
<1>5. progress.bytes' = progress.bytes
    BY DEF StartPiece, IInv, TypeOK
<1>6. JobBytes' = JobBytes
    BY <1>1, Zenon DEF JobBytes, IsWrite
<1>7. JobResult' = JobResult /\ JobResult = "Running"
    BY <1>1 DEF JobResult
<1>8. PendingBytes = {} /\ progress.bytes = Len(device)
    BY <1>1, QuietIsExact
<1>9. PendingBytes' = {index} \X ((offset + 1)..PieceEnd)
    BY <1>4, Zenon DEF PendingBytes
<1>10. CASE offset = PieceEnd
  <2>1. (offset + 1)..PieceEnd = {}
      BY <1>3, <1>10
  <2>2. PendingBytes' = PendingBytes
      BY <1>8, <1>9, <2>1
  <2> QED BY <1>1, <1>5, <1>6, <1>7, <2>2, Zenon DEF Job!jobVars
<1>11. CASE offset # PieceEnd
  <2> DEFINE last == <<index, PieceEnd>>
  <2>1. \A i, q : <<i, q>> \in Job!Remaining <=>
            InPlan(i, q) /\ ~(i < index \/ (i = index /\ q <= offset))
      BY <1>1, RemainingBytes
  <2>2. last \in Job!Remaining
    <3>1. InPlan(index, PieceEnd)
        BY <1>3, <1>11 DEF InPlan
    <3>2. ~(PieceEnd <= offset) /\ ~(index < index)
        BY <1>3, <1>11
    <3> QED BY <2>1, <3>1, <3>2
  <2>3. \A b : b \in Job!Remaining => \E i, q : b = <<i, q>>
      BY <1>1, RemainingBytes
  <2>4. \A i, q : <<i, q>> \in PendingBytes' <=> i = index /\ q \in (offset + 1)..PieceEnd
      BY <1>9
  <2>5. \A b : b \in PendingBytes' => \E i, q : b = <<i, q>>
      BY <1>9
  <2>6. ASSUME NEW i, NEW q
        PROVE  <<i, q>> \in PendingBytes' <=>
                   <<i, q>> \in Job!Remaining /\ (<<i, q>> = last \/ Job!Before(<<i, q>>, last))
    <3>1. Job!Before(<<i, q>>, last) <=> i < index \/ (i = index /\ q < PieceEnd)
        BY DEF Job!Before
    <3>2. <<i, q>> = last <=> i = index /\ q = PieceEnd
        OBVIOUS
    <3>3. ASSUME i = index, q \in (offset + 1)..PieceEnd
          PROVE  InPlan(i, q) /\ ~(i < index \/ (i = index /\ q <= offset))
                 /\ (q = PieceEnd \/ q < PieceEnd)
      <4>1. q \in Nat /\ offset < q /\ q <= PieceEnd
          BY <1>3, <3>3
      <4>2. InPlan(index, q)
          BY <1>3, <4>1 DEF InPlan
      <4> QED BY <1>3, <3>3, <4>1, <4>2
    <3>4. ASSUME InPlan(i, q), ~(i < index \/ (i = index /\ q <= offset)),
                 (i = index /\ q = PieceEnd) \/ i < index \/ (i = index /\ q < PieceEnd)
          PROVE  i = index /\ q \in (offset + 1)..PieceEnd
        BY <1>3, <3>4 DEF InPlan
    <3> HIDE DEF last
    <3> QED BY <2>1, <2>4, <3>1, <3>2, <3>3, <3>4, Zenon
  <2> HIDE DEF last
  <2>7. PendingBytes' = {b \in Job!Remaining : b = last \/ Job!Before(b, last)}
    <3>1. ASSUME NEW b \in PendingBytes' PROVE b \in Job!Remaining /\ (b = last \/ Job!Before(b, last))
      <4>1. PICK i, q : b = <<i, q>>
          BY <2>5
      <4> QED BY <2>6, <3>1, <4>1
    <3>2. ASSUME NEW b \in Job!Remaining, b = last \/ Job!Before(b, last) PROVE b \in PendingBytes'
      <4>1. PICK i, q : b = <<i, q>>
          BY <2>3
      <4> QED BY <2>6, <3>2, <4>1
    <3> QED BY <3>1, <3>2, Zenon
  <2>8. Job!Offer
      BY <1>1, <1>5, <1>6, <1>7, <1>8, <2>2, <2>7, Zenon DEF Job!Offer
  <2> QED BY <2>8 DEF Job!Step
<1> QED BY <1>10, <1>11

\* The transport takes the least of the pending bytes.
LEMMA AcceptIsTake ==
    ASSUME IInv, Accept
    PROVE  Job!Step
<1> DEFINE b == <<inflight.action, inflight.next + 1>>
<1>1. /\ inflight \in [action : Nat, next : Nat, to : Nat] /\ inflight.next < inflight.to
      /\ inflight' = [inflight EXCEPT !.next = inflight.next + 1]
      /\ device' = Append(device, b)
      /\ UNCHANGED <<plan, progress, cancelRequested, result>>
    BY DEF IInv, TypeOK, Accept, environment
<1>2. JobBytes' = JobBytes
    BY <1>1 DEF JobBytes, IsWrite
<1>3. JobResult' = JobResult
    BY <1>1, Zenon DEF JobResult
<1>4. b \in PendingBytes
    BY <1>1 DEF PendingBytes
<1>5. \A c \in PendingBytes : c = b \/ Job!Before(b, c)
    BY <1>1 DEF PendingBytes, Job!Before
<1>6. inflight'.action = inflight.action /\ inflight'.next = inflight.next + 1
      /\ inflight'.to = inflight.to
    BY <1>1
<1>7. PendingBytes' = {inflight.action} \X ((inflight.next + 2)..inflight.to)
    BY <1>1, <1>6 DEF PendingBytes
<1>8. (inflight.next + 2)..inflight.to = ((inflight.next + 1)..inflight.to) \ {inflight.next + 1}
    BY <1>1
<1>9. PendingBytes' = PendingBytes \ {b}
    BY <1>7, <1>8 DEF PendingBytes
<1> HIDE DEF b
<1>10. Job!Take
    BY <1>1, <1>2, <1>3, <1>4, <1>5, <1>9, Zenon DEF Job!Take
<1> QED BY <1>10 DEF Job!Step

\* A step that PrintJob does not see, and one that returns a result.
Unseen == UNCHANGED <<plan, inflight, progress.bytes, device, cancelRequested, result>>

Returns == \E r \in Results \ {"Running"} :
               Finish(r) /\ (r = "Completed" => index = Len(plan) + 1)

\* Completing an action leaves the count of bytes alone.
LEMMA CompleteIsUnseen ==
    ASSUME IInv, Complete(progress), UNCHANGED inflight
    PROVE  Unseen
BY DEF Complete, Advance, Unseen, environment, IInv, TypeOK

\* A response is retained unseen, or ends the execution.
LEMMA RespondIsUnseen ==
    ASSUME IInv, NEW STATE b, Respond(b)
    PROVE  Unseen \/ Returns
<1>1. CASE Finish("Response")
    BY <1>1 DEF Returns, Results
<1>2. CASE /\ Complete([progress EXCEPT !.responses = progress.responses + 1,
                                        !.retained = progress.retained + b.len])
           /\ UNCHANGED inflight
  <2>1. progress'.bytes = progress.bytes
      BY <1>2 DEF Complete, IInv, TypeOK
  <2> QED BY <1>2, <2>1 DEF Complete, Advance, Unseen, environment
<1> QED BY <1>1, <1>2 DEF Respond

\* Outside a write every step of the executor is unseen or returns.
LEMMA OtherStepsAreUnseen ==
    ASSUME IInv,
           \/ Local /\ ~StartPiece
           \/ RaceCancelled \/ Timer
           \/ Subscribed \/ SubscribeFailed \/ ReadFailed
           \/ \E c \in Chunks : ReadChunk(c) \/ MultipartChunk(c)
    PROVE  Unseen \/ Returns
<1>1. ASSUME NEW label, Goto(label) PROVE Unseen
    BY <1>1 DEF Goto, Unseen, environment
<1>2. ASSUME NEW r \in Results \ {"Running", "Completed"}, Finish(r) PROVE Returns
    BY <1>2 DEF Returns
<1>3. ASSUME Complete(progress), UNCHANGED inflight PROVE Unseen
    BY <1>3, CompleteIsUnseen
<1>4. CASE Preflight
  <2>1. PreflightError(plan, payloadLimit, commandLimit) \in Results \ {"Running", "Completed"}
      BY DEF PreflightError, Results
  <2> QED BY <1>2, <1>4, <2>1, Zenon DEF Preflight, Unseen, environment
<1>5. CASE CheckCancelled \/ RaceCancelled
    BY <1>2, <1>5 DEF CheckCancelled, RaceCancelled, Results
<1>6. CASE JobBoundary \/ Subscribed \/ DelayDone
    BY <1>3, <1>6 DEF JobBoundary, Subscribed, DelayDone
<1>7. CASE BeginSubscribe \/ BeginDelay \/ BeginCommand \/ BeginWait \/ BeginCollect
    BY <1>1, <1>7 DEF BeginSubscribe, BeginDelay, BeginCommand, BeginWait, BeginCollect
<1>8. CASE BeginRaster
    BY <1>1, <1>2, <1>3, <1>8, Zenon DEF BeginRaster, Results
<1>9. CASE Return
  <2>1. index = Len(plan) + 1
      BY <1>9, CurrentAction, SMTT(30) DEF Return, IInv, TypeOK, Control
  <2> QED BY <1>9, <2>1 DEF Return, Returns, Results
<1>10. CASE SubscribeFailed \/ ReadFailed
    BY <1>2, <1>10 DEF SubscribeFailed, ReadFailed, NonWriteError, Results
<1>11. CASE Paced
    BY <1>1, <1>3, <1>11, Zenon DEF Paced
<1>12. CASE ReadsEnd \/ MultipartEnd \/ MultipartExhausted
  <2>1. CASE NoResponse
      BY <1>1, <1>2, <1>3, <2>1, Zenon DEF NoResponse, Results
  <2>2. CASE Respond(buf)
      BY <2>2, RespondIsUnseen
  <2>3. CASE Finish("Response") \/ Finish("Timeout")
      BY <1>2, <2>3 DEF Results
  <2> QED BY <1>12, <2>1, <2>2, <2>3, Zenon DEF ReadsEnd, MultipartEnd, MultipartExhausted, Collected
<1>13. ASSUME NEW c \in Chunks, ReadChunk(c) \/ MultipartChunk(c) PROVE Unseen \/ Returns
  <2> DEFINE b == IF Current.validation = "Phomemo" THEN FromMark(Extend(buf, c)) ELSE Extend(buf, c)
  <2>1. CASE Respond(b)
    <3> HIDE DEF b
    <3> QED BY <2>1, RespondIsUnseen
  <2>2. CASE Respond(buf)
      BY <2>2, RespondIsUnseen
  <2>3. CASE Finish("Response") \/ Finish("Timeout")
      BY <1>2, <2>3 DEF Results
  <2>4. CASE Goto("collect") \/ Goto("multipart")
      BY <1>1, <2>4
  <2> QED BY <1>13, <2>1, <2>2, <2>3, <2>4, Zenon DEF ReadChunk, MultipartChunk, Collected
<1> QED BY <1>4, <1>5, <1>6, <1>7, <1>8, <1>9, <1>10, <1>11, <1>12, <1>13, Zenon DEF Local, Timer

\* A write that resolves Ok confirms exactly what the transport took.
LEMMA WriteOkIsConfirm ==
    ASSUME IInv, WriteOk
    PROVE  Job!Step
<1>1. /\ pc = "writing" /\ inflight # NoWrite /\ inflight.next = inflight.to /\ inflight' = NoWrite
      /\ inflight \in [action : Nat, next : Nat, to : Nat] /\ result = "Running"
      /\ offset \in Nat /\ progress.bytes \in Nat /\ Len(device) \in Nat
      /\ UNCHANGED <<plan, device, cancelRequested, result>>
    BY DEF WriteOk, IInv, TypeOK, InFlight, Complete, Advance, environment
<1>2. Len(device) = progress.bytes + (inflight.to - offset)
    BY <1>1, Zenon DEF IInv, Counted, Reach
<1>3. progress'.bytes = progress.bytes + (inflight.to - offset)
    BY Zenon DEF WriteOk, Complete, IInv, TypeOK
<1>4. PendingBytes = {} /\ PendingBytes' = {}
  <2>1. (inflight.next + 1)..inflight.to = {}
      BY <1>1
  <2>2. (inflight'.next + 1)..inflight'.to = {}
      BY <1>1 DEF NoWrite
  <2> QED BY <2>1, <2>2 DEF PendingBytes
<1>5. JobBytes' = JobBytes
    BY <1>1, Zenon DEF JobBytes, IsWrite
<1>6. JobResult = "Running" /\ JobResult' = JobResult
    BY <1>1 DEF JobResult
<1>7. Job!Confirm
    BY <1>1, <1>2, <1>3, <1>4, <1>5, <1>6, Zenon DEF Job!Confirm
<1> QED BY <1>7 DEF Job!Step

\* Every step of the execution is a step of PrintJob or leaves it alone.
LEMMA StepRefines ==
    ASSUME IInv, [Next]_vars
    PROVE  [Job!Step]_(Job!jobVars)
<1>1. ASSUME Unseen PROVE UNCHANGED Job!jobVars
    BY <1>1, Stutters DEF Unseen
<1>2. CASE \/ Local /\ ~StartPiece
           \/ RaceCancelled \/ Timer
           \/ Subscribed \/ SubscribeFailed \/ ReadFailed
           \/ \E c \in Chunks : ReadChunk(c) \/ MultipartChunk(c)
  <2>1. pc \notin {"writing", "done"}
      BY <1>2, Zenon DEF Local, Preflight, CheckCancelled, JobBoundary, BeginSubscribe, BeginDelay,
         BeginCommand, BeginRaster, BeginWait, BeginCollect, Return, AtAction, MultipartExhausted,
         RaceCancelled, Timer, DelayDone, Paced, ReadsEnd, MultipartEnd, Subscribed,
         SubscribeFailed, ReadFailed, ReadChunk, MultipartChunk
  <2>2. inflight = NoWrite
      BY <2>1, NothingInFlight
  <2>3. CASE Returns
    <3>1. PICK r \in Results \ {"Running"} : Finish(r) /\ (r = "Completed" => index = Len(plan) + 1)
        BY <2>3 DEF Returns
    <3> QED BY <2>1, <2>2, <3>1, FinishIsEnd
  <2> QED BY <1>1, <1>2, <2>3, OtherStepsAreUnseen
<1>3. CASE StartPiece
    BY <1>3, StartPieceIsOffer
<1>4. CASE WriteFailed \/ WriteCancelled
  <2>1. pc # "done" /\ Finish("WriteOutcomeUnknown")
      BY <1>4 DEF WriteFailed, WriteCancelled
  <2> QED BY <2>1, FinishIsEnd DEF Results
<1>5. CASE WriteOk
    BY <1>5, WriteOkIsConfirm
<1>6. CASE Accept
    BY <1>6, AcceptIsTake
<1>7. CASE RequestCancel
  <2>1. cancelRequested' = TRUE /\ UNCHANGED <<plan, inflight, progress, device, result>>
      BY <1>7 DEF RequestCancel
  <2>2. JobBytes' = JobBytes /\ PendingBytes' = PendingBytes
      BY <2>1, Zenon DEF JobBytes, IsWrite, PendingBytes
  <2>3. JobResult' = JobResult
      BY <2>1, Zenon DEF JobResult
  <2> QED BY <2>1, <2>2, <2>3 DEF Job!Step, Job!Cancel
<1>8. CASE Renegotiate \/ UNCHANGED vars
    BY <1>1, <1>8, Zenon DEF Renegotiate, vars, Unseen
<1> QED BY <1>2, <1>3, <1>4, <1>5, <1>6, <1>7, <1>8, Zenon DEF Next, LoseRace, Answer, Local

\* The executor implements PrintJob for every plan: bytes are handed over in
\* order and at most once, no piece after cancellation or the result, and a
\* result other than an unknown write outcome is exact.
THEOREM ExecutorRefinesPrintJob == Spec => KeepsJobPromises
<1>1. Spec => [][Job!Step]_(Job!jobVars)
    BY ExecutorInvariant, StepRefines, PTL DEF Spec
<1>2. Spec => Job!Start
    BY JobStart DEF Spec
<1> QED BY <1>1, <1>2 DEF KeepsJobPromises, Job!JobSpec

-----------------------------------------------------------------------------
(* The limits                                                               *)
(*                                                                         *)
(* A logical chunk starts at a multiple of its size, so a piece that ends  *)
(* within it lies in one chunk.  A response is retained under one of two   *)
(* limits: that of the executor for what is kept altogether, or the one    *)
(* its collection action declared, whose sum preflight bounded.            *)

\* What action a adds to the total that a plan may retain.
Adds(a) == IF a.kind = "CollectResponse" THEN a.max ELSE 0

\* The total declared is the sum that preflight keeps while it goes through the plan.
LEMMA DeclaredFacts ==
    ASSUME NEW p \in Seq(Action)
    PROVE  /\ Declared(p, 0) = 0
           /\ \A i \in 0..Len(p) : Declared(p, i) \in Nat
           /\ \A i \in 1..Len(p) : Adds(p[i]) \in Nat /\ Declared(p, i) = Declared(p, i - 1) + Adds(p[i])
<1> DEFINE n == Len(p)
           step == [q \in Nat \X (1..n) |-> q[1] + Adds(p[q[2]])]
           body(g) == [k \in 0..n |-> IF k = 0 THEN 0
                                      ELSE IF p[k].kind = "CollectResponse" THEN g[k - 1] + p[k].max
                                      ELSE g[k - 1]]
           f == CHOOSE f : f = body(f)
<1>0. n \in Nat /\ \A i \in 1..n : p[i].max \in Nat /\ Adds(p[i]) \in Nat
  <2>1. n \in Nat /\ \A i \in 1..n : p[i] \in Action
      OBVIOUS
  <2>2. \A a \in Action : a.max \in Nat
      BY DEF Action
  <2> QED
      BY <2>1, <2>2 DEF Adds
<1>1. step \in [Nat \X (1..n) -> Nat]
    BY <1>0
<1>2. \A q \in Nat, i \in 1..n : step[<<q, i>>] = q + Adds(p[i])
    OBVIOUS
<1>3. \A i : Declared(p, i) = f[i]
    BY DEF Declared
<1> HIDE DEF n, step
<1>4. PICK g : Iterates(g, Nat, 0, n, step)
    BY <1>0, <1>1, RecursionExists, Zenon
<1>5. g \in [0..n -> Nat] /\ g[0] = 0 /\ \A i \in 1..n : g[i] = step[<<g[i - 1], i>>]
    BY <1>4 DEF Iterates
<1>6. \A i \in 1..n : i - 1 \in 0..n /\ i \in 0..n /\ i # 0
    BY <1>0
<1>7. \A i \in 1..n : g[i] = g[i - 1] + Adds(p[i])
    BY <1>2, <1>5, <1>6, Zenon
<1>8. g = body(g)
  <2>1. \A i \in 1..n : g[i] = IF p[i].kind = "CollectResponse" THEN g[i - 1] + p[i].max
                               ELSE g[i - 1]
    <3> TAKE i \in 1..n
    <3>1. g[i] = g[i - 1] + Adds(p[i]) /\ g[i - 1] \in Nat
        BY <1>5, <1>6, <1>7, Zenon
    <3>2. CASE p[i].kind = "CollectResponse"
        BY <3>1, <3>2, Zenon DEF Adds
    <3>3. CASE p[i].kind # "CollectResponse"
      <4>1. Adds(p[i]) = 0
          BY <3>3, Zenon DEF Adds
      <4>2. g[i - 1] + 0 = g[i - 1]
          BY <3>1
      <4> QED
          BY <3>1, <3>3, <4>1, <4>2, Zenon
    <3> QED
        BY <3>2, <3>3, Zenon
  <2>2. \A i \in 0..n : i = 0 \/ i \in 1..n
      BY <1>0
  <2>3. \A i \in 0..n : g[i] = body(g)[i]
      BY <1>5, <2>1, <2>2, Zenon
  <2> QED
      BY <1>5, <2>3, Zenon
<1>9. f = body(f)
    BY <1>8, Zenon
<1> HIDE DEF f
<1>10. \A i \in 0..n : f[i] = IF i = 0 THEN 0
                              ELSE IF p[i].kind = "CollectResponse" THEN f[i - 1] + p[i].max
                              ELSE f[i - 1]
    BY <1>9, Zenon
<1>11. \A i \in 0..n : f[i] = g[i]
  <2> DEFINE T == {i \in 0..n : f[i] = g[i]}
  <2>1. 0 \in T
    <3>1. 0 \in 0..n
        BY <1>0
    <3> QED
        BY <1>5, <1>10, <3>1, Zenon
  <2>2. ASSUME NEW i \in 1..n, i - 1 \in T PROVE i \in T
    <3>1. i # 0 /\ i \in 0..n /\ i - 1 \in 0..n /\ f[i - 1] = g[i - 1]
        BY <1>6, <2>2, Zenon
    <3>2. g[i] = g[i - 1] + Adds(p[i]) /\ g[i - 1] \in Nat
        BY <1>5, <1>7, <3>1, Zenon
    <3>3. f[i] = IF p[i].kind = "CollectResponse" THEN f[i - 1] + p[i].max ELSE f[i - 1]
        BY <1>10, <3>1, Zenon
    <3>4. f[i] = g[i]
        BY <3>1, <3>2, <3>3 DEF Adds
    <3> QED
        BY <3>1, <3>4, Zenon
  <2> HIDE DEF T
  <2>3. \A i \in 0..n : i \in T
      BY <1>0, <2>1, <2>2, UpTo, Zenon
  <2> QED
      BY <2>3, Zenon DEF T
<1>12. 0 \in 0..n
    BY <1>0
<1>13. Declared(p, 0) = 0
    BY <1>3, <1>5, <1>11, <1>12, Zenon
<1>14. \A i \in 0..n : Declared(p, i) = g[i] /\ g[i] \in Nat
    BY <1>3, <1>5, <1>11, Zenon
<1>15. \A i \in 1..n : Declared(p, i) = Declared(p, i - 1) + Adds(p[i])
    BY <1>6, <1>7, <1>14, Zenon
<1> QED
    BY <1>0, <1>13, <1>14, <1>15, Zenon DEF n

\* A number less than one step of c past m steps is in step m.
LEMMA InStep ==
    ASSUME NEW c \in Nat \ {0}, NEW m \in Nat, NEW x \in Nat, m * c <= x, x < m * c + c
    PROVE  x \div c = m
<1> DEFINE q == x \div c
<1>1. q \in Int /\ c * q <= x /\ x < c * q + c
    OBVIOUS
<1> HIDE DEF q
<1>2. CASE q < m
  <2>1. c * (q + 1) <= c * m
      BY <1>1, <1>2
  <2>2. c * (q + 1) = c * q + c /\ c * m = m * c
      BY <1>1
  <2>3. c * q \in Int /\ m * c \in Int
      BY <1>1
  <2> QED
      BY <1>1, <2>1, <2>2, <2>3
<1>3. CASE m < q
  <2>1. c * (m + 1) <= c * q
      BY <1>1, <1>3
  <2>2. c * (m + 1) = m * c + c
      BY <1>1
  <2>3. c * q \in Int /\ m * c \in Int
      BY <1>1
  <2> QED
      BY <1>1, <2>1, <2>2, <2>3
<1> QED
    BY <1>1, <1>2, <1>3 DEF q

\* Preflight accepted the plan: no atomic command is longer than the limit it saw, and what
\* the plan may collect is within the limit at every action.
Passed ==
    /\ \A i \in 1..Len(plan) :
           plan[i].kind = "CommandWrite" /\ plan[i].atomic => plan[i].len <= commandLimit
    /\ \A i \in 0..Len(plan) : Declared(plan, i) <= MaxRetained

\* A logical chunk starts at a multiple of its size.
ChunkAligned == \E m \in Nat : logical = m * Current.chunk

\* The piece in flight, also when its write was abandoned.
PieceFits ==
    inflight # NoWrite =>
        /\ Current.kind = "CommandWrite" => offset = 0
        /\ Current.kind = "RasterWrite" =>
              inflight.to - offset <= pieceLimit /\ logical <= offset /\ ChunkAligned

\* What is kept, and what may become the next response.
KeptFits ==
    /\ progress.retained <= MaxRetained + Declared(plan, progress.last)
    /\ pc \in {"preflight", "action"} => buf.len = 0
    /\ pc = "collect" => buf.len = 0 \/ progress.retained + buf.len <= MaxRetained
    /\ pc = "multipart" => Current.kind = "CollectResponse" /\ buf.len <= Current.max

\* What WithinLimits needs beside the invariant of the deliveries.
LimitsInv ==
    /\ pc # "preflight" /\ result \notin {"InvalidPlan", "AtomicTooLarge"} => Passed
    /\ pc \in {"write", "writing", "pacing"} /\ Current.kind = "RasterWrite" => ChunkAligned
    /\ PieceFits
    /\ KeptFits

LEMMA LimitsInit == Init => LimitsInv
<1> SUFFICES ASSUME Init PROVE LimitsInv
    OBVIOUS
<1>1. plan \in Seq(Action) /\ MaxRetained \in Nat
    BY ConstantsAssumption DEF Init
<1>2. Declared(plan, 0) = 0
    BY <1>1, DeclaredFacts
<1> QED
    BY <1>1, <1>2, SMTT(30) DEF Init, LimitsInv, PieceFits, KeptFits, NoProgress, EmptyFrame

\* A plan that preflight accepts has passed.
LEMMA AcceptedPasses ==
    ASSUME TypeOK, Accepted(plan, payloadLimit, commandLimit)
    PROVE  Passed
<1>1. plan \in Seq(Action) /\ Len(plan) \in Nat
    BY CurrentAction, Zenon
<1>2. \A i \in 1..Len(plan) : ~Rejected(plan, i, commandLimit)
    BY DEF Accepted
<1>3. \A i \in 1..Len(plan) :
          plan[i].kind = "CommandWrite" /\ plan[i].atomic => plan[i].len <= commandLimit
  <2>1. ASSUME NEW i \in 1..Len(plan), plan[i].kind = "CommandWrite", plan[i].atomic
        PROVE  plan[i].len <= commandLimit
    <3>1. ~(plan[i].len > commandLimit)
        BY <1>2, <2>1, Zenon DEF Rejected
    <3>2. plan[i].len \in Nat /\ commandLimit \in Nat
        BY CurrentAction, ConstantsAssumption, Zenon DEF TypeOK
    <3> QED
        BY <3>1, <3>2
  <2> QED
      BY <2>1, Zenon
<1>4. \A i \in 0..Len(plan) : Declared(plan, i) <= MaxRetained
  <2> DEFINE T == {i \in 0..Len(plan) : Declared(plan, i) <= MaxRetained}
  <2>0. MaxRetained \in Nat
      BY ConstantsAssumption
  <2>1. 0 \in T
    <3>1. Declared(plan, 0) = 0
        BY <1>1, DeclaredFacts
    <3> QED
        BY <1>1, <2>0, <3>1
  <2>2. ASSUME NEW i \in 1..Len(plan), i - 1 \in T PROVE i \in T
    <3>1. /\ i \in 0..Len(plan) /\ i - 1 \in 0..Len(plan) /\ Declared(plan, i - 1) <= MaxRetained
        BY <1>1, <2>2
    <3>2. Declared(plan, i) \in Nat /\ Declared(plan, i - 1) \in Nat
          /\ Declared(plan, i) = Declared(plan, i - 1) + Adds(plan[i])
        BY <1>1, <3>1, DeclaredFacts, Zenon
    <3>3. CASE plan[i].kind = "CollectResponse"
      <4>1. ~(Declared(plan, i) > MaxRetained)
          BY <1>2, <3>3, Zenon DEF Rejected
      <4> QED
          BY <2>0, <3>1, <3>2, <4>1
    <3>4. CASE plan[i].kind # "CollectResponse"
        BY <3>1, <3>2, <3>4, SMTT(30) DEF Adds
    <3> QED
        BY <3>3, <3>4, Zenon
  <2> HIDE DEF T
  <2>3. \A i \in 0..Len(plan) : i \in T
      BY <1>1, <2>1, <2>2, UpTo, Zenon
  <2> QED
      BY <2>3 DEF T
<1> QED
    BY <1>3, <1>4, Zenon DEF Passed

\* Returning keeps what is known.
LEMMA LimitsFinish ==
    ASSUME IInv, LimitsInv, NEW r, Finish(r), pc # "done",
           pc = "preflight" => r \in {"InvalidPlan", "AtomicTooLarge"}
    PROVE  LimitsInv'
<1>1. /\ UNCHANGED <<plan, commandLimit, index, pieceLimit, logical, offset, inflight, buf, progress>>
      /\ pc' = "done" /\ result' = r
    BY DEF Finish, environment, raster, collection
<1>2. result = "Running"
    BY DEF IInv, InFlight
<1>3. r \notin {"InvalidPlan", "AtomicTooLarge"} => Passed'
    BY <1>1, <1>2, Zenon DEF LimitsInv, Passed
<1>4. PieceFits'
    BY <1>1, Zenon DEF LimitsInv, PieceFits, ChunkAligned, Current
<1>5. KeptFits'
    BY <1>1, Zenon DEF LimitsInv, KeptFits
<1> QED
    BY <1>1, <1>3, <1>4, <1>5, Zenon DEF LimitsInv

\* Completing an action, with what it retained.
LEMMA LimitsComplete ==
    ASSUME IInv, LimitsInv, Advance, inflight' = NoWrite, progress'.last = index,
           pc \notin {"preflight", "done"},
           progress'.retained <= MaxRetained + Declared(plan, index)
    PROVE  LimitsInv'
<1>1. /\ UNCHANGED <<plan, commandLimit, result>> /\ pc' = "action" /\ buf' = EmptyFrame
    BY DEF Advance, environment
<1>2. Passed => Passed'
    BY <1>1, Zenon DEF Passed
<1>3. PieceFits' /\ KeptFits'
    BY <1>1, Zenon DEF PieceFits, KeptFits, EmptyFrame
<1> QED
    BY <1>1, <1>2, <1>3, Zenon DEF LimitsInv

\* Completing an action that retains nothing.
LEMMA LimitsCompleteQuietly ==
    ASSUME IInv, LimitsInv, Advance, inflight' = NoWrite, progress'.last = index,
           pc \notin {"preflight", "done"}, index <= Len(plan),
           progress'.retained = progress.retained
    PROVE  LimitsInv'
<1>1. /\ plan \in Seq(Action) /\ Len(plan) \in Nat /\ index \in 1..Len(plan)
      /\ progress.last = index - 1 /\ progress.retained \in Nat /\ MaxRetained \in Nat
    BY CurrentAction, ConstantsAssumption, Zenon DEF IInv, TypeOK, Control
<1>2. index - 1 \in 0..Len(plan) /\ index \in 0..Len(plan)
    BY <1>1
<1>3. /\ Declared(plan, index) \in Nat /\ Declared(plan, index - 1) \in Nat
      /\ Adds(plan[index]) \in Nat /\ Declared(plan, index) = Declared(plan, index - 1) + Adds(plan[index])
    BY <1>1, <1>2, DeclaredFacts, Zenon
<1>4. progress.retained <= MaxRetained + Declared(plan, index - 1)
    BY <1>1, Zenon DEF LimitsInv, KeptFits
<1>5. progress.retained <= MaxRetained + Declared(plan, index)
    BY <1>1, <1>3, <1>4, SMTT(30)
<1> QED
    BY <1>5, LimitsComplete

\* Moving within the loops without a write in flight.
LEMMA LimitsMove ==
    ASSUME LimitsInv, UNCHANGED <<plan, commandLimit, index, progress, result, inflight>>,
           inflight = NoWrite, pc # "preflight", pc' \notin {"preflight", "action", "collect", "multipart"},
           pc' \in {"write", "writing", "pacing"} /\ Current.kind = "RasterWrite" => ChunkAligned'
    PROVE  LimitsInv'
<1>1. Passed => Passed'
    BY Zenon DEF Passed
<1>2. PieceFits' /\ KeptFits'
    BY Zenon DEF PieceFits, KeptFits, LimitsInv
<1> QED
    BY <1>1, <1>2, Zenon DEF LimitsInv, Current

LEMMA LimitsPreflight ==
    ASSUME IInv, LimitsInv, Preflight
    PROVE  LimitsInv'
<1>1. CASE /\ Accepted(plan, payloadLimit, commandLimit) /\ pc' = "action"
           /\ UNCHANGED <<plan, environment, index, raster, inflight, collection, progress, result,
                          device>>
  <2>1. UNCHANGED <<plan, commandLimit, index, inflight, buf, progress>> /\ pc = "preflight"
      BY <1>1, Zenon DEF environment, collection, Preflight
  <2>2. Passed
      BY <1>1, AcceptedPasses DEF IInv
  <2>3. Passed'
      BY <2>1, <2>2, Zenon DEF Passed
  <2>4. inflight = NoWrite
      BY <2>1, NothingInFlight
  <2>5. PieceFits'
      BY <2>1, <2>4 DEF PieceFits
  <2>6. KeptFits'
      BY <1>1, <2>1, Zenon DEF LimitsInv, KeptFits
  <2> QED
      BY <1>1, <2>3, <2>5, <2>6, Zenon DEF LimitsInv
<1>2. CASE Finish(PreflightError(plan, payloadLimit, commandLimit))
  <2>1. PreflightError(plan, payloadLimit, commandLimit) \in {"InvalidPlan", "AtomicTooLarge"}
      BY DEF PreflightError
  <2>2. pc # "done"
      BY DEF Preflight
  <2> QED
      BY <1>2, <2>1, <2>2, LimitsFinish, Zenon
<1> QED
    BY <1>1, <1>2, Zenon DEF Preflight

\* The action loop.
LEMMA LimitsBegin ==
    ASSUME IInv, LimitsInv,
           CheckCancelled \/ JobBoundary \/ BeginSubscribe \/ BeginDelay \/ BeginCommand
               \/ BeginRaster \/ BeginWait \/ BeginCollect \/ Return
    PROVE  LimitsInv'
<1>1. CASE \E r \in Results : Finish(r) /\ pc \in {"action", "write"}
    BY <1>1, LimitsFinish
<1>2. CASE /\ AtAction("JobBoundary") \/ AtAction("RasterWrite")
           /\ Complete(progress) /\ UNCHANGED inflight
  <2>1. pc = "action" /\ index <= Len(plan)
      BY <1>2 DEF AtAction
  <2>2. inflight' = NoWrite
      BY <1>2, <2>1, NothingInFlight
  <2>3. Advance /\ progress'.last = index /\ progress'.retained = progress.retained
      BY <1>2 DEF Complete, IInv, TypeOK
  <2> QED
      BY <2>1, <2>2, <2>3, LimitsCompleteQuietly, Zenon
<1>3. CASE BeginSubscribe \/ BeginDelay \/ BeginCommand
  <2>1. /\ pc = "action" /\ pc' \in {"subscribe", "delay", "write"}
        /\ UNCHANGED <<plan, commandLimit, index, progress, result, inflight>>
        /\ pc' = "write" => Current.kind = "CommandWrite"
      BY <1>3, Zenon DEF BeginSubscribe, BeginDelay, BeginCommand, AtAction, Goto, environment
  <2>2. inflight = NoWrite
      BY <2>1, NothingInFlight
  <2> QED
      BY <2>1, <2>2, LimitsMove, Zenon
<1>4. CASE AtAction("RasterWrite") /\ Goto("write") /\ UNCHANGED <<logical, offset>>
  <2>1. /\ pc = "action" /\ pc' = "write" /\ logical = 0
        /\ UNCHANGED <<plan, commandLimit, index, progress, result, inflight, logical>>
        /\ index <= Len(plan)
      BY <1>4, Zenon DEF AtAction, Goto, environment, IInv, Control
  <2>2. inflight = NoWrite
      BY <2>1, NothingInFlight
  <2>3. Current.chunk \in Nat
      BY <2>1, CurrentAction, Zenon DEF IInv
  <2>4. ChunkAligned'
    <3>1. logical' = 0 * (Current.chunk)'
        BY <2>1, <2>3 DEF Current
    <3> QED
        BY <3>1 DEF ChunkAligned
  <2> QED
      BY <2>1, <2>2, <2>4, LimitsMove, Zenon
<1>5. CASE BeginWait \/ BeginCollect
  <2>1. /\ pc = "action" /\ pc' \in {"collect", "multipart"}
        /\ UNCHANGED <<plan, commandLimit, index, progress, result, inflight, buf>>
        /\ pc' = "multipart" => Current.kind = "CollectResponse"
        /\ index <= Len(plan)
      BY <1>5, Zenon DEF BeginWait, BeginCollect, AtAction, Goto, environment, collection
  <2>2. inflight = NoWrite
      BY <2>1, NothingInFlight
  <2>3. buf.len = 0
      BY <2>1, Zenon DEF LimitsInv, KeptFits
  <2>4. Current.max \in Nat
      BY <2>1, CurrentAction, Zenon DEF IInv, Action
  <2>5. Passed => Passed'
      BY <2>1, Zenon DEF Passed
  <2>6. PieceFits'
      BY <2>1, <2>2 DEF PieceFits
  <2>7. KeptFits'
      BY <2>1, <2>3, <2>4, SMTT(30) DEF LimitsInv, KeptFits, Current
  <2> QED
      BY <2>1, <2>5, <2>6, <2>7, Zenon DEF LimitsInv
<1>6. CASE CheckCancelled \/ Return
    BY <1>1, <1>6 DEF CheckCancelled, Return, Results
<1>7. CASE JobBoundary
    BY <1>2, <1>7 DEF JobBoundary
<1>8. CASE BeginRaster
  <2>1. pc = "action"
      BY <1>8, Zenon DEF BeginRaster, AtAction
  <2> QED
      BY <1>1, <1>2, <1>4, <1>8, <2>1, Zenon DEF BeginRaster, Results
<1> QED
    BY <1>3, <1>5, <1>6, <1>7, <1>8, Zenon

LEMMA LimitsEffect ==
    ASSUME IInv, LimitsInv,
           RaceCancelled \/ Subscribed \/ SubscribeFailed \/ DelayDone \/ WriteFailed
               \/ WriteCancelled \/ ReadFailed
    PROVE  LimitsInv'
<1>1. CASE RaceCancelled \/ SubscribeFailed \/ WriteFailed \/ WriteCancelled \/ ReadFailed
  <2>1. pc \notin {"preflight", "done"} /\ \E r : Finish(r)
      BY <1>1, Zenon DEF RaceCancelled, SubscribeFailed, WriteFailed, WriteCancelled, ReadFailed
  <2> QED
      BY <2>1, LimitsFinish
<1>2. CASE Subscribed \/ DelayDone
  <2>1. pc \in {"subscribe", "delay", "fallback"} /\ Complete(progress) /\ UNCHANGED inflight
      BY <1>2 DEF Subscribed, DelayDone
  <2>2. inflight' = NoWrite
      BY <2>1, NothingInFlight
  <2>3. index <= Len(plan)
      BY <2>1, Zenon DEF IInv, Control
  <2>4. Advance /\ progress'.last = index /\ progress'.retained = progress.retained
      BY <2>1 DEF Complete, IInv, TypeOK
  <2> QED
      BY <2>1, <2>2, <2>3, <2>4, LimitsCompleteQuietly, Zenon
<1> QED
    BY <1>1, <1>2

\* A piece is handed over, within the limit that was read and within its chunk.
LEMMA LimitsStartPiece ==
    ASSUME IInv, LimitsInv, StartPiece
    PROVE  LimitsInv'
<1>1. /\ pc = "write" /\ pc' = "writing"
      /\ inflight' = [action |-> index, next |-> offset, to |-> PieceEnd]
      /\ UNCHANGED <<plan, commandLimit, index, pieceLimit, logical, offset, buf, result>>
      /\ progress'.retained = progress.retained /\ progress'.last = progress.last
    BY DEF StartPiece, environment, raster, collection, IInv, TypeOK
<1>2. /\ offset \in Nat /\ PieceEnd \in Nat /\ pieceLimit \in Nat /\ logical \in Nat
      /\ index <= Len(plan)
    BY <1>1, PieceBounds, Zenon DEF IInv, TypeOK, Control
<1>3. Current.kind = "CommandWrite" => offset = 0
    BY <1>1, Zenon DEF IInv, Control
<1>4. Current.kind = "RasterWrite" => PieceEnd - offset <= pieceLimit /\ logical <= offset /\ ChunkAligned
  <2> SUFFICES ASSUME Current.kind = "RasterWrite"
               PROVE  PieceEnd - offset <= pieceLimit /\ logical <= offset /\ ChunkAligned
      OBVIOUS
  <2>1. logical <= offset /\ ChunkAligned
      BY <1>1, Zenon DEF IInv, Control, LimitsInv
  <2>2. Current.len \in Nat /\ Current.chunk \in Nat
      BY <1>2, CurrentAction, Zenon DEF IInv
  <2>3. PieceEnd = Smaller(offset + pieceLimit, Smaller(logical + Current.chunk, Current.len))
      BY DEF PieceEnd
  <2>4. PieceEnd <= offset + pieceLimit
      BY <1>2, <2>2, <2>3 DEF Smaller
  <2> QED
      BY <1>2, <2>1, <2>4
<1>5. Passed => Passed'
    BY <1>1, Zenon DEF Passed
<1>6. PieceFits'
    BY <1>1, <1>3, <1>4, Zenon DEF PieceFits, ChunkAligned, Current
<1>7. KeptFits'
    BY <1>1, Zenon DEF LimitsInv, KeptFits
<1> QED
    BY <1>1, <1>4, <1>5, <1>6, <1>7, Zenon DEF LimitsInv, ChunkAligned, Current

LEMMA LimitsAccept ==
    ASSUME IInv, LimitsInv, Accept
    PROVE  LimitsInv'
<1>1. /\ UNCHANGED <<plan, commandLimit, pc, index, pieceLimit, logical, offset, buf, progress, result>>
      /\ inflight'.to = inflight.to /\ inflight # NoWrite
    BY DEF Accept, environment, raster, collection, IInv, TypeOK, NoWrite
<1>2. Passed => Passed'
    BY <1>1, Zenon DEF Passed
<1>3. PieceFits'
    BY <1>1, Zenon DEF LimitsInv, PieceFits, ChunkAligned, Current
<1>4. KeptFits'
    BY <1>1, Zenon DEF LimitsInv, KeptFits, Current
<1> QED
    BY <1>1, <1>2, <1>3, <1>4, Zenon DEF LimitsInv, ChunkAligned, Current

LEMMA LimitsWriteOk ==
    ASSUME IInv, LimitsInv, WriteOk
    PROVE  LimitsInv'
<1> DEFINE p == [progress EXCEPT !.bytes = progress.bytes + (inflight.to - offset)]
<1>1. pc = "writing" /\ inflight' = NoWrite /\ index <= Len(plan)
    BY DEF WriteOk, IInv, Control
<1>2. p.retained = progress.retained /\ p.last = progress.last
    BY DEF IInv, TypeOK
<1>3. CASE Complete(p)
  <2>1. Advance /\ progress'.last = index /\ progress'.retained = progress.retained
      BY <1>3 DEF Complete, IInv, TypeOK
  <2> QED
      BY <1>1, <2>1, LimitsCompleteQuietly, Zenon
<1>4. CASE /\ Current.kind = "RasterWrite" /\ progress' = p /\ pc' = "pacing"
           /\ UNCHANGED <<plan, environment, index, pieceLimit, logical, collection, result, device>>
  <2>1. ChunkAligned /\ UNCHANGED <<plan, commandLimit, index, logical, result>>
      BY <1>1, <1>4 DEF LimitsInv, environment
  <2>2. Passed => Passed'
      BY <2>1, Zenon DEF Passed
  <2>3. PieceFits'
      BY <1>1 DEF PieceFits
  <2>4. KeptFits'
      BY <1>2, <1>4 DEF LimitsInv, KeptFits
  <2> QED
      BY <1>1, <1>4, <2>1, <2>2, <2>3, <2>4 DEF LimitsInv, ChunkAligned, Current
<1> QED
    BY <1>3, <1>4 DEF WriteOk

LEMMA LimitsPaced ==
    ASSUME IInv, LimitsInv, Paced
    PROVE  LimitsInv'
<1>1. pc = "pacing" /\ inflight = NoWrite /\ index <= Len(plan) /\ Current.kind = "RasterWrite"
    BY NothingInFlight, Zenon DEF Paced, IInv, Control
<1>2. CASE Complete(progress) /\ UNCHANGED inflight
  <2>1. Advance /\ progress'.last = index /\ progress'.retained = progress.retained
      BY <1>2 DEF Complete, IInv, TypeOK
  <2> QED
      BY <1>1, <1>2, <2>1, LimitsCompleteQuietly, Zenon
<1>3. CASE /\ logical' = IF offset = logical + Current.chunk THEN offset ELSE logical
           /\ Goto("write")
  <2>1. UNCHANGED <<plan, commandLimit, index, progress, result, inflight>> /\ pc' = "write"
      BY <1>3 DEF Goto, environment
  <2>2. PICK m \in Nat : logical = m * Current.chunk
      BY <1>1 DEF LimitsInv, ChunkAligned
  <2>3. Current.chunk \in Nat
      BY <1>1, CurrentAction, Zenon DEF IInv
  <2>4. \E k \in Nat : logical' = k * Current.chunk
    <3>1. CASE offset = logical + Current.chunk
      <4> DEFINE c == Current.chunk
      <4>1. c \in Nat
          BY <2>3
      <4> HIDE DEF c
      <4>2. (m + 1) * c = m * c + c /\ m + 1 \in Nat
          BY <4>1
      <4>3. logical' = m * c + c
          BY <1>3, <2>2, <3>1 DEF c
      <4>4. logical' = (m + 1) * c
          BY <4>2, <4>3, Zenon
      <4> QED
          BY <4>2, <4>4, Zenon DEF c
    <3>2. CASE offset # logical + Current.chunk
        BY <1>3, <2>2, <3>2
    <3> QED
        BY <3>1, <3>2, Zenon
  <2>5. ChunkAligned'
      BY <2>1, <2>4, Zenon DEF ChunkAligned, Current
  <2> QED
      BY <1>1, <2>1, <2>5, LimitsMove, Zenon
<1> QED
    BY <1>2, <1>3, Zenon DEF Paced

\* A response is kept: one that fits the limit with what is kept already, or the limit that
\* its action declared.
LEMMA LimitsRespond ==
    ASSUME IInv, LimitsInv, pc \in {"collect", "multipart"}, NEW STATE b, b \in Frame, Respond(b),
           \/ b.len = 0
           \/ progress.retained + b.len <= MaxRetained
           \/ Current.kind = "CollectResponse" /\ b.len <= Current.max
    PROVE  LimitsInv'
<1> DEFINE p == [progress EXCEPT !.responses = progress.responses + 1,
                                 !.retained = progress.retained + b.len]
<1>1. CASE Finish("Response")
    BY <1>1, LimitsFinish
<1>2. CASE Complete(p) /\ UNCHANGED inflight
  <2>1. inflight' = NoWrite
      BY <1>2, NothingInFlight
  <2>2. /\ plan \in Seq(Action) /\ Len(plan) \in Nat /\ index \in 1..Len(plan)
        /\ progress.last = index - 1 /\ progress.retained \in Nat /\ MaxRetained \in Nat
        /\ Current \in Action
      BY CurrentAction, ConstantsAssumption, Zenon DEF IInv, TypeOK, Control
  <2>3. index - 1 \in 0..Len(plan) /\ index \in 0..Len(plan) /\ Current.max \in Nat /\ b.len \in Nat
      BY <2>2 DEF Frame, Action
  <2>4. /\ Declared(plan, index) \in Nat /\ Declared(plan, index - 1) \in Nat
        /\ Adds(plan[index]) \in Nat
        /\ Declared(plan, index) = Declared(plan, index - 1) + Adds(plan[index])
      BY <2>2, <2>3, DeclaredFacts, Zenon
  <2>5. progress.retained <= MaxRetained + Declared(plan, index - 1)
      BY <2>2, Zenon DEF LimitsInv, KeptFits
  <2>6. progress.retained + b.len <= MaxRetained + Declared(plan, index)
    <3>1. \A kept, limit, before, more, length \in Nat :
              kept <= limit + before /\ (length = 0 \/ kept + length <= limit \/ length <= more) =>
                  kept + length <= limit + (before + more)
        OBVIOUS
    <3>2. b.len = 0 \/ progress.retained + b.len <= MaxRetained \/ b.len <= Adds(plan[index])
        BY Zenon DEF Adds, Current
    <3> QED
        BY <2>2, <2>3, <2>4, <2>5, <3>1, <3>2, Zenon, SMTT(30)
  <2>7. Advance /\ progress'.last = index /\ progress'.retained = progress.retained + b.len
      BY <1>2 DEF Complete, IInv, TypeOK
  <2> QED
      BY <2>1, <2>6, <2>7, LimitsComplete, Zenon
<1> QED
    BY <1>1, <1>2 DEF Respond

\* One more chunk of a response.
LEMMA LimitsCollecting ==
    ASSUME IInv, LimitsInv, pc \in {"collect", "multipart"}, pc' = pc,
           UNCHANGED <<plan, environment, index, inflight, progress, result, device, raster>>,
           pc = "collect" => progress.retained + buf'.len <= MaxRetained,
           pc = "multipart" => buf'.len <= Current.max
    PROVE  LimitsInv'
<1>1. inflight = NoWrite
    BY NothingInFlight
<1>2. Passed => Passed'
    BY Zenon DEF Passed, environment
<1>3. PieceFits'
    BY <1>1, Zenon DEF PieceFits
<1>4. KeptFits'
    BY Zenon DEF LimitsInv, KeptFits, Current
<1> QED
    BY <1>2, <1>3, <1>4, Zenon DEF LimitsInv

LEMMA LimitsRead ==
    ASSUME IInv, LimitsInv, NEW c \in Chunks, ReadChunk(c) \/ MultipartChunk(c)
    PROVE  LimitsInv'
<1> DEFINE b == Extend(buf, c)
<1>0. /\ pc \in {"collect", "multipart"} /\ buf \in Frame /\ buf.mark <= buf.len
      /\ progress.retained \in Nat /\ MaxRetained \in Nat
    BY ConstantsAssumption, Zenon DEF ReadChunk, MultipartChunk, IInv, TypeOK, Control
<1>1. b \in Frame /\ b.mark <= b.len
    BY <1>0, ExtendFrame, Zenon
<1>2. CASE Finish("Response")
    BY <1>0, <1>2, LimitsFinish, Zenon
<1>3. CASE ReadChunk(c)
  <2>1. CASE /\ progress.retained + b.len <= MaxRetained /\ Enough(b)
             /\ Respond(IF Current.validation = "Phomemo" THEN FromMark(b) ELSE b)
    <3>1. CASE Current.validation # "Phomemo"
        BY <1>0, <1>1, <2>1, <3>1, LimitsRespond, Zenon
    <3>2. CASE Current.validation = "Phomemo"
      <4>1. b.mark # 0
          BY <2>1, <3>2, Zenon DEF Enough
      <4>2. b.len \in Nat /\ b.mark \in Nat
          BY <1>1 DEF Frame
      <4> HIDE DEF b
      <4>3. FromMark(b) \in Frame /\ FromMark(b).len <= b.len /\ FromMark(b).len \in Nat
          BY <1>1, <4>1, <4>2, SMTT(30) DEF FromMark, Frame
      <4>4. progress.retained + FromMark(b).len <= MaxRetained
          BY <1>0, <2>1, <4>2, <4>3
      <4>5. Respond(FromMark(b))
          BY <2>1, <3>2
      <4> QED
          BY <1>0, <4>3, <4>4, <4>5, LimitsRespond, Zenon
    <3> QED
        BY <3>1, <3>2
  <2>2. CASE progress.retained + b.len <= MaxRetained /\ buf' = b /\ Goto("collect") /\ UNCHANGED raster
    <3>1. pc = "collect"
        BY <1>3, Zenon DEF ReadChunk
    <3> QED
        BY <2>2, <3>1, LimitsCollecting, Zenon DEF Goto
  <2> QED
      BY <1>2, <1>3, <2>1, <2>2, Zenon DEF ReadChunk
<1>4. CASE MultipartChunk(c)
  <2>1. pc = "multipart" /\ Current.kind = "CollectResponse" /\ buf.len <= Current.max
      BY <1>4, Zenon DEF MultipartChunk, LimitsInv, KeptFits
  <2>2. CASE Collected
    <3>1. CASE Finish("Timeout")
        BY <1>0, <3>1, LimitsFinish, Zenon
    <3>2. CASE Respond(buf)
        BY <1>0, <2>1, <3>2, LimitsRespond, Zenon
    <3> QED
        BY <2>2, <3>1, <3>2, Zenon DEF Collected
  <2>3. CASE buf.len + c.len <= Current.max /\ buf' = b /\ Goto("multipart") /\ UNCHANGED raster
    <3>1. buf'.len = buf.len + c.len
        BY <2>3, Zenon DEF Extend
    <3> QED
        BY <2>1, <2>3, <3>1, LimitsCollecting, Zenon DEF Goto
  <2> QED
      BY <1>2, <1>4, <2>2, <2>3, Zenon DEF MultipartChunk
<1> QED
    BY <1>3, <1>4

LEMMA LimitsReadingEnds ==
    ASSUME IInv, LimitsInv, ReadsEnd \/ MultipartEnd \/ MultipartExhausted
    PROVE  LimitsInv'
<1>0. /\ pc \in {"collect", "multipart"} /\ buf \in Frame /\ inflight = NoWrite
      /\ index <= Len(plan)
    BY NothingInFlight, Zenon DEF ReadsEnd, MultipartEnd, MultipartExhausted, IInv, TypeOK, Control
<1>1. CASE \E r : Finish(r)
    BY <1>0, <1>1, LimitsFinish, Zenon
<1>2. CASE Respond(buf)
  <2>1. \/ buf.len = 0 \/ progress.retained + buf.len <= MaxRetained
        \/ Current.kind = "CollectResponse" /\ buf.len <= Current.max
      BY <1>0, Zenon DEF LimitsInv, KeptFits
  <2> QED
      BY <1>0, <1>2, <2>1, LimitsRespond, Zenon
<1>3. CASE NoResponse
  <2>1. CASE Goto("fallback")
      BY <1>0, <2>1, LimitsMove, Zenon DEF Goto, environment
  <2>2. CASE Complete(progress) /\ UNCHANGED inflight
    <3>1. Advance /\ progress'.last = index /\ progress'.retained = progress.retained
        BY <2>2 DEF Complete, IInv, TypeOK
    <3> QED
        BY <1>0, <2>2, <3>1, LimitsCompleteQuietly, Zenon
  <2> QED
      BY <1>1, <1>3, <2>1, <2>2, Zenon DEF NoResponse
<1> QED
    BY <1>1, <1>2, <1>3, Zenon DEF ReadsEnd, MultipartEnd, MultipartExhausted, Collected

LEMMA LimitsEnvironment ==
    ASSUME LimitsInv, RequestCancel \/ Renegotiate \/ UNCHANGED vars
    PROVE  LimitsInv'
<1>1. UNCHANGED <<plan, commandLimit, pc, index, pieceLimit, logical, offset, inflight, buf,
                  progress, result>>
    BY Zenon DEF RequestCancel, Renegotiate, vars, raster, collection, environment
<1>2. Passed => Passed'
    BY <1>1, Zenon DEF Passed
<1>3. PieceFits' /\ (ChunkAligned => ChunkAligned')
    BY <1>1, Zenon DEF LimitsInv, PieceFits, ChunkAligned, Current
<1>4. KeptFits'
    BY <1>1, Zenon DEF LimitsInv, KeptFits, Current
<1> QED
    BY <1>1, <1>2, <1>3, <1>4, Zenon DEF LimitsInv, Current

-----------------------------------------------------------------------------
(* The raster boundary: the only place where the payload limit is read, and the only one after
   preflight that refuses the plan. *)

Refusals == {"InvalidPlan", "AtomicTooLarge"}

BetweenPieces == {"write", "writing", "pacing"}

\* A refusal means that nothing was sent, or that a raster action was refused before its first
\* byte; and the limit that was read is in force until a change during the raster is recorded.
BoundaryInv ==
    /\ pc = "preflight" => device = <<>>
    /\ result \in Refusals =>
           \/ device = <<>>
           \/ result = "InvalidPlan" /\ offset = 0 /\ Current.kind = "RasterWrite"
    /\ pc \in BetweenPieces \/ inflight # NoWrite =>
           (Current.kind = "RasterWrite" /\ changedAt # index => pieceLimit = payloadLimit)

LEMMA BoundaryInit == Init => BoundaryInv
BY Zenon DEF Init, BoundaryInv, Refusals, BetweenPieces

\* A return that is not a refusal.
LEMMA BoundaryFinish ==
    ASSUME BoundaryInv, NEW r, r \notin Refusals, Finish(r)
    PROVE  BoundaryInv'
<1>1. /\ result' = r /\ pc' = "done"
      /\ UNCHANGED <<plan, payloadLimit, changedAt, index, pieceLimit, offset, inflight, device>>
    BY Zenon DEF Finish, environment, raster
<1>2. pc' # "preflight" /\ pc' \notin BetweenPieces
    BY <1>1 DEF BetweenPieces
<1> QED
    BY <1>1, <1>2, Zenon DEF BoundaryInv, Current

\* A step to a place without pieces: nothing is in flight there.
LEMMA BoundaryMove ==
    ASSUME IInv, pc # "done", result' = result, inflight' = NoWrite,
           pc' \notin BetweenPieces, pc' # "preflight"
    PROVE  BoundaryInv'
<1>1. result' = "Running"
    BY Zenon DEF IInv, InFlight
<1>2. result' \notin Refusals
    BY <1>1 DEF Refusals
<1> QED
    BY <1>2, Zenon DEF BoundaryInv

\* The next turn of the loop.
LEMMA BoundaryAdvance ==
    ASSUME IInv, pc # "done", Advance, inflight' = NoWrite
    PROVE  BoundaryInv'
<1>1. result' = result /\ pc' = "action"
    BY Zenon DEF Advance
<1>2. pc' \notin BetweenPieces /\ pc' # "preflight"
    BY <1>1 DEF BetweenPieces
<1> QED
    BY <1>1, <1>2, BoundaryMove, Zenon

LEMMA BoundaryComplete ==
    ASSUME IInv, pc \notin {"writing", "done"}, NEW p, Complete(p), UNCHANGED inflight
    PROVE  BoundaryInv'
<1>1. inflight' = NoWrite
    BY NothingInFlight, Zenon
<1> QED
    BY <1>1, BoundaryAdvance, Zenon DEF Complete

LEMMA BoundaryGoto ==
    ASSUME IInv, pc \notin {"writing", "done"}, NEW l, Goto(l), l \notin BetweenPieces, l # "preflight"
    PROVE  BoundaryInv'
<1>1. inflight' = NoWrite /\ result' = result /\ pc' = l
    BY NothingInFlight, Zenon DEF Goto
<1> QED
    BY <1>1, BoundaryMove, Zenon

\* A response is kept or the execution fails.
LEMMA BoundaryRespond ==
    ASSUME IInv, BoundaryInv, pc \notin {"writing", "done"}, NEW f, Respond(f)
    PROVE  BoundaryInv'
<1>1. CASE Finish("Response")
  <2>1. "Response" \notin Refusals
      BY DEF Refusals
  <2> QED
      BY <1>1, <2>1, BoundaryFinish, Zenon
<1>2. CASE Complete([progress EXCEPT !.responses = @ + 1, !.retained = @ + f.len]) /\ UNCHANGED inflight
    BY <1>2, BoundaryComplete, Zenon
<1> QED
    BY <1>1, <1>2, Zenon DEF Respond

\* Preflight refuses before anything was sent.
LEMMA BoundaryPreflight ==
    ASSUME IInv, BoundaryInv, Preflight
    PROVE  BoundaryInv'
<1>1. pc = "preflight" /\ device = <<>> /\ inflight = NoWrite /\ device' = device /\ inflight' = inflight
    BY NothingInFlight, Zenon DEF Preflight, Finish, BoundaryInv
<1>2. pc' \in {"action", "done"}
    BY Zenon DEF Preflight, Finish
<1>3. pc' # "preflight" /\ pc' \notin BetweenPieces
    BY <1>2 DEF BetweenPieces
<1> QED
    BY <1>1, <1>3, Zenon DEF BoundaryInv

\* A raster reads the limit; one that finds zero refuses the plan before its first byte.
LEMMA BoundaryRaster ==
    ASSUME IInv, BoundaryInv, BeginRaster
    PROVE  BoundaryInv'
<1>1. /\ pc = "action" /\ Current.kind = "RasterWrite" /\ inflight = NoWrite /\ offset = 0
      /\ result = "Running"
    BY NothingInFlight, Zenon DEF BeginRaster, AtAction, IInv, Control, InFlight
<1>2. CASE Finish("InvalidPlan")
  <2>1. /\ result' = "InvalidPlan" /\ pc' = "done"
        /\ UNCHANGED <<plan, index, offset, inflight>>
      BY <1>2, Zenon DEF Finish, raster
  <2>2. pc' # "preflight" /\ pc' \notin BetweenPieces
      BY <2>1 DEF BetweenPieces
  <2> QED
      BY <1>1, <2>1, <2>2, Zenon DEF BoundaryInv, Current
<1>3. CASE Complete(progress) /\ UNCHANGED inflight
  <2>1. pc \notin {"writing", "done"}
      BY <1>1
  <2> QED
      BY <1>3, <2>1, BoundaryComplete, Zenon
<1>4. CASE pieceLimit' = payloadLimit /\ Goto("write")
  <2>1. pieceLimit' = payloadLimit' /\ pc' = "write" /\ result' = "Running"
      BY <1>1, <1>4, Zenon DEF Goto, environment
  <2>2. pc' # "preflight" /\ result' \notin Refusals
      BY <2>1 DEF Refusals
  <2> QED
      BY <2>1, <2>2, Zenon DEF BoundaryInv
<1> QED
    BY <1>2, <1>3, <1>4, Zenon DEF BeginRaster

\* The other actions of a plan begin.
LEMMA BoundaryBegin ==
    ASSUME IInv, BoundaryInv,
           CheckCancelled \/ JobBoundary \/ BeginSubscribe \/ BeginDelay \/ BeginCommand
               \/ BeginWait \/ BeginCollect \/ Return
    PROVE  BoundaryInv'
<1>1. pc \in {"action", "write"}
    BY Zenon DEF CheckCancelled, JobBoundary, BeginSubscribe, BeginDelay, BeginCommand, BeginWait,
                 BeginCollect, Return, AtAction
<1>2. pc \notin {"writing", "done"}
    BY <1>1
<1>3. CASE CheckCancelled \/ Return
  <2>1. "Cancelled" \notin Refusals /\ "Completed" \notin Refusals
      BY DEF Refusals
  <2> QED
      BY <1>3, <2>1, BoundaryFinish, Zenon DEF CheckCancelled, Return
<1>4. CASE JobBoundary
    BY <1>2, <1>4, BoundaryComplete, Zenon DEF JobBoundary
<1>5. CASE BeginSubscribe \/ BeginDelay \/ BeginWait \/ BeginCollect
  <2>1. \A l \in {"subscribe", "delay", "collect", "multipart"} : l \notin BetweenPieces /\ l # "preflight"
      BY DEF BetweenPieces
  <2>2. \E l \in {"subscribe", "delay", "collect", "multipart"} : Goto(l)
      BY <1>5, Zenon DEF BeginSubscribe, BeginDelay, BeginWait, BeginCollect
  <2> QED
      BY <1>2, <2>1, <2>2, BoundaryGoto, Zenon
<1>6. CASE BeginCommand
  <2>1. Current.kind = "CommandWrite" /\ pc' = "write" /\ result' = result /\ Current' = Current
      BY <1>6, Zenon DEF BeginCommand, AtAction, Goto, Current
  <2>2. result' = "Running"
      BY <1>2, <2>1, Zenon DEF IInv, InFlight
  <2>3. pc' # "preflight" /\ result' \notin Refusals /\ Current'.kind # "RasterWrite"
      BY <2>1, <2>2 DEF Refusals
  <2> QED
      BY <2>3, Zenon DEF BoundaryInv
<1> QED
    BY <1>3, <1>4, <1>5, <1>6, Zenon

\* Between the pieces of a raster nothing reads the limit.
LEMMA BoundaryPieces ==
    ASSUME IInv, BoundaryInv, StartPiece \/ WriteOk \/ Paced
    PROVE  BoundaryInv'
<1>1. pc \in BetweenPieces /\ pc # "done"
    BY DEF StartPiece, WriteOk, Paced, BetweenPieces
<1>2. CASE /\ pc' \in BetweenPieces
           /\ UNCHANGED <<plan, payloadLimit, changedAt, index, pieceLimit, result>>
  <2>1. result' = "Running" /\ pc' # "preflight"
      BY <1>1, <1>2 DEF BetweenPieces, IInv, InFlight
  <2>2. result' \notin Refusals
      BY <2>1 DEF Refusals
  <2> QED
      BY <1>1, <1>2, <2>1, <2>2, Zenon DEF BoundaryInv, Current
<1>3. "write" \in BetweenPieces /\ "writing" \in BetweenPieces /\ "pacing" \in BetweenPieces
    BY DEF BetweenPieces
<1>4. CASE StartPiece
    BY <1>2, <1>3, <1>4, Zenon DEF StartPiece, environment, raster
<1>5. CASE WriteOk
  <2>1. CASE \E p : Complete(p)
      BY <1>1, <1>5, <2>1, BoundaryAdvance, Zenon DEF WriteOk, Complete
  <2> QED
      BY <1>2, <1>3, <1>5, <2>1, Zenon DEF WriteOk, environment
<1>6. CASE Paced
  <2>1. CASE Complete(progress) /\ UNCHANGED inflight
    <3>1. pc \notin {"writing", "done"}
        BY <1>6 DEF Paced
    <3> QED
        BY <2>1, <3>1, BoundaryComplete, Zenon
  <2> QED
      BY <1>2, <1>3, <1>6, <2>1, Zenon DEF Paced, Goto, environment
<1> QED
    BY <1>4, <1>5, <1>6

\* The transport takes a byte only of a write that was never refused.
LEMMA BoundaryAccept ==
    ASSUME IInv, BoundaryInv, Accept
    PROVE  BoundaryInv'
<1>1. inflight # NoWrite /\ UNCHANGED <<plan, payloadLimit, changedAt, pc, index, pieceLimit, result>>
  <2>1. inflight # NoWrite
      BY DEF Accept, NoWrite
  <2>2. UNCHANGED <<plan, payloadLimit, changedAt, pc, index, pieceLimit, result>>
      BY Zenon DEF Accept, environment, raster
  <2> QED
      BY <2>1, <2>2
<1>2. (pc = "writing" /\ result = "Running") \/ result = "WriteOutcomeUnknown"
    BY <1>1 DEF IInv, InFlight
<1>3. result \notin Refusals /\ pc # "preflight"
    BY <1>2 DEF Refusals, IInv, InFlight
<1> QED
    BY <1>1, <1>3, Zenon DEF BoundaryInv, Current

\* The effects other than writes.
LEMMA BoundaryEffect ==
    ASSUME IInv, BoundaryInv,
           RaceCancelled \/ Subscribed \/ SubscribeFailed \/ DelayDone \/ WriteFailed
               \/ WriteCancelled \/ ReadFailed
    PROVE  BoundaryInv'
<1>1. CASE RaceCancelled \/ SubscribeFailed \/ WriteFailed \/ WriteCancelled \/ ReadFailed
  <2>1. \E r \in {"Cancelled", "Transport", "WriteOutcomeUnknown"} : Finish(r)
      BY <1>1, Zenon DEF RaceCancelled, SubscribeFailed, WriteFailed, WriteCancelled, ReadFailed,
                         NonWriteError
  <2>2. \A r \in {"Cancelled", "Transport", "WriteOutcomeUnknown"} : r \notin Refusals
      BY DEF Refusals
  <2> QED
      BY <2>1, <2>2, BoundaryFinish, Zenon
<1>2. CASE Subscribed \/ DelayDone
  <2>1. pc \notin {"writing", "done"}
      BY <1>2 DEF Subscribed, DelayDone
  <2> QED
      BY <1>2, <2>1, BoundaryComplete, Zenon DEF Subscribed, DelayDone
<1> QED
    BY <1>1, <1>2

\* The reads.
LEMMA BoundaryReads ==
    ASSUME IInv, BoundaryInv,
           \/ ReadsEnd \/ MultipartEnd \/ MultipartExhausted
           \/ \E c \in Chunks : ReadChunk(c) \/ MultipartChunk(c)
    PROVE  BoundaryInv'
<1>1. pc \in {"collect", "multipart"}
    BY Zenon DEF ReadsEnd, MultipartEnd, MultipartExhausted, ReadChunk, MultipartChunk
<1>2. pc \notin {"writing", "done"}
    BY <1>1
<1>3. CASE \E r \in {"Response", "Timeout"} : Finish(r)
  <2>1. \A r \in {"Response", "Timeout"} : r \notin Refusals
      BY DEF Refusals
  <2> QED
      BY <1>3, <2>1, BoundaryFinish, Zenon
<1>4. CASE \E f : Respond(f)
    BY <1>2, <1>4, BoundaryRespond, Zenon
<1>5. CASE \E l \in {"collect", "multipart", "fallback"} : Goto(l)
  <2>1. \A l \in {"collect", "multipart", "fallback"} : l \notin BetweenPieces /\ l # "preflight"
      BY DEF BetweenPieces
  <2> QED
      BY <1>2, <1>5, <2>1, BoundaryGoto, Zenon
<1>6. CASE Complete(progress) /\ UNCHANGED inflight
    BY <1>2, <1>6, BoundaryComplete, Zenon
<1>7. CASE ReadsEnd \/ MultipartEnd \/ MultipartExhausted
    BY <1>3, <1>4, <1>5, <1>6, <1>7, Zenon
    DEF ReadsEnd, MultipartEnd, MultipartExhausted, Collected, NoResponse
<1>8. ASSUME NEW c \in Chunks, ReadChunk(c) \/ MultipartChunk(c)
      PROVE  BoundaryInv'
    BY <1>3, <1>4, <1>5, <1>8, Zenon DEF ReadChunk, MultipartChunk, Collected
<1> QED
    BY <1>7, <1>8, Zenon

\* A change of the limit between the pieces is recorded.
LEMMA BoundaryEnvironment ==
    ASSUME IInv, BoundaryInv, RequestCancel \/ Renegotiate \/ UNCHANGED vars
    PROVE  BoundaryInv'
<1>1. UNCHANGED <<plan, pc, index, pieceLimit, offset, inflight, result, device>>
    BY Zenon DEF RequestCancel, Renegotiate, vars, raster
<1>2. CASE UNCHANGED <<payloadLimit, changedAt>>
    BY <1>1, <1>2, Zenon DEF BoundaryInv, Current
<1>3. CASE Renegotiate
  <2>1. pc \in BetweenPieces => changedAt' = index
      BY <1>3 DEF Renegotiate, BetweenPieces
  <2>2. pc \notin BetweenPieces => inflight = NoWrite
      BY <1>3, NothingInFlight DEF Renegotiate, BetweenPieces
  <2> QED
      BY <1>1, <2>1, <2>2, Zenon DEF BoundaryInv, Current
<1> QED
    BY <1>2, <1>3, Zenon DEF RequestCancel, vars

\* The invariant of the raster boundary holds in every execution of every plan.
THEOREM BoundaryInvariant == Spec => []BoundaryInv
<1>1. IInv /\ BoundaryInv /\ [Next]_vars => BoundaryInv'
  <2> SUFFICES ASSUME IInv, BoundaryInv, [Next]_vars PROVE BoundaryInv'
      OBVIOUS
  <2>1. CASE Local
      BY <2>1, BoundaryPreflight, BoundaryBegin, BoundaryRaster, BoundaryPieces, BoundaryReads, Zenon
      DEF Local
  <2>2. CASE LoseRace
      BY <2>2, BoundaryEffect DEF LoseRace
  <2>3. CASE Timer
      BY <2>3, BoundaryEffect, BoundaryPieces, BoundaryReads DEF Timer
  <2>4. CASE Answer
      BY <2>4, BoundaryEffect, BoundaryPieces, BoundaryReads, Zenon DEF Answer
  <2>5. CASE Accept
      BY <2>5, BoundaryAccept
  <2>6. CASE RequestCancel \/ Renegotiate \/ UNCHANGED vars
      BY <2>6, BoundaryEnvironment
  <2> QED
      BY <2>1, <2>2, <2>3, <2>4, <2>5, <2>6 DEF Next
<1> QED
    BY <1>1, BoundaryInit, ExecutorInvariant, PTL DEF Spec

\* Without a write in flight, and with nothing of the current action confirmed, the printer has
\* exactly the actions before it.
LEMMA TakenBeforeCurrent ==
    ASSUME IInv, inflight = NoWrite, offset = 0
    PROVE  TakenUpTo(index)
<1>1. Reach = 0
    BY DEF Reach
<1>2. ASSUME NEW k \in 1..Len(device)
      PROVE  device[k][1] < index
  <2>1. /\ InPlan(device[k][1], device[k][2])
        /\ device[k][1] < index \/ (device[k][1] = index /\ device[k][2] <= 0)
      BY <1>1, Zenon DEF IInv, Frontier
  <2>2. device[k][2] # 0 /\ device[k][2] \in Nat
      BY <2>1, DeviceBytes, CurrentAction DEF InPlan, IInv
  <2> QED
      BY <2>1, <2>2
<1>3. ASSUME NEW h \in 1..Len(plan), NEW q \in 1..plan[h].len, h < index, IsWrite(plan[h])
      PROVE  Delivered(h, q)
    BY <1>3, Zenon DEF IInv, Frontier
<1> QED
    BY <1>2, <1>3, Zenon DEF TakenUpTo

\* At the end of an execution the counts leave a doubt only where the status says so.
LEMMA StatusFromInvariants ==
    ASSUME IInv, BoundaryInv
    PROVE  StatusIsTruthful
<1>1. ASSUME result \notin {"Running", "WriteOutcomeUnknown"}
      PROVE  inflight = NoWrite /\ Len(device) = progress.bytes
  <2>1. pc # "writing" \/ result = "Running"
      BY DEF IInv, InFlight
  <2> QED BY <1>1, <2>1, SMTT(30) DEF IInv, InFlight, Counted, Reach, TypeOK
<1>2. ASSUME JsStatus = "completed"
      PROVE  TakenUpTo(Len(plan) + 1)
  <2>1. result = "Completed"
      BY <1>2, Zenon DEF JsStatus
  <2>2. index = Len(plan) + 1 /\ Len(plan) \in Nat
      BY <2>1, SMTT(30) DEF IInv, InFlight, TypeOK
  <2>3. ASSUME NEW k \in 1..Len(device) PROVE device[k][1] < Len(plan) + 1
    <3>1. device[k][1] \in 1..Len(plan)
        BY Zenon DEF IInv, Frontier, InPlan
    <3> QED
        BY <2>2, <3>1
  <2>4. ASSUME NEW h \in 1..Len(plan), NEW q \in 1..plan[h].len, h < Len(plan) + 1, IsWrite(plan[h])
        PROVE  Delivered(h, q)
      BY <2>2, <2>4, Zenon DEF IInv, Frontier
  <2> QED
      BY <2>3, <2>4, Zenon DEF TakenUpTo
<1>3. ASSUME JsStatus = "cancelled-before-send"
      PROVE  device = <<>>
  <2>1. result = "Cancelled" /\ Reported.bytes = 0
      BY <1>3, Zenon DEF JsStatus
  <2>2. progress.bytes = 0
      BY <2>1 DEF Reported
  <2>3. Len(device) = 0 /\ device \in Seq(Nat \X Nat)
      BY <1>1, <2>1, <2>2, Zenon DEF IInv, TypeOK
  <2> QED BY <2>3
<1>4. ASSUME JsStatus \notin {"running", "outcome-unknown"}
      PROVE  \/ Len(device) = Reported.bytes
             \/ result = "InvalidPlan" /\ Current.kind = "RasterWrite" /\ TakenUpTo(index)
  <2>1. result \notin {"Running", "WriteOutcomeUnknown"}
      BY <1>4 DEF JsStatus
  <2>2. CASE result \notin Refusals
      BY <1>1, <2>1, <2>2, Zenon DEF Refusals, Reported
  <2>3. CASE result \in Refusals
    <3>1. Reported.bytes = 0
        BY <2>3 DEF Refusals, Reported, NoProgress
    <3>2. device = <<>> => Len(device) = 0
        OBVIOUS
    <3> QED
        BY <1>1, <2>1, <2>3, <3>1, <3>2, TakenBeforeCurrent, Zenon DEF BoundaryInv
  <2> QED BY <2>2, <2>3
<1> QED BY <1>2, <1>3, <1>4, Zenon DEF StatusIsTruthful

\* Whatever the plan, the limits and the moment of a failure or a cancellation: every status
\* the WebAssembly boundary reports, other than outcome-unknown, is true of the printer for ever
\* after, and where a refused raster hides the count of bytes, the printer has exactly the
\* actions before that raster.
THEOREM StatusIsExact == Spec => []StatusIsTruthful
BY ExecutorInvariant, BoundaryInvariant, StatusFromInvariants, PTL

-----------------------------------------------------------------------------
(* What the limits come to. *)

\* A piece that fits lies within one logical chunk.
LEMMA PieceInOneChunk ==
    ASSUME IInv, LimitsInv, BoundaryInv
    PROVE  PieceWithinLimits
<1> SUFFICES ASSUME inflight # NoWrite PROVE PieceWithinLimits
    BY Zenon DEF PieceWithinLimits
<1> DEFINE c == Current.chunk
           to == inflight.to
<1>1. /\ inflight.action = index /\ index <= Len(plan) /\ IsWrite(Current)
      /\ pc = "writing" \/ result = "WriteOutcomeUnknown"
      /\ Current.kind = "RasterWrite" => offset < to /\ to <= logical + c
      /\ Current.kind = "CommandWrite" => to = Current.len
    BY Zenon DEF IInv, InFlight
<1>2. /\ plan[inflight.action] = Current /\ index \in 1..Len(plan)
      /\ to \in Nat /\ offset \in Nat /\ logical \in Nat /\ pieceLimit \in Nat /\ c \in Nat
    BY <1>1, CurrentAction, Zenon DEF Current, IInv, TypeOK
<1>3. pc # "preflight" /\ result \notin {"InvalidPlan", "AtomicTooLarge"}
  <2>1. result = "Running" <=> pc # "done"
      BY Zenon DEF IInv, InFlight
  <2> QED
      BY <1>1, <2>1, Zenon
<1>4. Passed
    BY <1>3 DEF LimitsInv
<1>5. CASE Current.kind = "CommandWrite"
  <2>1. offset = 0 /\ to = Current.len /\ (Current.atomic => to <= commandLimit)
      BY <1>1, <1>2, <1>4, <1>5, Zenon DEF LimitsInv, PieceFits, Passed, Current
  <2> QED
      BY <1>2, <1>5, <2>1, Zenon DEF PieceWithinLimits
<1>6. CASE Current.kind = "RasterWrite"
  <2>1. offset < to /\ to <= logical + c /\ to - offset <= pieceLimit /\ logical <= offset /\ ChunkAligned
      BY <1>1, <1>6, Zenon DEF LimitsInv, PieceFits
  <2>2. PICK m \in Nat : logical = m * c
      BY <2>1 DEF ChunkAligned
  <2> HIDE DEF c, to
  <2>3. /\ c # 0 /\ m * c \in Nat /\ m * c <= offset /\ offset < m * c + c
        /\ m * c <= to - 1 /\ to - 1 < m * c + c /\ to - 1 \in Nat
    <3>1. /\ c # 0 /\ logical \in Nat /\ logical <= offset /\ offset < logical + c
          /\ logical <= to - 1 /\ to - 1 < logical + c /\ to - 1 \in Nat
        BY <1>2, <2>1, SMTT(30)
    <3> QED
        BY <2>2, <3>1, Zenon
  <2>4. offset \div c = m /\ (to - 1) \div c = m
      BY <1>2, <2>3, InStep, Zenon
  <2>5. changedAt # inflight.action => to - offset <= payloadLimit
      BY <1>1, <1>6, <2>1, Zenon DEF BoundaryInv
  <2> QED
      BY <1>2, <1>6, <2>1, <2>4, <2>5, Zenon DEF PieceWithinLimits, c, to
<1> QED
    BY <1>1, <1>5, <1>6, Zenon DEF IsWrite

\* What is kept, in the terms of the limit alone.
LEMMA KeptIsBounded ==
    ASSUME IInv, LimitsInv
    PROVE  RetainedIsBounded
<1>1. progress.retained <= MaxRetained + Declared(plan, progress.last)
    BY DEF LimitsInv, KeptFits
<1>2. /\ plan \in Seq(Action) /\ Len(plan) \in Nat /\ progress.last \in 0..Len(plan)
      /\ progress.retained \in Nat /\ MaxRetained \in Nat
  <2>1. TypeOK /\ Control
      BY Zenon DEF IInv
  <2>2. plan \in Seq(Action) /\ Len(plan) \in Nat
      BY <2>1, CurrentAction, Zenon
  <2>3. progress.retained \in Nat /\ progress.last \in Nat
      BY <2>1 DEF TypeOK
  <2>4. progress.last <= Len(plan)
      BY <2>1, <2>2, <2>3 DEF TypeOK, Control
  <2>5. progress.last \in 0..Len(plan)
      BY <2>2, <2>3, <2>4
  <2> QED
      BY <2>2, <2>3, <2>5, ConstantsAssumption, Zenon
<1>3. Declared(plan, progress.last) \in Nat
    BY <1>2, DeclaredFacts, Zenon
<1>4. Passed => Declared(plan, progress.last) <= MaxRetained
    BY <1>2, Zenon DEF Passed
<1> QED
    BY <1>1, <1>4, Zenon DEF RetainedIsBounded, LimitsInv

\* WithinLimits, for every plan and every limit: pieces stay within the limit that was read
\* at their boundary, which is the limit in force unless it changed during that very action, and
\* within one logical chunk; an atomic command is within the limit that preflight saw; and what
\* is kept exceeds the limit of the executor by no more than the completed collections declared.
THEOREM LimitsAreKept == Spec => []WithinLimits
<1>1. IInv /\ LimitsInv /\ [Next]_vars => LimitsInv'
  <2> SUFFICES ASSUME IInv, LimitsInv, [Next]_vars PROVE LimitsInv'
      OBVIOUS
  <2>1. CASE Local
      BY <2>1, LimitsPreflight, LimitsBegin, LimitsStartPiece, LimitsReadingEnds, Zenon DEF Local
  <2>2. CASE LoseRace
      BY <2>2, LimitsEffect DEF LoseRace
  <2>3. CASE Timer
      BY <2>3, LimitsEffect, LimitsPaced, LimitsReadingEnds DEF Timer
  <2>4. CASE Answer
      BY <2>4, LimitsEffect, LimitsWriteOk, LimitsRead, Zenon DEF Answer
  <2>5. CASE Accept
      BY <2>5, LimitsAccept
  <2>6. CASE RequestCancel \/ Renegotiate \/ UNCHANGED vars
      BY <2>6, LimitsEnvironment
  <2> QED
      BY <2>1, <2>2, <2>3, <2>4, <2>5, <2>6 DEF Next
<1>2. IInv /\ LimitsInv /\ BoundaryInv => WithinLimits
    BY PieceInOneChunk, KeptIsBounded DEF WithinLimits
<1> QED
    BY <1>1, <1>2, LimitsInit, ExecutorInvariant, BoundaryInvariant, PTL DEF Spec
=============================================================================
