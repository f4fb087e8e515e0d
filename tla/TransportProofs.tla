--------------------------- MODULE TransportProofs ---------------------------
(***************************************************************************)
(* The transports to a printer.  Of Bluetooth LE: credit flow control and   *)
(* the order of responses, for queues of any size and any number of frames  *)
(* and writes.  Of the devices behind an owner thread: the order of         *)
(* commands and what Ok means, for channels of any capacity and any number  *)
(* of calls.                                                               *)
(***************************************************************************)
EXTENDS BleTransport, PersistentDevice, Basics

-----------------------------------------------------------------------------
(* Bluetooth LE: credits                                                    *)
(*                                                                         *)
(* The credits a printer granted are spent, at hand, or still on their way *)
(* in the channel and in the stream.  What is on its way is a sum over two *)
(* sequences; instead of a recursive sum the invariant says that there are *)
(* running totals, which grow at the end of a sequence with each           *)
(* notification and are taken off at its head with each one received.      *)

Notification == [kind : {"credit", "limit", "response"}, n : Nat]

CreditOf(f) == IF f.kind = "credit" THEN f.n ELSE 0

\* There are running totals of the credits in s, from at least a up to at most b.
Totals(s, a, b) ==
    \E c \in [0..Len(s) -> Nat] :
        /\ c[0] >= a
        /\ \A i \in 1..Len(s) : c[i] = c[i - 1] + CreditOf(s[i])
        /\ \A i \in 0..Len(s) : c[i] <= b

\* The writes handed over, the credits at hand, and the credit of the write on its way.
Spent == transmitted + credits + (IF call.op = "send" THEN 1 ELSE 0)

Calls ==
    [op : {"none", "open", "enable", "credit", "send", "sent", "wait", "close"}, len : Nat]

CreditTypes ==
    /\ profile \in Profiles
    /\ call \in Calls
    /\ queue \in Seq(Notification)
    /\ stream \in Seq(Notification)
    /\ credits \in Nat
    /\ transmitted \in Nat
    /\ granted \in Nat
    /\ frames \in Nat

CreditsAccounted ==
    profile.flow => \E m \in Nat : Totals(queue, Spent, m) /\ Totals(stream, m, granted)

CreditInv == CreditTypes /\ CreditsAccounted

-----------------------------------------------------------------------------
(* Running totals. *)

\* Writes, credits and the credit of a write add up to a number.
LEMMA SumIsNatural ==
    ASSUME NEW t \in Nat, NEW k \in Nat, NEW op
    PROVE  t + k + (IF op = "send" THEN 1 ELSE 0) \in Nat
OBVIOUS

\* What is spent is a number.
LEMMA SpentIsNatural == CreditTypes => Spent \in Nat
BY SumIsNatural DEF CreditTypes, Spent

\* So is what is spent after a step.
LEMMA SpentStaysNatural ==
    ASSUME credits' \in Nat, transmitted' \in Nat
    PROVE  Spent' \in Nat
BY SumIsNatural, Zenon DEF Spent

\* A queue without notifications holds no credit.
LEMMA TotalsEmpty ==
    ASSUME NEW a \in Nat, NEW b \in Nat, a <= b
    PROVE  Totals(<<>>, a, b)
<1> DEFINE c == [i \in 0..0 |-> a]
<1>1. Len(<<>>) = 0
  OBVIOUS
<1>2. c \in [0..Len(<<>>) -> Nat] /\ c[0] = a
  BY <1>1
<1>3. \A i \in 1..Len(<<>>) : c[i] = c[i - 1] + CreditOf(<<>>[i])
  BY <1>1
<1>4. \A i \in 0..Len(<<>>) : c[i] <= b
  BY <1>1
<1> HIDE DEF c
<1> QED
  BY <1>2, <1>3, <1>4 DEF Totals

\* Totals never fall: what is spent before a queue is at most what is spent after it.
LEMMA TotalsOrdered ==
    ASSUME NEW s \in Seq(Notification), NEW a \in Nat, NEW b \in Nat, Totals(s, a, b)
    PROVE  a <= b
BY DEF Totals

\* Less spent, or more granted, leaves the totals possible.
LEMMA TotalsWiden ==
    ASSUME NEW s \in Seq(Notification), NEW a \in Nat, NEW b \in Nat, Totals(s, a, b),
           NEW x \in Nat, NEW y \in Nat, x <= a, b <= y
    PROVE  Totals(s, x, y)
<1>1. PICK c \in [0..Len(s) -> Nat] :
        /\ c[0] >= a
        /\ \A i \in 1..Len(s) : c[i] = c[i - 1] + CreditOf(s[i])
        /\ \A i \in 0..Len(s) : c[i] <= b
  BY Zenon DEF Totals
<1>2. c[0] >= x
  BY <1>1
<1>3. \A i \in 0..Len(s) : c[i] <= y
  BY <1>1
<1> QED
  BY <1>1, <1>2, <1>3, Zenon DEF Totals

\* A notification that joins a queue raises the last total by its credit.
LEMMA TotalsAppend ==
    ASSUME NEW s \in Seq(Notification), NEW f \in Notification, NEW a \in Nat, NEW b \in Nat,
           Totals(s, a, b)
    PROVE  Totals(Append(s, f), a, b + CreditOf(f))
<1>1. PICK c \in [0..Len(s) -> Nat] :
        /\ c[0] >= a
        /\ \A i \in 1..Len(s) : c[i] = c[i - 1] + CreditOf(s[i])
        /\ \A i \in 0..Len(s) : c[i] <= b
  BY Zenon DEF Totals
<1>2. CreditOf(f) \in Nat
  BY DEF CreditOf, Notification
<1> DEFINE t == Append(s, f)
           d == [i \in 0..(Len(s) + 1) |-> IF i <= Len(s) THEN c[i] ELSE c[Len(s)] + CreditOf(f)]
<1>3. Len(s) \in Nat /\ Len(t) = Len(s) + 1 /\ t[Len(s) + 1] = f /\ \A i \in 1..Len(s) : t[i] = s[i]
  OBVIOUS
<1> HIDE DEF t
<1>4. d \in [0..Len(t) -> Nat]
  <2>1. \A i \in 0..(Len(s) + 1) : i <= Len(s) => c[i] \in Nat
    BY <1>3
  <2>2. c[Len(s)] + CreditOf(f) \in Nat
    BY <1>2, <1>3
  <2>3. d \in [0..(Len(s) + 1) -> Nat]
    BY <2>1, <2>2
  <2> QED
    BY <2>3, <1>3
<1>5. d[0] >= a
  <2>1. d[0] = c[0]
    BY <1>3
  <2> QED
    BY <2>1, <1>1
<1>6. ASSUME NEW i \in 1..Len(t)
      PROVE  d[i] = d[i - 1] + CreditOf(t[i])
  <2>1. CASE i \in 1..Len(s)
    <3>1. d[i] = c[i] /\ d[i - 1] = c[i - 1]
      BY <2>1, <1>3
    <3>2. CreditOf(t[i]) = CreditOf(s[i])
      BY <2>1, <1>3
    <3> QED
      BY <3>1, <3>2, <2>1, <1>1, Zenon
  <2>2. CASE i = Len(s) + 1
    <3>1. d[i] = c[Len(s)] + CreditOf(f) /\ d[i - 1] = c[Len(s)]
      BY <2>2, <1>3
    <3> QED
      BY <3>1, <2>2, <1>3
  <2> QED
    BY <2>1, <2>2, <1>3
<1>7. ASSUME NEW i \in 0..Len(t)
      PROVE  d[i] <= b + CreditOf(f)
  <2>1. CASE i \in 0..Len(s)
    <3>1. d[i] = c[i] /\ c[i] <= b /\ c[i] \in Nat
      BY <2>1, <1>1, <1>3, SMTT(30)
    <3> QED
      BY <3>1, <1>2
  <2>2. CASE i = Len(s) + 1
    <3>1. d[i] = c[Len(s)] + CreditOf(f) /\ c[Len(s)] <= b /\ c[Len(s)] \in Nat
      BY <2>2, <1>1, <1>3
    <3> QED
      BY <3>1, <1>2
  <2> QED
    BY <2>1, <2>2, <1>3
<1> HIDE DEF d
<1>8. Totals(t, a, b + CreditOf(f))
  BY <1>4, <1>5, <1>6, <1>7, Zenon DEF Totals
<1> QED
  BY <1>8 DEF t

\* A notification that is received leaves with its credit, which is then at hand.
LEMMA TotalsTail ==
    ASSUME NEW s \in Seq(Notification), s # <<>>, NEW a \in Nat, NEW b \in Nat, Totals(s, a, b)
    PROVE  Totals(Tail(s), a + CreditOf(Head(s)), b)
<1>1. PICK c \in [0..Len(s) -> Nat] :
        /\ c[0] >= a
        /\ \A i \in 1..Len(s) : c[i] = c[i - 1] + CreditOf(s[i])
        /\ \A i \in 0..Len(s) : c[i] <= b
  BY Zenon DEF Totals
<1> DEFINE t == Tail(s)
           d == [i \in 0..(Len(s) - 1) |-> c[i + 1]]
<1>2. Len(s) \in Nat \ {0} /\ Len(t) = Len(s) - 1 /\ Head(s) = s[1]
      /\ \A i \in 1..Len(t) : t[i] = s[i + 1]
  OBVIOUS
<1>0. Head(s) \in Notification
  OBVIOUS
<1> HIDE DEF t
<1>3. d \in [0..Len(t) -> Nat]
  BY <1>1, <1>2
<1>4. d[0] >= a + CreditOf(Head(s))
  <2>1. d[0] = c[1]
    BY <1>2
  <2>2. c[1] = c[0] + CreditOf(s[1])
    BY <1>1, <1>2
  <2>3. CreditOf(Head(s)) \in Nat
    BY <1>0 DEF CreditOf, Notification
  <2> QED
    BY <2>1, <2>2, <2>3, <1>1, <1>2
<1>5. ASSUME NEW i \in 1..Len(t)
      PROVE  d[i] = d[i - 1] + CreditOf(t[i])
  <2>1. d[i] = c[i + 1] /\ d[i - 1] = c[i]
    BY <1>2
  <2>2. c[i + 1] = c[i] + CreditOf(s[i + 1])
    <3>1. i + 1 \in 1..Len(s) /\ (i + 1) - 1 = i
      BY <1>2
    <3> QED
      BY <3>1, <1>1
  <2> QED
    BY <2>1, <2>2, <1>2
<1>6. \A i \in 0..Len(t) : d[i] <= b
  BY <1>1, <1>2
<1> HIDE DEF d
<1>7. Totals(t, a + CreditOf(Head(s)), b)
  BY <1>3, <1>4, <1>5, <1>6, Zenon DEF Totals
<1> QED
  BY <1>7 DEF t

-----------------------------------------------------------------------------
(* The steps. *)

\* Nothing is spent or granted before the first call.
LEMMA CreditInit == Init => CreditInv
<1> SUFFICES ASSUME Init PROVE CreditInv
  OBVIOUS
<1>1. CreditTypes
  BY DEF Init, CreditTypes, Calls, Idle
<1>2. Spent = 0 /\ queue = <<>> /\ stream = <<>> /\ granted = 0
  BY DEF Init, Spent, Idle
<1>3. Totals(<<>>, 0, 0)
  BY TotalsEmpty
<1> QED
  BY <1>1, <1>2, <1>3 DEF CreditInv, CreditsAccounted

\* A step that moves no notification and spends nothing keeps the account.
LEMMA QuietStep ==
    ASSUME CreditInv, CreditTypes', UNCHANGED <<profile, queue, stream>>,
           granted <= granted', profile.flow => Spent' <= Spent
    PROVE  CreditInv'
<1>1. CASE ~profile.flow
  BY <1>1 DEF CreditInv, CreditsAccounted
<1>2. CASE profile.flow
  <2>1. PICK m \in Nat : Totals(queue, Spent, m) /\ Totals(stream, m, granted)
    BY <1>2 DEF CreditInv, CreditsAccounted
  <2>2. Spent \in Nat /\ Spent' \in Nat /\ granted \in Nat /\ granted' \in Nat
    <3>1. credits' \in Nat /\ transmitted' \in Nat
      BY DEF CreditTypes
    <3>2. Spent' \in Nat
      BY <3>1, SpentStaysNatural
    <3> QED
      BY <3>2, SpentIsNatural DEF CreditInv, CreditTypes
  <2>3. queue \in Seq(Notification) /\ stream \in Seq(Notification)
    BY DEF CreditInv, CreditTypes
  <2>4. Totals(queue, Spent', m)
    BY <2>1, <2>2, <2>3, <1>2, TotalsWiden
  <2>5. Totals(stream, m, granted')
    BY <2>1, <2>2, <2>3, TotalsWiden
  <2>6. queue' = queue /\ stream' = stream
    OBVIOUS
  <2>7. Totals(queue', Spent', m) /\ Totals(stream', m, granted')
    BY <2>4, <2>5, <2>6
  <2> QED
    BY <2>7 DEF CreditInv, CreditsAccounted
<1> QED
  BY <1>1, <1>2

\* Connecting and subscribing.
LEMMA OpeningStep ==
    ASSUME CreditInv,
           Connect \/ BeginSubscribe \/ StreamOpens \/ PrinterEnables \/ Subscribed
    PROVE  CreditInv'
<1>1. UNCHANGED <<profile, queue, stream, granted, frames, credits, transmitted>>
  BY Zenon DEF Connect, ConnectFails, Link, DiscoverFails, Select, BeginSubscribe, StreamOpens,
         PrinterEnables, Subscribed, notifications, history, flow, printer
<1>2. call \in Calls
  BY DEF CreditInv, CreditTypes
<1>3. /\ call' \in Calls
      /\ call'.op = "send" => call.op = "send"
  <2>1. CASE Connect \/ PrinterEnables
    <3>1. call' = call
      BY <2>1, Zenon DEF Connect, ConnectFails, Link, DiscoverFails, Select, PrinterEnables
    <3> QED
      BY <3>1, <1>2
  <2>2. CASE BeginSubscribe
    BY <2>2 DEF BeginSubscribe, Idle, Calls
  <2>3. CASE StreamOpens
    BY <2>3, <1>2 DEF StreamOpens, Calls
  <2>4. CASE Subscribed
    BY <2>4 DEF Subscribed, Done, Idle, Calls
  <2> QED
    BY <2>1, <2>2, <2>3, <2>4
<1>4. CreditTypes'
  BY <1>1, <1>3 DEF CreditInv, CreditTypes
<1>5. granted \in Nat /\ credits \in Nat /\ transmitted \in Nat
  BY DEF CreditInv, CreditTypes
<1>6. Spent' <= Spent
  BY <1>1, <1>3, <1>5 DEF Spent
<1>7. granted <= granted'
  BY <1>1, <1>5
<1> QED
  BY <1>1, <1>4, <1>6, <1>7, QuietStep

\* The steps of writes, waits and closing that take nothing from the queue.  A credit
\* is consumed before the write it pays for is on its way.
LEMMA CallStep ==
    ASSUME CreditInv,
           \/ \E n \in Lengths : BeginWrite(n)
           \/ TakeCredit \/ Transmit \/ WriteEnds \/ Abandon \/ StreamEnded
           \/ BeginWait \/ WaitTimeout \/ DisconnectEnds \/ HangUp \/ ForwarderEnds
    PROVE  CreditInv'
<1>1. UNCHANGED <<profile, queue, stream, granted, frames>>
  BY Zenon DEF BeginWrite, TakeCredit, Transmit, WriteEnds, Abandon, StreamEnded, BeginWait,
      WaitTimeout,
         DisconnectEnds, HangUp, ForwarderEnds, notifications, history, flow, printer
<1>2. /\ call \in Calls
      /\ credits \in Nat /\ transmitted \in Nat /\ granted \in Nat
  BY DEF CreditInv, CreditTypes
<1>3. call' \in Calls
  <2>1. Idle \in Calls /\ [Idle EXCEPT !.op = "wait"] \in Calls
    BY DEF Idle, Calls
  <2>2. CASE \E n \in Lengths : BeginWrite(n)
    <3>1. PICK n \in Lengths : BeginWrite(n)
      BY <2>2
    <3>2. n \in Nat
      BY BleAssumption
    <3> QED
      BY <3>1, <3>2, <1>2 DEF BeginWrite, Calls
  <2>3. CASE TakeCredit \/ Transmit
    BY <2>1, <2>3, <1>2 DEF TakeCredit, Transmit, Calls
  <2>4. CASE WriteEnds \/ Abandon \/ StreamEnded \/ WaitTimeout \/ DisconnectEnds
    BY <2>1, <2>4, Zenon DEF WriteEnds, Abandon, StreamEnded, WaitTimeout, DisconnectEnds, Done
  <2>5. CASE BeginWait \/ HangUp \/ ForwarderEnds
    BY <2>1, <2>5, <1>2, Zenon DEF BeginWait, HangUp, ForwarderEnds
  <2> QED
    BY <2>2, <2>3, <2>4, <2>5
<1>4. credits' \in Nat /\ transmitted' \in Nat
  <2>1. CASE TakeCredit
    BY <2>1, <1>2 DEF TakeCredit, history
  <2>2. CASE Transmit \/ WriteEnds
    BY <2>2, <1>2 DEF Transmit, WriteEnds, flow
  <2>3. CASE \/ \E n \in Lengths : BeginWrite(n)
             \/ Abandon \/ StreamEnded \/ BeginWait \/ WaitTimeout \/ DisconnectEnds \/ HangUp
             \/ ForwarderEnds
    <3>1. UNCHANGED <<credits, transmitted>>
      BY <2>3, Zenon DEF BeginWrite, Abandon, StreamEnded, BeginWait, WaitTimeout,
          DisconnectEnds, HangUp,
                  ForwarderEnds, notifications, history, flow
    <3> QED
      BY <3>1, <1>2
  <2> QED
    BY <2>1, <2>2, <2>3
<1>5. CreditTypes'
  BY <1>1, <1>3, <1>4 DEF CreditInv, CreditTypes
<1>6. profile.flow => Spent' <= Spent
  <2>1. CASE \E n \in Lengths : BeginWrite(n)
    BY <2>1, <1>2 DEF BeginWrite, Ready, Idle, Spent, Calls, notifications, history, flow
  <2>2. CASE TakeCredit
    BY <2>2, <1>2 DEF TakeCredit, Idle, Spent, Calls, history
  <2>3. CASE Transmit \/ WriteEnds
    BY <2>3, <1>2 DEF Transmit, WriteEnds, Done, Idle, Spent, Calls, flow
  <2>4. CASE Abandon \/ StreamEnded \/ WaitTimeout \/ DisconnectEnds
    <3>1. UNCHANGED <<credits, transmitted>> /\ call' = Idle
      BY <2>4, Zenon DEF Abandon, StreamEnded, WaitTimeout, DisconnectEnds, Done, notifications,
          history,
                  flow
    <3> QED
      BY <3>1, <1>2 DEF Spent, Idle
  <2>5. CASE BeginWait \/ HangUp \/ ForwarderEnds
    BY <2>5, <1>2 DEF BeginWait, HangUp, ForwarderEnds, Ready, Idle, Spent, history, flow
  <2> QED
    BY <2>1, <2>2, <2>3, <2>4, <2>5
<1>7. granted <= granted'
  BY <1>1, <1>2
<1> QED
  BY <1>1, <1>5, <1>6, <1>7, QuietStep

\* What observing a notification adds to the credits at hand is its credit.
LEMMA ObserveAdds ==
    ASSUME NEW f \in Notification, credits \in Nat, Observe(f)
    PROVE  credits' = credits + CreditOf(f)
BY DEF Observe, CreditOf, Notification

\* A write that waits for credit, or a wait for a response, takes a notification.
LEMMA ReceiveStep ==
    ASSUME CreditInv, ReceiveForCredit \/ ReceiveResponse
    PROVE  CreditInv'
<1>1. /\ UNCHANGED <<profile, stream, granted, frames, transmitted>>
      /\ queue # <<>> /\ queue' = Tail(queue)
      /\ call' = call \/ call' = Idle
      /\ call.op # "send"
  BY DEF ReceiveForCredit, ReceiveResponse, Done, history, flow, printer
<1>2. /\ queue \in Seq(Notification) /\ stream \in Seq(Notification)
      /\ credits \in Nat /\ transmitted \in Nat /\ granted \in Nat
  BY DEF CreditInv, CreditTypes
<1>3. Head(queue) \in Notification /\ queue' \in Seq(Notification)
  BY <1>1, <1>2
<1>4. CreditOf(Head(queue)) \in Nat
  BY <1>3 DEF CreditOf, Notification
<1>5. Observe(Head(queue)) \/ credits' = credits
  BY DEF ReceiveForCredit, ReceiveResponse, flow
<1>6. credits' \in Nat /\ credits' <= credits + CreditOf(Head(queue))
  <2>1. CASE Observe(Head(queue))
    BY <2>1, <1>2, <1>3, <1>4, ObserveAdds
  <2>2. CASE credits' = credits
    BY <2>2, <1>2, <1>4
  <2> QED
    BY <1>5, <2>1, <2>2
<1>7. CreditTypes'
  BY <1>1, <1>3, <1>6 DEF CreditInv, CreditTypes, Calls, Idle
<1>8. ASSUME profile.flow
      PROVE  \E m \in Nat : Totals(queue', Spent', m) /\ Totals(stream', m, granted')
  <2>1. PICK m \in Nat : Totals(queue, Spent, m) /\ Totals(stream, m, granted)
    BY <1>8 DEF CreditInv, CreditsAccounted
  <2>2. Spent \in Nat /\ Spent' \in Nat
    <3>1. transmitted' \in Nat
      BY <1>1, <1>2
    <3>2. Spent' \in Nat
      BY <3>1, <1>6, SpentStaysNatural
    <3> QED
      BY <3>2, SpentIsNatural DEF CreditInv
  <2>3. Spent' <= Spent + CreditOf(Head(queue))
    BY <1>1, <1>2, <1>4, <1>6, SMTT(30) DEF Spent, Idle
  <2>4. Totals(queue', Spent + CreditOf(Head(queue)), m)
    BY <2>1, <2>2, <1>1, <1>2, TotalsTail
  <2>5. Totals(queue', Spent', m)
    <3>1. Spent + CreditOf(Head(queue)) \in Nat
      BY <2>2, <1>4
    <3> QED
      BY <3>1, <2>2, <2>3, <2>4, <1>3, TotalsWiden
  <2> QED
    BY <2>1, <2>5, <1>1
<1> QED
  BY <1>1, <1>7, <1>8 DEF CreditInv, CreditsAccounted

\* The forwarding task carries a notification, with its credit, from the stream to the queue.
LEMMA ForwardStep ==
    ASSUME CreditInv, Forward
    PROVE  CreditInv'
<1>1. /\ UNCHANGED <<profile, call, credits, transmitted, granted, frames>>
      /\ stream # <<>> /\ stream' = Tail(stream) /\ queue' = Append(queue, Head(stream))
  BY DEF Forward, history, flow
<1>2. queue \in Seq(Notification) /\ stream \in Seq(Notification) /\ granted \in Nat
  BY DEF CreditInv, CreditTypes
<1>3. /\ Head(stream) \in Notification
      /\ queue' \in Seq(Notification) /\ stream' \in Seq(Notification)
  BY <1>1, <1>2
<1>4. CreditTypes'
  BY <1>1, <1>3 DEF CreditInv, CreditTypes
<1>5. ASSUME profile.flow
      PROVE  \E m \in Nat : Totals(queue', Spent', m) /\ Totals(stream', m, granted')
  <2>1. PICK m \in Nat : Totals(queue, Spent, m) /\ Totals(stream, m, granted)
    BY <1>5 DEF CreditInv, CreditsAccounted
  <2>2. Spent \in Nat /\ Spent' = Spent
    BY SpentIsNatural, <1>1 DEF CreditInv, Spent
  <2>3. m + CreditOf(Head(stream)) \in Nat
    BY <1>3 DEF CreditOf, Notification
  <2>4. Totals(queue', Spent', m + CreditOf(Head(stream)))
    BY <2>1, <2>2, <1>1, <1>2, <1>3, TotalsAppend
  <2>5. Totals(stream', m + CreditOf(Head(stream)), granted')
    BY <2>1, <1>1, <1>2, TotalsTail
  <2> QED
    BY <2>3, <2>4, <2>5
<1> QED
  BY <1>1, <1>4, <1>5 DEF CreditInv, CreditsAccounted

\* The printer notifies: a credit is granted before it enters the stream.
LEMMA NotifyStep ==
    ASSUME CreditInv, NEW f \in Frames, Notify(f)
    PROVE  CreditInv'
<1>1. /\ UNCHANGED <<profile, call, credits, transmitted, queue>>
      /\ frames' = frames + 1
      /\ granted' = IF f.kind = "credit" THEN granted + f.n ELSE granted
      /\ stream' = Append(stream, f) \/ stream' = stream
  BY DEF Notify, history, flow
<1>2. /\ queue \in Seq(Notification) /\ stream \in Seq(Notification)
      /\ granted \in Nat /\ frames \in Nat
  BY DEF CreditInv, CreditTypes
<1>3. f \in Notification
  <2>1. f.n \in Nat /\ f = [kind |-> f.kind, n |-> f.n]
    <3>1. CASE f \in [kind : {"credit"}, n : Grants] \union [kind : {"limit"}, n : FlowLimits]
      BY <3>1, BleAssumption, Zenon
    <3>2. CASE f \in [kind : {"response"}, n : {frames + 1}]
      BY <3>2, <1>2
    <3> QED
      BY <3>1, <3>2 DEF Frames
  <2>2. f.kind \in {"credit", "limit", "response"}
    BY DEF Frames
  <2> QED
    BY <2>1, <2>2 DEF Notification
<1>4. CreditOf(f) \in Nat /\ granted' = granted + CreditOf(f) /\ granted' \in Nat
  BY <1>1, <1>2, <1>3 DEF CreditOf, Notification
<1>5. stream' \in Seq(Notification)
  BY <1>1, <1>2, <1>3, SMTT(30)
<1>6. frames' \in Nat
  BY <1>1, <1>2
<1>7. CreditTypes'
  BY <1>1, <1>4, <1>5, <1>6, Zenon DEF CreditInv, CreditTypes
<1>8. ASSUME profile.flow
      PROVE  \E m \in Nat : Totals(queue', Spent', m) /\ Totals(stream', m, granted')
  <2>1. PICK m \in Nat : Totals(queue, Spent, m) /\ Totals(stream, m, granted)
    BY <1>8 DEF CreditInv, CreditsAccounted
  <2>2. queue' = queue /\ Spent' = Spent
    BY <1>1 DEF Spent
  <2>3. Totals(Append(stream, f), m, granted')
    BY <2>1, <1>2, <1>3, <1>4, TotalsAppend
  <2>4. Totals(stream, m, granted')
    <3>1. m <= m /\ granted <= granted'
      BY <1>2, <1>4
    <3> QED
      BY <3>1, <2>1, <1>2, <1>4, TotalsWiden, Zenon
  <2> QED
    BY <2>1, <2>2, <2>3, <2>4, <1>1, Zenon
<1> QED
  BY <1>1, <1>7, <1>8, Zenon DEF CreditInv, CreditsAccounted

\* Dropping the stream, or the stream and the queue, loses credits and invents none.
LEMMA DropStep ==
    ASSUME CreditInv, SubscribeEnds \/ BeginDisconnect \/ DropTransport
    PROVE  CreditInv'
<1>1. /\ UNCHANGED <<profile, credits, transmitted, granted, frames>>
      /\ stream' = <<>> /\ (queue' = queue \/ queue' = <<>>)
      /\ call.op # "send" /\ call'.op # "send"
  BY DEF SubscribeEnds, BeginDisconnect, DropTransport, StopForwarding, Ready, Done, Idle, history,
         flow, printer
<1>2. /\ queue \in Seq(Notification) /\ stream \in Seq(Notification) /\ granted \in Nat
  BY DEF CreditInv, CreditTypes
<1>3. call' \in Calls
  BY DEF SubscribeEnds, BeginDisconnect, DropTransport, Ready, Done, Idle, Calls
<1>4. CreditTypes'
  <2>1. <<>> \in Seq(Notification)
    OBVIOUS
  <2>2. queue' \in Seq(Notification) /\ stream' \in Seq(Notification)
    BY <1>1, <1>2, <2>1, Zenon
  <2> QED
    BY <1>1, <1>3, <2>2 DEF CreditInv, CreditTypes
<1>5. ASSUME profile.flow
      PROVE  \E m \in Nat : Totals(queue', Spent', m) /\ Totals(stream', m, granted')
  <2>1. PICK m \in Nat : Totals(queue, Spent, m) /\ Totals(stream, m, granted)
    BY <1>5 DEF CreditInv, CreditsAccounted
  <2>2. Spent \in Nat /\ Spent' = Spent
    BY SpentIsNatural, <1>1 DEF CreditInv, Spent
  <2>3. Spent <= m /\ m <= granted
    BY <2>1, <2>2, <1>2, TotalsOrdered
  <2>4. Totals(<<>>, Spent, m) /\ Totals(<<>>, m, granted)
    BY <2>2, <2>3, <1>2, TotalsEmpty
  <2> QED
    BY <2>1, <2>2, <2>4, <1>1
<1> QED
  BY <1>1, <1>4, <1>5 DEF CreditInv, CreditsAccounted

-----------------------------------------------------------------------------

\* The account of the credits is inductive: it holds in every state of every behaviour.
THEOREM CreditInvariant == Spec => []CreditInv
<1>1. Init => CreditInv
  BY CreditInit
<1>2. CreditInv /\ [Next]_vars => CreditInv'
  <2> SUFFICES ASSUME CreditInv, [Next]_vars PROVE CreditInv'
    OBVIOUS
  <2>1. CASE Connect \/ BeginSubscribe \/ StreamOpens \/ PrinterEnables \/ Subscribed
    BY <2>1, OpeningStep
  <2>2. CASE \/ \E n \in Lengths : BeginWrite(n)
             \/ TakeCredit \/ Transmit \/ WriteEnds \/ Abandon \/ StreamEnded
             \/ BeginWait \/ WaitTimeout \/ DisconnectEnds \/ HangUp \/ ForwarderEnds
    BY <2>2, CallStep
  <2>3. CASE ReceiveForCredit \/ ReceiveResponse
    BY <2>3, ReceiveStep
  <2>4. CASE Forward
    BY <2>4, ForwardStep
  <2>5. CASE \E f \in Frames : Notify(f)
    BY <2>5, NotifyStep
  <2>6. CASE SubscribeEnds \/ BeginDisconnect \/ DropTransport
    BY <2>6, DropStep
  <2>7. CASE UNCHANGED vars
    <3>1. UNCHANGED <<profile, queue, stream, granted, frames, call, credits, transmitted>>
      BY <2>7 DEF vars, flow, printer
    <3>2. CreditTypes' /\ Spent' = Spent
      BY <3>1 DEF CreditInv, CreditTypes, Spent
    <3> QED
      BY <3>1, <3>2 DEF CreditInv, CreditsAccounted
  <2> QED
    BY <2>1, <2>2, <2>3, <2>4, <2>5, <2>6, <2>7 DEF Next, CreditStep
<1> QED
  BY <1>1, <1>2, PTL DEF Spec

\* The printer is never sent a write it gave no credit for, in any order of
\* abandoned calls, late notifications and lost connections, with queues of any size.
THEOREM CreditIsKept == Spec => []WithinCredit
<1>1. CreditInv => WithinCredit
  <2> SUFFICES ASSUME CreditInv, profile.flow
               PROVE  credits >= 0 /\ Spent <= granted
    BY DEF WithinCredit, Spent
  <2>1. PICK m \in Nat : Totals(queue, Spent, m) /\ Totals(stream, m, granted)
    BY DEF CreditInv, CreditsAccounted
  <2>2. Spent \in Nat /\ granted \in Nat /\ credits \in Nat
    BY SpentIsNatural DEF CreditInv, CreditTypes
  <2>3. queue \in Seq(Notification) /\ stream \in Seq(Notification)
    BY DEF CreditInv, CreditTypes
  <2>4. Spent <= m /\ m <= granted
    BY <2>1, <2>2, <2>3, TotalsOrdered
  <2> QED
    BY <2>2, <2>4
<1> QED
  BY <1>1, CreditInvariant, PTL

-----------------------------------------------------------------------------
(* Bluetooth LE: responses                                                  *)
(*                                                                         *)
(* Concatenation is taken apart by its algebra alone: while subscribed the *)
(* responses kept are a chain of four parts, and each step moves one       *)
(* response over the border of two of them.  Before the subscription the   *)
(* queue is empty, and without flow control nothing is ever set aside.     *)

\* The responses to add to a list of them for one more notification.
Heard(f) == IF f.kind = "response" THEN <<f.n>> ELSE <<>>

\* The lists of the responses among the first notifications of s.
Listing(g, s) ==
    /\ g \in [0..Len(s) -> Seq(Nat)] /\ g[0] = <<>>
    /\ \A i \in 1..Len(s) : g[i] = g[i - 1] \o Heard(s[i])

\* Joining sequences of numbers.
LEMMA Joined ==
    ASSUME NEW a \in Seq(Nat), NEW b \in Seq(Nat), NEW c \in Seq(Nat)
    PROVE  /\ a \o b \in Seq(Nat) /\ (a \o b) \o c = a \o (b \o c)
           /\ a \o <<>> = a /\ <<>> \o a = a
<1>1. a \o b \in Seq(Nat) /\ b \o c \in Seq(Nat)
    OBVIOUS
<1>2. (a \o b) \o c = a \o (b \o c)
    OBVIOUS
<1> QED
    BY <1>1, <1>2

LEMMA AppendJoins ==
    ASSUME NEW a \in Seq(Nat), NEW x \in Nat
    PROVE  <<x>> \in Seq(Nat) /\ Append(a, x) = a \o <<x>>
OBVIOUS

LEMMA HeardType ==
    ASSUME NEW f \in Notification
    PROVE  Heard(f) \in Seq(Nat)
BY DEF Heard, Notification

LEMMA ResponsesListed ==
    ASSUME NEW s \in Seq(Notification)
    PROVE  \E g : Listing(g, s) /\ Responses(s) = g[Len(s)]
<1> DEFINE n == Len(s)
           S == Seq(Nat)
           none == <<>>
           step == [p \in S \X (1..n) |-> p[1] \o Heard(s[p[2]])]
           body(g) == [i \in 0..n |-> IF i = 0 THEN <<>>
                                      ELSE IF s[i].kind = "response" THEN Append(g[i - 1], s[i].n)
                                      ELSE g[i - 1]]
<1>0. n \in Nat /\ \A i \in 1..n : s[i] \in Notification /\ Heard(s[i]) \in S /\ s[i].n \in Nat
  <2>1. n \in Nat /\ \A i \in 1..n : s[i] \in Notification
      OBVIOUS
  <2>2. \A x \in Notification : x.n \in Nat
      BY DEF Notification
  <2> QED
      BY <2>1, <2>2, HeardType
<1>1. step \in [S \X (1..n) -> S]
    BY <1>0
<1>2. \A q \in S, i \in 1..n : step[<<q, i>>] = q \o Heard(s[i])
    BY Zenon
<1>3. none \in S
    OBVIOUS
<1>4. \A q \in S, i \in 1..n :
          q \o Heard(s[i]) = IF s[i].kind = "response" THEN Append(q, s[i].n) ELSE q
  <2> TAKE q \in S, i \in 1..n
  <2>1. CASE s[i].kind = "response"
      BY <1>0, <2>1, AppendJoins DEF Heard
  <2>2. CASE s[i].kind # "response"
      BY <1>0, <2>2, Joined DEF Heard
  <2> QED
      BY <2>1, <2>2, Zenon
<1>5. Responses(s) = (CHOOSE g : g = body(g))[n]
    BY DEF Responses
<1> HIDE DEF n, S, step, none
<1>6. PICK g : Iterates(g, S, none, n, step)
  <2>1. n \in Nat
      BY <1>0
  <2> QED
      BY <1>1, <1>3, <2>1, RecursionExists, Zenon
<1>6a. g \in [0..n -> S] /\ g[0] = none /\ \A i \in 1..n : g[i] = step[<<g[i - 1], i>>]
    BY <1>6 DEF Iterates
<1>7. \A i \in 1..n : i - 1 \in 0..n /\ i \in 0..n
    BY <1>0
<1>8. \A i \in 1..n : g[i] = g[i - 1] \o Heard(s[i])
    BY <1>2, <1>6a, <1>7, Zenon
<1>9. g = body(g)
  <2>1. \A i \in 1..n : g[i] = IF s[i].kind = "response" THEN Append(g[i - 1], s[i].n)
                               ELSE g[i - 1]
      BY <1>4, <1>6a, <1>7, <1>8, Zenon
  <2>2. \A i \in 0..n : i = 0 \/ i \in 1..n
      BY <1>0
  <2>3. \A i \in 0..n : g[i] = body(g)[i]
      BY <1>6a, <2>1, <2>2, Zenon DEF none
  <2> QED
      BY <1>6a, <2>3, Zenon
<1> DEFINE f == CHOOSE f : f = body(f)
<1>10. f = body(f)
    BY <1>9, Zenon
<1> HIDE DEF f
<1>11. \A i \in 0..n : f[i] = IF i = 0 THEN <<>>
                              ELSE IF s[i].kind = "response" THEN Append(f[i - 1], s[i].n)
                              ELSE f[i - 1]
    BY <1>10, Zenon
<1>12. \A i \in 0..n : f[i] = g[i]
  <2> DEFINE T == {i \in 0..n : f[i] = g[i]}
  <2>1. 0 \in T
    <3>1. 0 \in 0..n
        BY <1>0
    <3>2. f[0] = <<>>
        BY <1>11, <3>1
    <3> QED
        BY <1>6a, <3>1, <3>2 DEF none
  <2>2. ASSUME NEW i \in 1..n, i - 1 \in T PROVE i \in T
    <3>1. i # 0 /\ i \in 0..n /\ i - 1 \in 0..n /\ f[i - 1] = g[i - 1]
        BY <1>7, <2>2
    <3>2. g[i] = IF s[i].kind = "response" THEN Append(g[i - 1], s[i].n) ELSE g[i - 1]
        BY <1>4, <1>6a, <1>8, <3>1, Zenon
    <3>3. f[i] = IF s[i].kind = "response" THEN Append(f[i - 1], s[i].n) ELSE f[i - 1]
        BY <1>11, <3>1
    <3>4. f[i] = g[i]
      <4>1. CASE s[i].kind = "response"
          BY <3>1, <3>2, <3>3, <4>1
      <4>2. CASE s[i].kind # "response"
          BY <3>1, <3>2, <3>3, <4>2
      <4> QED
          BY <4>1, <4>2
    <3> QED
        BY <3>1, <3>4
  <2> HIDE DEF T
  <2>3. \A i \in 0..n : i \in T
      BY <1>0, <2>1, <2>2, UpTo, Zenon
  <2> QED
      BY <2>3 DEF T
<1>13. Responses(s) = g[n]
  <2>1. Responses(s) = f[n]
      BY <1>5 DEF f
  <2>2. n \in 0..n
      BY <1>0
  <2> QED
      BY <1>12, <2>1, <2>2
<1> QED
    BY <1>6a, <1>8, <1>13, Zenon DEF Listing, n, S, none

\* Two listings of the same notifications agree.
LEMMA ListingUnique ==
    ASSUME NEW s \in Seq(Notification), NEW r \in Seq(Notification), NEW g, Listing(g, s),
           NEW h, Listing(h, r), Len(s) <= Len(r), \A i \in 1..Len(s) : r[i] = s[i]
    PROVE  \A i \in 0..Len(s) : h[i] = g[i]
<1> DEFINE T == {i \in 0..Len(s) : h[i] = g[i]}
<1>0. Len(s) \in Nat /\ Len(r) \in Nat
    OBVIOUS
<1>1. 0 \in T
    BY <1>0 DEF Listing
<1>2. ASSUME NEW i \in 1..Len(s), i - 1 \in T PROVE i \in T
  <2>1. i \in 1..Len(r) /\ r[i] = s[i] /\ i \in 0..Len(s) /\ h[i - 1] = g[i - 1]
      BY <1>0, <1>2
  <2>2. g[i] = g[i - 1] \o Heard(s[i]) /\ h[i] = h[i - 1] \o Heard(r[i])
      BY <2>1, Zenon DEF Listing
  <2> QED
      BY <2>1, <2>2, Zenon
<1> HIDE DEF T
<1>3. \A i \in 0..Len(s) : i \in T
    BY <1>0, <1>1, <1>2, UpTo, Zenon
<1> QED
    BY <1>3 DEF T

LEMMA ResponsesType ==
    ASSUME NEW s \in Seq(Notification)
    PROVE  Responses(s) \in Seq(Nat) /\ Responses(<<>>) = <<>>
<1>1. PICK g : Listing(g, s) /\ Responses(s) = g[Len(s)]
    BY ResponsesListed
<1>2. Len(s) \in 0..Len(s)
    OBVIOUS
<1>3. <<>> \in Seq(Notification) /\ Len(<<>>) = 0
    OBVIOUS
<1>4. PICK h : Listing(h, <<>>) /\ Responses(<<>>) = h[Len(<<>>)]
    BY <1>3, ResponsesListed, Zenon
<1> QED
    BY <1>1, <1>2, <1>3, <1>4 DEF Listing

\* A notification more at the end.
LEMMA ResponsesAppend ==
    ASSUME NEW s \in Seq(Notification), NEW x \in Notification
    PROVE  Responses(Append(s, x)) = Responses(s) \o Heard(x)
<1> DEFINE r == Append(s, x)
<1>1. /\ r \in Seq(Notification) /\ Len(s) \in Nat /\ Len(r) = Len(s) + 1
      /\ r[Len(s) + 1] = x /\ \A i \in 1..Len(s) : r[i] = s[i]
    BY AppendFacts
<1> HIDE DEF r
<1>2. PICK g : Listing(g, s) /\ Responses(s) = g[Len(s)]
    BY ResponsesListed
<1>3. PICK h : Listing(h, r) /\ Responses(r) = h[Len(r)]
    BY <1>1, ResponsesListed
<1>4. h[Len(s)] = g[Len(s)]
  <2>1. Len(s) <= Len(r) /\ Len(s) \in 0..Len(s)
      BY <1>1
  <2> QED
      BY <1>1, <1>2, <1>3, <2>1, ListingUnique
<1>5. h[Len(r)] = h[Len(s)] \o Heard(x)
  <2>1. Len(r) \in 1..Len(r) /\ Len(r) - 1 = Len(s) /\ r[Len(r)] = x
      BY <1>1
  <2> QED
      BY <1>3, <2>1, Zenon DEF Listing
<1> QED
    BY <1>2, <1>3, <1>4, <1>5 DEF r

\* The first notification.
LEMMA ResponsesTail ==
    ASSUME NEW s \in Seq(Notification), s # <<>>
    PROVE  Responses(s) = Heard(Head(s)) \o Responses(Tail(s))
<1> DEFINE t == Tail(s)
           x == Head(s)
<1>1. /\ t \in Seq(Notification) /\ Len(s) \in Nat \ {0} /\ Len(t) = Len(s) - 1
      /\ x = s[1] /\ x \in Notification /\ \A i \in 1..Len(t) : t[i] = s[i + 1]
  <2>1. /\ Tail(s) \in Seq(Notification)
        /\ Len(s) \in Nat \ {0} /\ Len(Tail(s)) = Len(s) - 1
        /\ Head(s) = s[1] /\ s[1] \in Notification
        /\ \A i \in 1..(Len(s) - 1) : Tail(s)[i] = s[i + 1]
      BY TailFacts
  <2> QED
      BY <2>1
<1> HIDE DEF t, x
<1>2. PICK g : Listing(g, s) /\ Responses(s) = g[Len(s)]
    BY ResponsesListed
<1>3. PICK h : Listing(h, t) /\ Responses(t) = h[Len(t)]
    BY <1>1, ResponsesListed
<1> DEFINE T == {i \in 0..Len(t) : g[i + 1] = Heard(x) \o h[i]}
<1>4. Heard(x) \in Seq(Nat)
    BY <1>1, HeardType
<1>5. 0 \in T
  <2>1. 1 \in 1..Len(s) /\ 0 \in 0..Len(t) /\ 1 - 1 = 0 /\ 0 + 1 = 1
      BY <1>1
  <2>2. g[1] = <<>> \o Heard(x) /\ h[0] = <<>>
      BY <1>1, <1>2, <1>3, <2>1, Zenon DEF Listing
  <2>3. <<>> \o Heard(x) = Heard(x) \o <<>>
      BY <1>4, Joined
  <2> QED
      BY <2>1, <2>2, <2>3, Zenon
<1>6. ASSUME NEW i \in 1..Len(t), i - 1 \in T PROVE i \in T
  <2>1. /\ i + 1 \in 1..Len(s) /\ (i + 1) - 1 = i /\ (i - 1) + 1 = i /\ i \in 0..Len(t)
        /\ i - 1 \in 0..Len(t) /\ t[i] = s[i + 1]
      BY <1>1
  <2>2. g[i + 1] = g[i] \o Heard(t[i])
      BY <1>2, <2>1, Zenon DEF Listing
  <2>3. g[i] = Heard(x) \o h[i - 1]
      BY <1>6, <2>1
  <2>4. h[i] = h[i - 1] \o Heard(t[i]) /\ h[i - 1] \in Seq(Nat)
      BY <1>3, <2>1, Zenon DEF Listing
  <2>5. Heard(t[i]) \in Seq(Nat)
      BY <1>1, HeardType
  <2>6. (Heard(x) \o h[i - 1]) \o Heard(t[i]) = Heard(x) \o (h[i - 1] \o Heard(t[i]))
    <3> DEFINE p == Heard(x)
               q == h[i - 1]
               z == Heard(t[i])
    <3>1. p \in Seq(Nat) /\ q \in Seq(Nat) /\ z \in Seq(Nat)
        BY <1>4, <2>4, <2>5
    <3> HIDE DEF p, q, z
    <3>2. (p \o q) \o z = p \o (q \o z)
        BY <3>1, SMTT(30)
    <3> QED
        BY <3>2 DEF p, q, z
  <2> QED
      BY <2>1, <2>2, <2>3, <2>4, <2>6, Zenon
<1> HIDE DEF T
<1>7. Len(t) \in T
  <2>1. Len(t) \in Nat /\ Len(t) \in 0..Len(t)
      BY <1>1
  <2>2. \A i \in 0..Len(t) : i \in T
      BY <1>5, <1>6, <2>1, UpTo, Zenon
  <2> QED
      BY <2>1, <2>2
<1>8. g[Len(t) + 1] = Heard(x) \o h[Len(t)]
    BY <1>7 DEF T
<1>9. Len(t) + 1 = Len(s)
    BY <1>1
<1> QED
    BY <1>2, <1>3, <1>8, <1>9, Zenon DEF t, x

\* Concatenation, for proofs that only need its algebra.
Concat(a, b) == a \o b

LEMMA ConcatType ==
    ASSUME NEW a \in Seq(Nat), NEW b \in Seq(Nat)
    PROVE  Concat(a, b) \in Seq(Nat)
BY DEF Concat

LEMMA ConcatAssociative ==
    ASSUME NEW a \in Seq(Nat), NEW b \in Seq(Nat), NEW c \in Seq(Nat)
    PROVE  Concat(Concat(a, b), c) = Concat(a, Concat(b, c))
BY SMTT(30) DEF Concat

LEMMA ConcatEmpty ==
    ASSUME NEW a \in Seq(Nat)
    PROVE  <<>> \in Seq(Nat) /\ Concat(a, <<>>) = a /\ Concat(<<>>, a) = a
BY DEF Concat

LEMMA ConcatAppend ==
    ASSUME NEW a \in Seq(Nat), NEW x \in Nat
    PROVE  <<x>> \in Seq(Nat) /\ Append(a, x) = Concat(a, <<x>>)
BY DEF Concat

LEMMA ConcatHead ==
    ASSUME NEW p \in Seq(Nat), p # <<>>
    PROVE  Head(p) \in Nat /\ Tail(p) \in Seq(Nat) /\ Concat(<<Head(p)>>, Tail(p)) = p
BY DEF Concat

\* What was received, what was set aside, and the responses of the queue and the stream.
Chain(a, p, c, d) == Concat(Concat(Concat(a, p), c), d)

LEMMA ChainBegins ==
    ASSUME NEW a \in Seq(Nat), NEW d \in Seq(Nat)
    PROVE  Chain(a, <<>>, <<>>, d) = Concat(a, d)
BY ConcatEmpty DEF Chain

\* A response that was set aside is received.
LEMMA ChainReceivesPending ==
    ASSUME NEW a \in Seq(Nat), NEW p \in Seq(Nat), NEW c, NEW d, p # <<>>
    PROVE  Chain(Append(a, Head(p)), Tail(p), c, d) = Chain(a, p, c, d)
<1>1. /\ Head(p) \in Nat /\ Tail(p) \in Seq(Nat) /\ <<Head(p)>> \in Seq(Nat)
      /\ Append(a, Head(p)) = Concat(a, <<Head(p)>>) /\ Concat(<<Head(p)>>, Tail(p)) = p
    BY ConcatHead, ConcatAppend, Zenon
<1>2. Concat(Concat(a, <<Head(p)>>), Tail(p)) = Concat(a, Concat(<<Head(p)>>, Tail(p)))
    BY <1>1, ConcatAssociative, Zenon
<1> QED
    BY <1>1, <1>2, Zenon DEF Chain

\* The first response of the queue is set aside.
LEMMA ChainSetsAside ==
    ASSUME NEW a \in Seq(Nat), NEW p \in Seq(Nat), NEW c \in Seq(Nat), NEW d, NEW x \in Nat
    PROVE  Chain(a, Append(p, x), c, d) = Chain(a, p, Concat(<<x>>, c), d)
<1>1. <<x>> \in Seq(Nat) /\ Append(p, x) = Concat(p, <<x>>) /\ Concat(a, p) \in Seq(Nat)
    BY ConcatAppend, ConcatType, Zenon
<1>2. Concat(a, Concat(p, <<x>>)) = Concat(Concat(a, p), <<x>>)
    BY <1>1, ConcatAssociative, Zenon
<1>3. Concat(Concat(Concat(a, p), <<x>>), c) = Concat(Concat(a, p), Concat(<<x>>, c))
    BY <1>1, ConcatAssociative, ZenonT(40)
<1> QED
    BY <1>1, <1>2, <1>3, Zenon DEF Chain

\* The first response of the queue is received, with none set aside.
LEMMA ChainReceives ==
    ASSUME NEW a \in Seq(Nat), NEW c \in Seq(Nat), NEW d, NEW x \in Nat
    PROVE  Chain(Append(a, x), <<>>, c, d) = Chain(a, <<>>, Concat(<<x>>, c), d)
<1>1. /\ <<x>> \in Seq(Nat) /\ Append(a, x) = Concat(a, <<x>>) /\ Concat(a, <<x>>) \in Seq(Nat)
    BY ConcatAppend, ConcatType, Zenon
<1>2. Concat(Append(a, x), <<>>) = Append(a, x) /\ Concat(a, <<>>) = a
    BY <1>1, ConcatEmpty
<1>3. Concat(Concat(a, <<x>>), c) = Concat(a, Concat(<<x>>, c))
    BY <1>1, ConcatAssociative, Zenon
<1> QED
    BY <1>1, <1>2, <1>3 DEF Chain

\* What the first notification of the stream says is forwarded.
LEMMA ChainForwards ==
    ASSUME NEW a \in Seq(Nat), NEW p \in Seq(Nat), NEW c \in Seq(Nat), NEW d \in Seq(Nat),
           NEW y \in Seq(Nat)
    PROVE  Chain(a, p, Concat(c, y), d) = Chain(a, p, c, Concat(y, d))
<1>1. Concat(a, p) \in Seq(Nat)
    BY ConcatType
<1>2. Concat(Concat(a, p), c) \in Seq(Nat)
    BY <1>1, ConcatType
<1>3. Concat(Concat(a, p), Concat(c, y)) = Concat(Concat(Concat(a, p), c), y)
    BY <1>1, ConcatAssociative
<1>4. Concat(Concat(Concat(Concat(a, p), c), y), d) = Concat(Concat(Concat(a, p), c), Concat(y, d))
    BY <1>2, ConcatAssociative
<1> QED
    BY <1>3, <1>4 DEF Chain

\* A notification more on the stream.
LEMMA ChainGrows ==
    ASSUME NEW a \in Seq(Nat), NEW p \in Seq(Nat), NEW c \in Seq(Nat), NEW d \in Seq(Nat),
           NEW y \in Seq(Nat)
    PROVE  Chain(a, p, c, Concat(d, y)) = Concat(Chain(a, p, c, d), y)
<1>1. Concat(a, p) \in Seq(Nat)
    BY ConcatType
<1>2. Concat(Concat(a, p), c) \in Seq(Nat)
    BY <1>1, ConcatType
<1> QED
    BY <1>2, ConcatAssociative DEF Chain

OnlyResponses(s) == \A i \in 1..Len(s) : s[i].kind = "response"

OrderTypes ==
    /\ state \in {"Unsupported", "Available", "Subscribed", "Disconnected"}
    /\ pending \in Seq(Nat) /\ kept \in Seq(Nat) /\ received \in Seq(Nat)
    /\ Len(pending) <= QueueCapacity /\ Len(queue) <= QueueCapacity

\* What a call in progress says of the state.
CallsFit ==
    /\ call.op \in {"open", "enable"} => state = "Available"
    /\ call.op = "credit" => profile.flow
    /\ call.op = "wait" => pending = <<>>
    /\ phase \in {"new", "linked"} => state = "Unsupported"

\* Without flow control nothing is set aside and every notification is a response.
NothingAside ==
    ~profile.flow => pending = <<>> /\ OnlyResponses(queue) /\ OnlyResponses(stream)

\* Before the subscription what is kept waits in the stream.
OrderBefore ==
    state \in {"Unsupported", "Available"} =>
        /\ queue = <<>> /\ pending = <<>> /\ forwarder \notin {"running", "ended"}
        /\ kept = Concat(received, Responses(stream))

OrderWhile ==
    state = "Subscribed" => kept = Chain(received, pending, Responses(queue), Responses(stream))

\* The inductive invariant behind ResponsesInOrder.
OrderInv == OrderTypes /\ CallsFit /\ NothingAside /\ OrderBefore /\ OrderWhile

LEMMA OrderInit == Init => OrderInv
<1> SUFFICES ASSUME Init PROVE OrderInv
    OBVIOUS
<1>1. OrderTypes /\ CallsFit /\ NothingAside
    BY BleAssumption DEF Init, OrderTypes, CallsFit, NothingAside, OnlyResponses, Idle
<1>2. <<>> \in Seq(Notification) /\ <<>> \in Seq(Nat)
    OBVIOUS
<1>3. Responses(<<>>) = <<>> /\ Concat(<<>>, <<>>) = <<>>
    BY <1>2, ResponsesType, ConcatEmpty, Zenon
<1> QED
    BY <1>1, <1>3 DEF Init, OrderInv, OrderBefore, OrderWhile

\* The steps that leave every notification where it is.
LEMMA OrderQuiet ==
    ASSUME OrderInv, CreditTypes,
           UNCHANGED <<profile, stream, queue, pending, kept, received>>,
           \/ Connect \/ BeginSubscribe \/ StreamOpens \/ PrinterEnables \/ Subscribed
           \/ (\E n \in Lengths : BeginWrite(n)) \/ TakeCredit \/ StreamEnded \/ Transmit
           \/ WriteEnds \/ Abandon \/ WaitTimeout \/ DisconnectEnds \/ HangUp \/ ForwarderEnds
           \/ (BeginWait /\ UNCHANGED received) \/ UNCHANGED vars
    PROVE  OrderInv'
<1> USE DEF OrderInv, Idle
<1>1. NothingAside'
    BY DEF NothingAside
<1>2. call \in Calls
    BY DEF CreditTypes
<1>3. OrderTypes' /\ CallsFit'
  <2> USE <1>2 DEF OrderTypes, CallsFit, NothingAside, Ready, Done
  <2>1. CASE Connect
      BY <2>1, Zenon DEF Connect, ConnectFails, Link, DiscoverFails, Select
  <2>2. CASE BeginSubscribe \/ StreamOpens \/ PrinterEnables \/ Subscribed
      BY <2>2 DEF BeginSubscribe, StreamOpens, PrinterEnables, Subscribed, Calls, OrderBefore
  <2>3. CASE (\E n \in Lengths : BeginWrite(n)) \/ TakeCredit \/ StreamEnded
    <3>1. CASE \E n \in Lengths : BeginWrite(n)
        BY <3>1, SMTT(30) DEF BeginWrite
    <3>2. CASE TakeCredit
      <4>1. call'.op \in {"none", "send"} /\ UNCHANGED <<phase, state>>
          BY <3>2 DEF TakeCredit, Calls
      <4> QED
          BY <4>1, Zenon
    <3>3. CASE StreamEnded
      <4>1. call'.op = "none" /\ state' = "Disconnected" /\ UNCHANGED phase
          BY <3>3, Zenon DEF StreamEnded
      <4>2. state # "Unsupported"
          BY <3>3, Zenon DEF StreamEnded, OrderBefore
      <4> QED
          BY <4>1, <4>2, Zenon
    <3> QED
        BY <2>3, <3>1, <3>2, <3>3, Zenon
  <2>4. CASE Transmit \/ WriteEnds \/ Abandon \/ WaitTimeout \/ DisconnectEnds
    <3>1. call'.op \in {"none", "sent"} /\ UNCHANGED <<phase, state>>
      <4>1. CASE Transmit
          BY <4>1 DEF Transmit, Calls
      <4>2. CASE WriteEnds
          BY <4>2, Zenon DEF WriteEnds
      <4>3. CASE Abandon \/ WaitTimeout
          BY <4>3, SMTT(30) DEF Abandon, WaitTimeout
      <4>4. CASE DisconnectEnds
          BY <4>4, Zenon DEF DisconnectEnds
      <4> QED
          BY <2>4, <4>1, <4>2, <4>3, <4>4, Zenon
    <3> QED
        BY <3>1, Zenon
  <2>5. CASE HangUp \/ ForwarderEnds \/ UNCHANGED vars
      BY <2>5, Zenon DEF HangUp, ForwarderEnds, vars
  <2>6. CASE BeginWait
      BY <2>6 DEF BeginWait
  <2> QED
      BY <2>1, <2>2, <2>3, <2>4, <2>5, <2>6, Zenon
<1> DEFINE Early(x) == x \in {"Unsupported", "Available"}
<1>4. /\ Early(state') => Early(state) /\ forwarder' \notin {"running", "ended"}
      /\ state' = "Subscribed" => state \in {"Available", "Subscribed"}
  <2> USE DEF CallsFit, OrderBefore, Done
  <2>1. CASE Connect
      BY <2>1, Zenon DEF Connect, ConnectFails, Link, DiscoverFails, Select, notifications
  <2>2. CASE BeginSubscribe \/ StreamOpens \/ PrinterEnables \/ Subscribed
      BY <2>2, Zenon DEF BeginSubscribe, StreamOpens, PrinterEnables, Subscribed, notifications
  <2>3. CASE (\E n \in Lengths : BeginWrite(n)) \/ TakeCredit \/ StreamEnded
      BY <2>3, Zenon DEF BeginWrite, TakeCredit, StreamEnded, notifications
  <2>4. CASE Transmit \/ WriteEnds \/ Abandon \/ WaitTimeout \/ DisconnectEnds
      BY <2>4, Zenon DEF Transmit, WriteEnds, Abandon, WaitTimeout, DisconnectEnds, notifications
  <2>5. CASE HangUp \/ ForwarderEnds \/ UNCHANGED vars
      BY <2>5, Zenon DEF HangUp, ForwarderEnds, vars
  <2>6. CASE BeginWait
      BY <2>6 DEF BeginWait
  <2> QED
      BY <2>1, <2>2, <2>3, <2>4, <2>5, <2>6, Zenon
<1>5. OrderBefore'
    BY <1>4 DEF OrderBefore
<1>6. OrderWhile'
  <2>1. CASE state = "Subscribed"
      BY <2>1 DEF OrderWhile
  <2>2. CASE state = "Available"
    <3>1. /\ queue = <<>> /\ pending = <<>> /\ kept = Concat(received, Responses(stream))
          /\ received \in Seq(Nat) /\ stream \in Seq(Notification)
        BY <2>2 DEF OrderBefore, OrderTypes, CreditTypes
    <3>2. Responses(stream) \in Seq(Nat) /\ Responses(<<>>) = <<>>
        BY <3>1, ResponsesType
    <3>3. Chain(received, <<>>, <<>>, Responses(stream)) = Concat(received, Responses(stream))
        BY <3>1, <3>2, ChainBegins, Zenon
    <3> QED
        BY <3>1, <3>2, <3>3 DEF OrderWhile
  <2> QED
      BY <1>4, <2>1, <2>2 DEF OrderWhile
<1> QED
    BY <1>1, <1>3, <1>5, <1>6, Zenon

\* The steps that give the notifications up.
LEMMA OrderGivenUp ==
    ASSUME OrderInv, CreditTypes, SubscribeEnds \/ BeginDisconnect \/ DropTransport
    PROVE  OrderInv'
<1> USE DEF OrderInv, Idle
<1>1. stream' = <<>> /\ Responses(<<>>) = <<>>
  <2>1. <<>> \in Seq(Notification)
      OBVIOUS
  <2> QED
      BY <2>1, ResponsesType, Zenon DEF SubscribeEnds, BeginDisconnect, DropTransport,
          StopForwarding
<1>2. CASE SubscribeEnds
  <2>1. OrderTypes' /\ CallsFit' /\ state = "Available" /\ state' = "Available"
      BY <1>2, Zenon DEF SubscribeEnds, OrderTypes, CallsFit, Done, flow, history
  <2>2. NothingAside'
      BY <1>1, <1>2, SMTT(30) DEF SubscribeEnds, NothingAside, OnlyResponses, flow
  <2>3. Concat(received, <<>>) = received
      BY ConcatEmpty DEF OrderTypes
  <2> QED
      BY <1>1, <1>2, <2>1, <2>2, <2>3, Zenon DEF SubscribeEnds, OrderBefore, OrderWhile, flow,
          history
<1>3. CASE BeginDisconnect \/ DropTransport
  <2>1. /\ state' = "Disconnected" /\ queue' = <<>> /\ call'.op \in {"close", "none"}
        /\ UNCHANGED <<profile, pending, kept, received>>
      BY <1>3 DEF BeginDisconnect, DropTransport, StopForwarding, Ready, flow, printer, history
  <2>2. phase' \notin {"new", "linked"}
      BY <1>3 DEF BeginDisconnect, DropTransport, Ready
  <2>3. OrderTypes' /\ CallsFit'
      BY <2>1, <2>2, BleAssumption DEF OrderTypes, CallsFit
  <2>4. NothingAside'
      BY <1>1, <2>1 DEF NothingAside, OnlyResponses
  <2> QED
      BY <2>1, <2>3, <2>4, Zenon DEF OrderBefore, OrderWhile
<1> QED
    BY <1>2, <1>3

\* The steps that take a notification out of the queue, or a response set aside.
LEMMA OrderTaken ==
    ASSUME OrderInv, CreditTypes, ReceiveForCredit \/ ReceiveResponse
    PROVE  OrderInv'
<1> USE DEF OrderInv, Idle
<1> DEFINE x == Head(queue)
           rest == Responses(Tail(queue))
           far == Responses(stream)
<1>1. /\ queue # <<>> /\ queue' = Tail(queue) /\ queue \in Seq(Notification)
      /\ stream \in Seq(Notification) /\ UNCHANGED <<profile, stream, kept, phase, forwarder>>
    BY Zenon DEF ReceiveForCredit, ReceiveResponse, CreditTypes, printer
<1>2. /\ x \in Notification /\ Tail(queue) \in Seq(Notification) /\ Len(Tail(queue)) <= Len(queue)
      /\ OnlyResponses(queue) => x.kind = "response" /\ OnlyResponses(Tail(queue))
    BY <1>1, TailFacts DEF OnlyResponses
<1>3. x.n \in Nat /\ rest \in Seq(Nat) /\ far \in Seq(Nat)
    BY <1>1, <1>2, ResponsesType, Zenon DEF Notification
<1>4. Responses(queue) = Concat(Heard(x), rest)
    BY <1>1, ResponsesTail DEF Concat
<1>5. state \notin {"Unsupported", "Available"}
    BY <1>1 DEF OrderBefore
<1>6. pending \in Seq(Nat) /\ received \in Seq(Nat) /\ Len(queue) \in Nat
    BY <1>1 DEF OrderTypes
<1> HIDE DEF x, rest, far
<1>7. CASE ReceiveForCredit
  <2>1. CASE x.kind # "response" /\ UNCHANGED <<state, call, pending, received>>
    <3>1. Responses(queue) = rest
        BY <1>3, <1>4, <2>1, ConcatEmpty DEF Heard
    <3>2. OrderTypes' /\ CallsFit' /\ NothingAside'
        BY <1>1, <1>2, <1>6, <2>1, BleAssumption, SMTT(30) DEF OrderTypes, CallsFit, NothingAside
    <3> QED
        BY <1>1, <1>5, <2>1, <3>1, <3>2, Zenon DEF OrderBefore, OrderWhile, rest
  <2>2. CASE /\ x.kind = "response" /\ Len(pending) < QueueCapacity
             /\ pending' = Append(pending, x.n) /\ UNCHANGED <<state, call, received>>
    <3>1. Responses(queue) = Concat(<<x.n>>, rest)
        BY <1>4, <2>2 DEF Heard
    <3>2. Chain(received, Append(pending, x.n), rest, far)
              = Chain(received, pending, Responses(queue), far)
        BY <1>3, <1>6, <3>1, ChainSetsAside
    <3>3. Append(pending, x.n) \in Seq(Nat) /\ Len(pending) \in Nat
             /\ Len(Append(pending, x.n)) = Len(pending) + 1
        BY <1>3, <1>6
    <3>4. call.op = "credit" /\ profile.flow
        BY <1>7, Zenon DEF ReceiveForCredit, CallsFit
    <3>5. OrderTypes' /\ CallsFit' /\ NothingAside'
        BY <1>1, <1>2, <1>6, <2>2, <3>3, <3>4, BleAssumption, SMTT(30)
           DEF OrderTypes, CallsFit, NothingAside
    <3> QED
        BY <1>1, <1>5, <2>2, <3>2, <3>5, Zenon DEF OrderBefore, OrderWhile, rest, far
  <2>3. CASE state' = "Disconnected" /\ Done /\ UNCHANGED <<pending, received>>
    <3>1. OrderTypes' /\ CallsFit' /\ NothingAside'
        BY <1>1, <1>2, <1>5, <1>6, <2>3, BleAssumption, SMTT(30) DEF OrderTypes, CallsFit,
            NothingAside, Done
    <3> QED
        BY <2>3, <3>1 DEF OrderBefore, OrderWhile
  <2> QED
      BY <1>7, <2>1, <2>2, <2>3, Zenon DEF ReceiveForCredit, flow, history, x
<1>8. CASE ReceiveResponse
  <2>1. pending = <<>> /\ UNCHANGED <<state, pending>>
      BY <1>8, Zenon DEF ReceiveResponse, CallsFit
  <2>2. CASE x.kind # "response" /\ profile.flow /\ UNCHANGED <<call, received>>
    <3>1. Responses(queue) = rest
        BY <1>3, <1>4, <2>2, ConcatEmpty DEF Heard
    <3>2. OrderTypes' /\ CallsFit' /\ NothingAside'
        BY <1>1, <1>2, <1>6, <2>1, <2>2, BleAssumption DEF OrderTypes, CallsFit, NothingAside
    <3> QED
        BY <1>1, <1>5, <2>1, <2>2, <3>1, <3>2, Zenon DEF OrderBefore, OrderWhile, rest
  <2>3. CASE ~(profile.flow /\ x.kind # "response") /\ received' = Append(received, x.n) /\ Done
    <3>0. x.kind = "response"
        BY <1>2, <2>3 DEF NothingAside
    <3>1. Responses(queue) = Concat(<<x.n>>, rest)
        BY <1>4, <3>0 DEF Heard
    <3>2. Chain(Append(received, x.n), <<>>, rest, far)
              = Chain(received, <<>>, Responses(queue), far)
        BY <1>3, <1>6, <3>1, ChainReceives
    <3>3. Append(received, x.n) \in Seq(Nat)
        BY <1>3, <1>6
    <3>5. OrderTypes' /\ CallsFit' /\ NothingAside'
        BY <1>1, <1>2, <1>5, <1>6, <2>1, <2>3, <3>3, BleAssumption, SMTT(30)
           DEF OrderTypes, CallsFit, NothingAside, Done
    <3> QED
        BY <1>1, <1>5, <2>1, <2>3, <3>2, <3>5, Zenon DEF OrderBefore, OrderWhile, rest, far
  <2> QED
      BY <1>8, <2>2, <2>3, Zenon DEF ReceiveResponse, x
<1> QED
    BY <1>7, <1>8

\* A response that was set aside is returned.
LEMMA OrderReturned ==
    ASSUME OrderInv, CreditTypes, BeginWait
    PROVE  OrderInv'
<1> USE DEF OrderInv, Idle
<1>1. CASE UNCHANGED received
  <2>1. CASE UNCHANGED pending
      BY <1>1, <2>1, OrderQuiet, Zenon DEF BeginWait, printer
  <2> QED
      BY <1>1, <2>1 DEF BeginWait
<1>2. CASE /\ state = "Subscribed" /\ profile.flow /\ pending # <<>>
           /\ received' = Append(received, Head(pending)) /\ pending' = Tail(pending)
           /\ UNCHANGED call
  <2>1. UNCHANGED <<profile, phase, state, forwarder, stream, queue, kept>> /\ call = Idle
      BY <1>2 DEF BeginWait, printer, Ready
  <2>2. /\ pending \in Seq(Nat) /\ received \in Seq(Nat) /\ Head(pending) \in Nat
        /\ Tail(pending) \in Seq(Nat) /\ Len(Tail(pending)) <= Len(pending) /\ Len(pending) \in Nat
        /\ Len(Tail(pending)) \in Nat
      BY <1>2 DEF OrderTypes
  <2>3. Append(received, Head(pending)) \in Seq(Nat)
      BY <2>2
  <2>4. OrderTypes' /\ CallsFit' /\ NothingAside'
      BY <1>2, <2>1, <2>2, <2>3, BleAssumption, SMTT(30) DEF OrderTypes, CallsFit, NothingAside
  <2>5. OrderWhile'
      BY <1>2, <2>1, <2>2, ChainReceivesPending DEF OrderWhile
  <2> QED
      BY <1>2, <2>1, <2>4, <2>5, Zenon DEF OrderBefore
<1> QED
    BY <1>1, <1>2 DEF BeginWait

\* The forwarding task moves a notification.
LEMMA OrderForwarded ==
    ASSUME OrderInv, CreditTypes, Forward
    PROVE  OrderInv'
<1> USE DEF OrderInv
<1> DEFINE x == Head(stream)
           near == Responses(queue)
           far == Responses(Tail(stream))
<1>1. /\ stream # <<>> /\ stream' = Tail(stream) /\ queue' = Append(queue, x)
      /\ queue \in Seq(Notification) /\ stream \in Seq(Notification) /\ forwarder = "running"
      /\ Len(queue) < QueueCapacity
      /\ UNCHANGED <<profile, phase, state, call, forwarder, pending, kept, received>>
    BY DEF Forward, CreditTypes, flow, history
<1>2. /\ x \in Notification /\ Tail(stream) \in Seq(Notification)
      /\ OnlyResponses(stream) => x.kind = "response" /\ OnlyResponses(Tail(stream))
  <2>1. /\ Tail(stream) \in Seq(Notification)
        /\ Len(stream) \in Nat \ {0} /\ Len(Tail(stream)) = Len(stream) - 1
        /\ Head(stream) = stream[1] /\ stream[1] \in Notification
        /\ \A i \in 1..(Len(stream) - 1) : Tail(stream)[i] = stream[i + 1]
      BY <1>1, TailFacts
  <2> QED
      BY <2>1 DEF OnlyResponses
<1>3. near \in Seq(Nat) /\ far \in Seq(Nat) /\ Heard(x) \in Seq(Nat)
    BY <1>1, <1>2, ResponsesType, HeardType, Zenon
<1>4. Responses(stream) = Concat(Heard(x), far)
    BY <1>1, ResponsesTail, Zenon DEF Concat
<1>5. Responses(Append(queue, x)) = Concat(near, Heard(x))
    BY <1>1, <1>2, ResponsesAppend, Zenon DEF Concat
<1>6. /\ Len(queue) \in Nat /\ Len(Append(queue, x)) = Len(queue) + 1
      /\ OnlyResponses(queue) /\ x.kind = "response" => OnlyResponses(Append(queue, x))
    BY <1>1, <1>2, AppendFacts DEF OnlyResponses
<1> HIDE DEF x, near, far
<1>7. state \notin {"Unsupported", "Available"}
    BY <1>1 DEF OrderBefore
<1>8. OrderTypes' /\ CallsFit'
    BY <1>1, <1>6, BleAssumption DEF OrderTypes, CallsFit
<1>9. NothingAside'
    BY <1>1, <1>2, <1>6 DEF NothingAside
<1>10. OrderWhile'
  <2>1. Chain(received, pending, Concat(near, Heard(x)), far)
            = Chain(received, pending, near, Concat(Heard(x), far))
      BY <1>3, ChainForwards DEF OrderTypes
  <2> QED
      BY <1>1, <1>4, <1>5, <2>1, Zenon DEF OrderWhile, near, far
<1> QED
    BY <1>1, <1>7, <1>8, <1>9, <1>10, Zenon DEF OrderBefore

\* The printer notifies.
LEMMA OrderNotified ==
    ASSUME OrderInv, CreditTypes, NEW x \in Frames, Notify(x)
    PROVE  OrderInv'
<1> USE DEF OrderInv
<1>1. x \in Notification
  <2>1. /\ \A k \in Grants : k \in Nat
        /\ \A k \in FlowLimits : k \in Nat
        /\ frames + 1 \in Nat
      BY BleAssumption DEF CreditTypes
  <2> QED
      BY <2>1 DEF Frames, Notification
<1>2. /\ UNCHANGED <<profile, phase, state, call, forwarder, queue, pending, received>>
      /\ stream \in Seq(Notification) /\ queue \in Seq(Notification)
      /\ profile.flow \/ x.kind = "response"
    BY Zenon DEF Notify, flow, history, CreditTypes
<1>3. CASE UNCHANGED <<stream, kept>>
    BY <1>2, <1>3, Zenon DEF OrderTypes, CallsFit, NothingAside, OrderBefore, OrderWhile
<1>4. CASE /\ stream' = Append(stream, x)
           /\ kept' = IF x.kind = "response" THEN Append(kept, x.n) ELSE kept
  <2> DEFINE near == Responses(queue)
             far == Responses(stream)
  <2>1. /\ Heard(x) \in Seq(Nat) /\ near \in Seq(Nat) /\ far \in Seq(Nat) /\ x.n \in Nat
        /\ received \in Seq(Nat) /\ pending \in Seq(Nat) /\ kept \in Seq(Nat)
      BY <1>1, <1>2, HeardType, ResponsesType, Zenon DEF Notification, OrderTypes
  <2>2. Responses(stream') = Concat(far, Heard(x))
      BY <1>1, <1>2, <1>4, ResponsesAppend, Zenon DEF Concat
  <2>3. kept' = Concat(kept, Heard(x))
    <3>1. CASE x.kind = "response"
        BY <1>4, <2>1, <3>1, ConcatAppend, Zenon DEF Heard
    <3>2. CASE x.kind # "response"
        BY <1>4, <2>1, <3>2, ConcatEmpty, Zenon DEF Heard
    <3> QED
        BY <3>1, <3>2, Zenon
  <2>4. kept' \in Seq(Nat)
      BY <2>1, <2>3, ConcatType
  <2>5. OnlyResponses(stream) /\ x.kind = "response" => OnlyResponses(stream')
    <3>1. /\ Len(stream) \in Nat /\ Len(Append(stream, x)) = Len(stream) + 1
          /\ Append(stream, x)[Len(stream) + 1] = x
          /\ \A i \in 1..Len(stream) : Append(stream, x)[i] = stream[i]
        BY <1>1, <1>2, AppendFacts
    <3> QED
        BY <1>4, <3>1, SMTT(30) DEF OnlyResponses
  <2> HIDE DEF near, far
  <2>6. OrderTypes' /\ CallsFit' /\ NothingAside'
      BY <1>2, <2>4, <2>5, Zenon DEF OrderTypes, CallsFit, NothingAside
  <2>7. OrderBefore'
    <3>1. Concat(Concat(received, far), Heard(x)) = Concat(received, Concat(far, Heard(x)))
        BY <2>1, ConcatAssociative
    <3> QED
        BY <1>2, <2>2, <2>3, <3>1, Zenon DEF OrderBefore, far
  <2>8. OrderWhile'
    <3>1. Chain(received, pending, near, Concat(far, Heard(x)))
              = Concat(Chain(received, pending, near, far), Heard(x))
        BY <2>1, ChainGrows
    <3> QED
        BY <1>2, <2>2, <2>3, <3>1, Zenon DEF OrderWhile, near, far
  <2> QED
      BY <2>6, <2>7, <2>8
<1> QED
    BY <1>3, <1>4, Zenon DEF Notify

\* ResponsesInOrder, for every capacity of the queue and number of notifications: while
\* subscribed no response is lost, duplicated or overtaken, and the buffers are bounded.
THEOREM ResponsesStayInOrder == Spec => []ResponsesInOrder
<1>1. OrderInv /\ CreditInv /\ [Next]_vars => OrderInv'
  <2> SUFFICES ASSUME OrderInv, CreditTypes, [Next]_vars PROVE OrderInv'
      BY DEF CreditInv
  <2>1. CASE \/ Connect \/ BeginSubscribe \/ StreamOpens \/ PrinterEnables \/ Subscribed
             \/ (\E n \in Lengths : BeginWrite(n)) \/ TakeCredit \/ StreamEnded \/ Transmit
             \/ WriteEnds \/ Abandon \/ WaitTimeout \/ DisconnectEnds \/ HangUp
             \/ ForwarderEnds \/ UNCHANGED vars
    <3>1. UNCHANGED <<profile, stream, queue, pending, kept, received>>
      <4> USE DEF notifications, history, flow, printer
      <4>1. CASE Connect
          BY <4>1, Zenon DEF Connect, ConnectFails, Link, DiscoverFails, Select
      <4>2. CASE BeginSubscribe \/ StreamOpens \/ PrinterEnables \/ Subscribed
          BY <4>2 DEF BeginSubscribe, StreamOpens, PrinterEnables, Subscribed
      <4>3. CASE (\E n \in Lengths : BeginWrite(n)) \/ TakeCredit \/ StreamEnded
          BY <4>3 DEF BeginWrite, TakeCredit, StreamEnded
      <4>4. CASE Transmit \/ WriteEnds \/ Abandon \/ WaitTimeout \/ DisconnectEnds
          BY <4>4, Zenon DEF Transmit, WriteEnds, Abandon, WaitTimeout, DisconnectEnds
      <4>5. CASE HangUp \/ ForwarderEnds \/ UNCHANGED vars
          BY <4>5, Zenon DEF HangUp, ForwarderEnds, vars
      <4> QED
          BY <2>1, <4>1, <4>2, <4>3, <4>4, <4>5, Zenon
    <3> QED
        BY <2>1, <3>1, OrderQuiet
  <2>2. CASE SubscribeEnds \/ BeginDisconnect \/ DropTransport
      BY <2>2, OrderGivenUp
  <2>3. CASE ReceiveForCredit \/ ReceiveResponse
      BY <2>3, OrderTaken
  <2>4. CASE BeginWait
      BY <2>4, OrderReturned
  <2>5. CASE Forward
      BY <2>5, OrderForwarded
  <2>6. CASE \E f \in Frames : Notify(f)
      BY <2>6, OrderNotified
  <2> QED
      BY <2>1, <2>2, <2>3, <2>4, <2>5, <2>6, Zenon DEF Next, CreditStep
<1>2. OrderInv => ResponsesInOrder
    BY Zenon DEF OrderInv, OrderTypes, OrderWhile, ResponsesInOrder, Chain, Concat
<1> QED
    BY <1>1, <1>2, OrderInit, CreditInvariant, PTL DEF Spec

-----------------------------------------------------------------------------
(* Devices behind an owner thread                                           *)
(*                                                                         *)
(* The heart is the line of commands: while the thread serves its channel, *)
(* the commands performed, the one in the device and those in the channel  *)
(* are, in this order, all that were ever queued.  Their numbers grow, so  *)
(* a reply to the present call means that nothing is left behind it.       *)

Command == [id : Nat, op : Operations]

DeviceTypes ==
    /\ shared \in BOOLEAN /\ owned \in BOOLEAN /\ closed \in BOOLEAN /\ detached \in BOOLEAN
    /\ transport \in {"open", "dropped"}
    /\ calls \in Nat
    /\ ongoing = NoCall \/ ongoing \in [op : Operations, at : {"send", "reply", "join"}]
    /\ reply \in {"none", "ok", "error"}
    /\ worker \in {"recv", "busy", "leaving", "stopped"}
    /\ channel \in Seq(Command)
    /\ queued \in Seq(Nat)
    /\ performed \in Seq(Nat)
    /\ worker = "busy" => command \in Command

\* The numbers of the commands grow with the calls.
Numbers ==
    /\ \A i, j \in 1..Len(queued) : i < j => queued[i] < queued[j]
    /\ transport = "open" => \A i \in 1..Len(queued) : queued[i] <= calls
    /\ ongoing.at = "send" => \A i \in 1..Len(queued) : queued[i] < calls
    /\ transport = "dropped" => ongoing = NoCall

\* Where each command that was queued is.
Line ==
    /\ Len(performed) <= Len(queued)
    /\ \A i \in 1..Len(performed) : performed[i] = queued[i]
    /\ worker = "recv" =>
           /\ Len(queued) = Len(performed) + Len(channel)
           /\ \A i \in 1..Len(channel) : channel[i].id = queued[Len(performed) + i]
    /\ worker = "busy" =>
           /\ Len(queued) = Len(performed) + 1 + Len(channel)
           /\ command.id = queued[Len(performed) + 1]
           /\ \A i \in 1..Len(channel) : channel[i].id = queued[Len(performed) + 1 + i]

\* The thread has left its loop.
Left == worker \in {"leaving", "stopped"}

Drained == worker # "busy" /\ (channel = <<>> \/ Left)

\* The present call's command is in the line as it was sent.
OwnCommand ==
    ongoing.at = "reply" /\ ~Left =>
        /\ \A i \in 1..Len(channel) : channel[i].id = calls => channel[i].op = ongoing.op
        /\ worker = "busy" /\ command.id = calls => command.op = ongoing.op

\* What a reply, and a disconnect that came to join the thread, say of the thread.
Replies ==
    /\ ongoing.at \in {"none", "send"} => reply = "none"
    /\ ongoing.at = "reply" /\ reply # "none" => Drained /\ (ongoing.op = "disconnect" => Left)
    /\ ongoing.at = "join" => Left
    /\ ~owned /\ transport = "open" => Left /\ (detached \/ ongoing.at = "join" \/ worker = "stopped")
    /\ closed /\ ~detached => worker = "stopped"
    /\ outcome = "ok" /\ ongoing = NoCall /\ transport = "open" => Drained

DeviceInv == DeviceTypes /\ Numbers /\ Line /\ OwnCommand /\ Replies

-----------------------------------------------------------------------------

\* At first nothing is queued and nobody waits.
LEMMA DeviceStarts == DeviceInit => DeviceInv
<1> SUFFICES ASSUME DeviceInit PROVE DeviceInv
  OBVIOUS
<1>1. DeviceTypes
  <2>1. <<>> \in Seq(Command) /\ <<>> \in Seq(Nat) /\ 0 \in Nat
    OBVIOUS
  <2>2. worker # "busy"
    BY DEF DeviceInit
  <2> QED
    BY <2>1, <2>2, Zenon DEF DeviceInit, DeviceTypes
<1>2. Numbers /\ Line
  <2>1. Len(channel) = 0 /\ Len(queued) = 0 /\ Len(performed) = 0 /\ worker = "recv"
    BY DEF DeviceInit
  <2> QED
    BY <2>1, SMTT(30) DEF DeviceInit, Numbers, Line, NoCall
<1>3. OwnCommand /\ Replies
  BY Zenon DEF DeviceInit, OwnCommand, Replies, NoCall, Drained, Left
<1> QED
  BY <1>1, <1>2, <1>3 DEF DeviceInv

\* A call that begins, ends or is abandoned moves no command.
LEMMA DeviceCallerStep ==
    ASSUME DeviceInv,
           (\E op \in Operations : BeginCall(op)) \/ SendFails \/ Reply \/ ReplyDropped \/ Join \/ AbandonCall
    PROVE  DeviceInv'
<1>1. UNCHANGED <<shared, transport, channel, queued, worker, command, performed>>
  BY DEF BeginCall, SendFails, Reply, ReplyDropped, Join, AbandonCall, thread
<1>2. ongoing = NoCall \/ ongoing \in [op : Operations, at : {"send", "reply", "join"}]
  BY DEF DeviceInv, DeviceTypes
<1>3. calls \in Nat /\ reply \in {"none", "ok", "error"}
  BY DEF DeviceInv, DeviceTypes
<1>4. /\ owned' \in BOOLEAN /\ closed' \in BOOLEAN /\ detached' \in BOOLEAN
      /\ reply' \in {"none", "ok", "error"}
  BY Zenon DEF BeginCall, SendFails, Reply, ReplyDropped, Join, AbandonCall, EndCall, DeviceInv,
      DeviceTypes
<1>5. \/ calls' = calls /\ ongoing' = NoCall
      \/ calls' = calls /\ ongoing.at = "reply" /\ ongoing' = [ongoing EXCEPT !.at = "join"]
      \/ /\ calls' = calls + 1 /\ transport = "open"
         /\ ongoing' = NoCall \/ \E op \in Operations : ongoing' = [op |-> op, at |-> "send"]
  BY DEF BeginCall, SendFails, Reply, ReplyDropped, Join, AbandonCall, EndCall
<1>6. /\ calls' \in Nat
      /\ ongoing' = NoCall \/ ongoing' \in [op : Operations, at : {"send", "reply", "join"}]
  BY <1>2, <1>3, <1>5 DEF NoCall
<1>7. DeviceTypes'
  BY <1>1, <1>4, <1>6, Zenon DEF DeviceInv, DeviceTypes
<1>8. Numbers'
  <2>1. \A i \in 1..Len(queued) : queued[i] \in Nat
    BY DEF DeviceInv, DeviceTypes
  <2>2. calls <= calls' /\ (ongoing'.at = "send" => calls' = calls + 1 /\ transport = "open")
    BY <1>2, <1>3, <1>5 DEF NoCall
  <2>3. transport = "open" => \A i \in 1..Len(queued) : queued[i] <= calls'
    BY <2>1, <2>2, <1>3, <1>6 DEF DeviceInv, Numbers
  <2>4. ongoing'.at = "send" => \A i \in 1..Len(queued) : queued[i] < calls'
    BY <2>1, <2>2, <1>3 DEF DeviceInv, Numbers
  <2>5. transport = "dropped" => ongoing' = NoCall
    BY <1>5 DEF DeviceInv, Numbers, NoCall
  <2> QED
    BY <1>1, <2>3, <2>4, <2>5, Zenon DEF DeviceInv, Numbers
<1>9. Line'
  BY <1>1, Zenon DEF DeviceInv, Line
<1>10. ongoing'.at # "reply"
  BY <1>2, <1>5 DEF NoCall
<1>11. OwnCommand'
  BY <1>10 DEF OwnCommand
<1>12. Replies'
  <2>1. CASE \E op \in Operations : BeginCall(op)
    BY <2>1, <1>1, <1>10, SMTT(30) DEF BeginCall, EndCall, NoCall, DeviceInv, DeviceTypes, Replies,
        Drained, Left
  <2>2. CASE SendFails \/ ReplyDropped
    BY <2>2, <1>1, SMTT(30) DEF SendFails, ReplyDropped, EndCall, NoCall, DeviceInv, Replies,
        Drained, Left
  <2>3. CASE Reply
    <3>1. CASE ongoing.op # "disconnect" /\ EndCall(reply) /\ UNCHANGED owned
      BY <2>3, <3>1, <1>1 DEF Reply, EndCall, NoCall, DeviceInv, Replies, Drained, Left
    <3>2. CASE /\ ongoing.op = "disconnect"
               /\ ongoing' = [ongoing EXCEPT !.at = "join"]
               /\ owned' = FALSE
               /\ UNCHANGED <<reply, outcome>>
      <4>1. ongoing'.at = "join" /\ ongoing' # NoCall /\ Left
        BY <2>3, <3>2, <1>2 DEF Reply, NoCall, DeviceInv, Replies
      <4> QED
        BY <2>3, <3>2, <4>1, <1>1 DEF Reply, DeviceInv, Replies, Drained, Left
    <3> QED
      BY <2>3, <3>1, <3>2, Zenon DEF Reply
  <2>4. CASE Join
    BY <2>4, <1>1, Zenon DEF Join, EndCall, NoCall, DeviceInv, Replies, Drained, Left
  <2>5. CASE AbandonCall
    BY <2>5, <1>1, Zenon DEF AbandonCall, EndCall, NoCall, DeviceInv, DeviceTypes, Replies,
        Drained, Left
  <2> QED
    BY <2>1, <2>2, <2>3, <2>4, <2>5
<1> QED
  BY <1>7, <1>8, <1>9, <1>11, <1>12 DEF DeviceInv

\* A command that joins the queue joins the end of the line.
LEMMA LineGrows ==
    ASSUME DeviceTypes, Line, NEW c \in Command,
           channel' = Append(channel, c), queued' = Append(queued, c.id), UNCHANGED thread
    PROVE  Line' /\ channel' \in Seq(Command) /\ queued' \in Seq(Nat)
<1>1. channel \in Seq(Command) /\ queued \in Seq(Nat) /\ performed \in Seq(Nat) /\ c.id \in Nat
  BY DEF DeviceTypes, Command
<1>2. /\ Len(channel') = Len(channel) + 1 /\ Len(queued') = Len(queued) + 1
      /\ channel'[Len(channel) + 1] = c /\ queued'[Len(queued) + 1] = c.id
      /\ \A i \in 1..Len(channel) : channel'[i] = channel[i]
      /\ \A i \in 1..Len(queued) : queued'[i] = queued[i]
  BY <1>1
<1>3. performed' = performed /\ worker' = worker /\ command' = command
  BY DEF thread
<1>4. Len(channel) \in Nat /\ Len(queued) \in Nat /\ Len(performed) \in Nat
  BY <1>1
<1>5. /\ Len(performed) <= Len(queued) + 1
      /\ \A i \in 1..Len(performed) : performed[i] = queued'[i]
  BY <1>2, <1>4, SMTT(30) DEF Line
<1>6. ASSUME worker = "recv"
      PROVE  /\ Len(queued) + 1 = Len(performed) + (Len(channel) + 1)
             /\ \A i \in 1..(Len(channel) + 1) : channel'[i].id = queued'[Len(performed) + i]
  <2>1. Len(queued) = Len(performed) + Len(channel)
    BY <1>6 DEF Line
  <2>2. ASSUME NEW i \in 1..(Len(channel) + 1)
        PROVE  channel'[i].id = queued'[Len(performed) + i]
    <3>1. CASE i \in 1..Len(channel)
      <4>1. Len(performed) + i \in 1..Len(queued)
        BY <2>1, <3>1, <1>4
      <4> QED
        BY <4>1, <3>1, <1>2, <1>6, Zenon DEF Line
    <3>2. CASE i = Len(channel) + 1
      <4>1. Len(performed) + i = Len(queued) + 1
        BY <2>1, <3>2, <1>4
      <4> QED
        BY <4>1, <3>2, <1>2, Zenon
    <3>3. i \in 1..Len(channel) \/ i = Len(channel) + 1
      BY <1>4
    <3> QED
      BY <3>1, <3>2, <3>3, Zenon
  <2>3. Len(queued) + 1 = Len(performed) + (Len(channel) + 1)
    BY <2>1, <1>4
  <2> QED
    BY <2>2, <2>3, Zenon
<1>7. ASSUME worker = "busy"
      PROVE  /\ Len(queued) + 1 = Len(performed) + 1 + (Len(channel) + 1)
             /\ command.id = queued'[Len(performed) + 1]
             /\ \A i \in 1..(Len(channel) + 1) : channel'[i].id = queued'[Len(performed) + 1 + i]
  <2>1. Len(queued) = Len(performed) + 1 + Len(channel)
    BY <1>7, Zenon DEF Line
  <2>2. ASSUME NEW i \in 1..(Len(channel) + 1)
        PROVE  channel'[i].id = queued'[Len(performed) + 1 + i]
    <3>1. CASE i \in 1..Len(channel)
      <4>1. Len(performed) + 1 + i \in 1..Len(queued)
        BY <2>1, <3>1, <1>4
      <4> QED
        BY <4>1, <3>1, <1>2, <1>7, Zenon DEF Line
    <3>2. CASE i = Len(channel) + 1
      <4>1. Len(performed) + 1 + i = Len(queued) + 1
        BY <2>1, <3>2, <1>4
      <4> QED
        BY <4>1, <3>2, <1>2, Zenon
    <3>3. i \in 1..Len(channel) \/ i = Len(channel) + 1
      BY <1>4
    <3> QED
      BY <3>1, <3>2, <3>3, Zenon
  <2>3. command.id = queued'[Len(performed) + 1]
    <3>1. Len(performed) + 1 \in 1..Len(queued)
      BY <2>1, <1>4
    <3> QED
      BY <3>1, <1>2, <1>7, Zenon DEF Line
  <2>4. Len(queued) + 1 = Len(performed) + 1 + (Len(channel) + 1)
    BY <2>1, <1>4
  <2> QED
    BY <2>2, <2>3, <2>4, Zenon
<1>8. Line'
  BY <1>2, <1>3, <1>5, <1>6, <1>7, Zenon DEF Line
<1> QED
  BY <1>1, <1>8

\* The numbers go on growing when a larger one is appended.
LEMMA NumbersGrow ==
    ASSUME queued \in Seq(Nat), NEW n \in Nat,
           \A i, j \in 1..Len(queued) : i < j => queued[i] < queued[j],
           \A i \in 1..Len(queued) : queued[i] < n,
           queued' = Append(queued, n)
    PROVE  /\ \A i, j \in 1..Len(queued') : i < j => queued'[i] < queued'[j]
           /\ \A i \in 1..Len(queued') : queued'[i] <= n
<1>1. /\ Len(queued) \in Nat /\ Len(queued') = Len(queued) + 1
      /\ queued'[Len(queued) + 1] = n
      /\ \A i \in 1..Len(queued) : queued'[i] = queued[i] /\ queued[i] \in Nat
  OBVIOUS
<1>2. ASSUME NEW i \in 1..(Len(queued) + 1), NEW j \in 1..(Len(queued) + 1), i < j
      PROVE  queued'[i] < queued'[j]
  <2>1. CASE j \in 1..Len(queued)
    <3>1. i \in 1..Len(queued)
      BY <2>1, <1>1, <1>2
    <3> QED
      BY <3>1, <2>1, <1>1, <1>2, Zenon
  <2>2. CASE j = Len(queued) + 1
    <3>1. i \in 1..Len(queued)
      BY <2>2, <1>1, <1>2
    <3> QED
      BY <3>1, <2>2, <1>1, Zenon
  <2> QED
    BY <2>1, <2>2, <1>1
<1>3. \A i \in 1..(Len(queued) + 1) : queued'[i] <= n
  BY <1>1
<1> QED
  BY <1>1, <1>2, <1>3, Zenon

\* The channel takes the command of the present call.
LEMMA DeviceSendStep ==
    ASSUME DeviceInv, Send
    PROVE  DeviceInv'
<1>1. /\ ongoing.at = "send" /\ worker # "stopped"
      /\ channel' = Append(channel, [id |-> calls, op |-> ongoing.op])
      /\ queued' = Append(queued, calls)
      /\ ongoing' = [ongoing EXCEPT !.at = "reply"]
      /\ UNCHANGED <<shared, transport, owned, calls, reply, outcome, thread, closed, detached>>
  BY DEF Send
<1>2. ongoing \in [op : Operations, at : {"send", "reply", "join"}] /\ calls \in Nat
  BY <1>1 DEF DeviceInv, DeviceTypes, NoCall
<1>3. ongoing' \in [op : Operations, at : {"send", "reply", "join"}] /\ ongoing'.at = "reply"
      /\ ongoing'.op = ongoing.op /\ ongoing' # NoCall
  BY <1>1, <1>2 DEF NoCall
<1>4. [id |-> calls, op |-> ongoing.op] \in Command
  BY <1>2 DEF Command
<1>5. Line' /\ channel' \in Seq(Command) /\ queued' \in Seq(Nat)
  BY <1>1, <1>4, LineGrows DEF DeviceInv
<1>6. worker' = worker /\ command' = command /\ performed' = performed
  BY <1>1 DEF thread
<1>7. DeviceTypes'
  BY <1>1, <1>3, <1>5, <1>6 DEF DeviceInv, DeviceTypes
<1>8. Numbers'
  <2>1. queued \in Seq(Nat)
    BY DEF DeviceInv, DeviceTypes
  <2>2. \A i \in 1..Len(queued) : queued[i] < calls
    BY <1>1 DEF DeviceInv, Numbers
  <2>3. transport # "dropped"
    BY <1>1 DEF DeviceInv, Numbers, NoCall
  <2>4. /\ \A i, j \in 1..Len(queued') : i < j => queued'[i] < queued'[j]
        /\ \A i \in 1..Len(queued') : queued'[i] <= calls
    BY <1>1, <1>2, <2>1, <2>2, NumbersGrow, Zenon DEF DeviceInv, Numbers
  <2> QED
    BY <1>1, <1>3, <2>3, <2>4 DEF Numbers
<1>9. OwnCommand'
  <2>1. SUFFICES ASSUME ~Left
        PROVE  /\ \A i \in 1..Len(channel') : channel'[i].id = calls => channel'[i].op = ongoing.op
               /\ worker = "busy" => command.id # calls
    BY <1>1, <1>3, <1>6 DEF OwnCommand, Left
  <2>2. worker \in {"recv", "busy"}
    BY <2>1 DEF Left, DeviceInv, DeviceTypes
  <2>3. channel \in Seq(Command) /\ Len(channel) \in Nat /\ Len(performed) \in Nat
    BY DEF DeviceInv, DeviceTypes
  <2>4. \A i \in 1..Len(queued) : queued[i] # calls
    <3>1. \A i \in 1..Len(queued) : queued[i] < calls /\ queued[i] \in Nat
      BY <1>1 DEF DeviceInv, DeviceTypes, Numbers
    <3> QED
      BY <3>1, <1>2
  <2>5. ASSUME NEW i \in 1..Len(channel)
        PROVE  channel[i].id # calls
    <3>1. CASE worker = "recv"
      <4>1. Len(performed) + i \in 1..Len(queued)
        BY <3>1, <2>3 DEF DeviceInv, Line
      <4> QED
        BY <4>1, <3>1, <2>4, Zenon DEF DeviceInv, Line
    <3>2. CASE worker = "busy"
      <4>1. Len(performed) + 1 + i \in 1..Len(queued)
        BY <3>2, <2>3 DEF DeviceInv, Line
      <4> QED
        BY <4>1, <3>2, <2>4, Zenon DEF DeviceInv, Line
    <3> QED
      BY <3>1, <3>2, <2>2
  <2>6. worker = "busy" => command.id # calls
    <3>1. worker = "busy" => Len(performed) + 1 \in 1..Len(queued)
      BY <2>3 DEF DeviceInv, Line
    <3> QED
      BY <3>1, <2>4, Zenon DEF DeviceInv, Line
  <2>7. /\ Len(channel') = Len(channel) + 1
        /\ channel'[Len(channel) + 1] = [id |-> calls, op |-> ongoing.op]
        /\ \A i \in 1..Len(channel) : channel'[i] = channel[i]
    BY <1>1, <1>4, <2>3
  <2>8. ASSUME NEW i \in 1..Len(channel'), channel'[i].id = calls
        PROVE  channel'[i].op = ongoing.op
    <3>1. i \in 1..Len(channel) \/ i = Len(channel) + 1
      BY <2>3, <2>7, SMTT(30)
    <3> QED
      BY <3>1, <2>5, <2>7, <2>8, SMTT(30)
  <2> QED
    BY <2>6, <2>8, Zenon
<1>10. Replies'
  <2>1. reply = "none"
    BY <1>1 DEF DeviceInv, Replies
  <2> QED
    BY <2>1, <1>1, <1>3, <1>6 DEF DeviceInv, Replies, Left
<1> QED
  BY <1>5, <1>7, <1>8, <1>9, <1>10, Zenon DEF DeviceInv

\* Drop adds a last command when there is room.
LEMMA DeviceDropStep ==
    ASSUME DeviceInv, DropDevice
    PROVE  DeviceInv'
<1>1. /\ transport = "open" /\ ongoing = NoCall /\ transport' = "dropped" /\ owned' = FALSE
      /\ UNCHANGED <<shared, caller, thread, closed, detached>>
  BY DEF DropDevice
<1>2. /\ calls' = calls /\ ongoing' = NoCall /\ reply' = reply /\ outcome' = outcome
      /\ worker' = worker /\ command' = command /\ performed' = performed
      /\ closed' = closed /\ detached' = detached /\ shared' = shared
  BY <1>1 DEF caller, thread
<1>3. calls + 1 \in Nat /\ queued \in Seq(Nat)
  BY DEF DeviceInv, DeviceTypes
<1> DEFINE c == [id |-> calls + 1, op |-> "disconnect"]
<1>4. c \in Command /\ c.id = calls + 1
  BY <1>3 DEF Command, Operations
<1> HIDE DEF c
<1>5. \/ channel' = Append(channel, c) /\ queued' = Append(queued, c.id)
      \/ channel' = channel /\ queued' = queued
  BY <1>4 DEF DropDevice, c
<1>6. Line' /\ channel' \in Seq(Command) /\ queued' \in Seq(Nat)
  <2>1. CASE channel' = Append(channel, c) /\ queued' = Append(queued, c.id)
    BY <2>1, <1>1, <1>4, LineGrows DEF DeviceInv
  <2>2. CASE channel' = channel /\ queued' = queued
    BY <2>2, <1>2, Zenon DEF DeviceInv, DeviceTypes, Line
  <2> QED
    BY <1>5, <2>1, <2>2
<1>7. DeviceTypes'
  BY <1>1, <1>2, <1>6, Zenon DEF DeviceInv, DeviceTypes
<1>8. \A i, j \in 1..Len(queued') : i < j => queued'[i] < queued'[j]
  <2>1. CASE queued' = Append(queued, c.id)
    <3>1. \A i \in 1..Len(queued) : queued[i] < calls + 1
      <4>1. \A i \in 1..Len(queued) : queued[i] <= calls /\ queued[i] \in Nat
        BY <1>1, <1>3 DEF DeviceInv, Numbers
      <4>2. calls \in Nat
        BY DEF DeviceInv, DeviceTypes
      <4> QED
        BY <4>1, <4>2
    <3> QED
      BY <2>1, <3>1, <1>3, <1>4, NumbersGrow, Zenon DEF DeviceInv, Numbers
  <2>2. CASE queued' = queued
    BY <2>2 DEF DeviceInv, Numbers
  <2> QED
    BY <1>5, <2>1, <2>2
<1>9. Numbers'
  BY <1>1, <1>2, <1>8, Zenon DEF Numbers, NoCall
<1>10. OwnCommand'
  BY <1>2, Zenon DEF OwnCommand, NoCall
<1>11. Replies'
  BY <1>1, <1>2 DEF DeviceInv, Replies, NoCall
<1> QED
  BY <1>6, <1>7, <1>9, <1>10, <1>11 DEF DeviceInv

\* The thread takes the first command of its queue into the device.
LEMMA DeviceTakeStep ==
    ASSUME DeviceInv, Take
    PROVE  DeviceInv'
<1>1. /\ worker = "recv" /\ channel # <<>> /\ worker' = "busy"
      /\ command' = Head(channel) /\ channel' = Tail(channel)
      /\ UNCHANGED <<shared, transport, owned, calls, ongoing, reply, outcome, performed, queued,
                     closed, detached>>
  BY DEF Take, caller
<1>2. channel \in Seq(Command) /\ performed \in Seq(Nat) /\ queued \in Seq(Nat)
  BY DEF DeviceInv, DeviceTypes
<1>3. /\ Len(channel) \in Nat \ {0} /\ Len(performed) \in Nat
      /\ Head(channel) = channel[1] /\ Head(channel) \in Command
      /\ Tail(channel) \in Seq(Command) /\ Len(Tail(channel)) = Len(channel) - 1
      /\ \A i \in 1..(Len(channel) - 1) : Tail(channel)[i] = channel[i + 1]
  BY <1>1, <1>2
<1>4. DeviceTypes'
  BY <1>1, <1>3, Zenon DEF DeviceInv, DeviceTypes
<1>5. Numbers'
  BY <1>1, Zenon DEF DeviceInv, Numbers
<1>6. Line'
  <2>1. /\ Len(queued) = Len(performed) + Len(channel)
        /\ \A i \in 1..Len(channel) : channel[i].id = queued[Len(performed) + i]
    BY <1>1, Zenon DEF DeviceInv, Line
  <2>2. Len(queued) = Len(performed) + 1 + Len(Tail(channel))
    BY <2>1, <1>3
  <2>3. Head(channel).id = queued[Len(performed) + 1]
    BY <2>1, <1>3
  <2>4. ASSUME NEW i \in 1..Len(Tail(channel))
        PROVE  Tail(channel)[i].id = queued[Len(performed) + 1 + i]
    <3>1. i + 1 \in 1..Len(channel) /\ Len(performed) + (i + 1) = Len(performed) + 1 + i
      BY <1>3
    <3>2. Tail(channel)[i] = channel[i + 1]
      BY <1>3
    <3> QED
      BY <3>1, <3>2, <2>1, Zenon
  <2> QED
    BY <1>1, <2>2, <2>3, <2>4, Zenon DEF DeviceInv, Line
<1>7. OwnCommand'
  <2>1. SUFFICES ASSUME ongoing.at = "reply"
        PROVE  /\ \A i \in 1..Len(Tail(channel)) :
                     Tail(channel)[i].id = calls => Tail(channel)[i].op = ongoing.op
               /\ Head(channel).id = calls => Head(channel).op = ongoing.op
    BY <1>1, Zenon DEF OwnCommand
  <2>2. \A i \in 1..Len(channel) : channel[i].id = calls => channel[i].op = ongoing.op
    BY <2>1, <1>1, Zenon DEF DeviceInv, OwnCommand, Left
  <2>3. ASSUME NEW i \in 1..Len(Tail(channel))
        PROVE  Tail(channel)[i].id = calls => Tail(channel)[i].op = ongoing.op
    <3>1. i + 1 \in 1..Len(channel) /\ Tail(channel)[i] = channel[i + 1]
      BY <1>3
    <3> QED
      BY <3>1, <2>2, Zenon
  <2>4. Head(channel).id = calls => Head(channel).op = ongoing.op
    BY <2>2, <1>3
  <2> QED
    BY <2>3, <2>4, Zenon
<1>8. Replies'
  <2>1. ~Drained /\ ~Left
    BY <1>1 DEF Drained, Left
  <2>2. /\ ~(ongoing.at = "reply" /\ reply # "none") /\ ongoing.at # "join"
        /\ ~(~owned /\ transport = "open") /\ ~(closed /\ ~detached)
        /\ ~(outcome = "ok" /\ ongoing = NoCall /\ transport = "open")
    BY <2>1, <1>1, Zenon DEF DeviceInv, Replies
  <2> QED
    BY <2>2, <1>1, Zenon DEF DeviceInv, Replies
<1> QED
  BY <1>4, <1>5, <1>6, <1>7, <1>8 DEF DeviceInv

\* The backend returns.  When the command is the present call's, its number is the
\* largest, so the queue behind it is empty.
LEMMA DevicePerformStep ==
    ASSUME DeviceInv, Perform
    PROVE  DeviceInv'
<1>1. /\ worker = "busy"
      /\ performed' = Append(performed, command.id)
      /\ worker' = IF command.op = "disconnect" THEN "leaving" ELSE "recv"
      /\ UNCHANGED <<shared, transport, owned, calls, ongoing, outcome, channel, queued, closed, detached>>
  BY DEF Perform
<1>2. /\ command \in Command /\ performed \in Seq(Nat) /\ queued \in Seq(Nat) /\ calls \in Nat
      /\ channel \in Seq(Command)
  BY <1>1, Zenon DEF DeviceInv, DeviceTypes
<1>3. /\ Len(queued) = Len(performed) + 1 + Len(channel)
      /\ command.id = queued[Len(performed) + 1]
      /\ \A i \in 1..Len(channel) : channel[i].id = queued[Len(performed) + 1 + i]
  BY <1>1, Zenon DEF DeviceInv, Line
<1>4. Len(channel) \in Nat /\ Len(performed) \in Nat /\ Len(queued) \in Nat /\ command.id \in Nat
  BY <1>2 DEF Command
<1>5. /\ performed' \in Seq(Nat) /\ Len(performed') = Len(performed) + 1
      /\ performed'[Len(performed) + 1] = command.id
      /\ \A i \in 1..Len(performed) : performed'[i] = performed[i]
  BY <1>1, <1>2, <1>4
<1>6. worker' \in {"recv", "leaving"}
  BY <1>1
<1>7. reply' \in {"none", "ok", "error"}
  BY Zenon DEF Perform, DeviceInv, DeviceTypes
<1>8. DeviceTypes'
  BY <1>1, <1>5, <1>6, <1>7, Zenon DEF DeviceInv, DeviceTypes
<1>9. Numbers'
  BY <1>1, Zenon DEF DeviceInv, Numbers
<1>10. Line'
  <2>1. ASSUME NEW i \in 1..(Len(performed) + 1)
        PROVE  performed'[i] = queued[i]
    <3>1. CASE i \in 1..Len(performed)
      BY <3>1, <1>5, Zenon DEF DeviceInv, Line
    <3>2. CASE i = Len(performed) + 1
      BY <3>2, <1>3, <1>5, Zenon
    <3>3. i \in 1..Len(performed) \/ i = Len(performed) + 1
      BY <1>4
    <3> QED
      BY <3>1, <3>2, <3>3, Zenon
  <2>2. Len(performed) + 1 <= Len(queued) /\ Len(queued) = (Len(performed) + 1) + Len(channel)
    BY <1>3, <1>4
  <2> QED
    BY <1>1, <1>3, <1>5, <1>6, <2>1, <2>2, Zenon DEF Line
<1>11. OwnCommand'
  BY <1>1, <1>6, Zenon DEF DeviceInv, OwnCommand, Left
<1>12. reply = "none" /\ ongoing.at # "join" /\ (owned \/ transport # "open") /\ ~(closed /\ ~detached)
       /\ ~(outcome = "ok" /\ ongoing = NoCall /\ transport = "open")
  <2>1. ~Drained /\ ~Left
    BY <1>1 DEF Drained, Left
  <2>2. ongoing.at \in {"none", "send", "reply", "join"}
    BY SMTT(30) DEF DeviceInv, DeviceTypes, NoCall
  <2> QED
    BY <2>1, <2>2, <1>1, Zenon DEF DeviceInv, DeviceTypes, Replies
<1>13. ASSUME reply' # "none"
       PROVE  ongoing.at = "reply" /\ command.id = calls
  BY <1>12, <1>13, Zenon DEF Perform
<1>14. ASSUME reply' # "none"
       PROVE  channel = <<>> /\ (ongoing.op = "disconnect" => worker' = "leaving")
  <2>1. command.op = ongoing.op
    BY <1>1, <1>13, <1>14, Zenon DEF DeviceInv, OwnCommand, Left
  <2>2. transport = "open"
    BY <1>13, <1>14, SMTT(30) DEF DeviceInv, DeviceTypes, Numbers, NoCall
  <2>3. ASSUME channel # <<>>
        PROVE  FALSE
    <3>1. Len(channel) # 0
      BY <2>3, <1>2
    <3>2. Len(performed) + 1 \in 1..Len(queued) /\ Len(performed) + 2 \in 1..Len(queued)
      BY <3>1, <1>3, <1>4
    <3>3. queued[Len(performed) + 1] < queued[Len(performed) + 2]
      BY <3>2, <1>4 DEF DeviceInv, Numbers
    <3>4. queued[Len(performed) + 2] <= calls /\ queued[Len(performed) + 2] \in Nat
      BY <3>2, <2>2, <1>2 DEF DeviceInv, Numbers
    <3>5. queued[Len(performed) + 1] = calls
      BY <1>3, <1>13, <1>14, Zenon
    <3> QED
      BY <3>3, <3>4, <3>5, <1>2
  <2> QED
    BY <2>1, <2>3, <1>1
<1>15. Replies'
  <2>1. ongoing.at \in {"none", "send"} => reply' = "none"
    BY <1>13
  <2>2. reply' # "none" => Drained' /\ (ongoing.op = "disconnect" => Left')
    BY <1>1, <1>6, <1>14, Zenon DEF Drained, Left
  <2> QED
    BY <2>1, <2>2, <1>1, <1>12, Zenon DEF Replies
<1> QED
  BY <1>8, <1>9, <1>10, <1>11, <1>15 DEF DeviceInv

\* The thread leaves its loop after a panic or at the end of the channel, and is gone.
LEMMA DeviceLeaveStep ==
    ASSUME DeviceInv, Panic \/ ChannelEnds \/ Stop
    PROVE  DeviceInv'
<1>1. /\ UNCHANGED <<shared, transport, owned, calls, ongoing, reply, outcome, performed, queued,
                     closed, detached>>
      /\ worker' \in {"leaving", "stopped"} /\ worker # "stopped"
      /\ worker = "leaving" => worker' = "stopped"
      /\ channel' = channel \/ channel' = <<>>
  BY Zenon DEF Panic, ChannelEnds, Stop, caller
<1>2. <<>> \in Seq(Command)
  OBVIOUS
<1>3. channel' \in Seq(Command)
  BY <1>1, <1>2, Zenon DEF DeviceInv, DeviceTypes
<1>4. DeviceTypes'
  BY <1>1, <1>3 DEF DeviceInv, DeviceTypes
<1>5. Numbers'
  BY <1>1, Zenon DEF DeviceInv, Numbers
<1>6. Line'
  BY <1>1, Zenon DEF DeviceInv, Line
<1>7. Left' /\ Drained'
  BY <1>1, Zenon DEF Left, Drained
<1>8. OwnCommand'
  BY <1>7, Zenon DEF OwnCommand
<1>9. Replies'
  <2>1. ~owned /\ transport = "open" => detached \/ ongoing.at = "join" \/ worker' = "stopped"
    BY <1>1, Zenon DEF DeviceInv, Replies
  <2>2. ~(closed /\ ~detached)
    BY <1>1, Zenon DEF DeviceInv, Replies
  <2> QED
    BY <1>1, <1>7, <2>1, <2>2, Zenon DEF DeviceInv, Replies
<1> QED
  BY <1>4, <1>5, <1>6, <1>8, <1>9, Zenon DEF DeviceInv

-----------------------------------------------------------------------------

\* The invariant of the owner thread and its callers is inductive.
THEOREM DeviceInvariant == DeviceSpec => []DeviceInv
<1>1. DeviceInit => DeviceInv
  BY DeviceStarts
<1>2. DeviceInv /\ [DeviceNext]_device => DeviceInv'
  <2> SUFFICES ASSUME DeviceInv, [DeviceNext]_device PROVE DeviceInv'
    OBVIOUS
  <2>1. CASE (\E op \in Operations : BeginCall(op)) \/ SendFails \/ Reply \/ ReplyDropped \/ Join
                 \/ AbandonCall
    BY <2>1, DeviceCallerStep
  <2>2. CASE Send
    BY <2>2, DeviceSendStep
  <2>3. CASE DropDevice
    BY <2>3, DeviceDropStep
  <2>4. CASE Take
    BY <2>4, DeviceTakeStep
  <2>5. CASE Perform
    BY <2>5, DevicePerformStep
  <2>6. CASE Panic \/ ChannelEnds \/ Stop
    BY <2>6, DeviceLeaveStep
  <2>7. CASE UNCHANGED device
    <3> USE <2>7 DEF device, caller, thread, DeviceInv
    <3>1. DeviceTypes'
      BY DEF DeviceTypes
    <3>2. Numbers' /\ Line'
      BY Zenon DEF Numbers, Line
    <3>3. OwnCommand' /\ Replies'
      BY Zenon DEF OwnCommand, Replies, Drained, Left
    <3> QED
      BY <3>1, <3>2, <3>3, Zenon
  <2> QED
    BY <2>1, <2>2, <2>3, <2>4, <2>5, <2>6, <2>7, Zenon DEF DeviceNext, Resume, Worker
<1> QED
  BY <1>1, <1>2, PTL DEF DeviceSpec

\* The device carries out commands in the order of the calls and each at most once,
\* however many calls are abandoned behind a slow device.
THEOREM CommandsInOrder == DeviceSpec => []InOrderOnce
<1>1. DeviceInv => InOrderOnce
  BY Zenon DEF DeviceInv, Numbers, Line, InOrderOnce
<1> QED
  BY <1>1, DeviceInvariant, PTL

\* When a call returns Ok nothing older is outstanding, and when a disconnect does, the
\* device is free for others.
THEOREM OkIsKept == DeviceSpec => []OkIsTrue
<1>1. DeviceInv => OkIsTrue
  BY DEF DeviceInv, Replies, Drained, Left, OkIsTrue, OkMeansDrained, DisconnectReleases, Released
<1> QED
  BY <1>1, DeviceInvariant, PTL
=============================================================================
