--------------------------- MODULE SettingsProofs ----------------------------
(***************************************************************************)
(* Proofs about the settings read from and written to a printer, for every  *)
(* printer and every value of the limits: over its serial channel, what a   *)
(* session of device settings leaves behind and whose answers it returns,   *)
(* and whose replies the wireless settings are made of; over SNMP, what is  *)
(* reported of a write and what a read returns.  Each theorem is about the  *)
(* specification of one tool; every step Inspections takes for that tool is *)
(* one of its steps, and every other step leaves it unchanged.              *)
(***************************************************************************)
EXTENDS DeviceSettings, WirelessSettings, SnmpClient, Basics

-----------------------------------------------------------------------------
(* The session of device settings *)

Commands == [name : Queries \cup {"status", "enter", "exit"}, session : Nat]
Bytes == [of : Queries \cup {"status"}, session : Nat, at : Nat]

SettingsTypeOK ==
    /\ pc \in {"idle", "drain", "sendStatus", "status", "enter", "query", "answer", "exit"}
    /\ session \in Nat
    /\ response \in Seq(Bytes) /\ wire \in Seq(Bytes)
    /\ observations \in Seq(Seq(Bytes))
    /\ commands \in Seq(Commands)
    /\ pc \in {"drain", "sendStatus", "status", "enter"} => observations = <<>>
    /\ pc \in {"query", "answer"} => Len(observations) < Len(Settings)

\* The session is in settings mode and has its command to leave it still to send.
Inside(s) == s = session /\ pc \in {"query", "answer", "exit"}

\* The printer is told to leave settings mode after the command at i.
ExitAfter(i) == \E j \in (i + 1)..Len(commands) : commands[j].name = "exit"

\* Whoever makes the printer enter settings mode has told it, or will tell it, to leave it.
ModeInv ==
    /\ \A i \in 1..Len(commands) :
           commands[i].name = "enter" =>
               commands[i].session \in troubled \/ ExitAfter(i) \/ Inside(commands[i].session)
    /\ mode = "settings" => enteredBy \in troubled \/ ExitAfter(0) \/ Inside(enteredBy)

Command(name) == [name |-> name, session |-> session]
Byte(query, k) == [of |-> query, session |-> session, at |-> k]

\* Of the answer to the query that was sent last, the first bytes were read and the others are
\* on the wire, or nothing of it came.
Pending(query) ==
    /\ Len(response) + Len(wire) \in {0, Size[query]}
    /\ \A k \in 1..Len(response) : response[k] = Byte(query, k)
    /\ \A k \in 1..Len(wire) : wire[k] = Byte(query, Len(response) + k)

\* A session that began in silence is the only one the printer has anything of, and has one query
\* under way at most.
AnswerInv ==
    quiet =>
        /\ pc \in {"sendStatus", "enter"} => commands = <<>> /\ wire = <<>>
        /\ pc = "query" => commands \in {<<>>, <<Command("enter")>>} /\ wire = <<>>
        /\ pc \in {"status", "answer"} =>
               \/ /\ commands \in {<<Command(Asked)>>, <<Command("enter"), Command(Asked)>>}
                  /\ wire = <<>> /\ response = <<>>
               \/ commands = <<>> /\ Pending(Asked)
        /\ OwnAnswers

SettingsInv == SettingsTypeOK /\ ModeInv /\ AnswerInv

\* Nothing is sent, and a session that leaves settings mode without saying so is troubled.
LEMMA ModeSame ==
    ASSUME ModeInv, UNCHANGED <<commands, mode, enteredBy>>, troubled \subseteq troubled',
           \A s : Inside(s) => Inside(s)' \/ s \in troubled'
    PROVE  ModeInv'
BY DEF ModeInv, ExitAfter

\* A command is sent: one that leaves settings mode, or one after which the sender is inside or
\* troubled.
LEMMA ModeAppend ==
    ASSUME SettingsTypeOK, ModeInv, NEW c \in Commands, commands' = Append(commands, c),
           UNCHANGED <<mode, enteredBy>>, troubled \subseteq troubled',
           c.name # "exit" => \A s : Inside(s) => Inside(s)' \/ s \in troubled',
           c.name = "enter" => c.session \in troubled' \/ Inside(c.session)'
    PROVE  ModeInv'
<1>1. /\ Len(commands) \in Nat /\ Len(commands') = Len(commands) + 1
      /\ commands'[Len(commands) + 1] = c
      /\ \A i \in 1..Len(commands) : commands'[i] = commands[i]
    BY AppendFacts DEF SettingsTypeOK
<1>2. \A i \in 0..Len(commands) : ExitAfter(i) \/ c.name = "exit" => ExitAfter(i)'
    BY <1>1 DEF ExitAfter
<1>3. ASSUME NEW i \in 1..Len(commands'), commands'[i].name = "enter"
      PROVE  (commands[i].session \in troubled \/ ExitAfter(i) \/ Inside(commands[i].session))'
  <2>1. CASE i \in 1..Len(commands)
      BY <1>1, <1>2, <1>3, <2>1 DEF ModeInv
  <2>2. CASE i = Len(commands) + 1
      BY <1>1, <1>3, <2>2
  <2> QED
      BY <1>1, <2>1, <2>2
<1>4. (mode = "settings" => enteredBy \in troubled \/ ExitAfter(0) \/ Inside(enteredBy))'
    BY <1>1, <1>2 DEF ModeInv
<1> QED
    BY <1>3, <1>4 DEF ModeInv

\* Nothing of what makes the answers a session's own changes.
LEMMA AnswersSame ==
    ASSUME AnswerInv, UNCHANGED <<session, observations, quiet>>,
           pc' \in {"idle", "drain", "exit"}
    PROVE  AnswerInv'
BY DEF AnswerInv, OwnAnswers, IsOwn

\* A write: the command is sent, or the session is troubled, or both.
LEMMA WriteFacts ==
    ASSUME SettingsTypeOK, NEW name \in Queries \cup {"status", "enter", "exit"},
           NEW written, NEW failed, Write(name, written, failed)
    PROVE  /\ response' = <<>> /\ response' \in Seq(Bytes)
           /\ commands' \in Seq(Commands)
           /\ troubled \subseteq troubled'
           /\ commands' \in {commands, Append(commands, Command(name))}
           /\ \/ pc' = written /\ commands' = Append(commands, Command(name)) /\ troubled' = troubled
              \/ pc' = failed /\ session \in troubled'
<1>1. Command(name) \in Commands
    BY DEF Command, Commands, SettingsTypeOK
<1>2. Append(commands, Command(name)) \in Seq(Commands)
    BY <1>1, AppendFacts DEF SettingsTypeOK
<1>3. commands \in Seq(Commands) /\ <<>> \in Seq(Bytes)
    BY DEF SettingsTypeOK
<1>4. /\ response' = <<>>
      /\ \/ /\ commands' = Append(commands, Command(name))
            /\ \/ pc' = written /\ troubled' = troubled
               \/ pc' = failed /\ troubled' = troubled \cup {session}
         \/ /\ commands' = commands
            /\ pc' = failed /\ troubled' = troubled \cup {session}
    BY DEF Write, Command
<1> QED
    BY <1>2, <1>3, <1>4, Zenon

LEMMA WriteMode ==
    ASSUME SettingsTypeOK, ModeInv, NEW name \in Queries \cup {"status", "enter", "exit"},
           NEW written, NEW failed, Write(name, written, failed),
           UNCHANGED <<mode, enteredBy, session>>,
           \A s : Inside(s) => s = session,
           name = "exit" \/ written \in {"query", "answer", "exit"}
               \/ (name # "enter" /\ \A s : ~Inside(s))
    PROVE  ModeInv'
<1>1. /\ troubled \subseteq troubled'
      /\ commands' \in {commands, Append(commands, Command(name))}
      /\ \/ pc' = written /\ commands' = Append(commands, Command(name)) /\ troubled' = troubled
         \/ pc' = failed /\ session \in troubled'
    BY WriteFacts, Zenon
<1>2. PICK c \in Commands : c = Command(name)
    BY Zenon DEF Command, Commands, SettingsTypeOK
<1>3. c.name = name /\ c.session = session
    BY <1>2 DEF Command
<1>4. CASE commands' = commands /\ session \in troubled'
  <2>1. \A s : Inside(s) => s \in troubled'
      BY <1>4
  <2> QED
      BY <1>1, <1>4, <2>1, ModeSame, Zenon
<1>5. CASE commands' = Append(commands, c) /\ session \in troubled'
  <2>1. \A s : Inside(s) => s \in troubled'
      BY <1>5
  <2> QED
      BY <1>1, <1>3, <1>5, <2>1, ModeAppend, Zenon
<1>6. CASE commands' = Append(commands, c) /\ pc' = written
  <2>1. CASE name = "exit" \/ written \in {"query", "answer", "exit"}
    <3>1. c.name # "exit" => \A s : Inside(s) => Inside(s)'
        BY <1>3, <1>6, <2>1 DEF Inside
    <3>2. c.name = "enter" => Inside(c.session)'
        BY <1>3, <1>6, <2>1, Zenon DEF Inside
    <3> QED
        BY <1>1, <1>6, <3>1, <3>2, ModeAppend, Zenon
  <2>2. CASE name # "enter" /\ \A s : ~Inside(s)
      BY <1>1, <1>3, <1>6, <2>2, ModeAppend, Zenon
  <2> QED
      BY <2>1, <2>2
<1> QED
    BY <1>1, <1>2, <1>4, <1>5, <1>6, Zenon

LEMMA SettingsWrites ==
    ASSUME SettingsInv, SendStatus \/ Enter \/ Query \/ Exit
    PROVE  SettingsInv'
<1> USE SettingsAssumption
<1>0. SettingsTypeOK /\ ModeInv /\ AnswerInv
    BY DEF SettingsInv
<1>q. Settings \in Seq(Queries) /\ Len(Settings) \in Nat
    OBVIOUS
<1>1. CASE SendStatus
  <2>1. /\ pc = "sendStatus" /\ Write("status", "status", "idle")
        /\ UNCHANGED <<session, observations, quiet, mode, enteredBy, wire>>
      BY <1>1 DEF SendStatus, printer
  <2>2. /\ response' = <<>> /\ response' \in Seq(Bytes) /\ commands' \in Seq(Commands)
        /\ \/ pc' = "status" /\ commands' = Append(commands, Command("status")) /\ troubled' = troubled
           \/ pc' = "idle" /\ session \in troubled'
      BY <1>0, <2>1, WriteFacts, Zenon
  <2>3. SettingsTypeOK'
      BY <1>0, <2>1, <2>2, Zenon DEF SettingsTypeOK
  <2>4. ModeInv'
      BY <1>0, <2>1, WriteMode, Zenon DEF Inside
  <2>5. ASSUME pc' = "status" /\ commands' = Append(commands, Command("status")) PROVE AnswerInv'
    <3>1. quiet => commands' = <<Command("status")>>
        BY <1>0, <2>1, <2>5 DEF AnswerInv
    <3> QED
        BY <1>0, <2>1, <2>2, <2>5, <3>1, Zenon DEF AnswerInv, OwnAnswers, IsOwn, Asked, Command
  <2>6. ASSUME pc' = "idle" PROVE AnswerInv'
      BY <1>0, <2>1, <2>6, AnswersSame, Zenon
  <2> QED
      BY <2>2, <2>3, <2>4, <2>5, <2>6, Zenon DEF SettingsInv
<1>2. CASE Enter
  <2>1. /\ pc = "enter" /\ Write("enter", NextQuery(<<>>), "idle")
        /\ UNCHANGED <<session, observations, quiet, mode, enteredBy, wire>>
      BY <1>2 DEF Enter, printer
  <2>n. NextQuery(<<>>) \in {"query", "exit"} /\ (NextQuery(<<>>) = "query" => Len(Settings) > 0)
      BY <1>q DEF NextQuery
  <2>2. /\ response' = <<>> /\ response' \in Seq(Bytes) /\ commands' \in Seq(Commands)
        /\ \/ /\ pc' = NextQuery(<<>>) /\ commands' = Append(commands, Command("enter"))
              /\ troubled' = troubled
           \/ pc' = "idle" /\ session \in troubled'
      BY <1>0, <2>1, WriteFacts, Zenon
  <2>3. SettingsTypeOK'
      BY <1>0, <2>1, <2>2, <2>n, Zenon DEF SettingsTypeOK
  <2>4. ModeInv'
      BY <1>0, <2>1, <2>n, WriteMode, Zenon DEF Inside
  <2>5. ASSUME pc' = "query" /\ commands' = Append(commands, Command("enter")) PROVE AnswerInv'
    <3>1. quiet => commands' = <<Command("enter")>>
        BY <1>0, <2>1, <2>5 DEF AnswerInv
    <3> QED
        BY <1>0, <2>1, <2>5, <3>1, Zenon DEF AnswerInv, OwnAnswers, IsOwn, Command
  <2>6. ASSUME pc' \in {"idle", "exit"} PROVE AnswerInv'
      BY <1>0, <2>1, <2>6, AnswersSame, Zenon
  <2> QED
      BY <2>2, <2>3, <2>4, <2>5, <2>6, <2>n, Zenon DEF SettingsInv
<1>3. CASE Query
  <2>1. /\ pc = "query" /\ Write(Asked, "answer", "exit")
        /\ observations' = IF pc' = "exit" THEN Append(observations, <<>>) ELSE observations
        /\ UNCHANGED <<session, quiet, mode, enteredBy, wire>>
      BY <1>3, Zenon DEF Query, printer
  <2>n. /\ Asked = Settings[Len(observations) + 1] /\ Asked \in Queries
        /\ Len(observations) \in Nat /\ Len(observations) < Len(Settings)
      BY <1>0, <1>q, <2>1 DEF Asked, SettingsTypeOK
  <2>2. /\ response' = <<>> /\ response' \in Seq(Bytes) /\ commands' \in Seq(Commands)
        /\ \/ pc' = "answer" /\ commands' = Append(commands, Command(Asked)) /\ troubled' = troubled
           \/ pc' = "exit" /\ session \in troubled'
      BY <1>0, <2>1, <2>n, WriteFacts, Zenon
  <2>a. Append(observations, <<>>) \in Seq(Seq(Bytes))
      BY <1>0, AppendFacts DEF SettingsTypeOK
  <2>3. SettingsTypeOK'
      BY <1>0, <2>1, <2>2, <2>a, Zenon DEF SettingsTypeOK
  <2>4. ModeInv'
      BY <1>0, <2>1, <2>n, WriteMode, Zenon DEF Inside
  <2>5. ASSUME pc' = "answer" /\ commands' = Append(commands, Command(Asked)) PROVE AnswerInv'
    <3>1. ASSUME quiet
          PROVE  commands' \in {<<Command(Asked)>>, <<Command("enter"), Command(Asked)>>}
      <4>1. CASE commands = <<>>
          BY <2>5, <4>1
      <4>2. CASE commands = <<Command("enter")>>
          BY <2>5, <4>2, AppendOne, Zenon
      <4> QED
          BY <1>0, <2>1, <3>1, <4>1, <4>2, Zenon DEF AnswerInv
    <3>2. Asked' = Asked
        BY <2>1, <2>5, Zenon DEF Asked
    <3> QED
        BY <1>0, <2>1, <2>2, <2>5, <3>1, <3>2, Zenon DEF AnswerInv, OwnAnswers, IsOwn, Command
  <2>6. ASSUME pc' = "exit" PROVE AnswerInv'
    <3>1. observations' = Append(observations, <<>>)
        BY <2>1, <2>6
    <3>2. /\ Len(observations') = Len(observations) + 1 /\ observations'[Len(observations) + 1] = <<>>
          /\ \A i \in 1..Len(observations) : observations'[i] = observations[i]
        BY <1>0, <3>1, AppendFacts DEF SettingsTypeOK
    <3> QED
        BY <1>0, <2>1, <2>6, <2>n, <3>2 DEF AnswerInv, OwnAnswers, IsOwn
  <2> QED
      BY <2>2, <2>3, <2>4, <2>5, <2>6, Zenon DEF SettingsInv
<1>4. CASE Exit
  <2>1. /\ pc = "exit" /\ Write("exit", "idle", "idle")
        /\ UNCHANGED <<session, observations, quiet, mode, enteredBy, wire>>
      BY <1>4 DEF Exit, printer
  <2>2. /\ response' = <<>> /\ response' \in Seq(Bytes) /\ commands' \in Seq(Commands)
        /\ pc' = "idle"
      BY <1>0, <2>1, WriteFacts, Zenon
  <2>3. SettingsTypeOK'
      BY <1>0, <2>1, <2>2, Zenon DEF SettingsTypeOK
  <2>4. ModeInv'
      BY <1>0, <2>1, WriteMode, Zenon DEF Inside
  <2> QED
      BY <1>0, <2>1, <2>2, <2>3, <2>4, AnswersSame, Zenon DEF SettingsInv
<1> QED
    BY <1>1, <1>2, <1>3, <1>4, Zenon

\* A piece of the answer: what was read of it and what is still to come.
LEMMA PieceFacts ==
    ASSUME SettingsTypeOK, NEW n \in 0..Len(wire)
    PROVE  LET bytes == response \o SubSeq(wire, 1, n)
               rest == SubSeq(wire, n + 1, Len(wire))
           IN  /\ bytes \in Seq(Bytes) /\ rest \in Seq(Bytes)
               /\ Len(response) \in Nat /\ Len(wire) \in Nat
               /\ Len(bytes) = Len(response) + n /\ Len(rest) = Len(wire) - n
               /\ \A query : Pending(query) =>
                      /\ \A k \in 1..Len(bytes) : bytes[k] = Byte(query, k)
                      /\ \A k \in 1..Len(rest) : rest[k] = Byte(query, Len(bytes) + k)
<1> DEFINE piece == SubSeq(wire, 1, n)
           bytes == response \o piece
           rest == SubSeq(wire, n + 1, Len(wire))
<1>0. response \in Seq(Bytes) /\ wire \in Seq(Bytes) /\ Len(response) \in Nat /\ Len(wire) \in Nat /\ n \in Nat
    BY DEF SettingsTypeOK
<1>1. /\ piece \in Seq(Bytes) /\ Len(piece) = n
      /\ \A i \in 1..n : piece[i] = wire[i]
      /\ rest \in Seq(Bytes) /\ Len(rest) = Len(wire) - n
      /\ \A i \in 1..(Len(wire) - n) : rest[i] = wire[n + i]
    BY <1>0, CutFacts
<1> HIDE DEF piece, rest
<1>b. /\ response \o piece \in Seq(Bytes) /\ Len(response) \in Nat /\ Len(piece) \in Nat
      /\ Len(response \o piece) = Len(response) + Len(piece)
      /\ \A i \in 1..Len(response) : (response \o piece)[i] = response[i]
      /\ \A i \in 1..Len(piece) : (response \o piece)[Len(response) + i] = piece[i]
  <2>1. response \in Seq(Bytes) /\ piece \in Seq(Bytes)
      BY <1>0, <1>1, Zenon
  <2> QED
      BY <2>1, ConcatFacts
<1>2. /\ bytes \in Seq(Bytes) /\ Len(bytes) = Len(response) + n
      /\ \A i \in 1..Len(response) : bytes[i] = response[i]
      /\ \A i \in 1..n : bytes[Len(response) + i] = piece[i]
    BY <1>1, <1>b, Zenon
<1> HIDE DEF bytes
<1>3. ASSUME NEW query, Pending(query), NEW k \in 1..Len(bytes)
      PROVE  bytes[k] = Byte(query, k)
  <2>1. CASE k \in 1..Len(response)
      BY <1>2, <1>3, <2>1, Zenon DEF Pending
  <2>2. CASE k - Len(response) \in 1..n
    <3>1. bytes[k] = wire[k - Len(response)]
      <4>0. k \in Int /\ Len(response) \in Int
          BY <1>0, <1>2
      <4>1. PICK j \in 1..n : k = Len(response) + j /\ k - Len(response) = j
          BY <2>2, <4>0
      <4>2. bytes[Len(response) + j] = piece[j] /\ piece[j] = wire[j]
          BY <1>1, <1>2, Zenon
      <4> QED
          BY <4>1, <4>2, Zenon
    <3>2. wire[k - Len(response)] = Byte(query, Len(response) + (k - Len(response)))
        BY <1>0, <1>3, <2>2 DEF Pending
    <3> QED
        BY <1>0, <3>1, <3>2
  <2> QED
      BY <1>0, <1>2, <2>1, <2>2
<1>4. ASSUME NEW query, Pending(query), NEW k \in 1..Len(rest)
      PROVE  rest[k] = Byte(query, Len(bytes) + k)
  <2>1. rest[k] = wire[n + k] /\ n + k \in 1..Len(wire)
      BY <1>0, <1>1
  <2>2. wire[n + k] = Byte(query, Len(response) + (n + k))
      BY <1>4, <2>1, Zenon DEF Pending
  <2>3. Len(response) + (n + k) = Len(bytes) + k
      BY <1>0, <1>1, <1>2
  <2> QED
      BY <2>1, <2>2, <2>3, Zenon
<1>5. /\ bytes \in Seq(Bytes) /\ rest \in Seq(Bytes)
      /\ Len(response) \in Nat /\ Len(wire) \in Nat
      /\ Len(bytes) = Len(response) + n /\ Len(rest) = Len(wire) - n
      /\ \A query : Pending(query) =>
             /\ \A k \in 1..Len(bytes) : bytes[k] = Byte(query, k)
             /\ \A k \in 1..Len(rest) : rest[k] = Byte(query, Len(bytes) + k)
    BY <1>0, <1>1, <1>2, <1>3, <1>4, Zenon
<1> QED
    BY <1>5, Zenon DEF bytes, piece, rest

\* An answer that cannot be had is observed as an error, and the session leaves settings mode.
LEMMA ReadFailsFacts ==
    ASSUME SettingsInv, pc \in {"status", "answer"}, ReadFails, response' = <<>>,
           wire' \in Seq(Bytes), UNCHANGED <<session, quiet, troubled, mode, enteredBy, commands>>
    PROVE  SettingsInv'
<1> USE SettingsAssumption
<1>0. SettingsTypeOK /\ ModeInv /\ AnswerInv
    BY DEF SettingsInv
<1>1. /\ pc' \in {"idle", "exit"} /\ (pc = "answer" => pc' = "exit")
      /\ observations' \in {observations, Append(observations, <<>>)}
    BY DEF ReadFails
<1>2. /\ Append(observations, <<>>) \in Seq(Seq(Bytes))
      /\ Len(observations) \in Nat /\ Len(Append(observations, <<>>)) = Len(observations) + 1
      /\ Append(observations, <<>>)[Len(observations) + 1] = <<>>
      /\ \A i \in 1..Len(observations) : Append(observations, <<>>)[i] = observations[i]
    BY <1>0, AppendFacts DEF SettingsTypeOK
<1>3. SettingsTypeOK'
  <2>1. observations \in Seq(Seq(Bytes))
      BY <1>0, Zenon DEF SettingsTypeOK
  <2>2. observations' \in Seq(Seq(Bytes))
      BY <1>1, <1>2, <2>1, Zenon
  <2>3. response' \in Seq(Bytes)
      OBVIOUS
  <2> QED
      BY <1>0, <1>1, <2>2, <2>3, Zenon DEF SettingsTypeOK
<1>4. \A s : Inside(s) => Inside(s)'
    BY <1>1, Zenon DEF Inside
<1>5. ModeInv'
    BY <1>0, <1>4, ModeSame, Zenon
<1>6. ASSUME observations' = observations PROVE AnswerInv'
    BY <1>0, <1>1, <1>6, AnswersSame, Zenon
<1>7. ASSUME observations' = Append(observations, <<>>) PROVE AnswerInv'
    BY <1>0, <1>1, <1>2, <1>7 DEF AnswerInv, OwnAnswers, IsOwn
<1> QED
    BY <1>1, <1>3, <1>5, <1>6, <1>7, Zenon DEF SettingsInv

LEMMA SettingsReadEnds ==
    ASSUME SettingsInv, ReadEnds
    PROVE  SettingsInv'
<1>1. /\ pc \in {"status", "answer"} /\ ReadFails /\ response' = <<>>
      /\ UNCHANGED <<session, quiet, troubled, mode, enteredBy, commands, wire>>
    BY DEF ReadEnds, printer
<1>2. wire' \in Seq(Bytes)
    BY <1>1 DEF SettingsInv, SettingsTypeOK
<1> QED
    BY <1>1, <1>2, ReadFailsFacts, Zenon

LEMMA SettingsReadPiece ==
    ASSUME SettingsInv, NEW n \in 0..Len(wire), ReadPiece(n)
    PROVE  SettingsInv'
<1> USE SettingsAssumption
<1>0. SettingsTypeOK /\ ModeInv /\ AnswerInv
    BY DEF SettingsInv
<1>q. Settings \in Seq(Queries) /\ Len(Settings) \in Nat /\ observations \in Seq(Seq(Bytes)) /\ Len(observations) \in Nat
    BY <1>0 DEF SettingsTypeOK
<1> DEFINE bytes == response \o SubSeq(wire, 1, n)
           rest == SubSeq(wire, n + 1, Len(wire))
<1>1. /\ bytes \in Seq(Bytes) /\ rest \in Seq(Bytes)
      /\ Len(response) \in Nat /\ Len(wire) \in Nat
      /\ Len(bytes) = Len(response) + n /\ Len(rest) = Len(wire) - n
      /\ \A query : Pending(query) =>
             /\ \A k \in 1..Len(bytes) : bytes[k] = Byte(query, k)
             /\ \A k \in 1..Len(rest) : rest[k] = Byte(query, Len(bytes) + k)
    BY <1>0, PieceFacts, Zenon
<1>2. /\ pc \in {"status", "answer"} /\ wire' = rest
      /\ \/ /\ Len(bytes) # Size[Asked] /\ ReadFails /\ response' = <<>>
         \/ /\ Len(bytes) < Size[Asked] /\ response' = bytes
            /\ UNCHANGED <<pc, observations>>
         \/ /\ Len(bytes) = Size[Asked] /\ response' = <<>>
            /\ IF pc = "status"
               THEN Identified(bytes, pc') /\ UNCHANGED observations
               ELSE /\ observations' = Append(observations, bytes)
                    /\ pc' = NextQuery(observations')
      /\ UNCHANGED <<session, quiet, troubled, mode, enteredBy, commands>>
    BY Zenon DEF ReadPiece, printer
<1> HIDE DEF bytes, rest
<1>3. quiet => \/ commands = <<>> /\ Pending(Asked)
               \/ /\ commands \in {<<Command(Asked)>>, <<Command("enter"), Command(Asked)>>}
                  /\ wire = <<>> /\ response = <<>>
    BY <1>0, <1>2, Zenon DEF AnswerInv
<1>e. wire = <<>> /\ response = <<>> => Len(bytes) = 0 /\ bytes = <<>> /\ rest = <<>>
    BY <1>1
<1>4. Asked \in DOMAIN Size /\ Size[Asked] \in Nat \ {0}
    BY <1>0, <1>2, <1>q DEF Asked, SettingsTypeOK
<1>5. ASSUME quiet, Len(bytes) = Size[Asked]
      PROVE  commands = <<>> /\ Pending(Asked) /\ Len(response) + Len(wire) = Size[Asked]
  <2>1. commands = <<>> /\ Pending(Asked)
      BY <1>3, <1>4, <1>5, <1>e
  <2>2. Len(response) + Len(wire) \in {0, Size[Asked]}
      BY <2>1, Zenon DEF Pending
  <2> QED
      BY <1>1, <1>4, <1>5, <2>1, <2>2
<1>6. CASE Len(bytes) # Size[Asked] /\ ReadFails /\ response' = <<>>
    BY <1>1, <1>2, <1>6, ReadFailsFacts, Zenon
<1>7. CASE Len(bytes) < Size[Asked] /\ response' = bytes /\ UNCHANGED <<pc, observations>>
  <2>1. SettingsTypeOK'
      BY <1>0, <1>1, <1>2, <1>7, Zenon DEF SettingsTypeOK
  <2>2. ModeInv'
      BY <1>0, <1>2, <1>7, ModeSame, Zenon DEF Inside
  <2>3. Asked' = Asked
      BY <1>7, Zenon DEF Asked
  <2>4. ASSUME Pending(Asked) PROVE Pending(Asked)'
    <3>1. Len(response') + Len(wire') \in {0, Size[Asked]}
      <4>1. Len(response) + Len(wire) \in {0, Size[Asked]}
          BY <2>4, Zenon DEF Pending
      <4>2. Len(bytes) + Len(rest) = Len(response) + Len(wire)
          BY <1>1
      <4> QED
          BY <1>2, <1>7, <4>1, <4>2, Zenon
    <3>2. /\ \A k \in 1..Len(response') : response'[k] = Byte(Asked, k)
          /\ \A k \in 1..Len(wire') : wire'[k] = Byte(Asked, Len(response') + k)
        BY <1>1, <1>2, <1>7, <2>4, Zenon
    <3> QED
        BY <1>2, <2>3, <3>1, <3>2, Zenon DEF Pending, Byte
  <2>5. wire = <<>> /\ response = <<>> => wire' = <<>> /\ response' = <<>>
      BY <1>2, <1>7, <1>e, Zenon
  <2>6. AnswerInv'
    <3>1. quiet' => OwnAnswers'
        BY <1>0, <1>2, <1>7, Zenon DEF AnswerInv, OwnAnswers, IsOwn
    <3>2. Command(Asked)' = Command(Asked) /\ Command("enter")' = Command("enter")
        BY <1>2, <2>3, Zenon DEF Command
    <3>3. quiet' => \/ commands' = <<>> /\ Pending(Asked)'
                    \/ /\ commands' \in {<<Command(Asked)'>>, <<Command("enter")', Command(Asked)'>>}
                       /\ wire' = <<>> /\ response' = <<>>
        BY <1>2, <1>3, <2>4, <2>5, <3>2, Zenon
    <3> QED
        BY <1>2, <1>7, <3>1, <3>3, Zenon DEF AnswerInv
  <2> QED
      BY <2>1, <2>2, <2>6, Zenon DEF SettingsInv
<1>8. CASE Len(bytes) = Size[Asked] /\ response' = <<>> /\ pc = "status"
  <2>1. pc' \in {"enter", "idle"} /\ observations' = observations
      BY <1>2, <1>4, <1>8, Zenon DEF Identified, ReadFails
  <2>2. SettingsTypeOK'
      BY <1>0, <1>1, <1>2, <1>8, <2>1 DEF SettingsTypeOK
  <2>3. ModeInv'
      BY <1>0, <1>2, <1>8, <2>1, ModeSame, Zenon DEF Inside
  <2>4. quiet => wire' = <<>>
      BY <1>1, <1>2, <1>5, <1>8
  <2>5. AnswerInv'
      BY <1>0, <1>2, <1>5, <1>8, <2>1, <2>4, Zenon DEF AnswerInv, OwnAnswers, IsOwn
  <2> QED
      BY <2>2, <2>3, <2>5 DEF SettingsInv
<1>9. CASE /\ Len(bytes) = Size[Asked] /\ response' = <<>> /\ pc = "answer"
           /\ observations' = Append(observations, bytes) /\ pc' = NextQuery(observations')
  <2>1. /\ observations' \in Seq(Seq(Bytes))
        /\ Len(observations') = Len(observations) + 1
        /\ observations'[Len(observations) + 1] = bytes
        /\ \A i \in 1..Len(observations) : observations'[i] = observations[i]
      BY <1>1, <1>9, <1>q, AppendFacts
  <2>2. pc' \in {"query", "exit"} /\ (pc' = "query" => Len(observations') < Len(Settings))
      BY <1>0, <1>9, <1>q, <2>1 DEF NextQuery, SettingsTypeOK
  <2>3. SettingsTypeOK'
      BY <1>0, <1>1, <1>2, <1>9, <2>1, <2>2, SMTT(30) DEF SettingsTypeOK
  <2>4. ModeInv'
      BY <1>0, <1>2, <1>9, <2>2, ModeSame, Zenon DEF Inside
  <2>5. quiet => wire' = <<>>
      BY <1>1, <1>2, <1>5, <1>9
  <2>6. Asked = Settings[Len(observations) + 1]
      BY <1>9, Zenon DEF Asked
  <2>7. ASSUME quiet PROVE OwnAnswers'
    <3>1. \A k \in 1..Len(bytes) : bytes[k] = Byte(Asked, k)
        BY <1>1, <1>5, <1>9, <2>7, Zenon
    <3>2. \A i \in 1..Len(observations) : IsOwn(observations[i], i)
        BY <1>0, <2>7, Zenon DEF AnswerInv, OwnAnswers
    <3>3. ASSUME NEW i \in 1..Len(observations'), NEW k \in 1..Len(observations'[i])
          PROVE  observations'[i][k] = [of |-> Settings[i], session |-> session', at |-> k]
      <4>1. CASE i \in 1..Len(observations)
          BY <1>2, <2>1, <3>2, <3>3, <4>1, Zenon DEF IsOwn
      <4>2. CASE i = Len(observations) + 1
          BY <1>2, <2>1, <2>6, <3>1, <3>3, <4>2, Zenon DEF Byte
      <4> QED
          BY <1>q, <2>1, <4>1, <4>2
    <3> QED
        BY <3>3, Zenon DEF OwnAnswers, IsOwn
  <2>8. AnswerInv'
      BY <1>2, <1>5, <1>9, <2>2, <2>5, <2>7, Zenon DEF AnswerInv
  <2> QED
      BY <2>3, <2>4, <2>8 DEF SettingsInv
<1> QED
    BY <1>2, <1>6, <1>7, <1>8, <1>9, Zenon

LEMMA SettingsOthers ==
    ASSUME SettingsInv, Begin \/ DrainEnds \/ (\E n \in 0..Len(wire) : DrainPiece(n))
    PROVE  SettingsInv'
<1>0. SettingsTypeOK /\ ModeInv /\ AnswerInv
    BY DEF SettingsInv
<1>1. CASE Begin
  <2>1. /\ pc = "idle" /\ pc' = "drain" /\ session' = session + 1
        /\ response' = <<>> /\ observations' = <<>>
        /\ UNCHANGED <<quiet, troubled, mode, enteredBy, commands, wire>>
      BY <1>1, Zenon DEF Begin, printer
  <2>2. SettingsTypeOK'
      BY <1>0, <2>1 DEF SettingsTypeOK
  <2>3. ModeInv'
      BY <1>0, <2>1, ModeSame, Zenon DEF Inside
  <2>4. AnswerInv'
      BY <2>1 DEF AnswerInv, OwnAnswers
  <2> QED
      BY <2>2, <2>3, <2>4 DEF SettingsInv
<1>2. CASE DrainEnds
  <2>1. /\ pc = "drain" /\ pc' \in {"sendStatus", "idle"}
        /\ quiet' = (commands = <<>> /\ wire = <<>>)
        /\ UNCHANGED <<session, response, observations, troubled, mode, enteredBy, commands, wire>>
      BY <1>2, Zenon DEF DrainEnds, printer
  <2>2. observations' = <<>> /\ SettingsTypeOK'
      BY <1>0, <2>1, Zenon DEF SettingsTypeOK
  <2>3. ModeInv'
      BY <1>0, <2>1, ModeSame, Zenon DEF Inside
  <2>4. AnswerInv'
    <3>1. quiet' => commands' = <<>> /\ wire' = <<>>
        BY <2>1, Zenon
    <3> QED
        BY <2>1, <2>2, <3>1 DEF AnswerInv, OwnAnswers
  <2> QED
      BY <2>2, <2>3, <2>4, Zenon DEF SettingsInv
<1>3. ASSUME NEW n \in 0..Len(wire), DrainPiece(n) PROVE SettingsInv'
  <2>1. /\ pc = "drain" /\ pc' \in {"idle", "drain"} /\ wire' = SubSeq(wire, n + 1, Len(wire))
        /\ UNCHANGED <<session, response, observations, quiet, troubled, mode, enteredBy, commands>>
      BY <1>3, Zenon DEF DrainPiece, printer
  <2>2. wire \in Seq(Bytes) /\ n \in 0..Len(wire)
      BY <1>0 DEF SettingsTypeOK
  <2>3. wire' \in Seq(Bytes)
      BY <2>1, <2>2, CutFacts, Zenon
  <2>4. SettingsTypeOK'
      BY <1>0, <2>1, <2>3, Zenon DEF SettingsTypeOK
  <2>5. ModeInv'
      BY <1>0, <2>1, ModeSame, Zenon DEF Inside
  <2> QED
      BY <1>0, <2>1, <2>4, <2>5, AnswersSame, Zenon DEF SettingsInv
<1> QED
    BY <1>1, <1>2, <1>3

LEMMA SettingsAbandon ==
    ASSUME SettingsInv, Abandon
    PROVE  SettingsInv'
<1> USE SettingsAssumption
<1>0. SettingsTypeOK /\ ModeInv /\ AnswerInv
    BY DEF SettingsInv
<1>1. /\ pc' = "idle" /\ troubled' = troubled \cup {session}
      /\ UNCHANGED <<session, response, observations, quiet, mode, enteredBy, wire>>
    BY DEF Abandon, printer
<1>2. \A s : Inside(s) => s \in troubled'
    BY <1>1, Zenon DEF Inside
<1>3. CASE commands' = commands
  <2>1. SettingsTypeOK'
      BY <1>0, <1>1, <1>3, Zenon DEF SettingsTypeOK
  <2>2. ModeInv'
      BY <1>0, <1>1, <1>2, <1>3, ModeSame, Zenon
  <2> QED
      BY <1>0, <1>1, <2>1, <2>2, AnswersSame, Zenon DEF SettingsInv
<1>4. ASSUME NEW name \in Queries \cup {"status", "enter", "exit"},
             commands' = Append(commands, Command(name))
      PROVE  SettingsInv'
  <2>1. PICK c \in Commands : c = Command(name)
      BY <1>0, Zenon DEF Command, Commands, SettingsTypeOK
  <2>2. c.session = session /\ commands' = Append(commands, c)
      BY <1>4, <2>1, Zenon DEF Command
  <2>3. commands' \in Seq(Commands)
      BY <1>0, <2>2, AppendFacts, Zenon DEF SettingsTypeOK
  <2>4. SettingsTypeOK'
      BY <1>0, <1>1, <2>3, Zenon DEF SettingsTypeOK
  <2>5. ModeInv'
      BY <1>0, <1>1, <1>2, <2>2, ModeAppend, Zenon
  <2> QED
      BY <1>0, <1>1, <2>4, <2>5, AnswersSame, Zenon DEF SettingsInv
<1>5. pc = "query" => Asked \in Queries
    BY <1>0 DEF Asked, SettingsTypeOK
<1>6. \/ commands' = commands
      \/ \E name \in Queries \cup {"status", "enter", "exit"} : commands' = Append(commands, Command(name))
  <2> DEFINE Sent == CASE pc = "sendStatus" -> {"status"} [] pc = "enter" -> {"enter"}
                       [] pc = "query" -> {Asked} [] pc = "exit" -> {"exit"} [] OTHER -> {}
  <2>1. Sent \subseteq Queries \cup {"status", "enter", "exit"}
      BY <1>5
  <2>2. \/ commands' = commands
        \/ \E name \in Sent : commands' = Append(commands, [name |-> name, session |-> session])
      BY Zenon DEF Abandon
  <2> QED
      BY <2>1, <2>2, Zenon DEF Command
<1> QED
    BY <1>3, <1>4, <1>6, Zenon

LEMMA SettingsCarryOut ==
    ASSUME SettingsInv, CarryOut
    PROVE  SettingsInv'
<1> USE SettingsAssumption
<1>0. SettingsTypeOK /\ ModeInv /\ AnswerInv
    BY DEF SettingsInv
<1> DEFINE c == Head(commands)
           answer == IF c.name \in DOMAIN Size
                     THEN [i \in 1..Size[c.name] |-> [of |-> c.name, session |-> c.session, at |-> i]]
                     ELSE <<>>
<1>1. /\ commands # <<>> /\ commands' = Tail(commands)
      /\ wire' \in {wire, wire \o answer}
      /\ mode' = CASE c.name = "enter" -> "settings" [] c.name = "exit" -> "normal" [] OTHER -> mode
      /\ enteredBy' = IF c.name = "enter" THEN c.session ELSE enteredBy
      /\ UNCHANGED <<pc, session, response, observations, quiet, troubled>>
    BY Zenon DEF CarryOut, client
<1>2. commands \in Seq(Commands) /\ wire \in Seq(Bytes)
    BY <1>0 DEF SettingsTypeOK
<1>3. /\ Tail(commands) \in Seq(Commands)
      /\ Len(commands) \in Nat \ {0} /\ Len(commands') = Len(commands) - 1
      /\ c = commands[1] /\ c \in Commands
      /\ \A i \in 1..(Len(commands) - 1) : commands'[i] = commands[i + 1]
    BY <1>1, <1>2, TailFacts
<1>4. /\ answer \in Seq(Bytes)
      /\ c.name \in DOMAIN Size => Len(answer) = Size[c.name]
      /\ \A k \in 1..Len(answer) : answer[k] = [of |-> c.name, session |-> c.session, at |-> k]
      /\ c.name = "enter" => answer = <<>>
  <2>1. c.name \in Queries \cup {"status", "enter", "exit"} /\ c.session \in Nat
      BY <1>3, Zenon DEF Commands
  <2> HIDE DEF c
  <2>2. CASE c.name \in DOMAIN Size
    <3>1. Size[c.name] \in Nat /\ c.name \in Queries \cup {"status"} /\ c.name # "enter"
        BY <2>2
    <3>2. PICK n \in Nat : n = Size[c.name]
        BY <3>1
    <3>3. answer = [i \in 1..n |-> [of |-> c.name, session |-> c.session, at |-> i]]
        BY <2>2, <3>2, Zenon
    <3>4. \A i \in 1..n : [of |-> c.name, session |-> c.session, at |-> i] \in Bytes
        BY <2>1, <3>1 DEF Bytes
    <3>5. answer \in Seq(Bytes) /\ Len(answer) = n
        BY <3>3, <3>4
    <3> QED
        BY <3>1, <3>2, <3>3, <3>5, Zenon
  <2>3. CASE c.name \notin DOMAIN Size
      BY <2>3
  <2> QED
      BY <2>2, <2>3, Zenon
<1> HIDE DEF c, answer
<1>5. wire' \in Seq(Bytes)
  <2>1. wire \o answer \in Seq(Bytes)
      BY <1>2, <1>4, ConcatFacts, Zenon
  <2> QED
      BY <1>1, <1>2, <2>1, Zenon
<1>6. SettingsTypeOK'
    BY <1>0, <1>1, <1>3, <1>5, Zenon DEF SettingsTypeOK
<1>7. ModeInv'
  <2>1. \A i \in 1..Len(commands) : ExitAfter(i) => ExitAfter(i - 1)'
    <3> SUFFICES ASSUME NEW i \in 1..Len(commands), NEW j \in (i + 1)..Len(commands), commands[j].name = "exit"
                 PROVE  ExitAfter(i - 1)'
        BY Zenon DEF ExitAfter
    <3>1. j - 1 \in ((i - 1) + 1)..Len(commands') /\ commands'[j - 1] = commands[j]
      <4>1. \A n \in Nat \ {0} : \A k \in 1..n : \A l \in (k + 1)..n :
                l - 1 \in ((k - 1) + 1)..(n - 1) /\ l - 1 \in 1..(n - 1) /\ (l - 1) + 1 = l
          OBVIOUS
      <4>2. j - 1 \in ((i - 1) + 1)..(Len(commands) - 1) /\ j - 1 \in 1..(Len(commands) - 1) /\ (j - 1) + 1 = j
          BY <1>3, <4>1, Zenon
      <4> QED
          BY <1>3, <4>2, Zenon
    <3> QED
        BY <3>1, Zenon DEF ExitAfter
  <2>2. ASSUME NEW i \in 1..Len(commands'), commands'[i].name = "enter"
        PROVE  (commands[i].session \in troubled \/ ExitAfter(i) \/ Inside(commands[i].session))'
    <3>1. i + 1 \in 1..Len(commands) /\ commands'[i] = commands[i + 1] /\ (i + 1) - 1 = i
        BY <1>3
    <3>2. commands[i + 1].session \in troubled \/ ExitAfter(i + 1) \/ Inside(commands[i + 1].session)
        BY <1>0, <2>2, <3>1, Zenon DEF ModeInv
    <3> QED
        BY <1>1, <2>1, <3>1, <3>2, Zenon DEF Inside
  <2>3. CASE c.name = "enter"
    <3>1. c.session \in troubled \/ ExitAfter(1) \/ Inside(c.session)
        BY <1>0, <1>3, <2>3 DEF ModeInv
    <3>2. ExitAfter(1) => ExitAfter(0)'
        BY <1>3, <2>1
    <3>3. enteredBy' = c.session
        BY <1>1, <2>3
    <3>4. (enteredBy \in troubled \/ ExitAfter(0) \/ Inside(enteredBy))'
        BY <1>1, <3>1, <3>2, <3>3 DEF Inside
    <3> QED
        BY <2>2, <3>4, Zenon DEF ModeInv
  <2>4. CASE c.name = "exit"
      BY <1>1, <2>2, <2>4, Zenon DEF ModeInv
  <2>5. CASE c.name \notin {"enter", "exit"}
    <3>1. ExitAfter(0) => ExitAfter(1)
        BY <1>3, <2>5 DEF ExitAfter
    <3>2. ExitAfter(1) => ExitAfter(0)'
        BY <1>3, <2>1
    <3> QED
        BY <1>0, <1>1, <2>2, <2>5, <3>1, <3>2, Zenon DEF ModeInv, Inside
  <2> QED
      BY <2>3, <2>4, <2>5, Zenon
<1>8. AnswerInv'
  <2> SUFFICES ASSUME quiet PROVE AnswerInv'
      BY <1>1, Zenon DEF AnswerInv
  <2>1. Asked' = Asked
      BY <1>1 DEF Asked
  <2>2. OwnAnswers'
      BY <1>0, <1>1, Zenon DEF AnswerInv, OwnAnswers, IsOwn
  <2>3. CASE pc \notin {"sendStatus", "enter", "query", "status", "answer"}
      BY <1>1, <2>2, <2>3 DEF AnswerInv
  <2>4. CASE pc \in {"sendStatus", "enter"}
      BY <1>0, <1>1, <2>4, Zenon DEF AnswerInv
  <2>5. CASE pc = "query"
    <3>1. commands = <<Command("enter")>> /\ wire = <<>>
        BY <1>0, <1>1, <2>5, Zenon DEF AnswerInv
    <3>2. commands' = <<>> /\ c.name = "enter"
        BY <1>1, <1>3, <3>1 DEF Command
    <3>3. wire' = <<>>
        BY <1>1, <1>4, <3>1, <3>2
    <3> QED
        BY <1>1, <2>2, <2>5, <3>2, <3>3, Zenon DEF AnswerInv
  <2>6. CASE pc \in {"status", "answer"} /\ commands = <<Command("enter"), Command(Asked)>>
    <3>1. wire = <<>> /\ response = <<>>
        BY <1>0, <1>1, <2>6, Zenon DEF AnswerInv
    <3>2. c = Command("enter") /\ commands' = <<Command(Asked)>>
        BY <1>1, <1>3, <2>6
    <3>3. wire' = <<>>
        BY <1>1, <1>4, <3>1, <3>2 DEF Command
    <3> QED
        BY <1>1, <2>1, <2>2, <2>6, <3>1, <3>2, <3>3, Zenon DEF AnswerInv, Command
  <2>7. CASE pc \in {"status", "answer"} /\ commands = <<Command(Asked)>>
    <3>1. wire = <<>> /\ response = <<>>
        BY <1>0, <1>1, <2>7, Zenon DEF AnswerInv
    <3>2. c = Command(Asked) /\ commands' = <<>>
        BY <1>1, <1>3, <2>7
    <3>3. Asked \in DOMAIN Size /\ Size[Asked] \in Nat
        BY <1>0, <2>7 DEF Asked, SettingsTypeOK
    <3>4. wire' = <<>> \/ wire' = answer
        BY <1>1, <1>4, <3>1
    <3>5. Len(wire') \in {0, Size[Asked]} /\ \A k \in 1..Len(wire') : wire'[k] = Byte(Asked, k)
        BY <1>4, <3>2, <3>3, <3>4 DEF Command, Byte
    <3>6. Pending(Asked)'
      <4>1. response' = <<>> /\ Len(response') = 0
          BY <1>1, <3>1, Zenon
      <4> QED
          BY <1>1, <2>1, <3>3, <3>5, <4>1 DEF Pending, Byte
    <3> QED
        BY <1>1, <2>2, <2>7, <3>2, <3>6, Zenon DEF AnswerInv
  <2> QED
      BY <1>0, <1>1, <2>3, <2>4, <2>5, <2>6, <2>7, Zenon DEF AnswerInv
<1> QED
    BY <1>6, <1>7, <1>8, Zenon DEF SettingsInv

LEMMA SettingsInvNext ==
    ASSUME SettingsInv, [Next]_vars
    PROVE  SettingsInv'
<1>1. CASE UNCHANGED vars
  <2>1. SettingsTypeOK'
      BY <1>1, Zenon DEF vars, client, SettingsInv, SettingsTypeOK
  <2>2. ModeInv'
      BY <1>1, ModeSame, Zenon DEF vars, client, printer, SettingsInv, Inside
  <2>3. AnswerInv'
      BY <1>1, Zenon DEF vars, client, SettingsInv, AnswerInv, OwnAnswers, IsOwn, Pending, Asked,
          Command, Byte
  <2> QED
      BY <2>1, <2>2, <2>3, Zenon DEF SettingsInv
<1>2. CASE \E n \in 0..Len(wire) : ReadPiece(n)
    BY <1>2, SettingsReadPiece, Zenon
<1>3. CASE SendStatus \/ Enter \/ Query \/ Exit
    BY <1>3, SettingsWrites, Zenon
<1>4. CASE Begin \/ DrainEnds \/ (\E n \in 0..Len(wire) : DrainPiece(n))
    BY <1>4, SettingsOthers, Zenon
<1> QED
    BY <1>1, <1>2, <1>3, <1>4, SettingsReadEnds, SettingsAbandon, SettingsCarryOut, Zenon DEF Next, Session, Reads, Writes

LEMMA SettingsInvInit == Init => SettingsInv
BY DEF Init, SettingsInv, SettingsTypeOK, ModeInv, AnswerInv, OwnAnswers

THEOREM SettingsInvariant == SettingsSpec => []SettingsInv
BY SettingsInvInit, SettingsInvNext, PTL DEF SettingsSpec

\* After a session that nothing troubled the printer is in its normal mode, whatever answers
\* were late, split or missing, for any list of settings and any number of sessions.
THEOREM SettingsModeIsLeft == SettingsSpec => []LeavesSettingsMode
<1>1. SettingsInv => LeavesSettingsMode
    BY DEF SettingsInv, SettingsTypeOK, ModeInv, LeavesSettingsMode, ExitAfter, Inside
<1> QED
    BY <1>1, SettingsInvariant, PTL

\* In a session that began in silence, what is observed for a setting answers the query for that
\* setting.
THEOREM AnswersAreOwn == SettingsSpec => []OwnAnswers
<1>1. SettingsInv => OwnAnswers
    BY Zenon DEF SettingsInv, AnswerInv, OwnAnswers
<1> QED
    BY <1>1, SettingsInvariant, PTL

-----------------------------------------------------------------------------
(* The wireless settings *)

WirelessQueries == [field : Range(Fields), attempt : 0..MaxAttempts]

WirelessParts ==
    [part : {"info", "end", "status"}] \cup [part : {"name"}, field : Range(Fields)]
        \cup [part : {"value"}, query : WirelessQueries, at : {1, 2}]

ValuePart(field, n, at_) == [part |-> "value", query |-> QueryOf(field, n), at |-> at_]

\* A text that ends with a reply: after a name come the two parts of one reply's value, to a
\* query for that field that was at least the low-th, and the end of the line.
WholeReplies(text, low) ==
    \A k \in DOMAIN text : text[k].part = "name" =>
        /\ k + 3 \in DOMAIN text /\ text[k + 3].part = "end"
        /\ \E n \in low..MaxAttempts :
               /\ text[k + 1] = ValuePart(text[k].field, n, 1)
               /\ text[k + 2] = ValuePart(text[k].field, n, 2)

Oldest(late) == IF late THEN 0 ELSE 1

\* A value is the start of one reply to a query for that field.
OwnValue(value, field, low) ==
    value # <<>> => \E n \in low..MaxAttempts : \A k \in DOMAIN value : value[k] = ValuePart(field, n, k)

WirelessInv ==
    /\ adapter \in {"shared", "fresh", "drained"} /\ step \in {"open", "drain", "write", "read", "done"}
    /\ leftover \in BOOLEAN /\ attempt \in 0..MaxAttempts /\ stale \in Nat
    /\ asked \in Seq(WirelessQueries) /\ stream \in Seq(WirelessParts) /\ buffer \in Seq(WirelessParts)
    /\ found \in Seq([value : Seq(WirelessParts), error : BOOLEAN])
    /\ step # "done" => Len(found) < Len(Fields)
    /\ step # "read" => attempt < MaxAttempts /\ buffer = <<>>
    /\ \A i \in DOMAIN asked : asked[i].attempt >= Oldest(leftover)
    /\ WholeReplies(buffer \o stream, Oldest(leftover))
    /\ \A i \in DOMAIN found : OwnValue(found[i].value, Fields[i], Oldest(leftover))

LEMMA DroppedText ==
    ASSUME NEW b \in Seq(WirelessParts), NEW s \in Seq(WirelessParts), NEW low \in Nat, WholeReplies(b \o s, low)
    PROVE  WholeReplies(s, low)
<1>1. PICK t : t = b \o s
    BY Zenon
<1>2. /\ t \in Seq(WirelessParts) /\ Len(b) \in Nat /\ Len(s) \in Nat /\ Len(t) = Len(b) + Len(s)
      /\ \A i \in 1..Len(s) : t[Len(b) + i] = s[i]
    BY <1>1, ConcatFacts, SMTT(30)
<1>3. DOMAIN t = 1..Len(t) /\ DOMAIN s = 1..Len(s)
    BY <1>2
<1>4. WholeReplies(t, low)
    BY <1>1, Zenon
<1> SUFFICES ASSUME NEW k \in DOMAIN s, s[k].part = "name"
             PROVE  /\ k + 3 \in DOMAIN s /\ s[k + 3].part = "end"
                    /\ \E n \in low..MaxAttempts : /\ s[k + 1] = ValuePart(s[k].field, n, 1)
                                                   /\ s[k + 2] = ValuePart(s[k].field, n, 2)
    BY Zenon DEF WholeReplies
<1> DEFINE j == Len(b) + k
<1>5. j \in DOMAIN t /\ t[j] = s[k] /\ k \in Nat
    BY <1>2, <1>3
<1>6. /\ j + 3 \in DOMAIN t /\ t[j + 3].part = "end"
      /\ \E n \in low..MaxAttempts : /\ t[j + 1] = ValuePart(t[j].field, n, 1)
                                     /\ t[j + 2] = ValuePart(t[j].field, n, 2)
    BY <1>4, <1>5, Zenon DEF WholeReplies
<1>7. k + 3 \in 1..Len(s) /\ k + 2 \in 1..Len(s) /\ k + 1 \in 1..Len(s)
  <2>1. j + 3 \in 1..Len(t) /\ k \in 1..Len(s)
      BY <1>3, <1>6, Zenon
  <2>2. Len(b) \in Nat /\ Len(s) \in Nat /\ Len(t) = Len(b) + Len(s)
      BY <1>2, Zenon
  <2> QED
      BY <2>1, <2>2, SMTT(30)
<1>8. Len(b) + (k + 1) = j + 1 /\ Len(b) + (k + 2) = j + 2 /\ Len(b) + (k + 3) = j + 3
    BY <1>2, <1>5, SMTT(30)
<1>9. t[j + 1] = s[k + 1] /\ t[j + 2] = s[k + 2] /\ t[j + 3] = s[k + 3]
  <2>1. /\ t[Len(b) + (k + 1)] = s[k + 1] /\ t[Len(b) + (k + 2)] = s[k + 2]
        /\ t[Len(b) + (k + 3)] = s[k + 3]
      BY <1>2, <1>7, Zenon
  <2> HIDE DEF j
  <2> QED
      BY <1>8, <2>1, Zenon
<1> QED
    BY <1>3, <1>5, <1>6, <1>7, <1>9, Zenon

LEMMA OneMoreReply ==
    ASSUME NEW t \in Seq(WirelessParts), NEW low \in Nat, WholeReplies(t, low),
           NEW q \in WirelessQueries, q.attempt >= low
    PROVE  Reply(q) \in Seq(WirelessParts) /\ WholeReplies(t \o Reply(q), low)
<1>1. PICK r : r = Reply(q)
    OBVIOUS
<1>2. /\ r \in Seq(WirelessParts) /\ Len(r) = 6
      /\ r[1].part = "info" /\ r[2].part = "name" /\ r[2].field = q.field
      /\ r[3] = [part |-> "value", query |-> q, at |-> 1] /\ r[4] = [part |-> "value", query |-> q, at |-> 2]
      /\ r[5].part = "end" /\ r[6].part = "status"
  <2>1. \A i \in 1..6 : r[i] \in WirelessParts
      BY <1>1 DEF Reply, WirelessParts, WirelessQueries
  <2>2. r = [i \in 1..6 |-> r[i]]
      BY <1>1 DEF Reply
  <2>3. r \in Seq(WirelessParts)
      BY <2>1, <2>2
  <2> QED
      BY <1>1, <2>3, Zenon DEF Reply
<1>3. /\ r[3] = ValuePart(q.field, q.attempt, 1) /\ r[4] = ValuePart(q.field, q.attempt, 2)
      /\ q.attempt \in low..MaxAttempts
    BY <1>2 DEF ValuePart, QueryOf, WirelessQueries
<1>4. PICK u : u = t \o r
    BY Zenon
<1>5. /\ u \in Seq(WirelessParts) /\ Len(t) \in Nat /\ Len(u) = Len(t) + 6
      /\ \A i \in 1..Len(t) : u[i] = t[i]
      /\ \A i \in 1..6 : u[Len(t) + i] = r[i]
  <2>1. /\ t \o r \in Seq(WirelessParts) /\ Len(t) \in Nat /\ Len(t \o r) = Len(t) + Len(r)
        /\ \A i \in 1..Len(t) : (t \o r)[i] = t[i]
        /\ \A i \in 1..Len(r) : (t \o r)[Len(t) + i] = r[i]
    <3>1. r \in Seq(WirelessParts)
        BY <1>2, Zenon
    <3> QED
        BY <3>1, ConcatFacts, SMTT(30)
  <2> QED
      BY <1>2, <1>4, <2>1, Zenon
<1>6. DOMAIN t = 1..Len(t) /\ DOMAIN u = 1..Len(u)
    BY <1>5
<1>7. WholeReplies(u, low)
  <2> SUFFICES ASSUME NEW k \in DOMAIN u, u[k].part = "name"
               PROVE  /\ k + 3 \in DOMAIN u /\ u[k + 3].part = "end"
                      /\ \E n \in low..MaxAttempts : /\ u[k + 1] = ValuePart(u[k].field, n, 1)
                                                     /\ u[k + 2] = ValuePart(u[k].field, n, 2)
      BY Zenon DEF WholeReplies
  <2>1. CASE k \in DOMAIN t
    <3>1. u[k] = t[k]
        BY <1>5, <1>6, <2>1, Zenon
    <3>2. /\ k + 3 \in DOMAIN t /\ t[k + 3].part = "end"
          /\ \E n \in low..MaxAttempts : /\ t[k + 1] = ValuePart(t[k].field, n, 1)
                                         /\ t[k + 2] = ValuePart(t[k].field, n, 2)
        BY <2>1, <3>1, Zenon DEF WholeReplies
    <3>3. k + 1 \in DOMAIN t /\ k + 2 \in DOMAIN t /\ k + 3 \in DOMAIN u
      <4>1. k \in 1..Len(t) /\ k + 3 \in 1..Len(t)
          BY <1>6, <2>1, <3>2, Zenon
      <4>2. k + 1 \in 1..Len(t) /\ k + 2 \in 1..Len(t) /\ k + 3 \in 1..(Len(t) + 6)
        <5>1. Len(t) \in Nat
            BY <1>5, Zenon
        <5> QED
            BY <4>1, <5>1
      <4> QED
          BY <1>5, <1>6, <4>2, Zenon
    <3>4. u[k + 1] = t[k + 1] /\ u[k + 2] = t[k + 2] /\ u[k + 3] = t[k + 3]
        BY <1>5, <1>6, <3>2, <3>3, Zenon
    <3> QED
        BY <3>1, <3>2, <3>3, <3>4, Zenon
  <2>2. CASE k \notin DOMAIN t
    <3>1. PICK i \in 1..6 : k = Len(t) + i
      <4>1. k - Len(t) \in 1..6 /\ k = Len(t) + (k - Len(t))
          BY <1>5, <1>6, <2>2, SMTT(30)
      <4> QED
          BY <4>1, Zenon
    <3>2. i = 2
        BY <1>2, <1>5, <3>1, SMTT(30)
    <3>3. /\ k + 1 = Len(t) + 3 /\ k + 2 = Len(t) + 4 /\ k + 3 = Len(t) + 5 /\ k = Len(t) + 2
          /\ k + 3 \in DOMAIN u
        BY <1>5, <1>6, <3>1, <3>2
    <3>4. u[k] = r[2] /\ u[k + 1] = r[3] /\ u[k + 2] = r[4] /\ u[k + 3] = r[5]
        BY <1>5, <3>3
    <3> QED
        BY <1>2, <1>3, <3>3, <3>4, Zenon
  <2> QED
      BY <2>1, <2>2, Zenon
<1> QED
    BY <1>1, <1>2, <1>4, <1>7, Zenon

\* The value of a line is what follows its name, as long as that is of values.
LEMMA ValueAtFacts ==
    ASSUME NEW text \in Seq(WirelessParts), NEW i \in DOMAIN text
    PROVE  /\ ValueAt(text, i) \in Seq(WirelessParts)
           /\ \A k \in DOMAIN ValueAt(text, i) :
                  /\ i + k \in DOMAIN text /\ ValueAt(text, i)[k] = text[i + k]
                  /\ ValueAt(text, i)[k].part = "value"
<1> DEFINE after == SubSeq(text, i + 1, Len(text))
           I == {k \in DOMAIN after : after[k].part # "value"}
           end == CHOOSE k \in I : \A o \in I : k <= o
<1>1. ValueAt(text, i) = IF I = {} THEN after ELSE SubSeq(after, 1, end - 1)
    BY Zenon DEF ValueAt
<1>2. i \in 0..Len(text) /\ i \in Nat /\ Len(text) \in Nat /\ DOMAIN text = 1..Len(text)
    OBVIOUS
<1>3. /\ after \in Seq(WirelessParts) /\ Len(after) = Len(text) - i
      /\ \A k \in 1..(Len(text) - i) : after[k] = text[i + k]
    BY <1>2, CutFacts, Zenon
<1> HIDE DEF after
<1>4. I # {} => end \in I /\ \A k \in I : end <= k
  <2> SUFFICES ASSUME I # {} PROVE end \in I /\ \A k \in I : end <= k
      BY Zenon
  <2>1. I \subseteq Nat
      BY <1>3
  <2> HIDE DEF I
  <2>2. \E n \in I : \A m \in I : n <= m
      BY <2>1, NatMin, Zenon
  <2> QED
      BY <2>2, Zenon
<1> HIDE DEF end
<1>5. DOMAIN after = 1..Len(after)
    BY <1>3
<1>6. \A k \in 1..Len(after) : i + k \in DOMAIN text /\ after[k] = text[i + k]
    BY <1>2, <1>3
<1>7. CASE I = {}
  <2>1. ValueAt(text, i) = after
      BY <1>1, <1>7, Zenon
  <2>2. \A k \in 1..Len(after) : after[k].part = "value"
      BY <1>5, <1>7, Zenon
  <2> QED
      BY <1>3, <1>5, <1>6, <2>1, <2>2, Zenon
<1>8. CASE I # {}
  <2>1. end \in 1..Len(after) /\ \A k \in 1..(end - 1) : k \in 1..Len(after) /\ after[k].part = "value"
    <3>1. end \in I /\ \A m \in I : end <= m
        BY <1>4, <1>8, Zenon
    <3>2. Len(after) \in Nat
        BY <1>3
    <3>3. end \in 1..Len(after)
        BY <1>5, <3>1, Zenon
    <3>4. \A k \in 1..(end - 1) : k \in 1..Len(after) /\ ~(end <= k)
        BY <3>2, <3>3
    <3>5. \A k \in 1..(end - 1) : k \notin I
        BY <3>1, <3>4, Zenon
    <3>6. \A k \in 1..(end - 1) : after[k].part = "value"
        BY <1>5, <3>4, <3>5, Zenon
    <3> QED
        BY <3>3, <3>4, <3>6, Zenon
  <2>2. end - 1 \in 0..Len(after) /\ end # 0
      BY <2>1
  <2>3. PICK value : value = SubSeq(after, 1, end - 1)
      BY Zenon
  <2>4. value \in Seq(WirelessParts) /\ Len(value) = end - 1 /\ \A k \in 1..(end - 1) : value[k] = after[k]
      BY <1>3, <2>2, <2>3, CutFacts, SMTT(30)
  <2>5. DOMAIN value = 1..(end - 1)
      BY <2>4
  <2>6. ValueAt(text, i) = value
      BY <1>1, <1>8, <2>3, Zenon
  <2> QED
      BY <1>6, <2>1, <2>4, <2>5, <2>6, Zenon
<1> QED
    BY <1>7, <1>8, Zenon

\* The value the parser returns for a field, from a text that has a line of it.
LEMMA ParsedValue ==
    ASSUME NEW text \in Seq(WirelessParts), NEW rest \in Seq(WirelessParts), NEW low \in Nat,
           WholeReplies(text \o rest, low), NEW f, Lines(text, f) # {}
    PROVE  parse_oid_value(text, f) \in Seq(WirelessParts) /\ OwnValue(parse_oid_value(text, f), f, low)
<1> DEFINE L == Lines(text, f)
           i == CHOOSE j \in L : \A k \in L : j <= k
<1>1. parse_oid_value(text, f) = ValueAt(text, i)
    BY DEF parse_oid_value
<1>2. i \in DOMAIN text /\ text[i].part = "name" /\ text[i].field = f
  <2>1. L \subseteq Nat /\ L # {}
      BY DEF Lines
  <2>2. \E n \in L : \A m \in L : n <= m
    <3> HIDE DEF L
    <3> QED
        BY <2>1, NatMin, Zenon
  <2>3. i \in L
      BY <2>2, Zenon
  <2> QED
      BY <2>3, Zenon DEF Lines, Names
<1> HIDE DEF i
<1>3. PICK value : value = ValueAt(text, i)
    OBVIOUS
<1>4. /\ value \in Seq(WirelessParts)
      /\ \A k \in DOMAIN value : i + k \in DOMAIN text /\ value[k] = text[i + k] /\ value[k].part = "value"
    BY <1>2, <1>3, ValueAtFacts, Zenon
<1>5. PICK t : t = text \o rest
    BY Zenon
<1>6. /\ t \in Seq(WirelessParts) /\ Len(text) \in Nat /\ Len(t) >= Len(text)
      /\ \A k \in 1..Len(text) : t[k] = text[k]
    BY <1>5, ConcatFacts
<1>7. \A k \in DOMAIN text : k \in DOMAIN t /\ t[k] = text[k] /\ k \in Nat
    BY <1>6
<1>8. /\ t[i + 3].part = "end"
      /\ \E n \in low..MaxAttempts : t[i + 1] = ValuePart(f, n, 1) /\ t[i + 2] = ValuePart(f, n, 2)
  <2>1. i \in DOMAIN t /\ t[i].part = "name" /\ t[i].field = f
      BY <1>2, <1>7, Zenon
  <2>2. WholeReplies(t, low)
      BY <1>5, Zenon
  <2> QED
      BY <2>1, <2>2, Zenon DEF WholeReplies
<1>9. \A k \in DOMAIN value : value[k] = t[i + k]
    BY <1>4, <1>7, Zenon
<1>10. 3 \notin DOMAIN value
    BY <1>4, <1>8, <1>9, Zenon
<1>11. \A k \in DOMAIN value : k = 1 \/ k = 2
    BY <1>4, <1>10
<1>12. PICK n \in low..MaxAttempts : t[i + 1] = ValuePart(f, n, 1) /\ t[i + 2] = ValuePart(f, n, 2)
    BY <1>8, Zenon
<1>13. \A k \in DOMAIN value : value[k] = ValuePart(f, n, k)
    BY <1>9, <1>11, <1>12, Zenon
<1> QED
    BY <1>1, <1>3, <1>4, <1>13, Zenon DEF OwnValue

\* A read cuts the stream; the text before the cut and the one after it are the text that was.
LEMMA CutText ==
    ASSUME NEW b \in Seq(WirelessParts), NEW s \in Seq(WirelessParts), NEW n \in 0..Len(s)
    PROVE  /\ SubSeq(s, 1, n) \in Seq(WirelessParts) /\ SubSeq(s, n + 1, Len(s)) \in Seq(WirelessParts)
           /\ b \o SubSeq(s, 1, n) \in Seq(WirelessParts)
           /\ (b \o SubSeq(s, 1, n)) \o SubSeq(s, n + 1, Len(s)) = b \o s
<1>1. PICK h, r : h = SubSeq(s, 1, n) /\ r = SubSeq(s, n + 1, Len(s))
    BY Zenon
<1>2. n \in Nat /\ Len(s) \in Nat /\ n <= Len(s)
    OBVIOUS
<1>3. /\ h \in Seq(WirelessParts) /\ Len(h) = n /\ \A i \in 1..n : h[i] = s[i]
      /\ r \in Seq(WirelessParts) /\ Len(r) = Len(s) - n /\ \A i \in 1..(Len(s) - n) : r[i] = s[n + i]
  <2>1. /\ SubSeq(s, 1, n) \in Seq(WirelessParts) /\ Len(SubSeq(s, 1, n)) = n
        /\ \A i \in 1..n : SubSeq(s, 1, n)[i] = s[i]
        /\ SubSeq(s, n + 1, Len(s)) \in Seq(WirelessParts)
        /\ Len(SubSeq(s, n + 1, Len(s))) = Len(s) - n
        /\ \A i \in 1..(Len(s) - n) : SubSeq(s, n + 1, Len(s))[i] = s[n + i]
      BY CutFacts, ZenonT(40)
  <2> QED
      BY <1>1, <2>1, Zenon
<1>4. PICK t : t = b \o h
    BY Zenon
<1>5. /\ t \in Seq(WirelessParts) /\ Len(b) \in Nat /\ Len(t) = Len(b) + n
      /\ \A i \in 1..Len(b) : t[i] = b[i]
      /\ \A i \in 1..n : t[Len(b) + i] = s[i]
  <2>1. /\ b \o h \in Seq(WirelessParts) /\ Len(b) \in Nat /\ Len(b \o h) = Len(b) + Len(h)
        /\ \A i \in 1..Len(b) : (b \o h)[i] = b[i]
        /\ \A i \in 1..Len(h) : (b \o h)[Len(b) + i] = h[i]
    <3>1. h \in Seq(WirelessParts)
        BY <1>3, Zenon
    <3> QED
        BY <3>1, ConcatFacts
  <2> QED
      BY <1>3, <1>4, <2>1, Zenon
<1>6. PICK u : u = t \o r
    BY Zenon
<1>7. /\ u \in Seq(WirelessParts) /\ Len(u) = Len(t) + (Len(s) - n)
      /\ \A i \in 1..Len(t) : u[i] = t[i]
      /\ \A i \in 1..(Len(s) - n) : u[Len(t) + i] = r[i]
  <2>1. /\ t \o r \in Seq(WirelessParts) /\ Len(t \o r) = Len(t) + Len(r)
        /\ \A i \in 1..Len(t) : (t \o r)[i] = t[i]
        /\ \A i \in 1..Len(r) : (t \o r)[Len(t) + i] = r[i]
    <3>1. t \in Seq(WirelessParts) /\ r \in Seq(WirelessParts)
        BY <1>3, <1>5, Zenon
    <3> QED
        BY <3>1, ConcatFacts
  <2> QED
      BY <1>3, <1>6, <2>1, Zenon
<1>8. PICK v : v = b \o s
    BY Zenon
<1>9. /\ v \in Seq(WirelessParts) /\ Len(v) = Len(b) + Len(s)
      /\ \A i \in 1..Len(b) : v[i] = b[i]
      /\ \A i \in 1..Len(s) : v[Len(b) + i] = s[i]
    BY <1>8, ConcatFacts
<1>10. Len(u) = Len(v)
    BY <1>2, <1>5, <1>7, <1>9, SMTT(30)
<1>11. ASSUME NEW k \in 1..Len(v) PROVE u[k] = v[k]
  <2>0. k \in Nat /\ k >= 1 /\ k <= Len(b) + Len(s) /\ Len(b) \in Nat
      BY <1>2, <1>5, <1>9
  <2>1. CASE k <= Len(b)
    <3>1. k \in 1..Len(b) /\ k \in 1..(Len(b) + n)
        BY <1>2, <2>0, <2>1
    <3> QED
        BY <1>5, <1>7, <1>9, <3>1, Zenon
  <2>2. CASE k > Len(b) /\ k <= Len(b) + n
    <3>1. PICK i : i = k - Len(b)
        OBVIOUS
    <3>2. i \in 1..n /\ i \in 1..Len(s) /\ k = Len(b) + i /\ k \in 1..(Len(b) + n)
        BY <1>2, <2>0, <2>2, <3>1
    <3> QED
        BY <1>5, <1>7, <1>9, <3>2, Zenon
  <2>3. CASE k > Len(b) + n
    <3>1. PICK i : i = k - (Len(b) + n)
        OBVIOUS
    <3>2. i \in 1..(Len(s) - n) /\ n + i \in 1..Len(s) /\ k = (Len(b) + n) + i /\ k = Len(b) + (n + i)
        BY <1>2, <2>0, <2>3, <3>1
    <3>3. u[k] = r[i] /\ r[i] = s[n + i] /\ v[k] = s[n + i]
      <4>1. r[i] = s[n + i]
          BY <1>3, <3>2, Zenon
      <4>2. v[k] = s[n + i]
          BY <1>9, <3>2, Zenon
      <4>3. u[Len(t) + i] = r[i] /\ Len(t) = Len(b) + n
          BY <1>5, <1>7, <3>2, Zenon
      <4> QED
          BY <3>2, <4>1, <4>2, <4>3, Zenon
    <3> QED
        BY <3>3, Zenon
  <2> QED
      BY <1>2, <2>0, <2>1, <2>2, <2>3, SMTT(30)
<1>12. u = v
    BY <1>7, <1>9, <1>10, <1>11, SMTT(30)
<1> QED
    BY <1>1, <1>3, <1>4, <1>5, <1>6, <1>8, <1>12, Zenon

LEMMA CutStream ==
    ASSUME NEW s \in Seq(WirelessParts), NEW n \in 0..Len(s), NEW low \in Nat, WholeReplies(<<>> \o s, low)
    PROVE  WholeReplies(<<>> \o SubSeq(s, n + 1, Len(s)), low)
<1>1. PICK h, r : h = SubSeq(s, 1, n) /\ r = SubSeq(s, n + 1, Len(s))
    BY Zenon
<1>2. h \in Seq(WirelessParts) /\ r \in Seq(WirelessParts) /\ (<<>> \o h) \o r = <<>> \o s
  <2>1. <<>> \in Seq(WirelessParts)
      OBVIOUS
  <2>2. /\ SubSeq(s, 1, n) \in Seq(WirelessParts) /\ SubSeq(s, n + 1, Len(s)) \in Seq(WirelessParts)
        /\ (<<>> \o SubSeq(s, 1, n)) \o SubSeq(s, n + 1, Len(s)) = <<>> \o s
      BY <2>1, CutText, Zenon
  <2> QED
      BY <1>1, <2>2, Zenon
<1>3. <<>> \o h = h /\ <<>> \o r = r
    BY <1>2
<1>4. WholeReplies(h \o r, low)
    BY <1>2, <1>3, Zenon
<1>5. WholeReplies(r, low)
    BY <1>2, <1>4, DroppedText, Zenon
<1> QED
    BY <1>1, <1>3, <1>5, Zenon

\* What a step leaves of the invariant on the observations and on where the retrieval is.
KeepsFound(low) ==
    /\ found' \in Seq([value : Seq(WirelessParts), error : BOOLEAN])
    /\ \A i \in DOMAIN found' : OwnValue(found'[i].value, Fields[i], low)
    /\ step' \in {"open", "drain", "write", "read", "done"}
    /\ step' # "done" => Len(found') < Len(Fields)
    /\ attempt' \in 0..MaxAttempts
    /\ step' # "read" => attempt' < MaxAttempts /\ buffer' = <<>>

FoundSoFar(low) ==
    /\ WirelessInv /\ step # "done"
    /\ \A i \in DOMAIN found : OwnValue(found[i].value, Fields[i], low)

LEMMA ObserveKeeps ==
    ASSUME NEW low, FoundSoFar(low), NEW value \in Seq(WirelessParts), NEW error \in BOOLEAN,
           OwnValue(value, Field, low), Observe(value, error)
    PROVE  KeepsFound(low) /\ buffer' = <<>>
<1> USE WirelessAssumption
<1> DEFINE S == [value : Seq(WirelessParts), error : BOOLEAN]
           e == [value |-> value, error |-> error]
<1>1. e \in S /\ found \in Seq(S) /\ found' = Append(found, e)
    BY Zenon DEF FoundSoFar, WirelessInv, Observe
<1>1a. e.value = value
    BY Zenon
<1> HIDE DEF S, e
<1>2. /\ Append(found, e) \in Seq(S) /\ Len(found) \in Nat
      /\ Len(Append(found, e)) = Len(found) + 1 /\ Append(found, e)[Len(found) + 1] = e
      /\ \A i \in 1..Len(found) : Append(found, e)[i] = found[i]
    BY <1>1, AppendFacts
<1>3. /\ found' \in Seq(S) /\ Len(found') = Len(found) + 1 /\ found'[Len(found) + 1] = e
      /\ \A i \in 1..Len(found) : found'[i] = found[i]
    BY <1>1, <1>2, Zenon
<1>4. Len(found) < Len(Fields) /\ Len(Fields) \in Nat
    BY DEF FoundSoFar, WirelessInv
<1>5. \A i \in DOMAIN found' : OwnValue(found'[i].value, Fields[i], low)
  <2> SUFFICES ASSUME NEW i \in DOMAIN found' PROVE OwnValue(found'[i].value, Fields[i], low)
      BY Zenon
  <2>1. i \in 1..Len(found) \/ i = Len(found) + 1
      BY <1>2, <1>3, SMTT(30)
  <2>2. CASE i \in 1..Len(found)
    <3>1. i \in DOMAIN found /\ found'[i] = found[i]
        BY <1>1, <1>3, <2>2, SMTT(30)
    <3> QED
        BY <3>1, Zenon DEF FoundSoFar
  <2>3. CASE i = Len(found) + 1
    <3>1. found'[i].value = value /\ Fields[i] = Field
        BY <1>1a, <1>3, <2>3, Zenon DEF Field
    <3> QED
        BY <3>1, Zenon
  <2> QED
      BY <2>1, <2>2, <2>3, Zenon
<1>6. /\ step' = IF Len(found') = Len(Fields) THEN "done" ELSE IF adapter = "shared" THEN "write" ELSE "open"
      /\ attempt' = 0 /\ buffer' = <<>>
    BY Zenon DEF Observe
<1>7. step' \in {"open", "write", "done"} /\ (step' # "done" => Len(found') # Len(Fields))
    BY <1>6, Zenon
<1>8. step' # "done" => Len(found') < Len(Fields)
    BY <1>2, <1>3, <1>4, <1>7, SMTT(30)
<1>9. 0 \in 0..MaxAttempts /\ 0 < MaxAttempts
    OBVIOUS
<1> QED
    BY <1>3, <1>5, <1>6, <1>7, <1>8, <1>9, Zenon DEF KeepsFound, S

LEMMA FailedKeeps ==
    ASSUME NEW low, FoundSoFar(low), Failed
    PROVE  KeepsFound(low) /\ buffer' = <<>>
<1>1. <<>> \in Seq(WirelessParts) /\ OwnValue(<<>>, Field, low)
    BY DEF OwnValue
<1> QED
    BY <1>1, ObserveKeeps, Zenon DEF Failed

LEMMA AttemptFailedKeeps ==
    ASSUME NEW low, FoundSoFar(low), NEW n \in 0..MaxAttempts, AttemptFailed(n)
    PROVE  KeepsFound(low) /\ buffer' = <<>>
<1>1. CASE n < MaxAttempts
    BY <1>1, Zenon DEF AttemptFailed, KeepsFound, FoundSoFar, WirelessInv
<1>2. CASE ~(n < MaxAttempts)
    BY <1>2, FailedKeeps, Zenon DEF AttemptFailed
<1> QED
    BY <1>1, <1>2, Zenon

LEMMA DrainFailedKeeps ==
    ASSUME NEW low, FoundSoFar(low), step = "drain", DrainFailed
    PROVE  KeepsFound(low) /\ buffer' = <<>>
<1> USE WirelessAssumption
<1>1. CASE adapter = "shared"
  <2>1. /\ found' = [i \in DOMAIN Fields |-> [value |-> <<>>, error |-> TRUE]]
        /\ step' = "done" /\ UNCHANGED <<attempt, buffer>>
      BY <1>1, Zenon DEF DrainFailed
  <2>2. DOMAIN Fields = 1..Len(Fields) /\ Len(Fields) \in Nat
      OBVIOUS
  <2>3. [value |-> <<>>, error |-> TRUE] \in [value : Seq(WirelessParts), error : BOOLEAN]
      OBVIOUS
  <2>4. found' \in Seq([value : Seq(WirelessParts), error : BOOLEAN])
      BY <2>1, <2>2, <2>3, SMTT(30)
  <2>5. \A i \in DOMAIN found' : OwnValue(found'[i].value, Fields[i], low)
      BY <2>1, Zenon DEF OwnValue
  <2> QED
      BY <2>1, <2>4, <2>5, Zenon DEF KeepsFound, FoundSoFar, WirelessInv
<1>2. CASE adapter # "shared"
    BY <1>2, FailedKeeps, Zenon DEF DrainFailed
<1> QED
    BY <1>1, <1>2, Zenon

\* The parts of the invariant together.
LEMMA WirelessParted ==
    ASSUME KeepsFound(Oldest(leftover')), adapter' \in {"shared", "fresh", "drained"}, leftover' \in BOOLEAN,
           stale' \in Nat, asked' \in Seq(WirelessQueries), stream' \in Seq(WirelessParts),
           buffer' \in Seq(WirelessParts),
           \A i \in DOMAIN asked' : asked'[i].attempt >= Oldest(leftover'),
           WholeReplies(buffer' \o stream', Oldest(leftover'))
    PROVE  WirelessInv'
BY Zenon DEF WirelessInv, KeepsFound

\* The facts about the state before a step that the steps use.
LEMMA WirelessFacts ==
    ASSUME WirelessInv
    PROVE  /\ adapter \in {"shared", "fresh", "drained"} /\ leftover \in BOOLEAN /\ stale \in Nat
           /\ asked \in Seq(WirelessQueries) /\ stream \in Seq(WirelessParts) /\ buffer \in Seq(WirelessParts)
           /\ attempt \in 0..MaxAttempts /\ (step # "read" => attempt < MaxAttempts /\ buffer = <<>>)
           /\ \A i \in DOMAIN asked : asked[i].attempt >= Oldest(leftover)
           /\ WholeReplies(buffer \o stream, Oldest(leftover))
           /\ step # "done" => FoundSoFar(Oldest(leftover))
           /\ found = <<>> /\ step # "done" => \A low : FoundSoFar(low)
           /\ Oldest(leftover) \in Nat
BY SMTT(30) DEF WirelessInv, FoundSoFar, Oldest

LEMMA NothingKept ==
    ASSUME NEW low
    PROVE  WholeReplies(<<>> \o <<>>, low) /\ <<>> \in Seq(WirelessParts) /\ <<>> \in Seq(WirelessQueries)
<1>1. <<>> \o <<>> = <<>>
    OBVIOUS
<1>2. WholeReplies(<<>>, low)
    BY DEF WholeReplies
<1> QED
    BY <1>1, <1>2

LEMMA OpenKeeps == ASSUME WirelessInv, Open PROVE WirelessInv'
<1> USE WirelessAssumption
<1>1. /\ step = "open" /\ stale' = 0 /\ adapter' = adapter /\ buffer = <<>> /\ buffer \in Seq(WirelessParts)
      /\ adapter \in {"shared", "fresh", "drained"} /\ leftover \in BOOLEAN
      /\ asked \in Seq(WirelessQueries) /\ stream \in Seq(WirelessParts)
      /\ \A i \in DOMAIN asked : asked[i].attempt >= Oldest(leftover)
      /\ WholeReplies(buffer \o stream, Oldest(leftover))
      /\ FoundSoFar(Oldest(leftover)) /\ (found = <<>> => \A low : FoundSoFar(low))
    BY WirelessFacts, Zenon DEF Open
<1>2. ASSUME UNCHANGED <<asked, stream, leftover, buffer>>, KeepsFound(Oldest(leftover))
      PROVE  WirelessInv'
    BY <1>1, <1>2, WirelessParted, Zenon
<1>3. CASE /\ step' = (IF adapter = "fresh" THEN "write" ELSE "drain")
           /\ UNCHANGED <<asked, stream, leftover>> /\ UNCHANGED <<attempt, buffer, found>>
  <2>1. KeepsFound(Oldest(leftover))
      BY <1>1, <1>3, Zenon DEF KeepsFound, FoundSoFar, WirelessInv
  <2> QED
      BY <1>2, <1>3, <2>1, Zenon
<1>4. CASE /\ step' = (IF adapter = "fresh" THEN "write" ELSE "drain")
           /\ asked' = <<>> /\ stream' = <<>> /\ leftover' = (leftover /\ found # <<>>)
           /\ UNCHANGED <<attempt, buffer, found>>
  <2>1. FoundSoFar(Oldest(leftover'))
    <3>1. CASE found = <<>>
        BY <1>1, <3>1, Zenon
    <3>2. CASE found # <<>>
      <4>1. leftover' = leftover
          BY <1>1, <1>4, <3>2, Zenon
      <4> QED
          BY <1>1, <4>1, Zenon
    <3> QED
        BY <3>1, <3>2, Zenon
  <2>2. KeepsFound(Oldest(leftover'))
      BY <1>1, <1>4, <2>1, Zenon DEF KeepsFound, FoundSoFar, WirelessInv
  <2>3. leftover' \in BOOLEAN
      BY <1>4, Zenon
  <2>4. buffer' = <<>> /\ WholeReplies(<<>> \o <<>>, Oldest(leftover'))
      BY <1>1, <1>4, NothingKept, Zenon
  <2> QED
      BY <1>1, <1>4, <2>2, <2>3, <2>4, WirelessParted, SMTT(30)
<1>5. CASE Failed /\ UNCHANGED <<asked, stream, leftover>>
  <2>1. KeepsFound(Oldest(leftover)) /\ buffer' = <<>>
      BY <1>1, <1>5, FailedKeeps, Zenon
  <2> QED
      BY <1>1, <1>2, <1>5, <2>1, Zenon
<1>6. CASE step' = "done" /\ UNCHANGED <<attempt, buffer, found, asked, stream, leftover>>
  <2>1. KeepsFound(Oldest(leftover))
      BY <1>1, <1>6, Zenon DEF KeepsFound, FoundSoFar, WirelessInv
  <2> QED
      BY <1>2, <1>6, <2>1, Zenon
<1> QED
    BY <1>3, <1>4, <1>5, <1>6, Zenon DEF Open

LEMMA DrainReplyKeeps ==
    ASSUME WirelessInv, NEW n \in 0..Len(stream), DrainReply(n)
    PROVE  WirelessInv'
<1>1. PICK s : s = stream
    OBVIOUS
<1>2. /\ step = "drain" /\ buffer = <<>> /\ s \in Seq(WirelessParts) /\ n \in 0..Len(s) /\ n \in Nat
      /\ WholeReplies(<<>> \o s, Oldest(leftover)) /\ Oldest(leftover) \in Nat
      /\ FoundSoFar(Oldest(leftover)) /\ stale \in Nat
    BY <1>1, WirelessFacts DEF DrainReply
<1>3. WholeReplies(<<>> \o SubSeq(s, n + 1, Len(s)), Oldest(leftover))
    BY <1>2, CutStream, Zenon
<1>4. SubSeq(s, n + 1, Len(s)) \in Seq(WirelessParts)
    BY <1>2, CutText, Zenon
<1>5. KeepsFound(Oldest(leftover)) /\ buffer' = <<>>
  <2>1. CASE DrainFailed
      BY <1>2, <2>1, DrainFailedKeeps, Zenon
  <2>2. CASE UNCHANGED <<step, attempt, buffer, found>>
      BY <1>2, <2>2, Zenon DEF KeepsFound, FoundSoFar, WirelessInv
  <2> QED
      BY <2>1, <2>2, Zenon DEF DrainReply
<1>6. stream' = SubSeq(s, n + 1, Len(s)) /\ stale' = stale + n /\ UNCHANGED <<adapter, asked, leftover>>
    BY <1>1, Zenon DEF DrainReply
<1>7. /\ adapter' \in {"shared", "fresh", "drained"} /\ leftover' \in BOOLEAN /\ stale' \in Nat
      /\ asked' \in Seq(WirelessQueries) /\ buffer' \in Seq(WirelessParts)
      /\ \A i \in DOMAIN asked' : asked'[i].attempt >= Oldest(leftover')
    BY <1>2, <1>5, <1>6, WirelessFacts, SMTT(30)
<1> QED
    BY <1>3, <1>4, <1>5, <1>6, <1>7, WirelessParted, Zenon

LEMMA DrainDoneKeeps == ASSUME WirelessInv, DrainDone PROVE WirelessInv'
<1> USE WirelessAssumption
<1>1. /\ step = "drain" /\ buffer = <<>> /\ asked \in Seq(WirelessQueries) /\ stream \in Seq(WirelessParts)
      /\ \A i \in DOMAIN asked : asked[i].attempt >= Oldest(leftover)
      /\ WholeReplies(<<>> \o stream, Oldest(leftover)) /\ attempt < MaxAttempts
      /\ FoundSoFar(Oldest(leftover)) /\ (found = <<>> => \A low : FoundSoFar(low))
    BY WirelessFacts, Zenon DEF DrainDone
<1>2. /\ leftover' = (IF found = <<>> THEN stream # <<>> \/ asked # <<>> ELSE leftover)
      /\ UNCHANGED <<adapter, stale, asked, stream>>
    BY Zenon DEF DrainDone
<1>3. leftover \in BOOLEAN /\ leftover' \in BOOLEAN
    BY <1>2, WirelessFacts, Zenon
<1>4. /\ FoundSoFar(Oldest(leftover'))
      /\ \A i \in DOMAIN asked : asked[i].attempt >= Oldest(leftover')
      /\ WholeReplies(<<>> \o stream, Oldest(leftover'))
  <2>1. CASE found # <<>>
    <3>1. leftover' = leftover
        BY <1>2, <2>1, Zenon
    <3> QED
        BY <1>1, <3>1, Zenon
  <2>2. CASE found = <<>> /\ ~leftover'
    <3>1. stream = <<>> /\ asked = <<>>
        BY <1>2, <2>2, Zenon
    <3> QED
        BY <1>1, <2>2, <3>1, NothingKept, SMTT(30)
  <2>3. CASE found = <<>> /\ leftover'
    <3>1. Oldest(leftover') = 0 /\ Oldest(leftover) \in {0, 1}
        BY <2>3, Zenon DEF Oldest
    <3>2. \A i \in DOMAIN asked : asked[i] \in WirelessQueries
        BY <1>1
    <3>3. \A i \in DOMAIN asked : asked[i].attempt >= 0
        BY <3>2 DEF WirelessQueries
    <3>4. \A i \in Oldest(leftover)..MaxAttempts : i \in 0..MaxAttempts
        BY <3>1
    <3>5. PICK t : t = <<>> \o stream
        OBVIOUS
    <3>6. WholeReplies(t, Oldest(leftover))
        BY <1>1, <3>5, Zenon
    <3>7. WholeReplies(t, 0)
        BY <3>4, <3>6, Zenon DEF WholeReplies
    <3> QED
        BY <1>1, <2>3, <3>1, <3>3, <3>5, <3>7, Zenon
  <2> QED
      BY <1>3, <2>1, <2>2, <2>3, Zenon
<1>5. KeepsFound(Oldest(leftover')) /\ buffer' = <<>>
  <2>1. CASE DrainFailed
      BY <1>1, <1>4, <2>1, DrainFailedKeeps, Zenon
  <2>2. CASE step' = "write" /\ UNCHANGED <<attempt, buffer, found>>
      BY <1>1, <1>4, <2>2, Zenon DEF KeepsFound, FoundSoFar, WirelessInv
  <2> QED
      BY <2>1, <2>2, Zenon DEF DrainDone
<1>6. /\ adapter' \in {"shared", "fresh", "drained"} /\ stale' \in Nat
      /\ asked' \in Seq(WirelessQueries) /\ stream' \in Seq(WirelessParts) /\ buffer' \in Seq(WirelessParts)
    BY <1>1, <1>2, <1>5, WirelessFacts, Zenon
<1>7. /\ \A i \in DOMAIN asked' : asked'[i].attempt >= Oldest(leftover')
      /\ WholeReplies(buffer' \o stream', Oldest(leftover'))
    BY <1>2, <1>4, <1>5, Zenon
<1> QED
    BY <1>3, <1>5, <1>6, <1>7, WirelessParted, Zenon

LEMMA WriteQueryKeeps == ASSUME WirelessInv, WriteQuery PROVE WirelessInv'
<1> USE WirelessAssumption
<1> DEFINE q == QueryOf(Field, attempt + 1)
           longer == Append(asked, q)
<1>1. /\ step = "write" /\ attempt \in 0..MaxAttempts /\ attempt < MaxAttempts /\ buffer = <<>>
      /\ asked \in Seq(WirelessQueries) /\ stream \in Seq(WirelessParts) /\ leftover \in BOOLEAN
      /\ \A i \in DOMAIN asked : asked[i].attempt >= Oldest(leftover)
      /\ WholeReplies(buffer \o stream, Oldest(leftover)) /\ FoundSoFar(Oldest(leftover))
      /\ UNCHANGED <<adapter, stale, stream, leftover>>
    BY WirelessFacts, Zenon DEF WriteQuery
<1>2. attempt + 1 \in 0..MaxAttempts /\ attempt + 1 >= 1
    BY <1>1
<1>3. Field \in Range(Fields)
  <2>1. Len(found) \in Nat /\ Len(found) < Len(Fields)
      BY <1>1, SMTT(30) DEF WirelessInv
  <2>2. Len(found) + 1 \in DOMAIN Fields
      BY <2>1
  <2> QED
      BY <2>2, Zenon DEF Field, Range
<1>4. q \in WirelessQueries /\ q.attempt >= Oldest(leftover)
    BY <1>1, <1>2, <1>3, SMTT(30) DEF QueryOf, WirelessQueries, Oldest
<1> HIDE DEF q
<1>5. longer \in Seq(WirelessQueries) /\ \A i \in DOMAIN longer : longer[i].attempt >= Oldest(leftover)
  <2>1. PICK a : a = asked
      BY Zenon
  <2>2. a \in Seq(WirelessQueries) /\ \A i \in DOMAIN a : a[i].attempt >= Oldest(leftover)
      BY <1>1, <2>1, Zenon
  <2>3. PICK b : b = Append(a, q)
      BY Zenon
  <2>4. /\ b \in Seq(WirelessQueries) /\ Len(b) = Len(a) + 1 /\ Len(a) \in Nat
        /\ b[Len(a) + 1] = q /\ \A i \in 1..Len(a) : b[i] = a[i]
      BY <1>4, <2>2, <2>3, AppendFacts, SMTT(30)
  <2>5. \A i \in DOMAIN b : (i \in DOMAIN a /\ b[i] = a[i]) \/ b[i] = q
      BY <2>2, <2>4, SMTT(30)
  <2>6. \A i \in DOMAIN b : b[i].attempt >= Oldest(leftover)
      BY <1>4, <2>2, <2>5, Zenon
  <2> QED
      BY <2>1, <2>3, <2>4, <2>6, Zenon
<1> HIDE DEF longer
<1>6. asked' \in {asked, longer} /\ KeepsFound(Oldest(leftover)) /\ buffer' = <<>>
  <2>1. CASE asked' = longer /\ step' = "read" /\ attempt' = attempt + 1 /\ UNCHANGED <<buffer, found>>
      BY <1>1, <1>2, <2>1, Zenon DEF KeepsFound, FoundSoFar, WirelessInv
  <2>2. CASE asked' \in {asked, longer} /\ AttemptFailed(attempt + 1)
      BY <1>1, <1>2, <2>2, AttemptFailedKeeps, Zenon
  <2>3. CASE Failed /\ UNCHANGED asked
      BY <1>1, <2>3, FailedKeeps, Zenon
  <2> QED
      BY <2>1, <2>2, <2>3, Zenon DEF WriteQuery, q, longer
<1>7. /\ adapter' \in {"shared", "fresh", "drained"} /\ stale' \in Nat /\ leftover' = leftover
      /\ stream' = stream /\ buffer' = buffer
    BY <1>1, <1>6, WirelessFacts, Zenon
<1>8. asked' \in Seq(WirelessQueries) /\ \A i \in DOMAIN asked' : asked'[i].attempt >= Oldest(leftover')
    BY <1>1, <1>5, <1>6, <1>7, Zenon
<1>9. buffer' \in Seq(WirelessParts) /\ WholeReplies(buffer' \o stream', Oldest(leftover'))
    BY <1>1, <1>7, SMTT(30)
<1> QED
    BY <1>1, <1>6, <1>7, <1>8, <1>9, WirelessParted, Zenon

LEMMA ReadReplyKeeps ==
    ASSUME WirelessInv, NEW n \in 0..Len(stream), ReadReply(n)
    PROVE  WirelessInv'
<1>1. PICK b, s, low : b = buffer /\ s = stream /\ low = Oldest(leftover)
    OBVIOUS
<1>2. PICK text, rest : text = b \o SubSeq(s, 1, n) /\ rest = SubSeq(s, n + 1, Len(s))
    BY Zenon
<1>3. /\ step = "read" /\ b \in Seq(WirelessParts) /\ s \in Seq(WirelessParts) /\ n \in 0..Len(s)
      /\ WholeReplies(b \o s, low) /\ low \in Nat /\ FoundSoFar(low) /\ attempt \in 0..MaxAttempts
      /\ stream' = rest /\ UNCHANGED <<adapter, stale, asked, leftover>>
    BY <1>1, <1>2, WirelessFacts, Zenon DEF ReadReply
<1>4. text \in Seq(WirelessParts) /\ rest \in Seq(WirelessParts) /\ text \o rest = b \o s
    BY <1>2, <1>3, CutText, Zenon
<1>5. WholeReplies(text \o rest, low) /\ WholeReplies(rest, low)
  <2>1. WholeReplies(text \o rest, low)
      BY <1>3, <1>4, Zenon
  <2> QED
      BY <1>3, <1>4, <2>1, DroppedText, Zenon
<1>6. <<>> \o rest = rest
    BY <1>4
<1>7. KeepsFound(low) /\ (buffer' = <<>> \/ buffer' = text)
  <2>1. CASE AttemptFailed(attempt)
      BY <1>3, <2>1, AttemptFailedKeeps, Zenon
  <2>2. CASE /\ Lines(text, Field) # {}
             /\ Observe(parse_oid_value(text, Field), ~Decodes(Field, parse_oid_value(text, Field)))
    <3>1. PICK f, value : f = Field /\ value = parse_oid_value(text, Field)
        OBVIOUS
    <3>2. value \in Seq(WirelessParts) /\ OwnValue(value, f, low)
        BY <1>3, <1>4, <1>5, <2>2, <3>1, ParsedValue, Zenon
    <3>3. PICK error \in BOOLEAN : error = ~Decodes(Field, value)
        BY Zenon
    <3>4. Observe(value, error) /\ OwnValue(value, Field, low)
        BY <2>2, <3>1, <3>2, <3>3, Zenon
    <3> QED
        BY <1>3, <3>2, <3>4, ObserveKeeps, Zenon
  <2>3. CASE (buffer' = <<>> \/ buffer' = text) /\ UNCHANGED <<step, attempt, found>>
      BY <1>3, <2>3, Zenon DEF KeepsFound, FoundSoFar, WirelessInv
  <2>4. text = buffer \o SubSeq(stream, 1, n)
      BY <1>1, <1>2, Zenon
  <2>5. \/ AttemptFailed(attempt)
        \/ /\ Lines(text, Field) # {}
           /\ Observe(parse_oid_value(text, Field), ~Decodes(Field, parse_oid_value(text, Field)))
        \/ (buffer' = <<>> \/ buffer' = text) /\ UNCHANGED <<step, attempt, found>>
      BY <2>4, Zenon DEF ReadReply
  <2> QED
      BY <2>1, <2>2, <2>3, <2>5, Zenon
<1>8. buffer' \in Seq(WirelessParts) /\ WholeReplies(buffer' \o stream', low)
  <2>1. CASE buffer' = <<>>
    <3>1. buffer' \o stream' = rest
        BY <1>3, <1>6, <2>1, Zenon
    <3> QED
        BY <1>5, <2>1, <3>1
  <2>2. CASE buffer' = text
    <3>1. buffer' \o stream' = text \o rest
        BY <1>3, <2>2, Zenon
    <3> QED
        BY <1>4, <1>5, <2>2, <3>1, Zenon
  <2> QED
      BY <1>7, <2>1, <2>2, Zenon
<1>9. /\ adapter' \in {"shared", "fresh", "drained"} /\ leftover' \in BOOLEAN /\ stale' \in Nat
      /\ asked' \in Seq(WirelessQueries) /\ leftover' = leftover
      /\ \A i \in DOMAIN asked' : asked'[i].attempt >= Oldest(leftover')
    BY <1>3, WirelessFacts, Zenon
<1> QED
    BY <1>1, <1>3, <1>4, <1>7, <1>8, <1>9, WirelessParted, Zenon

LEMMA ReadStopsKeeps == ASSUME WirelessInv, ReadStops PROVE WirelessInv'
<1> USE WirelessAssumption
<1>1. /\ step = "read" /\ buffer \in Seq(WirelessParts) /\ stream \in Seq(WirelessParts)
      /\ WholeReplies(buffer \o stream, Oldest(leftover)) /\ Oldest(leftover) \in Nat
      /\ FoundSoFar(Oldest(leftover)) /\ attempt \in 0..MaxAttempts
      /\ UNCHANGED <<adapter, stale, asked, stream, leftover>>
    BY WirelessFacts, Zenon DEF ReadStops
<1>2. KeepsFound(Oldest(leftover)) /\ buffer' = <<>>
    BY <1>1, AttemptFailedKeeps, Zenon DEF ReadStops
<1>3. WholeReplies(stream, Oldest(leftover)) /\ <<>> \o stream = stream
    BY <1>1, DroppedText, SMTT(30)
<1>4. /\ adapter' \in {"shared", "fresh", "drained"} /\ leftover' \in BOOLEAN /\ stale' \in Nat
      /\ asked' \in Seq(WirelessQueries) /\ leftover' = leftover
      /\ \A i \in DOMAIN asked' : asked'[i].attempt >= Oldest(leftover')
    BY <1>1, WirelessFacts, Zenon
<1>5. /\ buffer' \in Seq(WirelessParts) /\ stream' \in Seq(WirelessParts)
      /\ WholeReplies(buffer' \o stream', Oldest(leftover'))
    BY <1>1, <1>2, <1>3, <1>4, SMTT(30)
<1> QED
    BY <1>2, <1>4, <1>5, WirelessParted, Zenon

LEMMA AnswerQueryKeeps == ASSUME WirelessInv, AnswerQuery PROVE WirelessInv'
<1>1. PICK b, s, a, low : b = buffer /\ s = stream /\ a = asked /\ low = Oldest(leftover)
    OBVIOUS
<1>2. /\ b \in Seq(WirelessParts) /\ s \in Seq(WirelessParts) /\ a \in Seq(WirelessQueries) /\ a # <<>>
      /\ WholeReplies(b \o s, low) /\ low \in Nat /\ \A i \in DOMAIN a : a[i].attempt >= low
    BY <1>1, WirelessFacts, Zenon DEF AnswerQuery
<1>3. /\ Tail(a) \in Seq(WirelessQueries) /\ Len(a) \in Nat \ {0} /\ Len(Tail(a)) = Len(a) - 1
      /\ Head(a) = a[1] /\ a[1] \in WirelessQueries
      /\ \A i \in 1..(Len(a) - 1) : Tail(a)[i] = a[i + 1]
    BY <1>2, TailFacts, Zenon
<1>4. \A i \in DOMAIN Tail(a) : Tail(a)[i].attempt >= low
  <2>1. \A i \in DOMAIN Tail(a) : i + 1 \in DOMAIN a /\ Tail(a)[i] = a[i + 1]
      BY <1>2, <1>3
  <2> QED
      BY <1>2, <2>1, Zenon
<1>5. PICK q : q = Head(a)
    OBVIOUS
<1>6. q \in WirelessQueries /\ q.attempt >= low
  <2>1. 1 \in DOMAIN a
      BY <1>2, <1>3
  <2> QED
      BY <1>2, <1>3, <1>5, <2>1, Zenon
<1>7. PICK t, r : t = b \o s /\ r = Reply(q)
    BY Zenon
<1>8. t \in Seq(WirelessParts) /\ WholeReplies(t, low)
    BY <1>2, <1>7, ConcatFacts, Zenon
<1>9. r \in Seq(WirelessParts) /\ WholeReplies(t \o r, low)
    BY <1>2, <1>6, <1>7, <1>8, OneMoreReply, Zenon
<1>10. s \o r \in Seq(WirelessParts) /\ (b \o s) \o r = b \o (s \o r)
    BY <1>2, <1>9, SMTT(30)
<1>11. WholeReplies(b \o (s \o r), low)
    BY <1>7, <1>9, <1>10, Zenon
<1>12. /\ asked' = Tail(a) /\ (stream' = s \/ stream' = s \o r)
       /\ UNCHANGED <<adapter, step, attempt, buffer, stale, found, leftover>>
    BY <1>1, <1>5, <1>7, Zenon DEF AnswerQuery
<1>13. stream' \in Seq(WirelessParts) /\ WholeReplies(b \o stream', low)
    BY <1>2, <1>10, <1>11, <1>12, Zenon
<1> QED
    BY <1>1, <1>3, <1>4, <1>12, <1>13, Zenon DEF WirelessInv

LEMMA WirelessInvNext == WirelessInv /\ [WirelessNext]_wireless => WirelessInv'
<1> SUFFICES ASSUME WirelessInv, [WirelessNext]_wireless PROVE WirelessInv'
    OBVIOUS
<1>1. ASSUME NEW n \in 0..(IF Len(stream) < MaxPiece THEN Len(stream) ELSE MaxPiece), DrainReply(n) \/ ReadReply(n)
      PROVE  WirelessInv'
  <2>1. Len(stream) \in Nat
      BY SMTT(30) DEF WirelessInv
  <2>2. n \in 0..Len(stream)
      BY <2>1, WirelessAssumption
  <2> QED
      BY <1>1, <2>2, DrainReplyKeeps, ReadReplyKeeps, Zenon
<1>2. CASE UNCHANGED wireless
    BY <1>2, Zenon DEF wireless, WirelessInv
<1> QED
    BY <1>1, <1>2, OpenKeeps, DrainDoneKeeps, WriteQueryKeeps, ReadStopsKeeps, AnswerQueryKeeps,
        Zenon
    DEF WirelessNext, Retrieval, ReplyReads

LEMMA WirelessInvInit == WirelessInit => WirelessInv
<1> SUFFICES ASSUME WirelessInit PROVE WirelessInv
    OBVIOUS
<1> USE WirelessAssumption
<1>1. PICK f \in Range(Fields) : \/ stream = <<>> /\ asked \in {<<>>, <<QueryOf(f, 0)>>}
                                 \/ stream = Reply(QueryOf(f, 0)) /\ asked = <<>>
    BY Zenon DEF WirelessInit
<1>2. PICK q : q = QueryOf(f, 0)
    BY Zenon
<1>3. q \in WirelessQueries /\ q.attempt >= 0 /\ 0 \in Nat
    BY <1>2 DEF QueryOf, WirelessQueries
<1>4. WholeReplies(<<>>, 0) /\ WholeReplies(<<>>, 1) /\ <<>> \in Seq(WirelessParts) /\ <<>> \o <<>> = <<>>
    BY SMTT(30) DEF WholeReplies
<1>5. Reply(q) \in Seq(WirelessParts) /\ WholeReplies(<<>> \o Reply(q), 0)
    BY <1>3, <1>4, OneMoreReply, Zenon
<1>6. PICK r : r = Reply(q)
    BY Zenon
<1>7. <<q>> \in Seq(WirelessQueries) /\ \A i \in DOMAIN <<q>> : <<q>>[i].attempt >= 0
    BY <1>3
<1>8. /\ adapter \in {"shared", "fresh", "drained"} /\ step = "open" /\ attempt = 0 /\ buffer = <<>>
      /\ stale = 0 /\ found = <<>> /\ leftover = (stream # <<>> \/ asked # <<>>)
    BY Zenon DEF WirelessInit
<1>9. Len(<<>>) < Len(Fields) /\ 0 < MaxAttempts
    OBVIOUS
<1>10. CASE stream = <<>> /\ asked = <<>>
    BY <1>4, <1>8, <1>9, <1>10, SMTT(30) DEF WirelessInv, Oldest
<1>11. CASE stream = <<>> /\ asked = <<q>>
  <2>1. leftover \in BOOLEAN /\ Oldest(leftover) = 0
      BY <1>8, <1>11, Zenon DEF Oldest
  <2>2. asked \in Seq(WirelessQueries) /\ \A i \in DOMAIN asked : asked[i].attempt >= 0
      BY <1>7, <1>11, Zenon
  <2>3. WholeReplies(buffer \o stream, 0)
      BY <1>4, <1>8, <1>11, Zenon
  <2> QED
      BY <1>4, <1>8, <1>9, <1>11, <2>1, <2>2, <2>3, SMTT(30) DEF WirelessInv
<1>12. CASE stream = r /\ asked = <<>>
  <2>1. leftover \in BOOLEAN /\ Oldest(leftover) \in {0, 1} /\ (stream = <<>> => Oldest(leftover) = 1)
        /\ (stream # <<>> => Oldest(leftover) = 0)
      BY <1>8, <1>12, Zenon DEF Oldest
  <2>2. WholeReplies(<<>> \o stream, Oldest(leftover))
      BY <1>4, <1>5, <1>6, <1>12, <2>1, Zenon
  <2> QED
      BY <1>5, <1>6, <1>8, <1>9, <1>12, <2>1, <2>2, SMTT(30) DEF WirelessInv
<1> QED
    BY <1>1, <1>2, <1>6, <1>10, <1>11, <1>12, Zenon

\* However replies are late, repeated, lost and cut, and however many attempts and fields there
\* are: a value that is observed for a field is the start of one reply to a query for that
\* field, and of this retrieval unless the printer still owed one when it began.
THEOREM ValuesAreOwn == WirelessSpec => []OwnValues
<1>1. WirelessInv => OwnValues
    BY Zenon DEF WirelessInv, OwnValues, OwnValue, ValuePart, Oldest
<1> QED
    BY <1>1, WirelessInvInit, WirelessInvNext, PTL DEF WirelessSpec

-----------------------------------------------------------------------------
(* The write of SNMP *)

\* Where the datagram of a write can be, by where the call is: the datagram is sent once, and
\* what is reported depends on what the agent did with it.
WriteInv ==
    call.op = "set" =>
        /\ at \in {"start", "send", "wait", "end"}
        /\ write \in {"none", "out", "lost", "done", "refused"}
        /\ applied = IF write = "done" THEN 1 ELSE 0
        /\ sent = IF write = "none" THEN 0 ELSE 1
        /\ at # "end" => outcome.status = "none"
        /\ at \in {"start", "send"} => write = "none"
        /\ at = "wait" => write # "none"
        /\ outcome.status = "ok" => write = "done"
        /\ outcome.status = "agent" => write = "refused"
        /\ outcome.status \in {"invalid_value", "invalid_limits", "transport"} => write = "none"
        /\ outcome.status \in {"malformed", "too_large"} => write = "done"

LEMMA WriteInvNext ==
    ASSUME WriteInv, [SnmpNext]_snmp
    PROVE  WriteInv'
<1> USE DEF WriteInv, Refuses, Ends
<1>1. CASE StartWalk \/ StartRead \/ ReadFailed \/ ReadAnswered \/ WalkAnswered
    BY <1>1, Zenon DEF StartWalk, StartRead, ReadFailed, ReadAnswered, WalkAnswered
<1>2. CASE StartSet
    BY <1>2 DEF StartSet
<1>3. CASE SendDatagram
    BY <1>3 DEF SendDatagram
<1>4. CASE NoAnswer
    BY <1>4 DEF NoAnswer, MaxDatagrams
<1>5. CASE WriteArrives
    BY <1>5 DEF WriteArrives
<1>6. CASE WriteAnswered
    BY <1>6 DEF WriteAnswered
<1>7. CASE UNCHANGED snmp
    BY <1>7, Zenon DEF snmp
<1> QED
    BY <1>1, <1>2, <1>3, <1>4, <1>5, <1>6, <1>7, Zenon DEF SnmpNext, SnmpClientStep

LEMMA WriteInvInit == SnmpInit => WriteInv
BY DEF SnmpInit, WriteInv

\* A write is sent at most once and never reported as done or as refused when it is not, however
\* late the agent carries it out and whatever limits the caller gives.
THEOREM WritesAreTruthful == SnmpSpec => []WriteIsTruthful
<1>1. SnmpSpec => []WriteInv
    BY WriteInvInit, WriteInvNext, PTL DEF SnmpSpec
<1>2. WriteInv => WriteIsTruthful
    BY DEF WriteInv, WriteIsTruthful
<1> QED
    BY <1>1, <1>2, PTL

-----------------------------------------------------------------------------
(* The walk of SNMP *)

\* The walk has passed an object: it is at it or after it.
Passed(oid) == oid = cursor \/ Before(oid, cursor)

\* What a walk has collected: registered objects under its root, in their order and up to the
\* cursor, and from an agent that keeps to the protocol all of these.
WalkInv ==
    call.op = "walk" =>
        /\ write = "none" /\ (at = "start" => output = <<>>)
        /\ at # "end" => outcome.status = "none"
        /\ outcome.status = "ok" => WalkIsComplete
        /\ call.root \in Seq(Nat) /\ output \in Seq(Registered)
        /\ at \in {"send", "wait"} =>
               /\ cursor \in Seq(Nat) /\ IsWithin(cursor, call.root)
               /\ \A i \in DOMAIN output : IsBelow(output[i], call.root) /\ Passed(output[i])
               /\ \A i, j \in DOMAIN output : i < j => Before(output[i], output[j])
               /\ honest =>
                      /\ Range(output) \subseteq Present
                      /\ \A oid \in Present \cap Registered :
                             IsBelow(oid, call.root) /\ Passed(oid) => oid \in Range(output)

\* The objects that the agent has are among those of a sequence.
LEMMA ObjectsAreSequences ==
    /\ Registered \subseteq Seq(Nat) /\ Present \subseteq Seq(Nat)
    /\ \E all \in Seq(Seq(Nat)) : \A oid \in Present : \E i \in DOMAIN all : all[i] = oid
<1>0. MaxRecords \in Nat /\ Serial \in Seq(Nat) /\ Extra \subseteq Seq(Nat)
    BY SnmpAssumption DEF MaxRecords, Serial
<1>1. \A i \in 1..MaxRecords : Record(i) \in Seq(Nat)
    BY DEF Record
<1>2. Registered \subseteq Seq(Nat)
    BY <1>0, <1>1, Zenon DEF Registered
<1>3. \A oid \in Present : oid = Serial \/ oid \in Extra \/ \E i \in 1..MaxRecords : oid = Record(i)
    BY Zenon DEF Present
<1>4. Present \subseteq Seq(Nat)
    BY <1>0, <1>1, <1>3, Zenon
<1>5. PICK extra \in Seq(Extra) : \A oid \in Extra : \E n \in 1..Len(extra) : extra[n] = oid
    BY SnmpAssumption, Zenon DEF IsFiniteSet
<1>6. Len(extra) \in Nat /\ \A n \in 1..Len(extra) : extra[n] \in Extra
    OBVIOUS
<1> DEFINE N == MaxRecords + 1 + Len(extra)
           all == [i \in 1..N |-> IF i <= MaxRecords THEN Record(i)
                                  ELSE IF i = MaxRecords + 1 THEN Serial ELSE extra[i - MaxRecords - 1]]
<1>7. /\ N \in Nat
      /\ MaxRecords + 1 \in 1..N /\ ~(MaxRecords + 1 <= MaxRecords)
      /\ \A i \in 1..MaxRecords : i \in 1..N /\ i <= MaxRecords
      /\ \A n \in 1..Len(extra) : /\ MaxRecords + 1 + n \in 1..N /\ ~(MaxRecords + 1 + n <= MaxRecords)
                                  /\ MaxRecords + 1 + n # MaxRecords + 1
                                  /\ (MaxRecords + 1 + n) - MaxRecords - 1 = n
      /\ \A i \in 1..N : i <= MaxRecords \/ i = MaxRecords + 1 \/ i - MaxRecords - 1 \in 1..Len(extra)
      /\ \A i \in 1..N : i <= MaxRecords => i \in 1..MaxRecords
    BY <1>0, <1>6
<1> HIDE DEF N
<1>8. /\ all[MaxRecords + 1] = Serial
      /\ \A i \in 1..MaxRecords : all[i] = Record(i)
      /\ \A n \in 1..Len(extra) : all[MaxRecords + 1 + n] = extra[n]
    BY <1>7, Zenon
<1>9. \A i \in 1..N : all[i] \in Seq(Nat)
    BY <1>0, <1>1, <1>6, <1>7, Zenon
<1>10. all \in Seq(Seq(Nat)) /\ DOMAIN all = 1..N
  <2>1. all \in [1..N -> Seq(Nat)]
      BY <1>9, Zenon
  <2> HIDE DEF all
  <2> QED
      BY <1>7, <2>1
<1> HIDE DEF all
<1>11. ASSUME NEW oid \in Present PROVE \E i \in DOMAIN all : all[i] = oid
  <2>1. CASE oid = Serial
      BY <1>7, <1>8, <1>10, <2>1, Zenon
  <2>2. CASE oid \in Extra
    <3>1. PICK n \in 1..Len(extra) : extra[n] = oid
        BY <1>5, <2>2, Zenon
    <3>2. MaxRecords + 1 + n \in 1..N /\ all[MaxRecords + 1 + n] = oid
        BY <1>7, <1>8, <3>1, Zenon
    <3> QED
        BY <1>10, <3>2, Zenon
  <2>3. CASE \E i \in 1..MaxRecords : oid = Record(i)
      BY <1>7, <1>8, <1>10, <2>3, Zenon
  <2> QED
      BY <1>3, <2>1, <2>2, <2>3, Zenon
<1> QED
    BY <1>2, <1>4, <1>10, <1>11, Zenon

\* The next object that an agent which keeps to the protocol has.
LEMMA HonestNext ==
    ASSUME honest, cursor \in Seq(Nat), NEW binding \in NextBindings
    PROVE  \/ /\ binding.end /\ binding.oid = cursor
              /\ \A oid \in Present : ~Before(cursor, oid)
           \/ /\ ~binding.end /\ binding.oid \in Present /\ Before(cursor, binding.oid)
              /\ \A oid \in Present : Before(cursor, oid) => oid = binding.oid \/ Before(binding.oid, oid)
<1> DEFINE later == {oid \in Present : Before(cursor, oid)}
           IsFirst(x) == x \in later /\ \A o \in later \ {x} : Before(x, o)
           first == CHOOSE oid \in later : \A o \in later \ {oid} : Before(oid, o)
<1>1. CASE later = {}
    BY <1>1 DEF NextBindings
<1>2. CASE later # {}
  <2>1. PICK all \in Seq(Seq(Nat)) : \A oid \in Present : \E i \in DOMAIN all : all[i] = oid
      BY ObjectsAreSequences, Zenon
  <2>2. \E x \in later : \A o \in later \ {x} : Before(x, o)
    <3>1. \A x \in later : \E i \in DOMAIN all : all[i] = x
        BY <2>1, Zenon
    <3> HIDE DEF later
    <3> QED
        BY <1>2, <2>1, <3>1, FirstExists, Zenon
  <2>3. first \in later /\ \A o \in later \ {first} : Before(first, o)
      BY <2>2, Zenon
  <2>4. binding = [oid |-> first, end |-> FALSE]
      BY <1>2, Zenon DEF NextBindings
  <2> HIDE DEF first
  <2>5. binding.oid = first /\ ~binding.end
      BY <2>4, Zenon
  <2> QED
      BY <2>3, <2>5, Zenon
<1> QED
    BY <1>1, <1>2, ZenonT(40)

LEMMA WalkInvAnswered ==
    ASSUME WalkInv, WalkAnswered
    PROVE  WalkInv'
<1>0. /\ call.op = "walk" /\ at = "wait" /\ call.root \in Seq(Nat) /\ cursor \in Seq(Nat)
      /\ output \in Seq(Registered) /\ outcome.status = "none" /\ write = "none"
      /\ IsWithin(cursor, call.root)
      /\ \A i \in DOMAIN output : IsBelow(output[i], call.root) /\ Passed(output[i])
      /\ \A i, j \in DOMAIN output : i < j => Before(output[i], output[j])
      /\ honest =>
             /\ Range(output) \subseteq Present
             /\ \A oid \in Present \cap Registered :
                    IsBelow(oid, call.root) /\ Passed(oid) => oid \in Range(output)
    BY DEF WalkInv, WalkAnswered
<1>t. Registered \subseteq Seq(Nat) /\ Present \subseteq Seq(Nat)
    BY ObjectsAreSequences, Zenon
<1>u. UNCHANGED <<call, table, honest, write>> /\ Present' = Present
    BY DEF WalkAnswered, Present
<1>p. output \in Seq(Registered)
    BY <1>0, Zenon
<1>o. /\ DOMAIN output = 1..Len(output) /\ Len(output) \in Nat
      /\ \A i \in DOMAIN output : output[i] \in Registered
    BY <1>p
<1>a. ASSUME NEW x \in Registered
      PROVE  /\ Append(output, x) \in Seq(Registered)
             /\ DOMAIN Append(output, x) = 1..(Len(output) + 1)
             /\ Append(output, x)[Len(output) + 1] = x
             /\ \A i \in 1..Len(output) : Append(output, x)[i] = output[i]
    BY <1>p
<1> DEFINE Collected(b) == IF b.oid \in Registered THEN Append(output, b.oid) ELSE output
           Outside(b) == ~IsWithin(b.oid, call.root) \/ b.end
<1>1. PICK binding \in NextBindings :
          CASE Outside(binding) -> Ends([status |-> "ok"]) /\ UNCHANGED <<sent, cursor, steps, output>>
            [] ~Outside(binding) /\ ~Advances(binding.oid) ->
                   Refuses("malformed") /\ UNCHANGED <<sent, cursor, steps, output>>
            [] OTHER -> /\ cursor' = binding.oid /\ output' = Collected(binding)
                        /\ steps' = steps + 1 /\ sent' = 0
                        /\ CASE TooLarge(Collected(binding)) -> Refuses("too_large")
                             [] ~TooLarge(Collected(binding)) /\ steps + 1 = MaxSteps -> Refuses("walk_limit")
                             [] OTHER -> at' = "send" /\ UNCHANGED outcome
    BY DEF WalkAnswered
<1>2. binding.oid \in Seq(Nat)
  <2>1. CASE honest
      BY <1>0, <1>t, <2>1, HonestNext, Zenon
  <2>2. CASE ~honest
    <3>1. binding \in [oid : Present \cup {cursor}, end : BOOLEAN]
        BY <2>2, Zenon DEF NextBindings
    <3> QED
        BY <1>0, <1>t, <3>1, Zenon
  <2> QED
      BY <2>1, <2>2, Zenon
<1>3. CASE Outside(binding)
  <2>1. outcome' = [status |-> "ok"] /\ at' = "end" /\ UNCHANGED <<cursor, output>>
      BY <1>1, <1>3 DEF Ends
  <2>2. outcome'.status = "ok"
      BY <2>1, Zenon
  <2>3. ASSUME honest, NEW oid \in Present \cap Registered, IsBelow(oid, call.root)
        PROVE  Passed(oid)
    <3> SUFFICES ASSUME ~Passed(oid) PROVE FALSE
        OBVIOUS
    <3>1. oid \in Seq(Nat) /\ IsWithin(oid, call.root)
        BY <1>t, <2>3, Zenon DEF IsBelow
    <3>2. Before(cursor, oid)
        BY <1>0, <3>1, BeforeTotal, Zenon DEF Passed
    <3>3. /\ ~binding.end /\ Before(cursor, binding.oid)
          /\ oid = binding.oid \/ Before(binding.oid, oid)
        BY <1>0, <2>3, <3>2, HonestNext, Zenon
    <3>4. IsWithin(binding.oid, call.root)
        BY <1>0, <1>2, <3>1, <3>3, PrefixConvex, Zenon
    <3> QED
        BY <1>3, <3>3, <3>4, Zenon
  <2>4. honest => Range(output) = {oid \in Present \cap Registered : IsBelow(oid, call.root)}
    <3>1. Range(output) \subseteq Registered /\ \A oid \in Range(output) : IsBelow(oid, call.root)
        BY <1>0, <1>o, Zenon DEF Range
    <3> QED
        BY <1>0, <2>3, <3>1, Zenon
  <2>5. \A i \in DOMAIN output : output[i] \in Registered /\ IsBelow(output[i], call.root)
      BY <1>0, <1>o, Zenon
  <2>6. WalkIsComplete'
      BY <1>0, <1>u, <2>1, <2>4, <2>5, Zenon DEF WalkIsComplete
  <2> QED
      BY <1>0, <1>u, <2>1, <2>2, <2>6, Zenon DEF WalkInv
<1>4. CASE ~Outside(binding) /\ ~Advances(binding.oid)
  <2>1. outcome' = [status |-> "malformed"] /\ at' = "end" /\ UNCHANGED output
      BY <1>1, <1>4, Zenon DEF Refuses, Ends
  <2> QED
      BY <1>0, <1>u, <2>1, Zenon DEF WalkInv
<1>5. CASE ~Outside(binding) /\ Advances(binding.oid)
  <2>1. /\ cursor' = binding.oid /\ output' = Collected(binding)
        /\ \/ outcome' \in {[status |-> "too_large"], [status |-> "walk_limit"]} /\ at' = "end"
           \/ at' = "send" /\ outcome' = outcome
      BY <1>1, <1>5, Zenon DEF Refuses, Ends
  <2>2. IsWithin(binding.oid, call.root) /\ Before(cursor, binding.oid)
      BY <1>5, Zenon DEF Advances
  <2>3. output' \in Seq(Registered)
      BY <1>p, <1>a, <2>1, Zenon
  <2>4. ASSUME NEW oid \in Seq(Nat), Passed(oid) PROVE Before(oid, binding.oid)
      BY <1>0, <1>2, <2>2, <2>4, BeforeTransitive, Zenon DEF Passed
  <2>5. \A i \in DOMAIN output : output[i] \in Seq(Nat) /\ Before(output[i], binding.oid)
      BY <1>0, <1>o, <1>t, <2>4, Zenon
  <2>6. IsBelow(binding.oid, call.root)
    <3>1. ASSUME binding.oid = call.root PROVE FALSE
      <4>1. cursor = call.root \/ Before(call.root, cursor)
        <5>1. CASE cursor # call.root
          <6>1. IsBelow(cursor, call.root)
              BY <1>0, <5>1, Zenon DEF IsBelow
          <6> QED
              BY <6>1, Zenon DEF Before
        <5> QED
            BY <5>1, Zenon
      <4>2. Before(call.root, call.root)
          BY <1>0, <2>2, <3>1, <4>1, BeforeTransitive, Zenon
      <4> QED
          BY <1>0, <4>2, BeforeIrreflexive, Zenon
    <3> QED
        BY <2>2, <3>1, Zenon DEF IsBelow
  <2>7. /\ \A i \in DOMAIN output' : IsBelow(output'[i], call.root) /\ (output'[i] = binding.oid \/ Before(output'[i], binding.oid))
        /\ \A i, j \in DOMAIN output' : i < j => Before(output'[i], output'[j])
    <3>1. CASE binding.oid \notin Registered
        BY <1>0, <2>1, <2>5, <3>1, Zenon
    <3>2. CASE binding.oid \in Registered
      <4>1. /\ DOMAIN output = 1..Len(output) /\ Len(output) \in Nat
            /\ DOMAIN output' = 1..(Len(output) + 1)
            /\ output'[Len(output) + 1] = binding.oid
            /\ \A i \in 1..Len(output) : output'[i] = output[i]
          BY <1>o, <1>a, <2>1, <3>2, Zenon
      <4>2. \A i \in DOMAIN output' : i \in DOMAIN output \/ i = Len(output) + 1
          BY <4>1
      <4>3. \A i \in DOMAIN output' : IsBelow(output'[i], call.root) /\ (output'[i] = binding.oid \/ Before(output'[i], binding.oid))
          BY <1>0, <2>5, <2>6, <4>1, <4>2, Zenon
      <4>4. ASSUME NEW i \in DOMAIN output', NEW j \in DOMAIN output', i < j
            PROVE  Before(output'[i], output'[j])
        <5>1. i \in DOMAIN output
            BY <4>1, <4>4
        <5>2. CASE j \in DOMAIN output
            BY <1>0, <4>1, <4>4, <5>1, <5>2, Zenon
        <5>3. CASE j = Len(output) + 1
            BY <2>5, <4>1, <5>1, <5>3, Zenon
        <5> QED
            BY <4>2, <5>2, <5>3, Zenon
      <4> QED
          BY <4>3, <4>4, Zenon
    <3> QED
        BY <3>1, <3>2, Zenon
  <2>8. Range(output') = IF binding.oid \in Registered THEN Range(output) \cup {binding.oid} ELSE Range(output)
    <3>1. CASE binding.oid \notin Registered
        BY <2>1, <3>1, Zenon
    <3>2. CASE binding.oid \in Registered
      <4>1. /\ DOMAIN output = 1..Len(output) /\ Len(output) \in Nat
            /\ DOMAIN output' = 1..(Len(output) + 1)
            /\ output'[Len(output) + 1] = binding.oid
            /\ \A i \in 1..Len(output) : output'[i] = output[i]
          BY <1>o, <1>a, <2>1, <3>2, Zenon
      <4>2. \A i \in DOMAIN output' : i \in DOMAIN output \/ i = Len(output) + 1
          BY <4>1
      <4>3. Len(output) + 1 \in DOMAIN output' /\ DOMAIN output \subseteq DOMAIN output'
          BY <4>1
      <4> HIDE <2>1
      <4> QED
          BY <3>2, <4>1, <4>2, <4>3, Zenon DEF Range
    <3> QED
        BY <3>1, <3>2, Zenon
  <2>9. ASSUME honest
        PROVE  /\ Range(output') \subseteq Present
               /\ \A oid \in Present \cap Registered :
                      IsBelow(oid, call.root) /\ (oid = binding.oid \/ Before(oid, binding.oid))
                          => oid \in Range(output')
    <3>1. /\ binding.oid \in Present
          /\ \A oid \in Present : Before(cursor, oid) => oid = binding.oid \/ Before(binding.oid, oid)
        BY <1>0, <1>5, <2>9, HonestNext, Zenon
    <3>2. Range(output') \subseteq Present
        BY <1>0, <2>8, <2>9, <3>1, Zenon
    <3>3. ASSUME NEW oid \in Present \cap Registered, IsBelow(oid, call.root),
                 oid = binding.oid \/ Before(oid, binding.oid)
          PROVE  oid \in Range(output')
      <4>0. oid \in Seq(Nat)
          BY <1>t
      <4>1. CASE oid = binding.oid
          BY <2>8, <4>1, Zenon
      <4>2. CASE Before(oid, binding.oid)
        <5>1. ~Before(cursor, oid)
          <6> SUFFICES ASSUME Before(cursor, oid) PROVE FALSE
              OBVIOUS
          <6>1. oid = binding.oid \/ Before(binding.oid, oid)
              BY <3>1, Zenon
          <6>2. Before(oid, oid)
              BY <1>2, <4>0, <4>2, <6>1, BeforeTransitive, Zenon
          <6> QED
              BY <4>0, <6>2, BeforeIrreflexive, Zenon
        <5>2. Passed(oid)
            BY <1>0, <4>0, <5>1, BeforeTotal, Zenon DEF Passed
        <5>3. oid \in Range(output)
            BY <1>0, <2>9, <3>3, <5>2, Zenon
        <5> QED
            BY <2>8, <5>3, Zenon
      <4> QED
          BY <3>3, <4>1, <4>2, Zenon
    <3> QED
        BY <3>2, <3>3, Zenon
  <2>10. outcome'.status # "ok" /\ (at' # "end" => outcome'.status = "none") /\ at' # "start"
    <3>1. outcome.status = "none"
        BY <1>0, Zenon
    <3>2. CASE outcome' \in {[status |-> "too_large"], [status |-> "walk_limit"]} /\ at' = "end"
        BY <3>2
    <3>3. CASE at' = "send" /\ outcome' = outcome
        BY <3>1, <3>3
    <3> QED
        BY <2>1, <3>2, <3>3, Zenon
  <2> QED
      BY <1>0, <1>2, <1>u, <2>1, <2>2, <2>3, <2>7, <2>9, <2>10, Zenon DEF WalkInv, Passed
<1> QED
    BY <1>3, <1>4, <1>5, Zenon

LEMMA WalkInvNext ==
    ASSUME WalkInv, [SnmpNext]_snmp
    PROVE  WalkInv'
<1>1. CASE StartWalk
  <2>1. /\ call.op = "walk" /\ at = "start" /\ UNCHANGED <<call, table, honest, output, write>>
        /\ \/ \E status \in {"invalid_limits", "unregistered"} : outcome' = [status |-> status] /\ at' = "end"
           \/ cursor' = call.root /\ at' = "send" /\ outcome' = outcome
      BY <1>1 DEF StartWalk, Refuses, Ends
  <2>2. output = <<>> /\ write = "none" /\ call.root \in Seq(Nat) /\ outcome.status = "none" /\ <<>> \in Seq(Registered)
      BY <2>1, Zenon DEF WalkInv
  <2>3. CASE at' = "end" /\ outcome'.status # "ok"
      BY <2>1, <2>2, <2>3, Zenon DEF WalkInv
  <2>4. CASE cursor' = call.root /\ at' = "send" /\ outcome' = outcome
    <3>1. IsWithin(cursor', call.root)
        BY <2>2, <2>4, PrefixPointwise
    <3>2. \A oid \in Present \cap Registered :
              IsBelow(oid, call.root) => ~(oid = call.root \/ Before(oid, call.root))
      <4> SUFFICES ASSUME NEW oid \in Present, IsBelow(oid, call.root),
                          oid = call.root \/ Before(oid, call.root)
                   PROVE  FALSE
          OBVIOUS
      <4>1. oid \in Seq(Nat)
          BY ObjectsAreSequences, Zenon
      <4>2. Before(call.root, oid)
          BY Zenon DEF Before
      <4>3. Before(call.root, call.root)
          BY <2>2, <4>1, <4>2, BeforeTransitive, Zenon
      <4> QED
          BY <2>2, <4>3, BeforeIrreflexive, Zenon
    <3>3. Present' = Present /\ Range(output') = {} /\ DOMAIN output' = {}
        BY <2>1, <2>2 DEF Present, Range
    <3> QED
        BY <2>1, <2>2, <2>4, <3>1, <3>2, <3>3, Zenon DEF WalkInv, Passed
  <2> QED
      BY <2>1, <2>3, <2>4
<1>2. CASE StartRead \/ StartSet \/ ReadAnswered
    BY <1>2 DEF StartRead, StartSet, ReadAnswered, WalkInv
<1>3. CASE SendDatagram \/ NoAnswer \/ ReadFailed
  <2>1. /\ UNCHANGED <<call, table, honest, output, cursor>> /\ at \in {"send", "wait"}
        /\ call.op = "walk" => write' = write
        /\ \/ at' \in {"send", "wait"} /\ outcome' = outcome
           \/ at' = "end" /\ outcome'.status # "ok"
      BY <1>3 DEF SendDatagram, NoAnswer, ReadFailed, Refuses, Ends
  <2>2. Present' = Present
      BY <2>1, Zenon DEF Present
  <2> QED
      BY <2>1, <2>2, Zenon DEF WalkInv, Passed
<1>4. CASE WriteArrives \/ UNCHANGED snmp
  <2>1. /\ UNCHANGED <<call, at, table, honest, output, cursor, outcome>>
        /\ write = "none" => write' = write
      BY <1>4, Zenon DEF WriteArrives, snmp
  <2>2. Present' = Present /\ (WalkIsComplete => WalkIsComplete')
      BY <2>1, Zenon DEF Present, WalkIsComplete
  <2> QED
      BY <2>1, <2>2, Zenon DEF WalkInv, Passed
<1>5. CASE WriteAnswered
    BY <1>5, Zenon DEF WriteAnswered, WalkInv
<1> QED
    BY <1>1, <1>2, <1>3, <1>4, <1>5, WalkInvAnswered, Zenon DEF SnmpNext, SnmpClientStep

LEMMA WalkInvInit == SnmpInit => WalkInv
<1> SUFFICES ASSUME SnmpInit, call.op = "walk" PROVE WalkInv
    BY Zenon DEF WalkInv
<1>1. call \in [op : {"walk"}, root : {<<1>>, <<1, 2>>, Serial, <<3>>}, limits : Limits]
    BY DEF SnmpInit, Calls
<1>2. call.root \in Seq(Nat)
  <2>1. <<1>> \in Seq(Nat) /\ <<1, 2>> \in Seq(Nat) /\ <<1, MaxRecords + 1>> \in Seq(Nat) /\ <<3>> \in Seq(Nat)
    <3>1. MaxRecords + 1 \in Nat
        BY SnmpAssumption DEF MaxRecords
    <3> HIDE DEF MaxRecords
    <3> QED
        BY <3>1
  <2>2. call.root \in {<<1>>, <<1, 2>>, Serial, <<3>>}
      BY <1>1
  <2> QED
      BY <2>1, <2>2, Zenon DEF Serial
<1> QED
    BY <1>2, SMTT(30) DEF SnmpInit, WalkInv

\* A walk that succeeds returns registered objects under its root in their order, each once,
\* however the agent answers, and all of them from an agent that keeps to the protocol, for any
\* objects the agent may have.
THEOREM WalksAreComplete == SnmpSpec => []WalkIsComplete
<1>1. SnmpSpec => []WalkInv
    BY WalkInvInit, WalkInvNext, PTL DEF SnmpSpec
<1>2. WalkInv => WalkIsComplete
    BY Zenon DEF WalkInv, WalkIsComplete
<1> QED
    BY <1>1, <1>2, PTL


-----------------------------------------------------------------------------
(* The firmware of a printer *)

StartOf(a, b, S) ==
    a \in Seq(S) /\ b \in Seq(S) /\ Len(a) <= Len(b) /\ \A k \in 1..Len(a) : a[k] = b[k]

\* What a filter takes from the start of a sequence is the start of what it takes.
LEMMA PickedStart ==
    ASSUME NEW S, NEW s \in Seq(S), NEW r \in 0..Len(s), NEW some, NEW positions,
           \A i \in 1..r : i \in some <=> i \in positions
    PROVE  StartOf(Picked(SubSeq(s, 1, r), some), Picked(s, positions), S)
<1> DEFINE L == Len(s)
           t == SubSeq(s, 1, r)
<1>1. L \in Nat /\ r \in Nat /\ r <= L
    OBVIOUS
<1>2. t \in Seq(S) /\ Len(t) = r /\ \A i \in 1..r : t[i] = s[i]
    OBVIOUS
<1> HIDE DEF t, L
<1>3. PICK f : Filters(f, S, t, some) /\ Picked(t, some) = f[Len(t)]
    BY <1>2, PickedFilters, Zenon
<1>4. PICK g : Filters(g, S, s, positions) /\ Picked(s, positions) = g[L]
    BY PickedFilters, Zenon DEF L
<1>5. /\ f \in [0..r -> Seq(S)] /\ f[0] = <<>>
      /\ \A n \in 1..r : f[n] = IF n \in some THEN Append(f[n - 1], t[n]) ELSE f[n - 1]
    BY <1>2, <1>3, Zenon DEF Filters
<1>6. /\ g \in [0..L -> Seq(S)] /\ g[0] = <<>>
      /\ \A n \in 1..L : g[n] = IF n \in positions THEN Append(g[n - 1], s[n]) ELSE g[n - 1]
    BY <1>4, Zenon DEF Filters, L
<1>7. /\ \A n \in 1..r : n \in 1..L /\ n \in 0..r /\ n - 1 \in 0..r
      /\ 0 \in 0..r /\ r \in 0..r
    BY <1>1
<1> DEFINE T == {n \in 0..r : f[n] = g[n]}
<1>8. 0 \in T
    BY <1>5, <1>6, <1>7, Zenon
<1>9. \A n \in 1..r : n - 1 \in T => n \in T
    BY <1>2, <1>5, <1>6, <1>7, Zenon
<1> HIDE DEF T
<1>10. \A n \in 0..r : n \in T
    BY <1>1, <1>8, <1>9, UpTo, Zenon
<1>11. f[r] = g[r]
    BY <1>7, <1>10, Zenon DEF T
<1> DEFINE d == L - r
           a == g[r]
           Starts(q) == Len(a) <= Len(q) /\ \A k \in 1..Len(a) : q[k] = a[k]
           U == {m \in 0..d : Starts(g[r + m])}
<1>12. /\ d \in Nat /\ r + 0 = r /\ r + d = L /\ 0 \in 0..d /\ d \in 0..d
       /\ \A m \in 1..d : r + m \in 1..L /\ (r + m) - 1 = r + (m - 1) /\ m \in 0..d
       /\ \A m \in 0..d : r + m \in 0..L
    BY <1>1 DEF d
<1> HIDE DEF d
<1>13. \A m \in 0..d : g[r + m] \in Seq(S)
    BY <1>6, <1>12, Zenon
<1>14. a \in Seq(S)
    BY <1>12, <1>13, Zenon
<1> HIDE DEF a
<1>15. 0 \in U
  <2>1. Starts(a)
      BY <1>14
  <2> QED
      BY <1>12, <2>1, Zenon DEF a
<1>16. ASSUME NEW m \in 1..d, m - 1 \in U PROVE m \in U
  <2> DEFINE q == g[r + (m - 1)]
  <2>1. Starts(q)
      BY <1>16, Zenon
  <2>2. m - 1 \in 0..d /\ m \in 0..d /\ r + m \in 1..L /\ (r + m) - 1 = r + (m - 1)
      BY <1>12
  <2>3. q \in Seq(S)
      BY <1>13, <2>2, Zenon
  <2>4. g[r + m] = q \/ g[r + m] = Append(q, s[r + m])
      BY <1>6, <2>2, Zenon
  <2> HIDE DEF q
  <2>5. s[r + m] \in S
    <3>1. \A i \in 1..L : s[i] \in S
        BY DEF L
    <3> QED
        BY <2>2, <3>1, Zenon
  <2>6. \A v \in S : Starts(Append(q, v))
    <3> TAKE v \in S
    <3>1. Len(q) \in Nat /\ Len(a) \in Nat
        BY <1>14, <2>3
    <3>2. Len(Append(q, v)) = Len(q) + 1 /\ \A k \in 1..Len(q) : Append(q, v)[k] = q[k]
        BY <2>3, AppendFacts
    <3>3. Len(a) <= Len(q) + 1 /\ \A k \in 1..Len(a) : k \in 1..Len(q)
        BY <2>1, <3>1
    <3> QED
        BY <2>1, <3>2, <3>3, Zenon
  <2>7. Starts(g[r + m])
      BY <2>1, <2>4, <2>5, <2>6, Zenon
  <2> QED
      BY <2>2, <2>7, Zenon
<1> HIDE DEF U
<1>17. \A m \in 0..d : m \in U
    BY <1>12, <1>15, <1>16, UpTo, Zenon
<1>18. Starts(g[L])
    BY <1>12, <1>17, Zenon DEF U
<1>19. g[L] \in Seq(S)
    BY <1>12, <1>13, Zenon
<1>20. Picked(t, some) = a /\ Picked(s, positions) = g[L]
    BY <1>2, <1>3, <1>4, <1>11, Zenon DEF a
<1>21. \A k \in 1..Len(a) : a[k] = g[L][k]
    BY <1>18, Zenon
<1>22. Len(a) <= Len(g[L])
    BY <1>18, Zenon
<1> QED
    BY <1>14, <1>19, <1>20, <1>21, <1>22, Zenon DEF t, StartOf

\* Numbers that only grow, as many as there are, are in their places.
LEMMA GrowingIsIdentity ==
    ASSUME NEW n \in Nat, NEW g \in [1..n -> 1..n], \A i, j \in 1..n : i < j => g[i] < g[j]
    PROVE  \A i \in 1..n : g[i] = i
<1> DEFINE T == {m \in 0..n : m # 0 => g[m] >= m}
           U == {m \in 0..n : m # n => g[n - m] <= n - m}
<1>1. 0 \in T /\ 0 \in U
  <2>1. n # 0 => g[n] <= n
      OBVIOUS
  <2> QED
      BY <2>1
<1>2. ASSUME NEW m \in 1..n, m - 1 \in T PROVE m \in T
  <2>1. g[m] \in Int /\ g[m] >= 1
      OBVIOUS
  <2>2. CASE m = 1
      BY <2>1, <2>2
  <2>3. CASE m # 1
    <3>1. m - 1 \in 1..n /\ m - 1 < m
        BY <2>3
    <3>2. g[m - 1] \in Int /\ g[m - 1] < g[m] /\ g[m - 1] >= m - 1
        BY <1>2, <3>1
    <3> QED
        BY <2>1, <3>2
  <2> QED
      BY <2>2, <2>3
<1>3. ASSUME NEW m \in 1..n, m - 1 \in U PROVE m \in U
  <2>1. CASE m = n
      BY <2>1
  <2>2. CASE m # n
    <3>1. n - m \in 1..n /\ n - (m - 1) \in 1..n /\ n - m < n - (m - 1) /\ m - 1 # n
        BY <2>2
    <3>2. /\ g[n - m] \in Int /\ g[n - (m - 1)] \in Int /\ g[n - m] < g[n - (m - 1)]
          /\ g[n - (m - 1)] <= n - (m - 1)
        BY <1>3, <3>1
    <3> QED
        BY <3>2
  <2> QED
      BY <2>1, <2>2
<1> HIDE DEF T, U
<1>4. (\A m \in 0..n : m \in T) /\ (\A m \in 0..n : m \in U)
    BY <1>1, <1>2, <1>3, UpTo, Zenon
<1> TAKE i \in 1..n
<1>5. i \in 0..n /\ n - i \in 0..n /\ i # 0 /\ n - i # n /\ n - (n - i) = i
    OBVIOUS
<1>6. g[i] >= i
    BY <1>4, <1>5, Zenon DEF T
<1>7. g[i] <= i
  <2>1. g[n - (n - i)] <= n - (n - i)
      BY <1>4, <1>5, Zenon DEF U
  <2> QED
      BY <1>5, <2>1, Zenon
<1> QED
    BY <1>6, <1>7

LEMMA ReadIsStart ==
    ASSUME NEW S, NEW s \in Seq(S)
    PROVE  \E r \in 0..Len(s) : ReadRecords(s) = SubSeq(s, 1, r)
<1> DEFINE L == Len(s)
           Ends1(n) == (\A i \in 1..n : ~Stops(s[i])) /\ (n < L => Stops(s[n + 1]))
           N == {n \in 0..L : n = L \/ Stops(s[n + 1])}
<1>1. L \in Nat
    OBVIOUS
<1> HIDE DEF L
<1>2. N \subseteq Nat /\ L \in N
    BY <1>1
<1>3. PICK n \in N : \A m \in N : n <= m
    BY <1>2, NatMin, Zenon
<1>4. n \in 0..L
    BY Zenon
<1>5. ASSUME NEW i \in 1..n PROVE ~Stops(s[i])
  <2>1. i - 1 \in 0..L /\ (i - 1) + 1 = i /\ ~(n <= i - 1)
      BY <1>1, <1>4
  <2>2. i - 1 \notin N
      BY <1>3, <2>1, Zenon
  <2> QED
      BY <2>1, <2>2, Zenon
<1>6. ASSUME n < L PROVE Stops(s[n + 1])
  <2>1. n # L
      BY <1>1, <1>4, <1>6
  <2> QED
      BY <2>1, Zenon
<1>7. \E k \in 0..L : Ends1(k)
    BY <1>4, <1>5, <1>6, Zenon
<1>8. ReadRecords(s) = SubSeq(s, 1, CHOOSE k \in 0..L : Ends1(k))
    BY Zenon DEF ReadRecords, L
<1>9. (CHOOSE k \in 0..L : Ends1(k)) \in 0..L
    BY <1>7, Zenon
<1> QED
    BY <1>8, <1>9, Zenon DEF L

LEMMA RecordsInOrder ==
    ASSUME NEW i \in Nat, NEW j \in Nat
    PROVE  /\ Before(Record(i), Record(j)) <=> i < j
           /\ Record(i) = Record(j) => i = j
<1> DEFINE a == Record(i)
           b == Record(j)
<1>1. a \in Seq(Nat) /\ b \in Seq(Nat) /\ Len(a) = 2 /\ Len(b) = 2 /\ a[1] = 1 /\ b[1] = 1 /\ a[2] = i /\ b[2] = j
    BY DEF Record
<1>2. a = b => i = j
    BY <1>1, Zenon
<1> HIDE DEF a, b
<1>3. IsBelow(b, a) => FALSE
  <2>2. \A q \in Seq(Nat) : SubSeq(q, 1, Len(q)) = q
      OBVIOUS
  <2>1. SubSeq(b, 1, 2) = b
      BY <1>1, <2>2, Zenon
  <2> QED
      BY <1>1, <2>1, Zenon DEF IsBelow, IsWithin
<1>4. (IF Len(a) < Len(b) THEN Len(a) ELSE Len(b)) = 2
    BY <1>1
<1>5. Before(a, b) <=> \E k \in 1..2 : a[k] < b[k] /\ \A l \in 1..(k - 1) : a[l] = b[l]
    BY <1>3, <1>4, Zenon DEF Before
<1>6. Before(a, b) <=> i < j
  <2>2. 1..2 = {1, 2} /\ ~(1 < 1) /\ 1..(2 - 1) = {1}
      OBVIOUS
  <2> QED
      BY <1>1, <1>5, <2>2, Zenon
<1> QED
    BY <1>2, <1>6, Zenon DEF a, b

\* The objects come in the order of their numbers, whatever the order of the registry's keys.
LEMMA SortedIs == SortedObjects = [i \in 1..MaxRecords |-> Record(i)]
<1> DEFINE M == MaxRecords
           R == Range(ObjectsByKey)
           Sorted(oids) == \A i, j \in 1..M : i < j => Before(oids[i], oids[j])
           id == [i \in 1..M |-> Record(i)]
<1>1. /\ M \in Nat /\ DOMAIN KeyOrder = 1..M /\ \A k \in 1..M : KeyOrder[k] \in 1..M
      /\ \A i \in 1..M : \E k \in 1..M : KeyOrder[k] = i
    BY SnmpAssumption DEF MaxRecords
<1> HIDE DEF M
<1>2. /\ \A i \in 1..M : Record(i) \in R
      /\ \A oid \in R : \E i \in 1..M : oid = Record(i)
  <2>1. R = {Record(KeyOrder[k]) : k \in 1..M}
      BY Zenon DEF ObjectsByKey, Range, M
  <2> QED
      BY <1>1, <2>1, Zenon
<1>3. \A i \in 1..M : i \in Nat
    OBVIOUS
<1>4. id \in [1..M -> R]
    BY <1>2, Zenon
<1>5. Sorted(id)
    BY <1>3, RecordsInOrder, Zenon
<1> DEFINE oids == CHOOSE o \in [1..M -> R] : Sorted(o)
<1>6. oids \in [1..M -> R] /\ Sorted(oids)
    BY <1>4, <1>5, Zenon
<1>7. SortedObjects = oids
    BY Zenon DEF SortedObjects, M
<1> HIDE DEF R, oids, id
<1> DEFINE g == [i \in 1..M |-> CHOOSE k \in 1..M : oids[i] = Record(k)]
<1>8. \A i \in 1..M : g[i] \in 1..M /\ oids[i] = Record(g[i])
    BY <1>2, <1>6, Zenon
<1>9. g \in [1..M -> 1..M]
    BY <1>8, Zenon
<1> HIDE DEF g
<1>10. ASSUME NEW i \in 1..M, NEW j \in 1..M, i < j PROVE g[i] < g[j]
  <2>1. Before(Record(g[i]), Record(g[j])) /\ g[i] \in Nat /\ g[j] \in Nat
      BY <1>3, <1>6, <1>8, <1>10, Zenon
  <2> QED
      BY <2>1, RecordsInOrder, Zenon
<1>11. \A i \in 1..M : g[i] = i
    BY <1>1, <1>9, <1>10, GrowingIsIdentity, Zenon
<1>12. oids = [i \in 1..M |-> Record(i)]
  <2>1. \A i \in 1..M : oids[i] = Record(i)
      BY <1>8, <1>11, Zenon
  <2>2. oids = [i \in 1..M |-> oids[i]]
      BY <1>6, Zenon
  <2> QED
      BY <2>1, <2>2, Zenon
<1> QED
    BY <1>7, <1>12, Zenon DEF M

AreValues(values, taken) ==
    values = [i \in DOMAIN taken |-> taken[i].of] /\ DOMAIN values = 1..Len(taken) /\ Len(values) = Len(taken)

\* What is kept of a filter's choice.
LEMMA ValuesOf ==
    ASSUME NEW S, NEW s \in Seq(S), NEW key
    PROVE  AreValues(Values(s, key), Picked(s, {i \in DOMAIN s : s[i].key = key}))
<1> DEFINE taken == Picked(s, {i \in DOMAIN s : s[i].key = key})
<1>1. Values(s, key) = [i \in DOMAIN taken |-> taken[i].of]
    BY Zenon DEF Values
<1>2. PICK places : Picks(taken, places, S, s, {i \in DOMAIN s : s[i].key = key}, Len(s))
    BY PickedIs, Zenon
<1>3. taken \in Seq(S)
    BY <1>2, Zenon DEF Picks
<1> HIDE DEF taken
<1>4. Len(taken) \in Nat /\ DOMAIN taken = 1..Len(taken)
    BY <1>3
<1> DEFINE V == {taken[i].of : i \in DOMAIN taken}
<1>5. Values(s, key) \in [1..Len(taken) -> V]
    BY <1>1, <1>4, Zenon
<1> HIDE DEF V
<1>6. Len(Values(s, key)) = Len(taken)
    BY <1>4, <1>5
<1> QED
    BY <1>1, <1>4, <1>5, <1>6, Zenon DEF taken, AreValues

\* The values read first are the first values.
LEMMA ValuesStart ==
    ASSUME NEW S, NEW s \in Seq(S), NEW key
    PROVE  LET a == Values(ReadRecords(s), key)
               b == Values(s, key)
           IN  /\ DOMAIN a = 1..Len(a) /\ DOMAIN b = 1..Len(b) /\ Len(a) \in Nat /\ Len(b) \in Nat
               /\ Len(a) <= Len(b) /\ \A k \in 1..Len(a) : a[k] = b[k]
<1> DEFINE a == Values(ReadRecords(s), key)
           b == Values(s, key)
<1>1. PICK r \in 0..Len(s) : ReadRecords(s) = SubSeq(s, 1, r)
    BY ReadIsStart, Zenon
<1> DEFINE t == SubSeq(s, 1, r)
<1>2. t \in Seq(S) /\ DOMAIN t = 1..r /\ DOMAIN s = 1..Len(s) /\ (\A i \in 1..r : t[i] = s[i] /\ i \in 1..Len(s))
    OBVIOUS
<1> HIDE DEF t
<1> DEFINE P == {i \in DOMAIN t : t[i].key = key}
           Q == {i \in DOMAIN s : s[i].key = key}
<1>3. \A i \in 1..r : i \in P <=> i \in Q
    BY <1>2, Zenon
<1> HIDE DEF P, Q
<1> DEFINE p == Picked(t, P)
           q == Picked(s, Q)
<1>4. p \in Seq(S) /\ q \in Seq(S) /\ Len(p) <= Len(q) /\ \A k \in 1..Len(p) : p[k] = q[k]
  <2>1. StartOf(Picked(SubSeq(s, 1, r), P), q, S)
      BY <1>3, PickedStart, Zenon
  <2> QED
      BY <2>1, Zenon DEF StartOf, t
<1>5. a = [i \in DOMAIN p |-> p[i].of] /\ DOMAIN a = 1..Len(p) /\ Len(a) = Len(p)
  <2>1. AreValues(Values(t, key), p)
      BY <1>2, ValuesOf, Zenon DEF P
  <2> QED
      BY <1>1, <2>1, Zenon DEF AreValues, t
<1>6. b = [i \in DOMAIN q |-> q[i].of] /\ DOMAIN b = 1..Len(q) /\ Len(b) = Len(q)
  <2>1. AreValues(b, q)
      BY ValuesOf, Zenon DEF Q
  <2> QED
      BY <2>1, Zenon DEF AreValues
<1> HIDE DEF p, q, a, b
<1>7. Len(p) \in Nat /\ Len(q) \in Nat /\ DOMAIN p = 1..Len(p) /\ DOMAIN q = 1..Len(q)
      /\ \A k \in 1..Len(p) : k \in 1..Len(q)
    BY <1>4
<1>8. \A k \in 1..Len(p) : a[k] = b[k]
    BY <1>4, <1>5, <1>6, <1>7, Zenon
<1> QED
    BY <1>4, <1>5, <1>6, <1>7, <1>8, Zenon DEF a, b

Bindings(O) == {[oid |-> oid, value |-> ValueOf(oid)] : oid \in O \cup {Serial}}

\* Every binding of an answer has what the agent has for its object.
LEMMA AnswersAreTrue ==
    ASSUME NEW oids, NEW n \in Nat, NEW O, oids \in [1..n -> O], NEW varbinds \in Answers(oids)
    PROVE  /\ varbinds \in Seq(Bindings(O)) /\ DOMAIN varbinds = 1..Len(varbinds)
           /\ \A i \in 1..Len(varbinds) : varbinds[i].value = ValueOf(varbinds[i].oid)
<1> DEFINE binding(oid) == [oid |-> oid, value |-> ValueOf(oid)]
           B == Bindings(O)
           bound == [i \in DOMAIN oids |-> [oid |-> oids[i], value |-> ValueOf(oids[i])]]
           reversed == [i \in DOMAIN bound |-> bound[Len(bound) + 1 - i]]
           shortened == SubSeq(bound, 1, Len(bound) - 1)
           longer == Append(bound, [oid |-> Serial, value |-> ValueOf(Serial)])
<1>1. varbinds \in {bound, reversed, shortened, longer}
    BY Zenon DEF Answers
<1>2. ASSUME NEW b \in B PROVE b.value = ValueOf(b.oid)
  <2>1. PICK oid : b = [oid |-> oid, value |-> ValueOf(oid)]
      BY Zenon DEF Bindings
  <2>2. b.oid = oid /\ b.value = ValueOf(oid)
      BY <2>1
  <2> QED
      BY <2>2, Zenon
<1>3. /\ \A oid \in O : binding(oid) \in B
      /\ [oid |-> Serial, value |-> ValueOf(Serial)] \in B
    BY Zenon DEF Bindings
<1>4. \A i \in 1..n : bound[i] = binding(oids[i]) /\ oids[i] \in O
    BY Zenon
<1>5. DOMAIN bound = 1..n /\ \A i \in 1..n : bound[i] \in B
    BY <1>3, <1>4, Zenon
<1>6. bound \in [1..n -> B]
  <2>1. bound = [i \in 1..n |-> bound[i]]
      BY Zenon
  <2> HIDE DEF bound, B
  <2> QED
      BY <1>5, <2>1, Zenon
<1> HIDE DEF bound, B, binding
<1>7. bound \in Seq(B) /\ Len(bound) = n
    BY <1>6
<1>8. reversed \in Seq(B)
  <2>1. \A i \in 1..n : n + 1 - i \in 1..n
      OBVIOUS
  <2>2. \A i \in 1..n : bound[n + 1 - i] \in B
      BY <1>5, <2>1, Zenon
  <2>3. reversed = [i \in 1..n |-> bound[n + 1 - i]]
      BY <1>5, <1>7, Zenon
  <2> HIDE DEF reversed
  <2>4. reversed \in [1..n -> B]
      BY <2>2, <2>3, Zenon
  <2> QED
      BY <2>4
<1>9. shortened \in Seq(B) /\ longer \in Seq(B)
  <2>1. shortened \in Seq(B)
      BY <1>7
  <2>2. longer \in Seq(B)
      BY <1>3, <1>7, AppendFacts, Zenon
  <2> QED
      BY <2>1, <2>2
<1>10. \A q \in Seq(B) : DOMAIN q = 1..Len(q) /\ \A i \in 1..Len(q) : q[i] \in B
    OBVIOUS
<1>11. varbinds \in Seq(B)
    BY <1>1, <1>7, <1>8, <1>9, Zenon
<1>12. DOMAIN varbinds = 1..Len(varbinds) /\ \A i \in 1..Len(varbinds) : varbinds[i] \in B
    BY <1>10, <1>11, Zenon
<1> QED
    BY <1>2, <1>11, <1>12, Zenon DEF B

\* What may be in the table.
Tables == Records \cup {[key |-> "absent"], [key |-> "large"], [key |-> "plain"]}

\* The value of a record is what the table has in its place.
LEMMA ValueOfRecord ==
    ASSUME table \in [1..MaxRecords -> Tables], NEW i \in 1..MaxRecords
    PROVE  ValueOf(Record(i)) = table[i]
<1>1. table[i] \in Tables
    BY Zenon
<1>2. table[i].key = "absent" => table[i] = [key |-> "absent"]
    BY <1>1, SnmpAssumption DEF Tables
<1>3. Record(i) \in Registered \ {Serial} /\ Record(i)[2] = i
  <2>1. MaxRecords \in Nat
      BY SnmpAssumption DEF MaxRecords
  <2>2. Record(i) \in Registered
      BY Zenon DEF Registered
  <2>3. Record(i)[2] = i /\ Serial[2] = MaxRecords + 1
      BY DEF Record, Serial
  <2>4. i # MaxRecords + 1
      BY <2>1
  <2> QED
      BY <2>2, <2>3, <2>4, Zenon
<1>4. table[i].key # "absent" => Record(i) \in Present
    BY Zenon DEF Present
<1> QED
    BY <1>2, <1>3, <1>4, Zenon DEF ValueOf

\* An inventory is made of the records in the table.
LEMMA InventoryIsOfTable ==
    ASSUME table \in [1..MaxRecords -> Tables], NEW varbinds \in Answers(SortedObjects),
           Len(varbinds) = Len(SortedObjects), \A i \in DOMAIN varbinds : varbinds[i].oid = SortedObjects[i]
    PROVE  Inventory(varbinds).components = Components(table)
<1> DEFINE M == MaxRecords
           O == {Record(i) : i \in 1..M}
<1>1. M \in Nat
    BY SnmpAssumption DEF MaxRecords
<1>2. SortedObjects = [i \in 1..M |-> Record(i)]
    BY SortedIs, Zenon
<1>3. SortedObjects \in [1..M -> O] /\ \A i \in 1..M : SortedObjects[i] = Record(i)
    BY <1>2, Zenon
<1> HIDE DEF M, O
<1>4. Len(SortedObjects) = M
    BY <1>1, <1>3
<1>5. /\ DOMAIN varbinds = 1..M
      /\ \A i \in 1..M : varbinds[i].value = ValueOf(varbinds[i].oid)
    BY <1>1, <1>3, <1>4, AnswersAreTrue, Zenon
<1>6. \A i \in 1..M : varbinds[i].oid = Record(i) /\ varbinds[i].value = table[i]
    BY <1>3, <1>5, ValueOfRecord, Zenon DEF M
<1> DEFINE records == [i \in DOMAIN varbinds |->
                          IF varbinds[i].oid = Record(i) THEN varbinds[i].value ELSE [key |-> "wrong"]]
<1>7. records = table
  <2>1. records = [i \in 1..M |-> table[i]]
      BY <1>5, <1>6, Zenon
  <2>2. table = [i \in 1..M |-> table[i]]
      BY Zenon DEF M
  <2> QED
      BY <2>1, <2>2, Zenon
<1>8. Inventory(varbinds) = [status |-> "ok", components |-> Components(records),
                             model |-> Singular(Values(ReadRecords(records), "MODEL"))]
    BY Zenon DEF Inventory
<1> HIDE DEF records
<1>9. Inventory(varbinds).components = Components(records)
    BY <1>8
<1> QED
    BY <1>7, <1>9, Zenon

\* What Components makes of a table in which every identifier has its version.
LEMMA ComponentsAreOwn ==
    ASSUME NEW S, NEW s \in Seq(S), Values(s, "FIRMID") = Values(s, "FIRMVER")
    PROVE  /\ Components(s).status = "observed" =>
                  LET pairs == Components(s).pairs
                  IN  /\ \A i \in DOMAIN pairs : pairs[i] = <<Values(s, "FIRMID")[i], Values(s, "FIRMID")[i]>>
                      /\ Len(pairs) = Len(Values(ReadRecords(s), "FIRMID"))
           /\ ~Malformed(s) /\ ReadRecords(s) = s /\ Values(s, "FIRMID") # <<>> =>
                  /\ Components(s).status = "observed"
                  /\ Len(Components(s).pairs) = Len(Values(s, "FIRMID"))
<1> DEFINE read == ReadRecords(s)
           ids == Values(read, "FIRMID")
           versions == Values(read, "FIRMVER")
           all == Values(s, "FIRMID")
           pairs == [i \in DOMAIN ids |-> <<ids[i], versions[i]>>]
           bad == Malformed(s)
           c == Components(s)
<1>1. c = CASE bad \/ Len(ids) # Len(versions) -> [status |-> "malformed"]
            [] ~bad /\ ids = <<>> /\ versions = <<>> -> [status |-> "missing"]
            [] OTHER -> [status |-> "observed", pairs |-> pairs]
    BY Zenon DEF Components
<1>2. /\ DOMAIN ids = 1..Len(ids) /\ Len(ids) \in Nat /\ Len(ids) <= Len(all)
      /\ \A k \in 1..Len(ids) : ids[k] = all[k]
    BY ValuesStart, Zenon
<1>3. /\ DOMAIN versions = 1..Len(versions) /\ Len(versions) \in Nat
      /\ \A k \in 1..Len(versions) : versions[k] = all[k]
  <2>1. /\ DOMAIN versions = 1..Len(versions) /\ Len(versions) \in Nat
        /\ \A k \in 1..Len(versions) : versions[k] = Values(s, "FIRMVER")[k]
      BY ValuesStart, Zenon
  <2> QED
      BY <2>1, Zenon
<1>4. Len(pairs) = Len(ids) /\ DOMAIN pairs = 1..Len(ids) /\ \A i \in 1..Len(ids) : pairs[i] = <<ids[i], versions[i]>>
  <2> DEFINE V == {<<ids[i], versions[i]>> : i \in DOMAIN ids}
  <2>1. pairs \in [1..Len(ids) -> V] /\ \A i \in 1..Len(ids) : pairs[i] = <<ids[i], versions[i]>>
      BY <1>2, Zenon
  <2> HIDE DEF pairs, V, ids, versions
  <2>2. Len(pairs) = Len(ids) /\ DOMAIN pairs = 1..Len(ids)
      BY <1>2, <2>1
  <2> QED
      BY <2>1, <2>2, Zenon
<1> HIDE DEF c, pairs, ids, versions, bad, all
<1>5. ASSUME c.status = "observed"
      PROVE  /\ \A i \in DOMAIN c.pairs : c.pairs[i] = <<all[i], all[i]>>
             /\ Len(c.pairs) = Len(ids)
  <2>1. c.pairs = pairs /\ Len(ids) = Len(versions)
      BY <1>1, <1>5, SMT
  <2> QED
      BY <1>2, <1>3, <1>4, <2>1, Zenon
<1>6. ASSUME ~bad, read = s, all # <<>>
      PROVE  c.status = "observed" /\ Len(c.pairs) = Len(all)
  <2>1. ids = all /\ versions = all
      BY <1>6, Zenon DEF ids, versions, all
  <2>2. c = [status |-> "observed", pairs |-> pairs]
      BY <1>1, <1>6, <2>1, SMT
  <2>3. c.status = "observed" /\ c.pairs = pairs
      BY <2>2
  <2> QED
      BY <1>4, <2>1, <2>3, Zenon
<1> QED
    BY <1>5, <1>6, Zenon DEF c, all, ids, bad, read

\* What a call that takes the inventory of the firmware returns is what the table has.
FirmwareInv ==
    /\ table \in [1..MaxRecords -> Tables]
    /\ call.op = "firmware" =>
           /\ write = "none"
           /\ outcome.status = "ok" => outcome.components = Components(table)

LEMMA FirmwareInvNext ==
    ASSUME FirmwareInv, [SnmpNext]_snmp
    PROVE  FirmwareInv'
<1> USE DEF Refuses, Ends
<1>0. SUFFICES ASSUME call.op = "firmware"
               PROVE  FirmwareInv'
  <2>1. call' = call /\ table' = table
      BY Zenon DEF SnmpNext, SnmpClientStep, StartWalk, StartRead, StartSet, SendDatagram, NoAnswer, ReadFailed,
                   ReadAnswered, WalkAnswered, WriteAnswered, WriteArrives, snmp
  <2> QED
      BY <2>1, Zenon DEF FirmwareInv
<1>1. write = "none" /\ table \in [1..MaxRecords -> Tables]
    BY <1>0, Zenon DEF FirmwareInv
<1>2. CASE /\ UNCHANGED <<call, table, write>>
           /\ outcome' = outcome \/ \E status : status # "ok" /\ outcome' = [status |-> status]
  <2>1. CASE outcome' = outcome
      BY <1>2, <2>1, Zenon DEF FirmwareInv
  <2>2. CASE \E status : status # "ok" /\ outcome' = [status |-> status]
    <3>1. outcome'.status # "ok"
        BY <2>2
    <3> QED
        BY <1>1, <1>2, <3>1 DEF FirmwareInv
  <2> QED
      BY <1>2, <2>1, <2>2
<1>3. CASE StartWalk \/ StartSet \/ WalkAnswered \/ WriteAnswered \/ WriteArrives
    BY <1>0, <1>1, <1>3 DEF StartWalk, StartSet, WalkAnswered, WriteAnswered, WriteArrives
<1>4. CASE StartRead
    BY <1>2, <1>4 DEF StartRead
<1>5. CASE SendDatagram
    BY <1>0, <1>2, <1>5 DEF SendDatagram
<1>6. CASE NoAnswer
    BY <1>0, <1>2, <1>6 DEF NoAnswer
<1>7. CASE ReadFailed
    BY <1>2, <1>7 DEF ReadFailed
<1>8. CASE ReadAnswered
  <2>1. PICK varbinds \in Answers(SortedObjects) :
            \/ \E status : status # "ok" /\ outcome' = [status |-> status]
            \/ Answered(varbinds) /\ outcome' = Inventory(varbinds)
    <3>1. Requested = SortedObjects
        BY <1>0, Zenon DEF Requested
    <3>2. PICK varbinds \in Answers(SortedObjects) :
              CASE ~Answered(varbinds) -> Refuses("malformed")
                [] Answered(varbinds) /\ TooLarge(Requested) -> Refuses("too_large")
                [] OTHER -> Ends(IF call.op = "property" THEN Converted(varbinds[1]) ELSE Inventory(varbinds))
        BY <1>8, <3>1, Zenon DEF ReadAnswered
    <3>3. \/ outcome' = [status |-> "malformed"]
          \/ outcome' = [status |-> "too_large"]
          \/ Answered(varbinds) /\ outcome' = Inventory(varbinds)
        BY <1>0, <3>2
    <3> QED
        BY <3>3
  <2>2. UNCHANGED <<call, table, write>>
      BY <1>8, Zenon DEF ReadAnswered
  <2>3. CASE Answered(varbinds) /\ outcome' = Inventory(varbinds)
    <3>1. Requested = SortedObjects
        BY <1>0, Zenon DEF Requested
    <3>2. outcome'.components = Components(table)
        BY <1>1, <2>3, <3>1, InventoryIsOfTable, Zenon DEF Answered
    <3>3. table' = table /\ write' = write /\ call' = call
        BY <2>2
    <3> QED
        BY <1>1, <3>2, <3>3, Zenon DEF FirmwareInv
  <2> QED
      BY <1>2, <2>1, <2>2, <2>3, Zenon
<1>9. CASE UNCHANGED snmp
    BY <1>2, <1>9 DEF snmp
<1> QED
    BY <1>3, <1>4, <1>5, <1>6, <1>7, <1>8, <1>9, Zenon DEF SnmpNext, SnmpClientStep

LEMMA FirmwareInvInit == SnmpInit => FirmwareInv
<1> SUFFICES ASSUME SnmpInit PROVE FirmwareInv
    OBVIOUS
<1>1. write = "none" /\ outcome = [status |-> "none"]
    BY Zenon DEF SnmpInit
<1>2. outcome.status # "ok"
    BY <1>1
<1>3. table \in [1..MaxRecords -> Tables]
  <2>1. CASE table \in [1..MaxRecords -> Records]
      BY <2>1 DEF Tables
  <2> DEFINE some == {[i \in 1..MaxRecords |-> IF i \in gone THEN [key |-> "absent"] ELSE record]
                       : record \in Records \cup {[key |-> "large"], [key |-> "plain"]}, gone \in {{}, {1, 3}}}
  <2>2. table \in [1..MaxRecords -> Records] \/ table \in some
    <3>1. table \in IF call.op = "firmware" /\ call.qualified /\ call.limits = "wide" /\ honest
                     THEN [1..MaxRecords -> Records] ELSE some
        BY SMT DEF SnmpInit
    <3> HIDE DEF some
    <3> QED
        BY <3>1, SMT
  <2>3. CASE table \in some
    <3>1. PICK record \in Records \cup {[key |-> "large"], [key |-> "plain"]}, gone \in {{}, {1, 3}} :
              table = [i \in 1..MaxRecords |-> IF i \in gone THEN [key |-> "absent"] ELSE record]
        BY <2>3
    <3> HIDE DEF some
    <3>2. record \in Tables /\ [key |-> "absent"] \in Tables
        BY Zenon DEF Tables
    <3> QED
        BY <3>1, <3>2, Zenon
  <2> HIDE DEF some
  <2> QED
      BY <2>1, <2>2, <2>3, Zenon
<1> QED
    BY <1>1, <1>2, <1>3, Zenon DEF FirmwareInv

LEMMA InventoriesAreOwn == FirmwareInv => FirmwareIsOwn
<1> SUFFICES ASSUME FirmwareInv, call.op = "firmware", outcome.status = "ok",
                    Values(table, "FIRMID") = Values(table, "FIRMVER")
             PROVE  FirmwareIsOwn
    BY Zenon DEF FirmwareIsOwn
<1>1. outcome.components = Components(table) /\ table \in [1..MaxRecords -> Tables]
    BY Zenon DEF FirmwareInv
<1>2. table \in Seq(Tables)
  <2>1. MaxRecords \in Nat
      BY SnmpAssumption DEF MaxRecords
  <2> QED
      BY <1>1, <2>1
<1> QED
    BY <1>1, <1>2, ComponentsAreOwn, Zenon DEF FirmwareIsOwn

\* What a successful read reports is what the agent has, for any table, order of keys and limits:
\* a walk, whatever the agent answers, and an inventory, in which each identifier has its version.
THEOREM ReadsAreTrue == SnmpSpec => []ReadsAreTruthful
<1>1. SnmpSpec => []FirmwareInv
    BY FirmwareInvInit, FirmwareInvNext, PTL DEF SnmpSpec
<1>2. FirmwareInv => FirmwareIsOwn
    BY InventoriesAreOwn
<1>3. WalkIsComplete /\ FirmwareIsOwn => ReadsAreTruthful
    BY DEF ReadsAreTruthful
<1> QED
    BY <1>1, <1>2, <1>3, WalksAreComplete, PTL
=============================================================================
