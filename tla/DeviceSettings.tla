--------------------------- MODULE DeviceSettings ---------------------------
(***************************************************************************)
(* retrieve_device_settings: drain what a printer said earlier, ask for its *)
(* status, compare its identity with the selected model, enter settings    *)
(* mode, ask for each setting and leave settings mode.  Answers carry no    *)
(* identifier: only their place in the stream and their length tell what    *)
(* they answer.  Sessions follow each other over one transport, and a slow  *)
(* printer answers a session that is over.                                 *)
(*                                                                         *)
(* A byte is the query and the session it answers and its place in the     *)
(* answer.  What a printer sent and the host has not read is the wire.     *)
(***************************************************************************)
EXTENDS Integers, Sequences

CONSTANTS
    Settings,     \* BrotherModelProfile::settings, a sequence of queries
    Size,         \* response_size of each query, and of "status"
    MaxDrain,     \* MAX_DRAIN_BYTES
    MaxSessions   \* bound on the sessions

Queries == {Settings[i] : i \in 1..Len(Settings)}

\* The commands that are no queries have no answers.
ASSUME SettingsAssumption ==
    /\ Settings \in Seq(Queries) /\ {"enter", "exit"} \cap Queries = {}
    /\ Size \in [Queries \cup {"status"} -> Nat \ {0}]
    /\ MaxDrain \in Nat /\ MaxSessions \in Nat

VARIABLES
    pc,           \* the await the session is at, or "idle"
    session,      \* the number of the session
    drained,      \* bytes drained
    response,     \* the bytes of the answer being read
    observations, \* the raw responses observed, <<>> for an error
    identity,     \* "selected" or "other": the model of the printer
    mode,         \* "normal" or "settings"
    commands,     \* commands the printer has and has not carried out: [name, session]
    wire,         \* bytes the printer sent
    quiet,        \* history: nothing was under way when the drain ended
    enteredBy,    \* history: the session whose command put the printer in settings mode
    troubled      \* history: the sessions that were abandoned or had a write fail

client == <<pc, session, drained, response, observations, quiet, troubled>>
printer == <<identity, mode, enteredBy>>
vars == <<client, printer, commands, wire>>

Init ==
    /\ pc = "idle" /\ session = 0 /\ drained = 0
    /\ response = <<>> /\ observations = <<>>
    /\ identity \in {"selected", "other"}
    /\ mode = "normal" /\ commands = <<>> /\ wire = <<>>
    /\ quiet = TRUE /\ enteredBy = 0 /\ troubled = {}

-----------------------------------------------------------------------------
(* The session *)

Begin ==
    /\ pc = "idle"
    /\ session < MaxSessions
    /\ session' = session + 1
    /\ pc' = "drain" /\ drained' = 0 /\ response' = <<>> /\ observations' = <<>>
    /\ UNCHANGED <<quiet, troubled, printer, commands, wire>>

\* drain_stale_responses: one wait_response that returned a piece of n bytes.  Over USB a piece
\* may be empty, and the draining goes on.
DrainPiece(n) ==
    /\ pc = "drain"
    /\ wire' = SubSeq(wire, n + 1, Len(wire))
    /\ drained' = drained + n
    /\ pc' = IF drained + n > MaxDrain THEN "idle" ELSE "drain"
    /\ UNCHANGED <<session, response, observations, quiet, troubled, printer, commands>>

\* A wait that timed out ends the draining, one that failed the session.
DrainEnds ==
    /\ pc = "drain"
    /\ pc' \in {"sendStatus", "idle"}
    /\ quiet' = (commands = <<>> /\ wire = <<>>)
    /\ UNCHANGED <<session, drained, response, observations, troubled, printer, commands, wire>>

Asked == IF pc = "status" THEN "status" ELSE Settings[Len(observations) + 1]

\* Where the session goes on after its observations so far.
NextQuery(done) == IF Len(done) = Len(Settings) THEN "exit" ELSE "query"

\* write_command: the printer gets the command, or the write fails, perhaps although
\* the printer gets it.  A command over the transport's limit is a write that fails.
Write(name, written, failed) ==
    /\ \/ /\ commands' = Append(commands, [name |-> name, session |-> session])
          /\ \/ pc' = written /\ UNCHANGED troubled
             \/ pc' = failed /\ troubled' = troubled \cup {session}
       \/ /\ UNCHANGED commands
          /\ pc' = failed /\ troubled' = troubled \cup {session}
    /\ response' = <<>>

SendStatus ==
    /\ pc = "sendStatus"
    /\ Write("status", "status", "idle")
    /\ UNCHANGED <<session, drained, observations, quiet, printer, wire>>

Enter ==
    /\ pc = "enter"
    /\ Write("enter", NextQuery(<<>>), "idle")
    /\ UNCHANGED <<session, drained, observations, quiet, printer, wire>>

\* A query that cannot be written is observed as an error, and no other is sent.
Query ==
    /\ pc = "query"
    /\ Write(Asked, "answer", "exit")
    /\ observations' = IF pc' = "exit" THEN Append(observations, <<>>) ELSE observations
    /\ UNCHANGED <<session, drained, quiet, printer, wire>>

\* Mutant of ReadFails: the loop goes on with the next setting.
ReadFailsAndGoesOn ==
    IF pc = "status"
    THEN pc' = "idle" /\ UNCHANGED observations
    ELSE /\ observations' = Append(observations, <<>>)
         /\ pc' = NextQuery(observations')

\* Mutant of ReadFails: the session returns without leaving settings mode.
ReadFailsAndReturns ==
    /\ pc' = "idle"
    /\ observations' = IF pc = "status" THEN observations ELSE Append(observations, <<>>)

\* An answer that cannot be had ends the session, after leaving settings mode.
ReadFails ==
    IF pc = "status"
    THEN pc' = "idle" /\ UNCHANGED observations
    ELSE pc' = "exit" /\ observations' = Append(observations, <<>>)

\* The identity is read from the place of the status frame, whatever frame is there.
Identified(bytes, next) ==
    IF bytes[1].of = "status"
    THEN next = IF identity = "selected" THEN "enter" ELSE "idle"
    ELSE next \in {"enter", "idle"}

\* read_exact_response: a piece of n bytes; when it is too long, or the deadline has
\* passed and bytes are missing, the read fails.
ReadPiece(n) ==
    /\ pc \in {"status", "answer"}
    /\ LET bytes == response \o SubSeq(wire, 1, n)
       IN  /\ wire' = SubSeq(wire, n + 1, Len(wire))
           /\ \/ /\ Len(bytes) # Size[Asked]
                 /\ ReadFails
                 /\ response' = <<>>
              \/ /\ Len(bytes) < Size[Asked]
                 /\ response' = bytes
                 /\ UNCHANGED <<pc, observations>>
              \/ /\ Len(bytes) = Size[Asked]
                 /\ IF pc = "status"
                    THEN Identified(bytes, pc') /\ UNCHANGED observations
                    ELSE /\ observations' = Append(observations, bytes)
                         /\ pc' = NextQuery(observations')
                 /\ response' = <<>>
    /\ UNCHANGED <<session, drained, quiet, troubled, printer, commands>>

\* Mutant of ReadEnds: a wait that timed out is tried again.
ReadEndsByWaiting ==
    /\ pc \in {"status", "answer"}
    /\ UNCHANGED vars

\* wait_response timed out or failed.
ReadEnds ==
    /\ pc \in {"status", "answer"}
    /\ ReadFails
    /\ response' = <<>>
    /\ UNCHANGED <<session, drained, quiet, troubled, printer, commands, wire>>

Exit ==
    /\ pc = "exit"
    /\ Write("exit", "idle", "idle")
    /\ UNCHANGED <<session, drained, observations, quiet, printer, wire>>

\* The caller drops the future at an await; a write that was begun may be carried out.
Abandon ==
    /\ pc # "idle"
    /\ pc' = "idle"
    /\ troubled' = troubled \cup {session}
    /\ commands' \in {commands} \cup
           {Append(commands, [name |-> c, session |-> session]) :
                c \in CASE pc = "sendStatus" -> {"status"} [] pc = "enter" -> {"enter"}
                        [] pc = "query" -> {Asked} [] pc = "exit" -> {"exit"} [] OTHER -> {}}
    /\ UNCHANGED <<session, drained, response, observations, quiet, printer, wire>>

-----------------------------------------------------------------------------
(* The printer *)

\* The next command is carried out; a query may stay without an answer.
CarryOut ==
    /\ commands # <<>>
    /\ commands' = Tail(commands)
    /\ LET c == Head(commands)
           answer == IF c.name \in DOMAIN Size
                     THEN [i \in 1..Size[c.name] |-> [of |-> c.name, session |-> c.session, at |-> i]]
                     ELSE <<>>
       IN  /\ wire' \in {wire, wire \o answer}
           /\ mode' = CASE c.name = "enter" -> "settings" [] c.name = "exit" -> "normal" [] OTHER -> mode
           /\ enteredBy' = IF c.name = "enter" THEN c.session ELSE enteredBy
    /\ UNCHANGED <<client, identity>>

\* The ends of a wait for the printer.
Reads ==
    \/ \E n \in 0..Len(wire) : DrainPiece(n) \/ ReadPiece(n)
    \/ DrainEnds \/ ReadEnds

\* The ends that time brings about: a printer need not send an empty piece.
TimedReads ==
    \/ \E n \in 1..Len(wire) : DrainPiece(n) \/ ReadPiece(n)
    \/ DrainEnds \/ ReadEnds

\* The ends of a write.
Writes == SendStatus \/ Enter \/ Query \/ Exit

Session == Reads \/ Writes

Next == Begin \/ Session \/ Abandon \/ CarryOut

SettingsSpec == Init /\ [][Next]_vars

-----------------------------------------------------------------------------

IsOwn(bytes, i) == \A k \in 1..Len(bytes) : bytes[k] = [of |-> Settings[i], session |-> session, at |-> k]

\* When nothing of an earlier session was under way as the drain ended, an observation
\* is the whole answer to its own query, although answers are late, split or missing.
OwnAnswers ==
    quiet => \A i \in 1..Len(observations) : IsOwn(observations[i], i)

\* The printer stays in settings mode after a session only if a write of the session
\* that put it there failed or its caller went away.
LeavesSettingsMode ==
    pc = "idle" /\ commands = <<>> /\ mode = "settings" => enteredBy \in troubled
=============================================================================
