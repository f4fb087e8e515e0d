-------------------------- MODULE WirelessSettings --------------------------
(***************************************************************************)
(* The retrieval of a Brother printer's wireless settings as text, one      *)
(* query for each field: retrieve_wireless_settings on one transport,       *)
(* retrieve_wireless_settings_with on a transport of its own for each       *)
(* field, and retrieve_wireless_setting, which drains it first.            *)
(*                                                                         *)
(* A reply is a line of information, the name of its field, a value and the *)
(* end of the line; the status that was asked for follows it.  The stream   *)
(* is cut into pieces anywhere between these parts.                         *)
(***************************************************************************)
EXTENDS Integers, Sequences, Functions

CONSTANTS
    Fields,        \* WirelessField::ALL, a sequence
    Kind,          \* how the value of a field is decoded: "text", "number" or "address"
    MaxAttempts,   \* MAX_ATTEMPTS
    MaxBuffer,     \* MAX_RESPONSE_BYTES
    MaxStale,      \* MAX_DRAIN_BYTES
    MaxPiece       \* the most parts one read returns (a bound)

ASSUME WirelessAssumption ==
    /\ Fields \in Seq(Range(Fields)) /\ Fields # <<>>
    /\ MaxAttempts \in Nat \ {0} /\ MaxBuffer \in Nat /\ MaxStale \in Nat /\ MaxPiece \in Nat

VARIABLES
    adapter,    \* "shared", "fresh" or "drained": the function that retrieves
    step,       \* the await the retrieval is at
    attempt,    \* attempts begun for the field
    buffer,     \* the response read so far
    stale,      \* what was drained
    found,      \* the observations: the value as read, or <<>> and an error
    asked,      \* queries the printer has and has not answered
    stream,     \* what the printer sent and the host has not read
    leftover    \* history: an earlier retrieval's reply could still arrive at the first query

wireless == <<adapter, step, attempt, buffer, stale, found, asked, stream, leftover>>

\* A query of an earlier retrieval has the attempt 0.
QueryOf(f, n) == [field |-> f, attempt |-> n]

Reply(q) ==
    <<[part |-> "info"], [part |-> "name", field |-> q.field], [part |-> "value", query |-> q, at |-> 1],
      [part |-> "value", query |-> q, at |-> 2], [part |-> "end"], [part |-> "status"]>>

WirelessInit ==
    /\ adapter \in {"shared", "fresh", "drained"}
    /\ step = "open" /\ attempt = 0 /\ buffer = <<>> /\ stale = 0 /\ found = <<>>
    /\ \E f \in Range(Fields) : \/ stream = <<>> /\ asked \in {<<>>, <<QueryOf(f, 0)>>}
                                \/ stream = Reply(QueryOf(f, 0)) /\ asked = <<>>
    /\ leftover = (stream # <<>> \/ asked # <<>>)

Field == Fields[Len(found) + 1]

\* The observation of a field ends with a value or an error.
Observe(value, error) ==
    /\ found' = Append(found, [value |-> value, error |-> error])
    /\ step' = IF Len(found') = Len(Fields) THEN "done" ELSE IF adapter = "shared" THEN "write" ELSE "open"
    /\ attempt' = 0 /\ buffer' = <<>>

\* The field could not be read.
Failed == Observe(<<>>, TRUE)

-----------------------------------------------------------------------------
(* The parser *)

\* Where a line of the text starts.
LineStart(text, i) == i = 1 \/ text[i - 1].part \in {"info", "end"}

\* Mutant of Names: every name is taken for the one asked for.
NamesAny(f, part) == part.part = "name"

Names(f, part) == part.part = "name" /\ part.field = f

Lines(text, f) == {i \in DOMAIN text : LineStart(text, i) /\ Names(f, text[i])}

\* The value of a line, as much of it as is there.
ValueAt(text, i) ==
    LET after == SubSeq(text, i + 1, Len(text))
        others == {k \in DOMAIN after : after[k].part # "value"}
    IN  IF others = {} THEN after ELSE SubSeq(after, 1, (CHOOSE k \in others : \A o \in others : k <= o) - 1)

\* parse_oid_value: the first line of the field.
parse_oid_value(text, f) == ValueAt(text, CHOOSE i \in Lines(text, f) : \A j \in Lines(text, f) : i <= j)

\* decode_field: numbers need a digit and addresses all their parts.
Decodes(f, value) ==
    CASE Kind[f] = "text" -> TRUE [] Kind[f] = "number" -> value # <<>> [] OTHER -> Len(value) = 2

-----------------------------------------------------------------------------
(* The retrieval *)

\* A transport is opened, or cannot be.  A new network connection sees nothing of an old
\* one; a USB device may still have it to send.
Open ==
    /\ step = "open"
    /\ \/ /\ step' = IF adapter = "fresh" THEN "write" ELSE "drain"
          /\ \/ UNCHANGED <<asked, stream, leftover>>
             \/ /\ adapter # "shared"
                /\ asked' = <<>> /\ stream' = <<>>
                /\ leftover' = (leftover /\ found # <<>>)
          /\ UNCHANGED <<attempt, buffer, found>>
       \/ /\ adapter = "fresh" /\ Failed
          /\ UNCHANGED <<asked, stream, leftover>>
       \/ /\ adapter = "drained" /\ step' = "done"
          /\ UNCHANGED <<attempt, buffer, found, asked, stream, leftover>>
    /\ stale' = 0
    /\ UNCHANGED adapter

\* drain_stale_responses failed: no field can be read, or this one cannot.
DrainFailed ==
    IF adapter = "shared"
    THEN /\ found' = [i \in DOMAIN Fields |-> [value |-> <<>>, error |-> TRUE]]
         /\ step' = "done" /\ UNCHANGED <<attempt, buffer>>
    ELSE Failed

\* Over USB a piece may be empty, and the draining goes on.
DrainReply(n) ==
    /\ step = "drain"
    /\ stream' = SubSeq(stream, n + 1, Len(stream))
    /\ stale' = stale + n
    /\ IF stale + n > MaxStale THEN DrainFailed ELSE UNCHANGED <<step, attempt, buffer, found>>
    /\ UNCHANGED <<adapter, asked, leftover>>

\* The wait for more timed out, or failed.
DrainDone ==
    /\ step = "drain"
    /\ \/ step' = "write" /\ UNCHANGED <<attempt, buffer, found>>
       \/ DrainFailed
    /\ leftover' = IF found = <<>> THEN stream # <<>> \/ asked # <<>> ELSE leftover
    /\ UNCHANGED <<adapter, stale, asked, stream>>

\* An attempt failed: another one, or the end of them.
AttemptFailed(n) ==
    IF n < MaxAttempts THEN step' = "write" /\ attempt' = n /\ buffer' = <<>> /\ UNCHANGED found
    ELSE Failed

\* The query, the bytes that end its job and the status request.  A write that fails may
\* have been done; a query over the limit of the transport is not written at all.
WriteQuery ==
    /\ step = "write"
    /\ LET n == attempt + 1
           sent == Append(asked, QueryOf(Field, n))
       IN  \/ asked' = sent /\ step' = "read" /\ attempt' = n /\ UNCHANGED <<buffer, found>>
           \/ asked' \in {asked, sent} /\ AttemptFailed(n)
           \/ attempt = 0 /\ Failed /\ UNCHANGED asked
    /\ UNCHANGED <<adapter, stale, stream, leftover>>

\* read_matching_response: a piece of n parts.
ReadReply(n) ==
    /\ step = "read"
    /\ stream' = SubSeq(stream, n + 1, Len(stream))
    /\ LET text == buffer \o SubSeq(stream, 1, n)
           others == {f \in Range(Fields) \ {Field} : Lines(text, f) # {}}
       IN  CASE Len(text) > MaxBuffer -> AttemptFailed(attempt)
             [] Len(text) <= MaxBuffer /\ Lines(text, Field) # {} ->
                    LET value == parse_oid_value(text, Field)
                    IN  Observe(value, ~Decodes(Field, value))
             [] OTHER -> /\ buffer' = IF others # {} THEN <<>> ELSE text
                         /\ UNCHANGED <<step, attempt, found>>
    /\ UNCHANGED <<adapter, stale, asked, leftover>>

\* The deadline passed, or the wait timed out or failed.
ReadStops ==
    /\ step = "read"
    /\ AttemptFailed(attempt)
    /\ UNCHANGED <<adapter, stale, asked, stream, leftover>>

-----------------------------------------------------------------------------
(* The printer *)

\* A query is answered, or never is.
AnswerQuery ==
    /\ asked # <<>>
    /\ asked' = Tail(asked)
    /\ stream' \in {stream, stream \o Reply(Head(asked))}
    /\ UNCHANGED <<adapter, step, attempt, buffer, stale, found, leftover>>

\* The ends of a wait for the printer.
ReplyReads ==
    \/ \E n \in 0..(IF Len(stream) < MaxPiece THEN Len(stream) ELSE MaxPiece) : DrainReply(n) \/ ReadReply(n)
    \/ DrainDone \/ ReadStops

Retrieval == ReplyReads \/ Open \/ WriteQuery

WirelessNext == Retrieval \/ AnswerQuery

WirelessSpec == WirelessInit /\ [][WirelessNext]_wireless

-----------------------------------------------------------------------------

\* A value observed for a field is the start of one reply to a query for that field, never
\* of another field's or of two replies, although replies are late, repeated and cut; and it
\* answers this retrieval when nothing of an earlier one was under way after the drain.
OwnValues ==
    \A i \in DOMAIN found :
        LET value == found[i].value
        IN  value # <<>> =>
            \E n \in (IF leftover THEN 0 ELSE 1)..MaxAttempts :
                \A k \in DOMAIN value : value[k] = [part |-> "value", query |-> QueryOf(Fields[i], n), at |-> k]
=============================================================================
