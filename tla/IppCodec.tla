------------------------------ MODULE IppCodec ------------------------------
(***************************************************************************)
(* The encoding of IPP messages.  A message is a sequence of entries: the    *)
(* start of a group, a value with its tag and its name, the end of the      *)
(* attributes, or the rest of a message that was cut.  Names and values are *)
(* sequences of bytes, of which only the length and the identity matter.    *)
(*                                                                         *)
(* The decoder takes one entry at a time; the collections it has not left   *)
(* are a stack, where the code calls itself.                                *)
(***************************************************************************)
EXTENDS Integers, Sequences, FiniteSets, SequencesExt

CONSTANTS
    CodecLimits,   \* the values of Limits that are tried
    Entries,       \* what a printer may send
    MaxEntries,    \* the longest message of a printer, in entries (a bound)
    AttributeNames \* names that can be asked for, sequences of bytes

VARIABLES
    limits,    \* the limits of the encoder and of the decoder
    request,   \* the message built by the client, if it is one that is decoded
    encoded,      \* the encoded request that is still to be decoded
    input,     \* what the decoder has taken
    decoder    \* the decoder: groups, collections not left, counters and status

codec == <<limits, request, encoded, input, decoder>>

Message(code, groups) == [code |-> code, groups |-> groups]
AttributeGroup(attributes) == [attributes |-> attributes]
Attribute(name, values) == [name |-> name, values |-> values]
Value(tag, data) == [tag |-> tag, data |-> data]
Entry(tag, name, value) == [tag |-> tag, name |-> name, value |-> value]

NoRequest == Message("none", <<>>)

\* The tags that are no values of their own.
Controls == {"member", "end-collection"}

\* The tags whose values have a width; every other tag keeps its bytes.
Width ==
    [x \in {"no-value", "integer", "boolean", "range", "resolution"} |->
        CASE x = "no-value" -> 0 [] x = "boolean" -> 1 [] x = "integer" -> 4 [] x = "range" -> 8 [] OTHER -> 9]

Outside(tag) == tag \in {"group", "end", "cut"}

\* Limits::validate
validate(l) == l.message >= 8 /\ \A kind \in DOMAIN l : l[kind] > 0

-----------------------------------------------------------------------------
(* Scalars *)

\* i32::from_be_bytes
FromBytes(b) == (((IF b[1] < 128 THEN b[1] ELSE b[1] - 256) * 256 + b[2]) * 256 + b[3]) * 256 + b[4]

\* i32::to_be_bytes
ToBytes(n) == <<(n \div 16777216) % 256, (n \div 65536) % 256, (n \div 256) % 256, n % 256>>

\* decode_scalar refuses bytes that are no value of the tag.
ScalarFits(tag, raw) ==
    /\ tag \in DOMAIN Width => Len(raw) = Width[tag]
    /\ tag = "boolean" => raw[1] \in {0, 1}

decode_scalar(tag, raw) ==
    CASE tag = "integer" -> <<FromBytes(raw)>>
      [] tag \in {"range", "resolution"} ->
             <<FromBytes(SubSeq(raw, 1, 4)), FromBytes(SubSeq(raw, 5, 8))>> \o SubSeq(raw, 9, Len(raw))
      [] tag = "boolean" -> <<raw[1] = 1>>
      [] OTHER -> raw

\* A value's data is of the kind its tag says.
encode_scalar(value) ==
    CASE value.tag = "integer" -> ToBytes(value.data[1])
      [] value.tag \in {"range", "resolution"} ->
             ToBytes(value.data[1]) \o ToBytes(value.data[2]) \o SubSeq(value.data, 3, Len(value.data))
      [] value.tag = "boolean" -> <<IF value.data[1] THEN 1 ELSE 0>>
      [] OTHER -> value.data

-----------------------------------------------------------------------------
(* Encoding *)

Total(counts) == FoldSeq(LAMBDA n, total : n + total, 0, counts)

RECURSIVE ValueEntries(_, _)
\* Encoder::value, Encoder::member and Encoder::control
ValueEntries(name, value) ==
    LET MemberEntries(member) ==
            <<Entry("member", <<>>, member.name)>>
                \o FlattenSeq([i \in DOMAIN member.values |-> ValueEntries(<<>>, member.values[i])])
    IN  IF value.tag = "collection"
        THEN <<Entry("collection", name, <<>>)>>
                 \o FlattenSeq([i \in DOMAIN value.data |-> MemberEntries(value.data[i])])
                 \o <<Entry("end-collection", <<>>, <<>>)>>
        ELSE <<Entry(value.tag, name, encode_scalar(value))>>

\* Encoder::attribute: the name goes with the first value.
AttributeEntries(attribute) ==
    FlattenSeq([i \in DOMAIN attribute.values |->
        ValueEntries(IF i = 1 THEN attribute.name ELSE <<>>, attribute.values[i])])

GroupEntries(group) ==
    <<Entry("group", <<>>, <<>>)>>
        \o FlattenSeq([i \in DOMAIN group.attributes |-> AttributeEntries(group.attributes[i])])

MessageEntries(message) ==
    FlattenSeq([i \in DOMAIN message.groups |-> GroupEntries(message.groups[i])]) \o <<Entry("end", <<>>, <<>>)>>

RECURSIVE Depth(_)
Depth(value) ==
    IF value.tag # "collection" THEN 0
    ELSE LET inner == {Depth(v) : v \in UNION {ToSet(value.data[i].values) : i \in DOMAIN value.data}}
         IN  1 + CHOOSE d \in inner \cup {0} : \A e \in inner : e <= d

RECURSIVE WellFormed(_)
\* Attributes and members have a name and a value.
WellFormed(value) ==
    value.tag = "collection" =>
        \A i \in DOMAIN value.data :
            /\ value.data[i].name # <<>> /\ value.data[i].values # <<>>
            /\ \A j \in DOMAIN value.data[i].values : WellFormed(value.data[i].values[j])

\* The size of an entry: its tag, and a length before the name and before the value.
EntryBytes(entry) == IF Outside(entry.tag) THEN 1 ELSE 5 + Len(entry.name) + Len(entry.value)

MessageBytes(entries) == 8 + Total([i \in DOMAIN entries |-> EntryBytes(entries[i])])

\* What the encoder has counted at the end.
Counts(entries) ==
    LET Number(Test(_)) == Len(SelectSeq(entries, Test))
    IN  [groups |-> Number(LAMBDA e : e.tag = "group"),
         attributes |-> Number(LAMBDA e : e.name # <<>> \/ e.tag = "member"),
         values |-> Number(LAMBDA e : ~Outside(e.tag)),
         members |-> Number(LAMBDA e : e.tag = "member"),
         decoded |-> Total([i \in DOMAIN entries |-> Len(entries[i].name) + Len(entries[i].value)])]

\* check_name and wire_bytes: the names of attributes are held against both limits.
FitsWire(entry) ==
    /\ Len(entry.name) <= limits.name /\ Len(entry.name) <= limits.value
    /\ Len(entry.value) <= limits.value
    /\ entry.tag = "member" => Len(entry.value) <= limits.name

\* encode succeeds: no check fails on the way.
Encodes(message) ==
    LET entries == MessageEntries(message)
        counts == Counts(entries)
        attributes == UNION {ToSet(message.groups[i].attributes) : i \in DOMAIN message.groups}
    IN  /\ validate(limits)
        /\ \A attribute \in attributes :
               /\ attribute.name # <<>> /\ attribute.values # <<>>
               /\ \A i \in DOMAIN attribute.values :
                      WellFormed(attribute.values[i]) /\ Depth(attribute.values[i]) <= limits.depth
        /\ \A kind \in DOMAIN counts : counts[kind] <= limits[kind]
        /\ MessageBytes(entries) <= limits.message
        /\ \A i \in DOMAIN entries : FitsWire(entries[i])

-----------------------------------------------------------------------------
(* Decoding *)

Start(code) ==
    [code |-> code, groups |-> <<>>, open |-> <<>>, status |-> "reading",
     count |-> [groups |-> 0, attributes |-> 0, values |-> 0, members |-> 0, decoded |-> 0]]

Fail(d, why) == [d EXCEPT !.status = why]

\* A check that follows another: an error ends the decoding.
Unless(d, fails, why) == IF d.status = "reading" /\ fails THEN Fail(d, why) ELSE d

\* Decoder::bump, and the counter it guards
Count(d, kind, n) ==
    LET checked == Unless(d, d.count[kind] + n > limits[kind], "Limit")
    IN  IF checked.status = "reading" THEN [checked EXCEPT !.count[kind] = @ + n] ELSE checked

\* Mutant of PlaceInGroup: a value without a name is an attribute of its own.
PlaceApart(d, name, value) ==
    LET counted == Count(d, "attributes", 1)
    IN  [counted EXCEPT !.groups[Len(d.groups)].attributes = Append(@, Attribute(name, <<value>>))]

\* A value that is in no collection: another value of the last attribute, or a new attribute.
PlaceInGroup(d, name, value) ==
    LET g == Len(d.groups)
        attributes == d.groups[g].attributes
        placed == IF name # <<>>
                  THEN [Count(d, "attributes", 1) EXCEPT
                            !.groups[g].attributes = Append(@, Attribute(name, <<value>>))]
                  ELSE IF attributes = <<>> THEN Fail(d, "MissingRepeatedAttribute")
                  ELSE [d EXCEPT !.groups[g].attributes[Len(attributes)].values = Append(@, value)]
    IN  Unless(placed, value.tag \in Controls, "IllegalTag")

\* A name or a value in the collection that was entered last.
PlaceInCollection(d, name, value) ==
    LET k == Len(d.open)
        members == d.open[k].members
        unnamed == Unless(d, name # <<>>, "InvalidValue")
    IN  IF unnamed.status # "reading" THEN unnamed
        ELSE IF value.tag = "member"
        THEN LET named == Unless(Unless(d, value.data = <<>>, "InvalidValue"), Len(value.data) > limits.name, "Limit")
                 counted == Count(Count(named, "members", 1), "attributes", 1)
             IN  [counted EXCEPT !.open[k].members = Append(@, Attribute(value.data, <<>>))]
        ELSE IF members = <<>> THEN Fail(d, "InvalidValue")
        ELSE [d EXCEPT !.open[k].members[Len(members)].values = Append(@, value)]

Place(d, name, value) ==
    IF d.open = <<>> THEN PlaceInGroup(d, name, value) ELSE PlaceInCollection(d, name, value)

\* The end of a collection: the collection is a value of what it was entered from.
Leave(d, entry) ==
    LET left == Last(d.open)
        checked == Unless(d, entry.name # <<>> \/ entry.value # <<>>, "InvalidValue")
    IN  IF checked.status # "reading" THEN checked
        ELSE Place([d EXCEPT !.open = Front(@)], left.name, Value("collection", left.members))

\* Decoder::attribute_value: the checks and the counters of every value.
Counted(d, entry) ==
    LET named == Count(Unless(d, Len(entry.name) > limits.name, "Limit"), "decoded", Len(entry.name))
        valued == Count(Unless(named, Len(entry.value) > limits.value, "Limit"), "decoded", Len(entry.value))
    IN  Count(valued, "values", 1)

\* Decoder::collection is entered.
EnterCollection(d, entry) ==
    LET checked == Unless(Unless(d, entry.value # <<>>, "InvalidValue"), Len(d.open) + 1 > limits.depth, "Limit")
    IN  IF checked.status # "reading" THEN checked
        ELSE [d EXCEPT !.open = Append(@, [name |-> entry.name, members |-> <<>>])]

TakeValue(d, entry) ==
    LET counted == Counted(d, entry)
    IN  IF counted.status # "reading" THEN counted
        ELSE IF entry.tag = "collection" THEN EnterCollection(counted, entry)
        ELSE IF entry.tag = "end-collection" /\ d.open # <<>> THEN Leave(counted, entry)
        ELSE IF ~ScalarFits(entry.tag, entry.value) THEN Fail(counted, "InvalidValue")
        ELSE Place(counted, entry.name, Value(entry.tag, decode_scalar(entry.tag, entry.value)))

\* The loops of decode and of Decoder::collection, for one entry.
Take(d, entry) ==
    CASE d.status = "ended" -> Fail(d, "TrailingBytes")
      [] d.status = "reading" /\ entry.tag = "cut" -> Fail(d, "Truncated")
      [] d.status = "reading" /\ entry.tag = "end" ->
             Fail(d, IF d.open # <<>> THEN "EndInsideCollection" ELSE "ended")
      [] d.status = "reading" /\ entry.tag = "group" ->
             IF d.open # <<>> THEN Fail(d, "IllegalTag")
             ELSE LET counted == Count(d, "groups", 1)
                  IN  [counted EXCEPT !.groups = Append(@, AttributeGroup(<<>>))]
      [] d.status = "reading" /\ ~Outside(entry.tag) ->
             IF d.groups = <<>> THEN Fail(d, "MissingGroup") ELSE TakeValue(d, entry)

-----------------------------------------------------------------------------
(* Requests *)

Charset == Attribute(<<1>>, <<Value("charset", <<8>>)>>)
NaturalLanguage == Attribute(<<2>>, <<Value("language", <<9>>)>>)
PrinterUri == Attribute(<<3>>, <<Value("uri", <<7, 7>>)>>)

get_printer_attributes_request(names, format) ==
    LET formats == IF format = <<>> THEN <<>> ELSE <<Attribute(<<4>>, <<Value("mime", format)>>)>>
        requested == IF names = <<>> THEN <<>>
                     ELSE <<Attribute(<<5>>, [i \in DOMAIN names |-> Value("keyword", names[i])])>>
    IN  Message("get-attributes",
                <<AttributeGroup(<<Charset, NaturalLanguage, PrinterUri>> \o formats \o requested)>>)

\* The names end in "-supported", here in 0, and there is at least one.
get_printer_supported_values_request(names) ==
    IF names = <<>> \/ \E i \in DOMAIN names : Last(names[i]) # 0 THEN NoRequest
    ELSE [get_printer_attributes_request(names, <<>>) EXCEPT !.code = "get-supported"]

Requests ==
    LET names == {<<>>} \cup {<<a>> : a \in AttributeNames} \cup {<<a, b>> : a, b \in AttributeNames}
    IN  {get_printer_attributes_request(n, f) : n \in names, f \in {<<>>, <<6, 6>>}}
            \cup {get_printer_supported_values_request(n) : n \in names}

CodecInit ==
    /\ limits \in CodecLimits
    /\ request \in Requests \cup {NoRequest}
    /\ encoded = IF request # NoRequest /\ Encodes(request) THEN MessageEntries(request) ELSE <<>>
    /\ input = <<>>
    /\ decoder = CASE request # NoRequest /\ encoded = <<>> -> Fail(Start(request.code), "not encoded")
                   [] request = NoRequest /\ ~validate(limits) -> Fail(Start(request.code), "InvalidLimits")
                   [] OTHER -> Start(request.code)

Decoding == decoder.status \in {"reading", "ended"}

\* An error is all that is returned: what was decoded so far is dropped.
Taken(entry) ==
    /\ LET next == Take(decoder, entry)
       IN  IF next.status \in {"reading", "ended"}
           THEN decoder' = next /\ input' = Append(input, entry)
           ELSE decoder' = Fail(Start(request.code), next.status) /\ input' = <<>>
    /\ UNCHANGED <<limits, request>>

\* The next entry of a request that was encoded.
TakeOwn ==
    /\ Decoding /\ encoded # <<>>
    /\ Taken(Head(encoded))
    /\ encoded' = Tail(encoded)

\* The next entry of what a printer sends.
TakeEntry ==
    /\ Decoding /\ request = NoRequest /\ Len(input) < MaxEntries
    /\ \E entry \in Entries : Taken(entry)
    /\ UNCHANGED encoded

\* The message has no more bytes.  The code checks the length of a message before it decodes
\* anything; here it is known when the last entry has come.
EndOfInput ==
    /\ Decoding /\ encoded = <<>>
    /\ decoder' = Fail(decoder, CASE MessageBytes(input) > limits.message -> "MessageTooLarge"
                                  [] MessageBytes(input) <= limits.message /\ decoder.status = "ended" -> "ok"
                                  [] OTHER -> "MissingEndOfAttributes")
    /\ UNCHANGED <<limits, request, encoded, input>>

CodecNext == TakeOwn \/ TakeEntry \/ EndOfInput

-----------------------------------------------------------------------------

Decoded == Message(decoder.code, decoder.groups)

Unvalued(value) == value.tag = "collection" /\ ~WellFormed(value)

\* What the decoder takes and the encoder refuses: a collection with a member that has no value,
\* and a name longer than a value may be, for the encoder holds names to both limits.
OneWay(attribute) ==
    \/ \E v \in ToSet(attribute.values) : Unvalued(v)
    \/ Len(attribute.name) > limits.value

\* The two halves of the codec agree.  A message that was decoded is encoded, under the same
\* limits, as the very entries it was decoded from, unless it has a collection with a member
\* that has no value or, where the limits allow names longer than values, such a name: the
\* encoder refuses exactly these.  A request that was encoded is decoded as the request, so that
\* what the encoder counts as within the limits the decoder does too.
CodecAgrees ==
    /\ decoder.status = "ok" =>
           IF \E i \in DOMAIN decoder.groups : \E attribute \in ToSet(decoder.groups[i].attributes) : OneWay(attribute)
           THEN ~Encodes(Decoded)
           ELSE Encodes(Decoded) /\ MessageEntries(Decoded) = input
    /\ request # NoRequest /\ ~Decoding /\ decoder.status # "not encoded" =>
           decoder.status = "ok" /\ Decoded = request
=============================================================================
