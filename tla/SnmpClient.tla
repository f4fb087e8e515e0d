----------------------------- MODULE SnmpClient -----------------------------
(***************************************************************************)
(* The SNMP client (get_many, walk, set_once), the qualified printer client *)
(* on top of it (read_property, inspect_firmware) and the reading of a      *)
(* Brother printer's firmware records.                                     *)
(*                                                                         *)
(* An object identifier is a sequence of numbers.  The printer's firmware   *)
(* records are the objects <<1, i>>; the next one is the other registered    *)
(* object.  The UDP client and the printer's SNMP agent are not part of the *)
(* SDK: datagrams are lost or late, and an agent may answer anything.       *)
(***************************************************************************)
EXTENDS Integers, Sequences, FiniteSets, Functions, Vectors

CONSTANTS
    KeyOrder,      \* the numbers of the firmware records in the order of the registry's keys
    Records,       \* what a firmware record of a printer may be
    Extra,         \* the other objects of a printer
    MaxVarbinds,   \* DecodeLimits::maximum_varbinds
    MaxSteps,      \* ClientLimits::maximum_walk_steps
    Retries        \* ClientLimits::retries

MaxRecords == Len(KeyOrder)   \* MAX_FIRMWARE_RECORDS

ASSUME SnmpAssumption ==
    /\ KeyOrder \in Seq(1..Len(KeyOrder)) /\ \A i \in 1..Len(KeyOrder) : \E k \in DOMAIN KeyOrder : KeyOrder[k] = i
    /\ \A record \in Records : record.key = "absent" => record = [key |-> "absent"]
    /\ Extra \subseteq Seq(Nat) /\ IsFiniteSet(Extra)
    /\ MaxVarbinds \in Nat /\ MaxSteps \in Nat \ {0} /\ Retries \in Nat

VARIABLES
    call,       \* the call that was made
    at,         \* "start", "send", "wait" or "end"
    table,      \* the printer's firmware records
    honest,     \* the agent answers as the protocol says
    sent,       \* datagrams sent for the request
    cursor,     \* walk: current
    steps,      \* walk: requests made
    output,     \* walk: output
    write,      \* set: where the datagram is: "none", "out", "lost", "done" or "refused"
    applied,    \* history: how often the agent set the value
    outcome     \* what the call returned

snmp == <<call, at, table, honest, sent, cursor, steps, output, write, applied, outcome>>

Record(i) == <<1, i>>
Serial == <<1, MaxRecords + 1>>

Registered == {Record(i) : i \in 1..MaxRecords} \cup {Serial}

\* Limits that validate() refuses, that allow one object in a request, or that allow all.
Limits == {"invalid", "narrow", "wide"}

Calls ==
    [op : {"walk"}, root : {<<1>>, <<1, 2>>, Serial, <<3>>}, limits : Limits]
        \cup [op : {"property"}, object : {Serial, Record(1), <<3, 1>>}, qualified : BOOLEAN, limits : Limits]
        \cup [op : {"firmware"}, qualified : BOOLEAN, limits : Limits]
        \cup [op : {"set"}, valid : BOOLEAN, limits : Limits]

SnmpInit ==
    /\ call \in Calls
    /\ honest \in BOOLEAN
    /\ table \in IF call.op = "firmware" /\ call.qualified /\ call.limits = "wide" /\ honest
                 THEN [1..MaxRecords -> Records]
                 ELSE {[i \in 1..MaxRecords |-> IF i \in gone THEN [key |-> "absent"] ELSE record]
                       : record \in Records \cup {[key |-> "large"], [key |-> "plain"]}, gone \in {{}, {1, 3}}}
    /\ at = "start" /\ sent = 0 /\ cursor = <<>> /\ steps = 0 /\ output = <<>>
    /\ write = "none" /\ applied = 0
    /\ outcome = [status |-> "none"]

\* The objects the agent has, and what it has for them.
Present == {Record(i) : i \in {n \in 1..MaxRecords : table[n].key # "absent"}} \cup {Serial} \cup Extra

ValueOf(oid) ==
    IF oid \notin Present THEN [key |-> "absent"]
    ELSE IF oid \in Registered \ {Serial} THEN table[oid[2]]
    ELSE [key |-> "text"]

Ends(result) == outcome' = result /\ at' = "end"

Refuses(status) == Ends([status |-> status])

-----------------------------------------------------------------------------
(* parse_mfp_inventory *)

\* A record that ends the reading, whether it is malformed or not.
Stops(record) == record.key \in {"absent", "plain", "wrong"}

\* The records that are read: those before the first that stops the reading.
ReadRecords(records) ==
    LET read == CHOOSE n \in 0..Len(records) :
                    /\ \A i \in 1..n : ~Stops(records[i])
                    /\ n < Len(records) => Stops(records[n + 1])
    IN  SubSeq(records, 1, read)

Malformed(records) ==
    \/ \E i \in DOMAIN ReadRecords(records) : records[i].key = "empty"
    \/ Len(ReadRecords(records)) < Len(records) /\ records[Len(ReadRecords(records)) + 1].key = "wrong"

Values(records, key) ==
    LET found == Picked(records, {i \in DOMAIN records : records[i].key = key})
    IN  [i \in DOMAIN found |-> found[i].of]

\* singular_field: one value, however often it is there.
Singular(values) ==
    CASE values = <<>> -> "missing" [] Cardinality(Range(values)) = 1 -> "observed" [] OTHER -> "conflict"

\* Mutant of Components: the counts are not compared.
ComponentsZipped(records) ==
    LET read == ReadRecords(records)
        ids == Values(read, "FIRMID")
        versions == Values(read, "FIRMVER")
    IN  CASE Malformed(records) -> [status |-> "malformed"]
          [] ids = <<>> -> [status |-> "missing"]
          [] OTHER -> [status |-> "observed",
                       pairs |-> [i \in DOMAIN ids \cap DOMAIN versions |-> <<ids[i], versions[i]>>]]

Components(records) ==
    LET read == ReadRecords(records)
        ids == Values(read, "FIRMID")
        versions == Values(read, "FIRMVER")
    IN  CASE Malformed(records) \/ Len(ids) # Len(versions) -> [status |-> "malformed"]
          [] ~Malformed(records) /\ ids = <<>> /\ versions = <<>> -> [status |-> "missing"]
          [] OTHER -> [status |-> "observed", pairs |-> [i \in DOMAIN ids |-> <<ids[i], versions[i]>>]]

-----------------------------------------------------------------------------
(* The calls up to their first request *)

\* inspect_firmware: the objects that the registry lists by their keys, sorted.
ObjectsByKey == [i \in 1..MaxRecords |-> Record(KeyOrder[i])]

SortedObjects ==
    CHOOSE oids \in [1..MaxRecords -> Range(ObjectsByKey)] :
        \A i, j \in 1..MaxRecords : i < j => Before(oids[i], oids[j])

\* The objects of a read.
Requested == IF call.op = "property" THEN <<call.object>> ELSE SortedObjects

StartWalk ==
    /\ at = "start" /\ call.op = "walk"
    /\ CASE call.limits = "invalid" -> Refuses("invalid_limits") /\ UNCHANGED cursor
         [] call.limits # "invalid" /\ \A oid \in Registered : ~IsWithin(oid, call.root) ->
                Refuses("unregistered") /\ UNCHANGED cursor
         [] OTHER -> cursor' = call.root /\ at' = "send" /\ UNCHANGED outcome
    /\ UNCHANGED <<call, table, honest, sent, steps, output, write, applied>>

\* check_qualification, the registry and the limits of get_many.
StartRead ==
    /\ at = "start" /\ call.op \in {"property", "firmware"}
    /\ CASE ~call.qualified -> Refuses("mismatch")
         [] call.qualified /\ ~Range(Requested) \subseteq Registered -> Refuses("unsupported")
         [] call.qualified /\ Range(Requested) \subseteq Registered /\ call.limits = "invalid" ->
                Refuses("invalid_limits")
         [] call.qualified /\ call.limits = "narrow" /\ call.op = "firmware" -> Refuses("unregistered")
         [] OTHER -> at' = "send" /\ UNCHANGED outcome
    /\ UNCHANGED <<call, table, honest, sent, cursor, steps, output, write, applied>>

\* set_once: validate_set_value, then the limits.
StartSet ==
    /\ at = "start" /\ call.op = "set"
    /\ CASE ~call.valid -> Refuses("invalid_value")
         [] call.valid /\ call.limits = "invalid" -> Refuses("invalid_limits")
         [] OTHER -> at' = "send" /\ UNCHANGED outcome
    /\ UNCHANGED <<call, table, honest, sent, cursor, steps, output, write, applied>>

-----------------------------------------------------------------------------
(* Requests and answers *)

\* A datagram leaves, or the client cannot be built or the request not be encoded.
SendDatagram ==
    /\ at = "send"
    /\ \/ /\ at' = "wait" /\ sent' = sent + 1
          /\ write' = IF call.op = "set" THEN "out" ELSE write
          /\ UNCHANGED outcome
       \/ /\ sent = 0 /\ \E status \in {"transport", "invalid_limits"} : Refuses(status)
          /\ UNCHANGED <<sent, write>>
    /\ UNCHANGED <<call, table, honest, cursor, steps, output, applied>>

\* Mutant of MaxDatagrams: a write is repeated as a read is.
MaxDatagramsOfReads == Retries + 1

\* build_client: how often the UDP client sends a request.
MaxDatagrams == IF call.op = "set" THEN 1 ELSE Retries + 1

\* No answer in time: another datagram, or the end of the call.
NoAnswer ==
    /\ at = "wait"
    /\ IF sent < MaxDatagrams THEN at' = "send" /\ UNCHANGED outcome
       ELSE Refuses(IF call.op = "set" THEN "ambiguous" ELSE "timeout")
    /\ UNCHANGED <<call, table, honest, sent, cursor, steps, output, write, applied>>

\* The deadline of the whole call passes, or the answer is an error: map_read_error.
ReadFailed ==
    /\ at = "wait" /\ call.op # "set"
    /\ \E status \in {"timeout", "agent", "malformed", "too_large", "transport"} : Refuses(status)
    /\ UNCHANGED <<call, table, honest, sent, cursor, steps, output, write, applied>>

\* An agent that does not keep to the protocol answers a request for objects with others,
\* in another order or too few.
Answers(oids) ==
    LET bound == [i \in DOMAIN oids |-> [oid |-> oids[i], value |-> ValueOf(oids[i])]]
        reversed == [i \in DOMAIN bound |-> bound[Len(bound) + 1 - i]]
        shortened == SubSeq(bound, 1, Len(bound) - 1)
    IN  IF honest THEN {bound}
        ELSE {bound, reversed, shortened, Append(bound, [oid |-> Serial, value |-> ValueOf(Serial)])}

\* The checks of get_many on an answer.
Answered(varbinds) ==
    /\ Len(varbinds) = Len(Requested)
    /\ \A i \in DOMAIN varbinds : varbinds[i].oid = Requested[i]

\* enforce_decoded_limits: too many objects, or one with too large a value.
TooLarge(oids) ==
    Len(oids) > MaxVarbinds \/ \E i \in DOMAIN oids : ValueOf(oids[i]).key = "large"

\* convert_value for the one object of read_property.
Converted(binding) ==
    CASE binding.value.key = "absent" -> [status |-> "unsupported"]
      [] binding.value.key = "wrong" -> [status |-> "malformed"]
      [] OTHER -> [status |-> "ok", object |-> binding.oid, value |-> binding.value]

\* A record that is not in its place is malformed.
Inventory(varbinds) ==
    LET records == [i \in DOMAIN varbinds |->
                       IF varbinds[i].oid = Record(i) THEN varbinds[i].value ELSE [key |-> "wrong"]]
    IN  [status |-> "ok", components |-> Components(records),
         model |-> Singular(Values(ReadRecords(records), "MODEL"))]

ReadAnswered ==
    /\ at = "wait" /\ call.op \in {"property", "firmware"}
    /\ \E varbinds \in Answers(Requested) :
           CASE ~Answered(varbinds) -> Refuses("malformed")
             [] Answered(varbinds) /\ TooLarge(Requested) -> Refuses("too_large")
             [] OTHER -> Ends(IF call.op = "property" THEN Converted(varbinds[1]) ELSE Inventory(varbinds))
    /\ UNCHANGED <<call, table, honest, sent, cursor, steps, output, write, applied>>

\* What comes next: the least object after the cursor, or the end of the agent's objects.
NextBindings ==
    LET later == {oid \in Present : Before(cursor, oid)}
    IN  IF ~honest THEN [oid : Present \cup {cursor}, end : BOOLEAN]
        ELSE IF later = {} THEN {[oid |-> cursor, end |-> TRUE]}
        ELSE {[oid |-> CHOOSE oid \in later : \A o \in later \ {oid} : Before(oid, o), end |-> FALSE]}

\* Mutant of Advances: any answer is taken.
AdvancesAlways(oid) == TRUE

\* An object after the current one.
Advances(oid) == Before(cursor, oid)

\* One turn of the loop of walk.
WalkAnswered ==
    /\ at = "wait" /\ call.op = "walk"
    /\ \E binding \in NextBindings :
           LET collected == IF binding.oid \in Registered THEN Append(output, binding.oid) ELSE output
               outside == ~IsWithin(binding.oid, call.root) \/ binding.end
           IN  CASE outside -> Ends([status |-> "ok"]) /\ UNCHANGED <<sent, cursor, steps, output>>
                 [] ~outside /\ ~Advances(binding.oid) ->
                        Refuses("malformed") /\ UNCHANGED <<sent, cursor, steps, output>>
                 [] OTHER -> /\ cursor' = binding.oid /\ output' = collected
                             /\ steps' = steps + 1 /\ sent' = 0
                             /\ CASE TooLarge(collected) -> Refuses("too_large")
                                  [] ~TooLarge(collected) /\ steps + 1 = MaxSteps -> Refuses("walk_limit")
                                  [] OTHER -> at' = "send" /\ UNCHANGED outcome
    /\ UNCHANGED <<call, table, honest, write, applied>>

\* The datagram of a write is lost, or the agent carries it out or refuses it, however late.
WriteArrives ==
    /\ write = "out"
    /\ write' \in {"lost", "done", "refused"}
    /\ applied' = IF write' = "done" THEN applied + 1 ELSE applied
    /\ UNCHANGED <<call, at, table, honest, sent, cursor, steps, output, outcome>>

\* The agent's answer to a write.  One to a write that was carried out may have other objects
\* than the request or exceed the limits, and is an error to the caller.
WriteAnswered ==
    /\ at = "wait" /\ write \in {"done", "refused"}
    /\ \E status \in IF write = "refused" THEN {"agent"} ELSE {"ok", "malformed", "too_large"} : Refuses(status)
    /\ UNCHANGED <<call, table, honest, sent, cursor, steps, output, write, applied>>

SnmpClientStep ==
    StartWalk \/ StartRead \/ StartSet \/ SendDatagram \/ NoAnswer \/ ReadFailed \/ ReadAnswered
        \/ WalkAnswered \/ WriteAnswered

SnmpNext == SnmpClientStep \/ WriteArrives

SnmpSpec == SnmpInit /\ [][SnmpNext]_snmp

-----------------------------------------------------------------------------

\* A walk that succeeds returns registered objects under its root in their order, each once,
\* whatever the agent answers; and from an agent that keeps to the protocol it returns all.
WalkIsComplete ==
    call.op = "walk" /\ outcome.status = "ok" =>
        /\ \A i \in DOMAIN output : output[i] \in Registered /\ IsBelow(output[i], call.root)
        /\ \A i, j \in DOMAIN output : i < j => Before(output[i], output[j])
        /\ honest => Range(output) = {oid \in Present \cap Registered : IsBelow(oid, call.root)}

\* The firmware components reported are the printer's first ones, each identifier with its own
\* version and none of those that were read left out, when the printer lists the identifiers
\* and the versions of the same components in the same order; and all are reported when every record can be read.
FirmwareIsOwn ==
    call.op = "firmware" /\ outcome.status = "ok" /\ Values(table, "FIRMID") = Values(table, "FIRMVER") =>
        /\ outcome.components.status = "observed" =>
               LET pairs == outcome.components.pairs
               IN  /\ \A i \in DOMAIN pairs : pairs[i] = <<Values(table, "FIRMID")[i], Values(table, "FIRMID")[i]>>
                   /\ Len(pairs) = Len(Values(ReadRecords(table), "FIRMID"))
        /\ ~Malformed(table) /\ ReadRecords(table) = table /\ Values(table, "FIRMID") # <<>> =>
               /\ outcome.components.status = "observed"
               /\ Len(outcome.components.pairs) = Len(Values(table, "FIRMID"))

\* What a read reports is what the agent has: a walk and an inventory of firmware.
ReadsAreTruthful == WalkIsComplete /\ FirmwareIsOwn

\* A write is sent at most once, and what is reported of it is true: success when the agent
\* has carried it out, a refusal when it has not and never will.  An answer that is malformed or
\* too large comes from an agent that carried the write out; ambiguous says nothing.
WriteIsTruthful ==
    call.op = "set" =>
        /\ sent <= 1
        /\ outcome.status = "ok" => applied = 1
        /\ outcome.status \in {"agent", "invalid_value", "invalid_limits", "transport"} =>
               applied = 0 /\ write \in {"none", "refused"}
        /\ outcome.status \in {"malformed", "too_large"} => applied = 1
=============================================================================
