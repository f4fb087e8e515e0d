---------------------------- MODULE Inspections -----------------------------
(***************************************************************************)
(* What a host does to find out about a printer: the device settings or the *)
(* wireless settings of a Brother printer over a raw transport, its SNMP    *)
(* objects, its IPP attributes, what the messages of IPP say, or which      *)
(* printers there are.  A tool makes one inspection, and the others do not  *)
(* run meanwhile: the printer serves one host at a time.                    *)
(***************************************************************************)
EXTENDS DeviceSettings, WirelessSettings, SnmpClient, IppDiscovery, IppCodec, DnsSd

VARIABLES
    tool,      \* the inspection that is made
    empties    \* history: flips with every empty piece that is drained

Inspection == {"device", "wireless", "snmp", "ipp", "codec", "dns_sd"}

inspections == <<tool, empties, vars, wireless, snmp, ipp, codec, dns_sd>>

\* An inspection that is not made stays as it would begin for the simplest printer.
InspectionsInit ==
    /\ tool \in Inspection /\ empties = FALSE
    /\ IF tool = "device" THEN TRUE ELSE identity = "selected"
    /\ IF tool = "wireless" THEN TRUE ELSE adapter = "shared" /\ stream = <<>> /\ asked = <<>>
    /\ IF tool = "snmp" THEN TRUE ELSE /\ call = [op |-> "set", valid |-> FALSE, limits |-> "invalid"]
                                      /\ honest = TRUE
                                      /\ table = [i \in 1..MaxRecords |-> [key |-> "absent"]]
    /\ IF tool = "ipp" THEN TRUE
       ELSE reports = [all |-> {}, advertised |-> {}, formats |-> <<>>, varying |-> FALSE, leading |-> FALSE]
    /\ IF tool = "codec" THEN TRUE ELSE request = NoRequest /\ limits \in {l \in CodecLimits : ~validate(l)}
    /\ Init /\ WirelessInit /\ SnmpInit /\ IppInit /\ CodecInit
    /\ DnsSdInit

\* A printer sends a packet without bytes over USB while it is drained: nothing changes.
EmptyPiece ==
    /\ \/ tool = "device" /\ DrainPiece(0) /\ UNCHANGED wireless
       \/ tool = "wireless" /\ DrainReply(0) /\ UNCHANGED vars
    /\ empties' = ~empties
    /\ UNCHANGED <<tool, snmp, ipp, codec, dns_sd>>

\* The steps of the host that its timers bring about, whatever the printer does.  Nothing ends
\* a write that the transport does not end, and nothing the caller's opening of a transport.
Host ==
    \/ EmptyPiece
    \/ tool = "device" /\ TimedReads /\ UNCHANGED <<tool, empties, wireless, snmp, ipp, codec, dns_sd>>
    \/ tool = "wireless" /\ ReplyReads /\ UNCHANGED <<tool, empties, vars, snmp, ipp, codec, dns_sd>>
    \/ tool = "snmp" /\ SnmpClientStep /\ UNCHANGED <<tool, empties, vars, wireless, ipp, codec, dns_sd>>
    \/ tool = "ipp" /\ Discover /\ UNCHANGED <<tool, empties, vars, wireless, snmp, codec, dns_sd>>
    \/ tool = "codec" /\ (TakeOwn \/ EndOfInput) /\ UNCHANGED <<tool, empties, vars, wireless, snmp, ipp, dns_sd>>
    \/ tool = "dns_sd" /\ Search /\ UNCHANGED <<tool, empties, vars, wireless, snmp, ipp, codec>>

InspectionsNext ==
    \/ EmptyPiece
    \/ tool = "device" /\ Next /\ UNCHANGED <<tool, empties, wireless, snmp, ipp, codec, dns_sd>>
    \/ tool = "wireless" /\ WirelessNext /\ UNCHANGED <<tool, empties, vars, snmp, ipp, codec, dns_sd>>
    \/ tool = "snmp" /\ SnmpNext /\ UNCHANGED <<tool, empties, vars, wireless, ipp, codec, dns_sd>>
    \/ tool = "ipp" /\ IppNext /\ UNCHANGED <<tool, empties, vars, wireless, snmp, codec, dns_sd>>
    \/ tool = "codec" /\ CodecNext /\ UNCHANGED <<tool, empties, vars, wireless, snmp, ipp, dns_sd>>
    \/ tool = "dns_sd" /\ DnsSdNext /\ UNCHANGED <<tool, empties, vars, wireless, snmp, ipp, codec>>

InspectionsSpec == InspectionsInit /\ [][InspectionsNext]_inspections /\ WF_inspections(Host)

-----------------------------------------------------------------------------

Ended ==
    CASE tool = "device" -> pc = "idle"
      [] tool = "wireless" -> step = "done" /\ (adapter # "drained" => Len(found) = Len(Fields))
      [] tool = "snmp" -> at = "end"
      [] tool = "ipp" -> discovery \notin {"asking", "merged"}
      [] tool = "codec" -> ~Decoding
      [] tool = "dns_sd" -> search \in {"found", "refused", "failed"}

\* The transport has a write, or the caller opens a transport.
InCall ==
    \/ tool = "device" /\ pc \in {"sendStatus", "enter", "query", "exit"}
    \/ tool = "wireless" /\ step \in {"open", "write"}

\* Every inspection ends, whatever the printer answers, loses or repeats: a session of device
\* settings, a retrieval with an observation for every field, an SNMP call, a discovery over IPP,
\* the decoding of a message and a search for printers.  There are two exceptions, for which the
\* code has no timer: a write or an opening that never returns, and a printer that sends empty
\* packets for ever while it is drained.
InspectionsEnd == []<><<TRUE>>_empties \/ <>[]InCall \/ (~Ended ~> Ended)
=============================================================================
