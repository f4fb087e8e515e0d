-------------------------------- MODULE DnsSd --------------------------------
(***************************************************************************)
(* The search for printers by DNS-SD.  The network announces services, the  *)
(* same one again when it changes; the host browses one type of service     *)
(* after the other, for a part of its time and up to a number of services.  *)
(***************************************************************************)
EXTENDS Integers, Sequences, FiniteSets

CONSTANTS
    Announcements,  \* what the network may announce
    MaxHeard,       \* announcements while one type is browsed (a bound)
    MaximumServices \* DiscoveryLimits::maximum_services

ASSUME DnsSdAssumption == MaximumServices \in Nat

VARIABLES
    search,     \* "between" two browses, "browsing", "found", "refused" or "failed"
    types,      \* service types still to be browsed; the first is being browsed
    heard,      \* services of MdnsSdBackend::browse
    returned,   \* records of all browses, in the order of their handling
    discovered  \* the printers so far

dns_sd == <<search, types, heard, returned, discovered>>

DnsSdInit ==
    /\ search = IF MaximumServices = 0 THEN "refused" ELSE "between"
    /\ types = <<"ipp", "ipps">>
    /\ heard = <<>> /\ returned = <<>> /\ discovered = {}

-----------------------------------------------------------------------------
(* One browse *)

\* The next type is browsed while there is time and room.
BeginBrowse ==
    /\ search = "between" /\ types # <<>> /\ Cardinality(discovered) < MaximumServices
    /\ search' = "browsing"
    /\ UNCHANGED <<types, heard, returned, discovered>>

\* What one browse may return, given what was found before.
Quota == MaximumServices - Cardinality(discovered)

\* A service was resolved.  One with too many addresses or too long a TXT record is passed over.
Resolved ==
    /\ search = "browsing" /\ Len(heard) < Quota /\ Len(heard) < MaxHeard
    /\ \E service \in Announcements :
           /\ service.type = Head(types) /\ service.fits
           /\ heard' = Append(heard, service)
    /\ UNCHANGED <<search, types, returned, discovered>>

\* The resource: what the TXT record says, with a slash before it.
Resource(rp) ==
    CASE rp = "absent" -> <<"/", "ipp/print">>
      [] rp \in {"print", "/print"} -> <<"/", "print">>

\* normalize: a record without a name, a host, a port or an address, or with an empty resource,
\* is no printer.
Normal(record) == record.complete /\ record.rp # "empty"

Printer(record) ==
    [scheme |-> record.type, fullname |-> record.name, host |-> record.host, resource |-> Resource(record.rp)]

\* A name is its letters and their case; two spellings of a name are one service.
Key(printer) == <<printer.scheme, printer.fullname[1]>>

\* Mutant of Insert: the service keeps what it announced first.
InsertFirst(printers, record) ==
    IF ~Normal(record) \/ Cardinality(printers) >= MaximumServices
           \/ \E p \in printers : Key(p) = Key(Printer(record))
    THEN printers
    ELSE printers \cup {Printer(record)}

\* One round of the loop over the records.  It was left when there was no more room.
Insert(printers, record) ==
    IF ~Normal(record) \/ Cardinality(printers) >= MaximumServices THEN printers
    ELSE {p \in printers : Key(p) # Key(Printer(record))} \cup {Printer(record)}

InsertAll(printers, records) ==
    LET after[n \in 0..Len(records)] == IF n = 0 THEN printers ELSE Insert(after[n - 1], records[n])
    IN  after[Len(records)]

\* The time of the browse is over, the quota is used up or the daemon is gone.
EndBrowse ==
    /\ search = "browsing"
    /\ discovered' = InsertAll(discovered, heard)
    /\ returned' = returned \o heard
    /\ search' = "between"
    /\ types' = Tail(types)
    /\ heard' = <<>>

\* The daemon cannot be started or does not browse: nothing is returned.
BrowseFails ==
    /\ search = "browsing" /\ heard = <<>>
    /\ search' = "failed"
    /\ UNCHANGED <<types, heard, returned, discovered>>

\* Both types were browsed, the time is over or there is no more room.
Finish ==
    /\ search = "between"
    /\ search' = "found"
    /\ UNCHANGED <<types, heard, returned, discovered>>

Search == BeginBrowse \/ EndBrowse \/ BrowseFails \/ Finish

DnsSdNext == Search \/ Resolved

DnsSdSpec == DnsSdInit /\ [][DnsSdNext]_dns_sd

-----------------------------------------------------------------------------

\* The search returns at most as many printers as allowed, each service once however its name
\* is spelled; unless it is full, it has every printer that a browse returned, each with what
\* it announced last, so that a printer that moved while it was looked for is found where it is.
LatestOfEach ==
    LET KeyOf(i) == Key(Printer(returned[i]))
        Printers == {i \in DOMAIN returned : Normal(returned[i])}
    IN  /\ Cardinality(discovered) <= MaximumServices
        /\ \A p, q \in discovered : Key(p) = Key(q) => p = q
        /\ \A p \in discovered : \E i \in Printers : p = Printer(returned[i])
        /\ Cardinality(discovered) < MaximumServices =>
               \A i \in Printers :
                   (\A j \in Printers : j > i => KeyOf(j) # KeyOf(i)) => Printer(returned[i]) \in discovered
=============================================================================
