-------------------------------- MODULE Agent --------------------------------
(***************************************************************************)
(* AgentExecutor: requests of a controller against locally published       *)
(* printers.  Inspections and probes only read; a change is planned by one  *)
(* request, confirmed by the user and applied by another, which re-reads   *)
(* the value, writes once and reads back.  Every exchange with the printer *)
(* is an await: other requests, publications, other users of the printer   *)
(* and lost answers come in between.  A request may be delivered again.    *)
(*                                                                         *)
(* IPP messages are reduced to what the code decides on: the value of a     *)
(* setting, whether it is settable, and the constraints on it.  The        *)
(* printer and the network are the environment.                            *)
(***************************************************************************)
EXTENDS Integers, FiniteSets

CONSTANTS
    Deliveries,     \* deliveries of requests to the agent
    Requests,       \* the requests: a set of records, see RequestType
    Endpoints,      \* network endpoints, each a device of its own
    Settings,       \* attributes with a "-supported" name or a plain one, see Kind
    Kind,           \* [Settings -> {"plain", "default", "supported"}]
    AllowedSettings,\* GuardedWritePolicy::allowed_settings
    Values,         \* typed IPP values: records [tag, data]
    Constraints,    \* sets of values a printer may advertise for a setting
    NoValue,        \* an attribute the printer does not report
    MaxGeneration,  \* bound on endpoint generations
    MaxTime,        \* bound on the clock
    MaxChanges,     \* bound on changes others make to the printers
    MaxRestarts     \* bound on restarts of the agent

Ops == {"inspect", "probe", "plan", "apply"}

RequestType ==
    [id : Nat, op : Ops, contract : {"ok", "refused"}, generation : Nat \ {0},
     expires : Nat, authorized : BOOLEAN, setting : Settings, fields : {"ok", "invalid"},
     old : Values, new : Values, planExpires : Nat]

ASSUME AgentAssumption ==
    /\ Requests \subseteq RequestType
    /\ NoValue \notin Values
    /\ AllowedSettings \subseteq Settings
    /\ MaxGeneration \in Nat \ {0} /\ MaxTime \in Nat
    /\ MaxChanges \in Nat /\ MaxRestarts \in Nat

VARIABLES
    now,        \* the clock
    published,  \* the published printer: [generation, endpoint], generation 0: none
    consumed,   \* guarded_write_requests
    pc,         \* [Deliveries -> TaskStates]: where the handler of a delivery awaits
    req,        \* [Deliveries -> Requests]
    held,       \* [Deliveries -> [endpoint, at]]: the endpoint and the time it captured
    kept,       \* [Deliveries -> the answer it keeps while it awaits another]
    reply,      \* [Deliveries -> answer to the exchange it awaits]
    cancelled,  \* deliveries whose token is cancelled
    outcome,    \* [Deliveries -> outcome or "none"]
    device,     \* [Endpoints -> [Settings -> what the printer says of the setting]]
    inFlight,   \* deliveries whose write is on its way to the printer
    transmitted,\* history: deliveries that transmitted a write, with the generation then published
                \* and the life of the agent, which is the number of restarts before it
    applied,    \* history: deliveries whose write took effect, with the value it replaced
    disturbed,  \* history: deliveries whose setting changed after their pre-write read
    changes, restarts

printer == <<device, inFlight, applied, disturbed>>
agent == <<published, consumed, restarts>>
task == <<pc, req, held, kept, reply>>
vars == <<now, agent, task, cancelled, outcome, printer, transmitted, changes>>

NoReply == [kind |-> "none"]

Waits == {"inspect", "probe", "plan", "planValues", "values", "reread", "write", "verify"}
TaskStates == Waits \cup {"free", "ended", "lost"}

Init ==
    /\ now = 0
    /\ published = [generation |-> 0, endpoint |-> CHOOSE e \in Endpoints : TRUE]
    /\ consumed = {}
    /\ pc = [d \in Deliveries |-> "free"]
    /\ req = [d \in Deliveries |-> CHOOSE r \in Requests : TRUE]
    /\ held = [d \in Deliveries |-> [endpoint |-> published.endpoint, at |-> 0]]
    /\ kept = [d \in Deliveries |-> NoReply]
    /\ reply = [d \in Deliveries |-> NoReply]
    /\ cancelled = {}
    /\ outcome = [d \in Deliveries |-> "none"]
    /\ device \in [Endpoints -> [Settings ->
           [value : Values, settable : {TRUE}, allowed : Constraints]]]
    /\ inFlight = {} /\ disturbed = {} /\ transmitted = {} /\ applied = {}
    /\ changes = 0 /\ restarts = 0

-----------------------------------------------------------------------------
(* mb-printer-core: administration *)

\* value_matches: a value [tag, data] against one advertised value; the data of an
\* integer or an enum n is <<n, n>>, of a range its bounds, of a URI its scheme and
\* the rest, of the boolean TRUE <<1, 1>>.
ValueMatches(requested, advertised) ==
    \/ advertised.tag = "admin-define" /\ requested.tag \in {"name", "nameWithLanguage"}
    \/ advertised.tag = "boolean" /\ advertised.data = <<1, 1>>
    \/ /\ advertised.tag = "range" /\ requested.tag \in {"integer", "range"}
       /\ requested.data[1] >= advertised.data[1] /\ requested.data[2] <= advertised.data[2]
    \/ /\ advertised.tag = "uriScheme" /\ requested.tag = "uri"
       /\ requested.data[1] = advertised.data[1]
    \/ advertised = requested

\* validate_requested_value: the constraints come from Get-Printer-Supported-Values for
\* a "-supported" setting, from the same observation for a "-default" one.
Validates(setting, requested, observation, supported) ==
    CASE Kind[setting] = "supported" -> \E a \in supported : ValueMatches(requested, a)
      [] Kind[setting] = "default" -> \E a \in observation.allowed : ValueMatches(requested, a)
      [] OTHER -> TRUE

CompatibleSyntax(current, requested) ==
    \/ current.tag = requested.tag
    \/ {current.tag, requested.tag} = {"name", "nameWithLanguage"}
    \/ {current.tag, requested.tag} = {"text", "textWithLanguage"}

\* normalized_setting_value drops the language and tells integers from nothing else.
Normalized(value) ==
    [data |-> value.data,
     family |-> CASE value.tag \in {"integer", "enum"} -> "integer"
                  [] value.tag \in {"name", "nameWithLanguage", "text", "textWithLanguage"} -> "text"
                  [] OTHER -> value.tag]

\* plan_ipp_change_with_supported_values.
Plannable(r, observation, supported) ==
    /\ observation.settable
    /\ observation.value # NoValue
    /\ Kind[r.setting] # "supported" => CompatibleSyntax(observation.value, r.new)
    /\ Validates(r.setting, r.new, observation, supported)

\* Mutant of StillConfirmed: the value is not compared with the confirmed one.
StillConfirmedUnread(r, at, observation, supported) ==
    /\ at < r.planExpires
    /\ observation.settable
    /\ Validates(r.setting, r.new, observation, supported)

\* validate_confirmed_ipp_change_with_supported_values; the binding and the plan are
\* made from one request, so their identities agree.
StillConfirmed(r, at, observation, supported) ==
    /\ at < r.planExpires
    /\ observation.settable
    /\ observation.value = r.old
    /\ Validates(r.setting, r.new, observation, supported)

\* ipp_change_is_applied.
IsApplied(r, observation) ==
    observation.value # NoValue /\ Normalized(observation.value) = Normalized(r.new)

-----------------------------------------------------------------------------
(* mb-printer-agent: the synchronous part of the three handlers *)

Ends(d, result) ==
    /\ pc' = [pc EXCEPT ![d] = "ended"]
    /\ outcome' = [outcome EXCEPT ![d] = result]
    /\ reply' = [reply EXCEPT ![d] = NoReply]
    /\ kept' = [kept EXCEPT ![d] = NoReply]

\* Await an exchange of kind w with the printer.
Awaits(d, w) ==
    /\ pc' = [pc EXCEPT ![d] = w]
    /\ reply' = [reply EXCEPT ![d] = NoReply]
    /\ UNCHANGED outcome

\* validate_request, the contract version, the published printer and its generation,
\* and the policy: output mode, probe registry or allowed settings.
Admissible(r) ==
    /\ r.contract = "ok" /\ r.expires > now
    /\ published.generation # 0 /\ published.generation = r.generation
    /\ IF r.op \in {"plan", "apply"} THEN r.setting \in AllowedSettings ELSE r.authorized

\* Mutant of Fresh: the identifier is remembered, not tested.
FreshAlways(r) == TRUE

\* The identifier of a guarded write is used up when the request is accepted.
Fresh(r) == r.op = "apply" => r.id \notin consumed

FieldsValid(r) ==
    r.fields = "ok" /\ (r.op = "apply" => r.planExpires <= r.expires)

FirstWait(r) ==
    CASE r.op = "apply" -> IF Kind[r.setting] = "supported" THEN "values" ELSE "reread"
      [] OTHER -> r.op

\* A request arrives: it is rejected, or runs up to its first await.
Deliver(d, r) ==
    /\ pc[d] = "free"
    /\ req' = [req EXCEPT ![d] = r]
    /\ held' = [held EXCEPT ![d] = [endpoint |-> published.endpoint, at |-> now]]
    /\ \/ /\ ~(Admissible(r) /\ Fresh(r))
          /\ Ends(d, "NotAccepted")
          /\ UNCHANGED consumed
       \/ /\ Admissible(r) /\ Fresh(r)
          /\ consumed' = consumed \cup {q \in {r.id} : r.op = "apply"}
          /\ CASE d \in cancelled -> Ends(d, "Cancelled")
               [] d \notin cancelled /\ r.op \in {"plan", "apply"} /\ ~FieldsValid(r) ->
                      Ends(d, IF r.op = "plan" THEN "Failed" ELSE "Rejected")
               [] OTHER -> Awaits(d, FirstWait(r)) /\ UNCHANGED kept
    /\ UNCHANGED <<now, published, restarts, cancelled, printer, transmitted, changes>>

-----------------------------------------------------------------------------
(* Exchanges *)

setAside == <<now, agent, req, held, cancelled, device, applied, disturbed, changes>>

\* execute_initial and execute_registered_probe: the answer is turned into a result,
\* which policy, size or form may still refuse.
Answered(d) ==
    /\ pc[d] \in {"inspect", "probe"}
    /\ reply[d] # NoReply
    /\ \E result \in {"Succeeded", "Failed", "ResponseTooLarge"} : Ends(d, result)
    /\ UNCHANGED <<setAside, inFlight, transmitted>>

\* Mutant of CancelWins: a probe is not raced with its cancellation.
CancelWinsInspection(d) ==
    /\ pc[d] = "inspect"
    /\ d \in cancelled
    /\ Ends(d, "Cancelled")
    /\ UNCHANGED <<setAside, inFlight, transmitted>>

\* Inspections and probes are raced with cancellation, changes are not.
CancelWins(d) ==
    /\ pc[d] \in {"inspect", "probe"}
    /\ d \in cancelled
    /\ Ends(d, "Cancelled")
    /\ UNCHANGED <<setAside, inFlight, transmitted>>

\* plan_change, and the receipt of plan_cloud_change.
Receipt(d, observation, supported) ==
    IF Plannable(req[d], observation, supported)
    THEN \E result \in {"Succeeded", "ResponseTooLarge"} : Ends(d, result)
    ELSE Ends(d, "Rejected")

Planned(d) ==
    /\ pc[d] = "plan"
    /\ reply[d] # NoReply
    /\ IF Kind[req[d].setting] = "supported"
       THEN Awaits(d, "planValues") /\ kept' = [kept EXCEPT ![d] = reply[d]]
       ELSE Receipt(d, reply[d], {})
    /\ UNCHANGED <<setAside, inFlight, transmitted>>

PlannedWithValues(d) ==
    /\ pc[d] = "planValues"
    /\ reply[d] # NoReply
    /\ Receipt(d, kept[d], reply[d].allowed)
    /\ UNCHANGED <<setAside, inFlight, transmitted>>

\* apply_confirmed_change, up to the pre-write read.
GotValues(d) ==
    /\ pc[d] = "values"
    /\ reply[d] # NoReply
    /\ kept' = [kept EXCEPT ![d] = reply[d]]
    /\ Awaits(d, "reread")
    /\ UNCHANGED <<setAside, inFlight, transmitted>>

Supported(d) == IF kept[d] = NoReply THEN {} ELSE kept[d].allowed

Transmission(d) == [delivery |-> d, generation |-> published.generation, life |-> restarts]

\* The validation and the transmission of the write.
Reread(d) ==
    /\ pc[d] = "reread"
    /\ reply[d] # NoReply
    /\ IF StillConfirmed(req[d], held[d].at, reply[d], Supported(d))
       THEN /\ Awaits(d, "write")
            /\ inFlight' = inFlight \cup {d}
            /\ transmitted' = transmitted \cup {Transmission(d)}
            /\ UNCHANGED kept
       ELSE /\ Ends(d, "Rejected")
            /\ UNCHANGED <<inFlight, transmitted>>
    /\ UNCHANGED setAside

Written(d) ==
    /\ pc[d] = "write"
    /\ reply[d] # NoReply
    /\ IF reply[d].kind = "refused" THEN Ends(d, "Rejected")
       ELSE Awaits(d, "verify") /\ UNCHANGED kept
    /\ UNCHANGED <<setAside, inFlight, transmitted>>

Verified(d) ==
    /\ pc[d] = "verify"
    /\ reply[d] # NoReply
    /\ Ends(d, IF IsApplied(req[d], reply[d]) THEN "Succeeded" ELSE "Failed")
    /\ UNCHANGED <<setAside, inFlight, transmitted>>

\* Mutant of ErrorOutcomes: a failed write is taken for one that was not sent.
ErrorOutcomesAsRejection(w) ==
    CASE w \in {"values", "reread", "write"} -> {"Rejected"}
      [] w = "verify" -> {"AmbiguousWrite"}
      [] w = "probe" -> {"Failed"}
      [] OTHER -> {"TimedOut", "ResponseTooLarge", "Failed"}

\* safe_client_error, and what apply_cloud_change makes of a failed exchange.
ErrorOutcomes(w) ==
    CASE w \in {"values", "reread"} -> {"Rejected"}
      [] w \in {"write", "verify"} -> {"AmbiguousWrite"}
      [] w = "probe" -> {"Failed"}
      [] OTHER -> {"TimedOut", "ResponseTooLarge", "Failed"}

\* IppClient::inspect fails: the timeout, the connection, the HTTP status, the size, the
\* encoding or the correlation of the answer.  A probe's runner has its own timeout.
ExchangeFails(d) ==
    /\ pc[d] \in Waits \ {"probe"}
    /\ \E result \in ErrorOutcomes(pc[d]) : Ends(d, result)
    /\ UNCHANGED <<setAside, inFlight, transmitted>>

RunnerFails(d) ==
    /\ pc[d] = "probe"
    /\ Ends(d, "Failed")
    /\ UNCHANGED <<setAside, inFlight, transmitted>>

-----------------------------------------------------------------------------
(* The printers, the network and the surroundings of the agent *)

At(d) == device[held[d].endpoint][req[d].setting]

\* The printer answers a read.
Answer(d) ==
    /\ pc[d] \in Waits \ {"write"}
    /\ reply[d] = NoReply
    /\ reply' = [reply EXCEPT ![d] = [kind |-> "answer", value |-> At(d).value,
                                      settable |-> At(d).settable, allowed |-> At(d).allowed]]
    /\ UNCHANGED <<now, agent, pc, req, held, kept, cancelled, outcome, printer, transmitted, changes>>

\* The handlers that have read setting s of e and may still write it.
Confident(e, s) ==
    {d \in Deliveries : /\ held[d].endpoint = e /\ req[d].setting = s
                        /\ d \in inFlight \/ (pc[d] = "reread" /\ reply[d] # NoReply)}

\* The printer gets a write, perhaps after the agent stopped waiting: it takes it, says
\* it does and keeps its value, or refuses it.
GetWrite(d) ==
    /\ d \in inFlight
    /\ inFlight' = inFlight \ {d}
    /\ \E how \in {"taken", "ignored", "refused"} :
           /\ IF how = "taken"
              THEN /\ device' = [device EXCEPT ![held[d].endpoint][req[d].setting].value = req[d].new]
                   /\ disturbed' = disturbed \cup (Confident(held[d].endpoint, req[d].setting) \ {d})
                   /\ applied' = applied \cup {[delivery |-> d, replaced |-> At(d).value]}
              ELSE UNCHANGED <<device, applied, disturbed>>
           /\ reply' = IF pc[d] = "write" THEN [reply EXCEPT ![d] = [kind |-> how]] ELSE reply
    /\ UNCHANGED <<now, agent, pc, req, held, kept, cancelled, outcome, transmitted, changes>>

\* Somebody else changes a printer.
Change ==
    /\ changes < MaxChanges
    /\ changes' = changes + 1
    /\ \E e \in Endpoints, s \in Settings :
           /\ \/ \E v \in Values \cup {NoValue} : device' = [device EXCEPT ![e][s].value = v]
              \/ device' = [device EXCEPT ![e][s].settable = ~@]
              \/ \E a \in Constraints : device' = [device EXCEPT ![e][s].allowed = a]
           /\ disturbed' = disturbed \cup Confident(e, s)
    /\ UNCHANGED <<now, agent, task, cancelled, outcome, inFlight, applied, transmitted>>

Cancel(d) ==
    /\ pc[d] \in {"free"} \cup Waits
    /\ cancelled' = cancelled \cup {d}
    /\ UNCHANGED <<now, agent, task, outcome, printer, transmitted, changes>>

\* publish replaces the printer of that identifier, whatever its generation was.
Publish ==
    /\ \E g \in 1..MaxGeneration, e \in Endpoints :
           published' = [generation |-> g, endpoint |-> e]
    /\ UNCHANGED <<now, consumed, restarts, task, cancelled, outcome, printer, transmitted, changes>>

Tick ==
    /\ now < MaxTime
    /\ now' = now + 1
    /\ UNCHANGED <<agent, task, cancelled, outcome, printer, transmitted, changes>>

\* A new process: what the agent knew is lost, what it sent is not.
Restart ==
    /\ restarts < MaxRestarts
    /\ restarts' = restarts + 1
    /\ published' = [published EXCEPT !.generation = 0]
    /\ consumed' = {}
    /\ pc' = [d \in Deliveries |-> IF pc[d] \in Waits THEN "lost" ELSE pc[d]]
    /\ reply' = [d \in Deliveries |-> NoReply]
    /\ UNCHANGED <<now, req, held, kept, cancelled, outcome, printer, transmitted, changes>>

-----------------------------------------------------------------------------

Step(d) ==
    \/ Answered(d) \/ CancelWins(d) \/ Planned(d) \/ PlannedWithValues(d)
    \/ GotValues(d) \/ Reread(d) \/ Written(d) \/ Verified(d)
    \/ ExchangeFails(d)

Next ==
    \/ \E d \in Deliveries :
           \/ \E r \in Requests : Deliver(d, r)
           \/ Step(d) \/ RunnerFails(d) \/ Answer(d) \/ GetWrite(d) \/ Cancel(d)
    \/ Change \/ Publish \/ Tick \/ Restart

Spec == Init /\ [][Next]_vars

\* The runtime polls every handler, and its timers end every exchange.
FairSpec == Spec /\ \A d \in Deliveries : WF_vars(Step(d))

-----------------------------------------------------------------------------

Outcomes ==
    {"NotAccepted", "Succeeded", "Rejected", "Cancelled", "TimedOut", "ResponseTooLarge",
     "AmbiguousWrite", "Failed"}

Answers ==
    {NoReply} \cup [kind : {"taken", "ignored", "refused"}] \cup
    [kind : {"answer"}, value : Values \cup {NoValue}, settable : BOOLEAN, allowed : Constraints]

\* Types; and a handler that has ended has an outcome.
TypeOK ==
    /\ now \in 0..MaxTime
    /\ published \in [generation : 0..MaxGeneration, endpoint : Endpoints]
    /\ consumed \in SUBSET {r.id : r \in Requests}
    /\ pc \in [Deliveries -> TaskStates]
    /\ req \in [Deliveries -> Requests]
    /\ held \in [Deliveries -> [endpoint : Endpoints, at : 0..MaxTime]]
    /\ kept \in [Deliveries -> Answers] /\ reply \in [Deliveries -> Answers]
    /\ cancelled \in SUBSET Deliveries
    /\ outcome \in [Deliveries -> Outcomes \cup {"none"}]
    /\ device \in [Endpoints -> [Settings ->
           [value : Values \cup {NoValue}, settable : BOOLEAN, allowed : Constraints]]]
    /\ inFlight \in SUBSET Deliveries
    /\ transmitted \in SUBSET [delivery : Deliveries, generation : 0..MaxGeneration, life : 0..MaxRestarts]
    /\ applied \in SUBSET [delivery : Deliveries, replaced : Values \cup {NoValue}]
    /\ disturbed \in SUBSET Deliveries
    /\ changes \in 0..MaxChanges /\ restarts \in 0..MaxRestarts
    /\ \A d \in Deliveries : (pc[d] = "ended") = (outcome[d] # "none")

\* In one life of the agent a confirmed change is written at most once, however often its
\* request is delivered, and whichever deliveries run at the same time.  The identifiers
\* that were used are in memory: after a restart the change can be written once more.
OneWritePerRequest ==
    \A s, t \in transmitted :
        s.life = t.life /\ req[s.delivery].id = req[t.delivery].id => s = t

\* A result other than success, a mismatch or an ambiguous write says that the printer
\* did not and will not take the change; and a handler that has not come to its write
\* has not sent one.
EffectsAreReported ==
    \A d \in Deliveries :
        d \in inFlight \/ (\E a \in applied : a.delivery = d) =>
            \/ pc[d] \in {"write", "verify", "lost"}
            \/ outcome[d] \in {"Succeeded", "Failed", "AmbiguousWrite"}

\* A write replaces exactly the value that was confirmed, unless the setting changed
\* between the pre-write read and the write, the only gap there is.
ReplacesConfirmedUndisturbed ==
    \A a \in applied : a.delivery \notin disturbed => a.replaced = req[a.delivery].old

\* Every handler but a probe's ends, whatever the printer does; a cancelled probe ends
\* although its runner never answers.
EveryRequestEnds ==
    \A d \in Deliveries :
        (pc[d] \in Waits \ {"probe"} \/ (pc[d] = "probe" /\ d \in cancelled)) ~> pc[d] \notin Waits

Sent(d) == \E t \in transmitted : t.delivery = d
Wrote(d) == \E t \in transmitted : t.delivery = d /\ t.life = restarts
Took(d) == \E a \in applied : a.delivery = d

\* The deliveries of guarded writes that this life of the agent accepted and that run, or
\* have written.
Engaged(d) == req[d].op = "apply" /\ (pc[d] \in Waits \/ Wrote(d))

\* The inductive invariant: what is said above, the answer to a write tells whether the
\* printer took it, only guarded writes come to the write, each once, and the identifiers
\* of those this life of the agent has under way are used up and distinct.
AgentInv ==
    /\ TypeOK /\ EffectsAreReported /\ OneWritePerRequest
    /\ \A d \in Deliveries :
           /\ pc[d] = "write" =>
                  IF reply[d] = NoReply THEN ~Took(d)
                  ELSE d \notin inFlight /\ (reply[d].kind = "refused" => ~Took(d))
           /\ pc[d] \in {"values", "reread", "write", "verify"} \/ Sent(d) => req[d].op = "apply"
           /\ Sent(d) => pc[d] \in {"write", "verify", "ended", "lost"}
           /\ Engaged(d) => req[d].id \in consumed
    /\ \A s, t \in transmitted : s.delivery = t.delivery => s = t
    /\ \A t \in transmitted : t.life <= restarts
    /\ \A c, d \in Deliveries : Engaged(c) /\ Engaged(d) /\ req[c].id = req[d].id => c = d

\* A write is transmitted only under the generation its request is bound to.
WritesCurrentGeneration ==
    \A t \in transmitted : t.generation = req[t.delivery].generation
=============================================================================
