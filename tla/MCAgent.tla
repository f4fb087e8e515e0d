------------------------------ MODULE MCAgent -------------------------------
(* Requests, settings and values for the model checking of Agent. *)
EXTENDS Agent, TLC

Name(n) == [tag |-> "name", data |-> <<n, n>>]
Localized(n) == [tag |-> "nameWithLanguage", data |-> <<n, n>>]
Number(n) == [tag |-> "integer", data |-> <<n, n>>]
Between(m, n) == [tag |-> "range", data |-> <<m, n>>]

MCNames == {Name(1), Name(2), Localized(2)}
MCNumbers == {Number(1), Number(3)}
MCKind == [location |-> "plain", copies_default |-> "default", copies_supported |-> "supported"]

\* What a request has unless a run says otherwise.
Common ==
    [id |-> 1, op |-> "apply", contract |-> "ok", generation |-> 1, expires |-> 2,
     authorized |-> TRUE, setting |-> "location", fields |-> "ok",
     old |-> Name(1), new |-> Name(2), planExpires |-> 1]

\* Two confirmed changes of one setting; a value with a language is another value that
\* reads back the same.
Changes == {Common, [Common EXCEPT !.id = 2, !.new = Localized(2), !.planExpires = 2]}

\* Inspections, probes, plans and a change of the two kinds of constrained settings,
\* with the requests that are turned away.
Constrained == [Common EXCEPT !.setting = "copies_default", !.old = Number(1), !.new = Number(3)]
Mixed ==
    {[Constrained EXCEPT !.op = "inspect", !.id = 2],
     [Constrained EXCEPT !.op = "probe", !.id = 3],
     [Constrained EXCEPT !.op = "plan", !.id = 4],
     [Constrained EXCEPT !.op = "plan", !.id = 5, !.setting = "copies_supported"],
     [Constrained EXCEPT !.op = "plan", !.id = 6, !.setting = "copies_supported", !.fields = "invalid"],
     [Constrained EXCEPT !.setting = "copies_supported"],
     [Constrained EXCEPT !.id = 7, !.planExpires = 3],
     [Constrained EXCEPT !.id = 8, !.contract = "refused"]}

MCRequests == Changes \cup Mixed
MCValues == MCNames \cup MCNumbers

MCConstraints == {{Between(1, 3)}, {Number(1)}}
MCUnconstrained == {{}}
MCEither == MCConstraints \cup MCUnconstrained

Says(e, setting, values, constraints) ==
    /\ device[e][setting].value \in values
    /\ device[e][setting].allowed \in constraints

\* Deliveries of the two changes run at the same time or one after the other, and the agent is
\* restarted or somebody else changes the printer; nothing happens to the other settings.
ConcurrentChanges ==
    /\ restarts + changes <= 1 /\ published.generation <= 1
    /\ \A d \in Deliveries : pc[d] = "free" \/ req[d] \in Changes
    /\ \A e \in Endpoints :
           /\ Says(e, "location", MCNames, MCUnconstrained)
           /\ \A s \in Settings \ {"location"} :
                  device[e][s] = [value |-> Number(1), settable |-> TRUE, allowed |-> {Number(1)}]

\* One request of any kind, with restarts and printers that are published again.
SingleRequest ==
    /\ \E d \in Deliveries :
           /\ pc[d] = "free" \/ req[d] \in Mixed
           /\ \A c \in Deliveries \ {d} : pc[c] = "free" /\ c \notin cancelled
           /\ d = CHOOSE c \in Deliveries : TRUE
    /\ \A e \in Endpoints :
           /\ device[e]["location"] = [value |-> Name(1), settable |-> TRUE, allowed |-> {}]
           /\ \A s \in Settings \ {"location"} : Says(e, s, MCNumbers \cup {NoValue}, MCConstraints)

\* The agent, in these two situations.
MCSpec ==
    /\ Init /\ (ConcurrentChanges \/ SingleRequest)
    /\ \A e \in Endpoints : device[e]["copies_default"] = device[e]["copies_supported"]
    /\ [][Next /\ (ConcurrentChanges' \/ SingleRequest')]_vars
    /\ \A d \in Deliveries : WF_vars(Step(d))
=============================================================================
