---------------------------- MODULE AgentProofs -----------------------------
(***************************************************************************)
(* For any number of deliveries, requests, settings and printers: no        *)
(* result hides a write, an agent that is not restarted writes a confirmed  *)
(* change at most once, and a write replaces the value that was confirmed   *)
(* unless the setting changed after it was read for the write.             *)
(***************************************************************************)
EXTENDS Agent, TLAPS

\* Nothing has been delivered, written or consumed.
LEMMA AgentInit ==
    ASSUME Requests # {}, Endpoints # {}, Init
    PROVE  AgentInv
<1>1. (CHOOSE r \in Requests : TRUE) \in Requests /\ (CHOOSE e \in Endpoints : TRUE) \in Endpoints
    OBVIOUS
<1>2. device \in [Endpoints -> [Settings ->
          [value : Values \cup {NoValue}, settable : BOOLEAN, allowed : Constraints]]]
    <2>1. \A f \in [value : Values, settable : {TRUE}, allowed : Constraints] :
              f \in [value : Values \cup {NoValue}, settable : BOOLEAN, allowed : Constraints]
        OBVIOUS
    <2> QED
        BY <2>1, Zenon DEF Init
<1>3. /\ published \in [generation : 0..MaxGeneration, endpoint : Endpoints]
      /\ now \in 0..MaxTime /\ changes \in 0..MaxChanges /\ restarts \in 0..MaxRestarts
    BY <1>1, AgentAssumption DEF Init
<1>4. held \in [Deliveries -> [endpoint : Endpoints, at : 0..MaxTime]]
    BY <1>1, AgentAssumption DEF Init
<1>5. TypeOK
    BY <1>1, <1>2, <1>3, <1>4 DEF Init, TypeOK, TaskStates, Waits, Answers, Outcomes
<1> QED
    BY <1>5 DEF Init, AgentInv, EffectsAreReported, OneWritePerRequest, Sent, Wrote, Took, Engaged, Waits

\* A step that transmits nothing keeps the writes apart.
LEMMA NoNewWrite ==
    ASSUME AgentInv, transmitted' = transmitted,
           \A t \in transmitted : req'[t.delivery] = req[t.delivery]
    PROVE  OneWritePerRequest'
<1>1. OneWritePerRequest
    BY Zenon DEF AgentInv
<1> QED
    BY <1>1 DEF OneWritePerRequest

\* A handler that ends or goes on to its next exchange, without a new write: it may
\* not end as if nothing had happened when its write is or may be in the printer.
LEMMA MoveStep ==
    ASSUME AgentInv, NEW d \in Deliveries,
           NEW w \in {"ended", "planValues", "reread", "verify"},
           NEW o \in Outcomes \cup {"none"},
           pc[d] \in Waits,
           pc' = [pc EXCEPT ![d] = w],
           outcome' = [outcome EXCEPT ![d] = o],
           reply' = [reply EXCEPT ![d] = NoReply],
           kept' \in [Deliveries -> Answers],
           UNCHANGED <<now, agent, req, held, cancelled, printer, transmitted, changes>>,
           (w = "ended") = (o # "none"),
           w = "reread" => pc[d] = "values",
           w = "verify" => pc[d] = "write",
           d \in inFlight \/ Took(d) =>
               w = "verify" \/ o \in {"Succeeded", "Failed", "AmbiguousWrite"},
           w = "planValues" => pc[d] = "plan"
    PROVE  AgentInv'
<1>1. TypeOK'
    BY Zenon DEF AgentInv, TypeOK, TaskStates, Waits, Answers, agent, printer
<1>2. /\ \A c \in Deliveries : Sent(c)' = Sent(c) /\ Wrote(c)' = Wrote(c) /\ Took(c)' = Took(c)
      /\ \A c \in Deliveries : pc'[c] = IF c = d THEN w ELSE pc[c]
      /\ \A c \in Deliveries : outcome'[c] = IF c = d THEN o ELSE outcome[c]
      /\ \A c \in Deliveries : c # d => reply'[c] = reply[c]
      /\ req' = req /\ inFlight' = inFlight /\ consumed' = consumed /\ restarts' = restarts
      /\ transmitted' = transmitted /\ applied' = applied
    BY DEF AgentInv, TypeOK, Sent, Wrote, Took, agent, printer
<1>3. EffectsAreReported'
    BY <1>2 DEF AgentInv, EffectsAreReported, Took
<1>4. \A c \in Deliveries : Engaged(c)' => Engaged(c)
    BY <1>2 DEF Engaged, Waits
<1>5. ASSUME NEW c \in Deliveries
      PROVE  /\ pc'[c] = "write" =>
                   IF reply'[c] = NoReply THEN ~Took(c)'
                   ELSE c \notin inFlight' /\ (reply'[c].kind = "refused" => ~Took(c)')
             /\ pc'[c] \in {"values", "reread", "write", "verify"} \/ Sent(c)' => req'[c].op = "apply"
             /\ Sent(c)' => pc'[c] \in {"write", "verify", "ended", "lost"}
    <2>1. CASE c = d
        BY <1>2, <2>1 DEF AgentInv, Waits
    <2>2. CASE c # d
        BY <1>2, <2>2 DEF AgentInv
    <2> QED
        BY <2>1, <2>2
<1>6. OneWritePerRequest'
    BY <1>2, NoNewWrite
<1> QED
    BY <1>1, <1>2, <1>3, <1>4, <1>5, <1>6 DEF AgentInv

\* The handlers that decide on an answer, other than the one that writes.
LEMMA HandlerStep ==
    ASSUME AgentInv, NEW d \in Deliveries,
           \/ Answered(d) \/ CancelWins(d) \/ Planned(d) \/ PlannedWithValues(d)
           \/ GotValues(d) \/ Written(d) \/ Verified(d) \/ ExchangeFails(d) \/ RunnerFails(d)
    PROVE  AgentInv'
<1> USE DEF Ends, Awaits, setAside, printer
<1>0. /\ reply \in [Deliveries -> Answers] /\ kept \in [Deliveries -> Answers]
      /\ NoReply \in Answers /\ outcome \in [Deliveries -> Outcomes \cup {"none"}]
      /\ (pc[d] = "ended") = (outcome[d] # "none")
      /\ outcome = [outcome EXCEPT ![d] = outcome[d]]
    BY DEF AgentInv, TypeOK, Answers
\* Only a handler that has come to its write has one in the printer.
<1>1. d \in inFlight \/ Took(d) => pc[d] \notin Waits \/ pc[d] \in {"write", "verify"}
    BY <1>0 DEF AgentInv, EffectsAreReported, Took, Waits
<1>a. CASE Answered(d)
    <2>1. PICK o \in {"Succeeded", "Failed", "ResponseTooLarge"} : Ends(d, o)
        BY <1>a, Zenon DEF Answered
    <2> QED
        BY <1>0, <1>1, <1>a, <2>1, MoveStep, Zenon DEF Answered, Waits, Outcomes
<1>b. CASE CancelWins(d)
    BY <1>0, <1>1, <1>b, MoveStep, Zenon DEF CancelWins, Waits, Outcomes
<1>c. CASE Planned(d)
    <2>1. CASE Kind[req[d].setting] = "supported"
        BY <1>0, <1>1, <1>c, <2>1, MoveStep DEF Planned, Waits
    <2>2. CASE Kind[req[d].setting] # "supported"
        <3>1. PICK o \in {"Succeeded", "ResponseTooLarge", "Rejected"} : Ends(d, o)
            BY <1>c, <2>2 DEF Planned, Receipt
        <3> QED
            BY <1>0, <1>1, <1>c, <3>1, MoveStep, Zenon DEF Planned, Waits, Outcomes
    <2> QED
        BY <2>1, <2>2
<1>d. CASE PlannedWithValues(d)
    <2>1. PICK o \in {"Succeeded", "ResponseTooLarge", "Rejected"} : Ends(d, o)
        BY <1>d DEF PlannedWithValues, Receipt
    <2> QED
        BY <1>0, <1>1, <1>d, <2>1, MoveStep, Zenon DEF PlannedWithValues, Waits, Outcomes
<1>e. CASE GotValues(d)
    BY <1>0, <1>1, <1>e, MoveStep, Zenon DEF GotValues, Waits
<1>f. CASE Written(d)
    <2>1. CASE reply[d].kind = "refused"
        <3>1. ~(d \in inFlight \/ Took(d))
            BY <1>f, <2>1 DEF Written, AgentInv
        <3> QED
            BY <1>0, <3>1, <1>f, <2>1, MoveStep, SMTT(30) DEF Written, Waits, Outcomes
    <2>2. CASE reply[d].kind # "refused"
        BY <1>0, <1>f, <2>2, MoveStep DEF Written, Waits
    <2> QED
        BY <2>1, <2>2, SMTT(30)
<1>g. CASE Verified(d)
    <2>1. PICK o \in {"Succeeded", "Failed"} : Ends(d, o)
        <3>1. Ends(d, IF IsApplied(req[d], reply[d]) THEN "Succeeded" ELSE "Failed")
            BY <1>g DEF Verified
        <3>2. Ends(d, "Succeeded") \/ Ends(d, "Failed")
            BY <3>1, Zenon
        <3> QED
            BY <3>2, Zenon
    <2>2. pc[d] = "verify" /\ UNCHANGED <<setAside, inFlight, transmitted>>
        BY <1>g DEF Verified
    <2> QED
        BY <1>0, <2>1, <2>2, MoveStep, Zenon DEF Waits, Outcomes
<1>h. CASE ExchangeFails(d)
    <2>1. PICK o \in ErrorOutcomes(pc[d]) : Ends(d, o)
        BY <1>h, ZenonT(40) DEF ExchangeFails
    <2>2. /\ o \in Outcomes /\ o # "none"
          /\ pc[d] \in {"write", "verify"} => o = "AmbiguousWrite"
        BY <1>h, <2>1 DEF ErrorOutcomes, Outcomes, Waits, ExchangeFails
    <2> QED
        BY <1>0, <1>1, <1>h, <2>1, <2>2, MoveStep, Zenon DEF ExchangeFails, Waits
<1>i. CASE RunnerFails(d)
    BY <1>0, <1>1, <1>i, MoveStep, Zenon DEF RunnerFails, Waits, Outcomes
<1> QED
    BY <1>a, <1>b, <1>c, <1>d, <1>e, <1>f, <1>g, <1>h, <1>i

\* A request is rejected, or it is a new guarded write or a reading request.
LEMMA DeliverStep ==
    ASSUME AgentInv, NEW d \in Deliveries, NEW r \in Requests, Deliver(d, r)
    PROVE  AgentInv'
<1> USE DEF Ends, Awaits, printer
<1>0. r \in RequestType
    BY AgentAssumption
\* A delivery that has not begun has nothing in the printer.
<1>1. /\ pc[d] = "free" /\ outcome[d] = "none"
      /\ d \notin inFlight /\ ~Took(d) /\ ~Sent(d) /\ ~Wrote(d) /\ ~Engaged(d)
    BY Zenon DEF Deliver, AgentInv, TypeOK, EffectsAreReported, Took, Sent, Wrote, Engaged, Waits
<1>2. FirstWait(r) \in Waits \ {"write", "verify", "planValues"}
    BY <1>0 DEF FirstWait, RequestType, Ops, Waits
<1>3. FirstWait(r) \in {"values", "reread"} => r.op = "apply"
    BY <1>0 DEF FirstWait, RequestType, Ops
<1>4. /\ req' = [req EXCEPT ![d] = r]
      /\ UNCHANGED <<now, published, restarts, cancelled, printer, transmitted, changes>>
      /\ held' = [held EXCEPT ![d] = [endpoint |-> published.endpoint, at |-> now]]
    BY DEF Deliver
\* Where the handler stands after its synchronous part.
<1> DEFINE Used == consumed \cup {q \in {r.id} : r.op = "apply"}
           Stands(w, o) ==
               /\ pc' = [pc EXCEPT ![d] = w]
               /\ outcome' = [outcome EXCEPT ![d] = o]
               /\ reply' = [reply EXCEPT ![d] = NoReply]
               /\ kept' \in [Deliveries -> Answers]
               /\ (w = "ended") = (o # "none")
               /\ consumed' \in {consumed, Used}
               /\ w # "ended" => Fresh(r) /\ consumed' = Used
<1>5. \E w \in {"ended", FirstWait(r)}, o \in Outcomes \cup {"none"} : Stands(w, o)
    <2>0. /\ reply \in [Deliveries -> Answers] /\ kept \in [Deliveries -> Answers]
          /\ NoReply \in Answers
          /\ outcome = [outcome EXCEPT ![d] = "none"]
        BY <1>1 DEF AgentInv, TypeOK, Answers
    <2>1. ASSUME NEW o \in {"NotAccepted", "Cancelled", "Failed", "Rejected"},
                 Ends(d, o), consumed' \in {consumed, Used}
          PROVE  Stands("ended", o)
        BY <2>0, <2>1
    <2>2. {"NotAccepted", "Cancelled", "Failed", "Rejected"} \subseteq Outcomes
        BY DEF Outcomes
    <2>3. CASE ~(Admissible(r) /\ Fresh(r))
        <3>1. Ends(d, "NotAccepted") /\ consumed' = consumed
            BY <2>3 DEF Deliver
        <3>2. Stands("ended", "NotAccepted")
            BY <2>1, <3>1
        <3> QED
            BY <2>2, <3>2, Zenon
    <2>4. CASE Admissible(r) /\ Fresh(r)
        <3>1. consumed' = Used
            BY <2>4 DEF Deliver
        <3>2. \/ \E o \in {"Cancelled", "Failed", "Rejected"} : Ends(d, o)
              \/ Awaits(d, FirstWait(r)) /\ UNCHANGED kept
            <4>1. CASE d \in cancelled
                <5>1. Ends(d, "Cancelled")
                    BY <2>4, <4>1 DEF Deliver
                <5> QED
                    BY <5>1, Zenon
            <4>2. CASE d \notin cancelled /\ r.op \in {"plan", "apply"} /\ ~FieldsValid(r)
                <5>1. Ends(d, IF r.op = "plan" THEN "Failed" ELSE "Rejected")
                    BY <2>4, <4>2 DEF Deliver
                <5>2. Ends(d, "Failed") \/ Ends(d, "Rejected")
                    BY <5>1, Zenon
                <5> QED
                    BY <5>2, Zenon
            <4>3. CASE ~(d \in cancelled) /\ ~(r.op \in {"plan", "apply"} /\ ~FieldsValid(r))
                BY <2>4, <4>3 DEF Deliver
            <4> QED
                BY <4>1, <4>2, <4>3
        <3>3. CASE \E o \in {"Cancelled", "Failed", "Rejected"} : Ends(d, o)
            <4>1. PICK o \in {"Cancelled", "Failed", "Rejected"} : Ends(d, o)
                BY <3>3, Zenon
            <4>2. Stands("ended", o)
                BY <2>1, <3>1, <4>1, Zenon
            <4> QED
                BY <2>2, <4>2, Zenon
        <3>4. CASE Awaits(d, FirstWait(r)) /\ UNCHANGED kept
            <4>1. Stands(FirstWait(r), "none")
                BY <1>2, <2>0, <2>4, <3>1, <3>4 DEF Waits
            <4> QED
                BY <4>1, Zenon
        <3> QED
            BY <3>2, <3>3, <3>4
    <2> QED
        BY <2>3, <2>4
<1>6. PICK w \in {"ended", FirstWait(r)}, o \in Outcomes \cup {"none"} : Stands(w, o)
    BY <1>5, Zenon
<1> USE <1>6
<1>7. TypeOK'
    <2>1. Used \in SUBSET {q.id : q \in Requests}
        BY DEF AgentInv, TypeOK
    <2>2. [endpoint |-> published.endpoint, at |-> now] \in [endpoint : Endpoints, at : 0..MaxTime]
        BY DEF AgentInv, TypeOK
    <2>3. w \in TaskStates /\ NoReply \in Answers
        BY <1>2, SMTT(30) DEF TaskStates, Answers
    <2> HIDE DEF Used
    <2> QED
        BY <1>4, <2>1, <2>2, <2>3 DEF AgentInv, TypeOK
<1>8. /\ \A c \in Deliveries : Sent(c)' = Sent(c) /\ Wrote(c)' = Wrote(c) /\ Took(c)' = Took(c)
      /\ \A c \in Deliveries : pc'[c] = IF c = d THEN w ELSE pc[c]
      /\ \A c \in Deliveries : outcome'[c] = IF c = d THEN o ELSE outcome[c]
      /\ \A c \in Deliveries : c # d => reply'[c] = reply[c]
      /\ \A c \in Deliveries : req'[c] = IF c = d THEN r ELSE req[c]
      /\ inFlight' = inFlight /\ restarts' = restarts
      /\ transmitted' = transmitted /\ applied' = applied
    BY <1>4 DEF AgentInv, TypeOK, Sent, Wrote, Took
<1>9. EffectsAreReported'
    BY <1>1, <1>8 DEF AgentInv, EffectsAreReported, Took
<1>10. ASSUME NEW c \in Deliveries
       PROVE  /\ pc'[c] = "write" =>
                    IF reply'[c] = NoReply THEN ~Took(c)'
                    ELSE c \notin inFlight' /\ (reply'[c].kind = "refused" => ~Took(c)')
              /\ pc'[c] \in {"values", "reread", "write", "verify"} \/ Sent(c)' => req'[c].op = "apply"
              /\ Sent(c)' => pc'[c] \in {"write", "verify", "ended", "lost"}
    <2>1. CASE c = d
        <3>1. pc'[d] = w /\ req'[d] = r /\ ~Sent(d)'
            BY <1>1, <1>8
        <3>2. w # "write" /\ (w \in {"values", "reread", "verify"} => r.op = "apply")
            BY <1>2, <1>3
        <3> QED
            BY <2>1, <3>1, <3>2
    <2>2. CASE c # d
        BY <1>8, <2>2 DEF AgentInv
    <2> QED
        BY <2>1, <2>2
\* The delivery joins the guarded writes under way only with an unused identifier.
<1>11. /\ \A c \in Deliveries : c # d => (Engaged(c)' <=> Engaged(c))
       /\ Engaged(d)' => /\ r.op = "apply" /\ r.id \notin consumed /\ r.id \in consumed'
       /\ consumed \subseteq consumed'
    BY <1>1, <1>8 DEF Engaged, Fresh, Waits
<1>12. /\ \A c \in Deliveries : Engaged(c)' => req'[c].id \in consumed'
       /\ \A b, c \in Deliveries :
              Engaged(b)' /\ Engaged(c)' /\ req'[b].id = req'[c].id => b = c
    <2> HIDE <1>6
    <2>1. /\ \A c \in Deliveries : Engaged(c) => req[c].id \in consumed
          /\ \A b, c \in Deliveries :
                 Engaged(b) /\ Engaged(c) /\ req[b].id = req[c].id => b = c
        BY DEF AgentInv
    <2>2. \A c \in Deliveries : req'[c] = IF c = d THEN r ELSE req[c]
        BY <1>8
    <2> QED
        BY <1>11, <2>1, <2>2
<1>13. OneWritePerRequest'
    <2> HIDE <1>6
    <2>1. \A t \in transmitted : t.delivery \in Deliveries /\ t.delivery # d
        BY <1>1 DEF AgentInv, TypeOK, Sent
    <2>2. \A t \in transmitted : req'[t.delivery] = req[t.delivery]
        BY <1>8, <2>1
    <2> QED
        BY <1>8, <2>2, NoNewWrite
<1> QED
    BY <1>7, <1>8, <1>9, <1>10, <1>12, <1>13 DEF AgentInv

\* The validated handler sends its write, the first and only one of its delivery.
LEMMA RereadStep ==
    ASSUME AgentInv, NEW d \in Deliveries, Reread(d)
    PROVE  AgentInv'
<1> USE DEF setAside
<1>0. /\ pc[d] = "reread" /\ outcome[d] = "none" /\ req[d].op = "apply"
      /\ d \notin inFlight /\ ~Took(d) /\ ~Sent(d) /\ Engaged(d)
    BY Zenon DEF Reread, AgentInv, TypeOK, EffectsAreReported, Took, Engaged, Waits
<1>1. CASE ~StillConfirmed(req[d], held[d].at, reply[d], Supported(d))
    <2>1. Ends(d, "Rejected") /\ UNCHANGED <<setAside, inFlight, transmitted>>
        BY <1>1, SMTT(30) DEF Reread
    <2>2. kept \in [Deliveries -> Answers] /\ NoReply \in Answers
        BY DEF AgentInv, TypeOK, Answers
    <2> QED
        BY <1>0, <2>1, <2>2, MoveStep, Zenon DEF Ends, Waits, Outcomes, printer
<1>2. CASE StillConfirmed(req[d], held[d].at, reply[d], Supported(d))
    <2> DEFINE sent == Transmission(d)
    <2>1. /\ pc' = [pc EXCEPT ![d] = "write"]
          /\ reply' = [reply EXCEPT ![d] = NoReply]
          /\ inFlight' = inFlight \cup {d}
          /\ transmitted' = transmitted \cup {sent}
          /\ UNCHANGED <<now, published, consumed, restarts, req, held, kept, cancelled,
                         outcome, device, applied, disturbed, changes>>
        BY <1>2, SMTT(30) DEF Reread, Awaits, agent
    <2>2. TypeOK'
        <3>1. sent \in [delivery : Deliveries, generation : 0..MaxGeneration, life : 0..MaxRestarts]
            BY DEF AgentInv, TypeOK, Transmission
        <3>2. NoReply \in Answers /\ "write" \in TaskStates
            BY SMTT(30) DEF Answers, TaskStates, Waits
        <3> HIDE DEF sent
        <3> QED
            BY <1>0, <2>1, <3>1, <3>2, SMTT(30) DEF AgentInv, TypeOK
    <2>3. /\ \A c \in Deliveries : (Sent(c)' <=> Sent(c) \/ c = d) /\ (Wrote(c)' <=> Wrote(c) \/ c = d)
          /\ \A c \in Deliveries : Took(c)' = Took(c)
          /\ \A c \in Deliveries : pc'[c] = IF c = d THEN "write" ELSE pc[c]
          /\ \A c \in Deliveries : c # d => reply'[c] = reply[c]
          /\ reply'[d] = NoReply
        <3>1. \A c \in Deliveries : (Sent(c)' <=> Sent(c) \/ c = d) /\ (Wrote(c)' <=> Wrote(c) \/ c = d)
            <4>1. sent.delivery = d /\ sent.life = restarts'
                  /\ restarts' = restarts /\ transmitted' = transmitted \cup {sent}
                BY <2>1, SMTT(30) DEF Transmission
            <4> HIDE DEF sent
            <4> QED
                BY <4>1 DEF Sent, Wrote
        <3>2. /\ \A c \in Deliveries : Took(c)' = Took(c)
              /\ \A c \in Deliveries : pc'[c] = IF c = d THEN "write" ELSE pc[c]
              /\ \A c \in Deliveries : c # d => reply'[c] = reply[c]
              /\ reply'[d] = NoReply
            BY <2>1, SMTT(30) DEF AgentInv, TypeOK, Took
        <3> QED
            BY <3>1, <3>2
    <2>4. EffectsAreReported'
        BY <2>1, <2>3, SMTT(30) DEF AgentInv, EffectsAreReported, Took
    <2>5. \A c \in Deliveries : Engaged(c)' => Engaged(c)
        BY <1>0, <2>1, <2>3 DEF Engaged, Waits
    <2>6. \A s, t \in transmitted' : s.delivery = t.delivery => s = t
        BY <1>0, <2>1 DEF AgentInv, Sent, Transmission
    <2>8. OneWritePerRequest'
        <3>1. sent.delivery = d /\ sent.life = restarts
            BY DEF Transmission
        <3> HIDE DEF sent
        <3>2. ASSUME NEW t \in transmitted, t.life = restarts
              PROVE  req[t.delivery].id # req[d].id
            <4>1. t.delivery \in Deliveries /\ t.delivery # d /\ Wrote(t.delivery) /\ Sent(t.delivery)
                BY <1>0, <3>2 DEF AgentInv, TypeOK, Sent, Wrote
            <4>2. Engaged(t.delivery)
                BY <4>1, Zenon DEF AgentInv, Engaged
            <4> QED
                BY <1>0, <4>1, <4>2, Zenon DEF AgentInv
        <3> QED
            BY <2>1, <3>1, <3>2, Zenon DEF AgentInv, OneWritePerRequest
    <2>9. \A t \in transmitted' : t.life <= restarts'
        <3>1. sent.life = restarts /\ restarts \in Nat
            BY AgentAssumption DEF Transmission, AgentInv, TypeOK
        <3> HIDE DEF sent
        <3> QED
            BY <2>1, <3>1 DEF AgentInv
    <2>7. ASSUME NEW c \in Deliveries
          PROVE  /\ pc'[c] = "write" =>
                       IF reply'[c] = NoReply THEN ~Took(c)'
                       ELSE c \notin inFlight' /\ (reply'[c].kind = "refused" => ~Took(c)')
                 /\ pc'[c] \in {"values", "reread", "write", "verify"} \/ Sent(c)' => req'[c].op = "apply"
                 /\ Sent(c)' => pc'[c] \in {"write", "verify", "ended", "lost"}
        <3>1. CASE c = d
            BY <1>0, <2>1, <2>3, <3>1, SMTT(30)
        <3>2. CASE c # d
            <4>1. /\ pc[c] = "write" =>
                         IF reply[c] = NoReply THEN ~Took(c)
                         ELSE c \notin inFlight /\ (reply[c].kind = "refused" => ~Took(c))
                  /\ pc[c] \in {"values", "reread", "write", "verify"} \/ Sent(c) => req[c].op = "apply"
                  /\ Sent(c) => pc[c] \in {"write", "verify", "ended", "lost"}
                BY DEF AgentInv
            <4> QED
                BY <2>1, <2>3, <3>2, <4>1, SMTT(30)
        <3> QED
            BY <3>1, <3>2
    <2> QED
        BY <2>1, <2>2, <2>4, <2>5, <2>6, <2>7, <2>8, <2>9 DEF AgentInv
<1> QED
    BY <1>1, <1>2

\* The exchanges of a delivery are about a setting of a printer.
LEMMA Reaches ==
    ASSUME TypeOK, NEW d \in Deliveries
    PROVE  /\ req[d].setting \in Settings /\ req[d].new \in Values
           /\ held[d].endpoint \in Endpoints
           /\ At(d) \in [value : Values \cup {NoValue}, settable : BOOLEAN, allowed : Constraints]
<1>1. /\ req \in [Deliveries -> Requests]
      /\ held \in [Deliveries -> [endpoint : Endpoints, at : 0..MaxTime]]
      /\ device \in [Endpoints -> [Settings ->
             [value : Values \cup {NoValue}, settable : BOOLEAN, allowed : Constraints]]]
    BY DEF TypeOK
<1>2. req[d] \in RequestType
    BY <1>1, AgentAssumption
<1>3. req[d].setting \in Settings /\ req[d].new \in Values
    BY <1>2 DEF RequestType
<1>4. held[d].endpoint \in Endpoints
    BY <1>1
<1>5. At(d) \in [value : Values \cup {NoValue}, settable : BOOLEAN, allowed : Constraints]
    BY <1>1, <1>3, <1>4, Zenon DEF At
<1> QED
    BY <1>3, <1>4, <1>5

\* The printer answers a read.
LEMMA AnswerStep ==
    ASSUME AgentInv, NEW d \in Deliveries, Answer(d)
    PROVE  AgentInv'
<1> DEFINE said == [kind |-> "answer", value |-> At(d).value,
                    settable |-> At(d).settable, allowed |-> At(d).allowed]
<1>1. said \in Answers
    <2>2. At(d) \in [value : Values \cup {NoValue}, settable : BOOLEAN, allowed : Constraints]
        BY Reaches DEF AgentInv
    <2>3. said \in [kind : {"answer"}, value : Values \cup {NoValue}, settable : BOOLEAN,
                    allowed : Constraints]
        BY <2>2
    <2> QED
        BY <2>3 DEF Answers
<1>2. /\ pc[d] # "write" /\ reply' = [reply EXCEPT ![d] = said]
      /\ UNCHANGED <<now, published, consumed, restarts, pc, req, held, kept, cancelled, outcome,
                     device, inFlight, applied, disturbed, transmitted, changes>>
    BY DEF Answer, agent, printer
<1> HIDE DEF said
<1>3. TypeOK'
    BY <1>1, <1>2, Zenon DEF AgentInv, TypeOK
<1>4. /\ \A c \in Deliveries : c # d => reply'[c] = reply[c]
      /\ \A c \in Deliveries : Sent(c)' = Sent(c) /\ Took(c)' = Took(c) /\ Engaged(c)' = Engaged(c)
      /\ EffectsAreReported'
    BY <1>2 DEF AgentInv, TypeOK, Sent, Wrote, Took, Engaged, EffectsAreReported
<1>5. OneWritePerRequest'
    BY <1>2, NoNewWrite
<1> QED
    BY <1>2, <1>3, <1>4, <1>5, SMTT(30) DEF AgentInv

\* One part of what a printer says of a setting changes.
LEMMA DeviceRow ==
    ASSUME NEW e \in Endpoints, NEW s \in Settings,
           device \in [Endpoints -> [Settings ->
               [value : Values \cup {NoValue}, settable : BOOLEAN, allowed : Constraints]]]
    PROVE  /\ \A v \in Values \cup {NoValue} : [device EXCEPT ![e][s].value = v] \in
                  [Endpoints -> [Settings ->
                      [value : Values \cup {NoValue}, settable : BOOLEAN, allowed : Constraints]]]
           /\ [device EXCEPT ![e][s].settable = ~@] \in
                  [Endpoints -> [Settings ->
                      [value : Values \cup {NoValue}, settable : BOOLEAN, allowed : Constraints]]]
           /\ \A a \in Constraints : [device EXCEPT ![e][s].allowed = a] \in
                  [Endpoints -> [Settings ->
                      [value : Values \cup {NoValue}, settable : BOOLEAN, allowed : Constraints]]]
<1> DEFINE Reports == [value : Values \cup {NoValue}, settable : BOOLEAN, allowed : Constraints]
<1>1. device[e][s] \in Reports
    OBVIOUS
<1>2. /\ \A v \in Values \cup {NoValue} : [device[e][s] EXCEPT !.value = v] \in Reports
      /\ [device[e][s] EXCEPT !.settable = ~@] \in Reports
      /\ \A a \in Constraints : [device[e][s] EXCEPT !.allowed = a] \in Reports
    BY <1>1, Zenon
<1>3. ASSUME NEW f \in Reports
      PROVE  [device EXCEPT ![e][s] = f] \in [Endpoints -> [Settings -> Reports]]
    <2> HIDE DEF Reports
    <2>1. device \in [Endpoints -> [Settings -> Reports]]
        BY DEF Reports
    <2>2. [device[e] EXCEPT ![s] = f] \in [Settings -> Reports]
        BY <2>1, SMTT(30)
    <2> QED
        BY <2>1, <2>2
<1> QED
    BY <1>2, <1>3

\* The printer gets a write: the handler, if it still waits, is told how it fared.
LEMMA GetWriteStep ==
    ASSUME AgentInv, NEW d \in Deliveries, GetWrite(d)
    PROVE  AgentInv'
<1> DEFINE took == [delivery |-> d, replaced |-> At(d).value]
<1>1. PICK how \in {"taken", "ignored", "refused"} :
          /\ IF how = "taken"
             THEN /\ device' = [device EXCEPT ![held[d].endpoint][req[d].setting].value = req[d].new]
                  /\ disturbed' = disturbed \cup (Confident(held[d].endpoint, req[d].setting) \ {d})
                  /\ applied' = applied \cup {took}
             ELSE UNCHANGED <<device, applied, disturbed>>
          /\ reply' = IF pc[d] = "write" THEN [reply EXCEPT ![d] = [kind |-> how]] ELSE reply
    BY Zenon DEF GetWrite
<1>2. /\ d \in inFlight /\ inFlight' = inFlight \ {d}
      /\ UNCHANGED <<now, published, consumed, restarts, pc, req, held, kept, cancelled,
                     outcome, transmitted, changes>>
    BY DEF GetWrite, agent
<1>3. /\ req[d].setting \in Settings /\ req[d].new \in Values
      /\ held[d].endpoint \in Endpoints
    BY Reaches DEF AgentInv
<1>4. At(d).value \in Values \cup {NoValue}
    <2>1. At(d) \in [value : Values \cup {NoValue}, settable : BOOLEAN, allowed : Constraints]
        BY Reaches DEF AgentInv
    <2> QED
        BY <2>1
<1>5. device' \in [Endpoints -> [Settings ->
          [value : Values \cup {NoValue}, settable : BOOLEAN, allowed : Constraints]]]
    <2>1. CASE how = "taken"
        <3>1. device \in [Endpoints -> [Settings ->
                  [value : Values \cup {NoValue}, settable : BOOLEAN, allowed : Constraints]]]
            BY DEF AgentInv, TypeOK
        <3>2. [device EXCEPT ![held[d].endpoint][req[d].setting].value = req[d].new] \in
                  [Endpoints -> [Settings ->
                      [value : Values \cup {NoValue}, settable : BOOLEAN, allowed : Constraints]]]
            BY <1>3, <3>1, DeviceRow, Zenon
        <3> QED
            BY <1>1, <2>1, <3>2, Zenon
    <2>2. CASE how # "taken"
        BY <1>1, <2>2 DEF AgentInv, TypeOK
    <2> QED
        BY <2>1, <2>2
<1>6. /\ applied' \in SUBSET [delivery : Deliveries, replaced : Values \cup {NoValue}]
      /\ disturbed' \in SUBSET Deliveries
    BY <1>1, <1>4 DEF AgentInv, TypeOK, Confident
<1>7. reply' \in [Deliveries -> Answers]
    <2>1. [kind |-> how] \in Answers
        BY DEF Answers
    <2> QED
        BY <1>1, <2>1 DEF AgentInv, TypeOK
<1>8. TypeOK'
    BY <1>2, <1>5, <1>6, <1>7, Zenon DEF AgentInv, TypeOK
<1>9. \A c \in Deliveries : Sent(c)' = Sent(c) /\ Engaged(c)' = Engaged(c)
    BY <1>2, SMTT(30) DEF Sent, Wrote, Engaged
<1>10. \A c \in Deliveries : Took(c)' => Took(c) \/ (c = d /\ how = "taken")
    BY <1>1 DEF Took
<1>11. EffectsAreReported'
    BY <1>2, <1>10, Zenon DEF AgentInv, EffectsAreReported, Took
<1>12. ASSUME NEW c \in Deliveries
       PROVE  pc'[c] = "write" =>
                    IF reply'[c] = NoReply THEN ~Took(c)'
                    ELSE c \notin inFlight' /\ (reply'[c].kind = "refused" => ~Took(c)')
    <2>1. CASE c = d /\ pc[d] = "write"
        <3>1. reply'[d] = [kind |-> how]
            BY <1>1, <2>1 DEF AgentInv, TypeOK
        <3>2. ~Took(d)
            BY <1>2, <2>1, SMTT(30) DEF AgentInv
        <3> QED
            BY <1>2, <1>10, <2>1, <3>1, <3>2 DEF NoReply
    <2>2. CASE c # d
        <3>1. reply'[c] = reply[c]
            BY <1>1, <2>2, SMTT(30) DEF AgentInv, TypeOK
        <3> QED
            BY <1>2, <1>10, <2>2, <3>1 DEF AgentInv
    <2> QED
        BY <1>2, <2>1, <2>2
<1>13. OneWritePerRequest'
    BY <1>2, NoNewWrite
<1> QED
    BY <1>2, <1>8, <1>9, <1>11, <1>12, <1>13 DEF AgentInv

\* What happens around the handlers touches neither them nor the writes.
LEMMA SurroundingsStep ==
    ASSUME AgentInv,
           \/ \E d \in Deliveries : Cancel(d)
           \/ Change \/ Publish \/ Tick
    PROVE  AgentInv'
<1>1. UNCHANGED <<consumed, restarts, task, outcome, inFlight, applied, transmitted>>
    BY DEF Cancel, Change, Publish, Tick, agent, printer
<1>2. device' \in [Endpoints -> [Settings ->
          [value : Values \cup {NoValue}, settable : BOOLEAN, allowed : Constraints]]]
    <2>1. CASE Change
        <3>1. PICK e \in Endpoints, s \in Settings :
                  \/ \E v \in Values \cup {NoValue} : device' = [device EXCEPT ![e][s].value = v]
                  \/ device' = [device EXCEPT ![e][s].settable = ~@]
                  \/ \E a \in Constraints : device' = [device EXCEPT ![e][s].allowed = a]
            BY <2>1, SMTT(30) DEF Change
        <3>2. device \in [Endpoints -> [Settings ->
                  [value : Values \cup {NoValue}, settable : BOOLEAN, allowed : Constraints]]]
            BY DEF AgentInv, TypeOK
        <3>3. /\ \A v \in Values \cup {NoValue} : [device EXCEPT ![e][s].value = v] \in
                     [Endpoints -> [Settings ->
                         [value : Values \cup {NoValue}, settable : BOOLEAN, allowed : Constraints]]]
              /\ [device EXCEPT ![e][s].settable = ~@] \in
                     [Endpoints -> [Settings ->
                         [value : Values \cup {NoValue}, settable : BOOLEAN, allowed : Constraints]]]
              /\ \A a \in Constraints : [device EXCEPT ![e][s].allowed = a] \in
                     [Endpoints -> [Settings ->
                         [value : Values \cup {NoValue}, settable : BOOLEAN, allowed : Constraints]]]
            BY <3>2, DeviceRow, Zenon
        <3>4. CASE \E v \in Values \cup {NoValue} : device' = [device EXCEPT ![e][s].value = v]
            <4>1. PICK v \in Values \cup {NoValue} : device' = [device EXCEPT ![e][s].value = v]
                BY <3>4, Zenon
            <4>2. [device EXCEPT ![e][s].value = v] \in [Endpoints -> [Settings ->
                      [value : Values \cup {NoValue}, settable : BOOLEAN, allowed : Constraints]]]
                BY <3>3, Zenon
            <4> QED
                BY <4>1, <4>2
        <3>5. CASE device' = [device EXCEPT ![e][s].settable = ~@]
            BY <3>3, <3>5
        <3>6. CASE \E a \in Constraints : device' = [device EXCEPT ![e][s].allowed = a]
            BY <3>3, <3>6, SMTT(30)
        <3> QED
            BY <3>1, <3>4, <3>5, <3>6
    <2>2. CASE device' = device
        BY <2>2 DEF AgentInv, TypeOK
    <2> QED
        BY <2>1, <2>2 DEF Cancel, Publish, Tick, printer
<1>3. /\ now' \in 0..MaxTime /\ changes' \in 0..MaxChanges
      /\ published' \in [generation : 0..MaxGeneration, endpoint : Endpoints]
    BY AgentAssumption DEF Cancel, Change, Publish, Tick, agent, AgentInv, TypeOK
<1>4. cancelled' \in SUBSET Deliveries /\ disturbed' \in SUBSET Deliveries
    BY DEF Cancel, Change, Publish, Tick, printer, Confident, AgentInv, TypeOK
<1>5. TypeOK'
    BY <1>1, <1>2, <1>3, <1>4, Zenon DEF AgentInv, TypeOK, task
<1>6. \A c \in Deliveries : Sent(c)' = Sent(c) /\ Took(c)' = Took(c) /\ Engaged(c)' = Engaged(c)
    BY <1>1 DEF Sent, Wrote, Took, Engaged, task
<1>7. EffectsAreReported'
    BY <1>1, SMTT(30) DEF AgentInv, EffectsAreReported, task
<1>8. OneWritePerRequest'
    BY <1>1, NoNewWrite DEF task
<1> QED
    BY <1>1, <1>5, <1>6, <1>7, <1>8 DEF AgentInv, task

\* A new process: what the old one sent is still accounted for.
LEMMA RestartStep ==
    ASSUME AgentInv, Restart
    PROVE  AgentInv'
<1>1. /\ restarts' = restarts + 1 /\ restarts' \in 0..MaxRestarts /\ restarts' # 0
      /\ published' \in [generation : 0..MaxGeneration, endpoint : Endpoints]
    <2>1. restarts' = restarts + 1 /\ restarts' \in 0..MaxRestarts /\ restarts' # 0
        BY AgentAssumption DEF Restart, AgentInv, TypeOK
    <2>2. published \in [generation : 0..MaxGeneration, endpoint : Endpoints]
        BY Zenon DEF AgentInv, TypeOK
    <2>3. 0 \in 0..MaxGeneration /\ published' = [published EXCEPT !.generation = 0]
        BY AgentAssumption DEF Restart
    <2>4. published' \in [generation : 0..MaxGeneration, endpoint : Endpoints]
        BY <2>2, <2>3
    <2> QED
        BY <2>1, <2>4
<1>2. /\ \A d \in Deliveries : pc'[d] = IF pc[d] \in Waits THEN "lost" ELSE pc[d]
      /\ pc' \in [Deliveries -> TaskStates]
      /\ reply' \in [Deliveries -> Answers]
      /\ consumed' = {}
    BY DEF Restart, AgentInv, TypeOK, TaskStates, Answers
<1>3. UNCHANGED <<now, req, held, kept, cancelled, outcome, device, inFlight, applied, disturbed,
                  transmitted, changes>>
    BY DEF Restart, printer
<1>4. TypeOK'
    BY <1>1, <1>2, <1>3, ZenonT(40) DEF AgentInv, TypeOK, Waits
<1>5. \A d \in Deliveries : Sent(d)' = Sent(d) /\ Took(d)' = Took(d)
    BY <1>3 DEF Sent, Took
<1>6. EffectsAreReported'
    BY <1>2, <1>3 DEF AgentInv, EffectsAreReported
<1>7. \A d \in Deliveries : pc'[d] \notin {"values", "reread", "write", "verify"}
    BY <1>2 DEF Waits
<1>8. OneWritePerRequest'
    BY <1>3, Zenon DEF AgentInv, OneWritePerRequest
\* Nothing is sent or under way in the new life.
<1>9. /\ \A t \in transmitted' : t.life <= restarts'
      /\ \A d \in Deliveries : ~Wrote(d)'
    <2>1. \A t \in transmitted : t.life \in 0..MaxRestarts /\ t.life <= restarts
        BY DEF AgentInv, TypeOK
    <2>2. restarts \in 0..MaxRestarts
        BY DEF AgentInv, TypeOK
    <2> QED
        BY <1>1, <1>3, <2>1, <2>2, AgentAssumption DEF Wrote
<1>10. \A d \in Deliveries : ~Engaged(d)'
    BY <1>2, <1>9 DEF Engaged, Waits
<1> QED
    BY <1>2, <1>3, <1>4, <1>5, <1>6, <1>7, <1>8, <1>9, <1>10 DEF AgentInv

\* AgentInv is an invariant: whatever the requests, their deliveries, the printers, the
\* publications, the other users of the printers and the restarts.
THEOREM AgentInvariant ==
    ASSUME Requests # {}, Endpoints # {}
    PROVE  Spec => []AgentInv
<1>1. Init => AgentInv
    BY AgentInit
<1>2. ASSUME AgentInv, [Next]_vars
      PROVE  AgentInv'
    <2>1. CASE \E d \in Deliveries : \E r \in Requests : Deliver(d, r)
        BY <1>2, <2>1, DeliverStep
    <2>2. CASE \E d \in Deliveries : Step(d)
        BY <1>2, <2>2, HandlerStep, RereadStep DEF Step
    <2>3. CASE \E d \in Deliveries : RunnerFails(d) \/ Answer(d) \/ GetWrite(d)
        BY <1>2, <2>3, HandlerStep, AnswerStep, GetWriteStep
    <2>4. CASE (\E d \in Deliveries : Cancel(d)) \/ Change \/ Publish \/ Tick
        BY <1>2, <2>4, SurroundingsStep
    <2>5. CASE Restart
        BY <1>2, <2>5, RestartStep
    <2>6. CASE UNCHANGED vars
      <3>1. /\ \A c \in Deliveries : /\ Sent(c)' = Sent(c) /\ Wrote(c)' = Wrote(c)
                                      /\ Took(c)' = Took(c) /\ Engaged(c)' = Engaged(c)
            /\ UNCHANGED <<pc, reply, inFlight, req, consumed, transmitted, restarts>>
          BY <2>6 DEF vars, agent, task, printer, Sent, Wrote, Took, Engaged
      <3>2. TypeOK'
          BY <1>2, <2>6, ZenonT(40) DEF vars, agent, task, printer, AgentInv, TypeOK
      <3>3. EffectsAreReported'
          BY <1>2, <2>6, Zenon DEF vars, task, printer, AgentInv, EffectsAreReported
      <3>4. OneWritePerRequest'
          BY <1>2, <3>1, NoNewWrite
      <3> QED
          BY <1>2, <3>1, <3>2, <3>3, <3>4 DEF AgentInv
    <2> QED
        BY <1>2, <2>1, <2>2, <2>3, <2>4, <2>5, <2>6 DEF Next
<1> QED
    BY <1>1, <1>2, PTL DEF Spec

\* No result hides a write: a change reported as rejected, cancelled, timed out, too large
\* or not accepted was not and will not be taken by the printer.
THEOREM AgentReportsEffects ==
    ASSUME Requests # {}, Endpoints # {}
    PROVE  Spec => []EffectsAreReported
<1>1. AgentInv => EffectsAreReported
    BY Zenon DEF AgentInv
<1> QED
    BY <1>1, AgentInvariant, PTL

\* In each life of the agent, a confirmed change is written at most once, however often its
\* request is delivered.
THEOREM AgentWritesOnce ==
    ASSUME Requests # {}, Endpoints # {}
    PROVE  Spec => []OneWritePerRequest
<1>1. AgentInv => OneWritePerRequest
    BY Zenon DEF AgentInv
<1> QED
    BY <1>1, AgentInvariant, PTL

-----------------------------------------------------------------------------
(* What a write replaces *)

\* The handler has what the printer said before its write.
HasRead(d) == pc[d] = "reread" /\ reply[d] # NoReply

\* The inductive invariant of what a write replaces: unless somebody changed the setting since,
\* what a handler has read is what the printer still says, and a write on its way is about to
\* replace the value that was confirmed.
ConfirmedInv ==
    /\ \A d \in Deliveries : HasRead(d) /\ d \notin disturbed => reply[d].value = At(d).value
    /\ \A d \in inFlight : d \notin disturbed => At(d).value = req[d].old
    /\ ReplacesConfirmedUndisturbed

\* A write is on its way, or was taken, of a delivery that has come to its write.
LEMMA WrittenIsPast ==
    ASSUME AgentInv, NEW d \in Deliveries, d \in inFlight \/ Took(d)
    PROVE  pc[d] \in {"write", "verify", "lost", "ended"}
<1>1. \/ pc[d] \in {"write", "verify", "lost"}
      \/ outcome[d] \in {"Succeeded", "Failed", "AmbiguousWrite"}
    BY ZenonT(40) DEF AgentInv, EffectsAreReported, Took
<1>2. (pc[d] = "ended") = (outcome[d] # "none")
    BY Zenon DEF AgentInv, TypeOK
<1> QED
    BY <1>1, <1>2, ZenonT(40)

\* A step that leaves the printers, the writes and the requests alone, and gives no handler an
\* answer before its write.
LEMMA ConfirmedKept ==
    ASSUME ConfirmedInv, UNCHANGED <<req, held, device, inFlight, applied, disturbed>>,
           \A d \in Deliveries : HasRead(d)' => HasRead(d) /\ reply'[d] = reply[d]
    PROVE  ConfirmedInv'
<1>1. \A d : At(d)' = At(d)
    BY DEF At
<1> QED
    BY <1>1 DEF ConfirmedInv, ReplacesConfirmedUndisturbed

\* A handler moves on without an answer.
LEMMA MovedOn ==
    ASSUME AgentInv, NEW d \in Deliveries,
           reply' = [reply EXCEPT ![d] = NoReply], NEW w, pc' = [pc EXCEPT ![d] = w]
    PROVE  \A c \in Deliveries : HasRead(c)' => HasRead(c) /\ reply'[c] = reply[c]
BY Zenon DEF AgentInv, TypeOK, HasRead

LEMMA ConfirmedHandler ==
    ASSUME AgentInv, ConfirmedInv, NEW d \in Deliveries,
           Answered(d) \/ CancelWins(d) \/ Planned(d) \/ PlannedWithValues(d) \/ GotValues(d)
           \/ Written(d) \/ Verified(d) \/ ExchangeFails(d) \/ RunnerFails(d)
    PROVE  ConfirmedInv'
<1>1. UNCHANGED <<req, held, device, inFlight, applied, disturbed>>
    BY Zenon DEF Answered, CancelWins, Planned, PlannedWithValues, GotValues, Written, Verified,
           ExchangeFails, RunnerFails, setAside
<1>2. \E w : pc' = [pc EXCEPT ![d] = w] /\ reply' = [reply EXCEPT ![d] = NoReply]
    BY ZenonT(40) DEF Answered, CancelWins, Planned, PlannedWithValues, GotValues, Written, Verified,
           ExchangeFails, RunnerFails, Receipt, Ends, Awaits
<1> QED
    BY <1>1, <1>2, MovedOn, ConfirmedKept, ZenonT(40)

\* The pre-write read shows the confirmed value, or there is no write.
LEMMA ConfirmedReread ==
    ASSUME AgentInv, ConfirmedInv, NEW d \in Deliveries, Reread(d)
    PROVE  ConfirmedInv'
<1>1. /\ UNCHANGED <<req, held, device, applied, disturbed>>
      /\ reply' = [reply EXCEPT ![d] = NoReply]
      /\ \E w : pc' = [pc EXCEPT ![d] = w]
    BY DEF Reread, setAside, Ends, Awaits
<1>2. \A c \in Deliveries : HasRead(c)' => HasRead(c) /\ reply'[c] = reply[c]
    BY <1>1, MovedOn, Zenon
<1>3. \A c : At(c)' = At(c)
    BY <1>1 DEF At
<1>4. ASSUME NEW c \in inFlight', c \notin disturbed' PROVE At(c)'.value = req'[c].old
  <2>1. CASE c \in inFlight
      BY <1>1, <1>3, <1>4, <2>1, SMTT(30) DEF ConfirmedInv
  <2>2. CASE c \notin inFlight
    <3>1. c = d /\ reply[d].value = req[d].old
        BY <2>2, <1>4, ZenonT(40) DEF Reread, StillConfirmed
    <3>2. HasRead(d)
        BY Zenon DEF Reread, HasRead
    <3> QED
        BY <1>1, <1>3, <1>4, <3>1, <3>2 DEF ConfirmedInv
  <2> QED
      BY <2>1, <2>2, SMTT(30)
<1> QED
    BY <1>1, <1>2, <1>3, <1>4, Zenon DEF ConfirmedInv, ReplacesConfirmedUndisturbed

\* A request is new to its handler: it has neither read nor written.
LEMMA ConfirmedDeliver ==
    ASSUME AgentInv, ConfirmedInv, NEW d \in Deliveries, NEW r \in Requests, Deliver(d, r)
    PROVE  ConfirmedInv'
<1>1. /\ pc[d] = "free" /\ UNCHANGED <<device, inFlight, applied, disturbed>>
      /\ \A c \in Deliveries : c # d => req'[c] = req[c] /\ held'[c] = held[c]
    BY DEF Deliver, printer, AgentInv, TypeOK
<1>2. \E w : pc' = [pc EXCEPT ![d] = w] /\ reply' = [reply EXCEPT ![d] = NoReply]
    BY DEF Deliver, Ends, Awaits
<1>3. \A c \in Deliveries : HasRead(c)' => HasRead(c) /\ reply'[c] = reply[c]
    BY <1>2, MovedOn, Zenon
<1>4. d \notin inFlight /\ ~Took(d) /\ ~HasRead(d)
    BY <1>1, WrittenIsPast DEF HasRead
<1>5. \A c \in Deliveries : c # d => At(c)' = At(c)
    BY <1>1 DEF At
<1>6. inFlight \subseteq Deliveries /\ \A a \in applied : a.delivery \in Deliveries
    BY Zenon DEF AgentInv, TypeOK
<1>7. \A a \in applied : a.delivery # d
    BY <1>4 DEF Took
<1>8. ReplacesConfirmedUndisturbed'
    BY <1>1, <1>6, <1>7, ZenonT(40) DEF ConfirmedInv, ReplacesConfirmedUndisturbed
<1>9. \A c \in inFlight' : c \notin disturbed' => At(c)'.value = req'[c].old
    BY <1>1, <1>4, <1>5, <1>6, Zenon DEF ConfirmedInv
<1>10. \A c \in Deliveries : HasRead(c)' /\ c \notin disturbed' => reply'[c].value = At(c)'.value
    BY <1>1, <1>3, <1>4, <1>5, SMTT(30) DEF ConfirmedInv
<1> QED
    BY <1>8, <1>9, <1>10 DEF ConfirmedInv

\* The answer to the pre-write read is what the printer says now.
LEMMA ConfirmedAnswer ==
    ASSUME AgentInv, ConfirmedInv, NEW d \in Deliveries, Answer(d)
    PROVE  ConfirmedInv'
<1>1. /\ UNCHANGED <<pc, req, held, device, inFlight, applied, disturbed>>
      /\ \A c \in Deliveries : c # d => reply'[c] = reply[c]
      /\ reply'[d].value = At(d).value
    BY ZenonT(40) DEF Answer, printer, AgentInv, TypeOK
<1>2. \A c : At(c)' = At(c)
    BY <1>1, Zenon DEF At
<1> QED
    BY <1>1, <1>2 DEF ConfirmedInv, ReplacesConfirmedUndisturbed, HasRead

\* One setting of one printer changes: the handlers that rely on another see no change.
ChangesOnly(e, s) ==
    \/ \E v \in Values \cup {NoValue} : device' = [device EXCEPT ![e][s].value = v]
    \/ device' = [device EXCEPT ![e][s].settable = ~@]
    \/ \E a \in Constraints : device' = [device EXCEPT ![e][s].allowed = a]

LEMMA OthersSame ==
    ASSUME AgentInv, NEW e \in Endpoints, NEW s \in Settings, NEW c \in Deliveries,
           UNCHANGED <<req, held>>,
           held[c].endpoint # e \/ req[c].setting # s,
           ChangesOnly(e, s)
    PROVE  At(c)' = At(c)
<1>1. held[c].endpoint \in Endpoints /\ req[c].setting \in Settings
    BY Reaches, ZenonT(40) DEF AgentInv
<1>2. device \in [Endpoints -> [Settings ->
          [value : Values \cup {NoValue}, settable : BOOLEAN, allowed : Constraints]]]
    BY Zenon DEF AgentInv, TypeOK
<1>3. \A x \in Endpoints, y \in Settings : x # e \/ y # s => device'[x][y] = device[x][y]
    BY <1>2, SMTT(30) DEF ChangesOnly
<1> QED
    BY <1>1, <1>3 DEF At

\* A change that leaves those who rely on the setting disturbed.
LEMMA ConfirmedChange ==
    ASSUME AgentInv, ConfirmedInv, NEW e \in Endpoints, NEW s \in Settings, NEW but \in SUBSET Deliveries,
           UNCHANGED <<req, held>>,
           ChangesOnly(e, s),
           disturbed' = disturbed \cup (Confident(e, s) \ but)
    PROVE  /\ \A c \in Deliveries : HasRead(c) /\ c \notin disturbed' /\ c \notin but =>
                  reply[c].value = At(c)'.value
           /\ \A c \in inFlight : c \notin disturbed' /\ c \notin but => At(c)'.value = req[c].old
<1>1. inFlight \subseteq Deliveries
    BY Zenon DEF AgentInv, TypeOK
<1>2. ASSUME NEW c \in Deliveries, HasRead(c) \/ c \in inFlight, c \notin disturbed', c \notin but
      PROVE  c \notin disturbed /\ At(c)' = At(c)
  <2>1. c \notin Confident(e, s) /\ c \notin disturbed
      BY <1>2
  <2>2. held[c].endpoint # e \/ req[c].setting # s
      BY <1>2, <2>1 DEF Confident, HasRead
  <2> QED
      BY <2>1, <2>2, OthersSame
<1> QED
    BY <1>1, <1>2 DEF ConfirmedInv

LEMMA ConfirmedGetWrite ==
    ASSUME AgentInv, ConfirmedInv, NEW d \in Deliveries, GetWrite(d)
    PROVE  ConfirmedInv'
<1> DEFINE e == held[d].endpoint
           s == req[d].setting
           took == [delivery |-> d, replaced |-> At(d).value]
<1>1. PICK how \in {"taken", "ignored", "refused"} :
          /\ IF how = "taken"
             THEN /\ device' = [device EXCEPT ![e][s].value = req[d].new]
                  /\ disturbed' = disturbed \cup (Confident(e, s) \ {d})
                  /\ applied' = applied \cup {took}
             ELSE UNCHANGED <<device, applied, disturbed>>
          /\ reply' = IF pc[d] = "write" THEN [reply EXCEPT ![d] = [kind |-> how]] ELSE reply
    BY Zenon DEF GetWrite
<1>2. /\ d \in inFlight /\ inFlight' = inFlight \ {d}
      /\ UNCHANGED <<pc, req, held>>
    BY DEF GetWrite
<1>3. req[d].new \in Values /\ e \in Endpoints /\ s \in Settings
    BY Reaches, Zenon DEF AgentInv
<1>4. pc[d] # "reread"
    BY <1>2, WrittenIsPast
<1>5. \A c \in Deliveries : HasRead(c)' => c # d /\ HasRead(c) /\ reply'[c] = reply[c]
    BY <1>1, <1>2, <1>4, SMTT(30) DEF HasRead, AgentInv, TypeOK
<1>6. CASE how # "taken"
  <2>1. UNCHANGED <<device, applied, disturbed>>
      BY <1>1, <1>6, SMTT(30)
  <2>2. \A c : At(c)' = At(c)
      BY <1>2, <2>1, SMTT(30) DEF At
  <2> QED
      BY <1>2, <1>5, <2>1, <2>2 DEF ConfirmedInv, ReplacesConfirmedUndisturbed
<1>7. CASE how = "taken"
  <2>1. /\ device' = [device EXCEPT ![e][s].value = req[d].new]
        /\ disturbed' = disturbed \cup (Confident(e, s) \ {d})
        /\ applied' = applied \cup {took}
      BY <1>1, <1>7
  <2>2. ChangesOnly(e, s)
      BY <1>3, <2>1, Zenon DEF ChangesOnly
  <2> HIDE DEF e, s
  <2>3. /\ \A c \in Deliveries : HasRead(c) /\ c \notin disturbed' /\ c \notin {d} =>
               reply[c].value = At(c)'.value
        /\ \A c \in inFlight : c \notin disturbed' /\ c \notin {d} => At(c)'.value = req[c].old
    <3>1. {d} \in SUBSET Deliveries
        OBVIOUS
    <3> QED
        BY <1>2, <1>3, <2>1, <2>2, <3>1, ConfirmedChange, Zenon
  <2>4. ReplacesConfirmedUndisturbed'
    <3> SUFFICES ASSUME NEW a \in applied', a.delivery \notin disturbed'
                 PROVE  a.replaced = req'[a.delivery].old
        BY DEF ReplacesConfirmedUndisturbed
    <3>1. a.delivery \notin disturbed
        BY <2>1
    <3>2. CASE a \in applied
        BY <1>2, <3>1, <3>2, SMTT(30) DEF ConfirmedInv, ReplacesConfirmedUndisturbed
    <3>3. CASE a = took
        BY <1>2, <3>1, <3>3 DEF ConfirmedInv
    <3> QED
        BY <2>1, <3>2, <3>3
  <2> QED
      BY <1>2, <1>5, <2>3, <2>4, SMTT(30) DEF ConfirmedInv
<1> QED
    BY <1>6, <1>7

LEMMA ConfirmedSurroundings ==
    ASSUME AgentInv, ConfirmedInv,
           \/ \E d \in Deliveries : Cancel(d)
           \/ Change \/ Publish \/ Tick \/ Restart \/ UNCHANGED vars
    PROVE  ConfirmedInv'
<1>1. CASE Change
  <2>1. PICK e \in Endpoints, s \in Settings :
            ChangesOnly(e, s) /\ disturbed' = disturbed \cup Confident(e, s)
      BY <1>1 DEF Change, ChangesOnly
  <2>2. UNCHANGED <<pc, req, held, reply, inFlight, applied>>
      BY <1>1 DEF Change, task
  <2>3. disturbed' = disturbed \cup (Confident(e, s) \ {}) /\ {} \in SUBSET Deliveries
      BY <2>1
  <2>4. /\ \A c \in Deliveries : HasRead(c) /\ c \notin disturbed' /\ c \notin {} =>
               reply[c].value = At(c)'.value
        /\ \A c \in inFlight : c \notin disturbed' /\ c \notin {} => At(c)'.value = req[c].old
      BY <2>1, <2>2, <2>3, ConfirmedChange, Zenon
  <2>5. ReplacesConfirmedUndisturbed'
      BY <2>1, <2>2 DEF ConfirmedInv, ReplacesConfirmedUndisturbed
  <2>6. \A c \in Deliveries : HasRead(c)' = HasRead(c)
      BY <2>2 DEF HasRead
  <2> QED
      BY <2>2, <2>4, <2>5, <2>6 DEF ConfirmedInv
<1>2. CASE (\E d \in Deliveries : Cancel(d)) \/ Publish \/ Tick \/ UNCHANGED vars
  <2>1. UNCHANGED <<pc, req, held, reply, device, inFlight, applied, disturbed>>
      BY <1>2 DEF Cancel, Publish, Tick, vars, task, printer
  <2> QED
      BY <2>1, ConfirmedKept, SMTT(30) DEF HasRead
<1>3. CASE Restart
  <2>1. /\ UNCHANGED <<req, held, device, inFlight, applied, disturbed>>
        /\ \A d \in Deliveries : reply'[d] = NoReply
      BY <1>3 DEF Restart, printer
  <2> QED
      BY <2>1, ConfirmedKept DEF HasRead
<1> QED
    BY <1>1, <1>2, <1>3, SMTT(30)

\* Whatever runs at the same time, whoever else changes the printers and however often the agent
\* is restarted, a write replaces the value that was confirmed, unless the setting changed after
\* the read that precedes the write.
THEOREM WritesReplaceTheConfirmed ==
    ASSUME Requests # {}, Endpoints # {}
    PROVE  Spec => []ReplacesConfirmedUndisturbed
<1>1. Init => ConfirmedInv
    BY Zenon DEF Init, ConfirmedInv, HasRead, ReplacesConfirmedUndisturbed
<1>2. ASSUME AgentInv, ConfirmedInv, [Next]_vars
      PROVE  ConfirmedInv'
  <2>1. CASE \E d \in Deliveries : \E r \in Requests : Deliver(d, r)
      BY <1>2, <2>1, ConfirmedDeliver
  <2>2. CASE \E d \in Deliveries : Step(d) \/ RunnerFails(d)
      BY <1>2, <2>2, ConfirmedHandler, ConfirmedReread DEF Step
  <2>3. CASE \E d \in Deliveries : Answer(d) \/ GetWrite(d)
      BY <1>2, <2>3, ConfirmedAnswer, ConfirmedGetWrite
  <2>4. CASE (\E d \in Deliveries : Cancel(d)) \/ Change \/ Publish \/ Tick \/ Restart
             \/ UNCHANGED vars
      BY <1>2, <2>4, ConfirmedSurroundings
  <2> QED
      BY <1>2, <2>1, <2>2, <2>3, <2>4 DEF Next
<1>3. ConfirmedInv => ReplacesConfirmedUndisturbed
    BY DEF ConfirmedInv
<1> QED
    BY <1>1, <1>2, <1>3, AgentInvariant, PTL DEF Spec
=============================================================================
