---------------------------- MODULE IppDiscovery ----------------------------
(***************************************************************************)
(* The discovery of a printer over IPP: a request for all attributes, the   *)
(* focused requests for groups the answer leaves incomplete, a request for  *)
(* each document format, the snapshot the answers are merged into, and what *)
(* of the snapshot may leave the process.                                  *)
(*                                                                         *)
(* An attribute's value is the moment at which the printer reported it: the *)
(* printer may change while it is being asked.                              *)
(***************************************************************************)
EXTENDS Integers, Sequences, FiniteSets, Functions

CONSTANTS
    Attributes,    \* the attributes a printer has
    FocusGroups,   \* the groups of focused_query_sets, a sequence of sets
    Advertisable,  \* attributes of these groups that a printer may say it can report
    AttributeKind, \* "single" (identity, state or setting), "reasons", "capability" or "raw"
    Sensitive,     \* the attributes is_sensitive_ipp_attribute names
    Markers,       \* the names in the attribute marker-names
    Formats,       \* document formats
    FormatLists,   \* what the attribute document-format-supported may be: sequences of formats
    MaxFormats,    \* DiscoveryOptions::maximum_formats
    MaxFocused     \* DiscoveryOptions::maximum_focused_queries

NoFormat == "none"

ASSUME IppAssumption ==
    /\ IsFiniteSet(Attributes) /\ "all" \notin Attributes
    /\ FormatLists \subseteq Seq(Formats) /\ NoFormat \notin Formats
    /\ FocusGroups \in Seq(Range(FocusGroups))
    /\ MaxFormats \in Nat \ {0} /\ MaxFocused \in Nat \ {0}

VARIABLES
    reports,    \* the printer: what it answers "all" with, advertises, which formats it lists, whether they
                \* vary, and whether it sends sensitive attributes first
    moment,     \* how often the printer has changed
    queries,    \* requests still to be made; the first is the one under way
    answers,    \* the answers so far: base_response, focused_responses and format_responses
    snapshot,   \* the snapshot so far
    truncated,  \* focused_queries_truncated or formats_truncated
    discovery,  \* "asking", "merged", "failed", "prepared" or "refused"
    prepared    \* what prepare_snapshot_output returned, the mode, and the right to sensitive values

ipp == <<reports, moment, queries, answers, snapshot, truncated, discovery, prepared>>

Request(names, format) == [names |-> names, format |-> format]

NoSnapshot == [single |-> {}, reasons |-> {}, supplies |-> {}, capabilities |-> <<>>, observations |-> <<>>]

\* The members of a set in some order.
Listed(S) == CHOOSE list \in [1..Cardinality(S) -> S] : IsInjective(list)

FirstOf(s, n) == SubSeq(s, 1, IF Len(s) < n THEN Len(s) ELSE n)

IppInit ==
    /\ reports \in [all : SUBSET Attributes, advertised : SUBSET Advertisable,
                    formats : FormatLists, varying : BOOLEAN, leading : BOOLEAN]
    /\ moment = 0
    /\ queries = <<Request({"all"}, NoFormat)>>
    /\ answers = <<>> /\ snapshot = NoSnapshot /\ truncated = FALSE
    /\ discovery = "asking"
    /\ prepared = [mode |-> "none"]

\* An answer: the attributes asked for that the printer has, with their values; or an IPP error
\* status and no attributes, which inspect returns like any other message.
AnswerTo(request, refused) ==
    [names |-> IF refused THEN {}
               ELSE IF request.names = {"all"} THEN reports.all
               ELSE request.names \cap Attributes,
     format |-> request.format, moment |-> moment, leading |-> reports.leading, refused |-> refused]

-----------------------------------------------------------------------------
(* Snapshots *)

Named(answer, kind) == {name \in answer.names : AttributeKind[name] = kind}

is_sensitive_ipp_attribute(name) == name \in Sensitive

\* Identity, state and settings: one value for each name.
Facts(answer, kind) == {[id |-> name, value |-> answer.moment] : name \in Named(answer, kind)}

\* The level a supply has in an answer without the attribute marker-levels.
NoLevel == -2

\* One supply for each marker that the answer names, with its level if that is in the same answer.
Supplies(answer) ==
    {[id |-> marker, value |-> IF "marker-levels" \in answer.names THEN answer.moment ELSE NoLevel]
     : marker \in IF "marker-names" \in answer.names THEN Markers ELSE {}}

\* What jobs can ask for, as far as the format of the request goes.
Capabilities(answer) ==
    Listed({[id |-> name, scope |-> answer.format, value |-> answer.moment] : name \in Named(answer, "capability")})

\* Every attribute as it was sent; the first carries the bytes of the whole response.
Observations(answer) ==
    LET sensitive == Listed(answer.names \cap Sensitive)
        others == Listed(answer.names \ Sensitive)
        names == IF answer.leading THEN sensitive \o others ELSE others \o sensitive
    IN  [i \in DOMAIN names |->
            [id |-> names[i], value |-> answer.moment, sensitive |-> is_sensitive_ipp_attribute(names[i]),
             original |-> i = 1, answer |-> answer]]

normalize_ipp(answer) ==
    [single |-> Facts(answer, "single"), reasons |-> Facts(answer, "reasons"), supplies |-> Supplies(answer),
     capabilities |-> Capabilities(answer), observations |-> Observations(answer)]

\* Mutant of merge_unique: the later answer replaces the earlier one.
MergeLast(target, supplemental) ==
    {entry \in target : \A other \in supplemental : other.id # entry.id} \cup supplemental

\* merge_unique_by, and the same for the identity and the state.
merge_unique(target, supplemental) ==
    target \cup {entry \in supplemental : \A other \in target : other.id # entry.id}

\* merge_unique_by for the capabilities, whose key is the name and the format.
NewCapabilities(target, supplemental) ==
    Listed({entry \in Range(supplemental) :
                  \A i \in DOMAIN target : <<target[i].id, target[i].scope>> # <<entry.id, entry.scope>>})

merge_supplemental_snapshot(target, supplemental) ==
    [single |-> merge_unique(target.single, supplemental.single),
     reasons |-> target.reasons \cup supplemental.reasons,
     supplies |-> merge_unique(target.supplies, supplemental.supplies),
     capabilities |-> target.capabilities \o NewCapabilities(target.capabilities, supplemental.capabilities),
     observations |-> target.observations \o supplemental.observations]

\* An answer for one document format adds capabilities and observations, nothing else.
extend_with_format(target, formatted) ==
    [target EXCEPT !.capabilities = @ \o formatted.capabilities,
                   !.observations = @ \o formatted.observations]

-----------------------------------------------------------------------------
(* The requests *)

\* The attributes the base answer says the printer can report.
Advertised(answer) == IF answer.refused THEN {} ELSE reports.advertised

\* Mutant of Focused: only groups the answer has nothing of.
FocusedUnlessBegun(group, answer) == group \cap Advertised(answer) # {} /\ group \cap answer.names = {}

\* A group the printer has something of and did not answer in full.
Focused(group, answer) ==
    group \cap (answer.names \cup Advertised(answer)) # {} /\ ~(group \subseteq answer.names)

focused_query_sets(answer) ==
    LET sets[i \in 0..Len(FocusGroups)] ==
            IF i = 0 THEN <<>>
            ELSE IF Focused(FocusGroups[i], answer) THEN Append(sets[i - 1], FocusGroups[i])
            ELSE sets[i - 1]
    IN  sets[Len(FocusGroups)]

\* The formats the base answer lists, as often as it lists them, if anything varies with them.
VaryingFormats(answer) == IF reports.varying /\ ~answer.refused THEN reports.formats ELSE <<>>

\* What is asked after the base answer.
FollowUps(answer) ==
    LET groups == FirstOf(focused_query_sets(answer), MaxFocused)
        formats == FirstOf(VaryingFormats(answer), MaxFormats)
    IN  [i \in DOMAIN groups |-> Request(groups[i], NoFormat)]
            \o [i \in DOMAIN formats |-> Request({"all"}, formats[i])]

Truncates(answer) ==
    \/ Len(focused_query_sets(answer)) > MaxFocused
    \/ Len(VaryingFormats(answer)) > MaxFormats

\* inspect answered: the base answer, a focused one or one for a format.
DiscoverAnswered ==
    /\ discovery = "asking"
    /\ \E refused \in BOOLEAN :
           LET answer == AnswerTo(Head(queries), refused)
               rest == IF answers = <<>> THEN FollowUps(answer) ELSE Tail(queries)
           IN  /\ answers' = Append(answers, answer)
               /\ snapshot' = CASE answers = <<>> -> normalize_ipp(answer)
                                [] answers # <<>> /\ answer.format = NoFormat ->
                                       merge_supplemental_snapshot(snapshot, normalize_ipp(answer))
                                [] OTHER -> extend_with_format(snapshot, normalize_ipp(answer))
               /\ truncated' = IF answers = <<>> THEN Truncates(answer) ELSE truncated
               /\ queries' = rest
               /\ discovery' = IF rest = <<>> THEN "merged" ELSE "asking"
    /\ UNCHANGED <<reports, moment, prepared>>

\* inspect failed: a timeout, an HTTP status, a response too large, malformed or for another
\* request.  Nothing of the discovery is returned.
DiscoverFailed ==
    /\ discovery = "asking"
    /\ discovery' = "failed"
    /\ UNCHANGED <<reports, moment, queries, answers, snapshot, truncated, prepared>>

\* The printer changes while it is being asked.
PrinterChanges ==
    /\ discovery = "asking" /\ moment = 0
    /\ moment' = 1
    /\ UNCHANGED <<reports, queries, answers, snapshot, truncated, discovery, prepared>>

-----------------------------------------------------------------------------
(* Output *)

Redacted == -1

\* redact_sensitive_snapshot
redact(s) ==
    [s EXCEPT !.single = {IF is_sensitive_ipp_attribute(entry.id) THEN [entry EXCEPT !.value = Redacted] ELSE entry
                          : entry \in @}]

\* Mutant of RedactRaw: an observation loses the original bytes only for a value of its own.
RedactRawOwn(s) ==
    [s EXCEPT !.observations = [i \in DOMAIN s.observations |->
        [s.observations[i] EXCEPT !.value = IF s.observations[i].sensitive THEN Redacted ELSE @,
                                  !.original = @ /\ ~s.observations[i].sensitive]]]

\* The raw observations of redacted output.
RedactRaw(s) ==
    LET any == \E i \in DOMAIN s.observations : s.observations[i].sensitive
    IN  [s EXCEPT !.observations = [i \in DOMAIN s.observations |->
            [s.observations[i] EXCEPT !.value = IF s.observations[i].sensitive THEN Redacted ELSE @,
                                      !.original = @ /\ ~any]]]

\* The normalised output has the sources of the observations, and no values.
WithoutValues(s) ==
    [s EXCEPT !.observations = [i \in DOMAIN s.observations |->
        [s.observations[i] EXCEPT !.value = Redacted, !.original = FALSE]]]

Authorized(mode, rights) ==
    CASE mode = "NormalizedRedacted" -> TRUE
      [] mode = "LocalRawRedacted" -> "raw_local" \in rights
      [] mode = "LocalRawSensitive" -> {"raw_local", "sensitive_values"} \subseteq rights
      [] mode = "CloudRawAuthorized" -> {"cloud_raw", "sensitive_values"} \subseteq rights

\* prepare_snapshot_output
PrepareOutput ==
    /\ discovery = "merged"
    /\ \E mode \in {"NormalizedRedacted", "LocalRawRedacted", "LocalRawSensitive", "CloudRawAuthorized"},
          rights \in SUBSET {"raw_local", "sensitive_values", "cloud_raw"} :
           IF Authorized(mode, rights)
           THEN /\ discovery' = "prepared"
                /\ prepared' = [mode |-> mode, trusted |-> "sensitive_values" \in rights, may_log |-> mode = "NormalizedRedacted",
                              may_persist |-> mode \in {"NormalizedRedacted", "LocalRawRedacted"},
                              snapshot |-> CASE mode = "NormalizedRedacted" -> WithoutValues(redact(snapshot))
                                             [] mode = "LocalRawRedacted" -> RedactRaw(redact(snapshot))
                                             [] OTHER -> snapshot]
           ELSE discovery' = "refused" /\ UNCHANGED prepared
    /\ UNCHANGED <<reports, moment, queries, answers, snapshot, truncated>>

Discover == DiscoverAnswered \/ DiscoverFailed \/ PrepareOutput

IppNext == Discover \/ PrinterChanges

IppSpec == IppInit /\ [][IppNext]_ipp

-----------------------------------------------------------------------------

Answering(name, format) == {i \in DOMAIN answers : name \in answers[i].names /\ answers[i].format = format}

Earliest(indices) == CHOOSE i \in indices : \A j \in indices : i <= j

\* Every fact of the snapshot is the one the printer first gave for it: an answer to a later
\* request completes the snapshot and changes nothing in it, an answer for one format says
\* nothing of the others, and no fact is there twice although the printer changed meanwhile.  A
\* supply has the level of the first answer that named it, and none if that answer had no
\* levels, whatever a later answer says.  A capability is there twice only for a format that the
\* printer listed twice.
FirstAnswerWins ==
    /\ \A name \in Attributes : AttributeKind[name] = "single" =>
           {entry.value : entry \in {e \in snapshot.single : e.id = name}} =
               IF Answering(name, NoFormat) = {} THEN {}
               ELSE {answers[Earliest(Answering(name, NoFormat))].moment}
    /\ snapshot.supplies = IF Answering("marker-names", NoFormat) = {} THEN {}
                           ELSE Supplies(answers[Earliest(Answering("marker-names", NoFormat))])
    /\ \A i \in DOMAIN snapshot.capabilities :
           LET entry == snapshot.capabilities[i]
               sources == Answering(entry.id, entry.scope)
           IN  /\ \E k \in sources : entry.value = answers[k].moment /\ (entry.scope = NoFormat => k = Earliest(sources))
               /\ \A j \in DOMAIN snapshot.capabilities \ {i} :
                      <<entry.id, entry.scope>> = <<snapshot.capabilities[j].id, snapshot.capabilities[j].scope>> =>
                          entry.scope # NoFormat /\ \E k, l \in sources : k # l

\* A discovery that was not cut short, and in which the printer refused none of the requests
\* without a format, has every attribute of a group of which the printer advertised or reported
\* one.  A refusal is not told from an answer without attributes.
DiscoveryIsComplete ==
    /\ discovery \in {"merged", "prepared", "refused"} /\ ~truncated
    /\ \A i \in DOMAIN answers : answers[i].format = NoFormat => ~answers[i].refused
    => \A i \in DOMAIN FocusGroups :
           FocusGroups[i] \cap (reports.advertised \cup reports.all) # {} =>
               \A name \in FocusGroups[i] \cap Attributes :
                   \E j \in DOMAIN snapshot.observations : snapshot.observations[j].id = name

\* The snapshot of a discovery has what the printer first said of everything it was asked for.
SnapshotIsFaithful == FirstAnswerWins /\ DiscoveryIsComplete

\* What may be logged, or kept without the right to sensitive values, has no value of a
\* sensitive attribute: not in its facts, not among the raw values and not in the bytes of a
\* response in which the printer sent one.
RedactedHidesSensitive ==
    discovery = "prepared" /\ (prepared.may_log \/ prepared.may_persist \/ ~prepared.trusted) =>
        /\ \A entry \in prepared.snapshot.single : entry.id \in Sensitive => entry.value = Redacted
        /\ \A i \in DOMAIN prepared.snapshot.observations :
               LET seen == prepared.snapshot.observations[i]
               IN  /\ seen.id \in Sensitive => seen.value = Redacted
                   /\ seen.original => seen.answer.names \cap Sensitive = {}
=============================================================================
