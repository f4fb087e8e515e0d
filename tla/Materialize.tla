----------------------------- MODULE Materialize -----------------------------
(***************************************************************************)
(* Label documents and their materialisation: Document::validate, the      *)
(* filling of a template from records, the placement of records in the     *)
(* zones of pages (plan_zone_batch, materialize_zone_batch) and the order   *)
(* in which render_with_limits paints the elements of a page.              *)
(*                                                                         *)
(* An element is its id, its kind, its group, its children, the zone it is  *)
(* constrained to, its z-order, what it shows and whether it is visible.   *)
(* Ids are sequences, so that a rewritten id has the old one as its prefix. *)
(* Geometry, resources and element attributes are one flag, sound.          *)
(***************************************************************************)
EXTENDS Integers, Sequences, FiniteSets, Functions, TLC, Vectors, ProcessingLimits

None == <<>>

-----------------------------------------------------------------------------
(* Documents *)

Ids(seq) == {seq[i].id : i \in DOMAIN seq}

Unique(seq) == Cardinality(Ids(seq)) = Len(seq)

\* The first item with the id: iter().find.
Find(seq, id) == seq[CHOOSE i \in DOMAIN seq :
                         seq[i].id = id /\ \A j \in 1..i - 1 : seq[j].id # id]

\* The ids met by following a field from an item, until it ends or has met them all.
Chain(seq, id, field) ==
    LET step[n \in 0..Len(seq)] ==
            IF n = 0 THEN <<id>>
            ELSE LET met == step[n - 1]
                     last == met[Len(met)]
                 IN  IF last \notin Ids(seq) \/ Find(seq, last)[field] = None
                     THEN met ELSE Append(met, Find(seq, last)[field])
    IN  step[Len(seq)]

Acyclic(seq, field) ==
    \A i \in DOMAIN seq :
        LET met == Chain(seq, seq[i].id, field) IN Cardinality(Range(met)) = Len(met)

ZonesValid(doc) ==
    /\ Unique(doc.zones)
    /\ \A i \in DOMAIN doc.zones :
           /\ doc.zones[i].sound
           /\ doc.zones[i].clone_of \in Ids(doc.zones) \cup {None}
    /\ Acyclic(doc.zones, "clone_of")

\* An element's group exists, is a group and has it as a child.
GroupValid(doc, e) ==
    e.group # None =>
        /\ e.group \in Ids(doc.elements)
        /\ LET g == Find(doc.elements, e.group)
           IN  g.kind = "group" /\ e.id \in Range(g.children)

\* A group's children exist, are different, are not itself, and name it as their group.
ChildrenValid(doc, e) ==
    /\ Cardinality(Range(e.children)) = Len(e.children)
    /\ \A c \in Range(e.children) :
           /\ c # e.id
           /\ c \in Ids(doc.elements)
           /\ Find(doc.elements, c).group = e.id

validate(doc) ==
    /\ Len(doc.elements) <= MaxElements
    /\ doc.sound
    /\ ZonesValid(doc)
    /\ Unique(doc.elements)
    /\ Ids(doc.elements) \cap doc.resources = {}
    /\ \A i \in DOMAIN doc.elements :
           LET e == doc.elements[i]
           IN  /\ e.sound
               /\ e.zone \in Ids(doc.zones) \cup {None}
               /\ GroupValid(doc, e)
               /\ ChildrenValid(doc, e)
    /\ Acyclic(doc.elements, "group")

-----------------------------------------------------------------------------
(* Templates.  A record is its number and whether it has the field the texts refer to. *)

\* template::evaluate_with_context: a missing field is an error.
materialize_unchecked(doc, record) ==
    LET bound == {i \in DOMAIN doc.elements : doc.elements[i].shows = "field"}
        bytes == Cardinality({i \in DOMAIN doc.elements : doc.elements[i].kind = "text"})
    IN  IF bound # {} /\ ~record.filled THEN Err("template")
        ELSE IF bytes > MaxOutputBytes THEN Err("limit")
        ELSE Ok([doc EXCEPT !.elements =
                       [i \in DOMAIN @ |->
                            [@[i] EXCEPT !.shows = IF @ = "field" THEN record.number ELSE @]]])

\* materialize_record
materialize_record(doc, record) ==
    IF ~validate(doc) THEN Err("invalid")
    ELSE LET output == materialize_unchecked(doc, record)
         IN  IF output.ok /\ Len(output.value.elements) > MaxOutputBytes
             THEN Err("limit") ELSE output

-----------------------------------------------------------------------------
(* Zone batches *)

\* Mutant of Placements: the first zone of every page is filled first.
PlacementsByZone(records, zones) ==
    LET pages == (records + Len(zones) - 1) \div Len(zones)
    IN  [r \in 1..records |-> [record |-> r, page |-> ((r - 1) % pages) + 1,
                               zone |-> zones[(r - 1) \div pages + 1]]]

\* Record r goes to zone r mod slots of page r div slots; records and pages are from 1.
Placements(records, zones) ==
    [r \in 1..records |-> [record |-> r, page |-> (r - 1) \div Len(zones) + 1,
                           zone |-> zones[((r - 1) % Len(zones)) + 1]]]

selected_zones(doc, zones) ==
    Cardinality(Range(zones)) = Len(zones) /\ Range(zones) \subseteq Ids(doc.zones)

plan_zone_batch(doc, records, zones) ==
    LET pages == IF records = 0 THEN 0 ELSE (records + Len(zones) - 1) \div Len(zones)
    IN  CASE zones = <<>> -> Err("no zones")
          [] ~validate(doc) -> Err("invalid")
          [] records > MaxSheetItems -> Err("limit")
          [] ~selected_zones(doc, zones) -> Err("zones")
          [] pages > MaxPages -> Err("limit")
          [] OTHER -> Ok([page_count |-> pages, placements |-> Placements(records, zones)])

\* The suffix that makes the ids of a placed record its own.
Rewritten(id, p) == IF id = None THEN None ELSE id \o <<p.record>> \o p.zone

\* Mutant of rewrite_element: children keep the ids of the template.
RewriteElementOnly(e, p) ==
    [e EXCEPT !.id = Rewritten(@, p), !.group = Rewritten(@, p), !.zone = p.zone]

rewrite_element(e, p) ==
    [e EXCEPT !.id = Rewritten(@, p), !.group = Rewritten(@, p), !.zone = p.zone,
              !.children = [k \in DOMAIN @ |-> Rewritten(@[k], p)]]

\* The elements of a record go on top of the page, their z-order its length.
PlaceRecord(page, doc, p) ==
    [page EXCEPT !.elements =
         @ \o [i \in DOMAIN doc.elements |->
                   [rewrite_element(doc.elements[i], p) EXCEPT !.z = Len(page.elements) + i - 1]]]

materialize_zone_batch(doc, records, zones) ==
    LET plan == plan_zone_batch(doc, Len(records), zones)
        filled == [r \in DOMAIN records |-> materialize_unchecked(doc, records[r])]
        failed == {r \in DOMAIN records : ~filled[r].ok}
        empty == [doc EXCEPT !.elements = <<>>]
        placed[n \in 0..Len(records)] ==
            IF n = 0 THEN [k \in 1..plan.value.page_count |-> empty]
            ELSE LET p == plan.value.placements[n]
                 IN  [placed[n - 1] EXCEPT ![p.page] = PlaceRecord(@, filled[p.record].value, p)]
    IN  CASE ~plan.ok -> plan
          [] plan.value.page_count = 0 -> Ok(<<>>)
          [] Len(doc.elements) * Len(zones) > MaxElements -> Err("limit")
          [] Len(doc.elements) * plan.value.page_count > MaxOutputBytes -> Err("limit")
          [] failed # {} -> filled[CHOOSE r \in failed : \A q \in failed : r <= q]
          [] Len(doc.elements) * Len(records) > MaxOutputBytes -> Err("limit")
          [] OTHER -> Ok(placed[Len(records)])

-----------------------------------------------------------------------------
(* What render_with_limits paints *)

Parents(doc, e) == Chain(doc.elements, e.id, "group")

effectively_visible(doc, e) ==
    \A id \in Range(Parents(doc, e)) : Find(doc.elements, id).visible

\* The zone of the nearest of the element and its groups that has one.
effective_zone(doc, e) ==
    LET met == Parents(doc, e)
        zone(i) == Find(doc.elements, met[i]).zone
        with == {i \in DOMAIN met : zone(i) # None}
    IN  IF with = {} THEN None ELSE zone(CHOOSE i \in with : \A j \in with : i <= j)

zone_clones(doc, candidate, source) ==
    source \in Range(Tail(Chain(doc.zones, candidate, "clone_of")))

\* The zones an element is drawn in: its own and the clones of that one.
DrawnIn(doc, e) ==
    LET source == effective_zone(doc, e)
    IN  IF source = None THEN {None}
        ELSE {source} \cup {z \in Ids(doc.zones) \ {source} : zone_clones(doc, z, source)}

\* The elements that are painted, from the lowest z-order up, the array order among equals.
Painted(doc) ==
    LET sorted == SortSeq([i \in DOMAIN doc.elements |-> [e |-> doc.elements[i], at |-> i]],
                          LAMBDA a, b : a.e.z < b.e.z \/ (a.e.z = b.e.z /\ a.at < b.at))
    IN  Picked(sorted, {i \in DOMAIN sorted : /\ sorted[i].e.kind # "group"
                                             /\ effectively_visible(doc, sorted[i].e)})

\* What a zone of a page shows, bottom up: the template element and its content.  An image
\* is inverted when the document's extension names the id of its element.
Shown(doc, zone) ==
    LET painted == Painted(doc)
        here == Picked(painted, {i \in DOMAIN painted : zone \in DrawnIn(doc, painted[i].e)})
    IN  [i \in DOMAIN here |-> [id |-> Head(here[i].e.id), shows |-> here[i].e.shows,
                                inverted |-> here[i].e.id \in doc.inverted]]
=============================================================================
