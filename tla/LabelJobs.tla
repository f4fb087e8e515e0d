------------------------------ MODULE LabelJobs ------------------------------
(***************************************************************************)
(* From records to paper: a client fills the zones of a document with       *)
(* records, and sends the pages to a printer as one job or imposes them on  *)
(* sheets.  The steps are the calls that mb-printer-wasm/src/lib.rs exports; *)
(* they share no state but what the client passes from one to the next.    *)
(* The client also plans single documents and compresses raster lines.     *)
(***************************************************************************)
EXTENDS Materialize, Sheet, ProtocolPlan

CONSTANTS
    Templates,     \* documents
    MaxRecords,    \* bound on the records of a batch
    ZoneChoices,   \* sequences of zones a batch may be asked to fill
    Printers,      \* printer definitions
    MaxRequestDocuments, \* WireLimits::max_request_documents
    MaxCutEvery,   \* the most labels a cut count can hold: u8::MAX
    SingleDocuments, \* documents planned by themselves: rows, and micrometres of width and height
    Copies,        \* numbers of copies asked for
    Definitions,   \* sheet definitions
    Resolutions,   \* dots per inch of sheets
    RasterLines    \* rows of bytes, at most as many as the widest printer has

ASSUME BatchAssumption ==
    /\ MaxRecords \in Nat
    /\ ZoneChoices \subseteq Seq(Seq(STRING))

ASSUME SheetAssumption ==
    /\ MaxSheetSlots \in Nat
    /\ Resolutions \subseteq Nat \ {0}
    /\ \A d \in Definitions : \/ d.kind = "explicit" /\ d.layout \in SheetLayout
                              \/ d.kind = "grid" /\ d.grid \in SheetGrid

ASSUME LineAssumption ==
    \A row \in RasterLines : row \in Seq(0..255) /\ Len(row) \in 1..162

VARIABLES
    stage,     \* "template", "documents", or what was done with the documents
    request,   \* what the client asked for
    pages,     \* the result of the materialisation
    result,    \* the result of the last call
    device     \* what the printer does with a plan

vars == <<stage, request, pages, result, device>>

Nothing == [of |-> "nothing"]

Init ==
    /\ stage = "template" /\ request = Nothing
    /\ pages = Ok(<<>>) /\ result = Ok(<<>>) /\ device = Nothing

-----------------------------------------------------------------------------
(* Documents *)

\* materialize_record_json
FillRecord ==
    /\ stage = "template"
    /\ \E t \in Templates, filled \in BOOLEAN :
           LET document == materialize_record(t, [number |-> 1, filled |-> filled])
           IN  /\ request' = [of |-> "record", template |-> t]
               /\ pages' = IF document.ok THEN Ok(<<document.value>>) ELSE document
    /\ stage' = "documents"
    /\ UNCHANGED <<result, device>>

\* materialize_zone_batch_json
FillZones ==
    /\ stage = "template"
    /\ \E t \in Templates, n \in 0..MaxRecords, zones \in ZoneChoices, unfilled \in 0..1 :
           LET records == [r \in 1..n |-> [number |-> r, filled |-> r # unfilled]]
           IN  /\ request' = [of |-> "batch", template |-> t, records |-> records, zones |-> zones]
               /\ pages' = materialize_zone_batch(t, records, zones)
    /\ stage' = "documents"
    /\ UNCHANGED <<result, device>>

-----------------------------------------------------------------------------
(* The printer *)

\* A thermal head prints lines as they come; TSPL and Brother printers hold the label.
Idle(printer) ==
    [direct |-> printer.protocol \notin {"Tspl", "Brother"}, size |-> <<0, 0>>, announced |-> 0, loaded |-> 0,
     labels |-> <<>>, autocut |-> FALSE, every |-> 1, since |-> 0, cuts |-> <<>>]

\* A label leaves the printer, and is cut off when enough of them have.
Out(s, label) ==
    LET cut == s.autocut /\ s.since + 1 = s.every
    IN  [s EXCEPT !.labels = Append(@, label), !.since = IF cut THEN 0 ELSE @ + 1,
                  !.cuts = IF cut THEN Append(@, Len(s.labels) + 1) ELSE @]

\* The label that the printer holds leaves it some times.
OutTimes(s, times) ==
    LET after[n \in 0..times] == IF n = 0 THEN s ELSE Out(after[n - 1], s.loaded) IN after[times]

\* A raster that does not have the rows announced for it spoils the label, and so does a
\* label announced with a negative size: 0.
Loaded(s, a) ==
    IF a.rows = s.announced /\ \A i \in DOMAIN s.size : s.size[i] >= 0 THEN a.label ELSE 0

Announcements == {"GS v 0 raster header", "ESC @ init + GS v 0 raster header", "BITMAP header",
                  "ESC i z print information"}

\* What an action makes a printer do.  Configuring the cutter starts its count.
PrinterAfter(s, a) ==
    IF a.action = "RasterWrite"
    THEN IF s.direct THEN Out(s, Loaded(s, a)) ELSE [s EXCEPT !.loaded = Loaded(s, a)]
    ELSE IF a.action # "CommandWrite" THEN s
    ELSE CASE a.name \in Announcements -> [s EXCEPT !.announced = a.arg]
           [] a.name = "TSPL SIZE" -> [s EXCEPT !.size = a.arg]
           [] a.name = "ESC i M autocut" -> [s EXCEPT !.autocut = TRUE]
           [] a.name = "ESC i A cut every" -> [s EXCEPT !.every = a.arg, !.since = 0]
           [] a.name = "print" -> OutTimes(s, 1)
           [] a.name = "TSPL PRINT" -> OutTimes(s, a.arg)
           [] OTHER -> s

-----------------------------------------------------------------------------
(* Printer jobs *)

\* A job is absent, or a cut mode, whether copies are chained, and an extra feed.
CutEvery(job, copies) ==
    IF job.cut_mode = "after-job" \/ (job.cut_mode = "after-each" /\ job.chain) THEN copies ELSE 1

\* The printer takes continuous media, and the length of the document.
validate_continuous_document(printer, continuous, length_ok) ==
    continuous => printer.continuous_media /\ length_ok

\* protocol_options: job options require continuous media, and the cut mode, the chaining
\* and the feed to be among the printer's capabilities.  A copy count may be too large
\* for a cut count.
protocol_options(printer, continuous, copies, job) ==
    LET plain == [density |-> 6, copies |-> copies, cut |-> TRUE, cut_every |-> 1, lzo |-> FALSE,
                  compress |-> TRUE, continuous |-> FALSE, feed |-> 32, media |-> "none",
                  size |-> <<0, 0>>]
    IN  CASE job.cut_mode = "absent" -> Ok(plain)
          [] ~continuous -> Err("continuous options")
          [] job.cut_mode \notin printer.cut_modes -> Err("cut mode")
          [] job.chain /\ ~printer.chained -> Err("chained rasters")
          [] job.feed > printer.max_feed -> Err("extra feed")
          [] CutEvery(job, copies) > MaxCutEvery -> Err("copy count")
          [] OTHER -> Ok([plain EXCEPT !.cut = job.cut_mode # "none", !.cut_every = CutEvery(job, copies),
                                       !.continuous = TRUE])

Media(continuous) == IF continuous THEN "continuous" ELSE "die-cut"

\* Micrometres as tenths of a millimetre, which TSPL gets in 16 bits.
tenths_mm(value) == (value + 50) \div 100

\* Micrometres as millimetres, which Brother printers get in 8 bits.  The length of continuous
\* media is not sent.  The size of a 62 by 29 label is sent as such, and is never too large.
millimetres(value) == (value + 500) \div 1000

OutsideRange(printer, width, height, continuous) ==
    CASE printer.protocol = "Tspl" -> tenths_mm(width) > 65535 \/ tenths_mm(height) > 65535
      [] printer.protocol = "Brother" ->
             millimetres(width) > 255 \/ (~continuous /\ millimetres(height) > 255)
      [] OTHER -> FALSE

\* The rasters of a batch: every document as often as there are copies.
Rasters(documents, copies, rows, width) ==
    Flattened([d \in DOMAIN documents |->
                    [c \in 1..copies |-> [label |-> d, rows |-> rows, width |-> width]]])

\* Copies are spread over the rasters; chained copies are cut after each document.
BatchOptions(options, job, copies, continuous) ==
    [options EXCEPT !.copies = 1, !.continuous = continuous, !.media = Media(continuous),
                    !.cut_every = IF job.cut_mode = "after-each" /\ job.chain THEN copies ELSE @]

\* render_protocol_batch_plan_with_options.
batch_plan(printer, documents, doc, copies, job) ==
    LET labels == copies * Len(documents)
        options == protocol_options(printer, doc.continuous, labels, job)
        rasters == Rasters(documents, copies, doc.rows, printer.width)
    IN  CASE Len(documents) \notin 1..MaxRequestDocuments -> Err("document count")
          [] printer.protocol # "Brother" -> Err("variable-raster batches")
          [] ~validate_continuous_document(printer, doc.continuous, doc.length_ok) -> Err("continuous")
          [] labels = 0 \/ labels > MaxCutEvery -> Err("label count")
          [] ~options.ok -> options
          [] OutsideRange(printer, doc.width, doc.height, doc.continuous) -> Err("media dimension")
          [] \E d \in DOMAIN documents : ~validate(documents[d]) -> Err("invalid")
          [] OTHER -> plan_batch_with_limits(printer, rasters,
                          BatchOptions(options.value, job, copies, doc.continuous))

\* The options of a single document: a TSPL printer gets its size, a Brother printer its media.
SingleOptions(options, printer, doc, continuous) ==
    CASE printer.protocol = "Tspl" ->
             [options EXCEPT !.size = <<tenths_mm(doc.width), tenths_mm(doc.height)>>]
      [] printer.protocol = "Brother" ->
             [options EXCEPT !.continuous = continuous, !.media = Media(continuous)]
      [] OTHER -> options

\* render_protocol_plan_with_options, called without a size or a media of the client's own.
single_plan(printer, doc, continuous, copies, job) ==
    LET options == protocol_options(printer, continuous, copies, job)
        raster == [label |-> 1, rows |-> doc.rows, width |-> printer.width]
    IN  CASE ~validate_continuous_document(printer, continuous, TRUE) -> Err("continuous")
          [] ~options.ok -> options
          [] OutsideRange(printer, doc.width, doc.height, continuous) -> Err("media dimension")
          [] OTHER -> plan_with_limits(printer, raster,
                          SingleOptions(options.value, printer, doc, continuous))

Jobs == {[cut_mode |-> "absent", chain |-> FALSE, feed |-> 0],
         [cut_mode |-> "after-each", chain |-> FALSE, feed |-> 1]}
        \cup [cut_mode : {"after-each", "after-job", "none"}, chain : BOOLEAN, feed : {0}]

PlanBatch ==
    /\ stage = "documents" /\ pages.ok
    /\ \E p \in Printers, copies \in Copies, job \in Jobs :
           /\ request' = [of |-> "print", from |-> request, printer |-> p, copies |-> copies, job |-> job]
           /\ result' = batch_plan(p, pages.value, request.template, copies, job)
           /\ device' = Idle(p)
    /\ stage' = "planned"
    /\ UNCHANGED pages

PlanSingle ==
    /\ stage = "template"
    /\ \E p \in Printers, doc \in SingleDocuments, continuous \in BOOLEAN, copies \in Copies, job \in Jobs :
           /\ request' = [of |-> "single", printer |-> p, doc |-> doc, copies |-> copies,
                          fed |-> continuous /\ job.cut_mode # "absent"]
           /\ result' = single_plan(p, doc, continuous, copies, job)
           /\ device' = Idle(p)
    /\ stage' = "planned"
    /\ UNCHANGED pages

\* One line of a raster.
SendLine ==
    /\ stage = "template"
    /\ \E row \in RasterLines : /\ request' = [of |-> "line", row |-> row, pos |-> 1]
                                /\ \/ stage' = "sent" /\ result' = Ok(brother_raster_line(row))
                                   \/ stage' = "packing" /\ result' = Ok(NoBits)
    /\ UNCHANGED <<pages, device>>

\* The loop of packbits, byte by byte.
PackByte ==
    /\ stage = "packing" /\ request.pos < Len(request.row)
    /\ LET byte == request.row[request.pos]
       IN  result' = Ok(PackStep(result.value, byte, byte = request.row[request.pos + 1]))
    /\ request' = [request EXCEPT !.pos = @ + 1]
    /\ UNCHANGED <<stage, pages, device>>

PackEnds ==
    /\ stage = "packing" /\ request.pos = Len(request.row)
    /\ result' = Ok(brother_raster_line(PackLast(result.value, request.row[request.pos])))
    /\ stage' = "compressed"
    /\ UNCHANGED <<request, pages, device>>

-----------------------------------------------------------------------------
(* Sheets *)

ImposeSheets ==
    /\ stage = "documents" /\ pages.ok
    /\ \E d \in Definitions, dpi \in Resolutions, first \in 1..MaxSheetSlots, marks \in BOOLEAN :
           LET t == request.template
               labels == [k \in DOMAIN pages.value |-> [w |-> t.width, h |-> t.height]]
               plan == sheet_plan(labels, d, first, dpi)
           IN  /\ request' = [of |-> "sheet", dpi |-> dpi, first |-> first, items |-> Len(labels),
                              plan |-> plan]
               /\ result' = IF plan.ok THEN impose(plan.value, dpi, marks) ELSE plan
    /\ stage' = "imposed"
    /\ UNCHANGED <<pages, device>>

PrinterPrints ==
    /\ stage = "planned" /\ result.ok /\ result.value # <<>>
    /\ device' = PrinterAfter(device, Head(result.value))
    /\ result' = Ok(Tail(result.value))
    /\ UNCHANGED <<stage, request, pages>>

Next == FillRecord \/ FillZones \/ PlanBatch \/ PlanSingle \/ SendLine \/ PackByte \/ PackEnds \/ ImposeSheets \/ PrinterPrints

Spec == Init /\ [][Next]_vars

-----------------------------------------------------------------------------
(* Properties *)

\* materialize_zone_batch rewrites ids, groups, children and zones, and does not validate
\* its output: the pages of an accepted batch are valid documents all the same, when no id
\* of the template looks like a rewritten one.
BatchPagesAreValid ==
    stage = "documents" /\ pages.ok => \A k \in DOMAIN pages.value : validate(pages.value[k])

\* The template drawn for one record in one zone.
Reference(t, record, zone) ==
    LET doc == materialize_unchecked(t, record).value
    IN  Shown([doc EXCEPT !.elements = [i \in DOMAIN @ |-> [@[i] EXCEPT !.zone = zone]]], zone)

\* The array order of the elements is their z-order.
InPaintOrder(t) == \A i, j \in DOMAIN t.elements : i < j => t.elements[i].z <= t.elements[j].z

NoClones(t, zones) == \A a, b \in Range(zones) : ~zone_clones(t, a, b)

\* Every record is on exactly one page and in one zone, in the order of the records, and a
\* zone shows what the template filled from its record shows, and nothing of another one.
\* This needs a template in paint order, without inverted images, and zones of which none
\* clones another: the z-order, the ids and the clones of the page are its own.
ZonesShowTheirRecords ==
    (/\ stage = "documents" /\ pages.ok /\ request.of = "batch"
     /\ InPaintOrder(request.template) /\ request.template.inverted = {}
     /\ NoClones(request.template, request.zones)) =>
        \A k \in DOMAIN pages.value, z \in DOMAIN request.zones :
            LET r == (k - 1) * Len(request.zones) + z
            IN  Shown(pages.value[k], request.zones[z]) =
                    IF r > Len(request.records) THEN <<>>
                    ELSE Reference(request.template, request.records[r], request.zones[z])

\* Labels 1..n, each c times.
EachTimes(n, c) == [k \in 1..n * c |-> (k - 1) \div c + 1]

\* After which labels a batch was asked to cut.
CutsAsked(documents, copies, job) ==
    CASE job.cut_mode = "none" -> <<>>
      [] job.cut_mode = "after-job" -> <<documents * copies>>
      [] job.cut_mode = "after-each" /\ job.chain -> [k \in 1..documents |-> k * copies]
      [] OTHER -> [k \in 1..documents * copies |-> k]

Printed == stage = "planned" /\ result.ok /\ result.value = <<>>

\* A printed batch is every document in order, each as often as asked for, unspoilt, and
\* cut where asked for, although one cut counter runs over all pages.
PrintsTheBatch ==
    Printed /\ request.of = "print" =>
        /\ device.labels = EachTimes(Len(pages.value), request.copies)
        /\ device.cuts = CutsAsked(Len(pages.value), request.copies, request.job)

\* The size of a single label can be announced: in 16 bits of rows, the blank rows that feed
\* continuous media in a D-series printer included, to a TSPL printer in 15 bits of tenths of
\* a millimetre, and to a Brother printer in 32 bits of rows.
CanBeAnnounced(printer, doc, fed) ==
    CASE printer.protocol = "Tspl" -> doc.width < 3276750 /\ doc.height < 3276750
      [] printer.protocol = "Brother" -> TRUE
      [] OTHER -> doc.rows + (IF fed /\ printer.protocol = "DSeries" THEN 88 ELSE 0) < 65536

\* As many labels come out as copies were asked for, and the printer is told the truth about
\* each of them when its size can be announced.  No plan is refused for a size that cannot
\* be: header and fmt_mm convert it without an error, and every copy is spoilt.
PrintsTheCopies ==
    Printed /\ request.of = "single" =>
        device.labels = [k \in 1..request.copies |->
                             IF CanBeAnnounced(request.printer, request.doc, request.fed) THEN 1 ELSE 0]

\* What comes out of the printer is what was asked for, of a batch and of a single label.
PrintsWhatWasAsked == PrintsTheBatch /\ PrintsTheCopies

\* A line has its length in front of it, and what it expands to is the row it was made from.
LinesExpandToTheirRows ==
    stage \in {"sent", "compressed"} =>
        LET line == result.value
            bytes == SubSeq(line, 4, Len(line))
        IN  /\ Len(bytes) = line[3]
            /\ IF stage = "sent" THEN bytes = request.row
               ELSE Unpacked(bytes) = [out |-> request.row, literals |-> 0, repeats |-> 0]

\* Every page is imposed once and in order, no sheet is empty, and no slot is used twice.
ItemsImposedOnce ==
    stage = "imposed" /\ result.ok =>
        LET sheets == result.value
            slot(item) == request.plan.value.placements[item].slot
        IN  /\ \A n \in 1..request.items :
                   \E p \in DOMAIN sheets : \E k \in DOMAIN sheets[p] : sheets[p][k].item = n
            /\ \A p, q \in DOMAIN sheets : \A k \in DOMAIN sheets[p], l \in DOMAIN sheets[q] :
                   p < q \/ (p = q /\ k < l) => sheets[p][k].item < sheets[q][l].item
            /\ \A p \in DOMAIN sheets :
                   /\ sheets[p] # <<>>
                   /\ \A k \in DOMAIN sheets[p] :
                          /\ sheets[p][k].item \in 1..request.items
                          /\ \A l \in DOMAIN sheets[p] \ {k} : slot(sheets[p][k].item) # slot(sheets[p][l].item)

\* How far two intervals have dots in common.
Common(a, b, start, size) ==
    LET least(x, y) == IF x < y THEN x ELSE y
        most(x, y) == IF x < y THEN y ELSE x
    IN  least(a[start] + a[size], b[start] + b[size]) - most(a[start], b[start])

\* Slots at least a cut mark and two dots apart.
Apart(a, b, dpi) ==
    LET d == CutMarkLength + 2 * (MicrometresPerInch \div dpi + 1)
    IN  \/ a.x + a.w + d <= b.x \/ b.x + b.w + d <= a.x
        \/ a.y + a.h + d <= b.y \/ b.y + b.h + d <= a.y

Inside(d, c) == d[1] \in c.left..c.left + c.width - 1 /\ d[2] \in c.top..c.top + c.height - 1

\* Slots that do not overlap in micrometres share at most one column or row of dots, none is
\* off the paper by more than one dot, and the cut marks of a label do not reach one that is
\* apart from it.
OneDotIsLost(layout, dpi) ==
    LET paper == paper_dots(layout, dpi)
        at(s) == Covered(s, dpi)
    IN  /\ \A i \in DOMAIN layout.slots :
               LET c == at(layout.slots[i])
               IN  c.left + c.width <= paper.width + 1 /\ c.top + c.height <= paper.height + 1
        /\ \A i, j \in DOMAIN layout.slots :
               LET a == at(layout.slots[i])
                   b == at(layout.slots[j])
               IN  i # j =>
                   /\ Common(a, b, "left", "width") <= 1 \/ Common(a, b, "top", "height") <= 1
                   /\ Apart(layout.slots[i], layout.slots[j], dpi) =>
                          \A d \in CutMarks(paper, a, dpi) : ~Inside(d, b)

\* The labels of an accepted plan are where the layout has them but for one dot, although the
\* origin and the size of every slot are rounded by themselves.
RoundingCostsOneDot ==
    stage = "imposed" /\ request.plan.ok => OneDotIsLost(request.plan.value.layout, request.dpi)
=============================================================================
