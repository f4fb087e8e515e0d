-------------------------------- MODULE Sheet --------------------------------
(***************************************************************************)
(* Imposition of labels on sheets of paper: mb-printer-core/src/sheet.rs.   *)
(* A layout is checked in micrometres; the pages are bitmaps, on which      *)
(* every position and every size is rounded to dots by itself.             *)
(***************************************************************************)
EXTENDS Integers, Sequences, Vectors, ProcessingLimits

-----------------------------------------------------------------------------
(* Dots *)

MicrometresPerInch == 25400

\* CUT_MARK_LENGTH_UM
CutMarkLength == 2000

\* round_ratio for a numerator that is not negative: half away from zero.
round_ratio(n, d) == (n + d \div 2) \div d

micrometres_to_dots(value, dpi) == round_ratio(value * dpi, MicrometresPerInch)

-----------------------------------------------------------------------------
(* Layouts *)

SheetSlot == [x : Int, y : Int, w : Int, h : Int]

SheetLayout == [width : Int, height : Int, slots : Seq(SheetSlot)]

SheetGrid ==
    [paper_width : Int, paper_height : Int, rows : Nat, columns : Nat, label_width : Int, label_height : Int,
     margin_left : Int, margin_top : Int, gap_x : Int, gap_y : Int, fill_order : {"row-major", "column-major"}]

overlaps(a, b) ==
    /\ a.x < b.x + b.w /\ b.x < a.x + a.w
    /\ a.y < b.y + b.h /\ b.y < a.y + a.h

SlotFits(layout, s) ==
    /\ s.x >= 0 /\ s.y >= 0 /\ s.w > 0 /\ s.h > 0
    /\ s.x + s.w <= layout.width
    /\ s.y + s.h <= layout.height

\* Mutant of validate_layout: slots may overlap.
ValidateLayoutLoose(layout) ==
    CASE layout.width <= 0 \/ layout.height <= 0 -> "invalid paper"
      [] layout.slots = <<>> -> "empty layout"
      [] Len(layout.slots) > MaxSheetSlots -> "limit"
      [] \E i \in DOMAIN layout.slots : ~SlotFits(layout, layout.slots[i]) -> "slot outside paper"
      [] OTHER -> "none"

validate_layout(layout) ==
    CASE layout.width <= 0 \/ layout.height <= 0 -> "invalid paper"
      [] layout.slots = <<>> -> "empty layout"
      [] Len(layout.slots) > MaxSheetSlots -> "limit"
      [] \E i \in DOMAIN layout.slots : ~SlotFits(layout, layout.slots[i]) -> "slot outside paper"
      [] \E i, j \in DOMAIN layout.slots :
             i < j /\ overlaps(layout.slots[i], layout.slots[j]) -> "overlapping slots"
      [] OTHER -> "none"

\* The cell of a grid that is the n-th to be filled, n from 0.
GridCell(grid, n) ==
    IF grid.fill_order = "row-major"
    THEN [row |-> n \div grid.columns, column |-> n % grid.columns]
    ELSE [row |-> n % grid.rows, column |-> n \div grid.rows]

GridSlot(grid, cell) ==
    [x |-> grid.margin_left + cell.column * (grid.label_width + grid.gap_x),
     y |-> grid.margin_top + cell.row * (grid.label_height + grid.gap_y),
     w |-> grid.label_width, h |-> grid.label_height]

\* normalize_layout of a grid; an explicit layout is validated as it is.
normalize_layout(definition) ==
    IF definition.kind = "explicit"
    THEN LET e == validate_layout(definition.layout)
         IN  IF e = "none" THEN Ok(definition.layout) ELSE Err(e)
    ELSE LET g == definition.grid
             layout == [width |-> g.paper_width, height |-> g.paper_height,
                        slots |-> [n \in 1..g.rows * g.columns |-> GridSlot(g, GridCell(g, n - 1))]]
         IN  CASE \/ g.rows = 0 \/ g.columns = 0
                  \/ g.label_width <= 0 \/ g.label_height <= 0
                  \/ g.margin_left < 0 \/ g.margin_top < 0
                  \/ g.gap_x < 0 \/ g.gap_y < 0 -> Err("invalid grid")
               [] g.rows * g.columns > MaxSheetSlots -> Err("limit")
               [] validate_layout(layout) # "none" -> Err(validate_layout(layout))
               [] OTHER -> Ok(layout)

-----------------------------------------------------------------------------
(* Plans.  Items, pages and slots are from 1. *)

\* Mutant of Placement: the slot asked for does not count for the first page.
PlacementShort(item, first, slots) ==
    LET capacity == slots - first
        later == item - capacity - 1
    IN  [item |-> item,
         page |-> IF item <= capacity THEN 1 ELSE 2 + later \div slots,
         slot |-> IF item <= capacity THEN first + item - 1 ELSE (later % slots) + 1]

\* The first page starts at the slot asked for, later ones at their first slot.
Placement(item, first, slots) ==
    LET capacity == slots - first + 1
        later == item - capacity - 1
    IN  [item |-> item,
         page |-> IF item <= capacity THEN 1 ELSE 2 + later \div slots,
         slot |-> IF item <= capacity THEN first + item - 1 ELSE (later % slots) + 1]

PageCount(items, first, slots) ==
    LET remaining == items - (slots - first + 1)
    IN  IF remaining <= 0 THEN 1 ELSE 1 + (remaining + slots - 1) \div slots

paper_dots(layout, dpi) ==
    [width |-> micrometres_to_dots(layout.width, dpi),
     height |-> micrometres_to_dots(layout.height, dpi)]

\* The label sizes are compared with the slots after the limits.
SizesMatch(labels, layout, placements) ==
    \A n \in DOMAIN labels :
        LET s == layout.slots[placements[n].slot] IN s.w = labels[n].w /\ s.h = labels[n].h

\* plan, and the checks of pdf and pdf_rasters on every item: labels is their sizes.
sheet_plan(labels, definition, first, dpi) ==
    LET normal == normalize_layout(definition)
        layout == normal.value
        slots == Len(layout.slots)
        paper == paper_dots(layout, dpi)
        pages == PageCount(Len(labels), first, slots)
        placements == [n \in DOMAIN labels |-> Placement(n, first, slots)]
    IN  CASE labels = <<>> -> Err("empty job")
          [] Len(labels) > MaxSheetItems -> Err("limit")
          [] ~normal.ok -> normal
          [] first > slots -> Err("first slot")
          [] paper.width * paper.height > MaxCanvasPixels -> Err("raster too large")
          [] pages > MaxPages -> Err("limit")
          [] paper.width * paper.height * pages > MaxTotalPixels -> Err("raster too large")
          [] ~SizesMatch(labels, layout, placements) -> Err("label size")
          [] OTHER -> Ok([page_count |-> pages, layout |-> layout, placements |-> placements])

-----------------------------------------------------------------------------
(* Pages *)

\* The rectangle of dots a label covers: its origin and its size are rounded separately.
Covered(slot, dpi) ==
    [left |-> micrometres_to_dots(slot.x, dpi), top |-> micrometres_to_dots(slot.y, dpi),
     width |-> micrometres_to_dots(slot.w, dpi), height |-> micrometres_to_dots(slot.h, dpi)]

\* MonoRaster::blit: a label that is not inside the page is refused.
Blits(paper, c) ==
    /\ c.width > 0 /\ c.height > 0
    /\ c.left + c.width <= paper.width
    /\ c.top + c.height <= paper.height

\* The dots draw_cut_marks blackens outwards from a label's edges, those on the page.
CutMarks(paper, c, dpi) ==
    LET length == micrometres_to_dots(CutMarkLength, dpi)
        delta == 0..(IF length = 0 THEN 1 ELSE length) - 1
    IN  {d \in UNION {{<<c.left - k, c.top>>, <<c.left, c.top - k>>,
                       <<c.left + c.width + k, c.top>>, <<c.left, c.top + c.height + k>>} : k \in delta} :
             d[1] \in 0..paper.width - 1 /\ d[2] \in 0..paper.height - 1}

\* pdf_documents_planned and pdf_rasters_planned: the labels of every page in the order of
\* the plan, each with its cut marks after it, or an error.
impose(plan, dpi, cutMarks) ==
    LET paper == paper_dots(plan.layout, dpi)
        at(p) == Covered(plan.layout.slots[p.slot], dpi)
        marks(p) == IF cutMarks THEN CutMarks(paper, at(p), dpi) ELSE {}
    IN  IF \E n \in DOMAIN plan.placements : ~Blits(paper, at(plan.placements[n]))
        THEN Err("placement")
        ELSE Ok([page \in 1..plan.page_count |->
                     LET here == Picked(plan.placements,
                                    {n \in DOMAIN plan.placements : plan.placements[n].page = page})
                     IN  [n \in DOMAIN here |-> [item |-> here[n].item, at |-> at(here[n]),
                                                 marks |-> marks(here[n])]]])
=============================================================================
