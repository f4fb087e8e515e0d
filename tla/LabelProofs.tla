----------------------------- MODULE LabelProofs -----------------------------
(***************************************************************************)
(* What rounding to dots can cost on a sheet, where the items of a job go   *)
(* and that every page is imposed once, for every resolution, every layout  *)
(* and every number of items; and that a compressed line expands to its     *)
(* row, for every row of bytes that the widest head prints.                 *)
(***************************************************************************)
EXTENDS LabelJobs, Basics

-----------------------------------------------------------------------------
(* Rounding *)

\* Rounding half away from zero, for numerators that are not negative: the rounded parts of a
\* length are together at most one dot longer than a length they fit in.
LEMMA RoundingParts ==
    ASSUME NEW m \in Nat, NEW n \in Nat, NEW total \in Nat, m + n <= total
    PROVE  round_ratio(m, 25400) + round_ratio(n, 25400) <= round_ratio(total, 25400) + 1
  BY DEF round_ratio

\* render::micrometres_to_dots, for lengths in micrometres.
LEMMA DotsParts ==
    ASSUME NEW x \in Nat, NEW w \in Nat, NEW y \in Nat, NEW dpi \in Nat, x + w <= y
    PROVE  micrometres_to_dots(x, dpi) + micrometres_to_dots(w, dpi) <= micrometres_to_dots(y, dpi) + 1
  <1> DEFINE m == x * dpi
             n == w * dpi
             total == y * dpi
  <1>1. m \in Nat /\ n \in Nat /\ total \in Nat
    OBVIOUS
  <1>2. m + n <= total
    <2>1. m + n = (x + w) * dpi
      OBVIOUS
    <2>2. PICK rest \in Nat : y = x + w + rest
      BY y - (x + w) \in Nat, y = x + w + (y - (x + w))
    <2>3. total = (x + w) * dpi + rest * dpi /\ rest * dpi \in Nat
      BY <2>2
    <2> HIDE DEF m, n, total
    <2>4. (x + w) * dpi \in Nat
      OBVIOUS
    <2> QED
      BY <2>1, <2>3, <2>4
  <1> HIDE DEF m, n, total
  <1>3. round_ratio(m, 25400) + round_ratio(n, 25400) <= round_ratio(total, 25400) + 1
    BY <1>1, <1>2, RoundingParts
  <1> QED
    BY <1>3 DEF m, n, total, micrometres_to_dots, MicrometresPerInch

\* As DotsParts, for three lengths and a distance of two dots.
LEMMA RoundingApart ==
    ASSUME NEW m \in Nat, NEW n \in Nat, NEW k \in Nat, NEW e \in Nat, NEW total \in Nat,
           e >= 25400, m + n + k + 2 * e <= total
    PROVE  round_ratio(m, 25400) + round_ratio(n, 25400) + round_ratio(k, 25400) < round_ratio(total, 25400)
  BY DEF round_ratio

\* The width of a dot, rounded up.
LEMMA DotIsCovered ==
    ASSUME NEW dpi \in Nat \ {0}
    PROVE  /\ 25400 \div dpi + 1 \in Nat
           /\ (25400 \div dpi + 1) * dpi >= 25400
  OBVIOUS

LEMMA DotsApart ==
    ASSUME NEW x \in Nat, NEW w \in Nat, NEW y \in Nat, NEW dpi \in Nat \ {0},
           x + w + CutMarkLength + 2 * (MicrometresPerInch \div dpi + 1) <= y
    PROVE  micrometres_to_dots(x, dpi) + micrometres_to_dots(w, dpi) + micrometres_to_dots(CutMarkLength, dpi)
               < micrometres_to_dots(y, dpi)
  <1> DEFINE q == 25400 \div dpi + 1
             m == x * dpi
             n == w * dpi
             k == 2000 * dpi
             e == q * dpi
             total == y * dpi
  <1>1. q \in Nat /\ e >= 25400
    BY DotIsCovered
  <1>2. x + w + 2000 + 2 * q <= y
    BY DEF CutMarkLength, MicrometresPerInch
  <1> HIDE DEF q
  <1>3. m \in Nat /\ n \in Nat /\ k \in Nat /\ e \in Nat /\ total \in Nat
    BY <1>1
  <1>4. m + n + k + 2 * e <= total
    <2>1. PICK rest \in Nat : y = x + w + 2000 + 2 * q + rest
      BY <1>1, <1>2, y - (x + w + 2000 + 2 * q) \in Nat
    <2>2. total = m + n + k + 2 * e + rest * dpi /\ rest * dpi \in Nat
      BY <1>1, <2>1
    <2> HIDE DEF m, n, k, e, total
    <2> QED
      BY <1>3, <2>2
  <1> HIDE DEF m, n, k, e, total
  <1>5. round_ratio(m, 25400) + round_ratio(n, 25400) + round_ratio(k, 25400) < round_ratio(total, 25400)
    BY <1>1, <1>3, <1>4, RoundingApart
  <1> QED
    BY <1>5 DEF m, n, k, total, micrometres_to_dots, MicrometresPerInch, CutMarkLength

\* A slot that SlotFits accepts in micrometres reaches at most one dot over the edge of the
\* page, at every resolution: Blits refuses it by that one dot or not at all.
THEOREM SlotsOverhangByOneDot ==
    ASSUME NEW layout, layout.width \in Nat, layout.height \in Nat, NEW dpi \in Nat,
           NEW s, s.x \in Int, s.y \in Int, s.w \in Int, s.h \in Int, SlotFits(layout, s)
    PROVE  LET c == Covered(s, dpi)
               paper == paper_dots(layout, dpi)
           IN  c.left + c.width <= paper.width + 1 /\ c.top + c.height <= paper.height + 1
  <1>1. /\ s.x \in Nat /\ s.w \in Nat /\ s.x + s.w <= layout.width
        /\ s.y \in Nat /\ s.h \in Nat /\ s.y + s.h <= layout.height
    BY DEF SlotFits
  <1>2. micrometres_to_dots(s.x, dpi) + micrometres_to_dots(s.w, dpi) <= micrometres_to_dots(layout.width, dpi) + 1
    BY <1>1, DotsParts
  <1>3. micrometres_to_dots(s.y, dpi) + micrometres_to_dots(s.h, dpi) <= micrometres_to_dots(layout.height, dpi) + 1
    BY <1>1, DotsParts
  <1> QED
    BY <1>2, <1>3 DEF Covered, paper_dots

\* Two slots that validate_layout does not find to overlap lie beside or above each other, and
\* so do the dots they cover but for one row or column.
THEOREM NeighboursShareOneDot ==
    ASSUME NEW dpi \in Nat, NEW a, NEW b,
           a.x \in Nat, a.y \in Nat, a.w \in Nat, a.h \in Nat,
           b.x \in Nat, b.y \in Nat, b.w \in Nat, b.h \in Nat,
           ~overlaps(a, b)
    PROVE  LET c == Covered(a, dpi)
               d == Covered(b, dpi)
           IN  \/ c.left + c.width <= d.left + 1 \/ d.left + d.width <= c.left + 1
               \/ c.top + c.height <= d.top + 1 \/ d.top + d.height <= c.top + 1
  <1>1. a.x + a.w <= b.x \/ b.x + b.w <= a.x \/ a.y + a.h <= b.y \/ b.y + b.h <= a.y
    BY DEF overlaps
  <1>2. CASE a.x + a.w <= b.x
    <2>1. micrometres_to_dots(a.x, dpi) + micrometres_to_dots(a.w, dpi) <= micrometres_to_dots(b.x, dpi) + 1
      BY <1>2, DotsParts
    <2> QED
      BY <2>1 DEF Covered
  <1>3. CASE b.x + b.w <= a.x
    <2>1. micrometres_to_dots(b.x, dpi) + micrometres_to_dots(b.w, dpi) <= micrometres_to_dots(a.x, dpi) + 1
      BY <1>3, DotsParts
    <2> QED
      BY <2>1 DEF Covered
  <1>4. CASE a.y + a.h <= b.y
    <2>1. micrometres_to_dots(a.y, dpi) + micrometres_to_dots(a.h, dpi) <= micrometres_to_dots(b.y, dpi) + 1
      BY <1>4, DotsParts
    <2> QED
      BY <2>1 DEF Covered
  <1>5. CASE b.y + b.h <= a.y
    <2>1. micrometres_to_dots(b.y, dpi) + micrometres_to_dots(b.h, dpi) <= micrometres_to_dots(a.y, dpi) + 1
      BY <1>5, DotsParts
    <2> QED
      BY <2>1 DEF Covered
  <1> QED
    BY <1>1, <1>2, <1>3, <1>4, <1>5

-----------------------------------------------------------------------------
(* Cut marks *)

LEMMA DotsType ==
    ASSUME NEW x \in Nat, NEW dpi \in Nat
    PROVE  micrometres_to_dots(x, dpi) \in Nat
  <1> DEFINE m == x * dpi
  <1>1. m \in Nat
    OBVIOUS
  <1> HIDE DEF m
  <1>2. (m + 25400 \div 2) \div 25400 \in Nat
    BY <1>1
  <1> QED
    BY <1>2 DEF m, micrometres_to_dots, round_ratio, MicrometresPerInch

\* draw_cut_marks goes at most the length of a mark outwards from the edges of its label, which
\* does not reach a label whose slot is farther away than that and two dots.
LEMMA CutMarksKeepAway ==
    ASSUME NEW dpi \in Nat \ {0}, NEW a, NEW b, NEW paper,
           a.x \in Nat, a.y \in Nat, a.w \in Nat, a.h \in Nat,
           b.x \in Nat, b.y \in Nat, b.w \in Nat, b.h \in Nat,
           Apart(a, b, dpi), NEW d \in CutMarks(paper, Covered(a, dpi), dpi)
    PROVE  ~Inside(d, Covered(b, dpi))
  <1> DEFINE c == Covered(a, dpi)
             o == Covered(b, dpi)
             length == micrometres_to_dots(CutMarkLength, dpi)
  <1>1. length \in Nat
    <2>1. CutMarkLength \in Nat
      BY DEF CutMarkLength
    <2> QED
      BY <2>1, DotsType, Zenon
  <1>2. /\ c.left \in Nat /\ c.top \in Nat /\ c.width \in Nat /\ c.height \in Nat
        /\ o.left \in Nat /\ o.top \in Nat /\ o.width \in Nat /\ o.height \in Nat
    BY DotsType, Zenon DEF Covered
  <1>3. \/ c.left + c.width + length < o.left \/ o.left + o.width + length < c.left
        \/ c.top + c.height + length < o.top \/ o.top + o.height + length < c.top
    <2> DEFINE far == CutMarkLength + 2 * (MicrometresPerInch \div dpi + 1)
    <2>0. far \in Nat
      BY DotIsCovered DEF CutMarkLength, MicrometresPerInch
    <2>1. \/ a.x + a.w + far <= b.x \/ b.x + b.w + far <= a.x
          \/ a.y + a.h + far <= b.y \/ b.y + b.h + far <= a.y
      BY Zenon DEF Apart
    <2>2. ASSUME NEW x \in Nat, NEW w \in Nat, NEW y \in Nat, x + w + far <= y
          PROVE  micrometres_to_dots(x, dpi) + micrometres_to_dots(w, dpi) + length < micrometres_to_dots(y, dpi)
      <3>1. 2 * (MicrometresPerInch \div dpi + 1) \in Nat /\ CutMarkLength \in Nat
        BY DotIsCovered DEF CutMarkLength, MicrometresPerInch
      <3>2. x + w + CutMarkLength + 2 * (MicrometresPerInch \div dpi + 1) <= y
        BY <2>2, <3>1
      <3> QED
        BY <3>2, DotsApart
    <2> HIDE DEF far, length
    <2>3. CASE a.x + a.w + far <= b.x
      BY <2>2, <2>3 DEF Covered
    <2>4. CASE b.x + b.w + far <= a.x
      BY <2>2, <2>4 DEF Covered
    <2>5. CASE a.y + a.h + far <= b.y
      BY <2>2, <2>5 DEF Covered
    <2>6. CASE b.y + b.h + far <= a.y
      BY <2>2, <2>6 DEF Covered
    <2> QED
      BY <2>1, <2>3, <2>4, <2>5, <2>6, Zenon
  <1>4. PICK k \in 0..(IF length = 0 THEN 1 ELSE length) - 1 :
            d \in {<<c.left - k, c.top>>, <<c.left, c.top - k>>,
                   <<c.left + c.width + k, c.top>>, <<c.left, c.top + c.height + k>>}
    BY Zenon DEF CutMarks
  <1> HIDE DEF c, o, length
  <1>5. k \in Nat /\ k <= length
    BY <1>1
  <1>6. /\ d[1] \in Int /\ c.left - length <= d[1] /\ d[1] <= c.left + c.width + length
        /\ d[2] \in Int /\ c.top - length <= d[2] /\ d[2] <= c.top + c.height + length
    BY <1>1, <1>2, <1>4, <1>5
  <1>7. ASSUME d[1] \in o.left..o.left + o.width - 1, d[2] \in o.top..o.top + o.height - 1
        PROVE  FALSE
    BY <1>1, <1>2, <1>3, <1>6, <1>7
  <1> QED
    BY <1>7 DEF Inside, o

-----------------------------------------------------------------------------
(* Accepted plans *)

\* What a plan is made from: every slot is on the paper and none overlaps another.
Sound(layout) ==
    /\ layout \in SheetLayout /\ layout.width > 0 /\ layout.height > 0
    /\ \A i \in DOMAIN layout.slots : SlotFits(layout, layout.slots[i])
    /\ \A i, j \in DOMAIN layout.slots : i # j => ~overlaps(layout.slots[i], layout.slots[j])

LEMMA ValidatedIsSound ==
    ASSUME NEW layout \in SheetLayout, validate_layout(layout) = "none"
    PROVE  Sound(layout)
  <1>1. /\ ~(layout.width <= 0 \/ layout.height <= 0)
        /\ \A i \in DOMAIN layout.slots : SlotFits(layout, layout.slots[i])
        /\ ~\E i, j \in DOMAIN layout.slots : i < j /\ overlaps(layout.slots[i], layout.slots[j])
    BY Zenon DEF validate_layout
  <1>2. layout.width > 0 /\ layout.height > 0
    BY <1>1 DEF SheetLayout
  <1>3. ASSUME NEW i \in DOMAIN layout.slots, NEW j \in DOMAIN layout.slots, i # j
        PROVE  ~overlaps(layout.slots[i], layout.slots[j])
    <2>1. layout.slots \in Seq(SheetSlot)
      BY DEF SheetLayout
    <2>2. i < j \/ j < i
      BY <1>3, <2>1
    <2> QED
      BY <1>1, <2>2, Zenon DEF overlaps
  <1> QED
    BY <1>1, <1>2, <1>3, Zenon DEF Sound

LEMMA GridIsLayout ==
    ASSUME NEW g \in SheetGrid
    PROVE  [width |-> g.paper_width, height |-> g.paper_height,
            slots |-> [n \in 1..g.rows * g.columns |-> GridSlot(g, GridCell(g, n - 1))]] \in SheetLayout
  <1>1. g.rows * g.columns \in Nat
    BY DEF SheetGrid
  <1>2. ASSUME NEW n \in 1..g.rows * g.columns
        PROVE  GridSlot(g, GridCell(g, n - 1)) \in SheetSlot
    <2>1. g.rows \in Nat \ {0} /\ g.columns \in Nat \ {0}
      <3>1. g.rows \in Nat /\ g.columns \in Nat
        BY DEF SheetGrid
      <3> QED
        BY <3>1, <1>2
    <2>2. n - 1 \in Nat
      BY <1>1, <1>2
    <2>3. GridCell(g, n - 1).row \in Nat /\ GridCell(g, n - 1).column \in Nat
      BY <2>1, <2>2 DEF GridCell
    <2> QED
      BY <2>3 DEF GridSlot, SheetSlot, SheetGrid
  <1>3. [n \in 1..g.rows * g.columns |-> GridSlot(g, GridCell(g, n - 1))] \in Seq(SheetSlot)
    BY <1>1, <1>2
  <1> QED
    BY <1>3 DEF SheetLayout, SheetGrid

LEMMA NormalIsSound ==
    ASSUME NEW d \in Definitions, normalize_layout(d).ok
    PROVE  Sound(normalize_layout(d).value)
  <1>1. CASE d.kind = "explicit"
    <2>1. d.layout \in SheetLayout
      BY <1>1, SheetAssumption
    <2>2. validate_layout(d.layout) = "none" /\ normalize_layout(d).value = d.layout
      BY <1>1 DEF normalize_layout, Ok, Err
    <2> QED
      BY <2>1, <2>2, ValidatedIsSound
  <1>2. CASE d.kind # "explicit"
    <2> DEFINE g == d.grid
               layout == [width |-> g.paper_width, height |-> g.paper_height,
                          slots |-> [n \in 1..g.rows * g.columns |-> GridSlot(g, GridCell(g, n - 1))]]
               wrong == \/ g.rows = 0 \/ g.columns = 0
                        \/ g.label_width <= 0 \/ g.label_height <= 0
                        \/ g.margin_left < 0 \/ g.margin_top < 0
                        \/ g.gap_x < 0 \/ g.gap_y < 0
    <2>1. layout \in SheetLayout
      BY <1>2, SheetAssumption, GridIsLayout
    <2>2. normalize_layout(d) =
              CASE wrong -> Err("invalid grid")
                [] g.rows * g.columns > MaxSheetSlots -> Err("limit")
                [] validate_layout(layout) # "none" -> Err(validate_layout(layout))
                [] OTHER -> Ok(layout)
      BY <1>2, Zenon DEF normalize_layout
    <2> HIDE DEF layout, wrong, g
    <2>3. \A e : ~Err(e).ok
      BY DEF Err
    <2>4. validate_layout(layout) = "none" /\ normalize_layout(d) = Ok(layout)
      BY <2>2, <2>3, Zenon
    <2>5. normalize_layout(d).value = layout
      BY <2>4 DEF Ok
    <2> QED
      BY <2>1, <2>4, <2>5, ValidatedIsSound
  <1> QED
    BY <1>1, <1>2

LEMMA PlannedIsSound ==
    ASSUME NEW labels, NEW d \in Definitions, NEW first, NEW dpi, sheet_plan(labels, d, first, dpi).ok
    PROVE  Sound(sheet_plan(labels, d, first, dpi).value.layout)
  <1>1. \A e : ~Err(e).ok
    BY DEF Err
  <1>2. /\ normalize_layout(d).ok
        /\ \E count, placements : sheet_plan(labels, d, first, dpi) =
               Ok([page_count |-> count, layout |-> normalize_layout(d).value, placements |-> placements])
    BY <1>1, Zenon DEF sheet_plan
  <1>3. sheet_plan(labels, d, first, dpi).value.layout = normalize_layout(d).value
    BY <1>2 DEF Ok
  <1> QED
    BY <1>2, <1>3, NormalIsSound

\* What rounding costs, for the slots of a sound layout.
LEMMA SoundRounding ==
    ASSUME NEW layout, Sound(layout), NEW dpi \in Nat \ {0}
    PROVE  OneDotIsLost(layout, dpi)
  <1>1. ASSUME NEW i \in DOMAIN layout.slots
        PROVE  LET s == layout.slots[i]
               IN  /\ s.x \in Nat /\ s.y \in Nat /\ s.w \in Nat /\ s.h \in Nat
                   /\ SlotFits(layout, s)
    <2>1. SlotFits(layout, layout.slots[i])
      BY Zenon DEF Sound
    <2>2. layout.slots[i] \in SheetSlot
      BY DEF Sound, SheetLayout
    <2> QED
      BY <2>1, <2>2 DEF SlotFits, SheetSlot
  <1>2. layout.width \in Nat /\ layout.height \in Nat
    BY DEF Sound, SheetLayout
  <1>3. ASSUME NEW i \in DOMAIN layout.slots
        PROVE  LET c == Covered(layout.slots[i], dpi)
                   paper == paper_dots(layout, dpi)
               IN  c.left + c.width <= paper.width + 1 /\ c.top + c.height <= paper.height + 1
    BY <1>1, <1>2, SlotsOverhangByOneDot
  <1>4. ASSUME NEW i \in DOMAIN layout.slots, NEW j \in DOMAIN layout.slots, i # j
        PROVE  LET a == Covered(layout.slots[i], dpi)
                   b == Covered(layout.slots[j], dpi)
               IN  Common(a, b, "left", "width") <= 1 \/ Common(a, b, "top", "height") <= 1
    <2> DEFINE s == layout.slots[i]
               t == layout.slots[j]
               a == Covered(s, dpi)
               b == Covered(t, dpi)
    <2>1. /\ s.x \in Nat /\ s.y \in Nat /\ s.w \in Nat /\ s.h \in Nat
          /\ t.x \in Nat /\ t.y \in Nat /\ t.w \in Nat /\ t.h \in Nat
      BY <1>1
    <2>2. ~overlaps(s, t)
      BY <1>4, Zenon DEF Sound
    <2> HIDE DEF s, t
    <2>3. \/ a.left + a.width <= b.left + 1 \/ b.left + b.width <= a.left + 1
          \/ a.top + a.height <= b.top + 1 \/ b.top + b.height <= a.top + 1
      BY <2>1, <2>2, NeighboursShareOneDot
    <2>4. /\ a.left \in Nat /\ a.top \in Nat /\ a.width \in Nat /\ a.height \in Nat
          /\ b.left \in Nat /\ b.top \in Nat /\ b.width \in Nat /\ b.height \in Nat
      BY <2>1, DotsType, Zenon DEF Covered
    <2> HIDE DEF a, b
    <2>5. Common(a, b, "left", "width") <= 1 \/ Common(a, b, "top", "height") <= 1
      BY <2>3, <2>4 DEF Common
    <2> QED
      BY <2>5 DEF a, b, s, t
  <1>5. ASSUME NEW i \in DOMAIN layout.slots, NEW j \in DOMAIN layout.slots,
               Apart(layout.slots[i], layout.slots[j], dpi),
               NEW d \in CutMarks(paper_dots(layout, dpi), Covered(layout.slots[i], dpi), dpi)
        PROVE  ~Inside(d, Covered(layout.slots[j], dpi))
    <2>1. \A k \in {i, j} : LET s == layout.slots[k] IN s.x \in Nat /\ s.y \in Nat /\ s.w \in Nat /\ s.h \in Nat
      BY <1>1
    <2> QED
      BY <1>5, <2>1, CutMarksKeepAway
  <1> QED
    BY <1>3, <1>4, <1>5, Zenon DEF OneDotIsLost

\* Whatever is imposed, at every resolution: slots that do not overlap share at most one column or
\* row of dots, an accepted slot misses the paper by one dot at most, and cut marks do not reach
\* a label that is apart.
THEOREM SheetsLoseOneDot == Spec => []RoundingCostsOneDot
  <1>1. Init => RoundingCostsOneDot
    BY DEF Init, RoundingCostsOneDot
  <1>2. ASSUME RoundingCostsOneDot, [Next]_vars
        PROVE  RoundingCostsOneDot'
    <2>1. CASE ImposeSheets
      <3>1. PICK d \in Definitions, dpi \in Resolutions : \E labels, first :
                request'.dpi = dpi /\ request'.plan = sheet_plan(labels, d, first, dpi)
        BY <2>1 DEF ImposeSheets
      <3>2. dpi \in Nat \ {0}
        BY SheetAssumption
      <3>3. ASSUME request'.plan.ok PROVE Sound(request'.plan.value.layout)
        BY <3>1, <3>3, PlannedIsSound
      <3>4. request'.plan.ok => OneDotIsLost(request'.plan.value.layout, request'.dpi)
        BY <3>1, <3>2, <3>3, SoundRounding, Zenon
      <3> QED
        BY <3>4, Zenon DEF RoundingCostsOneDot
    <2>2. CASE FillRecord \/ FillZones \/ PlanBatch \/ PlanSingle \/ SendLine \/ PackByte \/ PackEnds
               \/ PrinterPrints
      <3>1. stage' # "imposed"
        BY <2>2 DEF FillRecord, FillZones, PlanBatch, PlanSingle, SendLine, PackByte, PackEnds, PrinterPrints
      <3> QED
        BY <3>1 DEF RoundingCostsOneDot
    <2>3. CASE UNCHANGED vars
      BY <1>2, <2>3, Zenon DEF vars, RoundingCostsOneDot
    <2> QED
      BY <1>2, <2>1, <2>2, <2>3, Zenon DEF Next
  <1> QED
    BY <1>1, <1>2, PTL DEF Spec

-----------------------------------------------------------------------------
(* Placement *)

\* Every item gets a slot of the layout, on the first page from the slot asked for.
THEOREM PlacementsAreSlots ==
    ASSUME NEW slots \in Nat \ {0}, NEW first \in 1..slots, NEW item \in Nat \ {0}
    PROVE  LET p == Placement(item, first, slots)
           IN  p.slot \in 1..slots /\ p.page \in Nat \ {0} /\ (p.page = 1 => p.slot >= first)
  BY DEF Placement

\* No two items of a job get the same slot of the same page.
THEOREM PlacementsAreDistinct ==
    ASSUME NEW slots \in Nat \ {0}, NEW first \in 1..slots,
           NEW i \in Nat \ {0}, NEW j \in Nat \ {0}, i # j
    PROVE  \/ Placement(i, first, slots).page # Placement(j, first, slots).page
           \/ Placement(i, first, slots).slot # Placement(j, first, slots).slot
  BY DEF Placement

-----------------------------------------------------------------------------
(* Compressed lines *)

Bytes == 0..255

\* A printer that has expanded a line and expects a count.
Rests(row) == [out |-> row, literals |-> 0, repeats |-> 0]

\* The states g of a printer, from a blank one on, as it expands bytes to a row.
Expansion(g, bytes, row) ==
    /\ g[0] = Rests(<<>>) /\ g[Len(bytes)] = Rests(row)
    /\ \A n \in 1..Len(bytes) : g[n] = Expand(g[n - 1], bytes[n])

Expands(bytes, row) == \E g : Expansion(g, bytes, row)

LEMMA UnpackedIs ==
    ASSUME NEW bytes \in Seq(Bytes), NEW row, Expands(bytes, row)
    PROVE  Unpacked(bytes) = Rests(row)
<1> DEFINE L == Len(bytes)
           Step(f) == [n \in 0..L |-> IF n = 0 THEN [out |-> <<>>, literals |-> 0, repeats |-> 0]
                                      ELSE Expand(f[n - 1], bytes[n])]
           f == CHOOSE f : f = Step(f)
<1>1. Unpacked(bytes) = f[L]
    BY Zenon DEF Unpacked
<1>2. PICK g : Expansion(g, bytes, row)
    BY Zenon DEF Expands
<1>3. L \in Nat
    OBVIOUS
<1>4. \A n \in 1..L : n \in 0..L /\ n # 0 /\ n - 1 \in 0..L
    BY <1>3
<1>5. 0 \in 0..L /\ L \in 0..L /\ \A n \in 0..L : n = 0 \/ n \in 1..L
    BY <1>3
<1> HIDE DEF L
<1> DEFINE h == [n \in 0..L |-> g[n]]
<1>6. h = Step(h)
  <2>1. ASSUME NEW n \in 0..L
        PROVE  g[n] = IF n = 0 THEN [out |-> <<>>, literals |-> 0, repeats |-> 0] ELSE Expand(h[n - 1], bytes[n])
    <3>1. CASE n = 0
        BY <1>2, <3>1, Zenon DEF Expansion, Rests
    <3>2. CASE n \in 1..L
        BY <1>2, <1>4, <3>2, Zenon DEF Expansion, L
    <3> QED
        BY <1>5, <3>1, <3>2
  <2> QED
      BY <2>1, Zenon
<1>7. f = Step(f)
    BY <1>6, Zenon
<1> HIDE DEF f, h
<1>8. /\ f[0] = Rests(<<>>)
      /\ \A n \in 1..L : f[n] = Expand(f[n - 1], bytes[n])
    BY <1>4, <1>5, <1>7, Zenon DEF Rests
<1> DEFINE T == {n \in 0..L : f[n] = g[n]}
<1>9. 0 \in T
    BY <1>2, <1>5, <1>8, Zenon DEF Expansion
<1>10. \A n \in 1..L : n - 1 \in T => n \in T
    BY <1>2, <1>4, <1>8, Zenon DEF Expansion, L
<1> HIDE DEF T
<1>11. \A n \in 0..L : n \in T
    BY <1>3, <1>9, <1>10, UpTo, Zenon
<1>12. L \in T
    BY <1>5, <1>11, Zenon
<1> QED
    BY <1>1, <1>2, <1>12, Zenon DEF T, Expansion, L

Run(x, n) == [k \in 1..n |-> x]

\* A count of repetitions and a byte.
LEMMA ExpandsRun ==
    ASSUME NEW bytes \in Seq(Bytes), NEW row \in Seq(Bytes), Expands(bytes, row),
           NEW n \in 2..128, NEW x \in Bytes
    PROVE  Expands(bytes \o <<257 - n, x>>, row \o Run(x, n))
<1> DEFINE L == Len(bytes)
           all == bytes \o <<257 - n, x>>
<1>1. PICK g : Expansion(g, bytes, row)
    BY Zenon DEF Expands
<1>2. L \in Nat
    OBVIOUS
<1>3. /\ Len(all) = L + 2 /\ all[L + 1] = 257 - n /\ all[L + 2] = x
      /\ \A k \in 1..L : all[k] = bytes[k]
    BY SMTT(30) DEF Bytes
<1> DEFINE counted == [out |-> row, literals |-> 0, repeats |-> n]
           h == [k \in 0..(L + 2) |-> IF k <= L THEN g[k] ELSE IF k = L + 1 THEN counted
                                      ELSE Rests(row \o Run(x, n))]
<1> HIDE DEF L, all
<1>4. /\ h[0] = g[0] /\ h[L + 1] = counted /\ h[L + 2] = Rests(row \o Run(x, n))
      /\ \A k \in 0..L : h[k] = g[k]
    BY <1>2
<1>5. \A k \in 1..L : k \in 0..L /\ k - 1 \in 0..L
    BY <1>2
<1>6. L \in 0..L /\ (L + 1) - 1 = L /\ (L + 2) - 1 = L + 1 /\ \A k \in 1..(L + 2) : k \in 1..L \/ k = L + 1 \/ k = L + 2
    BY <1>2
<1> HIDE DEF h
<1>7. Expand(Rests(row), 257 - n) = counted
  <2>1. Rests(row).repeats = 0 /\ Rests(row).literals = 0 /\ ~(0 > 0)
      BY DEF Rests
  <2>2. ~(257 - n < 128) /\ 257 - n > 128 /\ 257 - (257 - n) = n
      OBVIOUS
  <2>3. Expand(Rests(row), 257 - n) = [Rests(row) EXCEPT !.repeats = n]
      BY <2>1, <2>2, ZenonT(40) DEF Expand
  <2>4. [Rests(row) EXCEPT !.repeats = n] = counted
      BY DEF Rests
  <2> QED
      BY <2>3, <2>4, Zenon
<1>8. Expand(counted, x) = Rests(row \o Run(x, n))
  <2>1. counted.repeats = n /\ counted.out = row /\ n > 0
      OBVIOUS
  <2> HIDE DEF counted
  <2> QED
      BY <2>1, Zenon DEF Expand, Rests, Run
<1> HIDE DEF counted
<1>9. ASSUME NEW k \in 1..(L + 2) PROVE h[k] = Expand(h[k - 1], all[k])
  <2>1. CASE k \in 1..L
      BY <1>1, <1>3, <1>4, <1>5, <2>1, Zenon DEF Expansion, L
  <2>2. CASE k = L + 1
    <3>1. h[k] = counted /\ h[k - 1] = Rests(row) /\ all[k] = 257 - n
        BY <1>1, <1>3, <1>4, <1>6, <2>2, Zenon DEF Expansion, L
    <3> QED
        BY <1>7, <3>1, Zenon
  <2>3. CASE k = L + 2
    <3>1. h[k] = Rests(row \o Run(x, n)) /\ h[k - 1] = counted /\ all[k] = x
        BY <1>3, <1>4, <1>6, <2>3, Zenon
    <3> QED
        BY <1>8, <3>1, Zenon
  <2> QED
      BY <1>6, <2>1, <2>2, <2>3, Zenon
<1>10. Expansion(h, all, row \o Run(x, n))
    BY <1>1, <1>3, <1>4, <1>9, Zenon DEF Expansion
<1> QED
    BY <1>10, Zenon DEF Expands, all

LEMMA GrowsByOne ==
    ASSUME NEW S, NEW q \in Seq(S), NEW r \in Seq(S), NEW j \in 1..Len(r)
    PROVE  Append(q \o SubSeq(r, 1, j - 1), r[j]) = q \o SubSeq(r, 1, j)
<1>0. Len(r) \in Nat /\ j \in Nat /\ j - 1 \in 0..Len(r) /\ j \in 0..Len(r) /\ r[j] \in S
    OBVIOUS
<1> DEFINE a == SubSeq(r, 1, j - 1)
           b == SubSeq(r, 1, j)
<1>1. a \in Seq(S) /\ Len(a) = j - 1 /\ \A i \in 1..(j - 1) : a[i] = r[i]
    BY <1>0, CutFacts, ZenonT(40)
<1>2. b \in Seq(S) /\ Len(b) = j /\ \A i \in 1..j : b[i] = r[i]
    BY <1>0, CutFacts, ZenonT(40)
<1> HIDE DEF a, b
<1> DEFINE c == q \o a
           d == q \o b
<1>a. a \in Seq(S) /\ b \in Seq(S)
    BY <1>1, <1>2, Zenon
<1>3. /\ c \in Seq(S) /\ Len(q) \in Nat /\ Len(c) = Len(q) + Len(a)
      /\ \A i \in 1..Len(q) : c[i] = q[i]
      /\ \A i \in 1..Len(a) : c[Len(q) + i] = a[i]
    BY <1>a, ConcatFacts
<1>4. /\ d \in Seq(S) /\ Len(d) = Len(q) + Len(b)
      /\ \A i \in 1..Len(q) : d[i] = q[i]
      /\ \A i \in 1..Len(b) : d[Len(q) + i] = b[i]
    BY <1>a, ConcatFacts
<1> HIDE DEF c, d
<1> DEFINE e == Append(c, r[j])
<1>5. /\ e \in Seq(S) /\ Len(e) = Len(c) + 1 /\ e[Len(c) + 1] = r[j]
      /\ \A i \in 1..Len(c) : e[i] = c[i]
    BY <1>0, <1>3, AppendFacts
<1> HIDE DEF e
<1>6. Len(e) = Len(q) + j /\ Len(d) = Len(q) + j /\ Len(c) = Len(q) + j - 1
    BY <1>0, <1>1, <1>2, <1>3, <1>4, <1>5
<1>7. ASSUME NEW i \in 1..Len(e) PROVE e[i] = d[i]
  <2>1. CASE i \in 1..Len(q)
    <3>1. i \in 1..Len(c)
        BY <1>0, <1>3, <1>6, <2>1
    <3> QED
        BY <1>3, <1>4, <1>5, <2>1, <3>1, Zenon
  <2>2. CASE i \notin 1..Len(q)
    <3> DEFINE k == i - Len(q)
    <3>1. k \in 1..j /\ i = Len(q) + k /\ (k \in 1..(j - 1) \/ k = j)
        BY <1>0, <1>3, <1>6, <2>2
    <3> HIDE DEF k
    <3>2. d[i] = r[k]
        BY <1>2, <1>4, <3>1, Zenon
    <3>3. CASE k \in 1..(j - 1)
      <4>1. i \in 1..Len(c)
          BY <1>0, <1>3, <1>6, <3>1, <3>3
      <4> QED
          BY <1>1, <1>3, <1>5, <3>1, <3>2, <3>3, <4>1, Zenon
    <3>4. CASE k = j
      <4>1. i = Len(c) + 1
          BY <1>0, <1>3, <1>6, <3>1, <3>4
      <4> QED
          BY <1>5, <3>2, <3>4, <4>1, Zenon
    <3> QED
        BY <3>1, <3>3, <3>4, Zenon
  <2> QED
      BY <2>1, <2>2, Zenon
<1>8. e = d
  <2>1. Len(e) = Len(d)
      BY <1>6
  <2> QED
      BY <1>4, <1>5, <1>7, <2>1, SeqExtensional, Zenon
<1> QED
    BY <1>8, Zenon DEF e, d, c, a, b

LEMMA EmptyAdds ==
    ASSUME NEW S, NEW q \in Seq(S), NEW r \in Seq(S)
    PROVE  q \o SubSeq(r, 1, 0) = q /\ SubSeq(r, 1, Len(r)) = r
<1> DEFINE a == SubSeq(r, 1, 0)
<1>1. a = <<>>
    OBVIOUS
<1>2. q \o <<>> = q
    OBVIOUS
<1>3. SubSeq(r, 1, Len(r)) = r
    OBVIOUS
<1> QED
    BY <1>1, <1>2, <1>3, Zenon

\* A count of literals and the literals.
LEMMA ExpandsLiteral ==
    ASSUME NEW bytes \in Seq(Bytes), NEW row \in Seq(Bytes), Expands(bytes, row),
           NEW literal \in Seq(Bytes), Len(literal) \in 1..128
    PROVE  Expands(bytes \o <<Len(literal) - 1>> \o literal, row \o literal)
<1> DEFINE L == Len(bytes)
           m == Len(literal)
           count == bytes \o <<m - 1>>
           all == count \o literal
<1>1. PICK g : Expansion(g, bytes, row)
    BY ZenonT(40) DEF Expands
<1>2. L \in Nat /\ m \in 1..128 /\ m - 1 \in Bytes
    BY DEF Bytes
<1> HIDE DEF m
<1>3. /\ count \in Seq(Bytes) /\ Len(count) = L + 1 /\ count[L + 1] = m - 1
      /\ \A k \in 1..L : count[k] = bytes[k]
    BY <1>2
<1> HIDE DEF count
<1>c. count \in Seq(Bytes)
    BY <1>3, Zenon
<1>4. /\ Len(all) = Len(count) + m
      /\ \A k \in 1..Len(count) : all[k] = count[k]
      /\ \A k \in 1..m : all[Len(count) + k] = literal[k]
    BY <1>c, ConcatFacts DEF m
<1> HIDE DEF L, all
<1> DEFINE part(j) == [out |-> row \o SubSeq(literal, 1, j), literals |-> m - j, repeats |-> 0]
           h == [k \in 0..(L + 1 + m) |-> IF k <= L THEN g[k] ELSE part(k - L - 1)]
<1>5. /\ Len(all) = L + 1 + m /\ all[L + 1] = m - 1
      /\ \A k \in 1..L : all[k] = bytes[k]
      /\ \A k \in 1..m : all[L + 1 + k] = literal[k]
    BY <1>2, <1>3, <1>4
<1>6. /\ \A k \in 0..L : k \in 0..(L + 1 + m) /\ k <= L
      /\ \A k \in 1..L : k \in 0..L /\ k - 1 \in 0..L
      /\ 0 \in 0..L /\ L \in 0..L
      /\ \A j \in 0..m : L + 1 + j \in 0..(L + 1 + m) /\ ~(L + 1 + j <= L) /\ (L + 1 + j) - L - 1 = j
      /\ 0 \in 0..m /\ m \in 0..m /\ L + 1 + 0 = L + 1 /\ (L + 1) - 1 = L
      /\ \A j \in 1..m : j \in 0..m /\ j - 1 \in 0..m /\ (L + 1 + j) - 1 = L + 1 + (j - 1)
      /\ \A k \in 1..(L + 1 + m) : k \in 1..L \/ k = L + 1 \/ \E j \in 1..m : k = L + 1 + j
  <2>1. ASSUME NEW k \in 1..(L + 1 + m) PROVE k \in 1..L \/ k = L + 1 \/ \E j \in 1..m : k = L + 1 + j
    <3>1. k \in 1..L \/ k = L + 1 \/ (k - L - 1 \in 1..m /\ k = L + 1 + (k - L - 1))
        BY <1>2
    <3> QED
        BY <3>1, Zenon
  <2>2. /\ \A k \in 0..L : k \in 0..(L + 1 + m) /\ k <= L
        /\ \A k \in 1..L : k \in 0..L /\ k - 1 \in 0..L
        /\ 0 \in 0..L /\ L \in 0..L
        /\ \A j \in 0..m : L + 1 + j \in 0..(L + 1 + m) /\ ~(L + 1 + j <= L) /\ (L + 1 + j) - L - 1 = j
        /\ 0 \in 0..m /\ m \in 0..m /\ L + 1 + 0 = L + 1 /\ (L + 1) - 1 = L
        /\ \A j \in 1..m : j \in 0..m /\ j - 1 \in 0..m /\ (L + 1 + j) - 1 = L + 1 + (j - 1)
      BY <1>2
  <2> QED
      BY <2>1, <2>2, Zenon
<1>7. (\A k \in 0..L : h[k] = g[k]) /\ \A j \in 0..m : h[L + 1 + j] = part(j)
    BY <1>6, Zenon
<1> HIDE DEF h
<1>8. Expand(Rests(row), m - 1) = part(0)
  <2>1. Rests(row).repeats = 0 /\ Rests(row).literals = 0 /\ ~(0 > 0) /\ m - 1 < 128 /\ (m - 1) + 1 = m
      BY <1>2 DEF Rests
  <2>2. Expand(Rests(row), m - 1) = [Rests(row) EXCEPT !.literals = m]
      BY <2>1, Zenon DEF Expand
  <2>3. [Rests(row) EXCEPT !.literals = m] = [out |-> row, literals |-> m, repeats |-> 0]
      BY DEF Rests
  <2>4. row \o SubSeq(literal, 1, 0) = row /\ m - 0 = m
      BY <1>2, EmptyAdds
  <2> QED
      BY <2>2, <2>3, <2>4, Zenon
<1>9. ASSUME NEW j \in 1..m PROVE Expand(part(j - 1), literal[j]) = part(j)
  <2>1. Append(row \o SubSeq(literal, 1, j - 1), literal[j]) = row \o SubSeq(literal, 1, j)
      BY GrowsByOne, Zenon DEF m
  <2> DEFINE before == row \o SubSeq(literal, 1, j - 1)
             s == part(j - 1)
  <2>2. s.repeats = 0 /\ s.literals = m - (j - 1) /\ s.out = before
      BY Zenon
  <2>3. ~(0 > 0) /\ m - (j - 1) > 0 /\ m - (j - 1) - 1 = m - j
      BY <1>2
  <2> DEFINE grown == Append(before, literal[j])
             left == m - (j - 1)
             fewer == left - 1
  <2>4. Expand(s, literal[j]) = [out |-> grown, literals |-> fewer, repeats |-> 0]
    <3> HIDE DEF s
    <3> QED
        BY <2>2, <2>3, Zenon DEF Expand
  <2> QED
      BY <2>1, <2>3, <2>4, Zenon
<1>10. part(m) = Rests(row \o literal)
  <2>1. m - m = 0
      BY <1>2
  <2>2. SubSeq(literal, 1, m) = literal
      BY EmptyAdds DEF m
  <2> QED
      BY <2>1, <2>2, Zenon DEF Rests
<1> HIDE DEF part
<1>11. ASSUME NEW k \in 1..(L + 1 + m) PROVE h[k] = Expand(h[k - 1], all[k])
  <2>1. CASE k \in 1..L
    <3>1. h[k] = g[k] /\ h[k - 1] = g[k - 1] /\ all[k] = bytes[k]
        BY <1>5, <1>6, <1>7, <2>1, Zenon
    <3>2. g[k] = Expand(g[k - 1], bytes[k])
        BY <1>1, <2>1, Zenon DEF Expansion, L
    <3> QED
        BY <3>1, <3>2, Zenon
  <2>2. CASE k = L + 1
    <3>1. h[k] = part(0) /\ h[k - 1] = Rests(row) /\ all[k] = m - 1
        BY <1>1, <1>5, <1>6, <1>7, <2>2, Zenon DEF Expansion, L
    <3> QED
        BY <1>8, <3>1, Zenon
  <2>3. CASE \E j \in 1..m : k = L + 1 + j
    <3>1. PICK j \in 1..m : k = L + 1 + j
        BY <2>3, Zenon
    <3>2. h[k] = part(j) /\ h[k - 1] = part(j - 1) /\ all[k] = literal[j]
        BY <1>5, <1>6, <1>7, <3>1, Zenon
    <3> QED
        BY <1>9, <3>2, Zenon
  <2> QED
      BY <1>6, <2>1, <2>2, <2>3, Zenon
<1>12. Expansion(h, all, row \o literal)
    BY <1>1, <1>5, <1>6, <1>7, <1>10, <1>11, Zenon DEF Expansion
<1> QED
    BY <1>12, Zenon DEF Expands, all, count, m

\* What is cut out of a sequence.
LEMMA SliceFacts ==
    ASSUME NEW S, NEW q \in Seq(S), NEW a \in Nat, NEW b \in Nat, a <= b, b <= Len(q)
    PROVE  /\ SubSeq(q, a + 1, b) \in Seq(S) /\ Len(SubSeq(q, a + 1, b)) = b - a
           /\ \A i \in 1..(b - a) : SubSeq(q, a + 1, b)[i] = q[a + i]
OBVIOUS

LEMMA SlicesJoin ==
    ASSUME NEW S, NEW q \in Seq(S), NEW a \in Nat, NEW b \in Nat, a <= b, b <= Len(q)
    PROVE  SubSeq(q, 1, a) \o SubSeq(q, a + 1, b) = SubSeq(q, 1, b)
<1> DEFINE x == SubSeq(q, 1, a)
           y == SubSeq(q, a + 1, b)
           z == SubSeq(q, 1, b)
<1>0. Len(q) \in Nat /\ a \in 0..Len(q) /\ b \in 0..Len(q)
    OBVIOUS
<1>1. x \in Seq(S) /\ Len(x) = a /\ \A i \in 1..a : x[i] = q[i]
    BY <1>0, CutFacts, ZenonT(40)
<1>2. y \in Seq(S) /\ Len(y) = b - a /\ \A i \in 1..(b - a) : y[i] = q[a + i]
    BY SliceFacts, Zenon
<1>3. z \in Seq(S) /\ Len(z) = b /\ \A i \in 1..b : z[i] = q[i]
    BY <1>0, CutFacts, ZenonT(40)
<1> HIDE DEF x, y, z
<1> DEFINE c == x \o y
<1>a. x \in Seq(S) /\ y \in Seq(S)
    BY <1>1, <1>2, Zenon
<1>4. /\ c \in Seq(S) /\ Len(c) = Len(x) + Len(y)
      /\ \A i \in 1..Len(x) : c[i] = x[i]
      /\ \A i \in 1..Len(y) : c[Len(x) + i] = y[i]
    BY <1>a, ConcatFacts
<1> HIDE DEF c
<1>5. Len(c) = b
    BY <1>1, <1>2, <1>4
<1>6. ASSUME NEW i \in 1..b PROVE c[i] = z[i]
  <2>1. CASE i \in 1..a
      BY <1>1, <1>3, <1>4, <2>1, Zenon
  <2>2. CASE i \notin 1..a
    <3> DEFINE k == i - a
    <3>1. k \in 1..(b - a) /\ i = a + k
        BY <2>2
    <3> HIDE DEF k
    <3> QED
        BY <1>1, <1>2, <1>3, <1>4, <3>1, Zenon
  <2> QED
      BY <2>1, <2>2, Zenon
<1>7. c = z
    BY <1>3, <1>4, <1>5, <1>6, SeqExtensional, Zenon
<1> QED
    BY <1>7, Zenon DEF c, x, y, z

LEMMA SliceGrows ==
    ASSUME NEW S, NEW q \in Seq(S), NEW a \in Nat, NEW b \in Nat, a <= b, b < Len(q)
    PROVE  Append(SubSeq(q, a + 1, b), q[b + 1]) = SubSeq(q, a + 1, b + 1)
<1> DEFINE x == SubSeq(q, a + 1, b)
           y == SubSeq(q, a + 1, b + 1)
<1>0. Len(q) \in Nat /\ b + 1 \in Nat /\ a <= b + 1 /\ b + 1 <= Len(q) /\ b <= Len(q) /\ q[b + 1] \in S
    OBVIOUS
<1>1. x \in Seq(S) /\ Len(x) = b - a /\ \A i \in 1..(b - a) : x[i] = q[a + i]
    BY <1>0, SliceFacts, Zenon
<1>2. y \in Seq(S) /\ Len(y) = (b + 1) - a /\ \A i \in 1..((b + 1) - a) : y[i] = q[a + i]
    BY <1>0, SliceFacts, Zenon
<1> HIDE DEF x, y
<1> DEFINE c == Append(x, q[b + 1])
<1>3. x \in Seq(S) /\ q[b + 1] \in S
    BY <1>0, <1>1, Zenon
<1>4. /\ c \in Seq(S) /\ Len(c) = Len(x) + 1 /\ c[Len(x) + 1] = q[b + 1]
      /\ \A i \in 1..Len(x) : c[i] = x[i]
    BY <1>3, AppendFacts
<1> HIDE DEF c
<1>5. Len(c) = Len(y)
    BY <1>1, <1>2, <1>4
<1>6. ASSUME NEW i \in 1..Len(c) PROVE c[i] = y[i]
  <2>1. i \in 1..((b + 1) - a) /\ (i \in 1..(b - a) \/ (i = Len(x) + 1 /\ a + i = b + 1))
      BY <1>1, <1>4
  <2> QED
      BY <1>1, <1>2, <1>4, <2>1, Zenon
<1>7. c = y
    BY <1>2, <1>4, <1>5, <1>6, SeqExtensional, Zenon
<1> QED
    BY <1>7, Zenon DEF c, x, y

\* A byte alone is in a part of a row.
IsRun(row, a, b, x) == \A k \in (a + 1)..b : row[k] = x

\* What packbits has packed before a byte of a row, and what it holds back: a run, or literals.
PackState == [result : Seq(Bytes), literal : Seq(Bytes), repeat : 0..128, in_repeat : BOOLEAN]

Packing(s, row, pos, done) ==
    /\ s \in PackState
    /\ done \in Nat /\ done <= pos - 1
    /\ Expands(s.result, SubSeq(row, 1, done))
    /\ 3 * Len(s.result) <= 4 * done + (IF s.in_repeat THEN 2 ELSE 0)
    /\ IF s.in_repeat
       THEN /\ s.literal = <<>> /\ s.repeat = pos - 1 - done /\ s.repeat \in 1..127
            /\ IsRun(row, done, pos, row[pos])
       ELSE s.repeat = 0 /\ s.literal = SubSeq(row, done + 1, pos - 1) /\ pos - 1 - done <= 127

LEMMA ByteKept == \A v \in 0..255 : v % 256 = v /\ v \in Bytes
BY DEF Bytes

\* The run that ends at a byte.
RunEnds(bytes, row, done, e) ==
    /\ row \in Seq(Bytes) /\ e \in 1..Len(row) /\ done \in Nat /\ bytes \in Seq(Bytes)
    /\ Expands(bytes, SubSeq(row, 1, done)) /\ e - done \in 2..128
    /\ IsRun(row, done, e, row[e])

\* What has been packed when some bytes more have been.
Grown(all, bytes, row, e, more) ==
    all \in Seq(Bytes) /\ Expands(all, SubSeq(row, 1, e)) /\ Len(all) = Len(bytes) + more

LEMMA RunIsPacked ==
    ASSUME NEW row, NEW e, NEW done, NEW bytes, RunEnds(bytes, row, done, e)
    PROVE  Grown(bytes \o <<(257 - (e - done)) % 256, row[e]>>, bytes, row, e, 2)
<1> DEFINE n == e - done
           x == row[e]
           before == SubSeq(row, 1, done)
<1>0. /\ row \in Seq(Bytes) /\ e \in 1..Len(row) /\ done \in Nat /\ bytes \in Seq(Bytes)
      /\ Expands(bytes, SubSeq(row, 1, done)) /\ e - done \in 2..128
      /\ IsRun(row, done, e, row[e])
    BY Zenon DEF RunEnds
<1>1. /\ Len(row) \in Nat /\ e \in Nat /\ n \in 2..128 /\ done <= e /\ e <= Len(row) /\ done \in 0..Len(row)
      /\ x \in Bytes /\ row \in Seq(Bytes) /\ done \in Nat /\ bytes \in Seq(Bytes)
    BY <1>0
<1>2. (257 - n) % 256 = 257 - n /\ 257 - n \in Bytes
  <2>1. 257 - n \in 0..255
      BY <1>1
  <2> QED
      BY <2>1, ByteKept, Zenon
<1>3. before \in Seq(Bytes)
    BY <1>1, CutFacts, Zenon
<1>4. before \o SubSeq(row, done + 1, e) = SubSeq(row, 1, e)
    BY <1>1, SlicesJoin, Zenon
<1>5. SubSeq(row, done + 1, e) = Run(x, n)
  <2> DEFINE y == SubSeq(row, done + 1, e)
  <2>1. y \in Seq(Bytes) /\ Len(y) = n /\ \A i \in 1..n : y[i] = row[done + i]
      BY <1>1, SliceFacts, Zenon
  <2>2. ASSUME NEW i \in 1..n PROVE y[i] = x
    <3>1. done + i \in (done + 1)..e
        BY <1>1
    <3> QED
        BY <1>0, <2>1, <3>1, Zenon DEF IsRun
  <2> HIDE DEF y, n, x
  <2>3. y = [i \in 1..n |-> x]
      BY <2>1, <2>2
  <2> QED
      BY <2>3, Zenon DEF Run, y
<1>6. Expands(bytes \o <<257 - n, x>>, before \o Run(x, n))
    BY <1>0, <1>1, <1>3, ExpandsRun, Zenon
<1> HIDE DEF n, x
<1>7. bytes \o <<257 - n, x>> \in Seq(Bytes) /\ Len(bytes \o <<257 - n, x>>) = Len(bytes) + 2
    BY <1>1, <1>2
<1>8. Expands(bytes \o <<257 - n, x>>, SubSeq(row, 1, e))
    BY <1>4, <1>5, <1>6, Zenon
<1> QED
    BY <1>2, <1>7, <1>8, ZenonT(40) DEF n, x, Grown

\* The literals that end at a byte.
LEMMA LiteralsArePacked ==
    ASSUME NEW row \in Seq(Bytes), NEW e \in 1..Len(row), NEW done \in Nat, NEW bytes \in Seq(Bytes),
           Expands(bytes, SubSeq(row, 1, done)), e - done \in 1..128
    PROVE  LET literal == SubSeq(row, done + 1, e)
               all == bytes \o <<Len(literal) - 1>> \o literal
           IN  /\ literal \in Seq(Bytes) /\ literal # <<>> /\ Len(literal) = e - done
               /\ all \in Seq(Bytes) /\ Expands(all, SubSeq(row, 1, e)) /\ Len(all) = Len(bytes) + 1 + (e - done)
<1> DEFINE literal == SubSeq(row, done + 1, e)
           before == SubSeq(row, 1, done)
           n == e - done
<1>1. /\ Len(row) \in Nat /\ e \in Nat /\ n \in 1..128 /\ done <= e /\ e <= Len(row) /\ done \in 0..Len(row)
    OBVIOUS
<1>2. before \in Seq(Bytes)
    BY <1>1, CutFacts, Zenon
<1>3. literal \in Seq(Bytes) /\ Len(literal) = n
    BY <1>1, SliceFacts, ZenonT(40)
<1>4. before \o literal = SubSeq(row, 1, e)
    BY <1>1, SlicesJoin, Zenon
<1> HIDE DEF literal, before, n
<1>5. literal # <<>> /\ n - 1 \in Bytes
    BY <1>1, <1>3 DEF Bytes
<1>6. Expands(bytes \o <<Len(literal) - 1>> \o literal, before \o literal)
    BY <1>1, <1>2, <1>3, ExpandsLiteral, Zenon DEF before
<1> DEFINE count == bytes \o <<n - 1>>
<1>7. count \in Seq(Bytes) /\ Len(count) = Len(bytes) + 1
    BY <1>5
<1> HIDE DEF count
<1>8. count \o literal \in Seq(Bytes) /\ Len(count \o literal) = Len(bytes) + 1 + n
  <2>1. count \in Seq(Bytes) /\ literal \in Seq(Bytes)
      BY <1>3, <1>7, Zenon
  <2>2. count \o literal \in Seq(Bytes) /\ Len(count \o literal) = Len(count) + Len(literal)
      BY <2>1, ConcatFacts
  <2> QED
      BY <1>3, <1>7, <2>2, Zenon
<1> QED
    BY <1>3, <1>4, <1>5, <1>6, <1>8, Zenon DEF count, literal, n

LEMMA PackSetResult ==
    ASSUME NEW s \in PackState, NEW bytes \in Seq(Bytes)
    PROVE  LET t == [s EXCEPT !.result = bytes]
           IN  /\ t \in PackState /\ t.result = bytes /\ t.literal = s.literal /\ t.repeat = s.repeat
               /\ t.in_repeat = s.in_repeat
BY Zenon DEF PackState

LEMMA PackSetRepeat ==
    ASSUME NEW s \in PackState, NEW n \in 0..128
    PROVE  LET t == [s EXCEPT !.repeat = n]
           IN  /\ t \in PackState /\ t.result = s.result /\ t.literal = s.literal /\ t.repeat = n
               /\ t.in_repeat = s.in_repeat
BY DEF PackState

LEMMA PackSetRun ==
    ASSUME NEW s \in PackState, NEW n \in 0..128, NEW b \in BOOLEAN
    PROVE  LET t == [s EXCEPT !.in_repeat = b, !.repeat = n]
           IN  /\ t \in PackState /\ t.result = s.result /\ t.literal = s.literal /\ t.repeat = n
               /\ t.in_repeat = b
BY Zenon DEF PackState

\* What flush_literal does.
LiteralsHeld(s, row, done, e) ==
    /\ s \in PackState /\ row \in Seq(Bytes) /\ e \in 0..Len(row) /\ done \in Nat
    /\ e - done \in 0..128 /\ s.literal = SubSeq(row, done + 1, e) /\ Expands(s.result, SubSeq(row, 1, done))

Flushed(f, s, row, done, e) ==
    /\ f \in PackState /\ f.literal = <<>> /\ f.in_repeat = s.in_repeat /\ f.repeat = s.repeat
    /\ Expands(f.result, SubSeq(row, 1, e))
    /\ Len(f.result) = Len(s.result) + (IF e = done THEN 0 ELSE 1 + (e - done))

LEMMA FlushIs ==
    ASSUME NEW s, NEW row, NEW e, NEW done, LiteralsHeld(s, row, done, e)
    PROVE  Flushed(flush_literal(s), s, row, done, e)
<1> DEFINE f == flush_literal(s)
<1> USE DEF LiteralsHeld
<1>1. /\ s \in PackState /\ row \in Seq(Bytes) /\ e \in 0..Len(row) /\ done \in Nat
      /\ s.result \in Seq(Bytes) /\ s.literal \in Seq(Bytes) /\ s.repeat \in 0..128 /\ s.in_repeat \in BOOLEAN
    BY DEF PackState
<1>2. CASE e = done
  <2>1. s.literal = <<>>
      BY <1>1, <1>2
  <2>2. f = s
      BY <2>1, Zenon DEF flush_literal
  <2> HIDE DEF f
  <2>3. Len(s.result) = Len(s.result) + 0
      BY <1>1
  <2>4. Len(f.result) = Len(s.result) + (IF e = done THEN 0 ELSE 1 + (e - done))
      BY <1>2, <2>2, <2>3, Zenon
  <2> QED
      BY <1>1, <1>2, <2>1, <2>2, <2>4, Zenon DEF f, Flushed
<1>3. CASE e # done
  <2>1. e \in 1..Len(row) /\ e - done \in 1..128
      BY <1>3
  <2> DEFINE all == s.result \o <<Len(s.literal) - 1>> \o s.literal
  <2>2. /\ s.literal # <<>>
        /\ all \in Seq(Bytes) /\ Expands(all, SubSeq(row, 1, e)) /\ Len(all) = Len(s.result) + 1 + (e - done)
    <3> DEFINE literal == SubSeq(row, done + 1, e)
               whole == s.result \o <<Len(literal) - 1>> \o literal
    <3>1. /\ literal # <<>>
          /\ whole \in Seq(Bytes) /\ Expands(whole, SubSeq(row, 1, e))
          /\ Len(whole) = Len(s.result) + 1 + (e - done)
        BY <1>1, <2>1, LiteralsArePacked, Zenon
    <3>2. s.literal = literal
        BY Zenon
    <3>3. all = whole
        BY <3>2, Zenon
    <3> QED
        BY <3>1, <3>2, <3>3, Zenon
  <2>3. f = [s EXCEPT !.result = all, !.literal = <<>>]
      BY <2>2, Zenon DEF flush_literal
  <2> HIDE DEF all, f
  <2>4. <<>> \in Seq(Bytes)
      OBVIOUS
  <2>5. /\ f.result = all /\ f.literal = <<>> /\ f.in_repeat = s.in_repeat /\ f.repeat = s.repeat
        /\ f \in PackState
      BY <2>2, <2>3, <2>4, Zenon DEF PackState
  <2>6. Len(all) = Len(s.result) + (1 + (e - done))
    <3>1. Len(s.result) \in Nat /\ Len(all) = Len(s.result) + 1 + (e - done)
        BY <1>1, <2>2
    <3>2. \A a \in Nat, b \in Int : a + 1 + b = a + (1 + b)
        OBVIOUS
    <3>3. e - done \in Int
        BY <2>1
    <3> QED
        BY <3>1, <3>2, <3>3, Zenon
  <2>7. Len(f.result) = Len(s.result) + (IF e = done THEN 0 ELSE 1 + (e - done))
      BY <1>3, <2>5, <2>6, Zenon
  <2> QED
      BY <2>2, <2>5, <2>7, Zenon DEF f, Flushed
<1> QED
    BY <1>2, <1>3, Zenon

\* The bytes that have been packed grow by a third.
LEMMA LiteralsGrow ==
    \A a, b, p, d \in Int :
        3 * b <= 4 * d + 0 /\ d <= p /\ a = b + (IF p = d THEN 0 ELSE 1 + (p - d)) =>
            3 * a <= 4 * p + 2 /\ (p - d >= 3 => 3 * a <= 4 * p + 0)
OBVIOUS

LEMMA RunsGrow ==
    \A a, b, p, d \in Int : 3 * b <= 4 * d + 2 /\ p - d >= 2 /\ a = b + 2 => 3 * a <= 4 * p + 0 /\ 3 * a <= 4 * p + 2
OBVIOUS

\* One turn of packbits' loop.
LEMMA PackStepPacks ==
    ASSUME NEW row \in Seq(Bytes), NEW pos \in 1..(Len(row) - 1), NEW s, NEW done, Packing(s, row, pos, done)
    PROVE  \E d : Packing(PackStep(s, row[pos], row[pos] = row[pos + 1]), row, pos + 1, d)
<1> DEFINE byte == row[pos]
           same == byte = row[pos + 1]
           t == PackStep(s, byte, same)
<1>1. /\ s \in PackState /\ s.result \in Seq(Bytes) /\ s.literal \in Seq(Bytes) /\ s.repeat \in 0..128
      /\ s.in_repeat \in BOOLEAN
    BY DEF PackState, Packing
<1>2. /\ Len(row) \in Nat /\ pos \in Nat /\ pos - 1 \in 0..Len(row) /\ pos \in 1..Len(row)
      /\ byte \in Bytes /\ done \in Nat /\ done <= pos - 1 /\ Len(s.result) \in Nat
    BY <1>1 DEF Packing
<1>3. CASE ~s.in_repeat
  <2>1. /\ s.repeat = 0 /\ s.literal = SubSeq(row, done + 1, pos - 1) /\ pos - 1 - done <= 127
        /\ Expands(s.result, SubSeq(row, 1, done)) /\ 3 * Len(s.result) <= 4 * done + 0
      BY <1>3, Zenon DEF Packing
  <2>2. (pos - 1) - done \in 0..128
      BY <1>2, <2>1
  <2> DEFINE f == flush_literal(s)
  <2>3. /\ f \in PackState /\ f.literal = <<>> /\ f.in_repeat = s.in_repeat /\ f.repeat = s.repeat
        /\ Expands(f.result, SubSeq(row, 1, pos - 1))
        /\ Len(f.result) = Len(s.result) + (IF pos - 1 = done THEN 0 ELSE 1 + ((pos - 1) - done))
    <3>1. LiteralsHeld(s, row, done, pos - 1)
        BY <1>1, <1>2, <2>1, <2>2, Zenon DEF LiteralsHeld
    <3>2. Flushed(f, s, row, done, pos - 1)
        BY <3>1, FlushIs, Zenon
    <3> QED
        BY <3>2, Zenon DEF Flushed
  <2> HIDE DEF f
  <2>7. Len(f.result) \in Int /\ Len(s.result) \in Int /\ pos - 1 \in Int /\ done \in Int
    <3>1. f.result \in Seq(Bytes)
        BY <2>3 DEF PackState
    <3> QED
        BY <1>2, <3>1
  <2>4. CASE same
    <3>1. t = [f EXCEPT !.in_repeat = TRUE, !.repeat = 1]
        BY <1>3, <2>4, Zenon DEF PackStep, f
    <3> HIDE DEF t
    <3>2. /\ t \in PackState /\ t.result = f.result /\ t.literal = <<>> /\ t.repeat = 1 /\ t.in_repeat = TRUE
      <4>1. 1 \in 0..128 /\ TRUE \in BOOLEAN
          OBVIOUS
      <4> QED
          BY <2>3, <3>1, <4>1, PackSetRun, Zenon
    <3>3. 3 * Len(f.result) <= 4 * (pos - 1) + 2
        BY <1>2, <2>1, <2>3, <2>7, LiteralsGrow, Zenon
    <3>4. IsRun(row, pos - 1, pos + 1, row[pos + 1])
        BY <1>2, <2>4 DEF IsRun
    <3>5. pos - 1 \in Nat /\ pos - 1 <= (pos + 1) - 1 /\ 1 = (pos + 1) - 1 - (pos - 1) /\ 1 \in 1..127
        BY <1>2
    <3>6. Packing(t, row, pos + 1, pos - 1)
        BY <2>3, <3>2, <3>3, <3>4, <3>5, Zenon DEF Packing
    <3> QED
        BY <3>6, Zenon DEF t
  <2>5. CASE ~same /\ Len(s.literal) = 127
    <3>1. t = [f EXCEPT !.literal = Append(f.literal, byte)]
        BY <1>3, <2>5, Zenon DEF PackStep, f
    <3> HIDE DEF t
    <3>2. Append(f.literal, byte) = <<byte>> /\ <<byte>> \in Seq(Bytes)
        BY <1>2, <2>3
    <3>3. /\ t \in PackState /\ t.result = f.result /\ t.literal = <<byte>> /\ t.repeat = 0 /\ t.in_repeat = FALSE
        BY <1>3, <2>1, <2>3, <3>1, <3>2, Zenon DEF PackState
    <3>4. (pos - 1) - done = 127
        BY <1>2, <2>1, <2>5, SliceFacts
    <3>5. 3 * Len(f.result) <= 4 * (pos - 1) + 0
      <4>1. (pos - 1) - done >= 3
          BY <3>4
      <4> QED
          BY <1>2, <2>1, <2>3, <2>7, <4>1, LiteralsGrow, Zenon
    <3>6. /\ pos - 1 \in Nat /\ pos - 1 <= (pos + 1) - 1 /\ (pos + 1) - 1 = pos /\ (pos - 1) + 1 = pos
          /\ (pos + 1) - 1 - (pos - 1) <= 127
        BY <1>2
    <3>7. <<byte>> = SubSeq(row, (pos - 1) + 1, (pos + 1) - 1)
        BY <1>2, <3>6
    <3>8. Packing(t, row, pos + 1, pos - 1)
        BY <2>3, <3>3, <3>5, <3>6, <3>7, Zenon DEF Packing
    <3> QED
        BY <3>8, Zenon DEF t
  <2>6. CASE ~same /\ Len(s.literal) # 127
    <3>1. t = [s EXCEPT !.literal = Append(s.literal, byte)]
        BY <1>3, <2>6, Zenon DEF PackStep
    <3> HIDE DEF t
    <3>2. Append(s.literal, byte) = SubSeq(row, done + 1, pos) /\ Append(s.literal, byte) \in Seq(Bytes)
      <4>1. /\ pos - 1 \in Nat /\ done <= pos - 1 /\ pos - 1 < Len(row) /\ (pos - 1) + 1 = pos
          BY <1>2
      <4>2. Append(SubSeq(row, done + 1, pos - 1), row[(pos - 1) + 1]) = SubSeq(row, done + 1, (pos - 1) + 1)
          BY <1>2, <4>1, SliceGrows, Zenon
      <4>3. Append(s.literal, byte) \in Seq(Bytes)
          BY <1>1, <1>2
      <4> QED
          BY <2>1, <4>1, <4>2, <4>3, Zenon
    <3>3. /\ t \in PackState /\ t.result = s.result /\ t.literal = SubSeq(row, done + 1, pos)
          /\ t.repeat = 0 /\ t.in_repeat = FALSE
        BY <1>1, <1>3, <2>1, <3>1, <3>2, Zenon DEF PackState
    <3>4. (pos - 1) - done # 127
        BY <1>2, <2>1, <2>6, SliceFacts
    <3>5. /\ done <= (pos + 1) - 1 /\ (pos + 1) - 1 = pos /\ (pos + 1) - 1 - done <= 127
        BY <1>2, <2>1, <3>4
    <3>6. Packing(t, row, pos + 1, done)
        BY <1>2, <2>1, <3>3, <3>5, Zenon DEF Packing
    <3> QED
        BY <3>6, Zenon DEF t
  <2> QED
      BY <2>4, <2>5, <2>6, Zenon
<1>4. CASE s.in_repeat
  <2>1. /\ s.literal = <<>> /\ s.repeat = pos - 1 - done /\ s.repeat \in 1..127 /\ IsRun(row, done, pos, byte)
        /\ Expands(s.result, SubSeq(row, 1, done)) /\ 3 * Len(s.result) <= 4 * done + 2
      BY <1>4, Zenon DEF Packing
  <2>2. CASE same /\ s.repeat = 127
    <3> DEFINE all == s.result \o <<(257 - s.repeat) % 256, byte>>
    <3>1. t = [[s EXCEPT !.result = all] EXCEPT !.repeat = 1]
        BY <1>4, <2>2, Zenon DEF PackStep, EmitRun
    <3>2. all \in Seq(Bytes) /\ Expands(all, SubSeq(row, 1, pos - 1)) /\ Len(all) = Len(s.result) + 2
      <4>1. /\ pos - 1 \in 1..Len(row) /\ (pos - 1) - done = 127 /\ 127 \in 2..128 /\ row[pos - 1] = byte
            /\ IsRun(row, done, pos - 1, byte)
          BY <1>2, <2>1, <2>2 DEF IsRun
      <4>2. (pos - 1) - done \in 2..128 /\ s.repeat = (pos - 1) - done
          BY <2>2, <4>1
      <4>3. RunEnds(s.result, row, done, pos - 1)
          BY <1>1, <1>2, <2>1, <4>1, <4>2, Zenon DEF RunEnds
      <4>4. Grown(s.result \o <<(257 - ((pos - 1) - done)) % 256, row[pos - 1]>>, s.result, row, pos - 1, 2)
          BY <4>3, RunIsPacked, ZenonT(40)
      <4>5. Grown(all, s.result, row, pos - 1, 2)
          BY <4>1, <4>2, <4>4, Zenon
      <4> QED
          BY <4>5, Zenon DEF Grown
    <3> HIDE DEF t, all
    <3>3. /\ t \in PackState /\ t.result = all /\ t.literal = <<>> /\ t.repeat = 1 /\ t.in_repeat = TRUE
      <4> DEFINE v == [s EXCEPT !.result = all]
      <4>1. 1 \in 0..128
          OBVIOUS
      <4>2. v \in PackState /\ v.result = all /\ v.literal = s.literal /\ v.in_repeat = s.in_repeat
          BY <1>1, <3>2, PackSetResult, Zenon
      <4> HIDE DEF v
      <4>3. /\ t \in PackState /\ t.result = all /\ t.literal = s.literal /\ t.repeat = 1
            /\ t.in_repeat = s.in_repeat
          BY <3>1, <4>1, <4>2, PackSetRepeat, Zenon DEF v
      <4> QED
          BY <1>1, <1>4, <2>1, <4>3, Zenon
    <3>4. 3 * Len(all) <= 4 * (pos - 1) + 2
      <4>1. (pos - 1) - done >= 2 /\ Len(all) \in Int /\ Len(s.result) \in Int /\ pos - 1 \in Int /\ done \in Int
          BY <1>2, <2>1, <2>2, <3>2, SMTT(30)
      <4> QED
          BY <2>1, <3>2, <4>1, RunsGrow, Zenon
    <3>5. IsRun(row, pos - 1, pos + 1, row[pos + 1])
        BY <1>2, <2>2 DEF IsRun
    <3>6. pos - 1 \in Nat /\ pos - 1 <= (pos + 1) - 1 /\ 1 = (pos + 1) - 1 - (pos - 1) /\ 1 \in 1..127
        BY <1>2
    <3>7. Packing(t, row, pos + 1, pos - 1)
        BY <3>2, <3>3, <3>4, <3>5, <3>6, Zenon DEF Packing
    <3> QED
        BY <3>7, Zenon DEF t
  <2>3. CASE same /\ s.repeat # 127
    <3>1. t = [s EXCEPT !.repeat = s.repeat + 1]
        BY <1>4, <2>3, Zenon DEF PackStep
    <3> HIDE DEF t
    <3>2. s.repeat + 1 \in 1..127 /\ s.repeat + 1 \in 0..128 /\ s.repeat + 1 = (pos + 1) - 1 - done /\ done <= (pos + 1) - 1
        BY <1>1, <1>2, <2>1, <2>3
    <3>3. /\ t \in PackState /\ t.result = s.result /\ t.literal = <<>> /\ t.repeat = s.repeat + 1 /\ t.in_repeat = TRUE
        BY <1>1, <1>4, <2>1, <3>1, <3>2, PackSetRepeat, Zenon
    <3>4. IsRun(row, done, pos + 1, row[pos + 1])
      <4>1. ASSUME NEW k \in (done + 1)..(pos + 1) PROVE row[k] = row[pos + 1]
        <5>1. k \in (done + 1)..pos \/ k = pos + 1
            BY <1>2
        <5> QED
            BY <2>1, <2>3, <5>1, Zenon DEF IsRun
      <4> QED
          BY <4>1, Zenon DEF IsRun
    <3>5. Packing(t, row, pos + 1, done)
        BY <1>2, <2>1, <3>2, <3>3, <3>4, Zenon DEF Packing
    <3> QED
        BY <3>5, Zenon DEF t
  <2>4. CASE ~same
    <3> DEFINE n == s.repeat + 1
               all == s.result \o <<(257 - n) % 256, byte>>
               u == [s EXCEPT !.repeat = n]
               v == [u EXCEPT !.result = all]
    <3>1. n = pos - done /\ n \in 2..128 /\ n \in 0..128 /\ pos - done \in 2..128
      <4>1. s.repeat = pos - 1 - done /\ s.repeat \in 1..127 /\ pos \in Nat /\ done \in Nat
          BY <1>2, <2>1, Zenon
      <4> QED
          BY <4>1
    <3> HIDE DEF n
    <3>8. /\ u \in PackState /\ u.result = s.result /\ u.literal = s.literal /\ u.repeat = n
        BY <1>1, <3>1, PackSetRepeat, Zenon
    <3>9. t = [EmitRun(u, byte) EXCEPT !.in_repeat = FALSE, !.repeat = 0]
        BY <1>4, <2>4, Zenon DEF PackStep, n
    <3> HIDE DEF u
    <3>10. EmitRun(u, byte) = v
        BY <3>8, Zenon DEF EmitRun
    <3>2. all \in Seq(Bytes) /\ Expands(all, SubSeq(row, 1, pos)) /\ Len(all) = Len(s.result) + 2
      <4>1. RunEnds(s.result, row, done, pos)
          BY <1>1, <1>2, <2>1, <3>1, Zenon DEF RunEnds
      <4>2. Grown(s.result \o <<(257 - (pos - done)) % 256, row[pos]>>, s.result, row, pos, 2)
          BY <4>1, RunIsPacked, ZenonT(40)
      <4>3. Grown(all, s.result, row, pos, 2)
          BY <3>1, <4>2, Zenon
      <4> QED
          BY <4>3, Zenon DEF Grown
    <3> HIDE DEF t, all
    <3>3. v \in PackState /\ v.result = all /\ v.literal = s.literal
        BY <3>2, <3>8, PackSetResult, Zenon
    <3> HIDE DEF v
    <3>4. /\ t \in PackState /\ t.result = all /\ t.literal = <<>> /\ t.repeat = 0 /\ t.in_repeat = FALSE
      <4>1. 0 \in 0..128 /\ FALSE \in BOOLEAN
          OBVIOUS
      <4>2. t = [v EXCEPT !.in_repeat = FALSE, !.repeat = 0]
          BY <3>9, <3>10, Zenon
      <4>3. t \in PackState /\ t.result = v.result /\ t.literal = v.literal /\ t.repeat = 0 /\ t.in_repeat = FALSE
          BY <3>3, <4>1, <4>2, PackSetRun, ZenonT(40)
      <4> QED
          BY <2>1, <3>3, <4>3, Zenon
    <3>5. 3 * Len(all) <= 4 * pos + 0
      <4>1. pos - done >= 2 /\ Len(all) \in Int /\ Len(s.result) \in Int /\ pos \in Int /\ done \in Int
          BY <1>2, <3>1, <3>2
      <4> QED
          BY <2>1, <3>2, <4>1, RunsGrow, Zenon
    <3>6. pos <= (pos + 1) - 1 /\ (pos + 1) - 1 - pos <= 127 /\ <<>> = SubSeq(row, pos + 1, (pos + 1) - 1)
        BY <1>2
    <3>7. Packing(t, row, pos + 1, pos)
        BY <1>2, <3>2, <3>4, <3>5, <3>6, Zenon DEF Packing
    <3> QED
        BY <3>7, Zenon DEF t
  <2> QED
      BY <2>2, <2>3, <2>4, Zenon
<1> QED
    BY <1>1, <1>3, <1>4, Zenon

LEMMA PackSetLiteral ==
    ASSUME NEW s \in PackState, NEW bytes \in Seq(Bytes)
    PROVE  LET t == [s EXCEPT !.literal = bytes]
           IN  /\ t \in PackState /\ t.result = s.result /\ t.literal = bytes /\ t.repeat = s.repeat
               /\ t.in_repeat = s.in_repeat
BY Zenon DEF PackState

\* The last byte.
Packed(bytes, row) == bytes \in Seq(Bytes) /\ Expands(bytes, row) /\ 3 * Len(bytes) <= 4 * Len(row) + 2

LEMMA PackLastPacks ==
    ASSUME NEW row \in Seq(Bytes), Len(row) >= 1, NEW s, NEW done, Packing(s, row, Len(row), done)
    PROVE  Packed(PackLast(s, row[Len(row)]), row)
<1> DEFINE pos == Len(row)
           byte == row[pos]
           t == PackLast(s, byte)
<1>1. /\ s \in PackState /\ s.result \in Seq(Bytes) /\ s.literal \in Seq(Bytes) /\ s.repeat \in 0..128
      /\ s.in_repeat \in BOOLEAN
    BY DEF PackState, Packing
<1>2. /\ pos \in Nat /\ pos \in 1..Len(row) /\ pos \in 0..Len(row) /\ byte \in Bytes /\ pos = Len(row)
    OBVIOUS
<1>3. SubSeq(row, 1, pos) = row
    OBVIOUS
<1>4. done \in Nat /\ done <= pos - 1 /\ Packing(s, row, pos, done)
    BY Zenon DEF Packing
<1>5. Len(s.result) \in Int /\ pos \in Int /\ done \in Int
    BY <1>1, <1>2, <1>4
<1> HIDE DEF pos
<1>6. CASE s.in_repeat
  <2>1. /\ s.repeat = pos - 1 - done /\ s.repeat \in 1..127 /\ IsRun(row, done, pos, byte)
        /\ Expands(s.result, SubSeq(row, 1, done)) /\ 3 * Len(s.result) <= 4 * done + 2
      BY <1>4, <1>6, Zenon DEF Packing
  <2> DEFINE n == s.repeat + 1
             u == [s EXCEPT !.repeat = n]
             all == s.result \o <<(257 - n) % 256, byte>>
  <2>2. n = pos - done /\ n \in 0..128 /\ pos - done \in 2..128
    <3>1. s.repeat = pos - 1 - done /\ s.repeat \in 1..127 /\ pos \in Nat /\ done \in Nat
        BY <1>2, <1>4, <2>1, Zenon
    <3> QED
        BY <3>1
  <2>3. t = EmitRun(u, byte).result
      BY <1>6, Zenon DEF PackLast
  <2> HIDE DEF n, t
  <2>4. u \in PackState /\ u.result = s.result /\ u.repeat = n
      BY <1>1, <2>2, PackSetRepeat, Zenon
  <2> HIDE DEF u
  <2>5. EmitRun(u, byte) = [u EXCEPT !.result = all]
      BY <2>4, Zenon DEF EmitRun
  <2>6. Grown(all, s.result, row, pos, 2)
    <3>1. RunEnds(s.result, row, done, pos)
        BY <1>1, <1>2, <1>4, <2>1, <2>2, Zenon DEF RunEnds
    <3>2. Grown(s.result \o <<(257 - (pos - done)) % 256, row[pos]>>, s.result, row, pos, 2)
        BY <3>1, RunIsPacked, ZenonT(40)
    <3> QED
        BY <2>2, <3>2, Zenon
  <2> HIDE DEF all
  <2>7. all \in Seq(Bytes) /\ Expands(all, SubSeq(row, 1, pos)) /\ Len(all) = Len(s.result) + 2
      BY <2>6, Zenon DEF Grown
  <2>8. t = all
    <3>1. [u EXCEPT !.result = all].result = all
        BY <2>4, <2>7, PackSetResult, Zenon
    <3> QED
        BY <2>3, <2>5, <3>1, Zenon
  <2>9. Len(all) \in Int /\ pos - done >= 2
    <3>1. all \in Seq(Bytes)
        BY <2>7, Zenon
    <3>2. Len(all) \in Int
        BY <3>1
    <3>3. pos - done >= 2
        BY <1>5, <2>2
    <3> QED
        BY <3>2, <3>3, Zenon
  <2>10. 3 * Len(all) <= 4 * pos + 2
      BY <1>5, <2>1, <2>7, <2>9, RunsGrow, Zenon
  <2> QED
      BY <1>2, <1>3, <2>7, <2>8, <2>10, Zenon DEF Packed, t
<1>7. CASE ~s.in_repeat
  <2>1. /\ s.literal = SubSeq(row, done + 1, pos - 1) /\ pos - 1 - done <= 127
        /\ Expands(s.result, SubSeq(row, 1, done)) /\ 3 * Len(s.result) <= 4 * done + 0
      BY <1>4, <1>7, Zenon DEF Packing
  <2> DEFINE literal == Append(s.literal, byte)
             u == [s EXCEPT !.literal = literal]
             f == flush_literal(u)
  <2>2. t = f.result
      BY <1>7, Zenon DEF PackLast
  <2>3. literal = SubSeq(row, done + 1, pos) /\ literal \in Seq(Bytes)
    <3>1. /\ pos - 1 \in Nat /\ done <= pos - 1 /\ pos - 1 < Len(row) /\ (pos - 1) + 1 = pos
        BY <1>2, <1>4
    <3>2. Append(SubSeq(row, done + 1, pos - 1), row[(pos - 1) + 1]) = SubSeq(row, done + 1, (pos - 1) + 1)
        BY <1>2, <1>4, <3>1, SliceGrows, Zenon
    <3>3. literal \in Seq(Bytes)
        BY <1>1, <1>2
    <3> QED
        BY <2>1, <3>1, <3>2, <3>3, Zenon
  <2> HIDE DEF t, literal
  <2>4. u \in PackState /\ u.result = s.result /\ u.literal = literal
      BY <1>1, <2>3, PackSetLiteral, Zenon
  <2> HIDE DEF u
  <2>5. pos - done \in 0..128 /\ done <= pos
      BY <1>2, <1>4, <2>1
  <2>6. LiteralsHeld(u, row, done, pos)
      BY <1>2, <1>4, <2>1, <2>3, <2>4, <2>5, Zenon DEF LiteralsHeld
  <2>7. Flushed(f, u, row, done, pos)
      BY <2>6, FlushIs, Zenon
  <2> HIDE DEF f
  <2>8. /\ f \in PackState /\ Expands(f.result, SubSeq(row, 1, pos))
        /\ Len(f.result) = Len(s.result) + (IF pos = done THEN 0 ELSE 1 + (pos - done))
      BY <2>4, <2>7, Zenon DEF Flushed
  <2>9. f.result \in Seq(Bytes)
      BY <2>8 DEF PackState
  <2>10. Len(f.result) \in Int
      BY <2>9
  <2>11. 3 * Len(f.result) <= 4 * pos + 2
      BY <1>5, <2>1, <2>5, <2>8, <2>10, LiteralsGrow, Zenon
  <2> QED
      BY <1>2, <1>3, <2>2, <2>8, <2>9, <2>11, Zenon DEF Packed, t
<1> QED
    BY <1>1, <1>6, <1>7, Zenon DEF pos

\* A line behind its length.
LEMMA LineIs ==
    ASSUME NEW bytes \in Seq(Bytes), Len(bytes) < 256
    PROVE  LET line == brother_raster_line(bytes)
           IN  SubSeq(line, 4, Len(line)) = bytes /\ line[3] = Len(bytes)
<1> DEFINE n == Len(bytes)
           head == <<103, 0, n % 256>>
           line == head \o bytes
           rest == SubSeq(line, 4, Len(line))
<1>1. n \in 0..255 /\ n % 256 = n
  <2>1. n \in Nat
      OBVIOUS
  <2>2. n < 256
      BY Zenon
  <2> HIDE DEF n
  <2>3. n \in 0..255
      BY <2>1, <2>2
  <2> QED
      BY <2>3, ByteKept, Zenon
<1>2. head = <<103, 0, n>>
    BY <1>1, Zenon
<1> HIDE DEF n
<1>3. head \in Seq(Bytes) /\ Len(head) = 3 /\ head[3] = n
  <2>1. 103 \in Bytes /\ 0 \in Bytes /\ n \in Bytes
      BY <1>1 DEF Bytes
  <2> HIDE DEF head
  <2> QED
      BY <1>2, <2>1
<1> HIDE DEF head
<1>4. /\ line \in Seq(Bytes) /\ Len(line) = 3 + n
      /\ line[3] = head[3]
      /\ \A i \in 1..n : line[3 + i] = bytes[i]
  <2>1. head \in Seq(Bytes) /\ bytes \in Seq(Bytes)
      BY <1>3
  <2>2. /\ line \in Seq(Bytes) /\ Len(line) = Len(head) + Len(bytes)
        /\ \A i \in 1..Len(head) : line[i] = head[i]
        /\ \A i \in 1..Len(bytes) : line[Len(head) + i] = bytes[i]
      BY <2>1, ConcatFacts
  <2>3. 3 \in 1..3
      OBVIOUS
  <2> QED
      BY <1>3, <2>2, <2>3, Zenon DEF n
<1> HIDE DEF line
<1>5. /\ rest \in Seq(Bytes) /\ Len(rest) = n /\ \A i \in 1..n : rest[i] = line[3 + i]
  <2> DEFINE b == Len(line)
  <2>1. 3 \in Nat /\ b \in Nat /\ 3 <= b /\ b <= Len(line) /\ 3 + 1 = 4 /\ b - 3 = n
    <3>1. n \in 0..255 /\ b = 3 + n
        BY <1>1, <1>4, Zenon
    <3> QED
        BY <3>1
  <2>2. /\ SubSeq(line, 3 + 1, b) \in Seq(Bytes) /\ Len(SubSeq(line, 3 + 1, b)) = b - 3
        /\ \A i \in 1..(b - 3) : SubSeq(line, 3 + 1, b)[i] = line[3 + i]
      BY <1>4, <2>1, SliceFacts
  <2> QED
      BY <2>1, <2>2, Zenon
<1> HIDE DEF rest
<1>6. rest = bytes
    BY <1>4, <1>5, SeqExtensional, Zenon DEF n
<1> QED
    BY <1>1, <1>2, <1>3, <1>4, <1>6, Zenon DEF brother_raster_line, rest, line, head, n

\* What a client that compresses a line holds.
LineInv ==
    /\ stage = "packing" =>
           /\ request.row \in RasterLines /\ request.pos \in 1..Len(request.row)
           /\ \E done : Packing(result.value, request.row, request.pos, done)
    /\ LinesExpandToTheirRows

LEMMA FirstPacking ==
    ASSUME NEW row \in RasterLines
    PROVE  Packing(NoBits, row, 1, 0) /\ 1 \in 1..Len(row)
<1>1. row \in Seq(Bytes) /\ Len(row) \in 1..162
    BY LineAssumption, Zenon DEF Bytes
<1> DEFINE g == [n \in {0} |-> Rests(<<>>)]
<1>2. Expansion(g, <<>>, <<>>)
    BY DEF Expansion
<1>3. SubSeq(row, 1, 0) = <<>> /\ SubSeq(row, 0 + 1, 1 - 1) = <<>>
    BY <1>1
<1>4. Expands(<<>>, SubSeq(row, 1, 0))
    BY <1>2, <1>3, Zenon DEF Expands
<1>5. NoBits \in PackState
    BY DEF NoBits, PackState
<1>6. NoBits.result = <<>> /\ NoBits.literal = <<>> /\ NoBits.repeat = 0 /\ NoBits.in_repeat = FALSE
    BY DEF NoBits
<1>7. 0 \in Nat /\ 0 <= 1 - 1 /\ 3 * Len(<<>>) <= 4 * 0 + 0 /\ 1 - 1 - 0 <= 127
    OBVIOUS
<1>8. 1 \in 1..Len(row)
  <2>1. \A n \in 1..162 : 1 \in 1..n
      OBVIOUS
  <2> QED
      BY <1>1, <2>1, Zenon
<1> QED
    BY <1>3, <1>4, <1>5, <1>6, <1>7, <1>8, Zenon DEF Packing

LEMMA LineKept ==
    ASSUME NEW row \in RasterLines
    PROVE  LET line == brother_raster_line(row)
           IN  SubSeq(line, 4, Len(line)) = row /\ line[3] = Len(row)
<1>1. row \in Seq(Bytes) /\ Len(row) \in 1..162
    BY LineAssumption, Zenon DEF Bytes
<1>2. Len(row) < 256
  <2>1. \A n \in 1..162 : n < 256
      OBVIOUS
  <2> QED
      BY <1>1, <2>1, Zenon
<1> QED
    BY <1>1, <1>2, LineIs, Zenon

LEMMA LineCompressed ==
    ASSUME NEW row \in RasterLines, NEW bytes, Packed(bytes, row)
    PROVE  LET line == brother_raster_line(bytes)
           IN  /\ SubSeq(line, 4, Len(line)) = bytes /\ line[3] = Len(bytes)
               /\ Unpacked(bytes) = [out |-> row, literals |-> 0, repeats |-> 0]
<1>1. row \in Seq(Bytes) /\ Len(row) \in 1..162
    BY LineAssumption, Zenon DEF Bytes
<1>2. bytes \in Seq(Bytes) /\ Expands(bytes, row) /\ 3 * Len(bytes) <= 4 * Len(row) + 2
    BY Zenon DEF Packed
<1>3. Len(bytes) < 256
  <2>1. Len(bytes) \in Nat
      BY <1>2
  <2>2. Len(row) \in 1..162 /\ 3 * Len(bytes) <= 4 * Len(row) + 2
      BY <1>1, <1>2, Zenon
  <2>3. \A m \in Nat, n \in 1..162 : 3 * m <= 4 * n + 2 => m < 256
      OBVIOUS
  <2> QED
      BY <2>1, <2>2, <2>3, Zenon
<1>4. LET line == brother_raster_line(bytes)
      IN  SubSeq(line, 4, Len(line)) = bytes /\ line[3] = Len(bytes)
    BY <1>2, <1>3, LineIs, Zenon
<1>5. Unpacked(bytes) = [out |-> row, literals |-> 0, repeats |-> 0]
    BY <1>2, UnpackedIs, Zenon DEF Rests
<1> QED
    BY <1>4, <1>5, Zenon

\* Every line of a raster that fits the widest head, compressed or not, has its length in front
\* of it, in one byte, and expands to the row it was made from: packbits never lets a run or the
\* literals outgrow their count, and a line grows by a third at most.
THEOREM LinesAreTheirRows == Spec => []LinesExpandToTheirRows
<1>1. Init => LineInv
    BY DEF Init, LineInv, LinesExpandToTheirRows
<1>2. LineInv /\ [Next]_vars => LineInv'
  <2> SUFFICES ASSUME LineInv, [Next]_vars PROVE LineInv'
      OBVIOUS
  <2>1. CASE SendLine
    <3>1. PICK row \in RasterLines : /\ request' = [of |-> "line", row |-> row, pos |-> 1]
                                     /\ \/ stage' = "sent" /\ result' = Ok(brother_raster_line(row))
                                        \/ stage' = "packing" /\ result' = Ok(NoBits)
        BY <2>1, Zenon DEF SendLine
    <3>2. request'.row = row /\ request'.pos = 1
        BY <3>1
    <3>3. CASE stage' = "sent" /\ result' = Ok(brother_raster_line(row))
      <4>1. result'.value = brother_raster_line(row)
          BY <3>3, Zenon DEF Ok
      <4>2. stage' # "packing"
          BY <3>3
      <4> QED
          BY <3>2, <3>3, <4>1, <4>2, LineKept, Zenon DEF LineInv, LinesExpandToTheirRows
    <3>4. CASE stage' = "packing" /\ result' = Ok(NoBits)
      <4>1. result'.value = NoBits
          BY <3>4, Zenon DEF Ok
      <4>2. Packing(NoBits, row, 1, 0) /\ 1 \in 1..Len(row)
          BY FirstPacking, Zenon
      <4>3. stage' \notin {"sent", "compressed"}
          BY <3>4
      <4> QED
          BY <3>2, <4>1, <4>2, <4>3, Zenon DEF LineInv, LinesExpandToTheirRows
    <3> QED
        BY <3>1, <3>3, <3>4, Zenon
  <2>2. CASE PackByte
    <3> DEFINE row == request.row
               pos == request.pos
    <3>1. /\ stage = "packing" /\ pos < Len(row) /\ stage' = stage
          /\ result' = Ok(PackStep(result.value, row[pos], row[pos] = row[pos + 1]))
          /\ request' = [request EXCEPT !.pos = pos + 1]
        BY <2>2, Zenon DEF PackByte
    <3>2. row \in RasterLines /\ pos \in 1..Len(row) /\ \E done : Packing(result.value, row, pos, done)
        BY <3>1, Zenon DEF LineInv
    <3>3. PICK done : Packing(result.value, row, pos, done)
        BY <3>2, Zenon
    <3>4. row \in Seq(Bytes)
        BY <3>2, LineAssumption, Zenon DEF Bytes
    <3>5. request'.row = row /\ request'.pos = pos + 1
        BY <3>1 DEF LineInv
    <3> HIDE DEF row, pos
    <3>6. pos \in 1..(Len(row) - 1) /\ pos + 1 \in 1..Len(row)
        BY <3>1, <3>2, <3>4
    <3>7. \E d : Packing(PackStep(result.value, row[pos], row[pos] = row[pos + 1]), row, pos + 1, d)
        BY <3>3, <3>4, <3>6, PackStepPacks, Zenon
    <3>8. result'.value = PackStep(result.value, row[pos], row[pos] = row[pos + 1])
        BY <3>1, Zenon DEF Ok
    <3>9. stage' = "packing" /\ stage' \notin {"sent", "compressed"}
        BY <3>1
    <3> QED
        BY <3>2, <3>5, <3>6, <3>7, <3>8, <3>9, Zenon DEF LineInv, LinesExpandToTheirRows
  <2>3. CASE PackEnds
    <3> DEFINE row == request.row
               bytes == PackLast(result.value, row[Len(row)])
    <3>1. /\ stage = "packing" /\ request.pos = Len(row) /\ stage' = "compressed" /\ request' = request
          /\ result' = Ok(brother_raster_line(bytes))
        BY <2>3, Zenon DEF PackEnds
    <3>2. row \in RasterLines /\ \E done : Packing(result.value, row, Len(row), done)
        BY <3>1, Zenon DEF LineInv
    <3>3. PICK done : Packing(result.value, row, Len(row), done)
        BY <3>2, Zenon
    <3>4. row \in Seq(Bytes) /\ Len(row) >= 1
      <4>1. row \in Seq(Bytes) /\ Len(row) \in 1..162
          BY <3>2, LineAssumption, Zenon DEF Bytes
      <4>2. \A n \in 1..162 : n >= 1
          OBVIOUS
      <4> QED
          BY <4>1, <4>2, Zenon
    <3>5. request'.row = row
        BY <3>1, Zenon
    <3> HIDE DEF row
    <3>6. Packed(bytes, row)
        BY <3>3, <3>4, PackLastPacks, Zenon
    <3> HIDE DEF bytes
    <3>7. result'.value = brother_raster_line(bytes)
        BY <3>1, Zenon DEF Ok
    <3>8. stage' # "packing" /\ stage' # "sent"
        BY <3>1
    <3>9. LET line == result'.value
          IN  /\ SubSeq(line, 4, Len(line)) = bytes /\ line[3] = Len(bytes)
              /\ Unpacked(bytes) = [out |-> row, literals |-> 0, repeats |-> 0]
        BY <3>2, <3>6, <3>7, LineCompressed, Zenon
    <3> QED
        BY <3>5, <3>8, <3>9, Zenon DEF LineInv, LinesExpandToTheirRows
  <2>4. CASE FillRecord \/ FillZones \/ PlanBatch \/ PlanSingle \/ ImposeSheets
    <3>1. stage' \notin {"packing", "sent", "compressed"}
        BY <2>4, Zenon DEF FillRecord, FillZones, PlanBatch, PlanSingle, ImposeSheets
    <3> QED
        BY <3>1, Zenon DEF LineInv, LinesExpandToTheirRows
  <2>5. CASE PrinterPrints
    <3>1. stage' \notin {"packing", "sent", "compressed"}
        BY <2>5 DEF PrinterPrints
    <3> QED
        BY <3>1, Zenon DEF LineInv, LinesExpandToTheirRows
  <2>6. CASE UNCHANGED vars
      BY <2>6, Zenon DEF LineInv, LinesExpandToTheirRows, vars
  <2> QED
      BY <2>1, <2>2, <2>3, <2>4, <2>5, <2>6, Zenon DEF Next
<1>3. LineInv => LinesExpandToTheirRows
    BY Zenon DEF LineInv
<1> QED
    BY <1>1, <1>2, <1>3, PTL DEF Spec

-----------------------------------------------------------------------------
(* Imposition *)

LEMMA PagesGoUp ==
    ASSUME NEW slots \in Nat \ {0}, NEW first \in 1..slots,
           NEW i \in Nat \ {0}, NEW j \in Nat \ {0}, i <= j
    PROVE  Placement(i, first, slots).page <= Placement(j, first, slots).page
  BY DEF Placement

LEMMA PagesAreCounted ==
    ASSUME NEW slots \in Nat \ {0}, NEW first \in 1..slots, NEW items \in Nat \ {0}, NEW i \in 1..items
    PROVE  Placement(i, first, slots).page \in 1..PageCount(items, first, slots)
  BY DEF Placement, PageCount

LEMMA PagesAreUsed ==
    ASSUME NEW slots \in Nat \ {0}, NEW first \in 1..slots, NEW items \in Nat \ {0},
           NEW p \in 1..PageCount(items, first, slots)
    PROVE  \E i \in 1..items : Placement(i, first, slots).page = p
  <1> DEFINE capacity == slots - first + 1
             i == IF p = 1 THEN 1 ELSE capacity + 1 + (p - 2) * slots
  <1>1. i \in 1..items
    BY DEF PageCount
  <1>2. Placement(i, first, slots).page = p
    BY DEF Placement, PageCount
  <1> QED
    BY <1>1, <1>2

\* What the sheets of a plan must be: every item once and in order, no sheet empty, and no slot
\* used twice.
ImposedOnce(sheets, placements, items) ==
    /\ \A n \in 1..items : \E p \in DOMAIN sheets : \E k \in DOMAIN sheets[p] : sheets[p][k].item = n
    /\ \A p, q \in DOMAIN sheets : \A k \in DOMAIN sheets[p], l \in DOMAIN sheets[q] :
           p < q \/ (p = q /\ k < l) => sheets[p][k].item < sheets[q][l].item
    /\ \A p \in DOMAIN sheets :
           /\ sheets[p] # <<>>
           /\ \A k \in DOMAIN sheets[p] :
                  /\ sheets[p][k].item \in 1..items
                  /\ \A l \in DOMAIN sheets[p] \ {k} :
                         placements[sheets[p][k].item].slot # placements[sheets[p][l].item].slot

\* A sheet of a plan: the items of its page, at gives them in order.
SheetShows(sheet, at, page, items, first, slots) ==
    \E n \in Nat :
        /\ DOMAIN sheet = 1..n /\ at \in [1..n -> 1..items]
        /\ \A k \in 1..n : sheet[k].item = at[k] /\ Placement(at[k], first, slots).page = page
        /\ \A k, l \in 1..n : k < l => at[k] < at[l]
        /\ \A i \in 1..items : Placement(i, first, slots).page = page => \E k \in 1..n : at[k] = i

LEMMA ShownOnce ==
    ASSUME NEW slots \in Nat \ {0}, NEW first \in 1..slots, NEW items \in Nat \ {0}, NEW sheets, NEW at,
           DOMAIN sheets = 1..PageCount(items, first, slots),
           \A p \in DOMAIN sheets : SheetShows(sheets[p], at[p], p, items, first, slots)
    PROVE  ImposedOnce(sheets, [n \in 1..items |-> Placement(n, first, slots)], items)
<1> DEFINE P == 1..PageCount(items, first, slots)
           place(i) == Placement(i, first, slots)
           placements == [n \in 1..items |-> place(n)]
<1>1. \A i, j \in 1..items : i <= j => place(i).page <= place(j).page
    BY PagesGoUp
<1>2. \A i \in 1..items : place(i).page \in P
    BY PagesAreCounted, Zenon
<1>3. \A p \in P : \E i \in 1..items : place(i).page = p
    BY PagesAreUsed, Zenon
<1>4. \A i, j \in 1..items : i # j /\ place(i).page = place(j).page => place(i).slot # place(j).slot
    BY PlacementsAreDistinct
<1>5. \A p \in P : p \in Int
    BY DEF PageCount
<1> DEFINE Shows(p, n) ==
               /\ DOMAIN sheets[p] = 1..n /\ at[p] \in [1..n -> 1..items]
               /\ \A k \in 1..n : sheets[p][k].item = at[p][k] /\ place(at[p][k]).page = p
               /\ \A k, l \in 1..n : k < l => at[p][k] < at[p][l]
               /\ \A i \in 1..items : place(i).page = p => \E k \in 1..n : at[p][k] = i
<1>6. \A p \in P : \E n \in Nat : Shows(p, n)
    BY Zenon DEF SheetShows
<1>7. \A i \in 1..items : placements[i] = place(i)
    BY Zenon
<1> HIDE DEF P, place, placements, Shows
<1>8. DOMAIN sheets = P
    BY Zenon DEF P
<1>9. ASSUME NEW n \in 1..items
      PROVE  \E p \in DOMAIN sheets : \E k \in DOMAIN sheets[p] : sheets[p][k].item = n
  <2> DEFINE p == place(n).page
  <2>1. p \in P
      BY <1>2, Zenon
  <2>2. PICK m \in Nat : Shows(p, m)
      BY <1>6, <2>1, Zenon
  <2>3. \E k \in 1..m : at[p][k] = n
      BY <2>2, Zenon DEF Shows
  <2>4. \E k \in DOMAIN sheets[p] : sheets[p][k].item = n
      BY <2>2, <2>3, Zenon DEF Shows
  <2> QED
      BY <1>8, <2>1, <2>4, Zenon
<1>10. ASSUME NEW p \in P, NEW q \in P, NEW k \in DOMAIN sheets[p], NEW l \in DOMAIN sheets[q],
              p < q \/ (p = q /\ k < l)
       PROVE  sheets[p][k].item < sheets[q][l].item
  <2> DEFINE i == sheets[p][k].item
             j == sheets[q][l].item
  <2>5. PICK m \in Nat : Shows(p, m)
      BY <1>6, Zenon
  <2>6. PICK n \in Nat : Shows(q, n)
      BY <1>6, Zenon
  <2>7. k \in 1..m /\ l \in 1..n
      BY <2>5, <2>6, Zenon DEF Shows
  <2>1. i = at[p][k] /\ i \in 1..items /\ place(i).page = p
    <3>1. i = at[p][k] /\ at[p][k] \in 1..items /\ place(at[p][k]).page = p
        BY <2>5, <2>7, Zenon DEF Shows
    <3> QED
        BY <3>1, Zenon
  <2>2. j = at[q][l] /\ j \in 1..items /\ place(j).page = q
    <3>1. j = at[q][l] /\ at[q][l] \in 1..items /\ place(at[q][l]).page = q
        BY <2>6, <2>7, Zenon DEF Shows
    <3> QED
        BY <3>1, Zenon
  <2>3. CASE p = q /\ k < l
    <3>1. l \in 1..m
        BY <2>3, <2>5, Zenon DEF Shows
    <3>2. at[p][k] < at[p][l]
        BY <2>3, <2>5, <2>7, <3>1, Zenon DEF Shows
    <3> QED
        BY <2>1, <2>2, <2>3, <3>2, Zenon
  <2>4. CASE p < q
    <3> HIDE DEF i, j
    <3>1. p \in Int /\ q \in Int /\ i \in Int /\ j \in Int
        BY <1>5, <2>1, <2>2
    <3>2. ~(j <= i)
      <4>1. ~(q <= p)
          BY <2>4, <3>1
      <4> QED
          BY <1>1, <2>1, <2>2, <4>1, Zenon
    <3>3. i < j
        BY <3>1, <3>2
    <3> QED
        BY <3>3, Zenon DEF i, j
  <2> QED
      BY <1>10, <2>3, <2>4, Zenon
<1>11. ASSUME NEW p \in P
       PROVE  /\ sheets[p] # <<>>
              /\ \A k \in DOMAIN sheets[p] :
                     /\ sheets[p][k].item \in 1..items
                     /\ \A l \in DOMAIN sheets[p] \ {k} :
                            placements[sheets[p][k].item].slot # placements[sheets[p][l].item].slot
  <2>1. PICK n \in Nat : Shows(p, n)
      BY <1>6, Zenon
  <2>2. sheets[p] # <<>>
    <3>1. \E k \in DOMAIN sheets[p] : TRUE
        BY <1>3, <2>1, Zenon DEF Shows
    <3>2. ~ \E k \in DOMAIN <<>> : TRUE
        OBVIOUS
    <3> QED
        BY <3>1, <3>2, Zenon
  <2>3. ASSUME NEW k \in 1..n, NEW l \in 1..n, k # l
        PROVE  placements[sheets[p][k].item].slot # placements[sheets[p][l].item].slot
    <3>1. at[p][k] \in 1..items /\ at[p][l] \in 1..items
        BY <2>1, Zenon DEF Shows
    <3>2. at[p][k] # at[p][l]
      <4>1. k < l \/ l < k
          BY <2>3
      <4>2. at[p][k] < at[p][l] \/ at[p][l] < at[p][k]
          BY <2>1, <4>1, Zenon DEF Shows
      <4>3. \A x \in 1..items : ~(x < x)
          OBVIOUS
      <4> QED
          BY <3>1, <4>2, <4>3, Zenon
    <3>4. sheets[p][k].item = at[p][k] /\ sheets[p][l].item = at[p][l] /\ place(at[p][k]).page = place(at[p][l]).page
        BY <2>1, Zenon DEF Shows
    <3>3. place(at[p][k]).slot # place(at[p][l]).slot
        BY <1>4, <3>1, <3>2, <3>4, Zenon
    <3> QED
        BY <1>7, <3>1, <3>3, <3>4, Zenon
  <2>4. DOMAIN sheets[p] = 1..n
      BY <2>1, Zenon DEF Shows
  <2>5. \A k \in 1..n : sheets[p][k].item \in 1..items
      BY <2>1, ZenonT(40) DEF Shows
  <2> QED
      BY <2>2, <2>3, <2>4, <2>5, Zenon
<1> QED
    BY <1>8, <1>9, <1>10, <1>11, Zenon DEF ImposedOnce, placements, place

LEMMA ImposeShows ==
    ASSUME NEW slots \in Nat \ {0}, NEW first \in 1..slots, NEW items \in Nat \ {0},
           NEW plan, plan.page_count = PageCount(items, first, slots),
           plan.placements = [n \in 1..items |-> Placement(n, first, slots)],
           NEW dpi, NEW cutMarks, impose(plan, dpi, cutMarks).ok
    PROVE  ImposedOnce(impose(plan, dpi, cutMarks).value, plan.placements, items)
<1> DEFINE placements == plan.placements
           P == 1..PageCount(items, first, slots)
           paper == paper_dots(plan.layout, dpi)
           where(p) == Covered(plan.layout.slots[p.slot], dpi)
           marks(p) == IF cutMarks THEN CutMarks(paper, where(p), dpi) ELSE {}
           positions(page) == {n \in DOMAIN placements : placements[n].page = page}
           here(page) == Picked(placements, positions(page))
           sheet(page) == [n \in DOMAIN here(page) |->
                              [item |-> here(page)[n].item, at |-> where(here(page)[n]),
                               marks |-> marks(here(page)[n])]]
           sheets == [page \in P |-> sheet(page)]
<1>1. impose(plan, dpi, cutMarks) = Err("placement") \/ impose(plan, dpi, cutMarks) = Ok(sheets)
    BY Zenon DEF impose
<1>2. impose(plan, dpi, cutMarks).value = sheets
  <2>1. ~Err("placement").ok
      BY DEF Err
  <2>2. Ok(sheets).value = sheets
      BY Zenon DEF Ok
  <2> QED
      BY <1>1, <2>1, <2>2, Zenon
<1> HIDE DEF where, marks, P
<1> DEFINE S == {Placement(n, first, slots) : n \in 1..items}
<1>3. placements = [n \in 1..items |-> Placement(n, first, slots)]
    BY Zenon
<1> HIDE DEF placements
<1>4. placements \in Seq(S) /\ Len(placements) = items /\ DOMAIN placements = 1..items
  <2>1. \A n \in 1..items : Placement(n, first, slots) \in S
      BY Zenon
  <2> HIDE DEF S
  <2> QED
      BY <1>3, <2>1
<1> HIDE DEF S
<1>5. \A i \in 1..items : placements[i] = Placement(i, first, slots) /\ placements[i].item = i
    BY <1>3, Zenon DEF Placement
<1>6. ASSUME NEW page \in P
      PROVE  \E at : SheetShows(sheet(page), at, page, items, first, slots)
  <2> DEFINE q == here(page)
             n == Len(q)
  <2>1. PICK at : Picks(q, at, S, placements, positions(page), items)
      BY <1>4, PickedIs, Zenon
  <2>2. /\ q \in Seq(S) /\ at \in [1..n -> 1..items]
        /\ \A k \in 1..n : at[k] \in positions(page) /\ q[k] = placements[at[k]]
        /\ \A k, l \in 1..n : k < l => at[k] < at[l]
        /\ \A i \in 1..items : i \in positions(page) => \E k \in 1..n : at[k] = i
      BY <2>1, Zenon DEF Picks
  <2> HIDE DEF here
  <2>3. n \in Nat /\ DOMAIN q = 1..n
    <3>1. q \in Seq(S)
        BY <2>2, Zenon
    <3> HIDE DEF q
    <3> QED
        BY <3>1
  <2>4. DOMAIN sheet(page) = 1..n /\ \A k \in 1..n : sheet(page)[k].item = q[k].item
      BY <2>3, Zenon
  <2>5. \A i \in 1..items : i \in positions(page) <=> Placement(i, first, slots).page = page
      BY <1>4, <1>5, Zenon
  <2> HIDE DEF q, n, positions, sheet
  <2>6. ASSUME NEW k \in 1..n
        PROVE  sheet(page)[k].item = at[k] /\ Placement(at[k], first, slots).page = page
    <3>1. at[k] \in 1..items
        BY <2>2, Zenon
    <3>2. at[k] \in positions(page) /\ q[k] = placements[at[k]]
        BY <2>2, Zenon
    <3>3. sheet(page)[k].item = at[k]
      <4>1. sheet(page)[k].item = q[k].item
          BY <2>4, Zenon
      <4>2. placements[at[k]].item = at[k]
          BY <1>5, <3>1, Zenon
      <4> QED
          BY <3>2, <4>1, <4>2, Zenon
    <3>4. Placement(at[k], first, slots).page = page
        BY <2>5, <3>1, <3>2, Zenon
    <3> QED
        BY <3>3, <3>4, Zenon
  <2>7. SheetShows(sheet(page), at, page, items, first, slots)
      BY <2>2, <2>3, <2>4, <2>5, <2>6, Zenon DEF SheetShows
  <2> QED
      BY <2>7, Zenon
<1> HIDE DEF sheet
<1> DEFINE at == [page \in P |-> CHOOSE a : SheetShows(sheet(page), a, page, items, first, slots)]
<1>7. \A page \in P : SheetShows(sheets[page], at[page], page, items, first, slots)
    BY <1>6, Zenon
<1>8. DOMAIN sheets = P
    BY Zenon
<1> HIDE DEF sheets, at
<1>9. ImposedOnce(sheets, [n \in 1..items |-> Placement(n, first, slots)], items)
    BY <1>7, <1>8, ShownOnce, Zenon DEF P
<1> QED
    BY <1>2, <1>9, Zenon

PlannedFor(plan, items, first) ==
    \E slots \in Nat \ {0} :
        /\ first \in 1..slots /\ items \in Nat \ {0}
        /\ plan.page_count = PageCount(items, first, slots)
        /\ plan.placements = [n \in 1..items |-> Placement(n, first, slots)]

\* What sheet_plan returns for items labels.
LEMMA PlanFacts ==
    ASSUME NEW labels, NEW items \in Nat, DOMAIN labels = 1..items, Len(labels) = items,
           items = 0 => labels = <<>>,
           NEW d \in Definitions, NEW first \in Nat \ {0}, NEW dpi, sheet_plan(labels, d, first, dpi).ok
    PROVE  PlannedFor(sheet_plan(labels, d, first, dpi).value, items, first)
<1> DEFINE plan == sheet_plan(labels, d, first, dpi)
           layout == normalize_layout(d).value
           slots == Len(layout.slots)
<1>1. \A e : ~Err(e).ok
    BY DEF Err
<1>2. /\ normalize_layout(d).ok /\ labels # <<>> /\ ~(first > slots)
      /\ plan = Ok([page_count |-> PageCount(Len(labels), first, slots), layout |-> layout,
                    placements |-> [n \in DOMAIN labels |-> Placement(n, first, slots)]])
    BY <1>1, Zenon DEF sheet_plan
<1> HIDE DEF plan, layout
<1>3. /\ plan.value.page_count = PageCount(Len(labels), first, slots)
      /\ plan.value.placements = [n \in DOMAIN labels |-> Placement(n, first, slots)]
  <2> DEFINE count == PageCount(Len(labels), first, slots)
             placements == [n \in DOMAIN labels |-> Placement(n, first, slots)]
  <2> HIDE DEF count, placements, slots
  <2>1. \A r : Ok(r).value = r
      BY Zenon DEF Ok
  <2>2. plan.value = [page_count |-> count, layout |-> layout, placements |-> placements]
      BY <1>2, <2>1, Zenon DEF count, placements
  <2>3. plan.value.page_count = count /\ plan.value.placements = placements
      BY <2>2
  <2> QED
      BY <2>3, Zenon DEF count, placements
<1>4. slots \in Nat
  <2>1. layout \in SheetLayout
      BY <1>2, NormalIsSound, Zenon DEF Sound, layout
  <2>2. layout.slots \in Seq(SheetSlot)
      BY <2>1 DEF SheetLayout
  <2> QED
      BY <2>2
<1> HIDE DEF slots
<1>5. slots \in Nat \ {0} /\ first \in 1..slots /\ items \in Nat \ {0}
    BY <1>2, <1>4
<1> QED
    BY <1>3, <1>5, Zenon DEF plan, PlannedFor

LEMMA SharedOut ==
    ASSUME NEW n \in Nat, NEW z \in Nat \ {0}
    PROVE  (n + z - 1) \div z \in Nat
OBVIOUS

IsListed(documents) == \E m \in Nat : DOMAIN documents = 1..m

\* The pages of a batch are numbered.
LEMMA BatchIsListed ==
    ASSUME NEW t, NEW n \in Nat, NEW records, DOMAIN records = 1..n, Len(records) = n,
           NEW zones \in Seq(Seq(STRING)), materialize_zone_batch(t, records, zones).ok
    PROVE  IsListed(materialize_zone_batch(t, records, zones).value)
<1> DEFINE batch == materialize_zone_batch(t, records, zones)
           plan == plan_zone_batch(t, Len(records), zones)
           filled == [r \in DOMAIN records |-> materialize_unchecked(t, records[r])]
           failed == {r \in DOMAIN records : ~filled[r].ok}
           empty == [t EXCEPT !.elements = <<>>]
           Next1(f, k) == [f[k - 1] EXCEPT ![plan.value.placements[k].page] =
                              PlaceRecord(@, filled[plan.value.placements[k].record].value, plan.value.placements[k])]
           Step(g) == [k \in 0..Len(records) |-> IF k = 0 THEN [p \in 1..plan.value.page_count |-> empty] ELSE Next1(g, k)]
           f == CHOOSE g : g = Step(g)
<1>2. \A e : ~Err(e).ok
    BY DEF Err
<1>3. \A v : Ok(v).value = v
    BY Zenon DEF Ok
<1>4. batch.ok
    BY Zenon
<1>1. \/ batch = Ok(<<>>)
      \/ failed # {} /\ batch = filled[CHOOSE r \in failed : \A q \in failed : r <= q]
      \/ plan.ok /\ batch = Ok(f[Len(records)])
  <2> DEFINE large1 == Len(t.elements) * Len(zones) > MaxElements
             large2 == Len(t.elements) * plan.value.page_count > MaxOutputBytes
             large3 == Len(t.elements) * Len(records) > MaxOutputBytes
             none == plan.value.page_count = 0
             bad == filled[CHOOSE r \in failed : \A q \in failed : r <= q]
             good == f[Len(records)]
             broken == failed # {}
  <2>1. batch = CASE ~plan.ok -> plan
                  [] none -> Ok(<<>>)
                  [] large1 -> Err("limit")
                  [] large2 -> Err("limit")
                  [] broken -> bad
                  [] large3 -> Err("limit")
                  [] OTHER -> Ok(good)
      BY Zenon DEF materialize_zone_batch
  <2> HIDE DEF batch, plan, large1, large2, large3, bad, good, none, broken
  <2>2. batch = Ok(<<>>) \/ (broken /\ batch = bad) \/ (plan.ok /\ batch = Ok(good))
      BY <1>2, <1>4, <2>1, SMT
  <2> QED
      BY <2>2, Zenon DEF good, bad, broken
<1>5. CASE failed # {} /\ batch = filled[CHOOSE r \in failed : \A q \in failed : r <= q]
  <2>1. failed \subseteq Nat
      BY SMT
  <2>2. \E r \in failed : \A q \in failed : r <= q
      BY <1>5, <2>1, NatMin, Zenon
  <2> QED
      BY <1>4, <1>5, <2>2, Zenon
<1>6. CASE batch = Ok(<<>>)
  <2>1. DOMAIN <<>> = 1..0 /\ 0 \in Nat
      OBVIOUS
  <2> QED
      BY <1>3, <1>6, <2>1, Zenon DEF IsListed
<1>7. CASE plan.ok /\ batch = Ok(f[Len(records)])
  <2> HIDE DEF filled
  <2>1. /\ \A k \in 1..n : k \in 0..n /\ k # 0 /\ k - 1 \in 0..n
        /\ 0 \in 0..n /\ n \in 0..n /\ \A k \in 0..n : k = 0 \/ k \in 1..n
      OBVIOUS
  <2>2. plan.value.page_count \in Nat
    <3>0. /\ zones # <<>>
          /\ \E placements : plan =
                Ok([page_count |-> IF Len(records) = 0 THEN 0 ELSE (Len(records) + Len(zones) - 1) \div Len(zones),
                    placements |-> placements])
        BY <1>2, <1>7, Zenon DEF plan_zone_batch
    <3> HIDE DEF plan
    <3>1. plan.value.page_count = IF n = 0 THEN 0 ELSE (n + Len(zones) - 1) \div Len(zones)
        BY <1>3, <3>0, SMT
    <3>2. Len(zones) \in Nat \ {0}
        BY <3>0
    <3>3. \A z \in Nat \ {0} : (n + z - 1) \div z \in Nat
        BY SharedOut, Zenon
    <3> QED
        BY <3>1, <3>2, <3>3, Zenon
  <2> DEFINE base == [p \in 1..plan.value.page_count |-> empty]
             Upto(g, m) == g[0] = base /\ \A k \in 1..m : g[k] = Next1(g, k)
             T == {m \in 0..n : \E g : Upto(g, m)}
  <2>3. 0 \in T
    <3> DEFINE g == [k \in {0} |-> base]
    <3>1. g[0] = base
        BY Zenon
    <3>2. \A k \in 1..0 : FALSE
        OBVIOUS
    <3>3. Upto(g, 0)
        BY <3>1, <3>2, Zenon
    <3> QED
        BY <2>1, <3>3, Zenon
  <2>4. ASSUME NEW m \in 1..n, m - 1 \in T PROVE m \in T
    <3>1. PICK g : Upto(g, m - 1)
        BY <2>4, Zenon
    <3> DEFINE h == [k \in 0..m |-> IF k = m THEN Next1(g, m) ELSE g[k]]
    <3>2. /\ m \in 0..m /\ 0 \in 0..m /\ 0 # m
          /\ \A k \in 1..(m - 1) : k \in 0..m /\ k # m /\ k - 1 \in 0..m /\ k - 1 # m
          /\ m - 1 \in 0..m /\ m - 1 # m
          /\ \A k \in 1..m : k \in 1..(m - 1) \/ k = m
        OBVIOUS
    <3>3. h[m] = Next1(g, m) /\ h[0] = g[0] /\ h[m - 1] = g[m - 1] /\ \A k \in 1..(m - 1) : h[k] = g[k] /\ h[k - 1] = g[k - 1]
        BY <3>2, Zenon
    <3> HIDE DEF h, plan, base
    <3>4. \A k \in 1..m : h[k] = Next1(h, k)
        BY <3>1, <3>2, <3>3, Zenon
    <3>5. Upto(h, m)
        BY <3>1, <3>3, <3>4, Zenon
    <3> QED
        BY <2>1, <3>5, Zenon
  <2> HIDE DEF T
  <2>5. \A m \in 0..n : m \in T
      BY <2>3, <2>4, UpTo, Zenon
  <2>6. PICK g : Upto(g, n)
      BY <2>1, <2>5, Zenon DEF T
  <2> DEFINE h == [k \in 0..n |-> g[k]]
  <2> HIDE DEF plan
  <2>7. h = Step(h)
    <3>1. \A k \in 0..n : h[k] = g[k]
        BY Zenon
    <3> HIDE DEF h
    <3>2. ASSUME NEW k \in 0..n
          PROVE  g[k] = IF k = 0 THEN base ELSE Next1(h, k)
        BY <2>1, <2>6, <3>1, Zenon
    <3> QED
        BY <3>2, Zenon DEF h
  <2>8. f = Step(f)
      BY <2>7, Zenon
  <2> HIDE DEF f
  <2>9. f[0] = base /\ \A k \in 1..n : f[k] = Next1(f, k)
      BY <2>1, <2>8, Zenon
  <2> DEFINE pages1 == 1..plan.value.page_count
             D == {k \in 0..n : DOMAIN f[k] = pages1}
  <2>10. 0 \in D
      BY <2>1, <2>9, Zenon
  <2>11. \A k \in 1..n : k - 1 \in D => k \in D
    <3>1. \A k \in 1..n : DOMAIN f[k] = DOMAIN f[k - 1]
        BY <2>9, Zenon
    <3> QED
        BY <2>1, <3>1, Zenon
  <2> HIDE DEF D
  <2>12. \A k \in 0..n : k \in D
      BY <2>10, <2>11, UpTo, Zenon
  <2>13. DOMAIN f[n] = 1..plan.value.page_count
      BY <2>1, <2>12, Zenon DEF D
  <2> QED
      BY <1>3, <1>7, <2>2, <2>13, Zenon DEF IsListed
<1> QED
    BY <1>1, <1>2, <1>4, <1>5, <1>6, <1>7, Zenon

\* The pages are numbered, and sheets that were imposed show each of them once.
ImposeInv == (pages.ok => IsListed(pages.value)) /\ ItemsImposedOnce

LEMMA LabelsAreListed ==
    ASSUME NEW n \in Nat, NEW c
    PROVE  LET labels == [k \in 1..n |-> c]
           IN  DOMAIN labels = 1..n /\ Len(labels) = n /\ (n = 0 => labels = <<>>)
OBVIOUS

\* What a call that imposes n pages returns.
LEMMA SheetsShow ==
    ASSUME NEW n \in Nat, NEW c, NEW d \in Definitions, NEW first \in 1..MaxSheetSlots, NEW dpi, NEW marks,
           LET plan == sheet_plan([k \in 1..n |-> c], d, first, dpi) IN plan.ok /\ impose(plan.value, dpi, marks).ok
    PROVE  LET plan == sheet_plan([k \in 1..n |-> c], d, first, dpi)
           IN  ImposedOnce(impose(plan.value, dpi, marks).value, plan.value.placements, n)
<1> DEFINE labels == [k \in 1..n |-> c]
           plan == sheet_plan(labels, d, first, dpi)
<1>1. DOMAIN labels = 1..n /\ Len(labels) = n /\ (n = 0 => labels = <<>>)
    BY LabelsAreListed, Zenon
<1>2. first \in Nat \ {0}
    BY SheetAssumption
<1>3. plan.ok /\ impose(plan.value, dpi, marks).ok
    BY Zenon
<1> HIDE DEF labels
<1>6. PlannedFor(plan.value, n, first)
    BY <1>1, <1>2, <1>3, PlanFacts, Zenon
<1>4. PICK slots \in Nat \ {0} :
          /\ first \in 1..slots /\ n \in Nat \ {0}
          /\ plan.value.page_count = PageCount(n, first, slots)
          /\ plan.value.placements = [k \in 1..n |-> Placement(k, first, slots)]
    BY <1>6, Zenon DEF PlannedFor
<1> HIDE DEF plan
<1>5. ImposedOnce(impose(plan.value, dpi, marks).value, plan.value.placements, n)
    BY <1>3, <1>4, ImposeShows, Zenon
<1> QED
    BY <1>5, Zenon DEF plan, labels

\* Every page is imposed once and in order, no sheet is empty, and no slot is used twice, for
\* every sheet definition, first slot and number of pages.
THEOREM SheetsShowEveryPageOnce == Spec => []ItemsImposedOnce
<1>1. Init => ImposeInv
  <2>1. ASSUME Init PROVE DOMAIN pages.value = 1..0 /\ 0 \in Nat
      BY <2>1, SMTT(30) DEF Init, Ok
  <2>2. Init => ItemsImposedOnce
      BY Zenon DEF Init, ItemsImposedOnce
  <2> QED
      BY <2>1, <2>2, Zenon DEF ImposeInv, IsListed
<1>2. ImposeInv /\ [Next]_vars => ImposeInv'
  <2> SUFFICES ASSUME ImposeInv, [Next]_vars PROVE ImposeInv'
      OBVIOUS
  <2>1. CASE FillRecord
    <3>1. PICK document : pages' = IF document.ok THEN Ok(<<document.value>>) ELSE document
        BY <2>1, Zenon DEF FillRecord
    <3>2. DOMAIN <<document.value>> = 1..1 /\ 1 \in Nat
        OBVIOUS
    <3>3. \A v : Ok(v).value = v
        BY Zenon DEF Ok
    <3>4. pages'.ok => IsListed(pages'.value)
        BY <3>1, <3>2, <3>3, ZenonT(40) DEF IsListed
    <3>5. ItemsImposedOnce'
        BY <2>1, Zenon DEF FillRecord, ItemsImposedOnce
    <3> QED
        BY <3>4, <3>5, Zenon DEF ImposeInv
  <2>2. CASE FillZones
    <3>1. PICK t \in Templates, n \in 0..MaxRecords, zones \in ZoneChoices, unfilled \in 0..1 :
              pages' = materialize_zone_batch(t, [r \in 1..n |-> [number |-> r, filled |-> r # unfilled]], zones)
        BY <2>2, Zenon DEF FillZones
    <3> DEFINE records == [r \in 1..n |-> [number |-> r, filled |-> r # unfilled]]
    <3>2. n \in Nat /\ zones \in Seq(Seq(STRING))
        BY BatchAssumption
    <3>3. DOMAIN records = 1..n /\ Len(records) = n
      <4>1. \A r \in 1..n : records[r] \in [number : Nat, filled : BOOLEAN]
          OBVIOUS
      <4> QED
          BY <3>2, <4>1
    <3> HIDE DEF records
    <3>4. pages' = materialize_zone_batch(t, records, zones)
        BY <3>1, Zenon DEF records
    <3>5. materialize_zone_batch(t, records, zones).ok =>
              IsListed(materialize_zone_batch(t, records, zones).value)
        BY <3>2, <3>3, BatchIsListed, Zenon
    <3>7. pages'.ok => IsListed(pages'.value)
        BY <3>4, <3>5, ZenonT(40)
    <3>6. ItemsImposedOnce'
        BY <2>2, Zenon DEF FillZones, ItemsImposedOnce
    <3> QED
        BY <3>6, <3>7, Zenon DEF ImposeInv
  <2>3. CASE ImposeSheets
    <3>1. PICK d \in Definitions, dpi \in Resolutions, first \in 1..MaxSheetSlots, marks \in BOOLEAN :
              LET t == request.template
                  labels == [k \in DOMAIN pages.value |-> [w |-> t.width, h |-> t.height]]
                  plan == sheet_plan(labels, d, first, dpi)
              IN  /\ request' = [of |-> "sheet", dpi |-> dpi, first |-> first, items |-> Len(labels),
                                 plan |-> plan]
                  /\ result' = IF plan.ok THEN impose(plan.value, dpi, marks) ELSE plan
        BY <2>3, Zenon DEF ImposeSheets
    <3>2. pages.ok /\ pages' = pages
        BY <2>3, Zenon DEF ImposeSheets
    <3>3. PICK n \in Nat : DOMAIN pages.value = 1..n
        BY <3>2, Zenon DEF ImposeInv, IsListed
    <3> DEFINE c == [w |-> request.template.width, h |-> request.template.height]
               labels == [k \in 1..n |-> c]
               plan == sheet_plan(labels, d, first, dpi)
    <3>4. /\ request' = [of |-> "sheet", dpi |-> dpi, first |-> first, items |-> Len(labels), plan |-> plan]
          /\ result' = IF plan.ok THEN impose(plan.value, dpi, marks) ELSE plan
        BY <3>1, <3>3, Zenon
    <3>5. Len(labels) = n
        BY LabelsAreListed, Zenon
    <3> HIDE DEF plan, c
    <3>6. request'.items = n /\ request'.plan = plan
      <4> HIDE DEF labels
      <4> QED
          BY <3>4, <3>5
    <3>7. result'.ok => ImposedOnce(result'.value, plan.value.placements, n)
        BY <3>4, SheetsShow, Zenon DEF plan
    <3>8. stage' = "imposed" /\ result'.ok =>
              ImposedOnce(result'.value, request'.plan.value.placements, request'.items)
        BY <3>6, <3>7, Zenon
    <3>9. ItemsImposedOnce'
        BY <3>8, Zenon DEF ItemsImposedOnce, ImposedOnce
    <3> QED
        BY <3>2, <3>9, Zenon DEF ImposeInv
  <2>4. CASE /\ UNCHANGED pages
             /\ stage' # "imposed" \/ UNCHANGED <<stage, request, result>>
    <3>1. ItemsImposedOnce'
      <4>1. CASE stage' # "imposed"
          BY <4>1, Zenon DEF ItemsImposedOnce
      <4>2. CASE UNCHANGED <<stage, request, result>>
        <5>1. stage' = stage /\ request' = request /\ result' = result
            BY <4>2
        <5>2. stage = "imposed" /\ result.ok =>
                  ImposedOnce(result.value, request.plan.value.placements, request.items)
            BY Zenon DEF ImposeInv, ItemsImposedOnce, ImposedOnce
        <5>3. (stage' = "imposed" /\ result'.ok =>
                  ImposedOnce(result'.value, request'.plan.value.placements, request'.items)) => ItemsImposedOnce'
            BY Zenon DEF ItemsImposedOnce, ImposedOnce
        <5> QED
            BY <5>1, <5>2, <5>3, Zenon
      <4> QED
          BY <2>4, <4>1, <4>2, Zenon
    <3> QED
        BY <2>4, <3>1, Zenon DEF ImposeInv
  <2>5. CASE PlanBatch
      BY <2>4, <2>5 DEF PlanBatch
  <2>6. CASE PlanSingle
      BY <2>4, <2>6 DEF PlanSingle
  <2>7. CASE SendLine
      BY <2>4, <2>7 DEF SendLine
  <2>8. CASE PackByte
      BY <2>4, <2>8 DEF PackByte
  <2>9. CASE PackEnds
      BY <2>4, <2>9 DEF PackEnds
  <2>10. CASE PrinterPrints
      BY <2>4, <2>10 DEF PrinterPrints
  <2>11. CASE UNCHANGED vars
      BY <2>4, <2>11 DEF vars
  <2> QED
      BY <2>1, <2>2, <2>3, <2>5, <2>6, <2>7, <2>8, <2>9, <2>10, <2>11, Zenon DEF Next
<1>3. ImposeInv => ItemsImposedOnce
    BY DEF ImposeInv
<1> QED
    BY <1>1, <1>2, <1>3, PTL DEF Spec
=============================================================================
