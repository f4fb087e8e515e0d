---------------------------- MODULE MCLabelJobs ----------------------------
(* Small documents, printers, layouts and raster lines for LabelJobs. *)
EXTENDS LabelJobs

MCMaxElements == 8
MCMaxSheetItems == 3
MCMaxSheetSlots == 6
MCMaxPages == 3
MCMaxOutputBytes == 100
MCMaxCanvasPixels == 1000000
MCMaxTotalPixels == 2000000
MCMaxCopies == 6
MCMaxPlanActions == 70
MCMaxPlanBytes == 40000000
MCCommandBytes == 30
MCMaxRecords == 4
MCMaxRequestDocuments == 2

-----------------------------------------------------------------------------
Zone(id, clone) == [id |-> id, clone_of |-> clone, sound |-> TRUE]
L == <<"L">>
R == <<"R">>
M == <<"M">>

Text(id, group, z) ==
    [id |-> id, kind |-> "text", group |-> group, children |-> <<>>, zone |-> None, z |-> z,
     shows |-> "field", visible |-> TRUE, sound |-> TRUE]
Image(id, z) == [Text(id, None, z) EXCEPT !.kind = "image", !.shows = "picture"]
Group(id, group, children, visible) ==
    [Text(id, group, 0) EXCEPT !.kind = "group", !.shows = "nothing", !.children = children,
                               !.visible = visible]

\* Elements on media of three zones, the last of them a clone of the first.
Page(elements) ==
    [elements |-> elements, zones |-> <<Zone(L, None), Zone(R, None), Zone(M, L)>>,
     resources |-> {<<"img">>}, inverted |-> {}, sound |-> TRUE,
     continuous |-> FALSE, length_ok |-> TRUE, rows |-> 306, width |-> 30000, height |-> 12000]

a == <<"a">>
b == <<"b">>
g == <<"g">>
h == <<"h">>

Plain == Page(<<Image(a, 0), Text(b, None, 1)>>)

Grouped == Page(<<Group(g, None, <<h, b>>, TRUE), Group(h, g, <<a>>, FALSE), Text(a, h, 0), Text(b, g, 1)>>)

MCTemplates ==
    {Plain, Grouped,
     [Plain EXCEPT !.continuous = TRUE],
     [Plain EXCEPT !.continuous = TRUE, !.rows = 300],
     [Plain EXCEPT !.continuous = TRUE, !.length_ok = FALSE],
     Page(<<Text(b, None, 1), Image(a, 0)>>),                \* not in paint order
     [Plain EXCEPT !.inverted = {a}],
     [Plain EXCEPT !.height = 255500],                       \* too long for a Brother printer
     [Plain EXCEPT !.zones[1].clone_of = M],                 \* a cycle of clones
     [Plain EXCEPT !.elements[1].id = <<"img">>],            \* the id of a resource
     Page(<<Group(g, None, <<a>>, TRUE), Text(a, None, 0)>>),  \* a child without its group
     Page(<<Group(g, h, <<h>>, TRUE), Group(h, g, <<g>>, TRUE)>>)}  \* a cycle of groups

MCZoneChoices == {<<>>, <<L>>, <<R, L>>, <<L, M>>, <<R, M>>, <<R, L, M>>, <<L, L>>, <<<<"none">>>>}

-----------------------------------------------------------------------------
Printer(protocol, width) ==
    [protocol |-> protocol, flow_control |-> protocol = "M110", compression |-> TRUE,
     min_rows |-> 0, max_rows |-> 0, width |-> width,
     continuous_media |-> protocol = "DSeries", cut_modes |-> {"none"}, chained |-> FALSE, max_feed |-> 0]

QL == [Printer("Brother", 162) EXCEPT !.min_rows = 301, !.max_rows = 35434, !.continuous_media = TRUE,
                                      !.cut_modes = {"after-each", "after-job", "none"}, !.chained = TRUE]

MCPrinters ==
    {QL} \cup {Printer(p, 48) : p \in {"MSeries", "M02", "M04", "M110", "DSeries", "P12", "Tspl"}}

\* Documents of 203 dots per inch: around the least rows of continuous media, 255 millimetres,
\* 15 bits of tenths of a millimetre, the most rows, 16 bits of tenths and 16 bits of rows,
\* with and without the rows of a feed; and two wide ones.
Tall(rows) == [rows |-> rows, width |-> 48000, height |-> (rows * 25400) \div 203]
MCSingleDocuments ==
    {Tall(n) : n \in {300, 301, 2041, 2042, 26187, 26189, 35434, 35435, 52376, 52377,
                      65447, 65448, 65535, 65536}}
    \cup {[Tall(301) EXCEPT !.width = w] : w \in {255500, 3276750}}

\* Three copies of two labels are the most the cut count of this instance can hold.
MCMaxCutEvery == 6
MCCopies == {0, 1, 3, 4, 7}

-----------------------------------------------------------------------------
Slot(x, y) == [x |-> x, y |-> y, w |-> 30000, h |-> 12000]
Explicit(slots, width, height) ==
    [kind |-> "explicit", layout |-> [width |-> width, height |-> height, slots |-> slots]]
Grid(order, gap_x, gap_y, margin) ==
    [kind |-> "grid",
     grid |-> [rows |-> 2, columns |-> 2, fill_order |-> order, label_width |-> 30000,
               label_height |-> 12000, margin_left |-> margin, margin_top |-> margin,
               gap_x |-> gap_x, gap_y |-> gap_y, paper_width |-> 70000, paper_height |-> 40000]]

MCDefinitions ==
    {Grid("row-major", 0, 0, 55), Grid("column-major", 3000, 2500, 1000),
     Grid("row-major", 7000, 17000, -1), Grid("row-major", 20000, 0, 0),
     Explicit(<<Slot(0, 0)>>, 30000, 12000),
     Explicit(<<Slot(100, 40)>>, 30100, 12040),           \* up to the edges of the paper
     Explicit(<<Slot(0, 0), Slot(29999, 0)>>, 70000, 12000),
     Explicit(<<Slot(0, 0), Slot(20000, 6000)>>, 70000, 20000),
     Explicit(<<Slot(0, 0), Slot(30001, 0), [Slot(10, 12001) EXCEPT !.w = 20000]>>, 70000, 40000),
     Explicit(<<>>, 30000, 12000), Explicit(<<Slot(0, 0)>>, 0, 12000)}

MCResolutions == {50, 203, 300}

-----------------------------------------------------------------------------
\* Rows of up to three runs: of one byte, or of bytes that differ from their neighbours.
Same(byte, n) == [k \in 1..n |-> byte]
Different(n) == [k \in 1..n |-> k % 2]
Runs == {Same(0, n) : n \in {0, 1, 2, 3, 127, 128, 129, 130}}
        \cup {Different(n) : n \in {2, 3, 126, 127, 128, 129}}

MCRasterLines == {s \in {x \o y \o Same(1, n) : x, y \in Runs, n \in {0, 1, 2, 31}} : Len(s) \in 1..162}
=============================================================================
