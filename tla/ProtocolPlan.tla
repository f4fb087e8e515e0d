---------------------------- MODULE ProtocolPlan ----------------------------
(***************************************************************************)
(* Protocol planning: plan_with_limits and plan_batch_with_limits of        *)
(* mb-printer-core/src/protocol.rs, which turn rasters and options into the *)
(* actions an execution sends, and the PackBits lines of Brother rasters.   *)
(*                                                                         *)
(* A raster is the label it shows, its rows and its width in bytes; its     *)
(* pixels are kept only where they are compressed.  A command is its name   *)
(* and the one argument that tells two of its uses apart.                   *)
(***************************************************************************)
EXTENDS Integers, Sequences, Vectors, ProcessingLimits

CONSTANT
    CommandBytes     \* nominal size of a command, its name included

Start == [action |-> "JobBoundary", kind |-> "Start"]
End == [action |-> "JobBoundary", kind |-> "End"]
Subscribe == [action |-> "SubscribeNotifications"]
delay == [action |-> "Delay"]
cmd(name, arg) == [action |-> "CommandWrite", name |-> name, arg |-> arg]
WaitFor(timeout, validation) ==
    [action |-> "WaitForResponse", timeout |-> timeout, validation |-> validation]

chunk_size(protocol) ==
    CASE protocol = "Brother" -> 1024 [] protocol = "M04" -> 256
      [] protocol = "Tspl" -> 512 [] OTHER -> 128

\* A Brother line has three bytes in front of it; it counts as if it were not compressed.
raster_paced(protocol, r) ==
    [action |-> "RasterWrite", label |-> r.label, rows |-> r.rows,
     bytes |-> r.rows * (r.width + IF protocol = "Brother" THEN 3 ELSE 0),
     chunk |-> chunk_size(protocol)]

\* Commands each followed by a delay.
Paced(names) == Flattened([i \in DOMAIN names |-> <<cmd(names[i], 0), delay>>])

-----------------------------------------------------------------------------
(* Phomemo *)

\* Mutant of header: one row too few is announced.
HeaderShort(name, r) == cmd(name, (r.rows - 1) % 65536)

\* The height of a raster is sent in two bytes.
header(name, r) == cmd(name, r.rows % 65536)

\* Continuous media is fed by blank rows, which are part of the raster.
Padded(r, o) ==
    IF o.continuous /\ o.feed > 0 THEN [r EXCEPT !.rows = @ + 56 + o.feed] ELSE r

round_div(a, b) == (a + b \div 2) \div b

\* max(1), the division, max(1).
FeedSteps(feed) ==
    LET steps == round_div(IF feed = 0 THEN 1 ELSE feed, 16) IN IF steps = 0 THEN 1 ELSE steps

Repeated(s, n) == [i \in 1..n * Len(s) |-> s[((i - 1) % Len(s)) + 1]]

PhomemoBody(protocol, r, o) ==
    LET raster(name, x) == <<header(name, x), raster_paced(protocol, x), delay>>
        combined == "ESC @ init + GS v 0 raster header"
    IN  CASE protocol = "MSeries" ->
                 Paced(<<"ESC @ init", "ESC 7 heat", "GS | density">>)
                 \o raster("GS v 0 raster header", r) \o Paced(<<"ESC J feed">>)
          [] protocol = "M02" ->
                 Paced(<<"M02 prefix", "ESC @ init", "ESC 7 heat">>)
                 \o raster("GS v 0 raster header", r) \o Paced(<<"ESC J feed">>)
          [] protocol = "M04" ->
                 Paced(<<"M04 density", "M04 heat", "M04 init", "M04 compression">>)
                 \o raster("GS v 0 raster header", r)
                 \o Repeated(Paced(<<"M04 feed">>), FeedSteps(o.feed)) \o <<delay>>
          [] protocol = "M110" ->
                 Paced(<<"M110 speed", "M110 density", "media type">>)
                 \o raster("GS v 0 raster header", r) \o Paced(<<"M110 footer">>)
          [] protocol = "DSeries" ->
                 Paced(<<"ESC 7 heat", "media type">>)
                 \o raster(combined, Padded(r, o)) \o <<cmd("ESC d 0 print + gap detect", 0)>>
          [] protocol = "P12" ->
                 <<Subscribe>>
                 \o Repeated(<<cmd("P12 init packet", 0), WaitFor(500, "Any")>>, 6)
                 \o raster(combined, r)
                 \o <<cmd("P12 feed", 0), delay, cmd("P12 feed", 0)>>

-----------------------------------------------------------------------------
(* TSPL: the printer repeats the bitmap. *)

\* Sixteen bits read as a signed number.
as_i16(n) == IF n < 32768 THEN n ELSE n - 65536

\* A size in tenths of a millimetre, of at most 16 bits, is written as signed numbers.
fmt_mm(name, size) == cmd(name, [i \in DOMAIN size |-> as_i16(size[i])])

\* The options hold the size of the label; the commands are the size, the gap, the offset, the
\* density, the speed, the direction and the clearing of the image, then the bitmap.
TsplBody(r, o) ==
    <<fmt_mm("TSPL SIZE", o.size), delay>> \o Repeated(<<cmd("TSPL", "setup"), delay>>, 6)
    \o <<cmd("BITMAP header", r.rows), raster_paced("Tspl", r), cmd("bitmap terminator", 0),
         delay, cmd("TSPL PRINT", o.copies), delay, cmd("TSPL", "END")>>

-----------------------------------------------------------------------------
(* Brother *)

Setup == <<"switch to raster mode", "invalidate", "ESC @ init", "switch to raster mode",
           "ESC i S status request">>

BrotherBody(r, o, compression) ==
    [i \in DOMAIN Setup |-> cmd(Setup[i], 0)]
    \o <<WaitFor(3000, "BrotherStatus32"), cmd("ESC i z print information", r.rows)>>
    \o (IF o.cut THEN <<cmd("ESC i M autocut", 64), cmd("ESC i A cut every", o.cut_every)>> ELSE <<>>)
    \o <<cmd("ESC i K expanded mode", IF o.cut THEN 8 ELSE 0), cmd("ESC i d margins", 0)>>
    \o (IF o.compress /\ compression THEN <<cmd("M compression", 2)>> ELSE <<>>)
    \o <<raster_paced("Brother", r), cmd("print", 0)>>

\* The rows a Brother printer accepts; a bound of 0 is none.
BrotherRefusal(printer, r, o) ==
    CASE o.media = "none" -> "brother media"
      [] printer.min_rows > 0 /\ o.media = "continuous" /\ r.rows < printer.min_rows -> "minimum rows"
      [] printer.max_rows > 0 /\ r.rows > printer.max_rows -> "maximum rows"
      [] OTHER -> "none"

-----------------------------------------------------------------------------
(* One raster *)

Body(printer, r, o) ==
    (IF printer.flow_control THEN <<Subscribe>> ELSE <<>>)
    \o CASE printer.protocol = "Tspl" -> TsplBody(r, o)
         [] printer.protocol = "Brother" -> BrotherBody(r, o, printer.compression)
         [] OTHER -> PhomemoBody(printer.protocol, r, o)

Refusal(printer, r, o) ==
    CASE o.density \notin 1..8 -> "density"
      [] o.copies = 0 -> "copies"
      [] o.copies > MaxCopies -> "copies limit"
      [] o.cut /\ o.cut_every = 0 -> "cut every"
      [] o.lzo -> "LZO"
      [] printer.protocol = "Brother" -> BrotherRefusal(printer, r, o)
      [] OTHER -> "none"

plan_owned_bytes(actions) ==
    LET of(a) == CASE a.action = "CommandWrite" -> CommandBytes [] a.action = "RasterWrite" -> a.bytes
                   [] OTHER -> 0
        total[n \in 0..Len(actions)] == IF n = 0 THEN 0 ELSE total[n - 1] + of(actions[n])
    IN  total[Len(actions)]

enforce_plan_limits(actions) ==
    IF Len(actions) > MaxPlanActions THEN Err("actions")
    ELSE IF plan_owned_bytes(actions) > MaxPlanBytes THEN Err("owned bytes") ELSE Ok(actions)

\* A printer other than TSPL gets the whole body of the job once for each copy; the
\* limits are compared with the product before anything is copied.
Expanded(body, copies) ==
    IF Len(body) * copies + 2 > MaxPlanActions THEN Err("actions")
    ELSE IF plan_owned_bytes(body) * copies > MaxPlanBytes THEN Err("owned bytes")
    ELSE Ok(<<Start>> \o Repeated(body, copies) \o <<End>>)

plan_inner(printer, r, o) ==
    LET refusal == Refusal(printer, r, o)
        body == Body(printer, r, o)
    IN  IF refusal # "none" THEN Err(refusal)
        ELSE IF printer.protocol # "Tspl" /\ o.copies > 1 THEN Expanded(body, o.copies)
        ELSE Ok(<<Start>> \o body \o <<End>>)

plan_with_limits(printer, r, o) ==
    LET plan == plan_inner(printer, r, o)
    IN  IF plan.ok THEN enforce_plan_limits(plan.value) ELSE plan

-----------------------------------------------------------------------------
(* Several rasters in one Brother job *)

Inner(actions) == SubSeq(actions, 2, Len(actions) - 1)

IsCommand(a, names) == a.action = "CommandWrite" /\ a.name \in names

\* Where the print information of a page is.
Information(body) ==
    CHOOSE i \in DOMAIN body : /\ IsCommand(body[i], {"ESC i z print information"})
                              /\ \A j \in 1..(i - 1) : ~IsCommand(body[j], {"ESC i z print information"})

\* Mutant of LaterPage: every page configures the cutter again.
LaterPageConfigured(body) == SubSeq(body, Information(body), Len(body))

\* A page that is not the first starts at its print information and does not configure
\* the cutter.
LaterPage(body) ==
    Picked(body, {i \in DOMAIN body : /\ i >= Information(body)
                                     /\ ~IsCommand(body[i], {"ESC i M autocut", "ESC i A cut every"})})

plan_batch_with_limits(printer, rasters, o) ==
    LET pages == [i \in DOMAIN rasters |-> plan_inner(printer, rasters[i], o)]
        refused == {i \in DOMAIN pages : ~pages[i].ok}
        body(i) == IF i = 1 THEN Inner(pages[i].value) ELSE LaterPage(Inner(pages[i].value))
    IN  CASE rasters = <<>> -> Err("batch documents")
          [] printer.protocol # "Brother" -> Err("native variable-raster batch")
          [] o.copies # 1 -> Err("batch copies must be expanded")
          [] refused # {} -> pages[CHOOSE i \in refused : \A j \in refused : i <= j]
          [] OTHER -> enforce_plan_limits(
                          <<Start>> \o Flattened([i \in DOMAIN pages |-> body(i)]) \o <<End>>)

-----------------------------------------------------------------------------
(* PackBits *)

NoBits == [result |-> <<>>, literal |-> <<>>, repeat |-> 0, in_repeat |-> FALSE]

flush_literal(s) ==
    IF s.literal = <<>> THEN s
    ELSE [s EXCEPT !.result = @ \o <<Len(s.literal) - 1>> \o s.literal, !.literal = <<>>]

EmitRun(s, byte) == [s EXCEPT !.result = @ \o <<(257 - s.repeat) % 256, byte>>]

\* Mutant of PackStep: a run is not split.
PackStepUnsplit(s, byte, same) ==
    IF same
    THEN IF ~s.in_repeat THEN [flush_literal(s) EXCEPT !.in_repeat = TRUE, !.repeat = 1]
         ELSE [s EXCEPT !.repeat = @ + 1]
    ELSE IF s.in_repeat
    THEN [EmitRun([s EXCEPT !.repeat = @ + 1], byte) EXCEPT !.in_repeat = FALSE, !.repeat = 0]
    ELSE [(IF Len(s.literal) = 127 THEN flush_literal(s) ELSE s) EXCEPT !.literal = Append(@, byte)]

\* One turn of the loop at a byte that is, or is not, followed by the same byte.
PackStep(s, byte, same) ==
    IF same
    THEN IF ~s.in_repeat THEN [flush_literal(s) EXCEPT !.in_repeat = TRUE, !.repeat = 1]
         ELSE IF s.repeat = 127 THEN [EmitRun(s, byte) EXCEPT !.repeat = 1]
         ELSE [s EXCEPT !.repeat = @ + 1]
    ELSE IF s.in_repeat
    THEN [EmitRun([s EXCEPT !.repeat = @ + 1], byte) EXCEPT !.in_repeat = FALSE, !.repeat = 0]
    ELSE [(IF Len(s.literal) = 127 THEN flush_literal(s) ELSE s) EXCEPT !.literal = Append(@, byte)]

\* What packbits does with the last byte, after the loop; a single byte is a literal.
PackLast(s, byte) ==
    IF s.in_repeat THEN EmitRun([s EXCEPT !.repeat = @ + 1], byte).result
    ELSE flush_literal([s EXCEPT !.literal = Append(@, byte)]).result

\* A raster line: its bytes, compressed or not, behind their number in one byte.  The
\* mirroring of the bits, which packbits does not see, is left out.
brother_raster_line(bytes) == <<103, 0, Len(bytes) % 256>> \o bytes

\* How a printer expands a compressed line, byte by byte: a count comes first, of the literals
\* that follow or of the repetitions of one byte.
Expand(s, byte) ==
    IF s.repeats > 0
    THEN [out |-> s.out \o [k \in 1..s.repeats |-> byte], literals |-> 0, repeats |-> 0]
    ELSE IF s.literals > 0
    THEN [out |-> Append(s.out, byte), literals |-> s.literals - 1, repeats |-> 0]
    ELSE IF byte < 128 THEN [s EXCEPT !.literals = byte + 1]
    ELSE IF byte > 128 THEN [s EXCEPT !.repeats = 257 - byte] ELSE s

\* What it has expanded to, and what is still to come.
Unpacked(bytes) ==
    LET upto[n \in 0..Len(bytes)] ==
            IF n = 0 THEN [out |-> <<>>, literals |-> 0, repeats |-> 0]
            ELSE Expand(upto[n - 1], bytes[n])
    IN  upto[Len(bytes)]
=============================================================================
