----------------------------- MODULE MCExecutor -----------------------------
(* Small plans that exercise every arm of the executor. *)
EXTENDS Executor

Blank == [kind |-> "JobBoundary", len |-> 0, chunk |-> 0, atomic |-> FALSE, timeout |-> 0,
          idle |-> 0, fallback |-> 0, max |-> 0, validation |-> "Any"]

Boundary == Blank
Subscribe == [Blank EXCEPT !.kind = "Subscribe"]
Delay == [Blank EXCEPT !.kind = "Delay"]
Command(n, atomic) == [Blank EXCEPT !.kind = "CommandWrite", !.len = n, !.atomic = atomic]
Raster(n, chunk) == [Blank EXCEPT !.kind = "RasterWrite", !.len = n, !.chunk = chunk]
Wait(timeout, fallback, validation) ==
    [Blank EXCEPT !.kind = "WaitForResponse", !.timeout = timeout, !.fallback = fallback,
                  !.validation = validation]
Collect(timeout, max, validation) ==
    [Blank EXCEPT !.kind = "CollectResponse", !.timeout = timeout, !.idle = 1, !.max = max,
                  !.validation = validation]

\* A job that only writes: subscription, commands with and without a limit,
\* raster data of several chunks, an empty raster and an empty command.
WritePlans == {
    <<Subscribe, Command(2, TRUE), Raster(5, 3), Delay, Command(3, FALSE)>>,
    <<Raster(4, 2), Boundary, Raster(0, 1), Command(0, TRUE), Raster(3, 4)>> }

\* A job that talks with the printer.
ResponsePlans == {
    <<Subscribe, Command(1, TRUE), Wait(1, 0, "Phomemo"), Wait(1, 0, "Any"), Raster(1, 1)>>,
    <<Wait(1, 1, "BrotherStatus32"), Collect(1, 3, "BrotherObjbrnet"), Wait(1, 1, "Any")>>,
    <<Wait(1, 0, "BrotherStatus32"), Collect(1, 2, "Phomemo"), Collect(1, 2, "Any")>> }

\* Plans preflight refuses, each for a reason of its own.
RefusedPlans == {
    <<Command(1, TRUE), Raster(2, 0)>>,
    <<Command(4, TRUE), Raster(2, 0)>>,
    <<Command(1, TRUE), Wait(0, 0, "Any")>>,
    <<Command(1, TRUE), Wait(1, 0, "BrotherWifiScan")>>,
    <<Command(1, TRUE), Collect(0, 1, "Any")>>,
    <<Command(1, TRUE), Collect(1, 0, "Any")>>,
    <<Command(1, TRUE), Collect(1, 3, "Any"), Collect(1, 2, "Any")>>,
    <<Boundary, Boundary, Boundary, Boundary, Boundary, Boundary>> }

MCPlans == WritePlans \union ResponsePlans \union RefusedPlans
MCLimits == 0..3
MCChunks == {[len |-> 0, mark |-> 0], [len |-> 1, mark |-> 0], [len |-> 1, mark |-> 1],
             [len |-> 2, mark |-> 2], [len |-> 3, mark |-> 0]}
=============================================================================
