------------------------------ MODULE MCSession ------------------------------
(* The command lines and scripts of Session's run. *)
EXTENDS Session

Do(f, op, v) == [frame |-> f, op |-> op, val |-> v]
Hold(f, m)   == [frame |-> f, mask |-> m]

Headless2 == [rom |-> TRUE, routed |-> FALSE, route |-> << >>, press |-> << >>, frames |-> 2,
              dump |-> 0, window |-> FALSE, sound |-> TRUE, report |-> TRUE]

\* Two commands on each of frames 0 and 1, and the end of the route on frame 2.
Route == << Do(0, "pad", 2), Do(0, "write", 1), Do(1, "expect", 1),
            Do(1, "capture", 0), Do(1, "pad", 3), Do(2, "or", 1), Do(2, "pad", 1) >>

\* Two directives for frame 1, in either order of masks, and a release.
Presses == << Hold(1, 2), Hold(2, 0), Hold(0, 1), Hold(1, 3) >>

MCOptions ==
  { Headless2,
    [Headless2 EXCEPT !.rom = FALSE],
    [Headless2 EXCEPT !.press = Presses, !.frames = 3, !.dump = 1],
    [Headless2 EXCEPT !.routed = TRUE, !.route = Route],
    [Headless2 EXCEPT !.routed = TRUE, !.route = Route, !.frames = 1],
    [Headless2 EXCEPT !.routed = TRUE, !.route = Route, !.frames = Unset, !.sound = FALSE],
    [Headless2 EXCEPT !.routed = TRUE, !.route = Route, !.press = Presses],
    [Headless2 EXCEPT !.routed = TRUE, !.route = << Do(1, "pad", 1), Do(0, "pad", 0) >>],
    [Headless2 EXCEPT !.window = TRUE, !.frames = Unset],
    [Headless2 EXCEPT !.window = TRUE, !.routed = TRUE, !.route = Route] }
=============================================================================
