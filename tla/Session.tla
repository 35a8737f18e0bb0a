------------------------------- MODULE Session -------------------------------
(***************************************************************************)
(* A run of the generated program, from main's arguments to its exit        *)
(* status: the guest's cycles, and what happens at every completed frame    *)
(* (frame_completed): scripted input, the commands of a coverage route, the *)
(* frame's sound, the dump, the window, the frame limit.  Any of four of    *)
(* these may end the run with a longjmp, skipping those that follow.        *)
(*                                                                          *)
(* The guest is reduced to the cycles it takes and who runs them, compiled  *)
(* code or the interpreter; of its memory one cell of WRAM is kept.         *)
(***************************************************************************)
EXTENDS PsgStream, Sequences

CONSTANTS
  Options,    \* the command lines, as main parses them
  Steps,      \* the cycles the guest may take between two calls of advance_vdp
  Hitches,    \* the time the host may lose in a frame, in counts of its clock
  Period,     \* g_period_counts: counts of the host's clock in a frame
  Pads,       \* the masks the player holds
  MaxFrames   \* bound: frames of a run without a limit

FrameCyc == 59736   \* SMS_CYC_PER_FRAME
Chunk    == 2048    \* the sink's buffer in frame_completed

Unset == -1         \* --frames not given

(* A command of a route file and a --press directive.                        *)
Event == [frame : Nat, op : {"write", "or", "pad", "capture", "expect"}, val : Nat]
Press == [frame : Nat, mask : Nat]

Option == [rom : BOOLEAN,            \* the ROM is the one compiled
           routed : BOOLEAN, route : Seq(Event),
           press : Seq(Press),
           frames : Nat \union {Unset},
           dump : Nat,               \* --dump-frame, 0 when not given
           window : BOOLEAN, sound : BOOLEAN, report : BOOLEAN]

ASSUME SessionAssumption ==
  /\ Options \subseteq Option
  /\ Steps \subseteq 1 .. FrameCyc    \* advance_vdp runs at least every line
  /\ Hitches \subseteq Nat
  /\ Period \in Nat \ {0}
  /\ Pads \subseteq Nat
  /\ MaxFrames \in Nat

VARIABLES
  opt,     \* the options of this run
  pc,      \* main, guest, exit, or a stage of frame_completed
  ending,  \* what ended the run: "" while it goes on
  status,  \* main's return value
  limit,   \* g_frame_limit, 0 for none
  frame,   \* g_frame
  elapsed, \* g_elapsed_cyc
  used,    \* history: the cycles [native, interp] that the guest really took
  hyb,     \* g_hybrid_cyc
  route,   \* [next, failed]: next_event and failed of coverage_route.c
  pad,     \* g_pad1
  cell,    \* the WRAM cell the route touches
  psg,     \* the PSG's stream
  sunk,    \* sample frames the sink has taken
  dumped,  \* the frames of which a PNG was dumped
  host     \* the window: g_pad, the clock, g_deadline, the frames presented,
           \* and, as history, the most time a frame has lost

vars == <<opt, pc, ending, status, limit, frame, elapsed, used, hyb, route, pad,
          cell, psg, sunk, dumped, host>>

Stages == {"input", "route", "sound", "dump", "present", "limit"}

IdleHost == [pad |-> 0, now |-> 0, deadline |-> 0, shown |-> 0, worst |-> 0]

Init == /\ opt \in Options
        /\ pc = "main"
        /\ ending = "" /\ status = 0 /\ limit = 0
        /\ frame = 0 /\ elapsed = 0 /\ hyb = 0
        /\ used = [native |-> 0, interp |-> 0]
        /\ route = [next |-> 1, failed |-> FALSE]
        /\ pad = 0 /\ cell = 0
        /\ psg = PsgInit /\ sunk = 0 /\ dumped = {}
        /\ host = IdleHost

Routed    == opt.routed
Automated == Routed \/ opt.press # << >>     \* g_automated_input

-----------------------------------------------------------------------------
(* main, up to the run.                                                     *)

\* coverage_route_load takes a file with commands, in the order of their frames.
Loads(r) == /\ r # << >>
            /\ \A i \in 1 .. Len(r) - 1 : r[i].frame <= r[i + 1].frame

LastFrame == opt.route[Len(opt.route)].frame

\* Mistake: a limit that stops short of the route is accepted.
RefusedLess ==
  IF ~opt.rom THEN 1
  ELSE IF Routed /\ (opt.press # << >> \/ ~Loads(opt.route)) THEN 2
  ELSE 0

\* What main refuses, and the status it returns.
Refused ==
  IF ~opt.rom THEN 1
  ELSE IF Routed /\ (opt.press # << >> \/ ~Loads(opt.route)) THEN 2
  ELSE IF Routed /\ opt.frames # Unset /\ LastFrame > opt.frames THEN 2
  ELSE 0

\* The frame limit: as given, else just past the route, else 600 or none.
Limit == IF opt.frames # Unset THEN opt.frames
         ELSE IF Routed THEN LastFrame + 1
         ELSE IF opt.window THEN 0 ELSE 600

Exit(how, st) == pc' = "exit" /\ ending' = how /\ status' = st

\* main: refuse the arguments, or initialise and run the route's frame 0.
Start ==
  /\ pc = "main"
  /\ UNCHANGED <<opt, frame, elapsed, used, hyb, route, pad, cell, psg, sunk,
                 dumped, host>>
  /\ \/ Refused # 0 /\ Exit("refused", Refused) /\ UNCHANGED limit
     \/ /\ Refused = 0
        /\ pc' = IF Routed THEN "route" ELSE "guest"
        /\ limit' = Limit
        /\ UNCHANGED <<ending, status>>


\* main after the run: 0 if no command failed and the report could be written.
Finish(how) ==
  \E written \in BOOLEAN :
    Exit(how, IF route.failed \/ (opt.report /\ ~written) THEN 1 ELSE 0)

-----------------------------------------------------------------------------
(* The guest.                                                               *)

\* Mistake: an interpreted instruction is accounted for after advance_vdp,
\* which does not return from the frame that ends the run.
AccountsLate(by, n) ==
  hyb' = IF by = "interp" /\ elapsed + n < (frame + 1) * FrameCyc
           THEN hyb + n ELSE hyb

\* hybrid_interpret adds an instruction's cycles before it calls advance_vdp.
Accounts(by, n) == hyb' = IF by = "interp" THEN hyb + n ELSE hyb

\* advance_vdp, from sms_sync or hybrid_interpret: the PSG first, then the lines.
GuestStep(by, n) ==
  /\ pc = "guest"
  /\ limit # 0 \/ frame < MaxFrames
  /\ used' = [used EXCEPT ![by] = @ + n]
  /\ Accounts(by, n)
  /\ elapsed' = elapsed + n
  /\ psg' = IF opt.sound THEN PsgAdvance(psg, n) ELSE psg
  /\ pc' = IF elapsed' >= (frame + 1) * FrameCyc THEN "input" ELSE "guest"
  /\ UNCHANGED <<opt, ending, status, limit, frame, route, pad, cell, sunk,
                 dumped, host>>

\* The guest stores to the cell.
GuestStores ==
  /\ pc = "guest"
  /\ cell' \in {0, 1} \ {cell}
  /\ UNCHANGED <<opt, pc, ending, status, limit, frame, elapsed, used, hyb,
                 route, pad, psg, sunk, dumped, host>>

\* glue_run: the reset routine returned.
GuestReturns ==
  /\ pc = "guest"
  /\ Finish("returned")
  /\ UNCHANGED <<opt, limit, frame, elapsed, used, hyb, route, pad, cell, psg,
                 sunk, dumped, host>>

-----------------------------------------------------------------------------
(* frame_completed, stage by stage.                                         *)

\* Mistake: the first directive in the file wins among those of a frame.
FirstBetter(best, p, f) ==
  IF p.frame <= f /\ (~best.found \/ p.frame > best.frame)
    THEN [found |-> TRUE, frame |-> p.frame, mask |-> p.mask] ELSE best

\* A directive at or under the frame replaces one of no later frame.
Better(best, p, f) ==
  IF p.frame <= f /\ (~best.found \/ p.frame >= best.frame)
    THEN [found |-> TRUE, frame |-> p.frame, mask |-> p.mask] ELSE best

\* What press_provider has found when it has looked at n directives.
Search(f) ==
  LET best[n \in 0 .. Len(opt.press)] ==
        IF n = 0 THEN [found |-> FALSE, frame |-> 0, mask |-> 0]
                 ELSE Better(best[n - 1], opt.press[n], f)
  IN  best

\* press_provider: the latest directive at or under the frame.
PressProvider(f) == Search(f)[Len(opt.press)].mask

ScriptInput ==
  /\ pc = "input"
  /\ frame' = frame + 1
  /\ pad' = IF opt.press # << >> THEN PressProvider(frame + 1) ELSE pad
  /\ pc' = "route"
  /\ UNCHANGED <<opt, ending, status, limit, elapsed, used, hyb, route, cell,
                 psg, sunk, dumped, host>>

\* Mistake: the commands of a frame are executed one frame late.
DueLate == Routed /\ route.next <= Len(opt.route) /\ opt.route[route.next].frame < frame

\* The commands whose frame has come.
Due == Routed /\ route.next <= Len(opt.route) /\ opt.route[route.next].frame <= frame

Command == opt.route[route.next]

\* BIT_OR, on a cell of one bit.
Or(a, b) == IF a = 1 \/ b = 1 THEN 1 ELSE 0

\* coverage_route_frame: the next command; good says whether a capture's files
\* could all be written (glue_capture).
RouteCommand(good) ==
  /\ pc = "route" /\ Due /\ ~route.failed
  /\ good \/ Command.op = "capture"
  /\ cell' = CASE Command.op = "write" -> Command.val
               [] Command.op = "or" -> Or(cell, Command.val)
               [] OTHER -> cell
  /\ pad' = IF Command.op = "pad" THEN Command.val ELSE pad
  /\ route' = [next |-> route.next + 1,
               failed |-> \/ Command.op = "capture" /\ ~good
                          \/ Command.op = "expect" /\ cell # Command.val]
  /\ UNCHANGED <<opt, pc, ending, status, limit, frame, elapsed, used, hyb, psg,
                 sunk, dumped, host>>

\* coverage_route_frame returns nonzero: longjmp, or before the run main's 1.
RouteFails ==
  /\ pc = "route" /\ route.failed
  /\ IF frame = 0 THEN Exit("route", 1) ELSE Finish("route")
  /\ UNCHANGED <<opt, limit, frame, elapsed, used, hyb, route, pad, cell, psg,
                 sunk, dumped, host>>

RouteDone ==
  /\ pc = "route" /\ ~Due /\ ~route.failed
  /\ pc' = IF frame = 0 THEN "guest" ELSE "sound"
  /\ UNCHANGED <<opt, ending, status, limit, frame, elapsed, used, hyb, route,
                 pad, cell, psg, sunk, dumped, host>>

\* The sink takes what psg_render copies, until it copies nothing.
DrainSound ==
  /\ pc = "sound"
  /\ LET n == IF opt.sound THEN Copied(psg, Chunk) ELSE 0
     IN  /\ sunk' = sunk + n
         /\ psg' = IF opt.sound THEN PsgRender(psg, Chunk) ELSE psg
         /\ pc' = IF n = 0 THEN "dump" ELSE "sound"
  /\ UNCHANGED <<opt, ending, status, limit, frame, elapsed, used, hyb, route,
                 pad, cell, dumped, host>>

\* glue_set_dump: the frame asked for, else the last.
DumpFrame == IF opt.dump # 0 THEN opt.dump ELSE limit

Dump ==
  /\ pc = "dump"
  /\ dumped' = IF frame = DumpFrame THEN dumped \union {frame} ELSE dumped
  /\ pc' = "present"
  /\ UNCHANGED <<opt, ending, status, limit, frame, elapsed, used, hyb, route,
                 pad, cell, psg, sunk, host>>

\* Mistake: the deadline follows the clock, not the frames.
PaceFromNow(h, late) == h.now + late + Period

\* host_pace: the deadline of this frame, late counts after the last.
PaceDeadline(h, late) ==
  LET now    == h.now + late
      anchor == IF h.deadline = 0 THEN now ELSE h.deadline
      next   == anchor + Period
  IN  IF now > next + 4 * Period THEN now + Period ELSE next

Headless ==
  /\ pc = "present" /\ ~opt.window
  /\ pc' = "limit"
  /\ UNCHANGED <<opt, ending, status, limit, frame, elapsed, used, hyb, route,
                 pad, cell, psg, sunk, dumped, host>>

\* sdl_frame_cb: host_present polls the keyboard and waits for the deadline;
\* the player's pad reaches the guest unless the input is scripted.
Present(late, held) ==
  /\ pc = "present" /\ opt.window
  /\ LET due == PaceDeadline(host, late)
         now == host.now + late
     IN  host' = [pad |-> held, deadline |-> due, shown |-> host.shown + 1,
                  now |-> IF now >= due THEN now ELSE due,
                  worst |-> IF late > host.worst THEN late ELSE host.worst]
  /\ pad' = IF Automated THEN pad ELSE held
  /\ \/ pc' = "limit" /\ UNCHANGED <<ending, status>>
     \/ Finish("closed")
  /\ UNCHANGED <<opt, limit, frame, elapsed, used, hyb, route, cell, psg, sunk,
                 dumped>>

\* Mistake: the limit is a frame too late.
AtLimitLate == limit # 0 /\ frame > limit

\* The last frame of the run is complete.
AtLimit == limit # 0 /\ frame >= limit

LimitReached ==
  /\ pc = "limit"
  /\ IF AtLimit
       THEN Finish("limit")
       ELSE pc' = "guest" /\ UNCHANGED <<ending, status>>
  /\ UNCHANGED <<opt, limit, frame, elapsed, used, hyb, route, pad, cell, psg,
                 sunk, dumped, host>>

Done == /\ \/ pc = "exit"
           \/ pc = "guest" /\ limit = 0 /\ frame >= MaxFrames
        /\ UNCHANGED vars

Next == \/ Start
        \/ \E by \in {"native", "interp"}, n \in Steps : GuestStep(by, n)
        \/ GuestStores \/ GuestReturns
        \/ ScriptInput
        \/ \E good \in BOOLEAN : RouteCommand(good)
        \/ RouteFails \/ RouteDone
        \/ DrainSound \/ Dump
        \/ Headless
        \/ \E late \in Hitches, held \in Pads : Present(late, held)
        \/ LimitReached
        \/ Done

Spec == Init /\ [][Next]_vars

-----------------------------------------------------------------------------
(* Properties.                                                              *)

\* Every variable has its type; of the pad, PadIsScripts says more.
TypeOK ==
  /\ opt \in Options
  /\ pc \in {"main", "guest", "exit"} \union Stages
  /\ ending \in {"", "refused", "route", "returned", "closed", "limit"}
  /\ status \in 0 .. 2
  /\ limit \in Nat /\ frame \in Nat /\ elapsed \in Nat /\ hyb \in Nat
  /\ used \in [native : Nat, interp : Nat]
  /\ route \in [next : Nat \ {0}, failed : BOOLEAN]
  /\ cell \in Nat
  /\ psg \in Stream /\ sunk \in Nat
  /\ dumped \subseteq Nat
  /\ host \in [pad : Nat, now : Nat, deadline : Nat, shown : Nat, worst : Nat]

\* The guest never executes with a command of its frame undone or one of a later
\* frame done, and never after a failed one ("Commands run at completed frame
\* boundaries before the next guest instruction").
RouteOnTime ==
  pc = "guest" /\ Routed =>
    /\ ~route.failed
    /\ \A i \in 1 .. Len(opt.route) :
         i < route.next <=> opt.route[i].frame <= frame

\* A route whose run returns 0 executed every command and none failed, unless
\* the game returned or the player closed the window before its end.
PassMeansComplete ==
  pc = "exit" /\ status = 0 /\ Routed /\ ending \notin {"returned", "closed"} =>
    route.next > Len(opt.route) /\ ~route.failed

\* The mask a script holds at frame f: that of the last directive whose frame is
\* the latest one at or before f.
ScriptedBy(script, f) ==
  LET past == {i \in DOMAIN script : script[i].frame <= f}
      last == {i \in past : \A k \in past :
                 \/ script[k].frame < script[i].frame
                 \/ script[k].frame = script[i].frame /\ k <= i}
  IN  IF past = {} THEN 0 ELSE script[CHOOSE i \in last : TRUE].mask

\* The route's pad commands, at their places in it.
PadCommands ==
  [i \in {i \in 1 .. Len(opt.route) : opt.route[i].op = "pad"} |->
     [frame |-> opt.route[i].frame, mask |-> opt.route[i].val]]

\* The guest reads the controller the script holds, whatever the player does,
\* and the player's when there is no script (from frame 1: see the README).
PadIsScripts ==
  pc = "guest" /\ frame > 0 =>
    pad = IF Routed THEN ScriptedBy(PadCommands, frame)
          ELSE IF opt.press # << >> THEN ScriptedBy(opt.press, frame)
          ELSE host.pad

\* No sample is lost or made up: what the sink took, what waits for it and the
\* cycles short of a sample are exactly the guest's time; a run that ends with a
\* frame, by its limit or its window, has delivered all of it.
SoundExact ==
  opt.sound =>
    /\ Div * (sunk + Available(psg)) + psg.left = elapsed
    /\ ending \in {"limit", "closed"} => Available(psg) = 0

\* The report tells interpreted from compiled cycles exactly, even when the run
\* is left in the middle of an interpreted routine.
ReportExact ==
  /\ hyb = used.interp
  /\ elapsed - hyb = used.native

\* A limit of n frames runs n frames and no guest instruction more, and the dump
\* asked for is made, the last frame's too.
LimitExact ==
  /\ pc = "guest" => /\ frame * FrameCyc <= elapsed
                     /\ elapsed < (frame + 1) * FrameCyc
                     /\ limit # 0 => frame < limit
  /\ ending = "limit" => /\ frame = limit
                         /\ DumpFrame \in 1 .. limit => dumped = {DumpFrame}

\* The window never runs faster than the console, and runs as fast as it, with
\* no drift, if no frame loses more than its period.
Realtime ==
  /\ host.shown * Period <= host.now
  /\ host.worst <= Period => host.now <= (host.shown + 1) * Period
==============================================================================
