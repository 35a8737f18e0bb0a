------------------------------- MODULE Discover -------------------------------
(***************************************************************************)
(* How the compiler finds the routines of a program (function_finder.c) and *)
(* in which order it emits their instructions (code_generator.c): passes    *)
(* over the known entries, each traced from its start, until a pass finds   *)
(* nothing; then the routines are traced once more and emitted in the order *)
(* of their addresses.  The generated code is then run, one routine at a    *)
(* time, beside the Z80.                                                    *)
(*                                                                          *)
(* An instruction is its length, its control flow and what the finder reads *)
(* of its operation.  The pair that is pushed, loaded and jumped through is *)
(* HL.  A jp (hl) that jt_terminal_load and detect_jump_table recognise     *)
(* carries the base of its table and the length its index proves, or 0.     *)
(***************************************************************************)
EXTENDS Integers, Sequences, FiniteSets, SequencesExt, FiniteSetsExt, TLC

CONSTANTS
  SlotSize,  \* addresses of a slot (16 KB)
  FixedSize, \* addresses fixed to bank 0 (1 KB)
  Programs   \* the programs to compile, a sequence

Ram     == 3 * SlotSize
Slot(a) == a \div SlotSize
None    == -1

\* Return addresses that no instruction of the routine loads: the one its caller
\* pushed, and one nobody knows.
Caller  == -2
Unknown == -3

Flows == {"none", "jump", "jumpcc", "call", "callcc", "ret", "retcc", "jphl"}
Ops   == {"other", "lda", "inca", "clobber", "page",        \* A and the mapper
          "ldhl", "ldvec", "stvec", "bump",                  \* HL
         "push", "pop", "table"}                            \* the stack, jp (hl)

Insn  == [len : 1 .. 4, cf : Flows, to : Nat, op : Ops, n : Nat, count : Nat]
Entry == [addr : 0 .. Ram - 1, bank : Nat \union {None}]

(* A program: by bank and offset, the instruction that starts there and the *)
(* 16-bit word; the entries listed (ff_seed_vectors, game.toml, manifest);  *)
(* the blacklist; and, as the truth to compare with, the routines it calls  *)
(* and which of them return with the HL they were called with.              *)
ASSUME DiscoverAssumption ==
  /\ SlotSize \in Nat \ {0} /\ FixedSize \in 1 .. SlotSize
  /\ \A k \in DOMAIN Programs : LET p == Programs[k] IN
       /\ \A b \in DOMAIN p.code : \A o \in DOMAIN p.code[b] : p.code[b][o] \in Insn
       /\ \A b \in DOMAIN p.word : \A o \in DOMAIN p.word[b] : p.word[b][o] \in Nat
       /\ p.seeds \in Seq(Entry) /\ p.seeds # << >>
       /\ p.black \subseteq Nat
       /\ p.routines \subseteq Entry /\ p.keeps \subseteq Nat

VARIABLES
  prog,     \* the program compiled
  pc,       \* pass, done, run
  entries,  \* FuncList, in order
  known,    \* how many of them this pass visits
  next,     \* the one to visit
  pass,     \* guard
  changed,
  pagers,   \* g_pager: from the address of a helper to its effects
  vectors,  \* g_disp_slot
  data,     \* g_data_iv
  run       \* a routine under execution: its body, and both machines

vars == <<prog, pc, entries, known, next, pass, changed, pagers, vectors, data, run>>

MaxPasses == 64

Addrs(es) == {es[i].addr : i \in 1 .. Len(es)}

-----------------------------------------------------------------------------
(* Reading ROM.                                                             *)

\* rom_z80_to_offset: the cell, as <<bank, offset>>.
Cell(a, b) == <<IF a < FixedSize THEN 0 ELSE b, a % SlotSize>>

IsCode(a, b) == LET c == Cell(a, b) IN
  a < Ram /\ c[1] \in DOMAIN prog.code /\ c[2] \in DOMAIN prog.code[c[1]]
Decode(a, b) == LET c == Cell(a, b) IN prog.code[c[1]][c[2]]

IsWord(a, b) == LET c == Cell(a, b) IN
  a < Ram /\ c[1] \in DOMAIN prog.word /\ c[2] \in DOMAIN prog.word[c[1]]
Word(a, b) == LET c == Cell(a, b) IN prog.word[c[1]][c[2]]

\* in_data_iv.
InData(a, b, ivs) == \E iv \in ivs : a \in iv.lo .. iv.hi - 1 /\ iv.bank = b

-----------------------------------------------------------------------------
(* Sequences of traced instructions [at, in].                               *)

Traced(t)     == {t[i].at : i \in 1 .. Len(t)}
IndexOf(t, a) == CHOOSE i \in 1 .. Len(t) : t[i].at = a

\* From position i up to k each instruction ends where the next begins.
Contiguous(t, i, k) == \A m \in i .. k - 1 : t[m].at + t[m].in.len = t[m + 1].at

\* insn_writes_rp, for HL.  It lists neither "bump", which stands for inc l, dec h,
\* exx and their like, nor a call, whose routine may write any register.
WritesHl(in) == in.op \in {"ldhl", "ldvec", "pop"}

Latest(S) == IF S = {} THEN 0 ELSE Max(S)

\* The pushes of the block that ends at instruction k.
Pushes(t, k) ==
  {i \in 1 .. k - 1 : /\ t[i].in.op = "push" /\ Contiguous(t, i, k)
                      /\ \A m \in i .. k - 1 : t[m].in.cf # "ret"}

\* Mistake: pops are not counted.
TopPushUnbalanced(t, k) == Latest(Pushes(t, k))

\* The latest push that no pop undoes before instruction k, or 0.
TopPush(t, k) ==
  LET after(i, op) == Cardinality({m \in i + 1 .. k - 1 : t[m].in.op = op})
  IN  Latest({i \in Pushes(t, k) : after(i, "pop") = after(i, "push")})

\* trace_computed_call: the return address pushed before the jp (hl) at a, taken
\* from the last instruction listed before the push that writes HL.
CallReturn(t, a) ==
  LET pushed == TopPush(t, IndexOf(t, a))
      writer == Latest({j \in 1 .. pushed - 1 : WritesHl(t[j].in)})
  IN  IF writer # 0 /\ t[writer].in.op = "ldhl" THEN {t[writer].in.n} ELSE {}

-----------------------------------------------------------------------------
(* trace_function.                                                          *)

FallsThrough(in) == in.cf \notin {"jump", "ret", "jphl"}

\* The bank an entry reads at a: its own in its slot, the reset one elsewhere.
ReadBank(e, a) == IF Slot(a) = Slot(e.addr) /\ e.bank # None THEN e.bank ELSE Slot(a)

\* One address off the worklist, the instructions found so far in order.
RECURSIVE Follow(_, _, _, _, _)
Follow(e, outside, ivs, work, t) ==
  IF work = << >> THEN t
  ELSE LET a    == Last(work)
           rest == Front(work)
           b    == ReadBank(e, a)
       IN  IF a \in Traced(t) \/ InData(a, b, ivs) \/ ~IsCode(a, b)
             THEN Follow(e, outside, ivs, rest, t)
             ELSE LET in   == Decode(a, b)
                      t2   == Append(t, [at |-> a, in |-> in])
                      jump == IF in.cf \in {"jump", "jumpcc"} THEN {in.to} ELSE {}
                      cont == IF in.cf = "jphl" THEN CallReturn(t2, a) ELSE {}
                      fall == IF FallsThrough(in) THEN <<a + in.len>> ELSE << >>
                  IN  Follow(e, outside, ivs,
                             rest \o SetToSeq((jump \union cont) \ outside) \o fall, t2)

\* The body of entry e, sorted; outside are the addresses of all entries.
TraceFunction(e, outside, ivs) ==
  SortSeq(Follow(e, outside, ivs, <<e.addr>>, << >>), LAMBDA x, y : x.at < y.at)

-----------------------------------------------------------------------------
(* BankState: the bank of each slot and the value of A, None if unknown.    *)

\* Mistake: an entry is walked with the reset mapping in its own slot.
BankInitReset(e) ==
  [slot |-> [s \in 0 .. 2 |-> IF s = 2 THEN None ELSE s], a |-> None]

\* bankstate_init.
BankInit(e) ==
  [slot |-> [s \in 0 .. 2 |-> IF s = Slot(e.addr) /\ e.bank # None THEN e.bank
                              ELSE IF s = 2 THEN None ELSE s],
   a |-> None]

\* The effect of a pager on the bank of its slot, when A is known or constant.
Effect(bs, f) ==
  [bs EXCEPT !.slot[f.slot] = IF f.const THEN f.val
                              ELSE IF bs.a = None THEN None
                              ELSE (bs.a + f.val) % 256]

\* bankstate_step; only an unconditional call applies a pager's effects.
BankStep(bs, in, pg) ==
  LET loaded == CASE in.op = "lda"     -> [bs EXCEPT !.a = in.n]
                  [] in.op = "inca"    -> [bs EXCEPT !.a = IF @ = None THEN None ELSE (@ + 1) % 256]
                  [] in.op = "clobber" -> [bs EXCEPT !.a = None]
                  [] in.op = "page"    -> [bs EXCEPT !.slot[in.n] = bs.a]
                  [] OTHER             -> bs
  IN  IF in.cf = "call" /\ in.to \in DOMAIN pg
        THEN FoldLeft(Effect, loaded, pg[in.to]) ELSE loaded

\* bankstate_target: the entry a target stands for, none if its bank is unknown.
Target(bs, a) ==
  IF a >= Ram \/ bs.slot[Slot(a)] = None THEN {}
  ELSE LET b == IF a < FixedSize THEN 0 ELSE bs.slot[Slot(a)]
       IN  {[addr |-> a, bank |-> IF b = Slot(a) THEN None ELSE b]}

\* detect_pager: the slots a helper pages on its straight path from its start,
\* with A as it came in plus d, or (c) the constant d.
RECURSIVE PagerFrom(_, _, _, _, _, _)
PagerFrom(t, a, c, d, guard, effects) ==
  IF guard = 0 \/ Len(effects) = 3 \/ a \notin Traced(t) THEN effects
  ELSE LET in == t[IndexOf(t, a)].in
           go(c2, d2, eff) == PagerFrom(t, a + in.len, c2, d2, guard - 1, eff)
       IN  CASE in.op = "page" -> go(c, d, Append(effects, [slot |-> in.n, const |-> c, val |-> d]))
             [] in.op = "lda"  -> go(TRUE, in.n, effects)
             [] in.op = "inca" -> go(c, (d + 1) % 256, effects)
             [] OTHER -> IF in.op = "clobber" \/ in.cf # "none" THEN effects
                         ELSE go(c, d, effects)

Pager(t, a) == PagerFrom(t, a, FALSE, 0, 32, << >>)

-----------------------------------------------------------------------------
(* What a pass harvests from the k-th instruction of a body t.  Each gives  *)
(* the entries to add, in order; es are the entries so far.                 *)

TableBank(bs, a) == IF a < FixedSize THEN 0 ELSE bs.slot[Slot(a)]
Readable(bs, a)  == a < Ram /\ bs.slot[Slot(a)] # None

HardCap    == 256   \* JT_HARDCAP
MinEntries == 2     \* JT_MIN_ENTRIES

\* The handlers among the first n words of a table that lie after it: the first
\* of them ends it.
Forward(bs, base, n) ==
  LET b == TableBank(bs, base)
  IN  {T \in {Word(base + 2 * e, b) : e \in 0 .. n - 1} : T > base /\ Slot(T) = Slot(base)}

\* ff_seed_jt's loop: word e belongs to the table if those before do.  A table
\* of unproven length ends at its first handler or at known code.
Belongs(bs, in, es, e) ==
  LET ea == in.n + 2 * e
      b  == TableBank(bs, in.n)
  IN  /\ IsWord(ea, b) /\ Word(ea, b) < Ram
      /\ e < (IF in.count # 0 THEN in.count ELSE HardCap)
      /\ in.count = 0 /\ e > 0 =>
           /\ ea \notin Addrs(es)
           /\ \A T \in Forward(bs, in.n, e) : ea < T

\* How many words it reads before it stops.
Read(bs, in, es) ==
  CHOOSE n \in 0 .. HardCap : /\ \A e \in 0 .. n - 1 : Belongs(bs, in, es, e)
                              /\ ~Belongs(bs, in, es, n)

\* The length the table is given.
TableCount(bs, in, es) ==
  LET n     == Read(bs, in, es)
      fwd   == Forward(bs, in.n, n)
      stop  == in.n + 2 * n
      ends  == fwd \union (IF n > 0 /\ stop \in Addrs(es) THEN {stop} ELSE {})
      fit(S) == IF S = {} THEN HardCap + 1 ELSE (Min(S) - in.n) \div 2
      least(S) == Min(S \union {n})
  IN  IF in.count # 0 THEN least({fit(fwd)})
      ELSE IF fit(ends) \in MinEntries .. HardCap THEN least({fit(ends), fit(fwd)})
      ELSE 0

\* ff_seed_jt: the table's handlers, and its bytes as data.
TableSize(bs, in, es) ==
  IF in.op = "table" /\ Readable(bs, in.n) /\ TableCount(bs, in, es) >= MinEntries
    THEN TableCount(bs, in, es) ELSE 0

TableSeeds(bs, in, es) ==
  [e \in 1 .. TableSize(bs, in, es) |-> Word(in.n + 2 * (e - 1), TableBank(bs, in.n))]

TableData(bs, in, es) ==
  IF TableSize(bs, in, es) = 0 THEN {}
  ELSE {[lo |-> in.n, hi |-> in.n + 2 * TableSize(bs, in, es), bank |-> TableBank(bs, in.n)]}

\* The writer of HL that reaches instruction k with no branch between, or 0.
Source(t, k) ==
  Latest({i \in 1 .. k - 1 : WritesHl(t[i].in) /\ Contiguous(t, i, k)
                             /\ \A m \in i + 1 .. k - 1 : ~WritesHl(t[m].in)})

\* detect_disp_slot: jp (hl) through a vector in RAM.
VectorOf(t, k) ==
  LET i == Source(t, k)
  IN  IF t[k].in.cf = "jphl" /\ i # 0 /\ t[i].in.op = "ldvec" THEN {t[i].in.n} ELSE {}

\* seed_vector_install: a constant stored to a known vector.
VectorSeeds(t, k, vecs) ==
  LET i == Source(t, k)
  IN  IF t[k].in.op = "stvec" /\ t[k].in.n \in vecs /\ i # 0 /\ t[i].in.op = "ldhl"
        THEN <<t[i].in.n>> ELSE << >>

IslandMin == 4   \* JPISLAND_MIN

\* seed_jp_island: a run of jp instructions that ld hl points at.
IslandSeeds(bs, in) ==
  LET b        == TableBank(bs, in.n)
      at(e)    == in.n + 3 * e
      isJp(e)  == /\ Slot(at(e)) = Slot(in.n) /\ IsCode(at(e), b)
                  /\ Decode(at(e), b).cf = "jump" /\ Decode(at(e), b).len = 3
      n        == CHOOSE m \in 0 .. SlotSize : (\A e \in 0 .. m - 1 : isJp(e)) /\ ~isJp(m)
  IN  IF in.op = "ldhl" /\ Readable(bs, in.n) /\ n >= IslandMin
        THEN [e \in 1 .. n |-> Decode(at(e - 1), b).to] ELSE << >>

CallSeeds(in) == IF in.cf \in {"call", "callcc"} THEN <<in.to>> ELSE << >>

\* funclist_add of the targets that are neither blacklisted nor of unknown bank.
AddTargets(es, bs, targets) ==
  LET add(acc, a) ==
        LET new == {f \in Target(bs, a) : a \notin prog.black /\ f \notin ToSet(acc)}
        IN  acc \o SetToSeq(new)
  IN  FoldLeft(add, es, targets)

\* The body of ff_discover's inner loop, over the instructions of t.
Harvest(e, t) ==
  LET pg == IF e.addr \notin DOMAIN pagers /\ Pager(t, e.addr) # << >>
              THEN (e.addr :> Pager(t, e.addr)) @@ pagers ELSE pagers
      visit(h, k) ==
        LET in   == t[k].in
            bs   == BankStep(h.bs, in, pg)
            es   == AddTargets(h.es, bs, TableSeeds(bs, in, h.es))
            vecs == h.vecs \union VectorOf(t, k)
        IN  [bs |-> bs, vecs |-> vecs,
             es |-> AddTargets(es, bs, VectorSeeds(t, k, vecs) \o IslandSeeds(bs, in)
                                         \o CallSeeds(in)),
             data |-> h.data \union TableData(bs, in, h.es)]
      first == [bs |-> BankInit(e), es |-> entries, vecs |-> vectors, data |-> data]
  IN  [got |-> FoldLeft(visit, first, [k \in 1 .. Len(t) |-> k]), pagers |-> pg]

-----------------------------------------------------------------------------
(* ff_discover.                                                             *)

Idle == [fn |-> [addr |-> 0, bank |-> None], body |-> << >>, at |-> None,
         z80 |-> None, hl |-> Unknown, stack |-> << >>]

Init == /\ \E k \in DOMAIN Programs : prog = Programs[k]
        /\ pc = "pass"
        /\ entries = prog.seeds /\ known = Len(prog.seeds) /\ next = 1
        /\ pass = 1 /\ changed = FALSE
        /\ pagers = << >> /\ vectors = {} /\ data = {}
        /\ run = Idle

Known == {entries[i].addr : i \in 1 .. known}

\* Mistake: a new dispatch vector does not ask for another pass.
NewsOfEntries(es, vecs) == es # entries

\* What asks for another pass; a new pager and new data do not.
News(es, vecs) == es # entries \/ vecs # vectors

\* One entry of the pass's snapshot: trace it and harvest its body.
Visit ==
  /\ pc = "pass" /\ next <= known
  /\ next' = next + 1
  /\ IF entries[next].addr \in prog.black
       THEN UNCHANGED <<entries, changed, pagers, vectors, data>>
       ELSE LET e == entries[next]
                h == Harvest(e, TraceFunction(e, Known, data))
            IN  /\ entries' = h.got.es /\ vectors' = h.got.vecs
                /\ data' = h.got.data  /\ pagers' = h.pagers
                /\ changed' = (changed \/ News(h.got.es, h.got.vecs))
  /\ UNCHANGED <<prog, pc, known, pass, run>>

\* Another pass: only the entries, the pagers and the vectors are kept.
NextPass ==
  /\ pc = "pass" /\ next > known /\ changed /\ pass < MaxPasses
  /\ pass' = pass + 1 /\ changed' = FALSE
  /\ next' = 1 /\ known' = Len(entries) /\ data' = {}
  /\ UNCHANGED <<prog, pc, entries, pagers, vectors, run>>

Settle ==
  /\ pc = "pass" /\ next > known /\ (~changed \/ pass = MaxPasses)
  /\ pc' = "done"
  /\ UNCHANGED <<prog, entries, known, next, pass, changed, pagers, vectors, data, run>>

-----------------------------------------------------------------------------
(* The emitted routine beside the Z80.                                      *)

\* Mistake: the entry is not jumped to when lower addresses were traced.
FirstAtLowest(body, e) == IF body = << >> THEN None ELSE body[1].at

\* emit_function: where a call of the routine begins, None if it has no body.
First(body, e) == IF body = << >> THEN None ELSE e.addr

\* A routine of the program is called.
Enter(e) ==
  /\ pc = "done" /\ e \in ToSet(entries)
  /\ LET body == TraceFunction(e, Addrs(entries), data)
     IN  run' = [fn |-> e, body |-> body, at |-> First(body, e), z80 |-> e.addr,
                 hl |-> Unknown, stack |-> <<Caller>>]
  /\ pc' = "run"
  /\ UNCHANGED <<prog, entries, known, next, pass, changed, pagers, vectors, data>>

Here == run.body[IndexOf(run.body, run.at)].in

\* The instruction emitted after this one: the next in address order.
Emitted == LET later == {a \in Traced(run.body) : a > run.at}
           IN  IF later = {} THEN None ELSE Min(later)

\* emit_cf: a branch to a goes to its label, or leaves.
InBody(a) == a \in Traced(run.body)

Running == pc = "run" /\ InBody(run.at) /\ run.at = run.z80

\* The word on top of the Z80's stack, and the rest.
Top   == IF run.stack = << >> THEN Unknown ELSE Head(run.stack)
Below == IF run.stack = << >> THEN << >> ELSE Tail(run.stack)

Go(at, z80, hl, stack) ==
  run' = [run EXCEPT !.at = at, !.z80 = z80, !.hl = hl, !.stack = stack] /\ UNCHANGED pc

\* The C returns to its caller, at once or from the routine it jumps to; the Z80
\* returns to what is on its stack.
Leave == IF run.stack = <<Caller>> THEN pc' = "done" /\ run' = Idle
         ELSE Go(Caller, Top, Unknown, Below)

\* On to the next instruction; a call may change HL.
Fall ==
  /\ FallsThrough(Here)
  /\ \E kept \in BOOLEAN :
       LET hl == CASE Here.op = "ldhl" -> Here.n
                   [] Here.op \in {"ldvec", "bump"} \/ ~kept -> Unknown
                   [] Here.op = "pop" -> Top
                   [] OTHER -> run.hl
           stack == CASE Here.op = "push" -> <<run.hl>> \o run.stack
                      [] Here.op = "pop" -> Below
                      [] OTHER -> run.stack
       IN  /\ kept \/ (Here.cf \in {"call", "callcc"} /\ Here.to \notin prog.keeps)
           /\ Go(Emitted, run.z80 + Here.len, hl, stack)

Branch ==
  /\ Here.cf \in {"jump", "jumpcc"}
  /\ IF InBody(Here.to) THEN Go(Here.to, Here.to, run.hl, run.stack) ELSE Leave

\* jp (hl): where a return address was recovered the C calls and goes on there,
\* elsewhere it leaves; the Z80 comes back to what is on its stack.
Computed ==
  /\ Here.cf = "jphl"
  /\ LET cont == {a \in CallReturn(run.body, run.at) : InBody(a)}
     IN  IF cont = {} THEN Leave ELSE \E a \in cont : Go(a, Top, Unknown, Below)

Return == Here.cf \in {"ret", "retcc"} /\ Leave

Execute ==
  /\ Running
  /\ Fall \/ Branch \/ Computed \/ Return
  /\ UNCHANGED <<prog, entries, known, next, pass, changed, pagers, vectors, data>>

Next == Visit \/ NextPass \/ Settle \/ (\E e \in prog.routines : Enter(e)) \/ Execute

Spec == Init /\ [][Next]_vars

-----------------------------------------------------------------------------
(* Properties.                                                              *)

\* Compiled code is where the Z80 is: after every instruction of every routine
\* the generated C goes on to the instruction the Z80 goes on to, it returns to
\* its caller when the Z80 does, and no routine is left without a body or runs
\* off its end.
FlowFaithful == pc = "run" => run.at = run.z80

\* Discovery finds every routine the program calls, directly, through a pager, a
\* jump table, an island or a vector in RAM.
RoutinesFound == pc # "pass" => prog.routines \subseteq ToSet(entries)

\* What discovery leaves is closed: with all it knows in the end, no body of an
\* entry calls or lists a routine that is not an entry ("repeat until no new
\* entries appear").
Closed ==
  pc = "done" => \A i \in 1 .. Len(entries) :
    entries[i].addr \notin prog.black =>
      LET e == entries[i]
          h == Harvest(e, TraceFunction(e, Addrs(entries), data))
      IN  h.got.es = entries /\ h.got.vecs = vectors
===============================================================================
