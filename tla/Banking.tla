------------------------------- MODULE Banking -------------------------------
(***************************************************************************)
(* Which bank's code runs.  The Z80 sees 48 KB of ROM through three slots   *)
(* whose banks the program changes at run time (sms_write8); the compiler   *)
(* decoded every routine under one fixed choice of banks (trace_function).  *)
(* The generated dispatch matches the two by the live bank of the target's  *)
(* slot; whatever it does not know is interpreted and recorded in the       *)
(* dispatch manifest, from which the next build learns it (manifest_seed).  *)
(*                                                                          *)
(* Addresses are cut down to what the mapper tells apart: SlotSize cells a  *)
(* slot, the first FixedSize of them never paged, and one cell of RAM.  The *)
(* code at an address is the number of the ROM bank it lies in.             *)
(***************************************************************************)
EXTENDS Integers, Sequences, FiniteSets, SequencesExt

CONSTANTS
  SlotSize,   \* cells of a slot (16 KB)
  FixedSize,  \* cells fixed to bank 0 (1 KB)
  NumBanks,   \* banks of the ROM
  MaxBank,    \* the largest value of a mapper register (255)
  Paged,      \* the slots the program remaps
  Targets,    \* the addresses the program jumps to and calls
  Found,      \* the entries a build has with no manifest
  MaxRows,    \* MANIFEST_MAX
  MaxFrames,  \* bound: routines that wait for another to return
  AppendFails, \* the manifest file may refuse a row
  Idioms      \* what the program does beyond well-behaved paging

(* Idioms:                                                                  *)
(*   cross   runs into a paged slot from outside it with a plain JP, or by  *)
(*           falling through                                                *)
(*   mirror  selects banks the ROM does not have: the address lines wrap    *)
(*   table   game.toml lists a banked jump table with a target in the fixed *)
(*           region                                                         *)
AllIdioms == {"cross", "mirror", "table"}

Slots == 0 .. 2
Ram   == 3 * SlotSize
Addrs == 0 .. Ram
Banks == 0 .. MaxBank

Slot(a) == a \div SlotSize

\* FuncEntry: an address and the bank it was found under, -1 for the slot's own.
Entry == [addr : 0 .. Ram - 1, bank : Banks \union {-1}]
Reset == [addr |-> 0, bank |-> -1]

\* What static discovery can find: bankstate_target gives the fixed region no
\* bank of its own, and knows only the banks the program loads.
Discoverable == {e \in Entry :
  /\ e.addr < FixedSize => e.bank = -1
  /\ e.bank >= NumBanks => "mirror" \in Idioms}

\* What [jump_tables] can seed: a target under the bank of its table.
Listed == {e \in Entry : e.bank < NumBanks /\ "table" \in Idioms}

ASSUME BankingAssumption ==
  /\ SlotSize \in Nat \ {0}
  /\ FixedSize \in 1 .. SlotSize
  /\ NumBanks \in Nat /\ NumBanks > 3        \* a ROM of 48 KB has no mapper
  /\ MaxBank \in Nat /\ MaxBank >= 2
  /\ Paged \subseteq Slots
  /\ Targets \subseteq Addrs
  /\ Found \subseteq Discoverable \union Listed
  /\ Reset \in Found                       \* ff_seed_vectors
  /\ MaxRows \in Nat
  /\ MaxFrames \in Nat \ {0}
  /\ AppendFails \in BOOLEAN
  /\ Idioms \subseteq AllIdioms

VARIABLES
  bank,      \* g_bank
  frames,    \* the routines in progress, innermost last
  entries,   \* FuncList: the entries this build compiled
  manifest,  \* g_manifest
  file,      \* dispatch_manifest.txt
  learnt     \* history: the <<address, bank>> pairs on file at the last build

vars == <<bank, frames, entries, manifest, file, learnt>>

\* A routine: compiled under entry fn, with an empty body, or interpreted; where
\* it is, and, while it waits, the bank its slot had when it called.
Frame == [kind : {"native", "empty", "interp"}, fn : Entry,
          pc : 0 .. Ram - 1, saved : Banks]

\* ManifestSig, without the checksum: rows are compared without it, and it says
\* of a row only whether the compiler reads the bytes the runtime read.
Row == [addr : Addrs, banks : [Slots -> Banks]]

-----------------------------------------------------------------------------
(* Two ways to read ROM.                                                    *)

\* sms_read8 and rom_byte: the bank the Z80 executes, wrapped to the ROM's size.
Live(a) == IF a < FixedSize THEN 0 ELSE bank[Slot(a)] % NumBanks

\* The bank an entry stands for at run time: rb of write_dispatch.
Runtime(e) == IF e.bank = -1 THEN Slot(e.addr) ELSE e.bank

\* Mistake: the compiler takes the fixed region for a part of slot 0.
DecodedBySlot(fn, a) == IF Slot(a) = Slot(fn.addr) THEN Runtime(fn) ELSE Slot(a)

\* trace_function and rom_z80_to_offset: the bank an instruction of fn was
\* decoded from, the entry's in its own slot and the reset one elsewhere.
Decoded(fn, a) == IF a < FixedSize THEN 0
                  ELSE IF Slot(a) = Slot(fn.addr) THEN Runtime(fn)
                  ELSE Slot(a)

\* The compiler finds ROM there.
Readable(fn, a) == a < Ram /\ Decoded(fn, a) < NumBanks

-----------------------------------------------------------------------------
(* Dispatch.                                                                *)

Variants(a) == {e \in entries : e.addr = a}

\* Mistake: an address known under one bank only is called directly.
OneVariant(a) == \A e, f \in Variants(a) : Runtime(e) = Runtime(f)

\* name_for_target: in the fixed region a single variant is called directly.
Direct(a) == /\ a < FixedSize
             /\ \A e, f \in Variants(a) : Runtime(e) = Runtime(f)

\* call_by_address: one variant in the fixed region is called whatever the
\* bank, any other by the live bank of its slot.
Dispatched(a) ==
  IF a < FixedSize /\ \A e, f \in Variants(a) : e = f
    THEN Variants(a)
    ELSE {e \in Variants(a) : a < Ram /\ Runtime(e) = bank[Slot(a)]}

\* The compiled routines a jump or call to a may enter: by name where the
\* compiler resolved one, through call_by_address otherwise (every computed
\* jump, RST and interrupt).
Callees(a) == IF Direct(a) /\ Variants(a) # {} THEN Variants(a) ELSE Dispatched(a)

Compiled(e) == [kind  |-> IF Readable(e, e.addr) THEN "native" ELSE "empty",
                fn    |-> e,
                pc    |-> e.addr,
                saved |-> 0]

Interpreted == [kind |-> "interp", fn |-> Reset, pc |-> 0, saved |-> 0]

\* manifest_has: the address under these very banks.
Known(a) == [addr |-> a, banks |-> bank] \in manifest

\* Mistake: the table grows past its end.
Unbounded == FALSE

Full == Cardinality(manifest) >= MaxRows

\* manifest_record: a row for the address and the three banks, in memory and at
\* the end of the file, unless it is known or the table is full.
Record(a) ==
  IF Known(a) \/ Full
    THEN UNCHANGED <<manifest, file>>
    ELSE LET row == [addr |-> a, banks |-> bank]
         IN /\ manifest' = manifest \union {row}
            /\ \/ file' = file \union {row}
               \/ AppendFails /\ UNCHANGED file

\* sms_dispatch_miss.
Miss(a) == /\ Callees(a) = {}
           /\ Record(a)

\* Enter a with the frames `below` still waiting.
Enter(a, below) ==
  \/ /\ \E e \in Callees(a) : frames' = Append(below, Compiled(e))
     /\ UNCHANGED <<manifest, file>>
  \/ /\ Miss(a)
     /\ frames' = Append(below, Interpreted)

-----------------------------------------------------------------------------
(* The program.                                                             *)

Me == Last(frames)
Running == frames # << >> /\ Me.kind = "native"

\* The 1 KB that no bank changes, and the slots.
Region(a) == IF a < FixedSize THEN -1 ELSE Slot(a)

IsEntry(a) == \E e \in entries : e.addr = a

\* The addresses control reaches inside the body of fn from pc: the next
\* instruction, and any decodable target that is no entry of another routine.
InBody(fn, pc, a) == /\ Readable(fn, a)
                     /\ a \in {pc + 1, fn.addr} \/ ~IsEntry(a)

\* The next instruction, or a goto.
Flow(a) == /\ Running
           /\ InBody(Me.fn, Me.pc, a)
           /\ (Slot(a) \in Paged /\ Region(a) \notin {-1, Region(Me.pc)})
                 => "cross" \in Idioms
           /\ frames' = Append(Front(frames), [Me EXCEPT !.pc = a])
           /\ UNCHANGED <<bank, entries, manifest, file, learnt>>

\* The waiting caller, and the bank it runs in.
Waiting == Append(Front(frames), [Me EXCEPT !.saved = bank[Slot(Me.pc)]])

\* CALL, RST, a computed call, and the handler of an interrupt.
Call(a) == /\ Running
           /\ Len(frames) < MaxFrames
           /\ Enter(a, Waiting)
           /\ UNCHANGED <<bank, entries, learnt>>

\* JP out of the body, and jp (hl): a call, and then a return.
TailJump(a) == /\ Running
               /\ Enter(a, Front(frames))
               /\ UNCHANGED <<bank, entries, learnt>>

\* RET, or the end of an empty body.  A routine puts back the bank its caller
\* runs in; the reset routine does not return.
Return == /\ Len(frames) > 1
          /\ LET caller == Last(Front(frames))
             IN Region(caller.pc) # -1 => bank[Slot(caller.pc)] = caller.saved
          /\ frames' = Front(frames)
          /\ UNCHANGED <<bank, entries, manifest, file, learnt>>

\* A store to a mapper register, by compiled or interpreted code; compiled code
\* does not page out the slot it runs in.
Map(s, b) == /\ frames # << >>
             /\ \/ Me.kind = "interp"
                \/ Me.kind = "native" /\ Region(Me.pc) # s
             /\ b >= NumBanks => "mirror" \in Idioms
             /\ bank' = [bank EXCEPT ![s] = b]
             /\ UNCHANGED <<frames, entries, manifest, file, learnt>>

-----------------------------------------------------------------------------
(* Runs and builds.                                                         *)

ResetBanks == [s \in Slots |-> s]

\* The bytes of a row's window, its own cell and the next one, as the compiler
\* reads them: manifest_rom_crc.
Window(a) == {a, a + 1}

\* A window that spills into RAM is not checked; one that needs a bank the ROM
\* does not have reads 0xFF and does not match.
Verified(r) == \/ Ram \in Window(r.addr)
               \/ \A a \in Window(r.addr) :
                     a < FixedSize \/ r.banks[Slot(a)] < NumBanks

\* Mistake: a row is seeded under the bank its slot has at reset.
SeedDefault(r) == [addr |-> r.addr, bank |-> Slot(r.addr)]

\* manifest_seed: the entry of a row, under the bank of the address's own slot.
Seed(r) == [addr |-> r.addr, bank |-> r.banks[Slot(r.addr)]]

Seeds == {Seed(r) : r \in {q \in file : q.addr < Ram /\ Verified(q)}}

\* Further entries that ff_discover reaches from the seeds: calls and tail
\* jumps whose bank BankState knew, one of them at most.
Cascades == {{}} \union {{e} : e \in {f \in Discoverable : f.addr \in Targets}}

\* glue_init and the call of the reset vector that opens glue_run.
Start == /\ bank' = ResetBanks
         /\ manifest' = file
         /\ frames' = <<[kind |-> "native", fn |-> Reset, pc |-> 0, saved |-> 0]>>

Init == /\ bank = ResetBanks
        /\ frames = <<[kind |-> "native", fn |-> Reset, pc |-> 0, saved |-> 0]>>
        /\ entries = Found
        /\ manifest = {}
        /\ file = {}
        /\ learnt = {}

\* The run ends, or the process dies, and the same build is run again.
Restart == /\ Start
           /\ UNCHANGED <<entries, file, learnt>>

\* The program is compiled again with the manifest, and run.
Rebuild == /\ \E more \in Cascades : entries' = Found \union Seeds \union more
           /\ learnt' = {<<r.addr, r.banks[Slot(r.addr)]>> : r \in {q \in file : q.addr < Ram}}
           /\ Start
           /\ UNCHANGED file

Next == \/ \E a \in Addrs : Flow(a)
        \/ \E a \in Targets : Call(a) \/ TailJump(a)
        \/ Return
        \/ \E s \in Paged, b \in Banks : Map(s, b)
        \/ Restart \/ Rebuild

Spec == Init /\ [][Next]_vars

-----------------------------------------------------------------------------
TypeOK == /\ bank \in [Slots -> Banks]
          /\ frames \in Seq(Frame) /\ Len(frames) <= MaxFrames
          /\ entries \subseteq Entry
          /\ manifest \subseteq Row /\ Cardinality(manifest) <= MaxRows
          /\ file \subseteq Row
          /\ learnt \subseteq (0 .. Ram - 1) \X Banks

\* Compiled code that runs was compiled from the bytes the Z80 would execute,
\* through every remapping, call, return, rebuild and learnt entry: the bank it
\* was decoded from is the live one, and a dispatch never enters a body that
\* could not be decoded (name_for_target, write_dispatch, trace_function).
RunsLiveCode ==
  frames # << >> => /\ Me.kind # "empty"
                    /\ Me.kind = "native" => Decoded(Me.fn, Me.pc) = Live(Me.pc)

\* What a run had to interpret, the next build runs as compiled code: no
\* address misses under a bank that was on record when the build was made
\* (manifest_record, manifest_load, manifest_seed, write_dispatch).
LearntNeverMisses ==
  \A p \in learnt : bank[Slot(p[1])] = p[2] => Callees(p[1]) # {}
=============================================================================
