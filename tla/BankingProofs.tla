--------------------------- MODULE BankingProofs ---------------------------
(***************************************************************************)
(* For ROMs, slots, programs and manifests of any size: a well-behaved      *)
(* program's compiled code was always compiled from the live bank, and what *)
(* a build learnt is never interpreted again.                               *)
(***************************************************************************)
EXTENDS Banking, DataLemmas, FiniteSetTheorems

WellBehaved == Idioms = {}

\* The slot of a ROM address is one of the three.
LEMMA SlotOfRom == \A a \in 0 .. Ram - 1 : Slot(a) \in Slots
<1>1. \A S \in Nat \ {0} : \A a \in 0 .. 3 * S - 1 : a \div S \in 0 .. 2
  OBVIOUS
<1>2. SlotSize \in Nat \ {0}
  BY BankingAssumption
<1>3. QED BY <1>1, <1>2 DEF Slot, Ram, Slots

\* A bank the ROM has is not wrapped.
LEMMA NoWrap == \A b \in Nat : b < NumBanks => b % NumBanks = b
<1>1. \A n \in Nat \ {0} : \A b \in 0 .. n - 1 : b % n = b
  OBVIOUS
<1>2. NumBanks \in Nat \ {0}
  BY BankingAssumption
<1>3. \A b \in Nat : b < NumBanks => b \in 0 .. NumBanks - 1
  BY <1>2
<1>4. QED BY <1>1, <1>2, <1>3

\* Constants as the proofs use them.
LEMMA Constants ==
  /\ Slots = {0, 1, 2}
  /\ Ram \in Nat /\ 0 \in 0 .. Ram - 1
  /\ FixedSize \in Nat /\ 0 < FixedSize
  /\ Slots \subseteq Banks
  /\ \A s \in Slots : s < NumBanks
  /\ Reset \in Entry /\ Reset \in Discoverable
  /\ Found \subseteq Entry
  /\ ResetBanks \in [Slots -> Banks]
  /\ \A s \in Slots : ResetBanks[s] = s
<1>1. /\ Slots = {0, 1, 2} /\ Ram \in Nat /\ 0 \in 0 .. Ram - 1
      /\ FixedSize \in Nat /\ 0 < FixedSize
  BY BankingAssumption DEF Slots, Ram
<1>2. Slots \subseteq Banks /\ \A s \in Slots : s < NumBanks
  BY <1>1, BankingAssumption DEF Banks
<1>3. Reset \in Entry
  BY <1>1 DEF Reset, Entry
<1>4. ~(Reset.bank >= NumBanks) /\ Reset.bank = -1
  BY BankingAssumption DEF Reset
<1>5. Reset \in Discoverable
  BY <1>3, <1>4 DEF Discoverable
<1>6. Found \subseteq Entry
  BY BankingAssumption DEF Discoverable, Listed
<1>7. ResetBanks \in [Slots -> Banks] /\ \A s \in Slots : ResetBanks[s] = s
  BY <1>2 DEF ResetBanks
<1>8. QED BY <1>1, <1>2, <1>3, <1>5, <1>6, <1>7

-----------------------------------------------------------------------------
(* Types.                                                                   *)

TypeInv == /\ bank \in [Slots -> Banks]
           /\ frames \in Seq(Frame) /\ Len(frames) <= MaxFrames
           /\ entries \subseteq Entry
           /\ manifest \subseteq Row
           /\ IsFiniteSet(manifest) /\ Cardinality(manifest) <= MaxRows
           /\ file \subseteq manifest
           /\ learnt \subseteq (0 .. Ram - 1) \X Banks

Files == /\ manifest \subseteq Row
         /\ IsFiniteSet(manifest) /\ Cardinality(manifest) <= MaxRows
         /\ file \subseteq manifest

\* What entering an address makes of the stack and the manifest.
LEMMA EnterTypes ==
  ASSUME TypeInv, NEW a \in Targets, NEW below \in Seq(Frame),
         Len(below) < MaxFrames, Enter(a, below)
  PROVE  (frames \in Seq(Frame) /\ Len(frames) <= MaxFrames /\ Files)'
<1>1. ASSUME NEW e \in Callees(a), frames' = Append(below, Compiled(e)),
             UNCHANGED <<manifest, file>>
      PROVE  (frames \in Seq(Frame) /\ Len(frames) <= MaxFrames /\ Files)'
  <2>1. e \in Entry
    BY <1>1 DEF Callees, Dispatched, Variants, TypeInv
  <2>2. Compiled(e) \in Frame
    BY <2>1, Constants DEF Compiled, Frame, Entry
  <2>3. QED BY <1>1, <2>2, AppendFacts, BankingAssumption DEF TypeInv, Files
<1>2. ASSUME Miss(a), frames' = Append(below, Interpreted)
      PROVE  (frames \in Seq(Frame) /\ Len(frames) <= MaxFrames /\ Files)'
  <2>1. Interpreted \in Frame
    BY Constants DEF Interpreted, Frame
  <2>2. frames' \in Seq(Frame) /\ Len(frames') <= MaxFrames
    BY <1>2, <2>1, AppendFacts, BankingAssumption
  <2>3. CASE Known(a) \/ Full
    BY <1>2, <2>2, <2>3 DEF Miss, Record, TypeInv, Files
  <2>4. CASE ~(Known(a) \/ Full)
    <3> DEFINE row == [addr |-> a, banks |-> bank]
    <3>1. row \in Row
      BY BankingAssumption DEF Row, TypeInv
    <3>2. manifest' = manifest \union {row} /\ file' \subseteq file \union {row}
      BY <1>2, <2>4 DEF Miss, Record
    <3> HIDE DEF row
    <3>3. /\ IsFiniteSet(manifest')
          /\ Cardinality(manifest') <= Cardinality(manifest) + 1
          /\ Cardinality(manifest) \in Nat
      <4>1. IsFiniteSet(manifest)
        BY DEF TypeInv
      <4>2. Cardinality(manifest) \in Nat
        BY <4>1, FS_CardinalityType
      <4>3. /\ IsFiniteSet(manifest \union {row})
            /\ Cardinality(manifest \union {row})
                 = IF row \in manifest THEN Cardinality(manifest)
                   ELSE Cardinality(manifest) + 1
        BY <4>1, FS_AddElement
      <4>4. QED BY <3>2, <4>2, <4>3
    <3>4. Cardinality(manifest') \in Nat
      BY <3>3, FS_CardinalityType
    <3>5. Cardinality(manifest') <= MaxRows
      BY <2>4, <3>3, <3>4, BankingAssumption DEF Full
    <3>6. QED BY <2>2, <3>1, <3>2, <3>3, <3>5 DEF TypeInv, Files
  <2>5. QED BY <2>3, <2>4
<1>3. QED BY <1>1, <1>2 DEF Enter

\* A run that starts has its stack and its manifest in order.
LEMMA StartTypes ==
  ASSUME TypeInv, Start
  PROVE  /\ bank' \in [Slots -> Banks]
         /\ (frames \in Seq(Frame) /\ Len(frames) <= MaxFrames)'
         /\ manifest' = file /\ IsFiniteSet(file) /\ Cardinality(file) <= MaxRows
<1>1. bank' = ResetBanks /\ manifest' = file
  BY DEF Start
<1>2. [kind |-> "native", fn |-> Reset, pc |-> 0, saved |-> 0] \in Frame
  BY Constants, BankingAssumption DEF Frame, Banks
<1>3. frames' \in Seq(Frame) /\ Len(frames') = 1
  BY <1>2 DEF Start
<1>4. IsFiniteSet(manifest) /\ file \subseteq manifest
  BY DEF TypeInv
<1>5. IsFiniteSet(file) /\ Cardinality(file) <= Cardinality(manifest)
  BY <1>4, FS_Subset
<1>6. Cardinality(file) \in Nat /\ Cardinality(manifest) \in Nat
  BY <1>4, <1>5, FS_CardinalityType
<1>7. Cardinality(file) <= MaxRows
  BY <1>5, <1>6, BankingAssumption DEF TypeInv
<1>8. QED BY <1>1, <1>3, <1>5, <1>7, Constants, BankingAssumption

LEMMA TypeStart == Init => TypeInv
<1> SUFFICES ASSUME Init PROVE TypeInv
  OBVIOUS
<1>1. [kind |-> "native", fn |-> Reset, pc |-> 0, saved |-> 0] \in Frame
  BY Constants, BankingAssumption DEF Frame, Banks
<1>2. frames \in Seq(Frame) /\ Len(frames) <= MaxFrames
  BY <1>1, BankingAssumption DEF Init
<1>3. IsFiniteSet({}) /\ Cardinality({}) = 0
  BY FS_EmptySet
<1>4. QED BY <1>2, <1>3, Constants, BankingAssumption DEF Init, TypeInv

\* The stack under the routine that runs.
LEMMA Below ==
  ASSUME TypeInv, frames # << >>
  PROVE  /\ Front(frames) \in Seq(Frame)
         /\ Len(frames) \in Nat /\ Len(frames) > 0
         /\ Len(Front(frames)) = Len(frames) - 1
         /\ \A i \in 1 .. Len(frames) - 1 : Front(frames)[i] = frames[i]
         /\ Me \in Frame /\ Me = frames[Len(frames)]
BY FrontFacts DEF TypeInv, Me

\* What a caller that waits looks like.
LEMMA WaitingStack ==
  ASSUME TypeInv, frames # << >>
  PROVE  /\ Waiting \in Seq(Frame) /\ Len(Waiting) = Len(frames)
         /\ \A i \in 1 .. Len(frames) - 1 : Waiting[i] = frames[i]
         /\ Waiting[Len(frames)] =
              [kind |-> Me.kind, fn |-> Me.fn, pc |-> Me.pc, saved |-> bank[Slot(Me.pc)]]
<1> DEFINE me == [Me EXCEPT !.saved = bank[Slot(Me.pc)]]
<1>1. Me.pc \in 0 .. Ram - 1 /\ Slot(Me.pc) \in Slots
  BY Below, SlotOfRom DEF Frame
<1>2. bank[Slot(Me.pc)] \in Banks
  BY <1>1 DEF TypeInv
<1>3. /\ me = [kind |-> Me.kind, fn |-> Me.fn, pc |-> Me.pc, saved |-> bank[Slot(Me.pc)]]
      /\ me \in Frame
  BY <1>2, Below DEF Frame
<1> HIDE DEF me
<1>4. Waiting = Append(Front(frames), me)
  BY DEF Waiting, me
<1>5. QED BY <1>3, <1>4, Below, AppendFacts

LEMMA TypeStep == TypeInv /\ [Next]_vars => TypeInv'
<1> SUFFICES ASSUME TypeInv, [Next]_vars PROVE TypeInv'
  OBVIOUS
<1>1. ASSUME NEW a \in Addrs, Flow(a)
      PROVE  TypeInv'
  <2>1. frames # << >> /\ frames' = Append(Front(frames), [Me EXCEPT !.pc = a])
    BY <1>1 DEF Flow, Running
  <2>2. a \in 0 .. Ram - 1
    BY <1>1, Constants DEF Flow, InBody, Readable, Addrs
  <2>3. [Me EXCEPT !.pc = a] \in Frame
    BY <2>1, <2>2, Below DEF Frame
  <2>4. frames' \in Seq(Frame) /\ Len(frames') = Len(frames)
    BY <2>1, <2>3, Below, AppendFacts
  <2>5. QED BY <1>1, <2>4 DEF Flow, TypeInv
<1>2. ASSUME NEW a \in Targets, Call(a)
      PROVE  TypeInv'
  <2>1. frames # << >> /\ Len(frames) < MaxFrames /\ Enter(a, Waiting)
    BY <1>2 DEF Call, Running
  <2>2. Waiting \in Seq(Frame) /\ Len(Waiting) < MaxFrames
    BY <2>1, WaitingStack
  <2>3. QED BY <1>2, <2>1, <2>2, EnterTypes DEF Call, TypeInv, Files
<1>3. ASSUME NEW a \in Targets, TailJump(a)
      PROVE  TypeInv'
  <2>1. frames # << >> /\ Enter(a, Front(frames))
    BY <1>3 DEF TailJump, Running
  <2>2. Front(frames) \in Seq(Frame) /\ Len(Front(frames)) < MaxFrames
    BY <2>1, Below, BankingAssumption DEF TypeInv
  <2>3. QED BY <1>3, <2>1, <2>2, EnterTypes DEF TailJump, TypeInv, Files
<1>4. ASSUME Return
      PROVE  TypeInv'
  <2>1. frames # << >> /\ frames' = Front(frames)
    BY <1>4 DEF Return, TypeInv
  <2>2. frames' \in Seq(Frame) /\ Len(frames') <= MaxFrames
    BY <2>1, Below, BankingAssumption DEF TypeInv
  <2>3. QED BY <1>4, <2>2 DEF Return, TypeInv
<1>5. ASSUME NEW s \in Paged, NEW b \in Banks, Map(s, b)
      PROVE  TypeInv'
  BY <1>5, BankingAssumption DEF Map, TypeInv
<1>6. ASSUME Restart
      PROVE  TypeInv'
  BY <1>6, StartTypes DEF Restart, TypeInv
<1>7. ASSUME Rebuild
      PROVE  TypeInv'
  <2>1. Seeds \subseteq Entry
    <3> SUFFICES ASSUME NEW r \in file, r.addr < Ram
                 PROVE  Seed(r) \in Entry
      BY DEF Seeds
    <3>1. r \in Row
      BY DEF TypeInv
    <3>2. r.addr \in 0 .. Ram - 1
      BY <3>1, Constants DEF Row, Addrs
    <3>3. r.banks[Slot(r.addr)] \in Banks
      BY <3>1, <3>2, SlotOfRom DEF Row
    <3>4. QED BY <3>2, <3>3 DEF Seed, Entry
  <2>2. \A more \in Cascades : more \subseteq Entry
    BY DEF Cascades, Discoverable
  <2>3. entries' \subseteq Entry
    BY <1>7, <2>1, <2>2, Constants DEF Rebuild
  <2>4. learnt' \subseteq (0 .. Ram - 1) \X Banks
    <3> SUFFICES ASSUME NEW r \in file, r.addr < Ram
                 PROVE  <<r.addr, r.banks[Slot(r.addr)]>> \in (0 .. Ram - 1) \X Banks
      BY <1>7 DEF Rebuild
    <3>1. r \in Row
      BY DEF TypeInv
    <3>2. r.addr \in 0 .. Ram - 1
      BY <3>1, Constants DEF Row, Addrs
    <3>3. r.banks[Slot(r.addr)] \in Banks
      BY <3>1, <3>2, SlotOfRom DEF Row
    <3>4. QED BY <3>2, <3>3
  <2>5. Start /\ file' = file
    BY <1>7 DEF Rebuild
  <2>6. QED BY <2>3, <2>4, <2>5, StartTypes DEF TypeInv
<1>8. CASE UNCHANGED vars
  BY <1>8 DEF vars, TypeInv
<1>9. QED BY <1>1, <1>2, <1>3, <1>4, <1>5, <1>6, <1>7, <1>8 DEF Next

\* Every variable keeps its type, and the manifest its bound (MANIFEST_MAX),
\* through any number of runs and builds (manifest_load, manifest_record).
THEOREM TypeCorrect == Spec => []TypeOK
<1>1. TypeInv => TypeOK
  BY DEF TypeInv, TypeOK
<1>2. QED BY <1>1, TypeStart, TypeStep, PTL DEF Spec

-----------------------------------------------------------------------------
(* The live bank.                                                           *)

\* Only banks the ROM has are selected, and a slot the program leaves alone
\* keeps its own, in the registers and in the manifest.
BanksInv ==
  /\ \A s \in Slots : bank[s] < NumBanks /\ (s \notin Paged => bank[s] = s)
  /\ \A r \in manifest : \A s \in Slots :
        r.banks[s] < NumBanks /\ (s \notin Paged => r.banks[s] = s)

\* An entry of the fixed region is not tied to a bank it may not run in.
FixedInv == \A e \in entries :
              e.addr < FixedSize /\ 0 \notin Paged => Runtime(e) = 0

\* A compiled routine of a slot that is never paged was compiled from its bank.
Settled(f) == Slot(f.fn.addr) \notin Paged => Runtime(f.fn) = Slot(f.fn.addr)

\* The routine that runs agrees with the live banks, those that wait with the
\* banks they left, and only the innermost is interpreted.
Agrees(f)  == Decoded(f.fn, f.pc) = Live(f.pc)
Waits(f)   == f.kind = "native" /\ Settled(f)
                /\ (Region(f.pc) # -1 => Decoded(f.fn, f.pc) = f.saved)
StackInv ==
  /\ \A i \in 1 .. Len(frames) - 1 : Waits(frames[i])
  /\ frames # << >> => \/ Me.kind = "interp"
                       \/ Me.kind = "native" /\ Settled(Me) /\ Agrees(Me)

LiveInv == TypeInv /\ BanksInv /\ FixedInv /\ StackInv

\* Outside the fixed region the live bank is the register's.
LEMMA LiveBank ==
  ASSUME TypeInv, BanksInv, NEW a \in 0 .. Ram - 1, ~(a < FixedSize)
  PROVE  Live(a) = bank[Slot(a)]
<1>1. Slot(a) \in Slots
  BY SlotOfRom
<1>2. bank[Slot(a)] \in Nat /\ bank[Slot(a)] < NumBanks
  BY <1>1, BankingAssumption DEF TypeInv, BanksInv, Banks
<1>3. QED BY <1>2, NoWrap DEF Live

\* The fixed region belongs to slot 0.
LEMMA FixedSlot == \A a \in Nat : a < FixedSize => Slot(a) = 0
<1>1. \A S \in Nat \ {0} : \A a \in Nat : a < S => a \div S = 0
  OBVIOUS
<1>2. SlotSize \in Nat \ {0} /\ FixedSize \in Nat /\ FixedSize <= SlotSize
  BY BankingAssumption
<1>3. \A a \in Nat : a < FixedSize => a < SlotSize
  BY <1>2
<1>4. QED BY <1>1, <1>2, <1>3 DEF Slot

\* What a dispatch enters was compiled from the live bank.
LEMMA EnterLive ==
  ASSUME LiveInv, NEW a \in Targets, NEW e \in Callees(a)
  PROVE  LET f == Compiled(e)
         IN f.kind = "native" /\ Settled(f) /\ Agrees(f)
<1>1. e \in entries /\ e \in Entry /\ e.addr = a
  BY DEF Callees, Dispatched, Variants, LiveInv, TypeInv
<1>2. /\ a \in 0 .. Ram - 1 /\ e.bank \in Banks \union {-1}
      /\ Slot(a) \in Slots /\ a \in Nat /\ a < Ram
  BY <1>1, SlotOfRom, Constants DEF Entry
<1> DEFINE f == Compiled(e)
<1>3. f.kind = (IF Readable(e, a) THEN "native" ELSE "empty") /\ f.fn = e /\ f.pc = a
  BY <1>1 DEF Compiled
<1> HIDE DEF f
<1>4. CASE a < FixedSize
  <2>1. Decoded(e, a) = 0 /\ Live(a) = 0
    BY <1>4 DEF Decoded, Live
  <2>2. Readable(e, a)
    BY <1>2, <2>1, BankingAssumption DEF Readable
  <2>3. Slot(a) = 0
    BY <1>2, <1>4, FixedSlot
  <2>4. Settled(f)
    BY <1>1, <1>3, <1>4, <2>3 DEF Settled, LiveInv, FixedInv
  <2>5. QED BY <1>3, <2>1, <2>2, <2>4 DEF Agrees, f
<1>5. CASE ~(a < FixedSize)
  <2>1. Runtime(e) = bank[Slot(a)]
    BY <1>5 DEF Callees, Direct, Dispatched
  <2>2. Decoded(e, a) = bank[Slot(a)]
    BY <1>1, <1>5, <2>1 DEF Decoded
  <2>3. Decoded(e, a) < NumBanks
    BY <1>2, <2>2 DEF LiveInv, BanksInv
  <2>4. Readable(e, a)
    BY <1>2, <2>3 DEF Readable
  <2>5. Live(a) = bank[Slot(a)]
    BY <1>2, <1>5, LiveBank DEF LiveInv
  <2>6. Settled(f)
    BY <1>1, <1>2, <1>3, <2>1 DEF Settled, LiveInv, BanksInv
  <2>7. QED BY <1>3, <2>2, <2>4, <2>5, <2>6 DEF Agrees, f
<1>6. QED BY <1>4, <1>5 DEF f

\* Entering a routine keeps the stack in agreement.
LEMMA EnterStack ==
  ASSUME LiveInv, NEW a \in Targets, NEW below \in Seq(Frame), Enter(a, below),
         \A i \in 1 .. Len(below) : Waits(below[i]), bank' = bank
  PROVE  StackInv'
<1>1. PICK f \in Frame : /\ frames' = Append(below, f)
                         /\ \/ f.kind = "interp"
                            \/ f.kind = "native" /\ Settled(f) /\ Agrees(f)
  <2>1. ASSUME NEW e \in Callees(a)
        PROVE  Compiled(e) \in Frame
    <3>1. e \in Entry
      BY <2>1 DEF Callees, Dispatched, Variants, LiveInv, TypeInv
    <3>2. QED BY <3>1, Constants DEF Compiled, Frame, Entry
  <2>2. Interpreted \in Frame /\ Interpreted.kind = "interp"
    BY Constants DEF Interpreted, Frame
  <2>3. QED BY <2>1, <2>2, EnterLive DEF Enter
<1>2. /\ frames' \in Seq(Frame) /\ Len(frames') = Len(below) + 1 /\ Len(below) \in Nat
      /\ \A i \in 1 .. Len(below) : frames'[i] = below[i]
      /\ frames'[Len(below) + 1] = f /\ frames' # << >>
  BY <1>1, AppendFacts
<1>3. Me' = f
  BY <1>2, FrontFacts DEF Me
<1>4. Agrees(f) => Agrees(f)'
  BY DEF Agrees, Live
<1>5. \A i \in 1 .. Len(frames') - 1 : Waits(frames'[i])
  BY <1>2
<1>6. QED BY <1>1, <1>3, <1>4, <1>5 DEF StackInv, Settled, Waits

\* A caller that calls agrees with the bank it leaves.
LEMMA CallerWaits ==
  ASSUME LiveInv, Running
  PROVE  \A i \in 1 .. Len(Waiting) : Waits(Waiting[i])
<1>1. frames # << >> /\ Me.kind = "native" /\ TypeInv
  BY DEF Running, LiveInv
<1>2. Settled(Me) /\ Agrees(Me)
  BY <1>1 DEF LiveInv, StackInv
<1> DEFINE n == Len(frames)
<1>3. Waits(Waiting[n])
  <2>1. /\ Waiting[n].kind = "native" /\ Waiting[n].fn = Me.fn
        /\ Waiting[n].pc = Me.pc /\ Waiting[n].saved = bank[Slot(Me.pc)]
    BY <1>1, WaitingStack
  <2>2. ASSUME Region(Me.pc) # -1
        PROVE  Decoded(Me.fn, Me.pc) = bank[Slot(Me.pc)]
    <3>1. Me.pc \in 0 .. Ram - 1
      BY <1>1, Below DEF Frame
    <3>2. ~(Me.pc < FixedSize)
      BY <2>2 DEF Region
    <3>3. QED BY <1>1, <1>2, <3>1, <3>2, LiveBank DEF Agrees, LiveInv
  <2>3. QED BY <1>2, <2>1, <2>2 DEF Waits, Settled
<1>4. \A i \in 1 .. n - 1 : Waits(Waiting[i])
  BY <1>1, WaitingStack DEF LiveInv, StackInv
<1>5. n \in Nat /\ n > 0 /\ Len(Waiting) = n
  BY <1>1, Below, WaitingStack
<1>6. QED BY <1>3, <1>4, <1>5

\* A run starts in agreement, in the reset routine.
LEMMA StartStack ==
  ASSUME NEW f, f = [kind |-> "native", fn |-> Reset, pc |-> 0, saved |-> 0]
  PROVE  f \in Frame /\ f.kind = "native" /\ Settled(f) /\ Decoded(f.fn, f.pc) = 0
         /\ f.pc < FixedSize
<1>1. f \in Frame
  BY Constants, BankingAssumption DEF Frame, Banks
<1>2. Runtime(Reset) = Slot(Reset.addr)
  BY DEF Runtime, Reset
<1>3. QED BY <1>1, <1>2, Constants DEF Settled, Decoded

LEMMA StackStep ==
  ASSUME WellBehaved, LiveInv, Next
  PROVE  StackInv'
<1>t. TypeInv
  BY DEF LiveInv
<1>1. ASSUME NEW a \in Addrs, Flow(a)
      PROVE  StackInv'
  <2>1. /\ frames # << >> /\ Me.kind = "native" /\ bank' = bank
        /\ frames' = Append(Front(frames), [Me EXCEPT !.pc = a])
        /\ Readable(Me.fn, a)
        /\ Slot(a) \in Paged => Region(a) \in {-1, Region(Me.pc)}
    BY <1>1 DEF Flow, Running, InBody, WellBehaved
  <2>2. a \in 0 .. Ram - 1 /\ a \in Nat /\ Slot(a) \in Slots
    BY <2>1, Constants, SlotOfRom DEF Readable, Addrs
  <2>f. PICK f : f = [kind |-> Me.kind, fn |-> Me.fn, pc |-> a, saved |-> Me.saved]
    OBVIOUS
  <2>3. [Me EXCEPT !.pc = a] = f /\ f \in Frame
    BY <1>t, <2>f, <2>1, <2>2, Below DEF Frame
  <2>4. Settled(Me) /\ Agrees(Me)
    BY <2>1 DEF LiveInv, StackInv
  <2>5. Decoded(Me.fn, a) = Live(a)
    <3>1. CASE a < FixedSize
      BY <3>1 DEF Decoded, Live
    <3>2. CASE ~(a < FixedSize)
      <4>1. Live(a) = bank[Slot(a)]
        BY <1>t, <2>2, <3>2, LiveBank DEF LiveInv
      <4>2. CASE Slot(a) \notin Paged
        <5>1. bank[Slot(a)] = Slot(a)
          BY <2>2, <4>2 DEF LiveInv, BanksInv
        <5>2. Slot(a) = Slot(Me.fn.addr) => Runtime(Me.fn) = Slot(a)
          BY <2>4, <4>2 DEF Settled
        <5>3. QED BY <3>2, <4>1, <5>1, <5>2 DEF Decoded
      <4>3. CASE Slot(a) \in Paged
        <5>1. Me.pc \in 0 .. Ram - 1 /\ Slot(Me.pc) \in Slots
          BY <1>t, <2>1, Below, SlotOfRom DEF Frame
        <5>2. Slot(a) # -1
          BY <2>2, Constants
        <5>3. ~(Me.pc < FixedSize) /\ Slot(Me.pc) = Slot(a)
          BY <2>1, <3>2, <4>3, <5>2 DEF Region
        <5>4. Live(Me.pc) = bank[Slot(a)]
          BY <1>t, <5>1, <5>3, LiveBank DEF LiveInv
        <5>5. Decoded(Me.fn, a) = Decoded(Me.fn, Me.pc)
          BY <3>2, <5>3 DEF Decoded
        <5>6. QED BY <2>4, <4>1, <5>4, <5>5 DEF Agrees
      <4>4. QED BY <4>2, <4>3
    <3>3. QED BY <3>1, <3>2
  <2>6. Settled(f) /\ Agrees(f)'
    BY <2>f, <2>1, <2>4, <2>5 DEF Settled, Agrees, Live
  <2>7. /\ frames' \in Seq(Frame) /\ Len(frames') = Len(frames) /\ frames' # << >>
        /\ \A i \in 1 .. Len(frames) - 1 : frames'[i] = frames[i]
        /\ frames'[Len(frames)] = f
    BY <1>t, <2>1, <2>3, Below, AppendFacts
  <2>8. Me' = f
    BY <2>7, FrontFacts DEF Me
  <2>9. f.kind = "native"
    BY <2>f, <2>1
  <2>10. \A i \in 1 .. Len(frames') - 1 : Waits(frames'[i])
    BY <2>7 DEF LiveInv, StackInv
  <2>11. QED BY <2>6, <2>8, <2>9, <2>10 DEF StackInv, Settled, Waits
<1>2. ASSUME NEW a \in Targets, Call(a)
      PROVE  StackInv'
  <2>1. Running /\ Enter(a, Waiting) /\ bank' = bank /\ frames # << >>
    BY <1>2 DEF Call, Running
  <2>2. QED BY <1>t, <2>1, CallerWaits, WaitingStack, EnterStack
<1>3. ASSUME NEW a \in Targets, TailJump(a)
      PROVE  StackInv'
  <2>1. frames # << >> /\ Enter(a, Front(frames)) /\ bank' = bank
    BY <1>3 DEF TailJump, Running
  <2>2. /\ Front(frames) \in Seq(Frame)
        /\ \A i \in 1 .. Len(Front(frames)) : Waits(Front(frames)[i])
    BY <1>t, <2>1, Below DEF LiveInv, StackInv
  <2>3. QED BY <2>1, <2>2, EnterStack
<1>4. ASSUME Return
      PROVE  StackInv'
  <2>f. PICK n, f : n = Len(frames) - 1 /\ f = frames[n]
    OBVIOUS
  <2>1. frames # << >> /\ Len(frames) > 1 /\ bank' = bank /\ frames' = Front(frames)
    BY <1>4, <1>t DEF Return, TypeInv
  <2>2. /\ frames' \in Seq(Frame) /\ Len(frames') = n /\ n \in Nat /\ n > 0
        /\ frames' # << >>
        /\ \A i \in 1 .. n : frames'[i] = frames[i]
    BY <1>t, <2>f, <2>1, Below
  <2>3. Me' = f /\ f \in Frame /\ Last(Front(frames)) = f
    <3>1. Last(frames') = frames'[n] /\ Last(frames') \in Frame
      BY <2>2, FrontFacts
    <3>2. frames'[n] = f
      BY <2>f, <2>2
    <3>3. QED BY <2>1, <3>1, <3>2 DEF Me
  <2>4. Waits(f)
    BY <2>f, <2>2 DEF LiveInv, StackInv
  <2>5. Region(f.pc) # -1 => bank[Slot(f.pc)] = f.saved
    BY <1>4, <2>3 DEF Return
  <2>6. f.pc \in 0 .. Ram - 1
    BY <2>3 DEF Frame
  <2>7. Agrees(f)
    <3>1. CASE f.pc < FixedSize
      BY <3>1 DEF Agrees, Decoded, Live
    <3>2. CASE ~(f.pc < FixedSize)
      <4>1. Region(f.pc) # -1
        BY <2>6, <3>2, SlotOfRom, Constants DEF Region
      <4>2. QED BY <1>t, <2>4, <2>5, <2>6, <3>2, <4>1, LiveBank DEF Agrees, Waits, LiveInv
    <3>3. QED BY <3>1, <3>2
  <2>8. f.kind = "native" /\ Settled(f) /\ Agrees(f)'
    BY <2>1, <2>4, <2>7 DEF Waits, Agrees, Live
  <2>9. \A i \in 1 .. Len(frames') - 1 : Waits(frames'[i])
    BY <2>f, <2>2 DEF LiveInv, StackInv
  <2>10. QED BY <2>3, <2>8, <2>9 DEF StackInv, Settled, Waits
<1>5. ASSUME NEW s \in Paged, NEW b \in Banks, Map(s, b)
      PROVE  StackInv'
  <2>1. /\ frames # << >> /\ frames' = frames /\ Me' = Me
        /\ Me.kind = "native" => Region(Me.pc) # s
        /\ bank' = [bank EXCEPT ![s] = b]
    BY <1>5 DEF Map, Me
  <2>2. ASSUME Me.kind = "native", Agrees(Me)
        PROVE  Agrees(Me)'
    <3>1. CASE Me.pc < FixedSize
      BY <2>1, <2>2, <3>1 DEF Agrees, Live
    <3>2. CASE ~(Me.pc < FixedSize)
      <4>1. Slot(Me.pc) # s /\ Slot(Me.pc) \in Slots
        BY <1>t, <2>1, <2>2, <3>2, Below, SlotOfRom DEF Region, Frame
      <4>2. bank'[Slot(Me.pc)] = bank[Slot(Me.pc)]
        BY <1>t, <2>1, <4>1 DEF TypeInv
      <4>3. QED BY <2>1, <2>2, <3>2, <4>2 DEF Agrees, Live
    <3>3. QED BY <3>1, <3>2
  <2>3. QED BY <2>1, <2>2 DEF LiveInv, StackInv, Waits, Settled
<1>6. ASSUME Start
      PROVE  StackInv'
  <2> DEFINE f == [kind |-> "native", fn |-> Reset, pc |-> 0, saved |-> 0]
  <2>1. frames' = <<f>>
    BY <1>6 DEF Start
  <2>2. f \in Frame /\ f.kind = "native" /\ Settled(f) /\ Decoded(f.fn, f.pc) = 0
        /\ f.pc < FixedSize
    BY StartStack
  <2> HIDE DEF f
  <2>3. Len(frames') = 1 /\ Me' = f
    BY <2>1 DEF Me, Last
  <2>4. Agrees(f)'
    BY <2>2 DEF Agrees, Live
  <2>5. QED BY <2>2, <2>3, <2>4 DEF StackInv, Settled
<1>7. QED BY <1>1, <1>2, <1>3, <1>4, <1>5, <1>6 DEF Next, Restart, Rebuild

\* Recording a row adds the banks of the moment.
LEMMA RecordedRows ==
  ASSUME NEW a \in Targets, NEW below, Enter(a, below)
  PROVE  \A r \in manifest' : r \in manifest \/ r.banks = bank
BY DEF Enter, Miss, Record

LEMMA BanksStep ==
  ASSUME WellBehaved, LiveInv, Next
  PROVE  BanksInv'
<1> DEFINE Own(banks) == \A s \in Slots : banks[s] < NumBanks /\ (s \notin Paged => banks[s] = s)
<1>1. Own(bank) /\ \A r \in manifest : Own(r.banks)
  BY DEF LiveInv, BanksInv
<1>2. Own(ResetBanks)
  BY Constants
<1>3. SUFFICES Own(bank') /\ \A r \in manifest' : Own(r.banks)
  BY DEF BanksInv
<1> HIDE DEF Own
<1>4. ASSUME NEW a \in Addrs, Flow(a)
      PROVE  Own(bank') /\ \A r \in manifest' : Own(r.banks)
  BY <1>1, <1>4 DEF Flow
<1>5. ASSUME NEW a \in Targets, Call(a) \/ TailJump(a)
      PROVE  Own(bank') /\ \A r \in manifest' : Own(r.banks)
  <2>1. bank' = bank /\ \E below \in {Waiting, Front(frames)} : Enter(a, below)
    BY <1>5 DEF Call, TailJump
  <2>2. \A r \in manifest' : r \in manifest \/ r.banks = bank
    BY <2>1, RecordedRows
  <2>3. QED BY <1>1, <2>1, <2>2
<1>6. ASSUME Return
      PROVE  Own(bank') /\ \A r \in manifest' : Own(r.banks)
  BY <1>1, <1>6 DEF Return
<1>7. ASSUME NEW s \in Paged, NEW b \in Banks, Map(s, b)
      PROVE  Own(bank') /\ \A r \in manifest' : Own(r.banks)
  <2>1. bank' = [bank EXCEPT ![s] = b] /\ manifest' = manifest /\ ~(b >= NumBanks)
    BY <1>7 DEF Map, WellBehaved
  <2>2. b < NumBanks
    BY <2>1, BankingAssumption DEF Banks
  <2>3. \A t \in Slots : bank'[t] = IF t = s THEN b ELSE bank[t]
    BY <2>1 DEF LiveInv, TypeInv
  <2>4. Own(bank')
    BY <1>1, <2>2, <2>3 DEF Own
  <2>5. QED BY <1>1, <2>1, <2>4
<1>8. ASSUME Start
      PROVE  Own(bank') /\ \A r \in manifest' : Own(r.banks)
  BY <1>1, <1>2, <1>8 DEF Start, LiveInv, TypeInv
<1>9. QED BY <1>4, <1>5, <1>6, <1>7, <1>8 DEF Next, Restart, Rebuild

\* What discovery finds in the fixed region runs under slot 0's own bank.
LEMMA DiscoveredFixed ==
  \A e \in Discoverable : e.addr < FixedSize => Runtime(e) = 0
BY FixedSlot DEF Discoverable, Entry, Runtime

\* What the manifest seeds was live when it was recorded.
LEMMA SeededFixed ==
  ASSUME LiveInv, NEW e \in Seeds, e.addr < FixedSize, 0 \notin Paged
  PROVE  Runtime(e) = 0
<1>1. PICK r \in file : e = Seed(r) /\ r.addr < Ram
  BY DEF Seeds
<1>2. r \in manifest /\ r \in Row
  BY DEF LiveInv, TypeInv
<1>3. e.addr = r.addr /\ e.bank = r.banks[Slot(r.addr)]
  BY <1>1 DEF Seed
<1>4. Slot(r.addr) = 0
  BY <1>2, <1>3, FixedSlot DEF Row, Addrs
<1>5. e.bank = 0
  BY <1>2, <1>3, <1>4, Constants DEF LiveInv, BanksInv
<1>6. QED BY <1>5 DEF Runtime

LEMMA FixedStep ==
  ASSUME WellBehaved, LiveInv, Next
  PROVE  FixedInv'
<1>1. ASSUME Rebuild
      PROVE  FixedInv'
  <2>1. Found \subseteq Discoverable
    BY BankingAssumption DEF Listed, WellBehaved
  <2>2. PICK more \in Cascades : entries' = Found \union Seeds \union more
    BY <1>1 DEF Rebuild
  <2>3. more \subseteq Discoverable
    BY DEF Cascades
  <2>4. \A e \in entries' : e \in Discoverable \/ e \in Seeds
    BY <2>1, <2>2, <2>3
  <2>5. QED BY <2>4, DiscoveredFixed, SeededFixed DEF FixedInv, Runtime
<1>2. CASE ~Rebuild
  <2>1. entries' = entries
    BY <1>2 DEF Next, Flow, Call, TailJump, Return, Map, Restart
  <2>2. QED BY <2>1 DEF LiveInv, FixedInv, Runtime
<1>3. QED BY <1>1, <1>2

LEMMA LiveStart == WellBehaved /\ Init => LiveInv
<1> SUFFICES ASSUME WellBehaved, Init PROVE LiveInv
  OBVIOUS
<1>1. TypeInv
  BY TypeStart
<1>2. BanksInv
  BY Constants DEF Init, BanksInv
<1>3. FixedInv
  BY DiscoveredFixed, BankingAssumption DEF Init, FixedInv, Listed, WellBehaved
<1>4. StackInv
  <2>f. PICK f : f = [kind |-> "native", fn |-> Reset, pc |-> 0, saved |-> 0]
    OBVIOUS
  <2>1. frames = <<f>>
    BY <2>f DEF Init
  <2>2. f \in Frame /\ f.kind = "native" /\ Settled(f) /\ Decoded(f.fn, f.pc) = 0
        /\ f.pc < FixedSize
    BY <2>f, StartStack
  <2>3. Len(frames) = 1 /\ Me = f
    BY <2>1 DEF Me, Last
  <2>4. QED BY <2>2, <2>3 DEF StackInv, Agrees, Live
<1>5. QED BY <1>1, <1>2, <1>3, <1>4 DEF LiveInv

LEMMA LiveStep == WellBehaved /\ LiveInv /\ [Next]_vars => LiveInv'
<1> SUFFICES ASSUME WellBehaved, LiveInv, [Next]_vars PROVE LiveInv'
  OBVIOUS
<1>1. TypeInv'
  BY TypeStep DEF LiveInv
<1>2. CASE Next
  BY <1>1, <1>2, StackStep, BanksStep, FixedStep DEF LiveInv
<1>3. CASE UNCHANGED vars
  <2>1. BanksInv' /\ FixedInv'
    BY <1>3 DEF vars, LiveInv, BanksInv, FixedInv, Runtime
  <2>2. StackInv'
    BY <1>3 DEF vars, LiveInv, StackInv, Me, Agrees, Live, Waits, Settled
  <2>3. QED BY <1>1, <2>1, <2>2 DEF LiveInv
<1>4. QED BY <1>2, <1>3

\* Compiled code that runs was compiled from the bank that is live, for every
\* ROM, manifest and well-behaved program: no plain jump into a paged slot from
\* outside it, no bank beyond the ROM, no banked table of fixed handlers
\* (name_for_target, write_dispatch, trace_function, manifest_seed).
THEOREM CompiledFromLive == ASSUME WellBehaved PROVE Spec => []RunsLiveCode
<1>1. LiveInv => RunsLiveCode
  BY DEF LiveInv, StackInv, Agrees, RunsLiveCode
<1>2. QED BY <1>1, LiveStart, LiveStep, PTL DEF Spec

-----------------------------------------------------------------------------
(* Learning.                                                                *)

LearntInv == \A p \in learnt : [addr |-> p[1], bank |-> p[2]] \in entries

\* A row of a ROM's own banks is always verified.
LEMMA RowsVerified ==
  ASSUME WellBehaved, LiveInv, NEW r \in file, r.addr < Ram
  PROVE  Verified(r)
<1>1. r \in manifest /\ r \in Row
  BY DEF LiveInv, TypeInv
<1>2. \A s \in Slots : r.banks[s] < NumBanks
  BY <1>1 DEF LiveInv, BanksInv
<1>3. r.addr \in 0 .. Ram - 1
  BY <1>1, Constants DEF Row, Addrs
<1>4. \A a \in Window(r.addr) : a = Ram \/ a \in 0 .. Ram - 1
  BY <1>3, Constants DEF Window
<1>5. QED BY <1>2, <1>4, SlotOfRom DEF Verified

LEMMA LearntStep ==
  ASSUME WellBehaved, LiveInv, LearntInv, Next
  PROVE  LearntInv'
<1>1. ASSUME Rebuild
      PROVE  LearntInv'
  <2>1. /\ learnt' = {<<r.addr, r.banks[Slot(r.addr)]>> : r \in {q \in file : q.addr < Ram}}
        /\ Seeds \subseteq entries'
    BY <1>1 DEF Rebuild
  <2>2. SUFFICES ASSUME NEW p \in learnt'
                 PROVE  [addr |-> p[1], bank |-> p[2]] \in entries'
    BY DEF LearntInv
  <2>3. PICK r \in file : r.addr < Ram /\ p = <<r.addr, r.banks[Slot(r.addr)]>>
    BY <2>1
  <2>4. Seed(r) \in Seeds
    BY <2>3, RowsVerified DEF Seeds
  <2>5. Seed(r) = [addr |-> p[1], bank |-> p[2]]
    BY <2>3 DEF Seed
  <2>6. QED BY <2>1, <2>4, <2>5
<1>2. CASE ~Rebuild
  <2>1. entries' = entries /\ learnt' = learnt
    BY <1>2 DEF Next, Flow, Call, TailJump, Return, Map, Restart
  <2>2. QED BY <2>1 DEF LearntInv
<1>3. QED BY <1>1, <1>2

\* An entry under the live bank of its slot is found by every way of calling.
LEMMA LearntFound == TypeInv /\ LearntInv => LearntNeverMisses
<1> SUFFICES ASSUME TypeInv, LearntInv, NEW p \in learnt, bank[Slot(p[1])] = p[2]
             PROVE  Callees(p[1]) # {}
  BY DEF LearntNeverMisses
<1>1. p[1] \in 0 .. Ram - 1 /\ p[2] \in Banks
  BY DEF TypeInv
<1>2. PICK e : e = [addr |-> p[1], bank |-> p[2]]
  OBVIOUS
<1>3. e \in Variants(p[1])
  BY <1>2 DEF LearntInv, Variants
<1>4. p[2] # -1 /\ p[1] < Ram
  BY <1>1, Constants DEF Banks
<1>5. Runtime(e) = bank[Slot(p[1])]
  BY <1>2, <1>4 DEF Runtime
<1>6. e \in Dispatched(p[1])
  BY <1>3, <1>4, <1>5 DEF Dispatched
<1>7. QED BY <1>3, <1>6 DEF Callees

\* What was on file when a build was made never misses in it, for every
\* manifest and every program that selects only banks its ROM has
\* (manifest_record, manifest_load, manifest_seed, write_dispatch).
THEOREM LearntIsCompiled == ASSUME WellBehaved PROVE Spec => []LearntNeverMisses
<1>1. Init => LearntInv
  BY DEF Init, LearntInv
<1>2. LearntInv /\ UNCHANGED vars => LearntInv'
  BY DEF LearntInv, vars
<1>3. LiveInv /\ LearntInv => LearntNeverMisses
  BY LearntFound DEF LiveInv
<1>4. QED BY <1>1, <1>2, <1>3, LearntStep, LiveStart, LiveStep, PTL DEF Spec
=============================================================================
