------------------------- MODULE TraceReplayProofs -------------------------
(***************************************************************************)
(* The safety properties of TraceReplay, for every recorded waveform, set  *)
(* of registers, word size and breakpoint address.                         *)
(***************************************************************************)
EXTENDS TraceReplay, TraceLemmas

-----------------------------------------------------------------------------
\* What the assumptions on the constants say of the present waveform.
LEMMA WaveTypes ==
  ASSUME wave \in Waves
  PROVE  /\ Len(wave.pcTrace) \in Nat /\ Len(wave.pcTrace) >= 1
         /\ End = Len(wave.pcTrace) + 1
         /\ DOMAIN wave.pcTrace = 1..(End - 1)
         /\ \A i \in 1..(End - 1) : TimeAt(i) \in Nat /\ PcAt(i) \in 0..(WordSpan - 1)
         /\ wave.regTrace \in Seq(Accesses)
<1>1. wave.pcTrace \in Seq(PcValues) /\ Len(wave.pcTrace) > 0
      /\ wave.regTrace \in Seq(Accesses)
  BY WavesAssumption
<1>2. Len(wave.pcTrace) \in Nat /\ DOMAIN wave.pcTrace = 1..Len(wave.pcTrace)
  BY <1>1
<1>3. ASSUME NEW i \in 1..Len(wave.pcTrace)
      PROVE  TimeAt(i) \in Nat /\ PcAt(i) \in 0..(WordSpan - 1)
  <2>1. wave.pcTrace[i] \in PcValues
    BY <1>1
  <2>2. wave.pcTrace[i].time \in Nat /\ wave.pcTrace[i].pc \in Nat
    BY <2>1 DEF PcValues
  <2>3. QED BY <2>2, ModRange, WordAssumption DEF TimeAt, PcAt, Word
<1>4. QED BY <1>1, <1>2, <1>3 DEF End

\* A lookup that finds a value finds a recorded one, and it fits a register.
LEMMA LookupRecorded ==
  ASSUME wave \in Waves, NEW t \in Nat, NEW r, HasValue(wave.regTrace, t, r)
  PROVE  /\ Word(ValueAt(wave.regTrace, t, r)) \in 0..(WordSpan - 1)
         /\ RecordedValue(r, Word(ValueAt(wave.regTrace, t, r)))
<1>1. wave.regTrace \in Seq(Accesses)
  BY WaveTypes
<1>2. PICK i \in DOMAIN wave.regTrace :
         /\ wave.regTrace[i].wr /\ wave.regTrace[i].addr = r
         /\ wave.regTrace[i].value \in Nat
         /\ ValueAt(wave.regTrace, t, r) = wave.regTrace[i].value
  BY <1>1, ValueAtIsLastWrite
<1>3. Word(ValueAt(wave.regTrace, t, r)) \in 0..(WordSpan - 1)
  BY <1>2, ModRange, WordAssumption DEF Word
<1>4. QED BY <1>2, <1>3 DEF RecordedValue

\* dbg_sys_update_state: types, provenance and currency of what it leaves.
LEMMA RefreshCorrect ==
  ASSUME wave \in Waves, NEW i \in 1..(End - 1), NEW old,
         old \in [Reg -> 0..(WordSpan - 1)],
         \A r \in Reg : old[r] = DeadBeef \/ RecordedValue(r, old[r])
  PROVE  /\ Refreshed(old, i) \in [Reg -> 0..(WordSpan - 1)]
         /\ \A r \in Reg : \/ Refreshed(old, i)[r] = DeadBeef
                           \/ RecordedValue(r, Refreshed(old, i)[r])
         /\ \A r \in Reg :
               HasValue(wave.regTrace, TimeAt(i), r) =>
                  Refreshed(old, i)[r] = Word(ValueAt(wave.regTrace, TimeAt(i), r))
<1>1. TimeAt(i) \in Nat
  BY WaveTypes
<1>2. ASSUME NEW r \in Reg
      PROVE  /\ Refreshed(old, i)[r] \in 0..(WordSpan - 1)
             /\ \/ Refreshed(old, i)[r] = DeadBeef
                \/ RecordedValue(r, Refreshed(old, i)[r])
  <2>1. CASE HasValue(wave.regTrace, TimeAt(i), r)
    <3>1. Refreshed(old, i)[r] = Word(ValueAt(wave.regTrace, TimeAt(i), r))
      BY <2>1 DEF Refreshed
    <3>2. QED BY <1>1, <2>1, <3>1, LookupRecorded
  <2>2. CASE ~HasValue(wave.regTrace, TimeAt(i), r)
    <3>1. Refreshed(old, i)[r] = old[r]
      BY <2>2 DEF Refreshed
    <3>2. QED BY <3>1
  <2>3. QED BY <2>1, <2>2
<1>3. Refreshed(old, i) \in [Reg -> 0..(WordSpan - 1)]
  BY <1>2 DEF Refreshed
<1>4. QED BY <1>2, <1>3 DEF Refreshed

-----------------------------------------------------------------------------
\* The inductive invariant: the four safety properties support each other.
\* Restart is what StateFollowsPosition has to make an exception for.
Inv == TypeOK /\ StoppedInsideTrace /\ StateFollowsPosition /\ NothingInvented

\* An operation that ends in dbg_sys_update_state establishes it afresh.
LEMMA UpdateEstablishes ==
  ASSUME Inv, wave' = wave, it' \in 1..(End - 1), UpdateState(it'),
         signum' \in {0, SIGTRAP}, breakpoints' = breakpoints,
         mode' = "stopped", ret' \in {0, -1}
  PROVE  Inv'
<1>1. wave \in Waves /\ regs \in [Reg -> 0..(WordSpan - 1)]
      /\ \A r \in Reg : regs[r] = DeadBeef \/ RecordedValue(r, regs[r])
  BY DEF Inv, TypeOK, NothingInvented
<1>2. End' = End /\ (\A i : PcAt(i)' = PcAt(i)) /\ (\A i : TimeAt(i)' = TimeAt(i))
  BY DEF End, PcAt, TimeAt
<1>3. regs' = Refreshed(regs, it') /\ pcReg' = PcAt(it')
  BY DEF UpdateState
<1>4. /\ regs' \in [Reg -> 0..(WordSpan - 1)]
      /\ \A r \in Reg : regs'[r] = DeadBeef \/ RecordedValue(r, regs'[r])
      /\ \A r \in Reg : HasValue(wave.regTrace, TimeAt(it'), r) =>
            regs'[r] = Word(ValueAt(wave.regTrace, TimeAt(it'), r))
  BY <1>1, <1>3, RefreshCorrect
<1>5. End \in Nat /\ DOMAIN wave.pcTrace = 1..(End - 1)
      /\ PcAt(it') \in 0..(WordSpan - 1)
  BY <1>1, WaveTypes
<1>6. TypeOK'
  BY <1>1, <1>2, <1>3, <1>4, <1>5 DEF Inv, TypeOK
<1>7. StoppedInsideTrace'
  BY <1>2, <1>5 DEF StoppedInsideTrace
<1>8. StateFollowsPosition'
  BY <1>2, <1>3, <1>4 DEF StateFollowsPosition, ShowsPosition, PcAt, TimeAt
<1>9. NothingInvented'
  BY <1>3, <1>4, <1>5 DEF NothingInvented, RecordedValue, PcAt
<1>10. QED BY <1>6, <1>7, <1>8, <1>9 DEF Inv

LEMMA InitInv == Init => Inv
<1> SUFFICES ASSUME Init PROVE Inv
  OBVIOUS
<1> USE DEF Init
<1>1. wave \in Waves /\ 1 \in 1..(End - 1) /\ End \in Nat
      /\ DOMAIN wave.pcTrace = 1..(End - 1) /\ PcAt(1) \in 0..(WordSpan - 1)
  BY WaveTypes
<1> DEFINE old == [r \in Reg |-> DeadBeef]
<1>2. old \in [Reg -> 0..(WordSpan - 1)]
      /\ \A r \in Reg : old[r] = DeadBeef \/ RecordedValue(r, old[r])
  BY WordAssumption
<1>3. regs = Refreshed(old, 1)
  OBVIOUS
<1>4. /\ regs \in [Reg -> 0..(WordSpan - 1)]
      /\ \A r \in Reg : regs[r] = DeadBeef \/ RecordedValue(r, regs[r])
  <2> HIDE DEF old, Init
  <2>1. QED BY <1>1, <1>2, <1>3, RefreshCorrect
<1>5. TypeOK
  BY <1>1, <1>4 DEF TypeOK, SIGTRAP
<1>6. StoppedInsideTrace
  BY <1>1 DEF StoppedInsideTrace
<1>7. StateFollowsPosition
  BY DEF StateFollowsPosition
<1>8. NothingInvented
  BY <1>1, <1>4 DEF NothingInvented
<1>9. QED BY <1>5, <1>6, <1>7, <1>8 DEF Inv

LEMMA NextInv == Inv /\ [Next]_vars => Inv'
<1> SUFFICES ASSUME Inv, [Next]_vars PROVE Inv'
  OBVIOUS
<1>1. wave \in Waves /\ End \in Nat /\ it \in 1..End
      /\ DOMAIN wave.pcTrace = 1..(End - 1) /\ End - 1 >= 1
  BY WaveTypes DEF Inv, TypeOK
<1> USE DEF SIGTRAP
<1>2. CASE ContinueCall
  BY <1>2 DEF ContinueCall, Inv, TypeOK, StoppedInsideTrace, StateFollowsPosition,
     NothingInvented, RecordedValue, End, PcAt
<1>3. CASE ContinueScan
  <2>1. TypeOK'
    BY <1>1, <1>3 DEF ContinueScan, Inv, TypeOK, End
  <2>2. StoppedInsideTrace' /\ StateFollowsPosition'
    BY <1>3 DEF ContinueScan, StoppedInsideTrace, StateFollowsPosition
  <2>3. NothingInvented'
    BY <1>3 DEF ContinueScan, Inv, NothingInvented, RecordedValue, PcAt
  <2>4. QED BY <2>1, <2>2, <2>3 DEF Inv
<1>4. CASE ContinueReturn
  <2>1. it' \in 1..(End - 1)
    BY <1>1, <1>4 DEF ContinueReturn, AtBreakpoint
  <2>2. QED BY <1>4, <2>1, UpdateEstablishes DEF ContinueReturn
<1>5. CASE StepToNext
  <2>1. it' \in 1..(End - 1)
    BY <1>1, <1>5 DEF StepToNext
  <2>2. mode' = "stopped"
    BY <1>5 DEF StepToNext
  <2>3. QED BY <1>5, <2>1, <2>2, UpdateEstablishes DEF StepToNext
<1>6. CASE StepAtEnd
  <2>1. it < End
    BY <1>6 DEF StepAtEnd, Inv, StoppedInsideTrace
  <2>2. it' = it
    BY <1>1, <1>6, <2>1 DEF StepAtEnd
  <2>3. TypeOK'
    BY <1>6, <2>2 DEF StepAtEnd, Inv, TypeOK, End
  <2>4. StoppedInsideTrace'
    BY <1>6, <2>1, <2>2 DEF StepAtEnd, StoppedInsideTrace, End
  <2>5. StateFollowsPosition'
    BY <1>6, <2>2 DEF StepAtEnd, Inv, StateFollowsPosition, ShowsPosition, PcAt, TimeAt
  <2>6. NothingInvented'
    BY <1>6 DEF StepAtEnd, Inv, NothingInvented, RecordedValue, PcAt
  <2>7. QED BY <2>3, <2>4, <2>5, <2>6 DEF Inv
<1>7. CASE Restart
  <2>1. TypeOK'
    BY <1>1, <1>7 DEF Restart, Inv, TypeOK, End
  <2>2. StoppedInsideTrace'
    BY <1>1, <1>7 DEF Restart, StoppedInsideTrace, End
  <2>3. StateFollowsPosition'
    BY <1>7 DEF Restart, StateFollowsPosition
  <2>4. NothingInvented'
    BY <1>7 DEF Restart, Inv, NothingInvented, RecordedValue, PcAt
  <2>5. QED BY <2>1, <2>2, <2>3, <2>4 DEF Inv
<1>8. ASSUME NEW a \in Address, AddBreakpoint(a) \/ DeleteBreakpoint(a)
      PROVE  Inv'
  <2>1. /\ UNCHANGED <<wave, it, regs, pcReg, signum, mode, ret>>
        /\ breakpoints' \subseteq breakpoints \cup Address
    BY <1>8 DEF AddBreakpoint, DeleteBreakpoint
  <2>2. TypeOK'
    BY <2>1, WordAssumption DEF Inv, TypeOK, End
  <2>3. StoppedInsideTrace' /\ StateFollowsPosition'
    BY <2>1 DEF Inv, StoppedInsideTrace, StateFollowsPosition, ShowsPosition,
       PcAt, TimeAt, End
  <2>4. NothingInvented'
    BY <2>1 DEF Inv, NothingInvented, RecordedValue, PcAt
  <2>5. QED BY <2>2, <2>3, <2>4 DEF Inv
<1>9. CASE UNCHANGED vars
  BY <1>9 DEF vars, Inv, TypeOK, StoppedInsideTrace, StateFollowsPosition,
     ShowsPosition, NothingInvented, RecordedValue, PcAt, TimeAt, End
<1>10. QED BY <1>2, <1>3, <1>4, <1>5, <1>6, <1>7, <1>8, <1>9 DEF Next, Step

\* The invariant holds of every reachable state.
THEOREM Invariance == Spec => []Inv
<1>1. Init => Inv
  BY InitInv
<1>2. Inv /\ [Next]_vars => Inv'
  BY NextInv
<1>3. QED BY <1>1, <1>2, PTL DEF Spec

\* Type correctness: registers and the program counter stay 32-bit words and
\* the iterator stays between begin() and end().
THEOREM TypeCorrect == Spec => []TypeOK
<1>1. Inv => TypeOK
  BY DEF Inv
<1>2. QED BY <1>1, Invariance, PTL

\* No sequence of commands leaves GDB served with the iterator at end().
THEOREM NeverServesEnd == Spec => []StoppedInsideTrace
<1>1. Inv => StoppedInsideTrace
  BY DEF Inv
<1>2. QED BY <1>1, Invariance, PTL

\* Outside the first instruction, GDB is shown the recorded state of the
\* instruction the replay stands at.
THEOREM StateCurrent == Spec => []StateFollowsPosition
<1>1. Inv => StateFollowsPosition
  BY DEF Inv
<1>2. QED BY <1>1, Invariance, PTL

\* Every value GDB is shown was recorded, or is the 0xdeadbeef filler.
THEOREM ValuesRecorded == Spec => []NothingInvented
<1>1. Inv => NothingInvented
  BY DEF Inv
<1>2. QED BY <1>1, Invariance, PTL

-----------------------------------------------------------------------------
(* What the registers hold, and when. *)

\* A register that dbg_sys_update_state leaves at entry i has the value of that
\* entry, or the one it had.
LEMMA RefreshedHere ==
  ASSUME NEW old, NEW i, NEW r \in Reg
  PROVE  \/ Refreshed(old, i)[r] = old[r]
         \/ /\ HasValue(wave.regTrace, TimeAt(i), r)
            /\ Refreshed(old, i)[r] = Word(ValueAt(wave.regTrace, TimeAt(i), r))
BY DEF Refreshed

LEMMA InitPast == Init => OfThePast
<1> SUFFICES ASSUME Init, NEW r \in Reg, regs[r] # DeadBeef
             PROVE  /\ 1 \in 1..it /\ 1 # End
                    /\ HasValue(wave.regTrace, TimeAt(1), r)
                    /\ regs[r] = Word(ValueAt(wave.regTrace, TimeAt(1), r))
  BY DEF OfThePast
<1>1. wave \in Waves /\ it = 1
  BY DEF Init
<1>2. 1 # End /\ 1 \in 1..it
  BY <1>1, WaveTypes
<1> DEFINE old == [x \in Reg |-> DeadBeef]
<1>3. regs = Refreshed(old, 1) /\ old[r] = DeadBeef
  BY DEF Init
<1> HIDE DEF old
<1>4. QED BY <1>2, <1>3, RefreshedHere

\* An operation that does not go back, and keeps or refreshes the registers.
LEMMA ForwardPast ==
  ASSUME OfThePast, wave' = wave, End \in Nat, it \in 1..End, it' \in 1..End,
         \/ regs' = regs /\ it <= it'
         \/ regs' = Refreshed(regs, it') /\ it' # End /\ it - 1 <= it' /\ (it' < it => it = End)
  PROVE  OfThePast'
<1> SUFFICES ASSUME NEW r \in Reg, regs'[r] # DeadBeef
             PROVE  \E i \in 1..it' : /\ i # End
                                      /\ HasValue(wave.regTrace, TimeAt(i), r)
                                      /\ regs'[r] = Word(ValueAt(wave.regTrace, TimeAt(i), r))
  BY DEF OfThePast, TimeAt, End
<1>1. CASE regs'[r] = regs[r]
  <2>1. PICK i \in 1..it : /\ i # End
                           /\ HasValue(wave.regTrace, TimeAt(i), r)
                           /\ regs[r] = Word(ValueAt(wave.regTrace, TimeAt(i), r))
    BY <1>1 DEF OfThePast
  <2>2. i \in 1..it'
    BY <2>1
  <2>3. QED BY <1>1, <2>1, <2>2
<1>2. CASE regs'[r] # regs[r]
  <2>1. regs' = Refreshed(regs, it') /\ it' # End /\ it' \in 1..it'
    BY <1>2
  <2>2. QED BY <1>2, <2>1, RefreshedHere
<1>3. QED BY <1>1, <1>2

LEMMA NextPast == Inv /\ OfThePast /\ Next => OfThePast' \/ Restart
<1> SUFFICES ASSUME Inv, OfThePast, Next, ~Restart PROVE OfThePast'
  OBVIOUS
<1>1. wave \in Waves /\ End \in Nat /\ it \in 1..End /\ End - 1 >= 1
  BY WaveTypes DEF Inv, TypeOK
<1>2. CASE ContinueCall \/ ContinueScan
  BY <1>1, <1>2, ForwardPast DEF ContinueCall, ContinueScan
<1>3. CASE ContinueReturn
  BY <1>1, <1>3, ForwardPast DEF ContinueReturn, AtBreakpoint, UpdateState
<1>4. CASE StepToNext
  BY <1>1, <1>4, ForwardPast DEF StepToNext, UpdateState
<1>5. CASE StepAtEnd
  BY <1>1, <1>5, ForwardPast DEF StepAtEnd, Inv, StoppedInsideTrace
<1>6. ASSUME NEW a \in Address, AddBreakpoint(a) \/ DeleteBreakpoint(a)
      PROVE  OfThePast'
  BY <1>1, <1>6, ForwardPast DEF AddBreakpoint, DeleteBreakpoint
<1>7. QED BY <1>2, <1>3, <1>4, <1>5, <1>6 DEF Next, Step

\* Until the program is restarted, no register shows a value it has only later;
\* and no other operation begins to show one.
THEOREM ForeseesNothing == Spec => NothingForeseen
<1>1. Init => OfThePast
  BY InitPast
<1>2. Inv /\ [Next]_vars => [OfThePast => OfThePast' \/ Restart]_vars
  BY NextPast
<1>3. QED BY <1>1, <1>2, Invariance, PTL DEF Spec, NothingForeseen

-----------------------------------------------------------------------------
(***************************************************************************)
(* The refinement: StopFrom(it), which the mapping uses while the loop     *)
(* runs, is where a continue must stop, and an iteration does not move it. *)
(***************************************************************************)

\* The stop of a scan that starts at i is the first breakpoint from i on, or
\* the last instruction.
LEMMA StopFromCorrect ==
  ASSUME wave \in Waves, NEW i \in 1..(End - 1)
  PROVE  /\ StopFrom(i) \in i..(End - 1)
         /\ \A p \in i..(StopFrom(i) - 1) : PcAt(p) \notin breakpoints
         /\ StopFrom(i) = End - 1 \/ PcAt(StopFrom(i)) \in breakpoints
<1> DEFINE B == BreakpointsFrom(i)
<1>1. End - 1 \in Nat /\ B \in SUBSET (1..(End - 1))
  BY WaveTypes DEF BreakpointsFrom
<1>2. CASE B = {}
  <2>1. StopFrom(i) = End - 1
    BY <1>2 DEF StopFrom
  <2>2. \A p \in i..(End - 1) : PcAt(p) \notin breakpoints
    BY <1>2 DEF BreakpointsFrom
  <2>3. QED BY <1>1, <2>1, <2>2
<1>3. CASE B # {}
  <2>1. Min(B) \in B /\ \A x \in B : Min(B) <= x
    <3> HIDE DEF B
    <3>1. QED BY <1>1, <1>3, MinExists
  <2>2. StopFrom(i) = Min(B)
    BY <1>3 DEF StopFrom
  <2>3. StopFrom(i) \in i..(End - 1) /\ PcAt(StopFrom(i)) \in breakpoints
    BY <2>1, <2>2 DEF BreakpointsFrom
  <2>4. \A p \in i..(StopFrom(i) - 1) : PcAt(p) \notin breakpoints
    <3>1. ASSUME NEW p \in i..(StopFrom(i) - 1), PcAt(p) \in breakpoints
          PROVE  FALSE
      <4>1. p \in B
        BY <1>1, <2>3, <3>1 DEF BreakpointsFrom
      <4>2. StopFrom(i) <= p
        BY <2>1, <2>2, <4>1
      <4>3. QED BY <1>1, <2>3, <4>2
    <3>2. QED BY <3>1
  <2>5. QED BY <2>3, <2>4
<1>4. QED BY <1>2, <1>3

\* A scan at a breakpoint stops there; past the last entry, at the last entry.
LEMMA StopHere ==
  ASSUME wave \in Waves, it \in 1..End, it = End \/ AtBreakpoint
  PROVE  StopFrom(it) = IF it = End THEN End - 1 ELSE it
<1>1. End \in Nat
  BY WaveTypes
<1>2. CASE it = End
  BY <1>1, <1>2 DEF StopFrom, BreakpointsFrom
<1>3. CASE it # End
  <2>1. it \in 1..(End - 1) /\ PcAt(it) \in breakpoints
    BY <1>1, <1>3 DEF AtBreakpoint
  <2>2. StopFrom(it) \in it..(End - 1)
        /\ \A p \in it..(StopFrom(it) - 1) : PcAt(p) \notin breakpoints
    BY <2>1, StopFromCorrect
  <2>3. QED BY <1>1, <1>3, <2>1, <2>2
<1>4. QED BY <1>2, <1>3

\* Scanning past an instruction without a breakpoint does not move the stop.
LEMMA StopUnmoved ==
  ASSUME wave \in Waves, it \in 1..(End - 1), PcAt(it) \notin breakpoints
  PROVE  StopFrom(it + 1) = StopFrom(it)
<1>1. End \in Nat
  BY WaveTypes
<1>2. BreakpointsFrom(it + 1) = BreakpointsFrom(it)
  BY <1>1 DEF BreakpointsFrom
<1>3. QED BY <1>2 DEF StopFrom

LEMMA InitRefines == Init => Target!Init
<1> SUFFICES ASSUME Init PROVE Target!Init
  OBVIOUS
<1>1. wave \in Waves /\ Len(wave.pcTrace) >= 1 /\ Len(wave.pcTrace) \in Nat
  BY WaveTypes DEF Init
<1>2. Program(wave)[1] = PcAt(1)
  BY <1>1 DEF Program, PcAt
<1>3. QED BY <1>1, <1>2 DEF Init, Target!Init

\* Every step of the replay is a step of the target or leaves it alone.
LEMMA StepRefines == Inv /\ Inv' /\ [Next]_vars => [Target!Next]_Target!vars
<1> SUFFICES ASSUME Inv, Inv', [Next]_vars PROVE [Target!Next]_Target!vars
  OBVIOUS
<1>1. wave \in Waves /\ End \in Nat /\ it \in 1..End /\ End - 1 >= 1
      /\ End = Len(wave.pcTrace) + 1
  BY WaveTypes DEF Inv, TypeOK
<1>2. Target!Last = End - 1
  BY <1>1 DEF Target!Last, Program
<1>3. \A p \in 1..(End - 1) : Program(wave)[p] = PcAt(p)
  BY <1>1 DEF Program, PcAt
<1>4. mode = "stopped" => it \in 1..(End - 1)
  BY <1>1 DEF Inv, StoppedInsideTrace
<1>5. CASE ContinueCall
  <2> USE <1>5 DEF ContinueCall
  <2>1. it \in 1..(End - 1) /\ mode = "stopped" /\ mode' = "running"
    BY <1>4
  <2>2. StopFrom(it)' = StopFrom(it) /\ PcAt(StopFrom(it))' = PcAt(StopFrom(it))
        /\ Program(wave)' = Program(wave)
    BY DEF StopFrom, BreakpointsFrom, PcAt, End, Program
  <2>3. /\ StopFrom(it) \in it..(End - 1)
        /\ \A p \in it..(StopFrom(it) - 1) : PcAt(p) \notin breakpoints
        /\ StopFrom(it) = End - 1 \/ PcAt(StopFrom(it)) \in breakpoints
    BY <1>1, <2>1, StopFromCorrect
  <2>4. Target!StopsAt(StopFrom(it))
    BY <1>1, <1>2, <1>3, <2>1, <2>3 DEF Target!StopsAt
  <2>5. Target!Continue
    BY <1>1, <1>2, <1>3, <2>1, <2>2, <2>3, <2>4 DEF Target!Continue
  <2>6. QED BY <2>5 DEF Target!Next
<1>6. CASE ContinueScan
  <2> USE <1>6 DEF ContinueScan
  <2>1. it \in 1..(End - 1) /\ PcAt(it) \notin breakpoints
    BY <1>1 DEF AtBreakpoint
  <2>2. StopFrom(it + 1) = StopFrom(it)
    BY <1>1, <2>1, StopUnmoved
  <2>3. StopFrom(it)' = StopFrom(it + 1)
    BY DEF StopFrom, BreakpointsFrom, PcAt, End
  <2>4. PcAt(StopFrom(it))' = PcAt(StopFrom(it)) /\ Program(wave)' = Program(wave)
    BY <2>2, <2>3 DEF PcAt, Program
  <2>5. QED BY <2>2, <2>3, <2>4 DEF Target!vars
<1>7. CASE ContinueReturn
  <2> USE <1>7 DEF ContinueReturn
  <2>1. it' = StopFrom(it)
    BY <1>1, StopHere
  <2>2. pcReg' = PcAt(StopFrom(it)) /\ Program(wave)' = Program(wave)
    BY <2>1 DEF UpdateState, Program
  <2>3. QED BY <2>1, <2>2 DEF Target!vars
<1>8. CASE StepToNext
  <2> USE <1>8 DEF StepToNext
  <2>1. it < End - 1 /\ it + 1 \in 1..(End - 1)
    BY <1>1
  <2>2. pcReg' = Program(wave)[it + 1] /\ Program(wave)' = Program(wave)
    BY <1>3, <2>1 DEF UpdateState, Program
  <2>3. Target!Step
    BY <1>2, <2>1, <2>2 DEF Target!Step
  <2>4. QED BY <2>3 DEF Target!Next
<1>9. CASE StepAtEnd
  <2> USE <1>9 DEF StepAtEnd
  <2>1. it = End - 1 /\ it' = it /\ Program(wave)' = Program(wave)
    BY <1>1, <1>4 DEF Program
  <2>2. Target!StepAtLast
    BY <1>2, <2>1 DEF Target!StepAtLast
  <2>3. QED BY <2>2 DEF Target!Next
<1>10. CASE Restart
  <2>1. Target!Restart
    BY <1>10 DEF Restart, Target!Restart, Program
  <2>2. QED BY <2>1 DEF Target!Next
<1>11. ASSUME NEW a \in Address, AddBreakpoint(a)
       PROVE  Target!Next
  <2>1. Target!Insert(a)
    BY <1>11 DEF AddBreakpoint, Target!Insert, Program
  <2>2. QED BY <2>1 DEF Target!Next
<1>12. ASSUME NEW a \in Address, DeleteBreakpoint(a)
       PROVE  Target!Next
  <2>1. Target!Remove(a)
    BY <1>12 DEF DeleteBreakpoint, Target!Remove, Program
  <2>2. QED BY <2>1 DEF Target!Next
<1>13. CASE UNCHANGED vars
  BY <1>13 DEF vars, Target!vars, Program, StopFrom, BreakpointsFrom, PcAt, End
<1>14. QED BY <1>5, <1>6, <1>7, <1>8, <1>9, <1>10, <1>11, <1>12, <1>13 DEF Next, Step

\* The replay implements the debug target: whatever GDB asks, a continue stops
\* at the first breakpoint at or after the position or at the end of the
\* recording, and only a step at the end reports that the program ended.
THEOREM Implementation == Spec => ImplementsDebugTarget
<1>1. Init => Target!Init
  BY InitRefines
<1>2. Inv /\ Inv' /\ [Next]_vars => [Target!Next]_Target!vars
  BY StepRefines
<1>3. QED BY <1>1, <1>2, Invariance, PTL DEF Spec, ImplementsDebugTarget, Target!Spec
=============================================================================
