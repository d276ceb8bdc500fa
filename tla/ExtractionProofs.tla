-------------------------- MODULE ExtractionProofs --------------------------
(***************************************************************************)
(* The three traces that are extracted from a waveform, for every waveform *)
(* and every order of callbacks.  CpuTrace records the instructions the    *)
(* CPU retires, each once and in order.  The register file trace and the   *)
(* memory trace, looked up at the time of an instruction, give the         *)
(* registers and the memory the CPU had when that instruction had retired, *)
(* as long as no two signals of the port are aliases.                      *)
(*                                                                         *)
(* A trace of accesses lags behind the CPU from the falling edge of a      *)
(* cycle to the callback of the clock, which adds the write of that cycle; *)
(* everywhere else the trace, searched at the present time, is the CPU's   *)
(* state.                                                                  *)
(***************************************************************************)
EXTENDS Extraction, TraceLemmas

------------------------------------------------------------------------------
(* The program trace. *)

CpuPorts == {"pcValid", "pc"}

\* The falling edge of a clock cycle is still to be called back.
Falling == clk = 0 /\ time > 0 /\ Handle["clk"] \in pending

\* It is, and will record an instruction.
Due == Falling /\ wires["pcValid"] = 1

\* The first n retired instructions as a program trace.
Shown(n) == [i \in 1..n |-> [time |-> retired[i].time, pc |-> retired[i].pc]]

WaveInv ==
    /\ time \in Nat /\ clk \in {0, 1}
    /\ time = 0 => clk = 0 /\ wires \in Resets
    /\ time # 0 => wires \in Cycles
    /\ Falling => pending = {Handle["clk"]}

\* What has been called back and is known is current.
CurrentInv ==
    /\ cpuCur = [s \in CpuPorts |-> cpuCur[s]]
    /\ time = 0 => cpuCur["pcValid"] = 0
    /\ \A s \in CpuPorts :
          Handle[s] \notin pending /\ wires[s] # X => cpuCur[s] = wires[s]

RetiredInv ==
    /\ \E S : retired \in Seq(S)
    /\ \A i \in DOMAIN retired : retired[i].time \in Nat /\ retired[i].pc \in Nat
    /\ Due => /\ Len(retired) > 0
              /\ retired[Len(retired)].time = time
              /\ retired[Len(retired)].pc = wires["pc"]

TraceInv == pcTrace = Shown(IF Due THEN Len(retired) - 1 ELSE Len(retired))

Inv == WaveInv /\ CurrentInv /\ RetiredInv /\ TraceInv

-----------------------------------------------------------------------------
\* The comparisons of pcChangedCB find the signal the change is of.
LEMMA Receivers ==
  /\ CpuTrace!Receiver(Handle["pcValid"]) = "pcValid"
  /\ CpuTrace!Receiver(Handle["pc"]) = "pc"
  /\ CpuTrace!Receiver(Handle["clk"]) = "clk"
  /\ \A h : CpuTrace!Listens(h) <=>
               h \in {Handle["pcValid"], Handle["pc"], Handle["clk"]}
<1>1. DOMAIN PcChain = 1..3 /\ PcChain[1] = "pcValid" /\ PcChain[2] = "pc"
      /\ PcChain[3] = "clk"
  BY DEF PcChain
<1>2. /\ Handle["pcValid"] # Handle["clk"] /\ Handle["pc"] # Handle["clk"]
      /\ Handle["pc"] # Handle["pcValid"]
  <2>1. {"pcValid", "pc"} \subseteq Signals
    BY <1>1 DEF Signals, CpuTrace!Ports
  <2>2. QED BY <2>1, HandleAssumption
<1>3. ASSUME NEW k \in 1..3
      PROVE  CpuTrace!Min({k}) = k
  BY DEF CpuTrace!Min
<1>4. /\ {i \in DOMAIN PcChain : Handle[PcChain[i]] = Handle["pcValid"]} = {1}
      /\ {i \in DOMAIN PcChain : Handle[PcChain[i]] = Handle["pc"]} = {2}
      /\ {i \in DOMAIN PcChain : Handle[PcChain[i]] = Handle["clk"]} = {3}
  BY <1>1, <1>2
<1>5. \A h : CpuTrace!Listens(h) <=>
                h \in {Handle["pcValid"], Handle["pc"], Handle["clk"]}
  BY <1>1 DEF CpuTrace!Listens
<1>6. QED BY <1>1, <1>3, <1>4, <1>5 DEF CpuTrace!Receiver

LEMMA CpuHandles ==
  /\ CpuPorts \subseteq Signals
  /\ \A s \in CpuPorts : Handle[s] # Handle["clk"]
<1>1. DOMAIN PcChain = 1..3 /\ PcChain[1] = "pcValid" /\ PcChain[2] = "pc"
  BY DEF PcChain
<1>2. CpuPorts \subseteq Signals
  BY <1>1 DEF Signals, CpuTrace!Ports, CpuPorts
<1>3. QED BY <1>2, HandleAssumption

\* A callback for a signal brings that signal's value, aliases or not.
LEMMA ValueOfSignal ==
  ASSUME NEW s \in Signals, wires \in Resets \cup Cycles
  PROVE  Wave!ValueOf(Handle[s]) = wires[s]
<1> DEFINE t == CHOOSE t \in Signals : Handle[t] = Handle[s]
<1>1. t \in Signals /\ Handle[t] = Handle[s]
  OBVIOUS
<1>2. wires[t] = wires[s]
  BY <1>1, AliasAssumption
<1>3. QED BY <1>2, HandleAssumption DEF Wave!ValueOf
-----------------------------------------------------------------------------
LEMMA InitInv == Init => Inv
<1> SUFFICES ASSUME Init PROVE Inv
  OBVIOUS
<1>1. time = 0 /\ clk = 0 /\ wires \in Resets /\ pending = Wave!Handles
  BY DEF Init, Wave!Init
<1>2. cpuCur = [s \in CpuPorts |-> 0] /\ pcTrace = << >> /\ retired = << >>
  <2>1. CpuTrace!Ports = CpuPorts
    <3>1. DOMAIN PcChain = 1..3 /\ PcChain[1] = "pcValid" /\ PcChain[2] = "pc"
          /\ PcChain[3] = "clk"
      BY DEF PcChain
    <3>2. QED BY <3>1 DEF CpuTrace!Ports, CpuPorts
  <2>2. QED BY <2>1 DEF Init, CpuTrace!Init
<1>3. WaveInv
  BY <1>1 DEF WaveInv, Falling
<1>4. CurrentInv
  <2>1. ASSUME NEW s \in CpuPorts
        PROVE  Handle[s] \in pending
    BY <1>1, CpuHandles DEF Wave!Handles
  <2>2. QED BY <1>1, <1>2, <2>1 DEF CurrentInv, CpuPorts
<1>5. ~Due
  BY <1>1 DEF Due, Falling
<1>6. RetiredInv
  BY <1>2, <1>5 DEF RetiredInv
<1>7. TraceInv
  BY <1>2, <1>5 DEF TraceInv, Shown
<1>8. QED BY <1>3, <1>4, <1>6, <1>7 DEF Inv

\* On a rising edge the changed signals become pending, the others stay current.
LEMMA RiseInv == Inv /\ Rise => Inv'
<1> SUFFICES ASSUME Inv, Rise PROVE Inv'
  OBVIOUS
<1>1. /\ pending = {} /\ time' = time + 1 /\ clk' = 1 /\ wires' \in Cycles
      /\ pending' = {Handle["clk"]}
                    \cup {Handle[s] : s \in {t \in Signals : wires'[t] # wires[t]}}
  BY DEF Rise, Wave!Rise
<1>2. UNCHANGED <<cpuCur, pcTrace, retired>>
  BY DEF Rise, traceVars, cpuVars
<1>3. ~Due /\ ~Falling /\ ~Due' /\ ~Falling'
  BY <1>1 DEF Due, Falling
<1>4. time' \in Nat /\ time' # 0
  BY <1>1 DEF Inv, WaveInv
<1>5. WaveInv'
  BY <1>1, <1>3, <1>4 DEF WaveInv
<1>6. CurrentInv'
  <2>1. ASSUME NEW s \in CpuPorts, Handle[s] \notin pending', wires'[s] # X
        PROVE  cpuCur'[s] = wires'[s]
    <3>1. s \in Signals
      BY CpuHandles
    <3>2. wires'[s] = wires[s]
      BY <1>1, <2>1, <3>1
    <3>3. cpuCur[s] = wires[s]
      BY <1>1, <2>1, <3>2 DEF Inv, CurrentInv
    <3>4. QED BY <1>2, <3>2, <3>3
  <2>2. QED BY <1>2, <1>4, <2>1 DEF Inv, CurrentInv
<1>7. RetiredInv'
  BY <1>2, <1>3 DEF Inv, RetiredInv
<1>8. TraceInv'
  BY <1>2, <1>3 DEF Inv, TraceInv, Shown
<1>9. QED BY <1>5, <1>6, <1>7, <1>8 DEF Inv

\* In the middle of a cycle the CPU retires what the falling edge will record.
LEMMA FallInv == Inv /\ Fall => Inv'
<1> SUFFICES ASSUME Inv, Fall PROVE Inv'
  OBVIOUS
<1>1. /\ pending = {} /\ clk = 1 /\ time' = time + 1 /\ clk' = 0
      /\ pending' = {Handle["clk"]} /\ wires' = wires
  BY DEF Fall, Wave!Fall
<1>2. UNCHANGED <<cpuCur, pcTrace>>
  BY DEF Fall, traceVars
<1>3. time \in Nat /\ time # 0 /\ time' \in Nat /\ time' # 0 /\ time' > 0
      /\ wires \in Cycles
  BY <1>1 DEF Inv, WaveInv
<1>4. ~Due /\ Falling' /\ (Due' <=> wires["pcValid"] = 1)
  BY <1>1, <1>3 DEF Due, Falling
<1>5. WaveInv'
  BY <1>1, <1>3 DEF WaveInv
<1>6. CurrentInv'
  <2>1. ASSUME NEW s \in CpuPorts
        PROVE  wires'[s] # X => cpuCur'[s] = wires'[s]
    BY <1>1, <1>2 DEF Inv, CurrentInv
  <2>2. QED BY <1>2, <1>3, <2>1 DEF Inv, CurrentInv
<1>7. pcTrace = Shown(Len(retired))
  BY <1>4 DEF Inv, TraceInv
<1>8. CASE wires["pcValid"] = 1
  <2> DEFINE e == [time |-> time + 1, pc |-> wires["pc"],
                   before |-> regFile, after |-> RegistersAfterCycle,
                   memory |-> MemoryAfterCycle]
  <2>1. retired' = Append(retired, e)
    BY <1>8 DEF Fall, Retire
  <2>2. e.time = time' /\ e.time \in Nat /\ e.pc = wires'["pc"] /\ e.pc \in Nat
    BY <1>1, <1>3, <1>8, PortAssumption
  <2> HIDE DEF e
  <2>3. PICK S : retired \in Seq(S)
    BY DEF Inv, RetiredInv
  <2>4. /\ retired' \in Seq(S \cup {e})
        /\ Len(retired') = Len(retired) + 1 /\ Len(retired) \in Nat
        /\ DOMAIN retired = 1..Len(retired) /\ DOMAIN retired' = 1..(Len(retired) + 1)
        /\ \A i \in 1..Len(retired) : retired'[i] = retired[i]
        /\ retired'[Len(retired) + 1] = e
    <3>1. retired \in Seq(S \cup {e}) /\ e \in S \cup {e}
      BY <2>3
    <3> DEFINE T == S \cup {e}
    <3> HIDE DEF T
    <3>2. retired \in Seq(T) /\ e \in T
      BY <3>1 DEF T
    <3>3. /\ retired' \in Seq(T)
          /\ Len(retired') = Len(retired) + 1 /\ Len(retired) \in Nat
          /\ DOMAIN retired = 1..Len(retired)
          /\ DOMAIN retired' = 1..(Len(retired) + 1)
          /\ \A i \in 1..Len(retired) : retired'[i] = retired[i]
          /\ retired'[Len(retired) + 1] = e
      BY <2>1, <3>2
    <3>4. QED BY <3>3 DEF T
  <2>5. RetiredInv'
    <3>1. ASSUME NEW i \in DOMAIN retired'
          PROVE  retired'[i].time \in Nat /\ retired'[i].pc \in Nat
      <4>1. CASE i = Len(retired) + 1
        BY <2>2, <2>4, <4>1
      <4>2. CASE i \in 1..Len(retired)
        BY <2>4, <4>2 DEF Inv, RetiredInv
      <4>3. QED BY <2>4, <4>1, <4>2
    <3>2. \E R : retired' \in Seq(R)
      BY <2>4
    <3>3. /\ Len(retired') > 0
          /\ retired'[Len(retired')].time = time'
          /\ retired'[Len(retired')].pc = wires'["pc"]
      BY <2>2, <2>4
    <3>4. QED BY <3>1, <3>2, <3>3 DEF RetiredInv
  <2>6. TraceInv'
    <3>1. Due' /\ Len(retired') - 1 = Len(retired)
      BY <1>4, <1>8, <2>4
    <3>2. Shown(Len(retired)) =
             [i \in 1..Len(retired) |-> [time |-> retired'[i].time, pc |-> retired'[i].pc]]
      BY <2>4 DEF Shown
    <3>3. TraceInv' <=>
             pcTrace' = [i \in 1..Len(retired) |->
                            [time |-> retired'[i].time, pc |-> retired'[i].pc]]
      BY <3>1 DEF TraceInv, Shown
    <3>4. QED BY <1>2, <1>7, <3>2, <3>3
  <2>7. QED BY <1>5, <1>6, <2>5, <2>6 DEF Inv
<1>9. CASE wires["pcValid"] # 1
  <2>1. retired' = retired /\ ~Due'
    BY <1>4, <1>9 DEF Fall, Retire
  <2>2. RetiredInv'
    BY <2>1 DEF Inv, RetiredInv
  <2>3. TraceInv'
    BY <1>2, <1>7, <2>1 DEF TraceInv, Shown
  <2>4. QED BY <1>5, <1>6, <2>2, <2>3 DEF Inv
<1>10. QED BY <1>8, <1>9

\* What every callback leaves as it is.
LEMMA CallbackFrame ==
  ASSUME NEW h, Callback(h)
  PROVE  /\ h \in pending /\ pending' = pending \ {h}
         /\ UNCHANGED <<time, clk, wires, retired>>
BY DEF Callback, Wave!Callback, cpuVars

\* A callback for another signal than the clock updates at most that signal.
LEMMA SignalCallbackInv ==
  ASSUME Inv, NEW h, Callback(h), h # Handle["clk"]
  PROVE  Inv'
<1>1. /\ h \in pending /\ pending' = pending \ {h}
      /\ UNCHANGED <<time, clk, wires, retired>>
  BY CallbackFrame
<1>2. ~Falling /\ ~Falling' /\ ~Due /\ ~Due'
  BY <1>1 DEF Inv, WaveInv, Falling, Due
<1>3. CpuTrace!Changed(h, Wave!ValueOf(h), PcEntries)
  BY DEF Callback
<1>4. WaveInv'
  BY <1>1, <1>2 DEF Inv, WaveInv
<1>5. wires \in Resets \cup Cycles
  BY DEF Inv, WaveInv
<1>6. pcTrace' = pcTrace /\ CurrentInv'
  <2>1. CASE h \notin {Handle["pcValid"], Handle["pc"]}
    <3>1. ~CpuTrace!Listens(h)
      BY <2>1, Receivers
    <3>2. UNCHANGED <<cpuCur, pcTrace>>
      BY <1>3, <3>1 DEF CpuTrace!Changed, CpuTrace!Ignored, CpuTrace!Updated,
                        CpuTrace!RisingEdge, CpuTrace!FallingEdge, CpuTrace!vars
    <3>3. \A s \in CpuPorts : Handle[s] \notin pending' => Handle[s] \notin pending
      BY <1>1, <2>1 DEF CpuPorts
    <3>4. QED BY <1>1, <3>2, <3>3 DEF Inv, CurrentInv
  <2>2. ASSUME NEW p \in CpuPorts, h = Handle[p]
        PROVE  pcTrace' = pcTrace /\ CurrentInv'
    <3>1. CpuTrace!Receiver(h) = p /\ p # "clk" /\ CpuTrace!Listens(h)
      BY <2>2, Receivers DEF CpuPorts
    <3>2. Wave!ValueOf(h) = wires[p]
      BY <1>5, <2>2, CpuHandles, ValueOfSignal
    <3>3. \A s \in CpuPorts :
             s # p => (Handle[s] \notin pending' => Handle[s] \notin pending)
      BY <1>1, <2>2, HandleAssumption DEF CpuPorts
    <3>4. CASE wires[p] = X
      <4>1. UNCHANGED <<cpuCur, pcTrace>>
        BY <1>3, <3>2, <3>4
           DEF CpuTrace!Changed, CpuTrace!Ignored, CpuTrace!Updated,
               CpuTrace!RisingEdge, CpuTrace!FallingEdge, CpuTrace!vars
      <4>2. QED BY <1>1, <3>3, <3>4, <4>1 DEF Inv, CurrentInv
    <3>5. CASE wires[p] # X
      <4>1. pcTrace' = pcTrace /\ cpuCur' = [cpuCur EXCEPT ![p] = wires[p]]
        BY <1>3, <3>1, <3>2, <3>5
           DEF CpuTrace!Changed, CpuTrace!Ignored, CpuTrace!Updated,
               CpuTrace!RisingEdge, CpuTrace!FallingEdge
      <4>2. /\ cpuCur' = [s \in CpuPorts |-> cpuCur'[s]]
            /\ cpuCur'[p] = wires[p]
            /\ \A s \in CpuPorts : s # p => cpuCur'[s] = cpuCur[s]
        <5>1. cpuCur = [s \in CpuPorts |-> cpuCur[s]]
          BY DEF Inv, CurrentInv
        <5>2. QED BY <4>1, <5>1
      <4>3. time = 0 => cpuCur'["pcValid"] = 0
        <5>1. time = 0 => wires["pcValid"] \in {0, X} /\ cpuCur["pcValid"] = 0
          BY PortAssumption DEF Inv, WaveInv, CurrentInv
        <5>2. "pcValid" \in CpuPorts
          BY DEF CpuPorts
        <5>3. QED BY <3>5, <4>2, <5>1, <5>2
      <4>4. \A s \in CpuPorts :
               Handle[s] \notin pending' /\ wires'[s] # X => cpuCur'[s] = wires'[s]
        BY <1>1, <3>3, <4>2 DEF Inv, CurrentInv
      <4>5. QED BY <1>1, <4>1, <4>2, <4>3, <4>4 DEF CurrentInv
    <3>6. QED BY <3>4, <3>5
  <2>3. QED BY <2>1, <2>2 DEF CpuPorts
<1>7. RetiredInv'
  BY <1>1, <1>2 DEF Inv, RetiredInv
<1>8. TraceInv'
  BY <1>1, <1>2, <1>6 DEF Inv, TraceInv, Shown
<1>9. QED BY <1>4, <1>6, <1>7, <1>8 DEF Inv

\* A callback for the clock records an instruction if one is due.
LEMMA ClockCallbackInv ==
  ASSUME Inv, Callback(Handle["clk"])
  PROVE  Inv'
<1>1. /\ Handle["clk"] \in pending /\ pending' = pending \ {Handle["clk"]}
      /\ UNCHANGED <<time, clk, wires, retired>>
  BY CallbackFrame
<1>2. ~Falling' /\ ~Due'
  BY <1>1 DEF Falling, Due
<1>3. clk \in {0, 1} /\ clk # X
  BY PortAssumption DEF Inv, WaveInv
<1>4. CpuTrace!Changed(Handle["clk"], clk, PcEntries)
  BY DEF Callback, Wave!ValueOf
<1>5. cpuCur' = cpuCur /\ pcTrace' = IF clk = 0 THEN pcTrace \o PcEntries ELSE pcTrace
  BY <1>3, <1>4, Receivers
     DEF CpuTrace!Changed, CpuTrace!Ignored, CpuTrace!Updated,
         CpuTrace!RisingEdge, CpuTrace!FallingEdge, CpuTrace!vars
<1>6. WaveInv'
  BY <1>1, <1>2 DEF Inv, WaveInv
<1>7. CurrentInv'
  <2>1. \A s \in CpuPorts : Handle[s] \notin pending' => Handle[s] \notin pending
    BY <1>1, CpuHandles
  <2>2. QED BY <1>1, <1>5, <2>1 DEF Inv, CurrentInv
<1>8. RetiredInv'
  BY <1>1, <1>2 DEF Inv, RetiredInv
<1>9. pcTrace' = Shown(Len(retired))
  <2>1. PICK S : retired \in Seq(S)
    BY DEF Inv, RetiredInv
  <2>2. /\ Len(retired) \in Nat /\ DOMAIN retired = 1..Len(retired)
    BY <2>1
  <2>3. \A n \in 0..Len(retired) : Shown(n) \in Seq(PcValues) /\ Len(Shown(n)) = n
    BY <2>2 DEF Inv, RetiredInv, Shown, PcValues
  <2>4. CASE clk = 1
    BY <1>5, <2>4 DEF Inv, TraceInv, Due, Falling
  <2>5. CASE clk = 0 /\ ~Due
    <3>1. PcEntries = << >>
      <4>1. CASE time = 0
        BY <4>1 DEF PcEntries, Inv, CurrentInv
      <4>2. CASE time # 0
        <5>1. Falling /\ pending = {Handle["clk"]} /\ wires \in Cycles
          BY <1>1, <2>5, <4>2 DEF Inv, WaveInv, Falling
        <5>2. wires["pcValid"] = 0
          BY <2>5, <5>1, PortAssumption DEF Due
        <5>3. cpuCur["pcValid"] = 0
          BY <5>1, <5>2, CpuHandles, PortAssumption DEF Inv, CurrentInv, CpuPorts
        <5>4. QED BY <5>3 DEF PcEntries
      <4>3. QED BY <4>1, <4>2
    <3>2. pcTrace = Shown(Len(retired))
      BY <2>5 DEF Inv, TraceInv
    <3>3. QED BY <1>5, <2>2, <2>3, <2>5, <3>1, <3>2
  <2>6. CASE clk = 0 /\ Due
    <3>1. pending = {Handle["clk"]} /\ wires \in Cycles /\ wires["pcValid"] = 1
      BY <2>6 DEF Inv, WaveInv, Due, Falling
    <3>2. wires["pc"] \in Nat
      BY <3>1, PortAssumption
    <3>3. cpuCur["pcValid"] = 1 /\ cpuCur["pc"] = wires["pc"]
      BY <3>1, <3>2, CpuHandles, PortAssumption DEF Inv, CurrentInv, CpuPorts
    <3>4. PcEntries = <<[time |-> time, pc |-> wires["pc"]]>>
      BY <3>3 DEF PcEntries
    <3> DEFINE n == Len(retired)
    <3>5. /\ n > 0 /\ pcTrace = Shown(n - 1)
          /\ retired[n].time = time /\ retired[n].pc = wires["pc"]
      BY <2>6 DEF Inv, TraceInv, RetiredInv
    <3>6. Shown(n - 1) \o <<[time |-> time, pc |-> wires["pc"]]>> = Shown(n)
      <4>1. n \in Nat /\ n > 0
        BY <2>2, <3>5
      <4>2. [time |-> time, pc |-> wires["pc"]] \in PcValues
        BY <3>2 DEF PcValues, Inv, WaveInv
      <4>3. /\ Shown(n - 1) \in Seq(PcValues) /\ Len(Shown(n - 1)) = n - 1
            /\ Shown(n) \in Seq(PcValues) /\ Len(Shown(n)) = n
        BY <2>3, <4>1
      <4>4. \A i \in 1..(n - 1) : Shown(n)[i] = Shown(n - 1)[i]
        BY <4>1 DEF Shown
      <4>5. Shown(n)[n] = [time |-> time, pc |-> wires["pc"]]
        BY <3>5, <4>1 DEF Shown
      <4> DEFINE e == [time |-> time, pc |-> wires["pc"]]
                 a == Shown(n - 1)
                 b == Shown(n)
                 m == n
      <4> HIDE DEF e, a, b, m
      <4>6. /\ m \in Nat /\ m > 0 /\ e \in PcValues
            /\ a \in Seq(PcValues) /\ Len(a) = m - 1
            /\ b \in Seq(PcValues) /\ Len(b) = m
            /\ \A i \in 1..(m - 1) : b[i] = a[i]
            /\ b[m] = e
        BY <4>1, <4>2, <4>3, <4>4, <4>5 DEF e, a, b, m
      <4>7. a \o <<e>> = b
        BY <4>6
      <4>8. QED BY <4>7 DEF e, a, b
    <3>7. QED BY <1>5, <2>6, <3>4, <3>5, <3>6
  <2>7. QED BY <1>3, <2>4, <2>5, <2>6
<1>10. TraceInv'
  BY <1>1, <1>2, <1>9 DEF TraceInv, Shown
<1>11. QED BY <1>6, <1>7, <1>8, <1>10 DEF Inv

LEMMA NextInv == Inv /\ [Next]_vars => Inv'
<1> SUFFICES ASSUME Inv, [Next]_vars PROVE Inv'
  OBVIOUS
<1>1. CASE Rise
  BY <1>1, RiseInv
<1>2. CASE Fall
  BY <1>2, FallInv
<1>3. ASSUME NEW h \in Wave!Handles, Callback(h)
      PROVE  Inv'
  BY <1>3, ClockCallbackInv, SignalCallbackInv
<1>4. CASE UNCHANGED vars
  BY <1>4 DEF Inv, WaveInv, CurrentInv, RetiredInv, TraceInv, Falling, Due, Shown,
              vars, waveVars, traceVars, cpuVars
<1>5. CASE EndOfFile
  BY <1>4, <1>5 DEF EndOfFile
<1>6. QED BY <1>1, <1>2, <1>3, <1>4, <1>5 DEF Next

\* The invariant holds for every waveform and every order of callbacks.
THEOREM ExtractionInvariant == Spec => []Inv
BY InitInv, NextInv, PTL DEF Spec

\* CpuTrace records each retired instruction once, in order, at its time.
THEOREM ProgramRecorded == Spec => []RetiredRecorded
<1>1. Inv => RetiredRecorded
  <2> SUFFICES ASSUME Inv, pending = {}
               PROVE  pcTrace = [i \in DOMAIN retired |->
                                   [time |-> retired[i].time, pc |-> retired[i].pc]]
    BY DEF RetiredRecorded, Settled
  <2>1. PICK S : retired \in Seq(S)
    BY DEF Inv, RetiredInv
  <2>2. DOMAIN retired = 1..Len(retired)
    BY <2>1
  <2>3. pcTrace = Shown(Len(retired))
    BY DEF Inv, TraceInv, Due, Falling
  <2>4. QED BY <2>2, <2>3 DEF Shown
<1>2. QED BY ExtractionInvariant, <1>1, PTL

------------------------------------------------------------------------------
(* The traces of the registers and of the memory. *)

\* The types of what the invariants are about.
AccessTypes ==
    /\ time \in 0..(2 * MaxCycles) /\ clk = time % 2
    /\ pending \subseteq Wave!Handles
    /\ regCur \in [RegFileTrace!Ports -> Nat]
    /\ memCur \in [MemTrace!Ports -> Nat]
    /\ regTrace \in Seq(Accesses)
    /\ memTrace \in Seq(Accesses)

\* The ports of the register file and of the memory are the signals that
\* the callbacks of RegFileTrace.cc and MemTrace.cc compare a handle with.
LEMMA ChainsAre ==
  /\ RegFileTrace!Ports = {"regWr", "regAddr", "regData"}
  /\ MemTrace!Ports = {"memValid", "memReady", "memAddr", "memSize", "memWr", "memData",
                       "rspValid", "rspData"}
  /\ RegFileTrace!Ports \cup MemTrace!Ports \subseteq Signals
<1>1. DOMAIN RegChain = 1..4 /\ RegChain[1] = "regWr" /\ RegChain[2] = "regAddr"
      /\ RegChain[3] = "regData" /\ RegChain[4] = "clk"
  BY DEF RegChain
<1>2. DOMAIN MemChain = 1..9 /\ MemChain[1] = "memValid" /\ MemChain[2] = "memReady"
      /\ MemChain[3] = "memAddr" /\ MemChain[4] = "memSize" /\ MemChain[5] = "memWr"
      /\ MemChain[6] = "memData" /\ MemChain[7] = "rspValid" /\ MemChain[8] = "rspData"
      /\ MemChain[9] = "clk"
  BY DEF MemChain
<1>3. QED BY <1>1, <1>2 DEF RegFileTrace!Ports, MemTrace!Ports, Signals

\* A byte lane of a store is an entry of a trace.
LEMMA MemEntryType ==
  ASSUME AccessTypes, NEW b \in 0..3
  PROVE  MemEntry(b) \in Accesses
<1>1. {time, memCur["memAddr"], memCur["memData"]} \subseteq Nat
  BY ChainsAre DEF AccessTypes
<1>2. memCur["memAddr"] - (memCur["memAddr"] % 4) + b \in Nat
  BY <1>1
<1>3. ByteOf(memCur["memData"], b) \in Nat
  <2>1. <<1, 256, 65536, 16777216>>[b + 1] \in {1, 256, 65536, 16777216}
    OBVIOUS
  <2>2. \A d \in {1, 256, 65536, 16777216} : memCur["memData"] \div d \in Nat
    BY <1>1
  <2>3. QED BY <2>1, <2>2 DEF ByteOf
<1>4. QED BY <1>1, <1>2, <1>3 DEF MemEntry, Accesses

\* What a falling edge adds to a trace are entries of a trace.
LEMMA EntryTypes ==
  ASSUME AccessTypes
  PROVE  RegEntries \in Seq(Accesses) /\ MemEntries \in Seq(Accesses)
<1>1. RegEntries \in Seq(Accesses)
  <2>1. {time, regCur["regAddr"], regCur["regData"]} \subseteq Nat
    BY ChainsAre DEF AccessTypes
  <2>2. [time |-> time, wr |-> TRUE, addr |-> regCur["regAddr"], value |-> regCur["regData"]]
          \in Accesses
    BY <2>1 DEF Accesses
  <2>3. QED BY <2>2 DEF RegEntries
<1>2. \A b \in 0..3 : Lane(b) \in Seq(Accesses)
  BY MemEntryType DEF Lane
<1>3. Lanes \in Seq(Accesses)
  BY <1>2 DEF Lanes
<1>4. MemEntries \in Seq(Accesses)
  BY <1>3 DEF MemEntries
<1>5. QED BY <1>1, <1>4

\* A callback brings a number or an unknown value.
LEMMA ValueKnown ==
  ASSUME Inv, NEW h \in Wave!Handles
  PROVE  Wave!ValueOf(h) \in Nat \cup {X}
<1>1. CASE h = Handle["clk"]
  BY <1>1 DEF Wave!ValueOf, Inv, WaveInv
<1>2. CASE h # Handle["clk"]
  <2> DEFINE s == CHOOSE t \in Signals : Handle[t] = h
  <2>1. s \in Signals
    BY <1>2 DEF Wave!Handles
  <2>2. wires \in Resets \cup Cycles
    BY DEF Inv, WaveInv
  <2>3. QED BY <1>2, <2>1, <2>2, PortAssumption DEF Wave!ValueOf
<1>3. QED BY <1>1, <1>2

\* Every step keeps the types, a dropped unknown value included.
LEMMA AccessTypesNext == Inv /\ AccessTypes /\ [Next]_vars => AccessTypes'
<1> SUFFICES ASSUME Inv, AccessTypes, [Next]_vars PROVE AccessTypes'
  OBVIOUS
<1>1. CASE Rise
  <2>1. /\ time' \in 0..(2 * MaxCycles) /\ clk' = time' % 2
    BY <1>1, CyclesAssumption DEF Rise, Wave!Rise, AccessTypes
  <2>2. pending' \subseteq Wave!Handles
    BY <1>1 DEF Rise, Wave!Rise, Wave!Handles
  <2>3. QED BY <1>1, <2>1, <2>2 DEF Rise, traceVars, AccessTypes
<1>2. CASE Fall
  <2>1. /\ time' \in 0..(2 * MaxCycles) /\ clk' = time' % 2
    BY <1>2, CyclesAssumption DEF Fall, Wave!Fall, AccessTypes
  <2>2. pending' \subseteq Wave!Handles
    BY <1>2 DEF Fall, Wave!Fall, Wave!Handles
  <2>3. QED BY <1>2, <2>1, <2>2 DEF Fall, traceVars, AccessTypes
<1>3. ASSUME NEW h \in Wave!Handles, Callback(h)
      PROVE  AccessTypes'
  <2>1. UNCHANGED <<time, clk>> /\ pending' \subseteq Wave!Handles
    BY <1>3, CallbackFrame DEF AccessTypes
  <2>2. Wave!ValueOf(h) \in Nat \cup {X}
    BY ValueKnown
  <2>3. regCur' \in [RegFileTrace!Ports -> Nat] /\ regTrace' \in Seq(Accesses)
    <3>1. RegFileTrace!Changed(h, Wave!ValueOf(h), RegEntries)
      BY <1>3 DEF Callback
    <3>2. regTrace \o RegEntries \in Seq(Accesses)
      BY EntryTypes DEF AccessTypes
    <3>3. QED
      BY <2>2, <3>1, <3>2
         DEF AccessTypes, RegFileTrace!Changed, RegFileTrace!Ignored, RegFileTrace!Updated,
             RegFileTrace!RisingEdge, RegFileTrace!FallingEdge, RegFileTrace!vars
  <2>4. memCur' \in [MemTrace!Ports -> Nat] /\ memTrace' \in Seq(Accesses)
    <3>1. MemTrace!Changed(h, Wave!ValueOf(h), MemEntries)
      BY <1>3 DEF Callback
    <3>2. memTrace \o MemEntries \in Seq(Accesses)
      BY EntryTypes DEF AccessTypes
    <3>3. QED
      BY <2>2, <3>1, <3>2
         DEF AccessTypes, MemTrace!Changed, MemTrace!Ignored, MemTrace!Updated,
             MemTrace!RisingEdge, MemTrace!FallingEdge, MemTrace!vars
  <2>5. QED BY <2>1, <2>3, <2>4 DEF AccessTypes
<1>4. CASE UNCHANGED vars
  BY <1>4 DEF AccessTypes, vars, waveVars, traceVars
<1>5. CASE EndOfFile
  BY <1>4, <1>5 DEF EndOfFile
<1>6. QED BY <1>1, <1>2, <1>3, <1>4, <1>5 DEF Next

\* The ports start at 0, the traces empty.
LEMMA AccessTypesInit == Init => AccessTypes
BY CyclesAssumption DEF Init, Wave!Init, RegFileTrace!Init, MemTrace!Init, AccessTypes

\* Times, handles and the three traces have their types, whatever the
\* waveform (CpuTrace.cc, RegFileTrace.cc, MemTrace.cc).
THEOREM ExtractionTypes == Spec => []TypeOK
<1>1. Inv /\ AccessTypes => TypeOK
  <2> SUFFICES ASSUME Inv, AccessTypes PROVE TypeOK
    OBVIOUS
  <2>1. PICK S : retired \in Seq(S)
    BY DEF Inv, RetiredInv
  <2>2. \A n \in 0..Len(retired) : Shown(n) \in Seq(PcValues)
    BY <2>1 DEF Inv, RetiredInv, Shown, PcValues
  <2>3. pcTrace \in Seq(PcValues)
    BY <2>1, <2>2 DEF Inv, TraceInv, RetiredInv
  <2>4. QED BY <2>3 DEF TypeOK, AccessTypes
<1>2. QED BY <1>1, InitInv, NextInv, AccessTypesInit, AccessTypesNext, PTL DEF Spec
-----------------------------------------------------------------------------
\* The signals of the register write port, and those that tell of a store.
RegPorts == {"regWr", "regAddr", "regData"}
MemPorts == {"memValid", "memReady", "memAddr", "memSize", "memWr", "memData"}

\* No two of the signals are aliases of each other.
NoAliases(ports) == \A s, t \in ports : Handle[s] = Handle[t] => s = t

\* What has been called back and is known is current; before the first
\* cycle, nothing is written.
RegCurrentInv ==
    /\ time = 0 => regCur["regWr"] = 0
    /\ \A s \in RegPorts :
          Handle[s] \notin pending /\ wires[s] # X => regCur[s] = wires[s]

\* No entry is from the future, and the cycle whose falling edge is still to
\* be called back has none yet.
RegTimesInv ==
    /\ UpTo(regTrace, time)
    /\ Falling => UpTo(regTrace, time - 1)

\* The trace gives the CPU's registers, but for the write it is still to hear
\* of.
RegFileInv ==
    /\ DOMAIN regFile = Reg
    /\ \A r \in Reg :
          regFile[r] = IF Falling /\ wires["regWr"] = 1 /\ r = wires["regAddr"]
                       THEN wires["regData"] ELSE Found(regTrace, time, r, X)

\* The same at the time of every retired instruction.
RetiredRegistersInv ==
    \A i \in DOMAIN retired :
        /\ retired[i].time <= time
        /\ \A r \in Reg :
              retired[i].after[r] = IF Falling /\ retired[i].time = time THEN regFile[r]
                                    ELSE Found(regTrace, retired[i].time, r, X)

\* Together they are inductive: the registers at an instruction follow from
\* the trace only while the trace is known to be in order and up to date.
RegInv == RegCurrentInv /\ RegTimesInv /\ RegFileInv /\ RetiredRegistersInv

\* A callback for a signal of the port updates that signal and no other, one
\* for the clock that is now low adds the entries, and others do nothing.
LEMMA RegHeard ==
  ASSUME NoAliases(RegPorts), Inv, AccessTypes, NEW h \in Wave!Handles, Callback(h)
  PROVE  /\ \A s \in RegPorts :
               regCur'[s] = IF h = Handle[s] /\ wires[s] # X THEN wires[s] ELSE regCur[s]
         /\ regTrace' = IF h = Handle["clk"] /\ clk = 0 THEN regTrace \o RegEntries ELSE regTrace
<1>1. DOMAIN RegChain = 1..4 /\ RegChain[1] = "regWr" /\ RegChain[2] = "regAddr"
      /\ RegChain[3] = "regData" /\ RegChain[4] = "clk"
  BY DEF RegChain
<1>2. RegPorts \subseteq Signals /\ RegFileTrace!Ports = RegPorts
      /\ \A s \in RegPorts : Handle[s] # Handle["clk"]
  BY ChainsAre, HandleAssumption DEF RegPorts
<1>3. ASSUME NEW k \in 1..4, Handle[RegChain[k]] = h
      PROVE  RegFileTrace!Receiver(h) = RegChain[k] /\ RegFileTrace!Listens(h)
  <2>1. {i \in DOMAIN RegChain : Handle[RegChain[i]] = h} = {k}
    BY <1>1, <1>2, <1>3 DEF NoAliases, RegPorts
  <2>2. RegFileTrace!Min({k}) = k
    BY DEF RegFileTrace!Min
  <2>3. QED BY <1>1, <1>3, <2>1, <2>2 DEF RegFileTrace!Receiver, RegFileTrace!Listens
<1>4. RegFileTrace!Changed(h, Wave!ValueOf(h), RegEntries)
  BY DEF Callback
<1>5. wires \in Resets \cup Cycles /\ clk \in {0, 1} /\ X \notin {0, 1}
  BY PortAssumption DEF Inv, WaveInv
<1>6. CASE h = Handle["clk"]
  <2>1. RegFileTrace!Receiver(h) = "clk" /\ RegFileTrace!Listens(h) /\ Wave!ValueOf(h) = clk
    BY <1>1, <1>3, <1>6 DEF Wave!ValueOf
  <2>2. regCur' = regCur /\ regTrace' = IF clk = 0 THEN regTrace \o RegEntries ELSE regTrace
    BY <1>4, <1>5, <2>1
       DEF RegFileTrace!Changed, RegFileTrace!Ignored, RegFileTrace!Updated,
           RegFileTrace!RisingEdge, RegFileTrace!FallingEdge, RegFileTrace!vars
  <2>3. QED BY <1>2, <1>6, <2>2
<1>7. ASSUME NEW p \in RegPorts, h = Handle[p]
      PROVE  /\ \A s \in RegPorts :
                   regCur'[s] = IF h = Handle[s] /\ wires[s] # X THEN wires[s] ELSE regCur[s]
             /\ regTrace' = regTrace
  <2>1. RegFileTrace!Receiver(h) = p /\ RegFileTrace!Listens(h) /\ p # "clk"
    BY <1>1, <1>3, <1>7 DEF RegPorts
  <2>2. Wave!ValueOf(h) = wires[p]
    BY <1>2, <1>5, <1>7, ValueOfSignal
  <2>3. regTrace' = regTrace
        /\ regCur' = IF wires[p] = X THEN regCur ELSE [regCur EXCEPT ![p] = wires[p]]
    BY <1>4, <2>1, <2>2
       DEF RegFileTrace!Changed, RegFileTrace!Ignored, RegFileTrace!Updated,
           RegFileTrace!RisingEdge, RegFileTrace!FallingEdge, RegFileTrace!vars
  <2>4. \A s \in RegPorts : h = Handle[s] <=> s = p
    BY <1>7 DEF NoAliases
  <2>5. DOMAIN regCur = RegPorts
    BY <1>2 DEF AccessTypes
  <2>6. QED BY <2>3, <2>4, <2>5
<1>8. CASE h # Handle["clk"] /\ \A s \in RegPorts : h # Handle[s]
  <2>1. ~RegFileTrace!Listens(h)
    BY <1>1, <1>8 DEF RegFileTrace!Listens, RegPorts
  <2>2. UNCHANGED <<regCur, regTrace>>
    BY <1>4, <2>1
       DEF RegFileTrace!Changed, RegFileTrace!Ignored, RegFileTrace!Updated,
           RegFileTrace!RisingEdge, RegFileTrace!FallingEdge, RegFileTrace!vars
  <2>3. QED BY <1>8, <2>2
<1>9. QED BY <1>2, <1>6, <1>7, <1>8

\* What RegEntries adds at the falling edge of a cycle: the write of the cycle.
LEMMA RegWritten ==
  ASSUME NoAliases(RegPorts), Inv, AccessTypes, RegInv, Callback(Handle["clk"]), clk = 0,
         NEW t \in Nat, NEW r \in Reg
  PROVE  Found(regTrace', t, r, X) =
            IF Falling /\ time <= t /\ wires["regWr"] = 1 /\ r = wires["regAddr"]
            THEN wires["regData"] ELSE Found(regTrace, t, r, X)
<1>1. /\ Handle["clk"] \in pending /\ Handle["clk"] \in Wave!Handles
      /\ regTrace' = regTrace \o RegEntries /\ time \in Nat /\ regTrace \in Seq(Accesses)
  BY RegHeard, CallbackFrame DEF Wave!Handles, Inv, WaveInv, AccessTypes
<1>2. CASE RegEntries = << >>
  <2>1. regTrace' = regTrace
    BY <1>1, <1>2
  <2>2. ~(Falling /\ wires["regWr"] = 1)
    <3>1. SUFFICES ASSUME Falling, wires["regWr"] = 1 PROVE FALSE
      OBVIOUS
    <3>2. regCur["regWr"] = 1
      BY <3>1, ChainsAre, HandleAssumption, PortAssumption
         DEF Falling, Inv, WaveInv, RegInv, RegCurrentInv, RegPorts
    <3>3. QED BY <1>2, <3>2 DEF RegEntries
  <2>3. QED BY <2>1, <2>2
<1>3. CASE RegEntries # << >>
  <2>1. regCur["regWr"] # 0
    BY <1>3 DEF RegEntries
  <2>2. Falling /\ pending = {Handle["clk"]} /\ wires \in Cycles
    BY <1>1, <2>1 DEF Falling, Inv, WaveInv, RegInv, RegCurrentInv
  <2>3. \A s \in RegPorts : wires[s] # X => regCur[s] = wires[s]
    BY <2>2, ChainsAre, HandleAssumption DEF RegInv, RegCurrentInv, RegPorts
  <2>4. wires["regWr"] = 1
    BY <2>1, <2>2, <2>3, PortAssumption DEF RegPorts
  <2>5. regCur["regAddr"] = wires["regAddr"] /\ regCur["regData"] = wires["regData"]
    BY <2>2, <2>3, <2>4, ChainsAre, PortAssumption DEF RegPorts
  <2> DEFINE e == [time |-> time, wr |-> TRUE, addr |-> regCur["regAddr"],
                   value |-> regCur["regData"]]
  <2>6. regTrace' = regTrace \o <<e>>
    BY <1>1, <2>1 DEF RegEntries
  <2>7. e \in Accesses /\ e.wr /\ e.time = time /\ e.addr = wires["regAddr"]
        /\ e.value = wires["regData"]
    BY <1>1, <2>5, ChainsAre DEF Accesses, AccessTypes
  <2> HIDE DEF e
  <2>8. UpTo(regTrace, e.time)
    BY <2>7 DEF RegInv, RegTimesInv
  <2>9. Found(regTrace', t, r, X) =
           IF time <= t /\ wires["regAddr"] = r THEN wires["regData"]
           ELSE Found(regTrace, t, r, X)
    BY <1>1, <2>6, <2>7, <2>8, FoundAppend
  <2>10. QED BY <2>2, <2>4, <2>9
<1>4. QED BY <1>2, <1>3

\* The entries a callback adds are of the present time.
LEMMA RegTimesClock ==
  ASSUME NoAliases(RegPorts), Inv, AccessTypes, RegInv, NEW h \in Wave!Handles, Callback(h)
  PROVE  UpTo(regTrace', time)
<1>1. regTrace \in Seq(Accesses) /\ UpTo(regTrace, time)
  BY DEF AccessTypes, RegInv, RegTimesInv
<1>2. CASE RegEntries = << >> \/ regTrace' = regTrace
  <2>1. regTrace' = regTrace
    BY <1>1, <1>2, RegHeard
  <2>2. QED BY <1>1, <2>1
<1>3. CASE regTrace' = regTrace \o RegEntries /\ RegEntries # << >>
  <2> DEFINE e == [time |-> time, wr |-> TRUE, addr |-> regCur["regAddr"],
                   value |-> regCur["regData"]]
  <2>1. regTrace' = regTrace \o <<e>>
    BY <1>3 DEF RegEntries
  <2>2. e \in Accesses /\ e.wr /\ e.time = time
    BY ChainsAre DEF Accesses, AccessTypes
  <2> HIDE DEF e
  <2>3. UpTo(regTrace \o <<e>>, e.time)
    BY <1>1, <2>2, FoundAppend
  <2>4. QED BY <2>1, <2>2, <2>3
<1>4. QED BY <1>2, <1>3, RegHeard

\* At first all registers are unknown and no trace has an entry.
LEMMA RegInit == Init => RegInv
<1> SUFFICES ASSUME Init PROVE RegInv
  OBVIOUS
<1>1. /\ time = 0 /\ regTrace = << >> /\ retired = << >> /\ pending = Wave!Handles
      /\ regCur = [s \in RegFileTrace!Ports |-> 0] /\ regFile = [r \in Reg |-> X]
  BY DEF Init, Wave!Init, RegFileTrace!Init
<1>2. \A r : ~HasValue(regTrace, time, r)
  BY <1>1 DEF HasValue, WritesSeen, SeenAt
<1>3. ~Falling
  BY <1>1 DEF Falling
<1>4. \A s \in RegPorts : Handle[s] \in pending
  BY <1>1, ChainsAre DEF Wave!Handles, RegPorts
<1>5. regCur["regWr"] = 0
  BY <1>1, ChainsAre
<1>6. QED
  BY <1>1, <1>2, <1>3, <1>4, <1>5
     DEF RegInv, RegCurrentInv, RegTimesInv, RegFileInv, RetiredRegistersInv, UpTo, Found

\* Times of entries are numbers.
LEMMA TimesInt ==
  ASSUME AccessTypes
  PROVE  /\ \A i \in DOMAIN regTrace : regTrace[i].time \in Nat
         /\ \A i \in DOMAIN memTrace : memTrace[i].time \in Nat
<1>1. /\ \A i \in DOMAIN regTrace : regTrace[i] \in Accesses
      /\ \A i \in DOMAIN memTrace : memTrace[i] \in Accesses
  BY DEF AccessTypes
<1>2. QED BY <1>1 DEF Accesses

\* On a rising edge the changed signals become pending, the others stay current.
LEMMA RegRise ==
  ASSUME Inv, AccessTypes, RegInv, Rise
  PROVE  RegInv'
<1>1. /\ pending = {} /\ time' = time + 1 /\ clk' = 1 /\ clk = 0
      /\ pending' = {Handle["clk"]}
                    \cup {Handle[s] : s \in {t \in Signals : wires'[t] # wires[t]}}
      /\ UNCHANGED <<regCur, regTrace, regFile, retired>>
  BY DEF Rise, Wave!Rise, traceVars, cpuVars
<1>2. ~Falling /\ ~Falling' /\ time \in Nat
  BY <1>1 DEF Falling, Inv, WaveInv
<1>3. RegCurrentInv'
  <2>1. ASSUME NEW s \in RegPorts, Handle[s] \notin pending', wires'[s] # X
        PROVE  regCur'[s] = wires'[s]
    <3>1. s \in Signals
      BY ChainsAre DEF RegPorts
    <3>2. wires'[s] = wires[s]
      BY <1>1, <2>1, <3>1
    <3>3. QED BY <1>1, <2>1, <3>2 DEF RegInv, RegCurrentInv
  <2>2. QED BY <1>1, <1>2, <2>1 DEF RegCurrentInv
<1>4. UpTo(regTrace, time) /\ regTrace \in Seq(Accesses)
  BY DEF RegInv, RegTimesInv, AccessTypes
<1>5. RegTimesInv'
  BY <1>1, <1>2, <1>4, TimesInt DEF RegTimesInv, UpTo
<1>6. \A r \in Reg : Found(regTrace, time + 1, r, X) = Found(regTrace, time, r, X)
  BY <1>2, <1>4, FoundLater
<1>7. RegFileInv'
  BY <1>1, <1>2, <1>6 DEF RegInv, RegFileInv
<1>8. RetiredRegistersInv'
  BY <1>1, <1>2 DEF RegInv, RetiredRegistersInv, Inv, RetiredInv
<1>9. QED BY <1>3, <1>5, <1>7, <1>8 DEF RegInv

\* In the middle of a cycle the write reaches the register file, before the
\* trace.
LEMMA RegFall ==
  ASSUME Inv, AccessTypes, RegInv, Fall
  PROVE  RegInv'
<1>1. /\ pending = {} /\ time' = time + 1 /\ clk' = 0 /\ clk = 1
      /\ pending' = {Handle["clk"]} /\ wires' = wires
      /\ UNCHANGED <<regCur, regTrace>>
      /\ regFile' = RegistersAfterCycle
  BY DEF Fall, Wave!Fall, Retire, traceVars
<1>2. ~Falling /\ Falling' /\ time \in Nat /\ time # 0 /\ time' = time + 1 /\ wires \in Cycles
  BY <1>1 DEF Falling, Inv, WaveInv
<1>3. RegCurrentInv'
  BY <1>1, <1>2 DEF RegInv, RegCurrentInv
<1>4. UpTo(regTrace, time) /\ regTrace \in Seq(Accesses)
  BY DEF RegInv, RegTimesInv, AccessTypes
<1>5. RegTimesInv'
  BY <1>1, <1>2, <1>4, TimesInt DEF RegTimesInv, UpTo
<1>6. \A r \in Reg : Found(regTrace, time + 1, r, X) = Found(regTrace, time, r, X)
  BY <1>2, <1>4, FoundLater
<1>7. RegFileInv'
  <2>1. \A r \in Reg : regFile[r] = Found(regTrace, time, r, X)
    BY <1>2 DEF RegInv, RegFileInv
  <2>2. DOMAIN regFile = Reg
    BY DEF RegInv, RegFileInv
  <2>3. wires["regWr"] = 1 => wires["regAddr"] \in Reg
    BY <1>2, PortAssumption
  <2>4. DOMAIN regFile' = Reg /\ \A r \in Reg :
           regFile'[r] = IF wires["regWr"] = 1 /\ r = wires["regAddr"] THEN wires["regData"]
                         ELSE regFile[r]
    BY <1>1, <2>2, <2>3 DEF RegistersAfterCycle
  <2>5. QED BY <1>1, <1>2, <1>6, <2>1, <2>4 DEF RegFileInv
<1>8. RetiredRegistersInv'
  <2>1. \A i \in DOMAIN retired :
            /\ retired[i].time \in Nat /\ retired[i].time <= time
            /\ \A r \in Reg : retired[i].after[r] = Found(regTrace, retired[i].time, r, X)
    BY <1>2 DEF RegInv, RetiredRegistersInv, Inv, RetiredInv
  <2> DEFINE e == [time |-> time + 1, pc |-> wires["pc"],
                   before |-> regFile, after |-> RegistersAfterCycle,
                   memory |-> MemoryAfterCycle]
  <2>2. retired' = IF wires["pcValid"] = 1 THEN Append(retired, e) ELSE retired
    BY DEF Fall, Retire
  <2>3. e.time = time' /\ e.after = regFile'
    BY <1>1
  <2> HIDE DEF e
  <2>4. PICK S : retired \in Seq(S)
    BY DEF Inv, RetiredInv
  <2>5. CASE wires["pcValid"] = 1
    <3>1. /\ DOMAIN retired' = 1..(Len(retired) + 1) /\ DOMAIN retired = 1..Len(retired)
          /\ Len(retired) \in Nat
          /\ \A i \in 1..Len(retired) : retired'[i] = retired[i]
          /\ retired'[Len(retired) + 1] = e
      <4> DEFINE T == S \cup {e}
      <4>1. retired \in Seq(T) /\ e \in T
        BY <2>4
      <4> HIDE DEF T
      <4>2. QED BY <2>2, <2>5, <4>1
    <3>2. ASSUME NEW i \in DOMAIN retired'
          PROVE  /\ retired'[i].time <= time'
                 /\ \A r \in Reg :
                      retired'[i].after[r] = IF Falling' /\ retired'[i].time = time' THEN regFile'[r]
                                             ELSE Found(regTrace', retired'[i].time, r, X)
      <4>1. CASE i = Len(retired) + 1
        BY <1>1, <1>2, <2>3, <3>1, <4>1
      <4>2. CASE i \in 1..Len(retired)
        <5>1. retired'[i] = retired[i] /\ retired[i].time < time'
          BY <1>1, <1>2, <2>1, <3>1, <4>2
        <5>2. QED BY <1>1, <1>2, <2>1, <3>1, <4>2, <5>1
      <4>3. QED BY <3>1, <4>1, <4>2
    <3>3. QED BY <3>2 DEF RetiredRegistersInv
  <2>6. CASE wires["pcValid"] # 1
    <3>1. \A i \in DOMAIN retired : retired[i].time < time'
      BY <1>1, <1>2, <2>1
    <3>2. QED BY <1>1, <1>2, <2>1, <2>2, <2>6, <3>1 DEF RetiredRegistersInv
  <2>7. QED BY <2>5, <2>6
<1>9. QED BY <1>3, <1>5, <1>7, <1>8 DEF RegInv

\* The callback of the clock lets the trace catch up with the register file.
LEMMA RegCallback ==
  ASSUME NoAliases(RegPorts), Inv, AccessTypes, RegInv, NEW h \in Wave!Handles, Callback(h)
  PROVE  RegInv'
<1>1. /\ h \in pending /\ pending' = pending \ {h}
      /\ UNCHANGED <<time, clk, wires, retired, regFile>>
  BY CallbackFrame DEF Callback, cpuVars
<1>2. /\ \A s \in RegPorts :
            regCur'[s] = IF h = Handle[s] /\ wires[s] # X THEN wires[s] ELSE regCur[s]
      /\ regTrace' = IF h = Handle["clk"] /\ clk = 0 THEN regTrace \o RegEntries ELSE regTrace
  BY RegHeard
<1>3. ~Falling'
  BY <1>1 DEF Falling, Inv, WaveInv
<1>4. RegCurrentInv'
  <2>1. time = 0 => regCur'["regWr"] = 0
    BY <1>2, PortAssumption DEF Inv, WaveInv, RegInv, RegCurrentInv, RegPorts
  <2>2. QED BY <1>1, <1>2, <2>1 DEF RegInv, RegCurrentInv
<1>5. RegTimesInv'
  BY <1>1, <1>3, RegTimesClock DEF RegTimesInv
<1>6. time \in Nat /\ \A i \in DOMAIN retired : retired[i].time \in Nat /\ retired[i].time <= time
  BY DEF Inv, WaveInv, RetiredInv, RegInv, RetiredRegistersInv
<1>7. CASE h = Handle["clk"] /\ clk = 0
  <2>1. \A t \in Nat, r \in Reg :
           Found(regTrace', t, r, X) =
             IF Falling /\ time <= t /\ wires["regWr"] = 1 /\ r = wires["regAddr"]
             THEN wires["regData"] ELSE Found(regTrace, t, r, X)
    BY <1>7, RegWritten
  <2>2. \A r \in Reg : regFile[r] = Found(regTrace', time, r, X)
    BY <1>6, <2>1 DEF RegInv, RegFileInv
  <2>3. RegFileInv'
    BY <1>1, <1>3, <2>2 DEF RegInv, RegFileInv
  <2>4. ASSUME NEW i \in DOMAIN retired, NEW r \in Reg
        PROVE  retired[i].after[r] = Found(regTrace', retired[i].time, r, X)
    <3>1. CASE Falling /\ retired[i].time = time
      BY <2>2, <3>1 DEF RegInv, RetiredRegistersInv
    <3>2. CASE ~(Falling /\ retired[i].time = time)
      <4>1. retired[i].after[r] = Found(regTrace, retired[i].time, r, X)
        BY <3>2 DEF RegInv, RetiredRegistersInv
      <4>2. Found(regTrace', retired[i].time, r, X) =
             IF Falling /\ time <= retired[i].time /\ wires["regWr"] = 1 /\ r = wires["regAddr"]
             THEN wires["regData"] ELSE Found(regTrace, retired[i].time, r, X)
        BY <1>6, <2>1
      <4>3. ~(Falling /\ time <= retired[i].time)
        BY <1>6, <3>2
      <4>4. QED BY <4>1, <4>2, <4>3
    <3>3. QED BY <3>1, <3>2
  <2>5. RetiredRegistersInv'
    BY <1>1, <1>3, <1>6, <2>4 DEF RetiredRegistersInv
  <2>6. QED BY <1>4, <1>5, <2>3, <2>5 DEF RegInv
<1>8. CASE ~(h = Handle["clk"] /\ clk = 0)
  <2>1. ~Falling /\ regTrace' = regTrace
    BY <1>1, <1>2, <1>8 DEF Falling, Inv, WaveInv
  <2>2. RegFileInv' /\ RetiredRegistersInv'
    BY <1>1, <1>3, <2>1 DEF RegInv, RegFileInv, RetiredRegistersInv
  <2>3. QED BY <1>4, <1>5, <2>2 DEF RegInv
<1>9. QED BY <1>7, <1>8

\* Every step keeps the invariant.
LEMMA RegNext ==
  ASSUME NoAliases(RegPorts)
  PROVE  Inv /\ AccessTypes /\ RegInv /\ [Next]_vars => RegInv'
<1>1. CASE UNCHANGED vars
  BY <1>1 DEF vars, waveVars, traceVars, cpuVars, RegInv, RegCurrentInv, RegTimesInv,
              RegFileInv, RetiredRegistersInv, Falling
<1>2. QED BY <1>1, RegRise, RegFall, RegCallback DEF Next, EndOfFile

\* RegFileTrace::getValue at the time of a retired instruction is the value
\* the register had after it, long after, for every order of callbacks.
THEOREM RegistersRecorded ==
  ASSUME NoAliases(RegPorts)
  PROVE  Spec => []RegistersAfter
<1>1. Inv /\ RegInv => RegistersAfter
  BY DEF RegistersAfter, Settled, Falling, RegInv, RetiredRegistersInv, Found
<1>2. Inv /\ AccessTypes /\ RegInv /\ [Next]_vars => RegInv'
  BY RegNext
<1>3. QED BY <1>1, <1>2, InitInv, NextInv, AccessTypesInit, AccessTypesNext, RegInit, PTL DEF Spec
-----------------------------------------------------------------------------
\* The word an address is in.
Word(addr) == addr - (addr % 4)

\* The lanes of an aligned store are the bytes it writes.
LEMMA StoreLanes ==
  ASSUME NEW addr \in Nat, NEW size \in 0..2, addr % Width(size) = 0, NEW a
  PROVE  /\ a \in addr..(addr + Width(size) - 1)
               <=> \E b \in 0..3 : b \in ByteEna(addr, size) /\ a = Word(addr) + b
         /\ \A b \in 0..3 : a = Word(addr) + b => a % 4 = b
<1>1. \A b \in 0..3 : (Word(addr) + b) % 4 = b
  BY DEF Word
<1>2. a \in addr..(addr + Width(size) - 1) => a \in Int /\ a >= addr
  BY DEF Width
<1>3. (\E b \in 0..3 : a = Word(addr) + b) => a \in Int
  BY DEF Word
<1>4. CASE size = 0
  <2>1. ByteEna(addr, size) = {addr % 4} /\ Width(size) = 1
    BY <1>4 DEF ByteEna, Width
  <2>2. addr % 4 \in 0..3
    OBVIOUS
  <2>3. QED BY <1>1, <1>2, <1>3, <2>1, <2>2 DEF Word
<1>5. CASE size = 1
  <2>1. ByteEna(addr, size) = {addr % 4, (addr % 4) + 1} \cap 0..3 /\ Width(size) = 2
    BY <1>5 DEF ByteEna, Width
  <2>2. addr % 4 = 0 \/ addr % 4 = 2
    BY <2>1
  <2>3. CASE addr % 4 = 0
    <3>1. \A b \in 0..3 : b \in ByteEna(addr, size) <=> b \in {0, 1}
      <4>1. (addr % 4) + 1 = 1 /\ {0, 1} \subseteq 0..3
        BY <2>3
      <4>2. ByteEna(addr, size) = {0, 1} \cap 0..3
        BY <2>1, <2>3, <4>1
      <4>3. QED BY <4>1, <4>2
    <3>2. QED BY <1>1, <1>2, <1>3, <2>1, <2>3, <3>1 DEF Word
  <2>4. CASE addr % 4 = 2
    <3>1. \A b \in 0..3 : b \in ByteEna(addr, size) <=> b \in {2, 3}
      <4>1. (addr % 4) + 1 = 3 /\ {2, 3} \subseteq 0..3
        BY <2>4
      <4>2. ByteEna(addr, size) = {2, 3} \cap 0..3
        BY <2>1, <2>4, <4>1
      <4>3. QED BY <4>1, <4>2
    <3>2. QED BY <1>1, <1>2, <1>3, <2>1, <2>4, <3>1 DEF Word
  <2>5. QED BY <2>2, <2>3, <2>4
<1>6. CASE size = 2
  <2>1. ByteEna(addr, size) = 0..3 /\ Width(size) = 4
    BY <1>6 DEF ByteEna, Width
  <2>2. addr % 4 = 0
    BY <2>1
  <2>3. QED BY <1>1, <1>2, <1>3, <2>1, <2>2 DEF Word
<1>7. QED BY <1>1, <1>4, <1>5, <1>6

\* What one lane adds to the trace.
LEMMA LaneAppend ==
  ASSUME AccessTypes, NEW q \in Seq(Accesses), UpTo(q, time), NEW b \in 0..3,
         NEW t \in Nat, NEW a
  PROVE  /\ q \o Lane(b) \in Seq(Accesses) /\ UpTo(q \o Lane(b), time)
         /\ Found(q \o Lane(b), t, a, 0) =
               IF /\ time <= t /\ b \in ByteEna(memCur["memAddr"], memCur["memSize"])
                  /\ a = Word(memCur["memAddr"]) + b
               THEN ByteOf(memCur["memData"], b) ELSE Found(q, t, a, 0)
<1>1. MemEntry(b) \in Accesses /\ MemEntry(b).wr /\ MemEntry(b).time = time
      /\ MemEntry(b).addr = Word(memCur["memAddr"]) + b
      /\ MemEntry(b).value = ByteOf(memCur["memData"], b)
  BY MemEntryType DEF MemEntry, Word
<1>2. CASE b \in ByteEna(memCur["memAddr"], memCur["memSize"])
  <2> DEFINE e == MemEntry(b)
  <2>1. Lane(b) = <<e>>
    BY <1>2 DEF Lane
  <2> HIDE DEF e
  <2>2. e \in Accesses /\ e.wr /\ UpTo(q, e.time)
    BY <1>1 DEF e
  <2>3. /\ q \o <<e>> \in Seq(Accesses) /\ UpTo(q \o <<e>>, e.time)
         /\ Found(q \o <<e>>, t, a, 0) =
               IF e.time <= t /\ e.addr = a THEN e.value
               ELSE Found(q, t, a, 0)
    BY <2>2, FoundAppend
  <2>4. QED BY <1>1, <1>2, <2>1, <2>3 DEF e
<1>3. CASE b \notin ByteEna(memCur["memAddr"], memCur["memSize"])
  <2>1. q \o Lane(b) = q
    BY <1>3 DEF Lane
  <2>2. QED BY <1>3, <2>1
<1>4. QED BY <1>2, <1>3

\* What all four of them add: the bytes of the store, and nothing elsewhere.
LEMMA LanesAppend ==
  ASSUME AccessTypes, UpTo(memTrace, time), NEW t \in Nat, NEW a
  PROVE  /\ UpTo(memTrace \o Lanes, time)
         /\ \A b \in 0..3 :
              time <= t /\ b \in ByteEna(memCur["memAddr"], memCur["memSize"])
                        /\ a = Word(memCur["memAddr"]) + b
              => Found(memTrace \o Lanes, t, a, 0) = ByteOf(memCur["memData"], b)
         /\ ~(\E b \in 0..3 :
              time <= t /\ b \in ByteEna(memCur["memAddr"], memCur["memSize"])
                        /\ a = Word(memCur["memAddr"]) + b)
              => Found(memTrace \o Lanes, t, a, 0) = Found(memTrace, t, a, 0)
<1> DEFINE q1 == memTrace \o Lane(0)
           q2 == q1 \o Lane(1)
           q3 == q2 \o Lane(2)
           q4 == q3 \o Lane(3)
           On(b) == /\ time <= t /\ b \in ByteEna(memCur["memAddr"], memCur["memSize"])
                    /\ a = Word(memCur["memAddr"]) + b
           Byte(b) == ByteOf(memCur["memData"], b)
<1>1. memTrace \o Lanes = q4
  <2>1. /\ Lane(0) \in Seq(Accesses) /\ Lane(1) \in Seq(Accesses)
        /\ Lane(2) \in Seq(Accesses) /\ Lane(3) \in Seq(Accesses)
        /\ memTrace \in Seq(Accesses)
    BY MemEntryType DEF Lane, AccessTypes
  <2>2. memTrace \o (Lane(0) \o Lane(1) \o Lane(2) \o Lane(3))
           = ((memTrace \o Lane(0)) \o Lane(1)) \o Lane(2) \o Lane(3)
    <3>1. PICK m \in Seq(Accesses), a0 \in Seq(Accesses), a1 \in Seq(Accesses),
               a2 \in Seq(Accesses), a3 \in Seq(Accesses) :
             m = memTrace /\ a0 = Lane(0) /\ a1 = Lane(1) /\ a2 = Lane(2) /\ a3 = Lane(3)
      BY <2>1
    <3>2. m \o (a0 \o a1 \o a2 \o a3) = ((m \o a0) \o a1) \o a2 \o a3
      <4>1. m \o ((a0 \o a1 \o a2) \o a3) = (m \o (a0 \o a1 \o a2)) \o a3
        OBVIOUS
      <4>2. m \o ((a0 \o a1) \o a2) = (m \o (a0 \o a1)) \o a2
        OBVIOUS
      <4>3. m \o (a0 \o a1) = (m \o a0) \o a1
        OBVIOUS
      <4>4. QED BY <4>1, <4>2, <4>3
    <3>3. QED BY <3>1, <3>2
  <2>3. QED BY <2>2 DEF Lanes
<1> HIDE DEF On, Byte
<1>2. /\ q1 \in Seq(Accesses) /\ UpTo(q1, time)
      /\ Found(q1, t, a, 0) = IF On(0) THEN Byte(0) ELSE Found(memTrace, t, a, 0)
  <2>1. memTrace \in Seq(Accesses) /\ 0 \in 0..3
    BY DEF AccessTypes
  <2>2. /\ memTrace \o Lane(0) \in Seq(Accesses) /\ UpTo(memTrace \o Lane(0), time)
        /\ Found(memTrace \o Lane(0), t, a, 0) =
               IF /\ time <= t /\ 0 \in ByteEna(memCur["memAddr"], memCur["memSize"])
                  /\ a = Word(memCur["memAddr"]) + 0
               THEN ByteOf(memCur["memData"], 0) ELSE Found(memTrace, t, a, 0)
    BY <2>1, LaneAppend
  <2>3. QED BY <2>2 DEF On, Byte
<1> HIDE DEF q1
<1>3. /\ q2 \in Seq(Accesses) /\ UpTo(q2, time)
      /\ Found(q2, t, a, 0) = IF On(1) THEN Byte(1) ELSE Found(q1, t, a, 0)
  BY <1>2, LaneAppend DEF On, Byte
<1> HIDE DEF q2
<1>4. /\ q3 \in Seq(Accesses) /\ UpTo(q3, time)
      /\ Found(q3, t, a, 0) = IF On(2) THEN Byte(2) ELSE Found(q2, t, a, 0)
  BY <1>3, LaneAppend DEF On, Byte
<1> HIDE DEF q3
<1>5. /\ q4 \in Seq(Accesses) /\ UpTo(q4, time)
      /\ Found(q4, t, a, 0) = IF On(3) THEN Byte(3) ELSE Found(q3, t, a, 0)
  BY <1>4, LaneAppend DEF On, Byte
<1> HIDE DEF q4
<1>6. \A b, c \in 0..3 : On(b) /\ On(c) => b = c
  <2>1. Word(memCur["memAddr"]) \in Int
    BY ChainsAre DEF AccessTypes, Word
  <2>2. QED BY <2>1 DEF On
<1>7. \A b \in 0..3 : On(b) => Found(q4, t, a, 0) = Byte(b)
  <2>1. \A b \in 0..3 : b = 0 \/ b = 1 \/ b = 2 \/ b = 3
    OBVIOUS
  <2>2. QED BY <1>2, <1>3, <1>4, <1>5, <1>6, <2>1
<1>8. ~(\E b \in 0..3 : On(b)) => Found(q4, t, a, 0) = Found(memTrace, t, a, 0)
  BY <1>2, <1>3, <1>4, <1>5
<1>9. QED BY <1>1, <1>5, <1>7, <1>8 DEF On, Byte

-----------------------------------------------------------------------------
\* The same four parts for the memory: what has been called back is current,
MemCurrentInv ==
    /\ time = 0 => memCur["memValid"] = 0
    /\ \A s \in MemPorts :
          Handle[s] \notin pending /\ wires[s] # X => memCur[s] = wires[s]

\* no entry is from the future,
MemTimesInv ==
    /\ UpTo(memTrace, time)
    /\ Falling => UpTo(memTrace, time - 1)

\* the trace gives the memory, but for the store it is still to hear of,
MemoryInv ==
    /\ DOMAIN memory = Bytes
    /\ \A a \in Bytes :
          memory[a] = IF Falling /\ a \in Stored THEN ByteOf(wires["memData"], a % 4)
                      ELSE Found(memTrace, time, a, 0)

\* and so it does at the time of every retired instruction.
RetiredMemoryInv ==
    \A i \in DOMAIN retired :
        /\ retired[i].time <= time
        /\ \A a \in Bytes :
              retired[i].memory[a] = IF Falling /\ retired[i].time = time THEN memory[a]
                                     ELSE Found(memTrace, retired[i].time, a, 0)

\* Together they are inductive.
MemInv == MemCurrentInv /\ MemTimesInv /\ MemoryInv /\ RetiredMemoryInv

\* A callback for a signal of the port updates that signal and no other, even
\* when signals of the response, later in the chain, are aliases of it.
LEMMA MemHeard ==
  ASSUME NoAliases(MemPorts), Inv, AccessTypes, NEW h \in Wave!Handles, Callback(h)
  PROVE  /\ \A s \in MemPorts :
               memCur'[s] = IF h = Handle[s] /\ wires[s] # X THEN wires[s] ELSE memCur[s]
         /\ memTrace' = IF h = Handle["clk"] /\ clk = 0 THEN memTrace \o MemEntries ELSE memTrace
<1>1. DOMAIN MemChain = 1..9 /\ MemChain[1] = "memValid" /\ MemChain[2] = "memReady"
      /\ MemChain[3] = "memAddr" /\ MemChain[4] = "memSize" /\ MemChain[5] = "memWr"
      /\ MemChain[6] = "memData" /\ MemChain[7] = "rspValid" /\ MemChain[8] = "rspData"
      /\ MemChain[9] = "clk"
  BY DEF MemChain
<1>2. /\ MemPorts \subseteq Signals /\ MemTrace!Ports = MemPorts \cup {"rspValid", "rspData"}
      /\ \A s \in MemTrace!Ports : Handle[s] # Handle["clk"]
  BY ChainsAre, HandleAssumption DEF MemPorts
<1>3. MemTrace!Listens(h) <=> \E k \in 1..9 : Handle[MemChain[k]] = h
  BY <1>1 DEF MemTrace!Listens
<1>4. MemTrace!Changed(h, Wave!ValueOf(h), MemEntries)
  BY DEF Callback
<1>5. wires \in Resets \cup Cycles /\ clk \in {0, 1} /\ X \notin {0, 1}
  BY PortAssumption DEF Inv, WaveInv
<1> DEFINE K == {i \in 1..9 : Handle[MemChain[i]] = h}
<1>6. MemTrace!Receiver(h) = MemChain[Min(K)]
  BY <1>1 DEF MemTrace!Receiver, MemTrace!Min, Min
<1>7. ASSUME MemTrace!Listens(h)
      PROVE  Min(K) \in K /\ \A x \in K : Min(K) <= x
  <2>1. K \in SUBSET (1..9) /\ K # {} /\ 9 \in Nat
    BY <1>3, <1>7
  <2> HIDE DEF K
  <2>2. QED BY <2>1, MinExists
<1>8. CASE h = Handle["clk"]
  <2>1. K = {9}
    BY <1>1, <1>2, <1>8 DEF MemPorts
  <2>2. MemTrace!Receiver(h) = "clk" /\ MemTrace!Listens(h) /\ Wave!ValueOf(h) = clk
    BY <1>1, <1>3, <1>6, <1>7, <1>8, <2>1 DEF Wave!ValueOf
  <2>3. memCur' = memCur /\ memTrace' = IF clk = 0 THEN memTrace \o MemEntries ELSE memTrace
    BY <1>4, <1>5, <2>2
       DEF MemTrace!Changed, MemTrace!Ignored, MemTrace!Updated,
           MemTrace!RisingEdge, MemTrace!FallingEdge, MemTrace!vars
  <2>4. QED BY <1>2, <1>8, <2>3
<1>9. ASSUME NEW p \in MemPorts, h = Handle[p]
      PROVE  /\ \A s \in MemPorts :
                   memCur'[s] = IF h = Handle[s] /\ wires[s] # X THEN wires[s] ELSE memCur[s]
             /\ memTrace' = memTrace
  <2>1. MemTrace!Receiver(h) = p /\ MemTrace!Listens(h) /\ p # "clk"
    <3>1. PICK k \in 1..6 : MemChain[k] = p
      BY <1>1 DEF MemPorts
    <3>2. k \in K /\ \A j \in 1..6 : j \in K => j = k
      BY <1>1, <1>9, <3>1 DEF NoAliases, MemPorts
    <3>3. MemTrace!Listens(h)
      BY <1>3, <3>2
    <3>4. Min(K) \in 1..6
      <4>1. Min(K) \in 1..9 /\ Min(K) <= k
        BY <1>7, <3>2, <3>3
      <4>2. QED BY <4>1
    <3>5. Min(K) = k
      BY <1>7, <3>2, <3>3, <3>4
    <3>6. QED BY <1>6, <3>1, <3>3, <3>5 DEF MemPorts
  <2>2. Wave!ValueOf(h) = wires[p]
    BY <1>2, <1>5, <1>9, ValueOfSignal
  <2>3. memTrace' = memTrace
        /\ memCur' = IF wires[p] = X THEN memCur ELSE [memCur EXCEPT ![p] = wires[p]]
    BY <1>4, <2>1, <2>2
       DEF MemTrace!Changed, MemTrace!Ignored, MemTrace!Updated,
           MemTrace!RisingEdge, MemTrace!FallingEdge, MemTrace!vars
  <2>4. \A s \in MemPorts : h = Handle[s] <=> s = p
    BY <1>9 DEF NoAliases
  <2>5. MemPorts \subseteq DOMAIN memCur
    BY <1>2 DEF AccessTypes
  <2>6. QED BY <2>3, <2>4, <2>5
<1>10. CASE h # Handle["clk"] /\ \A s \in MemPorts : h # Handle[s]
  <2>1. MemTrace!Listens(h) => MemTrace!Receiver(h) \in {"rspValid", "rspData"}
    <3>1. \A k \in 1..9 : k \in K => k \in {7, 8}
      BY <1>1, <1>10 DEF MemPorts
    <3>2. MemTrace!Listens(h) => Min(K) \in {7, 8}
      BY <1>7, <3>1
    <3>3. QED BY <1>1, <1>6, <3>2
  <2>2. memTrace' = memTrace /\ \A s \in MemPorts : memCur'[s] = memCur[s]
    <3>1. {"rspValid", "rspData"} \cap (MemPorts \cup {"clk"}) = {}
      BY DEF MemPorts
    <3>2. MemPorts \subseteq DOMAIN memCur
      BY <1>2 DEF AccessTypes
    <3>3. QED
      BY <1>4, <2>1, <3>1, <3>2
         DEF MemTrace!Changed, MemTrace!Ignored, MemTrace!Updated,
             MemTrace!RisingEdge, MemTrace!FallingEdge, MemTrace!vars
  <2>3. QED BY <1>10, <2>2
<1>11. QED BY <1>2, <1>8, <1>9, <1>10

\* What MemEntries adds at the falling edge of a cycle: the store of the cycle.
LEMMA MemWritten ==
  ASSUME NoAliases(MemPorts), Inv, AccessTypes, MemInv, Callback(Handle["clk"]), clk = 0,
         NEW t \in Nat, NEW a
  PROVE  Found(memTrace', t, a, 0) =
            IF Falling /\ time <= t /\ a \in Stored
            THEN ByteOf(wires["memData"], a % 4) ELSE Found(memTrace, t, a, 0)
<1>1. /\ Handle["clk"] \in pending /\ Handle["clk"] \in Wave!Handles
      /\ memTrace' = memTrace \o MemEntries /\ time \in Nat /\ memTrace \in Seq(Accesses)
  BY MemHeard, CallbackFrame DEF Wave!Handles, Inv, WaveInv, AccessTypes
<1>2. MemPorts \subseteq Signals /\ \A s \in MemPorts : Handle[s] # Handle["clk"]
  BY ChainsAre, HandleAssumption DEF MemPorts
<1>3. ASSUME Falling
      PROVE  wires \in Cycles /\ \A s \in MemPorts : wires[s] # X => memCur[s] = wires[s]
  BY <1>2, <1>3 DEF Falling, Inv, WaveInv, MemInv, MemCurrentInv
<1>4. CASE Falling /\ wires["memValid"] = 1 /\ wires["memReady"] = 1 /\ wires["memWr"] = 1
  <2>1. /\ {wires["memAddr"], wires["memData"]} \subseteq Nat
        /\ wires["memSize"] \in 0..2
        /\ wires["memAddr"] % Width(wires["memSize"]) = 0
    BY <1>3, <1>4, PortAssumption
  <2>2. /\ memCur["memValid"] = 1 /\ memCur["memReady"] = 1 /\ memCur["memWr"] = 1
        /\ memCur["memAddr"] = wires["memAddr"] /\ memCur["memData"] = wires["memData"]
        /\ memCur["memSize"] = wires["memSize"]
    BY <1>3, <1>4, <2>1, PortAssumption DEF MemPorts
  <2>3. memTrace' = memTrace \o Lanes
    BY <1>1, <2>2 DEF MemEntries
  <2>4. Stored = wires["memAddr"]..(wires["memAddr"] + Width(wires["memSize"]) - 1)
    BY <1>4 DEF Stored
  <2> DEFINE On(b) == /\ b \in ByteEna(wires["memAddr"], wires["memSize"])
                      /\ a = Word(wires["memAddr"]) + b
  <2>5. (a \in Stored <=> \E b \in 0..3 : On(b)) /\ \A b \in 0..3 : On(b) => a % 4 = b
    BY <2>1, <2>4, StoreLanes
  <2>6. /\ \A b \in 0..3 : time <= t /\ On(b)
              => Found(memTrace', t, a, 0) = ByteOf(wires["memData"], b)
        /\ ~(\E b \in 0..3 : time <= t /\ On(b))
              => Found(memTrace', t, a, 0) = Found(memTrace, t, a, 0)
    BY <2>2, <2>3, LanesAppend DEF MemInv, MemTimesInv
  <2> HIDE DEF On
  <2>7. QED BY <1>4, <2>5, <2>6
<1>5. CASE ~(Falling /\ wires["memValid"] = 1 /\ wires["memReady"] = 1 /\ wires["memWr"] = 1)
  <2>1. ~(Falling /\ a \in Stored)
    BY <1>5 DEF Stored
  <2>2. MemEntries = << >>
    <3>1. CASE time = 0
      BY <3>1 DEF MemEntries, MemInv, MemCurrentInv
    <3>2. CASE time # 0
      <4>1. Falling
        BY <1>1, <3>2 DEF Falling
      <4>2. SUFFICES ASSUME memCur["memValid"] # 0, memCur["memReady"] # 0,
                            memCur["memWr"] # 0
                     PROVE  FALSE
        BY DEF MemEntries
      <4>3. {wires["memValid"], wires["memReady"]} \subseteq {0, 1}
        BY <1>3, <4>1, PortAssumption
      <4>4. wires["memValid"] = 1 /\ wires["memReady"] = 1
        BY <1>3, <4>1, <4>2, <4>3, PortAssumption DEF MemPorts
      <4>5. wires["memWr"] \in {0, 1}
        BY <1>3, <4>1, <4>4, PortAssumption
      <4>6. wires["memWr"] = 1
        BY <1>3, <4>1, <4>2, <4>5, PortAssumption DEF MemPorts
      <4>7. QED BY <1>5, <4>1, <4>4, <4>6
    <3>3. QED BY <3>1, <3>2
  <2>3. memTrace' = memTrace
    BY <1>1, <2>2
  <2>4. QED BY <2>1, <2>3
<1>6. QED BY <1>4, <1>5

\* The entries a callback adds are of the present time.
LEMMA MemTimesClock ==
  ASSUME NoAliases(MemPorts), Inv, AccessTypes, MemInv, NEW h \in Wave!Handles, Callback(h)
  PROVE  UpTo(memTrace', time)
<1>1. memTrace \in Seq(Accesses) /\ UpTo(memTrace, time)
  BY DEF AccessTypes, MemInv, MemTimesInv
<1>2. UpTo(memTrace \o Lanes, time)
  <2>1. \A t \in Nat : UpTo(memTrace \o Lanes, time)
    BY <1>1, LanesAppend
  <2>2. QED BY <2>1
<1>3. UpTo(memTrace \o MemEntries, time)
  <2>1. memTrace \o << >> = memTrace
    BY <1>1
  <2>2. MemEntries = Lanes \/ MemEntries = << >>
    BY DEF MemEntries
  <2>3. QED BY <1>1, <1>2, <2>1, <2>2
<1>4. QED BY <1>1, <1>3, MemHeard

\* At first memory is 0 and no trace has an entry.
LEMMA MemInit == Init => MemInv
<1> SUFFICES ASSUME Init PROVE MemInv
  OBVIOUS
<1>1. /\ time = 0 /\ memTrace = << >> /\ retired = << >> /\ pending = Wave!Handles
      /\ memCur = [s \in MemTrace!Ports |-> 0] /\ memory = [a \in Bytes |-> 0]
  BY DEF Init, Wave!Init, MemTrace!Init
<1>2. \A a : Found(memTrace, time, a, 0) = 0
  BY <1>1 DEF Found, HasValue, WritesSeen, SeenAt
<1>3. ~Falling /\ \A s \in MemPorts : Handle[s] \in pending
  BY <1>1, ChainsAre DEF Falling, MemPorts, Wave!Handles
<1>4. "memValid" \in MemTrace!Ports
  BY ChainsAre
<1>5. QED BY <1>1, <1>2, <1>3, <1>4
       DEF MemInv, MemCurrentInv, MemTimesInv, MemoryInv, RetiredMemoryInv, UpTo

\* On a rising edge the changed signals become pending, the others stay current.
LEMMA MemRise ==
  ASSUME Inv, AccessTypes, MemInv, Rise
  PROVE  MemInv'
<1>1. /\ pending = {} /\ time' = time + 1 /\ clk' = 1 /\ clk = 0
      /\ pending' = {Handle["clk"]}
                    \cup {Handle[s] : s \in {t \in Signals : wires'[t] # wires[t]}}
      /\ UNCHANGED <<memCur, memTrace, memory, retired>>
  BY DEF Rise, Wave!Rise, traceVars, cpuVars
<1>2. ~Falling /\ ~Falling' /\ time \in Nat
  BY <1>1 DEF Falling, Inv, WaveInv
<1>3. MemCurrentInv'
  <2>1. ASSUME NEW s \in MemPorts, Handle[s] \notin pending', wires'[s] # X
        PROVE  memCur'[s] = wires'[s]
    <3>1. s \in Signals
      BY ChainsAre DEF MemPorts
    <3>2. wires'[s] = wires[s]
      BY <1>1, <2>1, <3>1
    <3>3. QED BY <1>1, <2>1, <3>2 DEF MemInv, MemCurrentInv
  <2>2. QED BY <1>1, <1>2, <2>1 DEF MemCurrentInv
<1>4. UpTo(memTrace, time) /\ memTrace \in Seq(Accesses)
  BY DEF MemInv, MemTimesInv, AccessTypes
<1>5. MemTimesInv'
  BY <1>1, <1>2, <1>4, TimesInt DEF MemTimesInv, UpTo
<1>6. \A a : Found(memTrace, time + 1, a, 0) = Found(memTrace, time, a, 0)
  BY <1>2, <1>4, FoundLater
<1>7. MemoryInv'
  BY <1>1, <1>2, <1>6 DEF MemInv, MemoryInv
<1>8. RetiredMemoryInv'
  BY <1>1, <1>2 DEF MemInv, RetiredMemoryInv, Inv, RetiredInv
<1>9. QED BY <1>3, <1>5, <1>7, <1>8 DEF MemInv

\* In the middle of a cycle the store reaches memory, before the trace.
LEMMA MemFall ==
  ASSUME Inv, AccessTypes, MemInv, Fall
  PROVE  MemInv'
<1>1. /\ pending = {} /\ time' = time + 1 /\ clk' = 0 /\ clk = 1
      /\ pending' = {Handle["clk"]} /\ wires' = wires
      /\ UNCHANGED <<memCur, memTrace>>
      /\ memory' = MemoryAfterCycle
  BY DEF Fall, Wave!Fall, Retire, traceVars
<1>2. ~Falling /\ Falling' /\ time \in Nat /\ time # 0 /\ time' = time + 1 /\ wires \in Cycles
  BY <1>1 DEF Falling, Inv, WaveInv
<1>3. MemCurrentInv'
  BY <1>1, <1>2 DEF MemInv, MemCurrentInv
<1>4. UpTo(memTrace, time) /\ memTrace \in Seq(Accesses)
  BY DEF MemInv, MemTimesInv, AccessTypes
<1>5. MemTimesInv'
  BY <1>1, <1>2, <1>4, TimesInt DEF MemTimesInv, UpTo
<1>6. \A a : Found(memTrace, time + 1, a, 0) = Found(memTrace, time, a, 0)
  BY <1>2, <1>4, FoundLater
<1>7. MemoryInv'
  <2>1. \A a \in Bytes : memory[a] = Found(memTrace, time, a, 0)
    BY <1>2 DEF MemInv, MemoryInv
  <2>2. Stored' = Stored
    BY <1>1 DEF Stored
  <2>3. DOMAIN memory' = Bytes /\ \A a \in Bytes :
           memory'[a] = IF a \in Stored THEN ByteOf(wires["memData"], a % 4) ELSE memory[a]
    BY <1>1 DEF MemoryAfterCycle
  <2>4. QED BY <1>1, <1>2, <1>6, <2>1, <2>2, <2>3 DEF MemoryInv
<1>8. RetiredMemoryInv'
  <2>1. \A i \in DOMAIN retired :
            /\ retired[i].time \in Nat /\ retired[i].time <= time
            /\ \A a \in Bytes :
                 retired[i].memory[a] = Found(memTrace, retired[i].time, a, 0)
    BY <1>2 DEF MemInv, RetiredMemoryInv, Inv, RetiredInv
  <2> DEFINE e == [time |-> time + 1, pc |-> wires["pc"],
                   before |-> regFile, after |-> RegistersAfterCycle,
                   memory |-> MemoryAfterCycle]
  <2>2. retired' = IF wires["pcValid"] = 1 THEN Append(retired, e) ELSE retired
    BY DEF Fall, Retire
  <2>3. e.time = time' /\ e.memory = memory'
    BY <1>1
  <2> HIDE DEF e
  <2>4. PICK S : retired \in Seq(S)
    BY DEF Inv, RetiredInv
  <2>5. CASE wires["pcValid"] = 1
    <3>1. /\ DOMAIN retired' = 1..(Len(retired) + 1) /\ DOMAIN retired = 1..Len(retired)
          /\ Len(retired) \in Nat
          /\ \A i \in 1..Len(retired) : retired'[i] = retired[i]
          /\ retired'[Len(retired) + 1] = e
      <4> DEFINE T == S \cup {e}
      <4>1. retired \in Seq(T) /\ e \in T
        BY <2>4
      <4> HIDE DEF T
      <4>2. QED BY <2>2, <2>5, <4>1
    <3>2. ASSUME NEW i \in DOMAIN retired'
          PROVE  /\ retired'[i].time <= time'
                 /\ \A a \in Bytes :
                      retired'[i].memory[a] =
                         IF Falling' /\ retired'[i].time = time' THEN memory'[a]
                         ELSE Found(memTrace', retired'[i].time, a, 0)
      <4>1. CASE i = Len(retired) + 1
        BY <1>1, <1>2, <2>3, <3>1, <4>1
      <4>2. CASE i \in 1..Len(retired)
        <5>1. retired'[i] = retired[i] /\ retired[i].time < time'
          BY <1>1, <1>2, <2>1, <3>1, <4>2
        <5>2. QED BY <1>1, <1>2, <2>1, <3>1, <4>2, <5>1
      <4>3. QED BY <3>1, <4>1, <4>2
    <3>3. QED BY <3>2 DEF RetiredMemoryInv
  <2>6. CASE wires["pcValid"] # 1
    <3>1. \A i \in DOMAIN retired : retired[i].time < time'
      BY <1>1, <1>2, <2>1
    <3>2. QED BY <1>1, <1>2, <2>1, <2>2, <2>6, <3>1 DEF RetiredMemoryInv
  <2>7. QED BY <2>5, <2>6
<1>9. QED BY <1>3, <1>5, <1>7, <1>8 DEF MemInv

\* The callback of the clock lets the trace catch up with the memory.
LEMMA MemCallback ==
  ASSUME NoAliases(MemPorts), Inv, AccessTypes, MemInv, NEW h \in Wave!Handles, Callback(h)
  PROVE  MemInv'
<1>1. /\ h \in pending /\ pending' = pending \ {h}
      /\ UNCHANGED <<time, clk, wires, retired, memory>>
  BY CallbackFrame DEF Callback, cpuVars
<1>2. /\ \A s \in MemPorts :
            memCur'[s] = IF h = Handle[s] /\ wires[s] # X THEN wires[s] ELSE memCur[s]
      /\ memTrace' = IF h = Handle["clk"] /\ clk = 0 THEN memTrace \o MemEntries ELSE memTrace
  BY MemHeard
<1>3. ~Falling'
  BY <1>1 DEF Falling, Inv, WaveInv
<1>4. MemCurrentInv'
  <2>1. time = 0 => memCur'["memValid"] = 0
    BY <1>2, PortAssumption DEF Inv, WaveInv, MemInv, MemCurrentInv, MemPorts
  <2>2. QED BY <1>1, <1>2, <2>1 DEF MemInv, MemCurrentInv
<1>5. MemTimesInv'
  BY <1>1, <1>3, MemTimesClock DEF MemTimesInv
<1>6. time \in Nat /\ \A i \in DOMAIN retired : retired[i].time \in Nat /\ retired[i].time <= time
  BY DEF Inv, WaveInv, RetiredInv, MemInv, RetiredMemoryInv
<1>7. CASE h = Handle["clk"] /\ clk = 0
  <2>1. \A t \in Nat, a \in Bytes :
           Found(memTrace', t, a, 0) =
             IF Falling /\ time <= t /\ a \in Stored
             THEN ByteOf(wires["memData"], a % 4) ELSE Found(memTrace, t, a, 0)
    BY <1>7, MemWritten
  <2>2. \A a \in Bytes : memory[a] = Found(memTrace', time, a, 0)
    BY <1>6, <2>1 DEF MemInv, MemoryInv
  <2>3. MemoryInv'
    BY <1>1, <1>3, <2>2 DEF MemInv, MemoryInv
  <2>4. ASSUME NEW i \in DOMAIN retired, NEW a \in Bytes
        PROVE  retired[i].memory[a] = Found(memTrace', retired[i].time, a, 0)
    <3>1. CASE Falling /\ retired[i].time = time
      BY <2>2, <3>1 DEF MemInv, RetiredMemoryInv
    <3>2. CASE ~(Falling /\ retired[i].time = time)
      <4>1. retired[i].memory[a] = Found(memTrace, retired[i].time, a, 0)
        BY <3>2 DEF MemInv, RetiredMemoryInv
      <4>2. Found(memTrace', retired[i].time, a, 0) =
             IF Falling /\ time <= retired[i].time /\ a \in Stored
             THEN ByteOf(wires["memData"], a % 4) ELSE Found(memTrace, retired[i].time, a, 0)
        BY <1>6, <2>1
      <4>3. ~(Falling /\ time <= retired[i].time)
        BY <1>6, <3>2
      <4>4. QED BY <4>1, <4>2, <4>3
    <3>3. QED BY <3>1, <3>2
  <2>5. RetiredMemoryInv'
    BY <1>1, <1>3, <1>6, <2>4 DEF RetiredMemoryInv
  <2>6. QED BY <1>4, <1>5, <2>3, <2>5 DEF MemInv
<1>8. CASE ~(h = Handle["clk"] /\ clk = 0)
  <2>1. ~Falling /\ memTrace' = memTrace
    BY <1>1, <1>2, <1>8 DEF Falling, Inv, WaveInv
  <2>2. MemoryInv' /\ RetiredMemoryInv'
    BY <1>1, <1>3, <2>1 DEF MemInv, MemoryInv, RetiredMemoryInv
  <2>3. QED BY <1>4, <1>5, <2>2 DEF MemInv
<1>9. QED BY <1>7, <1>8

\* Every step keeps the invariant.
LEMMA MemNext ==
  ASSUME NoAliases(MemPorts)
  PROVE  Inv /\ AccessTypes /\ MemInv /\ [Next]_vars => MemInv'
<1>1. CASE UNCHANGED vars
  BY <1>1 DEF vars, waveVars, traceVars, cpuVars, MemInv, MemCurrentInv, MemTimesInv,
              MemoryInv, RetiredMemoryInv, Falling, Stored
<1>2. QED BY <1>1, MemRise, MemFall, MemCallback DEF Next, EndOfFile

\* MemTrace::getValue at the time of a retired instruction is the byte memory
\* held after it: stores of 1, 2 and 4 bytes, accepted by the bus or not.
THEOREM MemoryRecorded ==
  ASSUME NoAliases(MemPorts)
  PROVE  Spec => []MemoryAfter
<1>1. Inv /\ MemInv => MemoryAfter
  <2>1. \A t, a : MemByteAt(memTrace, << >>, 0, t, a) = Found(memTrace, t, a, 0)
    <3>1. \A a : a \notin 0..(0 + Len(<< >>) - 1)
      OBVIOUS
    <3>2. QED BY <3>1 DEF MemByteAt, Found
  <2>2. QED BY <2>1 DEF MemoryAfter, Settled, Falling, MemInv, RetiredMemoryInv
<1>2. Inv /\ AccessTypes /\ MemInv /\ [Next]_vars => MemInv'
  BY MemNext
<1>3. QED BY <1>1, <1>2, InitInv, NextInv, AccessTypesInit, AccessTypesNext, MemInit, PTL DEF Spec
=============================================================================
