----------------------------- MODULE Extraction -----------------------------
(***************************************************************************)
(* The extraction of the three traces from a waveform (CpuTrace.cc,        *)
(* RegFileTrace.cc, MemTrace.cc), next to what the simulated CPU did.      *)
(*                                                                         *)
(* The code plays the waveform back once for each trace.  The traces share *)
(* nothing, so that the model plays it back once for all three.            *)
(***************************************************************************)
EXTENDS Traces

CONSTANTS
    Handle, Resets, Cycles, MaxCycles,   \* as in Waveform
    X,                                   \* as in PortTrace
    Reg,                                 \* the registers
    Bytes                                \* the addresses of bytes in memory

VARIABLES
    time, clk, wires, pending,           \* as in Waveform
    cpuCur, pcTrace,                     \* CpuTrace
    regCur, regTrace,                    \* RegFileTrace
    memCur, memTrace,                    \* MemTrace
    regFile,      \* the CPU's registers
    memory,       \* the memory behind its data bus
    retired       \* history: the instructions it retired, each with its time
                  \* and with registers and memory at that time

waveVars  == <<time, clk, wires, pending>>
traceVars == <<cpuCur, pcTrace, regCur, regTrace, memCur, memTrace>>
cpuVars   == <<regFile, memory, retired>>
vars      == <<waveVars, traceVars, cpuVars>>

PcChain  == <<"pcValid", "pc", "clk">>
RegChain == <<"regWr", "regAddr", "regData", "clk">>
MemChain == <<"memValid", "memReady", "memAddr", "memSize", "memWr", "memData",
              "rspValid", "rspData", "clk">>

CpuTrace     == INSTANCE PortTrace WITH Chain <- PcChain, cur <- cpuCur, trace <- pcTrace
RegFileTrace == INSTANCE PortTrace WITH Chain <- RegChain, cur <- regCur, trace <- regTrace
MemTrace     == INSTANCE PortTrace WITH Chain <- MemChain, cur <- memCur, trace <- memTrace

Signals == CpuTrace!Ports \cup RegFileTrace!Ports \cup MemTrace!Ports

Wave == INSTANCE Waveform

\* The clock is no alias; a program counter is wider than its valid.
ASSUME HandleAssumption ==
    /\ \A s \in Signals : Handle[s] # Handle["clk"]
    /\ Handle["pc"] # Handle["pcValid"]

\* Signals with one handle always have the same value.
ASSUME AliasAssumption ==
    \A w \in Resets \cup Cycles : \A s, t \in Signals :
        Handle[s] = Handle[t] => w[s] = w[t]

\* The bytes a store of each size writes.
Width(size) == CASE size = 0 -> 1 [] size = 1 -> 2 [] OTHER -> 4

ASSUME CyclesAssumption == MaxCycles \in Nat

\* Before the first rising edge no port is active, though it may be unknown;
\* after it, it is known whether a port is active, and an active one is known.
\* A store is aligned.
ASSUME PortAssumption ==
    /\ X \notin Nat /\ Reg \subseteq Nat
    /\ \A w \in Resets \cup Cycles : \A s \in Signals : w[s] \in Nat \cup {X}
    /\ \A w \in Resets : {w["pcValid"], w["regWr"], w["memValid"]} \subseteq {0, X}
    /\ \A w \in Cycles :
        /\ {w["pcValid"], w["regWr"], w["memValid"], w["memReady"]} \subseteq {0, 1}
        /\ w["pcValid"] = 1 => w["pc"] \in Nat
        /\ w["regWr"] = 1 => w["regAddr"] \in Reg /\ w["regData"] \in Nat
        /\ w["memValid"] = 1 =>
              /\ {w["memAddr"], w["memData"]} \subseteq Nat
              /\ w["memWr"] \in {0, 1} /\ w["memSize"] \in 0..2
              /\ w["memWr"] = 1 => w["memAddr"] % Width(w["memSize"]) = 0

-----------------------------------------------------------------------------
(* The entries at a falling edge. *)

\* Faulty variant: an instruction at the address of the last one is not new.
PcEntriesIfNew ==
    IF cpuCur["pcValid"] # 0
       /\ (pcTrace = << >> \/ pcTrace[Len(pcTrace)].pc # cpuCur["pc"])
    THEN <<[time |-> time, pc |-> cpuCur["pc"]]>> ELSE << >>

PcEntries ==
    IF cpuCur["pcValid"] # 0 THEN <<[time |-> time, pc |-> cpuCur["pc"]]>> ELSE << >>

RegEntries ==
    IF regCur["regWr"] # 0
    THEN <<[time |-> time, wr |-> TRUE, addr |-> regCur["regAddr"],
            value |-> regCur["regData"]]>>
    ELSE << >>

\* The bytes of a word that a write enables, given address and size.
ByteEna(addr, size) ==
    CASE size = 0 -> {addr % 4}
      [] size = 1 -> {addr % 4, (addr % 4) + 1} \cap 0..3
      [] OTHER    -> 0..3

ByteOf(word, b) == (word \div <<1, 256, 65536, 16777216>>[b + 1]) % 256

MemEntry(b) ==
    [time  |-> time, wr |-> TRUE,
     addr  |-> memCur["memAddr"] - (memCur["memAddr"] % 4) + b,
     value |-> ByteOf(memCur["memData"], b)]

Lane(b) ==
    IF b \in ByteEna(memCur["memAddr"], memCur["memSize"]) THEN <<MemEntry(b)>> ELSE << >>

\* One entry for each byte that is written, in the order of their addresses.
Lanes == Lane(0) \o Lane(1) \o Lane(2) \o Lane(3)

\* Faulty variant: a write counts before the bus has accepted it.
MemEntriesUnaccepted ==
    IF memCur["memValid"] # 0 /\ memCur["memWr"] # 0 THEN Lanes ELSE << >>

MemEntries ==
    IF memCur["memValid"] # 0 /\ memCur["memReady"] # 0 /\ memCur["memWr"] # 0
    THEN Lanes ELSE << >>

-----------------------------------------------------------------------------
(* The simulated CPU, from its signals: an instruction retires in the cycle *)
(* of its register write; a store is a write of 1, 2 or 4 bytes, at an      *)
(* address that is a multiple of their number, on the lanes of that address *)
(* (external).                                                              *)

Stored ==
    IF wires["memValid"] = 1 /\ wires["memReady"] = 1 /\ wires["memWr"] = 1
    THEN wires["memAddr"]..(wires["memAddr"] + Width(wires["memSize"]) - 1)
    ELSE {}

RegistersAfterCycle ==
    IF wires["regWr"] = 1
    THEN [regFile EXCEPT ![wires["regAddr"]] = wires["regData"]]
    ELSE regFile

MemoryAfterCycle ==
    [a \in Bytes |-> IF a \in Stored THEN ByteOf(wires["memData"], a % 4) ELSE memory[a]]

Retire ==
    /\ regFile' = RegistersAfterCycle
    /\ memory' = MemoryAfterCycle
    /\ retired' =
          IF wires["pcValid"] = 1
          THEN Append(retired, [time |-> time + 1, pc |-> wires["pc"],
                                before |-> regFile, after |-> RegistersAfterCycle,
                                memory |-> MemoryAfterCycle])
          ELSE retired

-----------------------------------------------------------------------------
Init ==
    /\ Wave!Init
    /\ CpuTrace!Init /\ RegFileTrace!Init /\ MemTrace!Init
    /\ regFile = [r \in Reg |-> X]
    /\ memory = [a \in Bytes |-> 0]
    /\ retired = << >>

Rise == Wave!Rise /\ UNCHANGED <<traceVars, cpuVars>>

Fall == Wave!Fall /\ Retire /\ UNCHANGED traceVars

Callback(h) ==
    /\ Wave!Callback(h)
    /\ CpuTrace!Changed(h, Wave!ValueOf(h), PcEntries)
    /\ RegFileTrace!Changed(h, Wave!ValueOf(h), RegEntries)
    /\ MemTrace!Changed(h, Wave!ValueOf(h), MemEntries)
    /\ UNCHANGED cpuVars

EndOfFile == Wave!Finished /\ UNCHANGED vars

Next ==
    \/ Rise
    \/ Fall
    \/ \E h \in Wave!Handles : Callback(h)
    \/ EndOfFile

Spec == Init /\ [][Next]_vars

-----------------------------------------------------------------------------
TypeOK ==
    /\ time \in 0..(2 * MaxCycles)
    /\ pending \subseteq Wave!Handles
    /\ pcTrace \in Seq(PcValues)
    /\ regTrace \in Seq(Accesses)
    /\ memTrace \in Seq(Accesses)

\* Every change of the present time has been called back.
Settled == pending = {}

\* The program trace is the sequence of retired instructions, each once and
\* in order, whatever the order of callbacks, and even when an instruction
\* changes no signal but the clock (a jump to itself).
RetiredRecorded ==
    Settled =>
        pcTrace = [i \in DOMAIN retired |->
                      [time |-> retired[i].time, pc |-> retired[i].pc]]

\* Registers looked up at the time of any retired instruction, long after it,
\* are the registers of the CPU when that instruction had retired.
RegistersAfter ==
    Settled =>
        \A i \in DOMAIN retired, r \in Reg :
            retired[i].after[r] =
                IF HasValue(regTrace, retired[i].time, r)
                THEN ValueAt(regTrace, retired[i].time, r) ELSE X

\* The same for every byte of memory, which is written by stores of several
\* sizes and only when the bus accepts them.
MemoryAfter ==
    Settled =>
        \A i \in DOMAIN retired, a \in Bytes :
            retired[i].memory[a] = MemByteAt(memTrace, << >>, 0, retired[i].time, a)

\* A CPU that stops at an instruction has not executed it: the registers shown
\* with an instruction are those it starts from (README.md: "Makes GDB believe
\* that it's dealing with an active or simulated CPU").
RegistersBefore ==
    Settled =>
        \A i \in DOMAIN retired, r \in Reg :
            retired[i].before[r] =
                IF HasValue(regTrace, retired[i].time, r)
                THEN ValueAt(regTrace, retired[i].time, r) ELSE X
=============================================================================
