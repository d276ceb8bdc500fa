------------------------------- MODULE Traces -------------------------------
(***************************************************************************)
(* The traces that CpuTrace, RegFileTrace and MemTrace extract from the    *)
(* waveform, and what the last two answer when asked for the value of a    *)
(* register or of a byte of memory at a time.                              *)
(*                                                                         *)
(* A trace is a sequence in the order in which the waveform was read.  A   *)
(* program trace has entries [time, pc]; an access trace has entries       *)
(* [time, wr, addr, value].                                                *)
(***************************************************************************)
EXTENDS Integers, Sequences, FiniteSetsExt

PcValues == [time : Nat, pc : Nat]
Accesses == [time : Nat, wr : BOOLEAN, addr : Nat, value : Nat]

\* The entries the search visits: it stops at the first one later than time.
SeenAt(trace, time) ==
    {i \in DOMAIN trace : \A j \in 1..i : trace[j].time <= time}

\* Of these, the writes to addr.
WritesSeen(trace, time, addr) ==
    {i \in SeenAt(trace, time) : trace[i].wr /\ trace[i].addr = addr}

HasValue(trace, time, addr) == WritesSeen(trace, time, addr) # {}

\* The last visited write wins.
ValueAt(trace, time, addr) == trace[Max(WritesSeen(trace, time, addr))].value

\* A byte of memory: the last write, else the initial contents, else 0.
MemByteAt(trace, contents, start, time, addr) ==
    IF HasValue(trace, time, addr) THEN ValueAt(trace, time, addr)
    ELSE IF addr \in start..(start + Len(contents) - 1)
         THEN contents[addr - start + 1]
    ELSE 0
=============================================================================
