------------------------------ MODULE Waveform ------------------------------
(***************************************************************************)
(* A recorded simulation, as FstProcess plays it back: one callback for    *)
(* the value each signal has at first and for each change of it, in the    *)
(* order of time and, at one time, in any order.                           *)
(*                                                                         *)
(* All signals change on the rising edge of the clock and are stable at    *)
(* the falling one (comment in the three callbacks); the clock is low when *)
(* the recording starts.  Signals that are aliases have one handle, and    *)
(* one callback.                                                           *)
(***************************************************************************)
EXTENDS Naturals

CONSTANTS
    Signals,      \* the signals but the clock
    Handle,       \* the fstHandle of each signal and of "clk"
    Resets,       \* the values the signals may have at first
    Cycles,       \* the values they may have in a clock cycle
    MaxCycles     \* clock cycles recorded

VARIABLES
    time,         \* the time played back, two units to the clock cycle
    clk,          \* the clock at that time
    wires,        \* the other signals
    pending       \* the handles still to be called back for

vars == <<time, clk, wires, pending>>

Handles == {Handle[s] : s \in Signals \cup {"clk"}}

Init ==
    /\ time = 0
    /\ clk = 0
    /\ wires \in Resets
    /\ pending = Handles

Rise ==
    /\ pending = {} /\ clk = 0
    /\ time < 2 * MaxCycles
    /\ time' = time + 1
    /\ clk' = 1
    /\ wires' \in Cycles
    /\ pending' = {Handle["clk"]}
                  \cup {Handle[s] : s \in {t \in Signals : wires'[t] # wires[t]}}

Fall ==
    /\ pending = {} /\ clk = 1
    /\ time' = time + 1
    /\ clk' = 0
    /\ pending' = {Handle["clk"]}
    /\ UNCHANGED wires

\* FstProcess::fst_callback, with the value that ValueOf(h) is.
Callback(h) ==
    /\ h \in pending
    /\ pending' = pending \ {h}
    /\ UNCHANGED <<time, clk, wires>>

ValueOf(h) ==
    IF h = Handle["clk"] THEN clk
    ELSE wires[CHOOSE s \in Signals : Handle[s] = h]

\* The end of the file.
Finished ==
    /\ time = 2 * MaxCycles
    /\ pending = {}
=============================================================================
