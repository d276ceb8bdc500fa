----------------------------- MODULE PortTrace -----------------------------
(***************************************************************************)
(* How CpuTrace, RegFileTrace and MemTrace listen to a waveform: a current *)
(* value for each signal of a port, and at each falling edge of the clock  *)
(* the entries these values stand for.                                     *)
(***************************************************************************)
EXTENDS Naturals, Sequences, FiniteSetsExt

CONSTANTS
    Chain,        \* the signals in the order of the callback's comparisons,
                  \* the clock last
    Handle,       \* as in Waveform
    X             \* a value with an x or z in it

VARIABLES
    cur,          \* the current values
    trace         \* the entries

vars == <<cur, trace>>

Ports == {Chain[i] : i \in DOMAIN Chain} \ {"clk"}

Init ==
    /\ cur = [s \in Ports |-> 0]
    /\ trace = << >>

Listens(h) == \E i \in DOMAIN Chain : Handle[Chain[i]] = h

\* The comparison that succeeds first takes the change.
Receiver(h) == Chain[Min({i \in DOMAIN Chain : Handle[Chain[i]] = h})]

\* Faulty variant: unknown values are kept like known ones.
UpdatedBlindly(h, v) ==
    /\ Listens(h)
    /\ Receiver(h) # "clk"
    /\ cur' = [cur EXCEPT ![Receiver(h)] = v]
    /\ UNCHANGED trace

\* A change to a value that is not all 0 and 1 is dropped.
Ignored(h, v) ==
    /\ ~Listens(h) \/ v = X
    /\ UNCHANGED vars

Updated(h, v) ==
    /\ Listens(h) /\ v # X
    /\ Receiver(h) # "clk"
    /\ cur' = [cur EXCEPT ![Receiver(h)] = v]
    /\ UNCHANGED trace

RisingEdge(h, v) ==
    /\ Listens(h) /\ v # X
    /\ Receiver(h) = "clk" /\ v # 0
    /\ UNCHANGED vars

FallingEdge(h, v, entries) ==
    /\ Listens(h) /\ v # X
    /\ Receiver(h) = "clk" /\ v = 0
    /\ trace' = trace \o entries
    /\ UNCHANGED cur

\* Faulty variant: the port is looked at when the clock rises.
ChangedAtRise(h, v, entries) ==
    \/ Ignored(h, v)
    \/ Updated(h, v)
    \/ /\ Listens(h) /\ v # X
       /\ Receiver(h) = "clk"
       /\ trace' = IF v # 0 THEN trace \o entries ELSE trace
       /\ UNCHANGED cur

\* The callback: v is the new value of the signals with handle h, entries
\* what the current values stand for.
Changed(h, v, entries) ==
    \/ Ignored(h, v)
    \/ Updated(h, v)
    \/ RisingEdge(h, v)
    \/ FallingEdge(h, v, entries)
=============================================================================
