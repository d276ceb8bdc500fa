--------------------------- MODULE MCTraceReplay ---------------------------
(* Small recordings for TLC: every program of up to MCLen instructions over *)
(* three addresses, with each of a few register traces.                     *)
EXTENDS TraceReplay

CONSTANT MCLen

MCWordSpan == 16
MCDeadBeef == 15
MCReg      == {0, 1}
\* 12 is never executed.
MCAddress  == {0, 4, 12}

\* 20 is address 4 in a signal wider than an address.
MCPcs == {0, 20, 8}

\* Instruction i retires at time 2*i.
MCPcTraces ==
    UNION {{[i \in 1..n |-> [time |-> 2 * i, pc |-> p[i]]] : p \in [1..n -> MCPcs]}
           : n \in 1..MCLen}

MCWr(t, a, v) == [time |-> t, wr |-> TRUE, addr |-> a, value |-> v]

MCRegTraces == {
    << >>,
    \* in the cycle of an instruction, and between two
    << MCWr(2, 0, 3), MCWr(5, 1, 17), MCWr(6, 0, 5) >>,
    \* twice in a cycle; the first write only late in the program
    << MCWr(4, 0, 2), MCWr(4, 0, 9), MCWr(8, 1, 6) >> }

MCWaves ==
    [pcTrace : MCPcTraces, regTrace : MCRegTraces]
=============================================================================
