---------------------------- MODULE MCExtraction ----------------------------
(* A CPU with two registers and two words of memory, whose program counter, *)
(* register port and data bus are busy in turn and together.                *)
EXTENDS Extraction

MCReg   == {0, 1}
MCBytes == 0..7

MCHandle ==
    [pcValid |-> 1, pc |-> 2, regWr |-> 3, regAddr |-> 4, regData |-> 5,
     memValid |-> 6, memReady |-> 7, memAddr |-> 8, memSize |-> 9, memWr |-> 10,
     memData |-> 11, rspValid |-> 12, rspData |-> 13, clk |-> 0]

\* memValid and memReady are aliases.
MCAliasHandle == [MCHandle EXCEPT !.memReady = 6]

MCIdle ==
    [pcValid |-> 0, pc |-> X, regWr |-> 0, regAddr |-> X, regData |-> X,
     memValid |-> 0, memReady |-> 0, memAddr |-> X, memSize |-> X, memWr |-> 0,
     memData |-> X, rspValid |-> 0, rspData |-> X]

\* Before reset nothing is known.
MCResets == {MCIdle, [s \in DOMAIN MCIdle |-> X]}

MCRetires(w, pc) == [w EXCEPT !.pcValid = 1, !.pc = pc]
MCWrites(w, r, v) == [w EXCEPT !.regWr = 1, !.regAddr = r, !.regData = v]
MCBus(w, ready, wr, addr, size) ==
    [w EXCEPT !.memValid = 1, !.memReady = ready, !.memWr = wr, !.memAddr = addr,
              !.memSize = size, !.memData = 16909060]

\* An instruction that only retires, a write without an instruction, both,
\* stores of each size, one that has to wait, and a load.
MCCycles ==
    {[MCIdle EXCEPT !.memReady = 1],
     MCRetires(MCIdle, 4),
     MCWrites(MCIdle, 0, 9),
     MCWrites(MCRetires(MCIdle, 8), 1, 5),
     MCBus(MCWrites(MCRetires(MCIdle, 4), 0, 5), 1, 1, 5, 0),
     MCBus(MCRetires(MCIdle, 8), 1, 1, 2, 1),
     MCBus(MCIdle, 0, 1, 4, 2),
     MCBus(MCIdle, 1, 1, 4, 2),
     MCBus(MCIdle, 1, 0, 4, 2)}

MCAliasCycles == {w \in MCCycles : w.memValid = w.memReady}
MCAliasResets == {w \in MCResets : w.memValid = w.memReady}
=============================================================================
