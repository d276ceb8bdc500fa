---------------------------- MODULE MCGdbServer ----------------------------
(* One GDB on a short recording. *)
EXTENDS GdbServer

MCWordSpan == 16
MCDeadBeef == 15
MCReg      == {0}
MCAddress  == {4, 8}

MCWr(t, a, v) == [time |-> t, wr |-> TRUE, addr |-> a, value |-> v]

\* Register 0 and the byte at address 1 are written while the program runs.
MCWaves == {
    [pcTrace  |-> <<[time |-> 2, pc |-> 0], [time |-> 4, pc |-> 4],
                    [time |-> 6, pc |-> 8], [time |-> 8, pc |-> 20]>>,
     regTrace |-> <<MCWr(4, 0, 7), MCWr(6, 0, 3)>>,
     memTrace |-> <<MCWr(4, 1, 9), MCWr(8, 1, 5)>>,
     memInit  |-> <<11, 12>>,
     memStart |-> 0] }

MCAsk(kind, op)    == [kind |-> kind, op |-> op, arg |-> 0, length |-> 0]
MCAskAt(op, a)     == [kind |-> "query", op |-> op, arg |-> a, length |-> 2]

\* Every command; the breakpoints are set and removed at one address and
\* only set at the other.
MCRequests ==
    {MCAsk("query", op) : op \in {"g", "?", "M", "T", "other"}}
    \cup {MCAsk("silent", op) : op \in {"R", "k"}}
    \cup {MCAsk("continue", "c"), MCAsk("step", "s"), MCAsk("empty", "empty")}
    \cup {MCAskAt("p", r) : r \in {0, 32, 33}}
    \cup {MCAskAt("m", 1), [MCAskAt("m", 0) EXCEPT !.length = 65]}
    \cup {MCAskAt("Z", 4), MCAskAt("z", 4), MCAskAt("Z", 8)}

\* A session in which two things have gone wrong ends at its third command.
Troubles == MaxDamaged + MaxInterrupts + MaxGiveUps
                - (budget.damaged + budget.interrupts + budget.giveUps)
Short == Troubles > 1 => sent.id < MaxCommands

MCSpec == /\ Init
          /\ [][Next /\ Short']_vars
          /\ WF_vars(StubNext) /\ WF_vars(GdbReceives)
=============================================================================
