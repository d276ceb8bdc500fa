---------------------------- MODULE DebugTarget ----------------------------
(***************************************************************************)
(* What GDB is promised by a target that replays one recorded execution.   *)
(* The execution is a non-empty sequence of program counters; the target   *)
(* stands at one position of it.  A continue is one step: it moves to the  *)
(* first breakpoint at or after the position, or to the last instruction.  *)
(* A step moves by one instruction and reports termination instead of      *)
(* moving past the last one.  A restart goes back to the first             *)
(* instruction and keeps the breakpoints; the program counter that is      *)
(* shown is refreshed by the next stop, not by the restart.                *)
(***************************************************************************)
EXTENDS Naturals, Sequences

CONSTANTS
    Programs,     \* the recorded executions
    Address       \* the addresses a breakpoint can be set at

VARIABLES
    program,      \* the recorded execution, fixed
    pos,          \* the position in it
    breakpoints,  \* the addresses with a breakpoint
    exited,       \* the last resumption reported that the program ended
    shownPc       \* the program counter shown to GDB

vars == <<program, pos, breakpoints, exited, shownPc>>

Last == Len(program)

Init ==
    /\ program \in Programs
    /\ pos = 1
    /\ breakpoints = {}
    /\ exited = FALSE
    /\ shownPc = program[1]

\* stop is where a continue from the present position ends.
StopsAt(stop) ==
    /\ stop \in pos..Last
    /\ \A p \in pos..(stop - 1) : program[p] \notin breakpoints
    /\ stop = Last \/ program[stop] \in breakpoints

Continue ==
    /\ \E stop \in pos..Last : StopsAt(stop) /\ pos' = stop
    /\ shownPc' = program[pos']
    /\ exited' = FALSE
    /\ UNCHANGED <<program, breakpoints>>

Step ==
    /\ pos < Last
    /\ pos' = pos + 1
    /\ shownPc' = program[pos']
    /\ exited' = FALSE
    /\ UNCHANGED <<program, breakpoints>>

StepAtLast ==
    /\ pos = Last
    /\ exited' = TRUE
    /\ UNCHANGED <<program, pos, breakpoints, shownPc>>

Restart ==
    /\ pos' = 1
    /\ exited' = FALSE
    /\ UNCHANGED <<program, breakpoints, shownPc>>

Insert(a) ==
    /\ breakpoints' = breakpoints \cup {a}
    /\ UNCHANGED <<program, pos, exited, shownPc>>

Remove(a) ==
    /\ breakpoints' = breakpoints \ {a}
    /\ UNCHANGED <<program, pos, exited, shownPc>>

Next ==
    \/ Continue
    \/ Step
    \/ StepAtLast
    \/ Restart
    \/ \E a \in Address : Insert(a) \/ Remove(a)

Spec == Init /\ [][Next]_vars
=============================================================================
