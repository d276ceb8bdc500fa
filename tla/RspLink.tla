------------------------------ MODULE RspLink ------------------------------
(***************************************************************************)
(* The remote serial protocol between GDB and the stub: framing,           *)
(* acknowledgments and the control flow of dbg_main (gdbstub.cc), over the *)
(* TCP connection of TcpServer.cc.                                         *)
(*                                                                         *)
(* The stub is one thread that blocks in dbg_sys_getc; its control state   *)
(* is the place where it reads or is about to write:                       *)
(*    signal    at the top of dbg_main, about to send the signal packet    *)
(*    signalAck in dbg_recv_ack for it                                     *)
(*    receive   in dbg_recv_packet                                         *)
(*    execute   with a packet to dispatch                                  *)
(*    replyAck  in dbg_recv_ack for a reply                                *)
(*    exited    dbg_sys_init has returned                                  *)
(*                                                                         *)
(* Characters travel in units: an acknowledgment, an interrupt (0x03) or a *)
(* whole packet, whose checksum is good or not.  TCP neither loses nor     *)
(* reorders; a checksum fails when somebody between the two damages a      *)
(* packet.                                                                 *)
(*                                                                         *)
(* GDB is external.  It sends one command at a time, waits for its         *)
(* acknowledgment and then for its reply, repeats a command that is        *)
(* negatively or not in time acknowledged, gives up a reply that is late   *)
(* (but waits for ever for the stop of a continue or step), and can be     *)
(* interrupted or killed at any time.                                      *)
(***************************************************************************)
EXTENDS Naturals, Sequences

CONSTANTS
    Requests,         \* what GDB may ask; the field kind says how it is served
    Bodies,           \* what a reply may say
    MaxCommands,      \* commands GDB sends
    MaxDamaged,       \* packets damaged on the way
    MaxInterrupts,    \* interrupts typed while the program runs
    MaxResends,       \* acknowledgments GDB finds late
    MaxGiveUps        \* replies GDB finds late

ASSUME BoundsAssumption ==
    {MaxCommands, MaxDamaged, MaxInterrupts, MaxResends, MaxGiveUps} \subseteq Nat

\* How dbg_main serves a command: it answers at once (g, p, m, M, X, Z, z, ?,
\* !, T, H, an unknown or a malformed command), resumes, or says nothing
\* (R, k, and the packet without a character).
Kinds == {"query", "continue", "step", "silent", "empty"}

ASSUME RequestsAssumption == \A r \in Requests : r.kind \in Kinds

VARIABLES
    toStub,      \* units on the way to the stub
    toGdb,       \* units on the way to GDB
    stub,        \* control state of the stub
    command,     \* the packet the stub dispatches or has dispatched last
    answers,     \* the command the next signal packet answers, 0 for none
    taken,       \* history: the commands the stub has acknowledged, in order
    gdb,         \* control state of GDB
    sent,        \* the command GDB has sent last
    budget       \* what may still go wrong

stubVars == <<stub, command, answers, taken>>
gdbVars  == <<gdb, sent>>
vars     == <<toStub, toGdb, stubVars, gdbVars, budget>>

-----------------------------------------------------------------------------
Ack       == [t |-> "ack"]
Nack      == [t |-> "nack"]
Interrupt == [t |-> "interrupt"]

Acks == {Ack, Nack}

Resuming(request) == request.kind \in {"continue", "step"}
Replied(request)  == request.kind \in {"query", "continue", "step"}

Command(n, request) ==
    [t |-> "packet", good |-> TRUE, id |-> n, request |-> request]

\* A reply carries, as history, the command it answers (0: none).
Reply(n, kind, body) ==
    [t |-> "packet", good |-> TRUE, id |-> n, kind |-> kind, body |-> body]

ReplyKinds == {"data", "stop", "terminated"}

IsPacket(unit) == unit.t = "packet"

NoCommand == Command(0, [kind |-> "empty"])

\* xmit to a closed connection fails with -1, which dbg_sys_putchar stores in
\* a size_t and takes for success: the characters are gone, nobody is told.
StubSends(units) ==
    toGdb' = IF gdb = "closed" THEN toGdb ELSE toGdb \o units

GdbSends(units) == toStub' = IF stub = "exited" THEN toStub ELSE toStub \o units

-----------------------------------------------------------------------------
Init ==
    /\ toStub = <<Ack>>         \* GDB greets with an acknowledgment
    /\ toGdb = << >>
    /\ stub = "signal"
    /\ command = NoCommand
    /\ answers = 0
    /\ taken = << >>
    /\ gdb = "idle"
    /\ sent = NoCommand
    /\ budget = [damaged |-> MaxDamaged, interrupts |-> MaxInterrupts,
                 resends |-> MaxResends, giveUps |-> MaxGiveUps]

Spend(what) == budget[what] > 0 /\ budget' = [budget EXCEPT ![what] = @ - 1]

-----------------------------------------------------------------------------
(* The stub. *)

Heard == toStub # << >>
EndOfInput == toStub = << >> /\ gdb = "closed"

\* dbg_main is entered: the signal packet doubles as the stop reply.
SendSignal(body) ==
    /\ stub = "signal"
    /\ StubSends(<<Reply(answers, "stop", body)>>)
    /\ answers' = 0
    /\ stub' = "signalAck"
    /\ UNCHANGED <<toStub, command, taken, gdbVars, budget>>

\* dbg_recv_ack: whether + or -, nothing is sent again; any other character,
\* or the end of the input, makes dbg_main return -1 and ends the stub.
ReceiveAck ==
    /\ stub \in {"signalAck", "replyAck"}
    /\ Heard
    /\ stub' = IF Head(toStub) \in Acks THEN "receive" ELSE "exited"
    /\ toStub' = Tail(toStub)
    /\ UNCHANGED <<toGdb, command, answers, taken, gdbVars, budget>>

\* Faulty variant: the end of the input is not noticed.
AckEndOfInputAgain ==
    /\ stub \in {"signalAck", "replyAck"}
    /\ EndOfInput
    /\ stub' = "signal"
    /\ UNCHANGED <<toStub, toGdb, command, answers, taken, gdbVars, budget>>

AckEndOfInput ==
    /\ stub \in {"signalAck", "replyAck"}
    /\ EndOfInput
    /\ stub' = "exited"
    /\ UNCHANGED <<toStub, toGdb, command, answers, taken, gdbVars, budget>>

\* Faulty variant: anything but the start of a packet ends the session.
SkipToPacketOrLeave ==
    /\ stub = "receive"
    /\ Heard /\ ~IsPacket(Head(toStub))
    /\ toStub' = Tail(toStub)
    /\ stub' = "exited"
    /\ UNCHANGED <<toGdb, command, answers, taken, gdbVars, budget>>

\* dbg_recv_packet drops everything before the start of a packet.
SkipToPacket ==
    /\ stub = "receive"
    /\ Heard /\ ~IsPacket(Head(toStub))
    /\ toStub' = Tail(toStub)
    /\ UNCHANGED <<toGdb, stubVars, gdbVars, budget>>

ReceivePacket ==
    /\ stub = "receive"
    /\ Heard /\ IsPacket(Head(toStub)) /\ Head(toStub).good
    /\ toStub' = Tail(toStub)
    /\ StubSends(<<Ack>>)
    /\ command' = Head(toStub)
    /\ taken' = Append(taken, Head(toStub).id)
    /\ stub' = IF Head(toStub).request.kind = "empty" THEN "receive" ELSE "execute"
    /\ UNCHANGED <<answers, gdbVars, budget>>

\* Faulty variant: a damaged packet is refused and executed all the same.
RefusePacketButExecute ==
    /\ stub = "receive"
    /\ Heard /\ IsPacket(Head(toStub)) /\ ~Head(toStub).good
    /\ toStub' = Tail(toStub)
    /\ StubSends(<<Nack>>)
    /\ command' = Head(toStub)
    /\ taken' = Append(taken, Head(toStub).id)
    /\ stub' = IF Head(toStub).request.kind = "empty" THEN "receive" ELSE "execute"
    /\ UNCHANGED <<answers, gdbVars, budget>>

\* A packet that was damaged is refused, and EOF takes the stub out of
\* dbg_main and in again at the top.
RefusePacket ==
    /\ stub = "receive"
    /\ Heard /\ IsPacket(Head(toStub)) /\ ~Head(toStub).good
    /\ toStub' = Tail(toStub)
    /\ StubSends(<<Nack>>)
    /\ stub' = "signal"
    /\ UNCHANGED <<command, answers, taken, gdbVars, budget>>

\* The end of the input leaves and re-enters dbg_main in the same way.
PacketEndOfInput ==
    /\ stub = "receive"
    /\ EndOfInput
    /\ stub' = "signal"
    /\ UNCHANGED <<toStub, toGdb, command, answers, taken, gdbVars, budget>>

Executes ==
    /\ stub = "execute"
    /\ UNCHANGED <<toStub, command, taken, gdbVars, budget>>

\* Faulty variant: a query is not answered but leaves dbg_main.
ExecuteQueryAndLeave(body) ==
    /\ command.request.kind = "query"
    /\ Executes
    /\ stub' = "signal"
    /\ UNCHANGED <<toGdb, answers>>

ExecuteQuery(body) ==
    /\ command.request.kind = "query"
    /\ Executes
    /\ StubSends(<<Reply(command.id, "data", body)>>)
    /\ stub' = "replyAck"
    /\ UNCHANGED answers

ExecuteSilent ==
    /\ command.request.kind = "silent"
    /\ Executes
    /\ stub' = "receive"
    /\ UNCHANGED <<toGdb, answers>>

\* Faulty variant: dbg_main receives the next packet instead of returning.
ExecuteStopSilently ==
    /\ Resuming(command.request)
    /\ Executes
    /\ stub' = "receive"
    /\ UNCHANGED <<toGdb, answers>>

\* c, and s before the end of the trace: dbg_main returns 0, and is called
\* again, which sends the stop reply.
ExecuteStop ==
    /\ Resuming(command.request)
    /\ Executes
    /\ answers' = command.id
    /\ stub' = "signal"
    /\ UNCHANGED toGdb

\* Faulty variant: the packet starts with a letter that is no reply.
ExecuteTerminatedUnheardOf(body) ==
    /\ command.request.kind = "step"
    /\ Executes
    /\ StubSends(<<Reply(command.id, "unheard of", body)>>)
    /\ stub' = "replyAck"
    /\ UNCHANGED answers

\* s at the end of the trace.
ExecuteTerminated(body) ==
    /\ command.request.kind = "step"
    /\ Executes
    /\ StubSends(<<Reply(command.id, "terminated", body)>>)
    /\ stub' = "replyAck"
    /\ UNCHANGED answers

StubNext ==
    \/ \E body \in Bodies : SendSignal(body)
    \/ ReceiveAck
    \/ AckEndOfInput
    \/ SkipToPacket
    \/ ReceivePacket
    \/ RefusePacket
    \/ PacketEndOfInput
    \/ \E body \in Bodies : ExecuteQuery(body)
    \/ ExecuteSilent
    \/ ExecuteStop
    \/ \E body \in Bodies : ExecuteTerminated(body)

-----------------------------------------------------------------------------
(* GDB (external). *)

GdbHears(state) == gdb = state /\ toGdb # << >>

SendCommand(request) ==
    /\ gdb = "idle"
    /\ sent.id < MaxCommands
    /\ sent' = Command(sent.id + 1, request)
    /\ GdbSends(<<sent'>>)
    /\ gdb' = "waitAck"
    /\ UNCHANGED <<toGdb, stubVars, budget>>

AcceptAck ==
    /\ GdbHears("waitAck") /\ Head(toGdb) = Ack
    /\ toGdb' = Tail(toGdb)
    /\ gdb' = IF Replied(sent.request) THEN "waitReply" ELSE "idle"
    /\ UNCHANGED <<toStub, stubVars, sent, budget>>

AcceptNack ==
    /\ GdbHears("waitAck") /\ Head(toGdb) = Nack
    /\ toGdb' = Tail(toGdb)
    /\ GdbSends(<<sent>>)
    /\ UNCHANGED <<stubVars, gdbVars, budget>>

\* A packet instead of an acknowledgment is acknowledged and dropped.
DropPacket ==
    /\ GdbHears("waitAck") /\ IsPacket(Head(toGdb))
    /\ toGdb' = Tail(toGdb)
    /\ GdbSends(<<Ack>>)
    /\ UNCHANGED <<stubVars, gdbVars, budget>>

SkipToReply ==
    /\ GdbHears("waitReply") /\ ~IsPacket(Head(toGdb))
    /\ toGdb' = Tail(toGdb)
    /\ UNCHANGED <<toStub, stubVars, gdbVars, budget>>

AcceptReply ==
    /\ GdbHears("waitReply") /\ IsPacket(Head(toGdb)) /\ Head(toGdb).good
    /\ toGdb' = Tail(toGdb)
    /\ GdbSends(<<Ack>>)
    /\ gdb' = "idle"
    /\ UNCHANGED <<stubVars, sent, budget>>

RefuseReply ==
    /\ GdbHears("waitReply") /\ IsPacket(Head(toGdb)) /\ ~Head(toGdb).good
    /\ toGdb' = Tail(toGdb)
    /\ GdbSends(<<Nack>>)
    /\ UNCHANGED <<stubVars, gdbVars, budget>>

SendInterrupt ==
    /\ gdb = "waitReply" /\ Resuming(sent.request)
    /\ Spend("interrupts")
    /\ GdbSends(<<Interrupt>>)
    /\ UNCHANGED <<toGdb, stubVars, gdbVars>>

Resend ==
    /\ gdb = "waitAck"
    /\ Spend("resends")
    /\ GdbSends(<<sent>>)
    /\ UNCHANGED <<toGdb, stubVars, gdbVars>>

\* GDB acknowledges the reply it no longer waits for.
GiveUpReply ==
    /\ gdb = "waitReply" /\ ~Resuming(sent.request)
    /\ Spend("giveUps")
    /\ GdbSends(<<Ack>>)
    /\ gdb' = "idle"
    /\ UNCHANGED <<toGdb, stubVars, sent>>

\* GDB goes away; a reset discards what the stub has not read yet.
Disconnect ==
    /\ gdb # "closed"
    /\ gdb' = "closed"
    /\ \E n \in 0..Len(toStub) : toStub' = SubSeq(toStub, 1, n)
    /\ toGdb' = << >>
    /\ UNCHANGED <<stubVars, sent, budget>>

NoticeExit ==
    /\ stub = "exited" /\ gdb # "closed" /\ toGdb = << >>
    /\ gdb' = "closed"
    /\ UNCHANGED <<toStub, toGdb, stubVars, sent, budget>>

GdbReceives ==
    \/ AcceptAck
    \/ AcceptNack
    \/ DropPacket
    \/ SkipToReply
    \/ AcceptReply
    \/ RefuseReply
    \/ NoticeExit

GdbNext ==
    \/ \E request \in Requests : SendCommand(request)
    \/ GdbReceives
    \/ SendInterrupt
    \/ Resend
    \/ GiveUpReply
    \/ Disconnect

-----------------------------------------------------------------------------
Damaged(units) ==
    {[units EXCEPT ![i].good = FALSE] : i \in {j \in DOMAIN units : IsPacket(units[j])}}

Damage ==
    /\ Spend("damaged")
    /\ \/ toStub' \in Damaged(toStub) /\ UNCHANGED toGdb
       \/ toGdb' \in Damaged(toGdb) /\ UNCHANGED toStub
    /\ UNCHANGED <<stubVars, gdbVars>>

\* Both ends are gone.
Ended ==
    /\ stub = "exited" /\ gdb = "closed"
    /\ UNCHANGED vars

Next == StubNext \/ GdbNext \/ Damage \/ Ended

Spec == Init /\ [][Next]_vars

\* The stub's thread and GDB's event loop run; nothing makes GDB send another
\* command, disconnect or lose its patience, and nothing has to be damaged.
FairSpec == Spec /\ WF_vars(StubNext) /\ WF_vars(GdbReceives)

-----------------------------------------------------------------------------
Commands == [t : {"packet"}, good : BOOLEAN, id : 1..MaxCommands, request : Requests]
Replies  == [t : {"packet"}, good : BOOLEAN, id : 0..MaxCommands,
             kind : ReplyKinds, body : Bodies]

TypeOK ==
    /\ toStub \in Seq(Acks \cup {Interrupt} \cup Commands)
    /\ toGdb \in Seq(Acks \cup Replies)
    /\ stub \in {"signal", "signalAck", "receive", "execute", "replyAck", "exited"}
    /\ command \in Commands \cup {NoCommand}
    /\ answers \in 0..MaxCommands
    /\ taken \in Seq(1..MaxCommands)
    /\ gdb \in {"idle", "waitAck", "waitReply", "closed"}
    /\ sent \in Commands \cup {NoCommand}
    /\ budget \in [damaged : 0..MaxDamaged, interrupts : 0..MaxInterrupts,
                   resends : 0..MaxResends, giveUps : 0..MaxGiveUps]

Repeated  == budget.resends < MaxResends
Disturbed == Repeated \/ budget.damaged < MaxDamaged \/ budget.interrupts < MaxInterrupts

\* The packet GDB takes for the reply to its command is the reply to that
\* command: never the unsolicited signal of a connection, and never the late
\* reply to a command GDB gave up.
AnswersMatch ==
    ~Repeated /\ GdbHears("waitReply") /\ IsPacket(Head(toGdb)) =>
        Head(toGdb).id = sent.id

\* The stub takes the commands in the order in which GDB sent them, each once;
\* a command is taken again only if GDB repeated it, and one is skipped only if
\* it was damaged and an acknowledgment of the repeated one was taken for its.
TakenInOrder ==
    \A i \in DOMAIN taken :
        LET last == IF i = 1 THEN 0 ELSE taken[i - 1]
        IN  /\ taken[i] >= last
            /\ taken[i] = last => Repeated
            /\ taken[i] > last + 1 => Repeated /\ budget.damaged < MaxDamaged

\* The stub gives up its session only when GDB has left ("GDB client
\* disconnected.", it then logs).
ExitsOnDisconnect == stub = "exited" => gdb = "closed"

\* It does on a connection that has damaged, interrupted and repeated nothing.
StaysUndisturbed == ~Disturbed => ExitsOnDisconnect

\* There every command GDB waits for is answered, or GDB leaves.
Answered ==
    gdb \in {"waitAck", "waitReply"} ~> gdb \in {"idle", "closed"} \/ Disturbed

\* When GDB has left, the stub ends: it does not spin in the loop of
\* dbg_sys_init that calls dbg_main again.
DisconnectEnds == gdb = "closed" ~> stub = "exited"
=============================================================================
