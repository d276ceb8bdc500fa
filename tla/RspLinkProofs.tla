--------------------------- MODULE RspLinkProofs ---------------------------
(***************************************************************************)
(* The conversation of GDB and the stub, for any number of commands,       *)
(* damaged units, resends, interrupts and requests given up:               *)
(*                                                                         *)
(*   - while nothing is sent twice, a reply is taken for the command it    *)
(*     answers (ConservedInv: one command or its acknowledgment is on the  *)
(*     way, never both);                                                   *)
(*   - with resends, commands are still taken in order, and without damage *)
(*     none is left out (Ordered, CoveredInv);                             *)
(*   - while nothing disturbs it, the conversation stays in step, so that  *)
(*     the stub does not end it (CalmInv).                                 *)
(***************************************************************************)
EXTENDS RspLink, TLAPS

\* What is left of a channel whose head has been taken.
LEMMA TailIs ==
  ASSUME NEW S, NEW s \in Seq(S), s # << >>
  PROVE  /\ Tail(s) \in Seq(S) /\ Len(s) \in Nat
         /\ DOMAIN s = 1..Len(s) /\ 1 \in DOMAIN s
         /\ Head(s) = s[1] /\ s[1] \in S
         /\ DOMAIN Tail(s) = 1..(Len(s) - 1)
         /\ \A i \in DOMAIN Tail(s) : Tail(s)[i] = s[i + 1]
OBVIOUS

\* A channel with one more unit at its end.
LEMMA OneMore ==
  ASSUME NEW S, NEW s \in Seq(S), NEW e \in S
  PROVE  /\ s \o <<e>> \in Seq(S) /\ Len(s) \in Nat
         /\ DOMAIN s = 1..Len(s) /\ DOMAIN (s \o <<e>>) = 1..(Len(s) + 1)
         /\ \A i \in DOMAIN s : (s \o <<e>>)[i] = s[i]
         /\ (s \o <<e>>)[Len(s) + 1] = e
OBVIOUS

\* A channel of which the rest is lost.
LEMMA PrefixIs ==
  ASSUME NEW S, NEW s \in Seq(S), NEW n \in 0..Len(s)
  PROVE  /\ SubSeq(s, 1, n) \in Seq(S) /\ Len(s) \in Nat /\ n \in Nat
         /\ DOMAIN s = 1..Len(s) /\ DOMAIN SubSeq(s, 1, n) = 1..n
         /\ \A i \in 1..n : SubSeq(s, 1, n)[i] = s[i]
OBVIOUS

\* What may be on the way in each direction.
UnitsToStub == Acks \cup {Interrupt} \cup Commands
UnitsToGdb == Acks \cup Replies

\* Damage keeps the channel to the stub a sequence of such units.
LEMMA DamagedToStub ==
  ASSUME NEW q \in Seq(UnitsToStub), NEW d \in Damaged(q)
  PROVE  /\ d \in Seq(UnitsToStub) /\ Len(q) \in Nat
         /\ DOMAIN q = 1..Len(q) /\ DOMAIN d = 1..Len(q)
         /\ \E k \in DOMAIN q :
               /\ {q[k], d[k]} \subseteq Commands
               /\ d[k].id = q[k].id /\ d[k].request = q[k].request
               /\ \A i \in DOMAIN q : i # k => d[i] = q[i]
<1>1. PICK k \in DOMAIN q : IsPacket(q[k]) /\ d = [q EXCEPT ![k].good = FALSE]
  BY DEF Damaged
<1>2. q[k] \in Commands
  <2>1. q[k] \in UnitsToStub
    OBVIOUS
  <2>2. QED BY <1>1, <2>1 DEF UnitsToStub, Acks, Ack, Nack, Interrupt, IsPacket
<1> DEFINE b == [q[k] EXCEPT !.good = FALSE]
<1>3. b \in Commands /\ b.id = q[k].id /\ b.request = q[k].request
  BY <1>2 DEF Commands
<1>4. d = [q EXCEPT ![k] = b]
  BY <1>1
<1> HIDE DEF b
<1>5. b \in UnitsToStub
  BY <1>3 DEF UnitsToStub
<1> DEFINE U == UnitsToStub
<1> HIDE DEF U
<1>6. q \in Seq(U) /\ b \in U
  BY <1>5 DEF U
<1>7. /\ d \in Seq(U) /\ Len(q) \in Nat
      /\ DOMAIN q = 1..Len(q) /\ DOMAIN d = 1..Len(q)
      /\ d[k] = b /\ \A i \in DOMAIN q : i # k => d[i] = q[i]
  BY <1>4, <1>6
<1>8. QED BY <1>1, <1>2, <1>3, <1>7 DEF U

\* The same for the channel to GDB.
LEMMA DamagedToGdb ==
  ASSUME NEW q \in Seq(UnitsToGdb), NEW d \in Damaged(q)
  PROVE  /\ d \in Seq(UnitsToGdb) /\ Len(q) \in Nat
         /\ DOMAIN q = 1..Len(q) /\ DOMAIN d = 1..Len(q)
         /\ \E k \in DOMAIN q :
               /\ {q[k], d[k]} \subseteq Replies
               /\ d[k].id = q[k].id /\ d[k].kind = q[k].kind /\ d[k].body = q[k].body
               /\ \A i \in DOMAIN q : i # k => d[i] = q[i]
<1>1. PICK k \in DOMAIN q : IsPacket(q[k]) /\ d = [q EXCEPT ![k].good = FALSE]
  BY DEF Damaged
<1>2. q[k] \in Replies
  <2>1. q[k] \in UnitsToGdb
    OBVIOUS
  <2>2. QED BY <1>1, <2>1 DEF UnitsToGdb, Acks, Ack, Nack, IsPacket
<1> DEFINE b == [q[k] EXCEPT !.good = FALSE]
<1>3. b \in Replies /\ b.id = q[k].id /\ b.kind = q[k].kind /\ b.body = q[k].body
  BY <1>2 DEF Replies
<1>4. d = [q EXCEPT ![k] = b]
  BY <1>1
<1> HIDE DEF b
<1>5. b \in UnitsToGdb
  BY <1>3 DEF UnitsToGdb
<1> DEFINE U == UnitsToGdb
<1> HIDE DEF U
<1>6. q \in Seq(U) /\ b \in U
  BY <1>5 DEF U
<1>7. /\ d \in Seq(U) /\ Len(q) \in Nat
      /\ DOMAIN q = 1..Len(q) /\ DOMAIN d = 1..Len(q)
      /\ d[k] = b /\ \A i \in DOMAIN q : i # k => d[i] = q[i]
  BY <1>4, <1>6
<1>8. QED BY <1>1, <1>2, <1>3, <1>7 DEF U

\* The types, with what each waiting state promises of its command.
TypeInv ==
    /\ TypeOK
    /\ sent.good
    /\ gdb \in {"waitAck", "waitReply"} => sent \in Commands
    /\ stub = "execute" => command \in Commands

\* The values of the budget.
Budgets == [damaged : 0..MaxDamaged, interrupts : 0..MaxInterrupts,
            resends : 0..MaxResends, giveUps : 0..MaxGiveUps]

\* Spending takes one from one budget.
LEMMA Spent ==
  ASSUME budget \in Budgets,
         NEW what \in {"damaged", "interrupts", "resends", "giveUps"}, Spend(what)
  PROVE  /\ budget' \in Budgets /\ budget[what] > 0 /\ budget'[what] = budget[what] - 1
         /\ \A w \in {"damaged", "interrupts", "resends", "giveUps"} :
               w # what => budget'[w] = budget[w]
BY BoundsAssumption DEF Spend, Budgets

\* The greeting is well typed.
LEMMA InitType == Init => TypeInv
BY BoundsAssumption DEF Init, TypeInv, TypeOK, NoCommand, Command, Acks

\* A step of the stub keeps the types.
LEMMA StubType ==
  ASSUME TypeInv, StubNext
  PROVE  TypeInv'
<1> USE DEF UnitsToStub, UnitsToGdb
<1>1. ASSUME toStub # << >>
      PROVE  Tail(toStub) \in Seq(UnitsToStub) /\ Head(toStub) \in UnitsToStub
  BY <1>1, TailIs DEF TypeInv, TypeOK
<1>2. ASSUME NEW e \in UnitsToGdb, StubSends(<<e>>)
      PROVE  toGdb' \in Seq(UnitsToGdb)
  BY <1>2, OneMore DEF StubSends, TypeInv, TypeOK
<1>3. IsPacket(Head(toStub)) /\ Head(toStub) \in UnitsToStub => Head(toStub) \in Commands
  BY DEF IsPacket, Acks, Ack, Nack, Interrupt
<1>4. ASSUME NEW n \in 0..MaxCommands, NEW kind \in ReplyKinds, NEW body \in Bodies
      PROVE  Reply(n, kind, body) \in UnitsToGdb
  BY DEF Reply, Replies
<1>5. ASSUME NEW n \in 1..MaxCommands
      PROVE  Append(taken, n) \in Seq(1..MaxCommands)
  BY DEF TypeInv, TypeOK
<1> USE DEF TypeInv, TypeOK
<1> HIDE DEF UnitsToStub, UnitsToGdb
<1> USE DEF gdbVars, StubSends
<1>6. ASSUME NEW body \in Bodies, SendSignal(body)
      PROVE  TypeInv'
  <2>1. Reply(answers, "stop", body) \in UnitsToGdb
    BY <1>4 DEF ReplyKinds
  <2>2. toGdb' \in Seq(UnitsToGdb)
    BY <1>2, <1>6, <2>1 DEF SendSignal
  <2>3. QED BY <1>6, <2>2, BoundsAssumption DEF SendSignal, UnitsToStub, UnitsToGdb
<1>7. CASE ReceiveAck
  BY <1>1, <1>7 DEF ReceiveAck, Heard, UnitsToStub
<1>8. CASE AckEndOfInput \/ PacketEndOfInput
  BY <1>8 DEF AckEndOfInput, PacketEndOfInput
<1>9. CASE SkipToPacket
  BY <1>1, <1>9 DEF SkipToPacket, Heard, UnitsToStub, stubVars
<1>10. CASE ReceivePacket
  <2>1. Head(toStub) \in Commands /\ Head(toStub).id \in 1..MaxCommands
    BY <1>1, <1>3, <1>10 DEF ReceivePacket, Heard, Commands
  <2>2. taken' \in Seq(1..MaxCommands)
    BY <1>5, <1>10, <2>1 DEF ReceivePacket
  <2>3. toGdb' \in Seq(UnitsToGdb)
    BY <1>2, <1>10 DEF ReceivePacket, UnitsToGdb, Acks
  <2>4. QED BY <1>1, <1>10, <2>1, <2>2, <2>3 DEF ReceivePacket, Heard, UnitsToStub, UnitsToGdb
<1>11. CASE RefusePacket
  <2>1. toGdb' \in Seq(UnitsToGdb)
    BY <1>2, <1>11 DEF RefusePacket, UnitsToGdb, Acks
  <2>2. QED BY <1>1, <1>11, <2>1 DEF RefusePacket, Heard, UnitsToStub, UnitsToGdb
<1>12. ASSUME NEW body \in Bodies, ExecuteQuery(body) \/ ExecuteTerminated(body)
       PROVE  TypeInv'
  <2>1. command.id \in 0..MaxCommands
    BY <1>12 DEF ExecuteQuery, ExecuteTerminated, Executes, Commands
  <2>2. toGdb' \in Seq(UnitsToGdb)
    BY <1>2, <1>4, <1>12, <2>1 DEF ExecuteQuery, ExecuteTerminated, ReplyKinds
  <2>3. QED BY <1>12, <2>2 DEF ExecuteQuery, ExecuteTerminated, Executes, UnitsToStub, UnitsToGdb
<1>13. CASE ExecuteSilent \/ ExecuteStop
  BY <1>13 DEF ExecuteSilent, ExecuteStop, Executes, Commands
<1>14. QED
  BY <1>6, <1>7, <1>8, <1>9, <1>10, <1>11, <1>12, <1>13 DEF StubNext

\* The number of the last command GDB sent, and of the one it sends.
LEMMA SentNumber ==
  ASSUME TypeInv
  PROVE  sent.id \in 0..MaxCommands
<1>1. MaxCommands \in Nat
  BY BoundsAssumption
<1>2. CASE sent \in Commands
  BY <1>1, <1>2 DEF Commands
<1>3. CASE sent = NoCommand
  BY <1>1, <1>3 DEF NoCommand, Command
<1>4. QED BY <1>2, <1>3 DEF TypeInv, TypeOK

LEMMA NextNumber ==
  ASSUME TypeInv, NEW request \in Requests, SendCommand(request)
  PROVE  sent'.id \in 1..MaxCommands /\ sent'.id = sent.id + 1
<1>1. sent.id < MaxCommands /\ sent'.id = sent.id + 1
  BY DEF SendCommand, Command
<1>2. QED BY <1>1, SentNumber, BoundsAssumption

\* A step of GDB keeps the types.
LEMMA GdbType ==
  ASSUME TypeInv, GdbNext
  PROVE  TypeInv'
<1> USE DEF TypeInv, TypeOK
<1>1. ASSUME toGdb # << >>
      PROVE  Tail(toGdb) \in Seq(UnitsToGdb) /\ Head(toGdb) \in UnitsToGdb
  BY <1>1, TailIs DEF UnitsToGdb
<1>2. ASSUME NEW e \in UnitsToStub, GdbSends(<<e>>)
      PROVE  toStub' \in Seq(UnitsToStub)
  BY <1>2, OneMore DEF UnitsToStub, GdbSends
<1>3. {Ack, Nack, Interrupt} \subseteq UnitsToStub
  BY DEF UnitsToStub, Acks
<1>4. gdb \in {"waitAck", "waitReply"} => sent \in UnitsToStub
  BY DEF UnitsToStub
<1> USE DEF stubVars, gdbVars, GdbHears
<1>5. ASSUME NEW request \in Requests, SendCommand(request)
      PROVE  TypeInv'
  <2>1. sent'.id \in 1..MaxCommands
    BY <1>5, NextNumber
  <2>2. sent' \in Commands /\ sent'.good
    BY <1>5, <2>1 DEF SendCommand, Command, Commands
  <2>3. toStub' \in Seq(UnitsToStub)
    BY <1>2, <1>5, <2>2 DEF SendCommand, UnitsToStub
  <2>4. QED BY <1>5, <2>2, <2>3 DEF SendCommand, UnitsToStub
<1>6. CASE AcceptAck \/ SkipToReply \/ NoticeExit
  BY <1>1, <1>6 DEF AcceptAck, SkipToReply, NoticeExit, UnitsToGdb
<1>7. CASE AcceptNack
  BY <1>1, <1>2, <1>4, <1>7 DEF AcceptNack, UnitsToGdb, UnitsToStub
<1>8. CASE DropPacket
  BY <1>1, <1>2, <1>3, <1>8 DEF DropPacket, UnitsToGdb, UnitsToStub
<1>9. CASE AcceptReply
  BY <1>1, <1>2, <1>3, <1>9 DEF AcceptReply, UnitsToGdb, UnitsToStub
<1>10. CASE RefuseReply
  BY <1>1, <1>2, <1>3, <1>10 DEF RefuseReply, UnitsToGdb, UnitsToStub
<1>11. CASE SendInterrupt
  <2>1. budget' \in Budgets
    BY <1>11, Spent DEF SendInterrupt, Budgets
  <2>2. toStub' \in Seq(UnitsToStub)
    BY <1>2, <1>3, <1>11 DEF SendInterrupt
  <2>3. QED BY <1>11, <2>1, <2>2 DEF SendInterrupt, UnitsToStub, Budgets
<1>12. CASE Resend
  <2>1. budget' \in Budgets
    BY <1>12, Spent DEF Resend, Budgets
  <2>2. toStub' \in Seq(UnitsToStub)
    BY <1>2, <1>4, <1>12 DEF Resend
  <2>3. QED BY <1>12, <2>1, <2>2 DEF Resend, UnitsToStub, Budgets
<1>13. CASE GiveUpReply
  <2>1. budget' \in Budgets
    BY <1>13, Spent DEF GiveUpReply, Budgets
  <2>2. toStub' \in Seq(UnitsToStub)
    BY <1>2, <1>3, <1>13 DEF GiveUpReply
  <2>3. QED BY <1>13, <2>1, <2>2 DEF GiveUpReply, UnitsToStub, Budgets
<1>14. CASE Disconnect
  <2>1. PICK n \in 0..Len(toStub) : toStub' = SubSeq(toStub, 1, n)
    BY <1>14 DEF Disconnect
  <2>2. toStub' \in Seq(UnitsToStub)
    BY <2>1, PrefixIs DEF UnitsToStub
  <2>3. QED BY <1>14, <2>2 DEF Disconnect, UnitsToStub
<1>15. QED
  BY <1>5, <1>6, <1>7, <1>8, <1>9, <1>10, <1>11, <1>12, <1>13, <1>14
     DEF GdbNext, GdbReceives

\* Damage keeps the types.
LEMMA DamageType ==
  ASSUME TypeInv, Damage
  PROVE  TypeInv'
<1> USE DEF TypeInv, TypeOK
<1>1. budget' \in Budgets
  BY Spent DEF Damage, Budgets
<1>2. CASE toStub' \in Damaged(toStub) /\ UNCHANGED toGdb
  <2>1. toStub' \in Seq(UnitsToStub)
    BY <1>2, DamagedToStub DEF UnitsToStub
  <2>2. QED BY <1>1, <1>2, <2>1 DEF Damage, stubVars, gdbVars, UnitsToStub, Budgets
<1>3. CASE toGdb' \in Damaged(toGdb) /\ UNCHANGED toStub
  <2>1. toGdb' \in Seq(UnitsToGdb)
    BY <1>3, DamagedToGdb DEF UnitsToGdb
  <2>2. QED BY <1>1, <1>3, <2>1 DEF Damage, stubVars, gdbVars, UnitsToGdb, Budgets
<1>4. QED BY <1>2, <1>3 DEF Damage

\* A step that changes nothing keeps the types.
LEMMA StutterType == TypeInv /\ UNCHANGED vars => TypeInv'
BY DEF TypeInv, TypeOK, vars, stubVars, gdbVars

\* Every step keeps the types.
LEMMA NextType == TypeInv /\ [Next]_vars => TypeInv'
BY StubType, GdbType, DamageType, StutterType DEF Next, Ended

\* Both ends and both channels keep their types, for every bound; a waiting
\* GDB waits for a command of its own, and the stub executes a received one.
THEOREM RspLinkTypes == Spec => []TypeInv
BY InitType, NextType, PTL DEF Spec

\* So do the variables alone (dbg_main, dbg_recv_packet, dbg_recv_ack).
THEOREM TypesRight == Spec => []TypeOK
<1>1. TypeInv => TypeOK
  BY DEF TypeInv
<1>2. QED BY <1>1, RspLinkTypes, PTL
-----------------------------------------------------------------------------
\* The command the stub took last.
LastTaken == IF taken = << >> THEN 0 ELSE taken[Len(taken)]

\* Where the commands are in the channel to the stub; the replies and the
\* other units, and among these the acknowledgments, in the channel to GDB.
CommandsAt == {i \in DOMAIN toStub : IsPacket(toStub[i])}
RepliesAt  == {i \in DOMAIN toGdb : IsPacket(toGdb[i])}
MarksAt    == DOMAIN toGdb \ RepliesAt
AcksAt     == {i \in DOMAIN toGdb : toGdb[i] = Ack}

\* A command or the mark that answers it is on the way, not both, and neither
\* when GDB waits for no mark.
OneOnTheWay ==
    /\ \A i, j \in CommandsAt : i = j
    /\ \A i, j \in MarksAt : i = j
    /\ CommandsAt = {} \/ MarksAt = {}
    /\ gdb \in {"idle", "waitReply"} => CommandsAt = {} /\ MarksAt = {}

\* GDB has heard, or is about to hear, that its command was received.
Acknowledged == gdb \in {"idle", "waitReply"} \/ (gdb = "waitAck" /\ AcksAt # {})

\* The command the stub took last is the one GDB sent last, or the one before
\* while that is on the way.
Counted ==
    /\ Acknowledged => LastTaken = sent.id
    /\ gdb = "waitAck" /\ ~Acknowledged => LastTaken + 1 = sent.id
    /\ \A i \in CommandsAt :
        /\ toStub[i].id = LastTaken + 1
        /\ gdb # "closed" => toStub[i].id = sent.id /\ toStub[i].request = sent.request

\* While the answer to an acknowledged command is due, the stub holds that
\* command, and what GDB will take for the answer is an answer to it.
Answering ==
    gdb = "waitReply" \/ (gdb = "waitAck" /\ AcksAt # {}) =>
     /\ command.id = sent.id
     /\ command.request = sent.request
     /\ stub = "signal" => answers = sent.id
     /\ gdb = "waitReply" => \A i \in RepliesAt : toGdb[i].id = sent.id
     /\ \A i \in AcksAt, j \in RepliesAt : i < j => toGdb[j].id = sent.id

\* The three are inductive together: that a reply matches follows from where
\* its command is, which follows from there being one of them.
Conserved == OneOnTheWay /\ Counted /\ Answering
\* They hold until GDB sends something a second time.
ConservedInv == ~Repeated => Conserved

\* The stub takes the head of its channel.
LEMMA StubReads ==
  ASSUME TypeInv, toStub # << >>, toStub' = Tail(toStub)
  PROVE  /\ 1 \in DOMAIN toStub /\ Head(toStub) = toStub[1] /\ DOMAIN toStub \subseteq Nat
         /\ DOMAIN toStub' \subseteq Nat \ {0}
         /\ \A i \in DOMAIN toStub' : i + 1 \in DOMAIN toStub /\ toStub'[i] = toStub[i + 1]
         /\ \A i \in DOMAIN toStub : i # 1 => i - 1 \in DOMAIN toStub'
BY TailIs DEF TypeInv, TypeOK

\* GDB takes the head of its channel.
LEMMA GdbReads ==
  ASSUME TypeInv, toGdb # << >>, toGdb' = Tail(toGdb)
  PROVE  /\ 1 \in DOMAIN toGdb /\ Head(toGdb) = toGdb[1] /\ DOMAIN toGdb \subseteq Nat
         /\ DOMAIN toGdb' \subseteq Nat \ {0}
         /\ \A i \in DOMAIN toGdb' : i + 1 \in DOMAIN toGdb /\ toGdb'[i] = toGdb[i + 1]
         /\ \A i \in DOMAIN toGdb : i # 1 => i - 1 \in DOMAIN toGdb'
BY TailIs DEF TypeInv, TypeOK

\* A unit of the stub is last in the channel to GDB, or lost when that is
\* closed.
LEMMA StubWrites ==
  ASSUME TypeInv, NEW e \in UnitsToGdb, StubSends(<<e>>)
  PROVE  /\ gdb = "closed" => toGdb' = toGdb
         /\ DOMAIN toGdb \subseteq Nat
         /\ gdb # "closed" =>
              \E n \in Nat \ {0} :
                  /\ DOMAIN toGdb' = DOMAIN toGdb \cup {n} /\ toGdb'[n] = e
                  /\ \A i \in DOMAIN toGdb : i < n /\ toGdb'[i] = toGdb[i]
<1>1. toGdb \in Seq(UnitsToGdb)
  BY DEF TypeInv, TypeOK, UnitsToGdb
<1> DEFINE q == toGdb \o <<e>>
<1>2. /\ DOMAIN toGdb = 1..Len(toGdb) /\ DOMAIN q = 1..(Len(toGdb) + 1) /\ Len(toGdb) \in Nat
      /\ \A i \in DOMAIN toGdb : q[i] = toGdb[i]
      /\ q[Len(toGdb) + 1] = e
  BY <1>1, OneMore
<1>3. toGdb' = IF gdb = "closed" THEN toGdb ELSE q
  BY DEF StubSends
<1> HIDE DEF q
<1>4. ASSUME gdb # "closed"
      PROVE  \E n \in Nat \ {0} :
                  /\ DOMAIN toGdb' = DOMAIN toGdb \cup {n} /\ toGdb'[n] = e
                  /\ \A i \in DOMAIN toGdb : i < n /\ toGdb'[i] = toGdb[i]
  <2> WITNESS Len(toGdb) + 1 \in Nat \ {0}
  <2>1. QED BY <1>2, <1>3, <1>4
<1>5. QED BY <1>2, <1>3, <1>4

\* A unit of GDB is last in the channel to the stub, or lost when that has
\* exited.
LEMMA GdbWrites ==
  ASSUME TypeInv, NEW e \in UnitsToStub, GdbSends(<<e>>)
  PROVE  /\ stub = "exited" => toStub' = toStub
         /\ DOMAIN toStub \subseteq Nat
         /\ stub # "exited" =>
              \E n \in Nat \ {0} :
                  /\ DOMAIN toStub' = DOMAIN toStub \cup {n} /\ toStub'[n] = e
                  /\ \A i \in DOMAIN toStub : i < n /\ toStub'[i] = toStub[i]
<1>1. toStub \in Seq(UnitsToStub)
  BY DEF TypeInv, TypeOK, UnitsToStub
<1> DEFINE q == toStub \o <<e>>
<1>2. /\ DOMAIN toStub = 1..Len(toStub) /\ DOMAIN q = 1..(Len(toStub) + 1) /\ Len(toStub) \in Nat
      /\ \A i \in DOMAIN toStub : q[i] = toStub[i]
      /\ q[Len(toStub) + 1] = e
  BY <1>1, OneMore
<1>3. toStub' = IF stub = "exited" THEN toStub ELSE q
  BY DEF GdbSends
<1> HIDE DEF q
<1>4. ASSUME stub # "exited"
      PROVE  \E n \in Nat \ {0} :
                  /\ DOMAIN toStub' = DOMAIN toStub \cup {n} /\ toStub'[n] = e
                  /\ \A i \in DOMAIN toStub : i < n /\ toStub'[i] = toStub[i]
  <2> WITNESS Len(toStub) + 1 \in Nat \ {0}
  <2>1. QED BY <1>2, <1>3, <1>4
<1>5. QED BY <1>2, <1>3, <1>4

\* Packets to the stub are commands, packets to GDB replies.
LEMMA UnitKinds ==
  ASSUME TypeInv
  PROVE  /\ \A i \in DOMAIN toStub :
              /\ toStub[i] \in Acks \cup {Interrupt} \cup Commands
              /\ IsPacket(toStub[i]) <=> toStub[i] \in Commands
         /\ \A i \in DOMAIN toGdb :
              /\ IsPacket(toGdb[i]) <=> toGdb[i] \in Replies
              /\ ~IsPacket(toGdb[i]) <=> toGdb[i] \in Acks
<1>1. toStub \in Seq(UnitsToStub) /\ toGdb \in Seq(UnitsToGdb)
  BY DEF TypeInv, TypeOK, UnitsToStub, UnitsToGdb
<1>2. /\ \A i \in DOMAIN toStub : toStub[i] \in UnitsToStub
      /\ \A i \in DOMAIN toGdb : toGdb[i] \in UnitsToGdb
  BY <1>1
<1>3. QED
  BY <1>2 DEF UnitsToStub, UnitsToGdb, IsPacket, Acks, Ack, Nack, Interrupt, Commands, Replies

\* What the stub answers are replies.
LEMMA StubReply ==
  ASSUME TypeInv, NEW body \in Bodies
  PROVE  /\ Reply(answers, "stop", body) \in Replies
         /\ stub = "execute" => Reply(command.id, "data", body) \in Replies
         /\ stub = "execute" => Reply(command.id, "terminated", body) \in Replies
BY DEF TypeInv, TypeOK, Reply, Replies, ReplyKinds, Commands

\* Marks and the interrupt are no packets.
LEMMA NotPackets ==
  /\ ~IsPacket(Ack) /\ ~IsPacket(Nack) /\ ~IsPacket(Interrupt)
  /\ Ack # Nack
  /\ {Ack, Nack} \subseteq UnitsToGdb /\ {Ack, Nack, Interrupt} \subseteq UnitsToStub
BY DEF IsPacket, Ack, Nack, Interrupt, UnitsToGdb, UnitsToStub, Acks

\* What commands and replies carry.
LEMMA PacketsAre ==
  /\ \A n, k, b : /\ IsPacket(Reply(n, k, b)) /\ Reply(n, k, b).id = n
                  /\ Reply(n, k, b).good /\ Reply(n, k, b) # Ack
  /\ \A n, r : /\ IsPacket(Command(n, r)) /\ Command(n, r).id = n
               /\ Command(n, r).request = r /\ Command(n, r).good
BY DEF IsPacket, Reply, Command, Ack

\* The command taken is then the last one taken.
LEMMA LastAppended ==
  ASSUME TypeInv, NEW n, taken' = Append(taken, n)
  PROVE  LastTaken' = n
BY DEF LastTaken, TypeInv, TypeOK

\* It is the number of a command, or 0.
LEMMA LastTakenType ==
  ASSUME TypeInv
  PROVE  LastTaken \in 0..MaxCommands
BY BoundsAssumption DEF LastTaken, TypeInv, TypeOK

\* At first no command is on the way and none was taken.
LEMMA ConservedInit == Init => ConservedInv
BY DEF Init, ConservedInv, Conserved, OneOnTheWay, Counted, Answering, Acknowledged,
   CommandsAt, RepliesAt, MarksAt, AcksAt, LastTaken, NoCommand, Command, IsPacket, Ack


\* The packet the stub reads is the command GDB waits for a mark of, and no
\* other is behind it.
LEMMA CommandRead ==
  ASSUME TypeInv, Conserved, NEW e \in {Ack, Nack},
         stub = "receive", Heard, IsPacket(Head(toStub)), toStub' = Tail(toStub),
         StubSends(<<e>>), UNCHANGED gdb
  PROVE  /\ Head(toStub) \in Commands /\ Head(toStub).id = LastTaken + 1
         /\ gdb # "closed" => /\ gdb = "waitAck" /\ ~Acknowledged
                              /\ Head(toStub).id = sent.id
                              /\ Head(toStub).request = sent.request
         /\ CommandsAt' = {}
         /\ IF gdb = "closed" THEN toGdb' = toGdb
            ELSE \E n \in Nat \ {0} :
                    /\ MarksAt' = {n} /\ toGdb'[n] = e
                    /\ \A j \in RepliesAt' : j \in Nat /\ j < n
                    /\ \A j \in RepliesAt' : j \in RepliesAt /\ toGdb'[j] = toGdb[j]
<1>1. /\ 1 \in CommandsAt /\ Head(toStub) = toStub[1]
      /\ MarksAt = {} /\ \A i \in CommandsAt : i = 1
  BY StubReads DEF Heard, CommandsAt, Conserved, OneOnTheWay
<1>2. Head(toStub) \in Commands
  BY <1>1, UnitKinds DEF CommandsAt
<1>3. CommandsAt' = {}
  <2>1. ASSUME NEW i \in CommandsAt'
        PROVE  FALSE
    <3>1. i + 1 \in CommandsAt /\ i \in Nat \ {0}
      BY StubReads DEF Heard, CommandsAt
    <3>2. QED BY <1>1, <3>1
  <2>2. QED BY <2>1
<1>4. gdb # "closed" => gdb = "waitAck"
  BY <1>1 DEF Conserved, OneOnTheWay, TypeInv, TypeOK
<1>5. ~Acknowledged \/ gdb = "closed"
  BY <1>1, <1>4, NotPackets DEF Acknowledged, MarksAt, AcksAt, RepliesAt
<1>6. CASE gdb # "closed"
  <2>1. PICK n \in Nat \ {0} :
            /\ DOMAIN toGdb' = DOMAIN toGdb \cup {n} /\ toGdb'[n] = e
            /\ \A i \in DOMAIN toGdb : i < n /\ toGdb'[i] = toGdb[i]
    BY <1>6, StubWrites, NotPackets
  <2>2. /\ MarksAt' = {n} /\ \A j \in RepliesAt' : j \in Nat /\ j < n
        /\ \A j \in RepliesAt' : j \in RepliesAt /\ toGdb'[j] = toGdb[j]
    <3>1. DOMAIN toGdb = RepliesAt
      BY <1>1 DEF MarksAt, RepliesAt
    <3>2. RepliesAt' = RepliesAt
      BY <2>1, <3>1, NotPackets, StubWrites DEF RepliesAt
    <3>3. QED BY <2>1, <3>1, <3>2, StubWrites, NotPackets DEF MarksAt
  <2>3. QED BY <1>1, <1>2, <1>3, <1>4, <1>5, <1>6, <2>1, <2>2 DEF Conserved, Counted
<1>7. CASE gdb = "closed"
  BY <1>1, <1>2, <1>3, <1>7 DEF Conserved, Counted, StubSends
<1>8. QED BY <1>6, <1>7

\* A reply adds no mark.
LEMMA ReplySent ==
  ASSUME TypeInv, NEW e \in Replies, StubSends(<<e>>)
  PROVE  /\ MarksAt' = MarksAt /\ AcksAt' = AcksAt
         /\ \A i \in MarksAt : toGdb'[i] = toGdb[i]
         /\ \A i \in RepliesAt' : (i \in RepliesAt /\ toGdb'[i] = toGdb[i]) \/ toGdb'[i] = e
<1>1. e \in UnitsToGdb /\ IsPacket(e) /\ e # Ack
  BY DEF UnitsToGdb, Replies, IsPacket, Ack
<1>2. QED
  BY <1>1, StubWrites DEF MarksAt, RepliesAt, AcksAt, StubSends

\* The stub answers the one command with one mark.
LEMMA OneStub ==
  ASSUME TypeInv, StubNext, Conserved
  PROVE  OneOnTheWay'
<1> USE DEF Conserved, OneOnTheWay, gdbVars, stubVars
<1>1. ASSUME NEW body \in Bodies, SendSignal(body) \/ ExecuteQuery(body) \/ ExecuteTerminated(body)
      PROVE  OneOnTheWay'
  BY <1>1, ReplySent, StubReply DEF SendSignal, ExecuteQuery, ExecuteTerminated, Executes,
                                    CommandsAt
<1>2. CASE ReceiveAck
  BY <1>2, StubReads, UnitKinds DEF ReceiveAck, Heard, CommandsAt, MarksAt, RepliesAt
<1>3. CASE SkipToPacket
  BY <1>3, StubReads DEF SkipToPacket, Heard, CommandsAt, MarksAt, RepliesAt
<1>5. CASE ReceivePacket
  BY <1>5, CommandRead DEF ReceivePacket, MarksAt, RepliesAt
<1>6. CASE RefusePacket
  BY <1>6, CommandRead DEF RefusePacket, MarksAt, RepliesAt
<1>7. CASE PacketEndOfInput \/ AckEndOfInput
  BY <1>7 DEF PacketEndOfInput, AckEndOfInput, CommandsAt, MarksAt, RepliesAt
<1>8. CASE ExecuteSilent \/ ExecuteStop
  BY <1>8 DEF ExecuteSilent, ExecuteStop, Executes, CommandsAt, MarksAt, RepliesAt
<1>15. QED BY <1>1, <1>2, <1>3, <1>5, <1>6, <1>7, <1>8 DEF StubNext

\* What GDB sends that is no command.
LEMMA MarkSent ==
  ASSUME TypeInv, NEW e \in {Ack, Nack, Interrupt}, GdbSends(<<e>>)
  PROVE  /\ CommandsAt' = CommandsAt
         /\ \A i \in CommandsAt : toStub'[i] = toStub[i]
<1>1. e \in UnitsToStub /\ ~IsPacket(e)
  BY NotPackets
<1>2. CASE stub = "exited"
  BY <1>1, <1>2, GdbWrites DEF CommandsAt
<1>3. CASE stub # "exited"
  <2>1. PICK n \in Nat \ {0} :
            /\ DOMAIN toStub' = DOMAIN toStub \cup {n} /\ toStub'[n] = e
            /\ \A i \in DOMAIN toStub : i < n /\ toStub'[i] = toStub[i]
    BY <1>1, <1>3, GdbWrites
  <2>2. QED BY <1>1, <2>1 DEF CommandsAt
<1>4. QED BY <1>2, <1>3

\* GDB sends a command when none is on the way.
LEMMA CommandSent ==
  ASSUME TypeInv, NEW e \in Commands, GdbSends(<<e>>), CommandsAt = {}
  PROVE  /\ \A i, j \in CommandsAt' : i = j
         /\ \A i \in CommandsAt' : toStub'[i] = e
<1>1. e \in UnitsToStub /\ IsPacket(e)
  BY DEF UnitsToStub, Commands, IsPacket
<1>2. CASE stub = "exited"
  BY <1>1, <1>2, GdbWrites DEF CommandsAt
<1>3. CASE stub # "exited"
  <2>1. PICK n \in Nat \ {0} :
            /\ DOMAIN toStub' = DOMAIN toStub \cup {n} /\ toStub'[n] = e
            /\ \A i \in DOMAIN toStub : i < n /\ toStub'[i] = toStub[i]
    BY <1>1, <1>3, GdbWrites
  <2>2. CommandsAt' = {n}
    BY <1>1, <2>1 DEF CommandsAt
  <2>3. QED BY <2>1, <2>2
<1>4. QED BY <1>2, <1>3

\* What GDB takes from the head of its channel.
LEMMA ReplyRead ==
  ASSUME TypeInv, toGdb # << >>, toGdb' = Tail(toGdb)
  PROVE  /\ \A i \in RepliesAt' : i + 1 \in RepliesAt /\ i \in Nat \ {0} /\ toGdb'[i] = toGdb[i + 1]
         /\ \A i \in MarksAt' : i + 1 \in MarksAt /\ i \in Nat \ {0} /\ toGdb'[i] = toGdb[i + 1]
         /\ \A i \in AcksAt' : i + 1 \in AcksAt /\ i \in Nat \ {0}
         /\ \A i \in AcksAt : i # 1 => i - 1 \in AcksAt'
         /\ IsPacket(Head(toGdb)) => 1 \in RepliesAt
         /\ ~IsPacket(Head(toGdb)) => 1 \in MarksAt
         /\ Head(toGdb) = Ack => 1 \in AcksAt
         /\ Head(toGdb) = toGdb[1]
  BY GdbReads DEF RepliesAt, MarksAt, AcksAt

\* GDB takes a mark before it sends the next command.
LEMMA OneGdb ==
  ASSUME TypeInv, GdbNext, Conserved, ~Resend
  PROVE  OneOnTheWay'
<1> USE DEF Conserved, OneOnTheWay, gdbVars, stubVars, GdbHears
<1>1. ASSUME NEW request \in Requests, SendCommand(request)
      PROVE  OneOnTheWay'
  <2>1. CommandsAt = {} /\ MarksAt = {} /\ MarksAt' = {}
    BY <1>1 DEF SendCommand, MarksAt, RepliesAt
  <2>2. sent' \in Commands /\ GdbSends(<<sent'>>)
    <3>1. sent'.id \in 1..MaxCommands
      BY <1>1, NextNumber
    <3>2. QED BY <1>1, <3>1 DEF SendCommand, Command, Commands
  <2>3. QED BY <1>1, <2>1, <2>2, CommandSent DEF SendCommand
<1>2. CASE AcceptAck \/ SkipToReply
  <2>1. CommandsAt' = CommandsAt
    BY <1>2 DEF AcceptAck, SkipToReply, CommandsAt
  <2>2. toGdb # << >> /\ toGdb' = Tail(toGdb)
    BY <1>2 DEF AcceptAck, SkipToReply
  <2>3. CASE AcceptAck
    <3>1. 1 \in MarksAt
      BY <2>2, <2>3, ReplyRead, NotPackets DEF AcceptAck
    <3>2. CommandsAt = {} /\ MarksAt' = {}
      BY <2>2, <3>1, ReplyRead
    <3>3. QED BY <2>1, <3>2
  <2>4. CASE SkipToReply
    BY <2>1, <2>2, <2>4, ReplyRead DEF SkipToReply
  <2>5. QED BY <1>2, <2>3, <2>4
<1>3. CASE NoticeExit
  BY <1>3 DEF NoticeExit, CommandsAt, MarksAt, RepliesAt
<1>4. CASE AcceptNack
  <2>1. toGdb # << >> /\ toGdb' = Tail(toGdb) /\ 1 \in MarksAt /\ sent \in Commands
    BY <1>4, ReplyRead, NotPackets DEF AcceptNack, TypeInv
  <2>2. CommandsAt = {} /\ MarksAt' = {}
    BY <2>1, ReplyRead
  <2>3. QED BY <1>4, <2>1, <2>2, CommandSent DEF AcceptNack
<1>5. CASE DropPacket \/ AcceptReply \/ RefuseReply
  <2>1. toGdb # << >> /\ toGdb' = Tail(toGdb)
    BY <1>5 DEF DropPacket, AcceptReply, RefuseReply
  <2>2. CommandsAt' = CommandsAt
    BY <1>5, MarkSent DEF DropPacket, AcceptReply, RefuseReply
  <2>3. gdb = "waitReply" \/ gdb' = gdb
    BY <1>5 DEF DropPacket, AcceptReply, RefuseReply
  <2>4. QED BY <2>1, <2>2, <2>3, ReplyRead
<1>6. CASE SendInterrupt \/ GiveUpReply
  <2>1. CommandsAt' = CommandsAt /\ MarksAt' = MarksAt
    BY <1>6, MarkSent DEF SendInterrupt, GiveUpReply, MarksAt, RepliesAt
  <2>2. QED BY <1>6, <2>1 DEF SendInterrupt, GiveUpReply
<1>7. CASE Disconnect
  <2>1. MarksAt' = {} /\ gdb' = "closed"
    BY <1>7 DEF Disconnect, MarksAt, RepliesAt
  <2>2. PICK n \in 0..Len(toStub) : toStub' = SubSeq(toStub, 1, n)
    BY <1>7 DEF Disconnect
  <2>3. CommandsAt' \subseteq CommandsAt
    BY <2>2, PrefixIs DEF CommandsAt, TypeInv, TypeOK
  <2>4. QED BY <2>1, <2>3
<1>8. QED
  BY <1>1, <1>2, <1>3, <1>4, <1>5, <1>6, <1>7 DEF GdbNext, GdbReceives

\* Damage changes what a packet says of itself, and nothing else.
LEMMA DamageFrame ==
  ASSUME TypeInv, Damage
  PROVE  /\ CommandsAt' = CommandsAt /\ MarksAt' = MarksAt /\ AcksAt' = AcksAt
         /\ RepliesAt' = RepliesAt
         /\ \A i \in CommandsAt : /\ toStub'[i].id = toStub[i].id
                                  /\ toStub'[i].request = toStub[i].request
         /\ \A i \in RepliesAt : /\ toGdb'[i].id = toGdb[i].id
                                 /\ toGdb'[i].kind = toGdb[i].kind
                                 /\ toGdb'[i].body = toGdb[i].body
         /\ UNCHANGED <<stub, command, answers, taken, gdb, sent>>
         /\ budget'.resends = budget.resends
<1>1. toStub \in Seq(UnitsToStub) /\ toGdb \in Seq(UnitsToGdb)
  BY DEF TypeInv, TypeOK, UnitsToStub, UnitsToGdb
<1>2. /\ \A u \in Commands : IsPacket(u)
      /\ \A u \in Replies : IsPacket(u) /\ u # Ack
  BY DEF Commands, Replies, IsPacket, Ack
<1>3. /\ UNCHANGED <<stub, command, answers, taken, gdb, sent>>
      /\ budget'.resends = budget.resends
  BY Spent DEF Damage, stubVars, gdbVars, TypeInv, TypeOK, Budgets
<1>4. CASE toStub' \in Damaged(toStub) /\ UNCHANGED toGdb
  BY <1>1, <1>2, <1>3, <1>4, DamagedToStub DEF CommandsAt, RepliesAt, MarksAt, AcksAt
<1>5. CASE toGdb' \in Damaged(toGdb) /\ UNCHANGED toStub
  <2>1. /\ DOMAIN toGdb' = DOMAIN toGdb
        /\ \E k \in DOMAIN toGdb :
              /\ {toGdb[k], toGdb'[k]} \subseteq Replies
              /\ /\ toGdb'[k].id = toGdb[k].id /\ toGdb'[k].kind = toGdb[k].kind
                 /\ toGdb'[k].body = toGdb[k].body
              /\ \A i \in DOMAIN toGdb : i # k => toGdb'[i] = toGdb[i]
    BY <1>1, <1>5, DamagedToGdb
  <2>2. \A i \in DOMAIN toGdb :
           /\ IsPacket(toGdb'[i]) <=> IsPacket(toGdb[i])
           /\ toGdb'[i] = Ack <=> toGdb[i] = Ack
           /\ toGdb'[i].id = toGdb[i].id
           /\ toGdb'[i].kind = toGdb[i].kind /\ toGdb'[i].body = toGdb[i].body
    BY <1>2, <2>1
  <2>3. RepliesAt' = RepliesAt /\ MarksAt' = MarksAt
    BY <2>1, <2>2 DEF RepliesAt, MarksAt
  <2>4. AcksAt' = AcksAt /\ CommandsAt' = CommandsAt
    BY <1>5, <2>1, <2>2 DEF AcksAt, CommandsAt
  <2>5. \A i \in RepliesAt : /\ toGdb'[i].id = toGdb[i].id
                             /\ toGdb'[i].kind = toGdb[i].kind
                             /\ toGdb'[i].body = toGdb[i].body
    BY <2>2 DEF RepliesAt
  <2>6. QED BY <1>3, <1>5, <2>3, <2>4, <2>5
<1>6. QED BY <1>4, <1>5 DEF Damage

\* Damage adds no unit.
LEMMA OneDamage ==
  ASSUME TypeInv, Damage, Conserved
  PROVE  OneOnTheWay'
BY DamageFrame DEF Conserved, OneOnTheWay

\* A step of the stub keeps the count.
LEMMA CountedStub ==
  ASSUME TypeInv, StubNext, Conserved
  PROVE  Counted'
<1> USE DEF Conserved, Counted, Acknowledged, gdbVars, stubVars
<1>1. ASSUME NEW body \in Bodies, SendSignal(body) \/ ExecuteQuery(body) \/ ExecuteTerminated(body)
      PROVE  Counted'
  <2>1. AcksAt' = AcksAt
    BY <1>1, ReplySent, StubReply DEF SendSignal, ExecuteQuery, ExecuteTerminated, Executes
  <2>2. QED BY <1>1, <2>1 DEF SendSignal, ExecuteQuery, ExecuteTerminated, Executes,
                            CommandsAt, LastTaken
<1>2. CASE ReceiveAck
  BY <1>2, StubReads DEF ReceiveAck, Heard, CommandsAt, AcksAt, LastTaken
<1>3. CASE SkipToPacket
  BY <1>3, StubReads DEF SkipToPacket, Heard, CommandsAt, AcksAt, LastTaken
<1>5. CASE ReceivePacket
  <2>1. LastTaken' = Head(toStub).id
    BY <1>5, LastAppended DEF ReceivePacket
  <2>2. CASE gdb = "closed"
    BY <1>5, <2>1, <2>2, CommandRead DEF ReceivePacket
  <2>3. CASE gdb # "closed"
    <3>1. AcksAt' # {}
      BY <1>5, <2>3, CommandRead DEF ReceivePacket, MarksAt, AcksAt
    <3>2. QED BY <1>5, <2>1, <2>3, <3>1, CommandRead DEF ReceivePacket
  <2>4. QED BY <2>2, <2>3
<1>6. CASE RefusePacket
  <2>1. LastTaken' = LastTaken
    BY <1>6 DEF RefusePacket, LastTaken
  <2>2. CASE gdb = "closed"
    BY <1>6, <2>1, <2>2, CommandRead DEF RefusePacket
  <2>3. CASE gdb # "closed"
    <3>1. AcksAt' = {}
      BY <1>6, <2>3, CommandRead, NotPackets DEF RefusePacket, MarksAt, AcksAt, RepliesAt
    <3>2. QED BY <1>6, <2>1, <2>3, <3>1, CommandRead DEF RefusePacket
  <2>4. QED BY <2>2, <2>3
<1>7. CASE PacketEndOfInput \/ AckEndOfInput
  BY <1>7 DEF PacketEndOfInput, AckEndOfInput, CommandsAt, AcksAt, LastTaken
<1>8. CASE ExecuteSilent \/ ExecuteStop
  BY <1>8 DEF ExecuteSilent, ExecuteStop, Executes, CommandsAt, AcksAt, LastTaken
<1>15. QED BY <1>1, <1>2, <1>3, <1>5, <1>6, <1>7, <1>8 DEF StubNext

\* A step of GDB keeps the count.
LEMMA CountedGdb ==
  ASSUME TypeInv, GdbNext, Conserved, ~Resend
  PROVE  Counted'
<1> USE DEF Conserved, Counted, Acknowledged, gdbVars, stubVars, GdbHears
<1>0. LastTaken' = LastTaken
  BY DEF GdbNext, GdbReceives, SendCommand, AcceptAck, AcceptNack, DropPacket, SkipToReply,
         AcceptReply, RefuseReply, NoticeExit, SendInterrupt, Resend, GiveUpReply, Disconnect, LastTaken
<1>1. ASSUME NEW request \in Requests, SendCommand(request)
      PROVE  Counted'
  <2>1. CommandsAt = {} /\ AcksAt' = {}
    BY <1>1, NotPackets DEF SendCommand, MarksAt, RepliesAt, AcksAt, OneOnTheWay
  <2>2. sent' \in Commands /\ GdbSends(<<sent'>>) /\ sent'.id = sent.id + 1
    <3>1. sent'.id \in 1..MaxCommands
      BY <1>1, NextNumber
    <3>2. QED BY <1>1, <3>1 DEF SendCommand, Command, Commands
  <2>3. LastTaken = sent.id
    BY <1>1 DEF SendCommand
  <2>4. \A i \in CommandsAt' : toStub'[i] = sent'
    BY <2>1, <2>2, CommandSent
  <2>5. QED BY <1>0, <1>1, <2>1, <2>2, <2>3, <2>4 DEF SendCommand
<1>2. CASE AcceptAck
  <2>1. CommandsAt' = CommandsAt
    BY <1>2 DEF AcceptAck, CommandsAt
  <2>2. 1 \in AcksAt
    BY <1>2, ReplyRead DEF AcceptAck
  <2>3. QED BY <1>0, <1>2, <2>1, <2>2 DEF AcceptAck
<1>3. CASE NoticeExit \/ SkipToReply
  BY <1>0, <1>3 DEF NoticeExit, SkipToReply, CommandsAt
<1>4. CASE AcceptNack
  <2>1. toGdb # << >> /\ toGdb' = Tail(toGdb) /\ 1 \in MarksAt /\ 1 \notin AcksAt /\ sent \in Commands
    BY <1>4, ReplyRead, NotPackets DEF AcceptNack, TypeInv, AcksAt
  <2>2. CommandsAt = {} /\ MarksAt' = {} /\ AcksAt = {}
    BY <2>1, ReplyRead, NotPackets DEF OneOnTheWay, MarksAt, AcksAt, RepliesAt
  <2>3. AcksAt' = {}
    BY <2>2, NotPackets DEF MarksAt, AcksAt, RepliesAt
  <2>4. \A i \in CommandsAt' : toStub'[i] = sent
    BY <1>4, <2>1, <2>2, CommandSent DEF AcceptNack
  <2>5. QED BY <1>0, <1>4, <2>2, <2>3, <2>4 DEF AcceptNack
<1>5. CASE DropPacket \/ AcceptReply \/ RefuseReply
  <2>1. toGdb # << >> /\ toGdb' = Tail(toGdb) /\ IsPacket(Head(toGdb))
    BY <1>5 DEF DropPacket, AcceptReply, RefuseReply
  <2>2. CommandsAt' = CommandsAt /\ \A i \in CommandsAt : toStub'[i] = toStub[i]
    BY <1>5, MarkSent DEF DropPacket, AcceptReply, RefuseReply
  <2>3. AcksAt' = {} <=> AcksAt = {}
    BY <2>1, ReplyRead, NotPackets DEF AcksAt
  <2>4. QED BY <1>0, <1>5, <2>2, <2>3 DEF DropPacket, AcceptReply, RefuseReply
<1>6. CASE SendInterrupt \/ GiveUpReply
  <2>1. CommandsAt' = CommandsAt /\ \A i \in CommandsAt : toStub'[i] = toStub[i]
    BY <1>6, MarkSent DEF SendInterrupt, GiveUpReply
  <2>2. QED BY <1>0, <1>6, <2>1 DEF SendInterrupt, GiveUpReply
<1>7. CASE Disconnect
  <2>1. gdb' = "closed"
    BY <1>7 DEF Disconnect
  <2>2. PICK n \in 0..Len(toStub) : toStub' = SubSeq(toStub, 1, n)
    BY <1>7 DEF Disconnect
  <2>3. CommandsAt' \subseteq CommandsAt /\ \A i \in CommandsAt' : toStub'[i] = toStub[i]
    BY <2>2, PrefixIs DEF CommandsAt, TypeInv, TypeOK
  <2>4. QED BY <1>0, <2>1, <2>3
<1>8. QED
  BY <1>1, <1>2, <1>3, <1>4, <1>5, <1>6, <1>7 DEF GdbNext, GdbReceives

\* Damage keeps the count.
LEMMA CountedDamage ==
  ASSUME TypeInv, Damage, Conserved
  PROVE  Counted'
BY DamageFrame DEF Conserved, Counted, Acknowledged, LastTaken

\* A step of the stub answers the command it holds.
LEMMA AnsweringStub ==
  ASSUME TypeInv, StubNext, Conserved
  PROVE  Answering'
<1> DEFINE Reached == gdb = "waitReply" \/ (gdb = "waitAck" /\ AcksAt # {})
<1> SUFFICES ASSUME Reached'
             PROVE  Answering'
  BY DEF Answering
<1> USE DEF Conserved, Answering, gdbVars, stubVars
<1>0. gdb # "closed" /\ gdb' = gdb /\ sent' = sent
  BY DEF StubNext, SendSignal, ReceiveAck, AckEndOfInput, SkipToPacket, ReceivePacket, RefusePacket,
         PacketEndOfInput, ExecuteQuery, ExecuteTerminated, ExecuteSilent, ExecuteStop, Executes
<1>1. ASSUME NEW body \in Bodies, SendSignal(body)
      PROVE  Answering'
  <2>1. /\ AcksAt' = AcksAt
        /\ \A i \in RepliesAt' : (i \in RepliesAt /\ toGdb'[i] = toGdb[i]) \/ toGdb'[i].id = answers
    BY <1>1, ReplySent, StubReply, PacketsAre DEF SendSignal
  <2>2. QED BY <1>0, <1>1, <2>1 DEF SendSignal
<1>2. ASSUME NEW body \in Bodies, ExecuteQuery(body) \/ ExecuteTerminated(body)
      PROVE  Answering'
  <2>1. /\ AcksAt' = AcksAt
        /\ \A i \in RepliesAt' : (i \in RepliesAt /\ toGdb'[i] = toGdb[i]) \/ toGdb'[i].id = command.id
    BY <1>2, ReplySent, StubReply, PacketsAre DEF ExecuteQuery, ExecuteTerminated, Executes
  <2>2. QED BY <1>0, <1>2, <2>1 DEF ExecuteQuery, ExecuteTerminated, Executes
<1>3. CASE ReceiveAck \/ SkipToPacket
  BY <1>0, <1>3 DEF ReceiveAck, SkipToPacket, RepliesAt, AcksAt
<1>5. CASE ReceivePacket
  <2>1. /\ gdb = "waitAck" /\ command'.id = sent.id /\ command'.request = sent.request
        /\ stub' # "signal"
        /\ \E n \in Nat \ {0} : MarksAt' = {n} /\ toGdb'[n] = Ack /\ \A j \in RepliesAt' : j \in Nat /\ j < n
    BY <1>0, <1>5, CommandRead DEF ReceivePacket
  <2>2. \A i \in AcksAt', j \in RepliesAt' : ~(i < j)
    BY <2>1, NotPackets DEF AcksAt, MarksAt, RepliesAt
  <2>3. QED BY <1>0, <1>5, <2>1, <2>2 DEF ReceivePacket
<1>6. CASE RefusePacket
  <2>1. gdb = "waitAck" /\ AcksAt' = {}
    BY <1>0, <1>6, CommandRead, NotPackets DEF RefusePacket, MarksAt, AcksAt, RepliesAt
  <2>3. QED BY <1>0, <2>1
<1>7. CASE PacketEndOfInput \/ AckEndOfInput
  BY <1>0, <1>7 DEF PacketEndOfInput, AckEndOfInput, EndOfInput
<1>8. CASE ExecuteSilent \/ ExecuteStop
  BY <1>0, <1>8 DEF ExecuteSilent, ExecuteStop, Executes, RepliesAt, AcksAt
<1>15. QED BY <1>1, <1>2, <1>3, <1>5, <1>6, <1>7, <1>8 DEF StubNext

\* A step of GDB makes it wait for the command the stub holds.
LEMMA AnsweringGdb ==
  ASSUME TypeInv, GdbNext, Conserved, ~Resend
  PROVE  Answering'
<1> USE DEF Conserved, Answering, gdbVars, stubVars, GdbHears
<1>1. ASSUME NEW request \in Requests, SendCommand(request)
      PROVE  Answering'
  <2>1. gdb' = "waitAck" /\ AcksAt' = {}
    BY <1>1, NotPackets DEF SendCommand, MarksAt, RepliesAt, AcksAt, OneOnTheWay
  <2>2. QED BY <2>1
<1>2. CASE AcceptAck
  <2>1. /\ 1 \in AcksAt /\ AcksAt' = {}
    <3>1. 1 \in AcksAt /\ 1 \in MarksAt
      BY <1>2, ReplyRead, NotPackets DEF AcceptAck
    <3>2. MarksAt' = {}
      BY <1>2, <3>1, ReplyRead DEF AcceptAck, OneOnTheWay
    <3>3. QED BY <3>1, <3>2, NotPackets DEF MarksAt, AcksAt, RepliesAt
  <2>2. \A j \in RepliesAt' : toGdb'[j].id = sent.id
    <3>1. toGdb # << >> /\ toGdb' = Tail(toGdb) /\ gdb = "waitAck"
      BY <1>2 DEF AcceptAck
    <3>2. \A j \in RepliesAt : 1 < j => toGdb[j].id = sent.id
      BY <2>1, <3>1
    <3>3. ASSUME NEW j \in RepliesAt'
          PROVE  toGdb'[j].id = sent.id
      <4>1. j + 1 \in RepliesAt /\ j \in Nat \ {0} /\ toGdb'[j] = toGdb[j + 1]
        BY <3>1, ReplyRead
      <4>2. QED BY <3>2, <4>1
    <3>4. QED BY <3>3
  <2>3. QED BY <1>2, <2>1, <2>2 DEF AcceptAck
<1>3. CASE SkipToReply
  BY Zenon, <1>3, ReplyRead DEF SkipToReply
<1>4. CASE AcceptNack
  <2>1. 1 \in MarksAt
    BY <1>4, ReplyRead, NotPackets DEF AcceptNack
  <2>2. MarksAt' = {}
    BY <1>4, <2>1, ReplyRead DEF AcceptNack, OneOnTheWay
  <2>3. AcksAt' = {} /\ gdb' = "waitAck"
    BY <1>4, <2>2, NotPackets DEF MarksAt, AcksAt, RepliesAt, AcceptNack
  <2>5. QED BY <2>3
<1>5. CASE DropPacket \/ RefuseReply
  <2>1. toGdb # << >> /\ toGdb' = Tail(toGdb) /\ UNCHANGED <<stub, command, answers, gdb, sent>>
    BY <1>5 DEF DropPacket, RefuseReply
  <2>2. AcksAt' # {} => AcksAt # {}
    BY <2>1, ReplyRead
  <2>3. ASSUME NEW i \in AcksAt', NEW j \in RepliesAt', i < j,
               gdb = "waitReply" \/ (gdb = "waitAck" /\ AcksAt # {})
        PROVE  toGdb'[j].id = sent.id
    <3>1. /\ i + 1 \in AcksAt /\ j + 1 \in RepliesAt /\ {i, j} \subseteq Nat
          /\ toGdb'[j] = toGdb[j + 1]
      BY <2>1, ReplyRead
    <3>2. i + 1 < j + 1
      BY <2>3, <3>1
    <3>3. QED BY <2>3, <3>1, <3>2
  <2>4. ASSUME NEW j \in RepliesAt', gdb = "waitReply"
        PROVE  toGdb'[j].id = sent.id
    BY <2>1, <2>4, ReplyRead
  <2>5. QED BY <2>1, <2>2, <2>3, <2>4
<1>6. CASE NoticeExit \/ AcceptReply \/ GiveUpReply \/ Disconnect
  BY <1>6 DEF NoticeExit, AcceptReply, GiveUpReply, Disconnect
<1>7. CASE SendInterrupt
  BY <1>7 DEF SendInterrupt, AcksAt, RepliesAt
<1>8. QED
  BY <1>1, <1>2, <1>3, <1>4, <1>5, <1>6, <1>7 DEF GdbNext, GdbReceives

\* A damaged answer is still the answer.
LEMMA AnsweringDamage ==
  ASSUME TypeInv, Damage, Conserved
  PROVE  Answering'
BY DamageFrame DEF Conserved, Answering

\* Every step conserves them, until GDB sends something a second time.
LEMMA ConservedNext == TypeInv /\ ConservedInv /\ [Next]_vars => ConservedInv'
<1> SUFFICES ASSUME TypeInv, ConservedInv, [Next]_vars, ~Repeated'
             PROVE  Conserved'
  BY DEF ConservedInv
<1>1. CASE Resend
  <2>1. budget.resends \in 0..MaxResends /\ budget'.resends = budget.resends - 1
    BY <1>1, Spent DEF Resend, TypeInv, TypeOK, Budgets
  <2>2. QED BY <2>1, BoundsAssumption DEF Repeated
<1>2. CASE GdbNext /\ ~Resend
  <2>1. budget'.resends = budget.resends
    BY <1>2, Spent DEF GdbNext, GdbReceives, SendCommand, AcceptAck, AcceptNack, DropPacket,
       SkipToReply, AcceptReply, RefuseReply, NoticeExit, SendInterrupt, GiveUpReply, Disconnect,
       TypeInv, TypeOK, Budgets
  <2>2. Conserved
    BY <2>1 DEF Repeated, ConservedInv
  <2>3. QED BY <1>2, <2>2, OneGdb, CountedGdb, AnsweringGdb DEF Conserved
<1>3. CASE StubNext
  <2>1. budget' = budget
    BY <1>3 DEF StubNext, SendSignal, ReceiveAck, AckEndOfInput, SkipToPacket, ReceivePacket,
         RefusePacket, PacketEndOfInput, ExecuteQuery, ExecuteTerminated, ExecuteSilent,
         ExecuteStop, Executes
  <2>2. Conserved
    BY <2>1 DEF Repeated, ConservedInv
  <2>3. QED BY <1>3, <2>2, OneStub, CountedStub, AnsweringStub DEF Conserved
<1>4. CASE Damage
  <2>1. Conserved
    BY <1>4, DamageFrame DEF Repeated, ConservedInv
  <2>2. QED BY <1>4, <2>1, OneDamage, CountedDamage, AnsweringDamage DEF Conserved
<1>5. CASE UNCHANGED vars
  BY <1>5 DEF vars, stubVars, gdbVars, ConservedInv, Conserved, OneOnTheWay, Counted, Answering,
     Acknowledged, CommandsAt, RepliesAt, MarksAt, AcksAt, LastTaken, Repeated
<1>6. QED BY <1>1, <1>2, <1>3, <1>4, <1>5 DEF Next, Ended

\* What GDB takes for a reply answers the command it sent last, as long as
\* nothing was repeated: dbg_main answers each packet it has read once.
THEOREM RepliesMatch == Spec => []AnswersMatch
<1>1. TypeInv /\ ConservedInv => AnswersMatch
  <2> SUFFICES ASSUME TypeInv, Conserved, GdbHears("waitReply"), IsPacket(Head(toGdb))
               PROVE  Head(toGdb).id = sent.id
    BY DEF AnswersMatch, ConservedInv
  <2>1. 1 \in RepliesAt /\ Head(toGdb) = toGdb[1]
    BY TailIs DEF GdbHears, RepliesAt, TypeInv, TypeOK
  <2>2. QED BY <2>1 DEF GdbHears, Conserved, Answering
<1>2. QED BY <1>1, InitType, NextType, ConservedInit, ConservedNext, PTL DEF Spec

\* Commands are on the way in the order they were sent in, none older than
\* the last one taken, none newer than the last one sent.
Ordered ==
    /\ LastTaken <= sent.id
    /\ \A i \in CommandsAt : LastTaken <= toStub[i].id /\ toStub[i].id <= sent.id
    /\ \A i, j \in CommandsAt : i < j => toStub[i].id <= toStub[j].id

\* Nothing has been damaged yet.
Undamaged == budget.damaged = MaxDamaged

\* Every command sent but not yet taken is on the way, in good shape, with
\* those before it in front of it.
Covered ==
    /\ \A i \in CommandsAt : toStub[i].good
    /\ \A j \in CommandsAt : \A n \in (LastTaken + 1)..toStub[j].id :
            \E i \in CommandsAt : i <= j /\ toStub[i].id = n
    /\ gdb # "closed" =>
        \A n \in (LastTaken + 1)..sent.id : \E i \in CommandsAt : toStub[i].id = n

\* This holds until something is damaged or the stub has left.
CoveredInv == Undamaged /\ stub # "exited" => Covered

\* The commands on the way, after the unit at the head has gone.
CommandsShift ==
    /\ \A i \in CommandsAt' : /\ i + 1 \in CommandsAt /\ i \in Nat \ {0}
                              /\ toStub'[i] = toStub[i + 1]
    /\ \A i \in CommandsAt : /\ i \in Nat \ {0}
                             /\ i # 1 => /\ i - 1 \in CommandsAt' /\ i - 1 \in Nat
                                         /\ toStub'[i - 1] = toStub[i]

\* A read moves the commands one place forward.
LEMMA CommandsRead ==
  ASSUME TypeInv, toStub # << >>, toStub' = Tail(toStub)
  PROVE  /\ CommandsShift
         /\ IsPacket(Head(toStub)) <=> 1 \in CommandsAt
         /\ Head(toStub) = toStub[1]
<1>1. /\ \A i \in CommandsAt' : /\ i + 1 \in CommandsAt /\ i \in Nat \ {0}
                                /\ toStub'[i] = toStub[i + 1]
      /\ \A i \in CommandsAt : i \in Nat \ {0}
      /\ IsPacket(Head(toStub)) <=> 1 \in CommandsAt
      /\ Head(toStub) = toStub[1]
  BY StubReads DEF CommandsAt
<1>2. ASSUME NEW i \in CommandsAt, i # 1
      PROVE  i - 1 \in CommandsAt' /\ i - 1 \in Nat /\ toStub'[i - 1] = toStub[i]
  <2>1. i \in DOMAIN toStub /\ i \in Nat \ {0} /\ IsPacket(toStub[i])
    BY <1>1 DEF CommandsAt
  <2>2. i - 1 \in DOMAIN toStub' /\ (i - 1) + 1 = i /\ i - 1 \in Nat
    BY <1>2, <2>1, StubReads
  <2>3. toStub'[i - 1] = toStub[i]
    <3>1. toStub'[i - 1] = toStub[(i - 1) + 1]
      BY <2>2, StubReads
    <3>2. QED BY <2>2, <3>1
  <2>4. QED BY <2>1, <2>2, <2>3 DEF CommandsAt
<1>3. QED BY <1>1, <1>2 DEF CommandsShift

\* A command that is sent is behind all others.
LEMMA CommandAdded ==
  ASSUME TypeInv, NEW e \in Commands, GdbSends(<<e>>)
  PROVE  /\ CommandsAt \subseteq Nat
         /\ stub = "exited" => toStub' = toStub
         /\ stub # "exited" =>
              \E n \in Nat \ {0} :
                  /\ CommandsAt' = CommandsAt \cup {n} /\ toStub'[n] = e
                  /\ \A i \in CommandsAt : i < n /\ toStub'[i] = toStub[i]
<1>1. e \in UnitsToStub /\ IsPacket(e)
  BY DEF UnitsToStub, Commands, IsPacket
<1>2. CASE stub = "exited"
  BY <1>1, <1>2, GdbWrites DEF CommandsAt
<1>3. CASE stub # "exited"
  <2>1. PICK n \in Nat \ {0} :
            /\ DOMAIN toStub' = DOMAIN toStub \cup {n} /\ toStub'[n] = e
            /\ \A i \in DOMAIN toStub : i < n /\ toStub'[i] = toStub[i]
    BY <1>1, <1>3, GdbWrites
  <2>2. DOMAIN toStub \subseteq Nat
    BY <1>1, GdbWrites
  <2>3. CommandsAt' = CommandsAt \cup {n}
    BY <1>1, <2>1, <2>2 DEF CommandsAt
  <2>4. QED BY <1>3, <2>1, <2>2, <2>3 DEF CommandsAt
<1>4. QED BY <1>2, <1>3

\* The numbers of commands are numbers.
LEMMA CommandIds ==
  ASSUME TypeInv
  PROVE  /\ \A i \in CommandsAt : toStub[i] \in Commands /\ toStub[i].id \in Nat
         /\ sent.id \in Nat /\ LastTaken \in Nat
<1>1. MaxCommands \in Nat
  BY BoundsAssumption
<1>2. \A i \in CommandsAt : toStub[i] \in Commands
  BY UnitKinds DEF CommandsAt
<1>3. \A c \in Commands : c.id \in Nat
  BY <1>1 DEF Commands
<1>4. QED BY <1>1, <1>2, <1>3, SentNumber, LastTakenType

\* At first there is no command.
LEMMA OrderedInit == Init => Ordered /\ CoveredInv
BY DEF Init, Ordered, CoveredInv, Covered, CommandsAt, LastTaken, NoCommand, Command, IsPacket, Ack

\* Steps that leave the commands on the way as they are.
LEMMA OrderedFrame ==
  ASSUME TypeInv, Ordered, CoveredInv,
         CommandsAt' = CommandsAt, \A i \in CommandsAt : toStub'[i] = toStub[i],
         UNCHANGED <<taken, sent>>, gdb' = gdb \/ (gdb # "closed"),
         stub # "exited" \/ stub' = stub, budget'.damaged = budget.damaged
  PROVE  Ordered' /\ CoveredInv'
BY DEF Ordered, CoveredInv, Covered, LastTaken, Undamaged

\* GDB sends a command that is not older than the last one.
LEMMA OrderedCommand ==
  ASSUME TypeInv, Ordered, CoveredInv, GdbSends(<<sent'>>), sent' \in Commands, sent'.good,
         sent'.id \in {sent.id, sent.id + 1}, gdb # "closed",
         UNCHANGED <<taken, stub>>, budget'.damaged = budget.damaged
  PROVE  Ordered' /\ CoveredInv'
<1>1. LastTaken' = LastTaken
  BY DEF LastTaken
<1>2. CASE stub = "exited"
  <2>1. CommandsAt' = CommandsAt /\ \A i \in CommandsAt : toStub'[i] = toStub[i]
    BY <1>2, CommandAdded DEF CommandsAt
  <2>2. QED BY <1>1, <1>2, <2>1, CommandIds DEF Ordered, CoveredInv
<1>3. CASE stub # "exited"
  <2>1. PICK n \in Nat \ {0} :
                  /\ CommandsAt' = CommandsAt \cup {n} /\ toStub'[n] = sent'
                  /\ \A i \in CommandsAt : i < n /\ toStub'[i] = toStub[i]
    BY <1>3, CommandAdded
  <2>2. CommandsAt \subseteq Nat
    BY CommandAdded
  <2>3. Ordered'
    BY <1>1, <2>1, <2>2, CommandIds DEF Ordered
  <2>4. ASSUME Undamaged' PROVE Covered'
    <3>1. Covered
      BY <1>3, <2>4 DEF Undamaged, CoveredInv
    <3>2. \A i \in CommandsAt' : toStub'[i].good
      BY <2>1, <3>1 DEF Covered
    <3>3. \A m \in (LastTaken + 1)..sent'.id :
             \E i \in CommandsAt' : i <= n /\ toStub'[i].id = m
      <4> TAKE m \in (LastTaken + 1)..sent'.id
      <4>1. CASE m = sent'.id
        BY <2>1, <4>1
      <4>2. CASE m \in (LastTaken + 1)..sent.id
        <5>1. PICK i \in CommandsAt : toStub[i].id = m
          BY <3>1, <4>2 DEF Covered
        <5>2. QED BY <2>1, <2>2, <5>1
      <4>3. QED BY <4>1, <4>2, CommandIds
    <3>4. ASSUME NEW j \in CommandsAt, NEW m \in (LastTaken + 1)..toStub[j].id
          PROVE  \E i \in CommandsAt' : i <= j /\ toStub'[i].id = m
      BY <2>1, <3>1 DEF Covered
    <3>5. QED BY <1>1, <2>1, <3>2, <3>3, <3>4 DEF Covered
  <2>5. QED BY <2>3, <2>4 DEF CoveredInv
<1>4. QED BY <1>2, <1>3

\* The stub drops the unit at the head, which is no command, or takes a command
\* it refuses, or leaves.
LEMMA OrderedHeard ==
  ASSUME TypeInv, Ordered, CoveredInv, CommandsShift,
         UNCHANGED <<taken, sent, gdb>>, stub # "exited", budget' = budget,
         1 \notin CommandsAt \/ ~Undamaged \/ stub' = "exited"
  PROVE  Ordered' /\ CoveredInv'
<1> USE DEF CommandsShift
<1>1. LastTaken' = LastTaken
  BY DEF LastTaken
<1>2. Ordered'
  BY <1>1 DEF Ordered
<1>3. ASSUME Undamaged', stub' # "exited"
      PROVE  Covered'
  <2>1. Covered /\ 1 \notin CommandsAt
    BY <1>3 DEF CoveredInv, Undamaged
  <2>2. \A i \in CommandsAt : i \in Nat /\ i - 1 \in CommandsAt' /\ toStub'[i - 1] = toStub[i]
    BY <2>1
  <2>3. ASSUME NEW j \in CommandsAt', NEW n \in (LastTaken + 1)..toStub'[j].id
        PROVE  \E i \in CommandsAt' : i <= j /\ toStub'[i].id = n
    <3>1. PICK i \in CommandsAt : i <= j + 1 /\ toStub[i].id = n
      BY <2>1 DEF Covered
    <3>2. i - 1 \in CommandsAt' /\ i - 1 <= j /\ toStub'[i - 1].id = n
      BY <2>2, <3>1
    <3>3. QED BY <3>2
  <2>4. ASSUME gdb # "closed", NEW n \in (LastTaken + 1)..sent.id
        PROVE  \E i \in CommandsAt' : toStub'[i].id = n
    BY <2>1, <2>2, <2>4 DEF Covered
  <2>5. \A i \in CommandsAt' : toStub'[i].good
    BY <2>1 DEF Covered
  <2>6. QED BY <1>1, <2>3, <2>4, <2>5 DEF Covered
<1>4. QED BY <1>2, <1>3 DEF CoveredInv

\* The stub takes the command at the head.
LEMMA OrderedTaken ==
  ASSUME TypeInv, Ordered, CoveredInv, CommandsShift, 1 \in CommandsAt,
         taken' = Append(taken, toStub[1].id),
         UNCHANGED <<sent, gdb>>, stub # "exited", budget' = budget
  PROVE  Ordered' /\ CoveredInv' /\ (Undamaged => toStub[1].id <= LastTaken + 1)
<1> USE DEF CommandsShift
<1>2. LastTaken' = toStub[1].id /\ toStub[1].id \in Nat /\ LastTaken <= toStub[1].id
      /\ toStub[1].id <= sent.id
  BY LastAppended, CommandIds DEF Ordered
<1>4. Ordered'
  <2>1. ASSUME NEW i \in CommandsAt'
        PROVE  toStub[1].id <= toStub'[i].id /\ toStub'[i].id <= sent.id
    <3>1. i + 1 \in CommandsAt /\ 1 < i + 1 /\ toStub'[i] = toStub[i + 1]
      OBVIOUS
    <3>2. QED BY <3>1 DEF Ordered
  <2>2. QED BY <1>2, <2>1 DEF Ordered
<1>5. ASSUME Undamaged
      PROVE  Covered' /\ toStub[1].id <= LastTaken + 1
  <2>1. Covered
    BY <1>5 DEF CoveredInv
  <2>2. toStub[1].id <= LastTaken + 1
    <3>1. CASE toStub[1].id > LastTaken + 1
      <4>1. LastTaken + 1 \in (LastTaken + 1)..toStub[1].id
        BY <1>2, <3>1, CommandIds
      <4>2. PICK i \in CommandsAt : i <= 1 /\ toStub[i].id = LastTaken + 1
        BY <2>1, <4>1 DEF Covered
      <4>3. i = 1
        BY <4>2
      <4>4. QED BY <3>1, <4>2, <4>3, <1>2, CommandIds
    <3>2. QED BY <1>2, <3>1, CommandIds
  <2>4. ASSUME NEW j \in CommandsAt', NEW n \in (toStub[1].id + 1)..toStub'[j].id
        PROVE  \E i \in CommandsAt' : i <= j /\ toStub'[i].id = n
    <3>1. n \in (LastTaken + 1)..toStub[j + 1].id
      BY <1>2, CommandIds
    <3>2. PICK i \in CommandsAt : i <= j + 1 /\ toStub[i].id = n
      BY <2>1, <3>1 DEF Covered
    <3>3. i # 1
      BY <1>2, <3>2
    <3>4. i - 1 \in CommandsAt' /\ i - 1 <= j /\ toStub'[i - 1].id = n
      BY <3>2, <3>3
    <3>5. QED BY <3>4
  <2>5. ASSUME gdb # "closed", NEW n \in (toStub[1].id + 1)..sent.id
        PROVE  \E i \in CommandsAt' : toStub'[i].id = n
    <3>1. n \in (LastTaken + 1)..sent.id
      BY <1>2, CommandIds
    <3>2. PICK i \in CommandsAt : toStub[i].id = n
      BY <2>1, <2>5, <3>1 DEF Covered
    <3>3. i # 1
      BY <1>2, <3>2
    <3>4. QED BY <3>2, <3>3
  <2>6. \A i \in CommandsAt' : toStub'[i].good
    BY <2>1 DEF Covered
  <2>7. QED BY <1>2, <2>2, <2>4, <2>5, <2>6 DEF Covered
<1>6. QED BY <1>4, <1>5 DEF CoveredInv, Undamaged

\* A step of the stub keeps the order.
LEMMA OrderedStub ==
  ASSUME TypeInv, Ordered, CoveredInv, StubNext
  PROVE  Ordered' /\ CoveredInv'
<1> USE DEF gdbVars, stubVars, Heard
<1>1. CASE ReceiveAck
  <2>1. CommandsShift /\ (1 \notin CommandsAt \/ stub' = "exited")
    BY <1>1, NotPackets, CommandsRead DEF ReceiveAck, Acks
  <2>2. QED BY <1>1, <2>1, OrderedHeard DEF ReceiveAck
<1>2. CASE SkipToPacket
  <2>1. CommandsShift /\ 1 \notin CommandsAt
    BY <1>2, CommandsRead DEF SkipToPacket
  <2>2. QED BY <1>2, <2>1, OrderedHeard DEF SkipToPacket
<1>3. CASE ReceivePacket
  <2>1. CommandsShift /\ 1 \in CommandsAt /\ Head(toStub) = toStub[1]
    BY <1>3, CommandsRead DEF ReceivePacket
  <2>2. QED BY <1>3, <2>1, OrderedTaken DEF ReceivePacket
<1>4. CASE RefusePacket
  <2>1. CommandsShift /\ 1 \in CommandsAt /\ ~toStub[1].good
    BY <1>4, CommandsRead DEF RefusePacket
  <2>2. ~Undamaged
    BY <1>4, <2>1 DEF RefusePacket, CoveredInv, Covered
  <2>3. QED BY <1>4, <2>1, <2>2, OrderedHeard DEF RefusePacket
<1>5. ASSUME UNCHANGED <<toStub, taken, sent, gdb, budget>>, stub # "exited"
      PROVE  Ordered' /\ CoveredInv'
  BY <1>5, OrderedFrame DEF CommandsAt
<1>6. QED
  BY <1>1, <1>2, <1>3, <1>4, <1>5
     DEF StubNext, SendSignal, AckEndOfInput, PacketEndOfInput, ExecuteQuery, ExecuteTerminated,
         ExecuteSilent, ExecuteStop, Executes

\* A step of GDB keeps the order: it sends the next command, or the last again.
LEMMA OrderedGdb ==
  ASSUME TypeInv, Ordered, CoveredInv, GdbNext
  PROVE  Ordered' /\ CoveredInv'
<1> USE DEF gdbVars, stubVars, GdbHears
<1>0. budget'.damaged = budget.damaged
  BY Spent DEF GdbNext, GdbReceives, SendCommand, AcceptAck, AcceptNack, DropPacket, Resend,
       SkipToReply, AcceptReply, RefuseReply, NoticeExit, SendInterrupt, GiveUpReply, Disconnect,
       TypeInv, TypeOK, Budgets
<1>1. ASSUME NEW request \in Requests, SendCommand(request)
      PROVE  Ordered' /\ CoveredInv'
  <2>1. sent' \in Commands /\ sent'.good /\ sent'.id = sent.id + 1
    <3>1. sent'.id \in 1..MaxCommands
      BY <1>1, NextNumber
    <3>2. QED BY <1>1, <3>1 DEF SendCommand, Command, Commands
  <2>2. QED BY <1>0, <1>1, <2>1, OrderedCommand DEF SendCommand
<1>2. CASE AcceptNack \/ Resend
  <2>1. sent' = sent /\ sent \in Commands /\ sent.good /\ gdb # "closed" /\ GdbSends(<<sent'>>)
        /\ UNCHANGED <<taken, stub>>
    BY <1>2 DEF AcceptNack, Resend, TypeInv, GdbSends
  <2>2. QED BY <1>0, <2>1, OrderedCommand
<1>3. CASE AcceptAck \/ SkipToReply \/ NoticeExit
  BY <1>0, <1>3, OrderedFrame DEF AcceptAck, SkipToReply, NoticeExit, CommandsAt
<1>4. CASE DropPacket \/ AcceptReply \/ RefuseReply \/ GiveUpReply \/ SendInterrupt
  <2>1. CommandsAt' = CommandsAt /\ \A i \in CommandsAt : toStub'[i] = toStub[i]
    BY <1>4, MarkSent DEF DropPacket, AcceptReply, RefuseReply, GiveUpReply, SendInterrupt
  <2>2. QED
    BY <1>0, <1>4, <2>1, OrderedFrame
       DEF DropPacket, AcceptReply, RefuseReply, GiveUpReply, SendInterrupt
<1>5. CASE Disconnect
  <2>1. gdb' = "closed" /\ LastTaken' = LastTaken /\ UNCHANGED <<sent, stub>>
    BY <1>5 DEF Disconnect, LastTaken
  <2>2. PICK m \in 0..Len(toStub) : toStub' = SubSeq(toStub, 1, m)
    BY <1>5 DEF Disconnect
  <2>3. /\ CommandsAt' \subseteq CommandsAt /\ \A i \in CommandsAt' : toStub'[i] = toStub[i]
        /\ CommandsAt \subseteq Nat
        /\ \A i \in CommandsAt, j \in CommandsAt' : i <= j => i \in CommandsAt'
    BY <2>2, PrefixIs DEF CommandsAt, TypeInv, TypeOK
  <2>4. Ordered'
    BY <2>1, <2>3 DEF Ordered
  <2>5. ASSUME Covered PROVE Covered'
    <3>1. ASSUME NEW j \in CommandsAt', NEW n \in (LastTaken + 1)..toStub'[j].id
          PROVE  \E i \in CommandsAt' : i <= j /\ toStub'[i].id = n
      <4>1. PICK i \in CommandsAt : i <= j /\ toStub[i].id = n
        <5>1. j \in CommandsAt /\ toStub'[j] = toStub[j]
          BY Zenon, <2>3
        <5>2. n \in (LastTaken + 1)..toStub[j].id
          BY Zenon, <5>1
        <5>3. QED BY Zenon, <2>5, <5>1, <5>2 DEF Covered
      <4>2. QED BY Zenon, <2>3, <4>1
    <3>2. QED BY <2>1, <2>3, <2>5, <3>1 DEF Covered
  <2>6. QED BY <1>0, <2>1, <2>4, <2>5 DEF CoveredInv, Undamaged
<1>6. QED
  BY <1>1, <1>2, <1>3, <1>4, <1>5 DEF GdbNext, GdbReceives

\* Damage keeps the order.
LEMMA OrderedDamage ==
  ASSUME TypeInv, Ordered, CoveredInv, Damage
  PROVE  Ordered' /\ CoveredInv'
<1>1. Ordered'
  BY DamageFrame DEF Ordered, LastTaken
<1>2. ~Undamaged'
  BY Spent, BoundsAssumption DEF Damage, Undamaged, TypeInv, TypeOK, Budgets
<1>3. QED BY <1>1, <1>2 DEF CoveredInv

\* Every step keeps the order.
LEMMA OrderedNext == TypeInv /\ Ordered /\ CoveredInv /\ [Next]_vars => Ordered' /\ CoveredInv'
<1> SUFFICES ASSUME TypeInv, Ordered, CoveredInv, [Next]_vars
             PROVE  Ordered' /\ CoveredInv'
  OBVIOUS
<1>1. CASE UNCHANGED vars
  BY <1>1, OrderedFrame DEF vars, stubVars, gdbVars, CommandsAt
<1>2. QED BY <1>1, OrderedStub, OrderedGdb, OrderedDamage DEF Next, Ended

\* What was repeated, damaged or disturbed once stays so.
LEMMA BudgetFalls ==
  ASSUME TypeInv, [Next]_vars
  PROVE  /\ Repeated => Repeated'
         /\ ~Undamaged => ~Undamaged'
         /\ Disturbed => Disturbed'
<1>1. CASE budget' = budget
  BY <1>1 DEF Repeated, Undamaged, Disturbed
<1>2. CASE \E what \in {"damaged", "interrupts", "resends", "giveUps"} : Spend(what)
  <2>1. PICK what \in {"damaged", "interrupts", "resends", "giveUps"} : Spend(what)
    BY <1>2
  <2>2. /\ budget[what] > 0 /\ budget'[what] = budget[what] - 1
        /\ \A w \in {"damaged", "interrupts", "resends", "giveUps"} :
               w # what => budget'[w] = budget[w]
    BY <2>1, Spent DEF TypeInv, TypeOK, Budgets
  <2>3. {budget.damaged, budget.interrupts, budget.resends, budget.giveUps} \subseteq Nat
        /\ budget.damaged <= MaxDamaged
    BY BoundsAssumption DEF TypeInv, TypeOK
  <2>4. QED BY <2>2, <2>3, BoundsAssumption DEF Repeated, Undamaged, Disturbed
<1>3. QED
  BY <1>1, <1>2
     DEF Next, StubNext, SendSignal, ReceiveAck, AckEndOfInput, SkipToPacket, ReceivePacket,
         RefusePacket, PacketEndOfInput, ExecuteQuery, ExecuteTerminated, ExecuteSilent,
         ExecuteStop, Executes,
         GdbNext, GdbReceives, SendCommand, AcceptAck, AcceptNack, DropPacket, Resend,
         SkipToReply, AcceptReply, RefuseReply, NoticeExit, SendInterrupt, GiveUpReply,
         Disconnect, Damage, Ended, vars

\* A step that takes no command keeps the record.
LEMMA TakenKept ==
  ASSUME TypeInv, [Next]_vars, TakenInOrder, taken' = taken
  PROVE  TakenInOrder'
<1>1. budget.damaged <= MaxDamaged /\ budget'.damaged <= MaxDamaged
      /\ budget.damaged \in Nat /\ budget'.damaged \in Nat
  BY NextType, BoundsAssumption DEF TypeInv, TypeOK
<1>2. budget.damaged < MaxDamaged => budget'.damaged < MaxDamaged
  BY <1>1, BudgetFalls, BoundsAssumption DEF Undamaged
<1>3. QED BY <1>2, BudgetFalls DEF TakenInOrder

\* A command that is taken fits the record, for it is not older than the last,
\* newer when nothing is repeated, and then, or without damage, the next one.
LEMMA TakenNext ==
  TypeInv /\ ConservedInv /\ Ordered /\ CoveredInv /\ TakenInOrder /\ [Next]_vars => TakenInOrder'
<1> SUFFICES ASSUME TypeInv, ConservedInv, Ordered, CoveredInv, TakenInOrder, [Next]_vars
             PROVE  TakenInOrder'
  OBVIOUS
<1>1. CASE ReceivePacket
  <2> DEFINE n == toStub[1].id
  <2>1. /\ CommandsShift /\ 1 \in CommandsAt /\ taken' = Append(taken, n)
        /\ budget' = budget /\ stub # "exited" /\ UNCHANGED <<sent, gdb>>
    BY <1>1, CommandsRead DEF ReceivePacket, Heard, gdbVars
  <2>2. n >= LastTaken /\ n \in Nat /\ LastTaken \in Nat
    BY <2>1, CommandIds DEF Ordered
  <2>3. ~Repeated => n = LastTaken + 1
    BY <2>1 DEF ConservedInv, Conserved, Counted
  <2>4. Undamaged => n <= LastTaken + 1
    BY <2>1, OrderedTaken
  <2>5. budget.damaged <= MaxDamaged /\ budget.damaged \in Nat /\ taken \in Seq(1..MaxCommands)
    BY BoundsAssumption DEF TypeInv, TypeOK
  <2>6. /\ n = LastTaken => Repeated
        /\ n > LastTaken + 1 => Repeated /\ budget.damaged < MaxDamaged
    BY <2>2, <2>3, <2>4, <2>5, BoundsAssumption DEF Undamaged
  <2> DEFINE l == Len(taken)
  <2>7. /\ l \in Nat /\ DOMAIN taken = 1..l /\ DOMAIN taken' = 1..(l + 1)
        /\ \A i \in 1..l : taken'[i] = taken[i]
        /\ taken'[l + 1] = n
    <3>1. n \in 1..MaxCommands
      BY <2>1, CommandIds DEF Commands
    <3> HIDE DEF n
    <3>2. QED BY <2>1, <2>5, <3>1
  <2>8. LastTaken = IF l = 0 THEN 0 ELSE taken[l]
    BY <2>5 DEF LastTaken
  <2> HIDE DEF n, l
  <2>9. ASSUME NEW i \in 1..(l + 1)
        PROVE  LET last == IF i = 1 THEN 0 ELSE taken'[i - 1]
               IN  /\ taken'[i] >= last
                   /\ taken'[i] = last => Repeated
                   /\ taken'[i] > last + 1 => Repeated /\ budget.damaged < MaxDamaged
    <3>1. CASE i = l + 1
      <4>1. (IF i = 1 THEN 0 ELSE taken'[i - 1]) = LastTaken
        BY <2>7, <2>8, <3>1
      <4>2. taken'[i] = n
        BY <2>7, <3>1
      <4>3. QED BY <2>2, <2>6, <4>1, <4>2
    <3>2. CASE i \in 1..l
      <4>1. (IF i = 1 THEN 0 ELSE taken'[i - 1]) = (IF i = 1 THEN 0 ELSE taken[i - 1])
        BY <2>7, <3>2
      <4>2. QED BY <2>7, <3>2, <4>1 DEF TakenInOrder
    <3>3. QED BY <2>7, <3>1, <3>2
  <2>10. QED BY <2>1, <2>7, <2>9 DEF TakenInOrder, Repeated
<1>2. CASE ~ReceivePacket
  <2>1. taken' = taken
    BY <1>2
     DEF Next, StubNext, SendSignal, ReceiveAck, AckEndOfInput, SkipToPacket,
         RefusePacket, PacketEndOfInput, ExecuteQuery, ExecuteTerminated, ExecuteSilent,
         ExecuteStop, Executes,
         GdbNext, GdbReceives, SendCommand, AcceptAck, AcceptNack, DropPacket, Resend,
         SkipToReply, AcceptReply, RefuseReply, NoticeExit, SendInterrupt, GiveUpReply,
         Disconnect, Damage, Ended, vars, stubVars
  <2>2. QED BY <2>1, TakenKept
<1>3. QED BY <1>1, <1>2

\* At first none is taken.
LEMMA TakenInit == Init => TakenInOrder
BY DEF Init, TakenInOrder

\* The stub takes commands in order, each once as long as GDB sends none
\* again, and leaves one out only when it was sent again and something was
\* damaged (dbg_recv_packet).
THEOREM CommandsInOrder == Spec => []TakenInOrder
BY InitType, NextType, ConservedInit, ConservedNext, OrderedInit, OrderedNext, TakenInit, TakenNext,
   PTL DEF Spec

\* The stub will send a reply, or waits for the mark of one.
Busy == stub \in {"signal", "signalAck", "replyAck"}
        \/ (stub = "execute" /\ Replied(command.request))

\* An undisturbed conversation: only good packets and acknowledgments on the
\* way, no command before the mark of a reply, the stub still there.
Calm ==
    /\ \A i \in DOMAIN toStub : toStub[i] = Ack \/ (IsPacket(toStub[i]) /\ toStub[i].good)
    /\ \A i \in MarksAt : toGdb[i] = Ack
    /\ \A i \in RepliesAt : toGdb[i].good
    /\ stub # "exited"
    /\ Busy => 1 \notin CommandsAt
    /\ Busy /\ gdb = "idle" => toStub # << >>
    /\ gdb = "waitAck" /\ AcksAt # {} /\ Busy => Replied(sent.request)

\* This holds until something disturbs it or GDB leaves.
CalmInv == ~Disturbed /\ gdb # "closed" => Calm

\* At first the greeting is on the way, which the stub waits for.
LEMMA CalmInit == Init => CalmInv
BY DEF Init, CalmInv, Calm, CommandsAt, RepliesAt, MarksAt, AcksAt, Ack, IsPacket

\* A step of the stub keeps the calm: the mark it waits for is an acknowledgment.
LEMMA CalmStub ==
  ASSUME TypeInv, Conserved, Calm, gdb # "closed", StubNext
  PROVE  Calm'
<1> USE DEF gdbVars, stubVars, Heard, Calm
<1>1. ASSUME NEW body \in Bodies, SendSignal(body) \/ ExecuteQuery(body) \/ ExecuteTerminated(body)
      PROVE  Calm'
  <2>1. AcksAt' = AcksAt /\ MarksAt' = MarksAt
        /\ \A i \in RepliesAt' : (i \in RepliesAt /\ toGdb'[i] = toGdb[i]) \/ toGdb'[i].good
    BY <1>1, ReplySent, StubReply, PacketsAre DEF SendSignal, ExecuteQuery, ExecuteTerminated, Executes
  <2>2. Busy /\ Busy' /\ stub' # "exited"
    BY <1>1 DEF SendSignal, ExecuteQuery, ExecuteTerminated, Executes, Busy, Replied
  <2>3. \A i \in MarksAt' : toGdb'[i] = toGdb[i]
    BY <1>1, ReplySent, StubReply DEF SendSignal, ExecuteQuery, ExecuteTerminated, Executes
  <2>4. UNCHANGED <<toStub, gdb, sent>>
    BY <1>1 DEF SendSignal, ExecuteQuery, ExecuteTerminated, Executes
  <2>5. QED BY <2>1, <2>2, <2>3, <2>4 DEF CommandsAt
<1>2. ASSUME toStub # << >>, toStub' = Tail(toStub)
      PROVE  \A i \in DOMAIN toStub' : toStub'[i] = Ack \/ (IsPacket(toStub'[i]) /\ toStub'[i].good)
  <2>1. \A i \in DOMAIN toStub' : i + 1 \in DOMAIN toStub /\ toStub'[i] = toStub[i + 1]
    BY <1>2, StubReads
  <2>2. QED BY <2>1
<1>3. CASE ReceiveAck
  <2>1. Busy /\ 1 \in DOMAIN toStub /\ Head(toStub) = toStub[1]
    BY <1>3, StubReads DEF ReceiveAck, Busy
  <2>2. Head(toStub) = Ack
    BY <2>1 DEF CommandsAt
  <2>3. stub' = "receive" /\ UNCHANGED <<toGdb, gdb, sent>>
    BY <1>3, <2>2 DEF ReceiveAck, Acks
  <2>4. \A i \in DOMAIN toStub' : toStub'[i] = Ack \/ (IsPacket(toStub'[i]) /\ toStub'[i].good)
    BY <1>2, <1>3 DEF ReceiveAck
  <2>5. QED BY <2>3, <2>4 DEF Busy, MarksAt, RepliesAt
<1>4. CASE SkipToPacket
  <2>1. \A i \in DOMAIN toStub' : toStub'[i] = Ack \/ (IsPacket(toStub'[i]) /\ toStub'[i].good)
    BY <1>2, <1>4 DEF SkipToPacket
  <2>2. QED BY <1>4, <2>1 DEF SkipToPacket, Busy, MarksAt, RepliesAt
<1>5. CASE ReceivePacket
  <2>1. \A i \in DOMAIN toStub' : toStub'[i] = Ack \/ (IsPacket(toStub'[i]) /\ toStub'[i].good)
    BY <1>2, <1>5 DEF ReceivePacket
  <2>2. /\ command'.request = sent.request /\ gdb = "waitAck" /\ CommandsAt' = {}
        /\ stub' \in {"receive", "execute"} /\ UNCHANGED <<gdb, sent>>
    BY <1>5, CommandRead DEF ReceivePacket
  <2>3. /\ \A i \in MarksAt' : toGdb'[i] = Ack
        /\ \A i \in RepliesAt' : toGdb'[i].good
    BY <1>5, CommandRead DEF ReceivePacket
  <2>4. Busy' => Replied(sent'.request)
    BY <2>2 DEF Busy, Replied
  <2>5. QED BY <2>1, <2>2, <2>3, <2>4
<1>6. CASE RefusePacket
  BY <1>6, StubReads, NotPackets DEF RefusePacket
<1>7. CASE AckEndOfInput \/ PacketEndOfInput
  BY <1>7 DEF AckEndOfInput, PacketEndOfInput, EndOfInput
<1>8. CASE ExecuteSilent
  BY <1>8 DEF ExecuteSilent, Executes, Busy, MarksAt, RepliesAt
<1>9. CASE ExecuteStop
  <2>1. Busy
    BY <1>9 DEF ExecuteStop, Executes, Busy, Replied, Resuming
  <2>2. QED
    BY <1>9, <2>1 DEF ExecuteStop, Executes, MarksAt, RepliesAt, AcksAt, CommandsAt
<1>15. QED BY <1>1, <1>3, <1>4, <1>5, <1>6, <1>7, <1>8, <1>9 DEF StubNext

\* An acknowledgment that GDB sends.
LEMMA AckWritten ==
  ASSUME TypeInv, Calm, GdbSends(<<Ack>>)
  PROVE  /\ toStub' # << >> /\ CommandsAt' = CommandsAt
         /\ \A i \in DOMAIN toStub' : toStub'[i] = Ack \/ (IsPacket(toStub'[i]) /\ toStub'[i].good)
<1>1. PICK n \in Nat \ {0} :
          /\ DOMAIN toStub' = DOMAIN toStub \cup {n} /\ toStub'[n] = Ack
          /\ \A i \in DOMAIN toStub : i < n /\ toStub'[i] = toStub[i]
  BY GdbWrites, NotPackets DEF Calm
<1>2. toStub' # << >>
  BY <1>1
<1>3. QED BY <1>1, <1>2, MarkSent DEF Calm

\* A step of GDB keeps the calm: it acknowledges a reply before it goes on.
LEMMA CalmGdb ==
  ASSUME TypeInv, Conserved, Calm, GdbNext, ~SendInterrupt, ~Resend, gdb' # "closed"
  PROVE  Calm'
<1> USE DEF gdbVars, stubVars, Calm, GdbHears
<1>1. ASSUME NEW request \in Requests, SendCommand(request)
      PROVE  Calm'
  <2>1. /\ gdb = "idle" /\ MarksAt = {} /\ AcksAt' = {}
        /\ toGdb' = toGdb /\ UNCHANGED <<stub, command>>
    BY <1>1, NotPackets DEF SendCommand, MarksAt, RepliesAt, AcksAt, Conserved, OneOnTheWay
  <2>2. sent' \in UnitsToStub /\ IsPacket(sent') /\ sent'.good
    <3>1. sent'.id \in 1..MaxCommands
      BY <1>1, NextNumber
    <3>2. QED BY <1>1, <3>1 DEF SendCommand, Command, Commands, UnitsToStub, IsPacket
  <2>3. PICK n \in Nat \ {0} :
          /\ DOMAIN toStub' = DOMAIN toStub \cup {n} /\ toStub'[n] = sent'
          /\ \A i \in DOMAIN toStub : i < n /\ toStub'[i] = toStub[i]
    BY <1>1, <2>2, GdbWrites DEF SendCommand
  <2>4. Busy => 1 \in DOMAIN toStub
    BY <2>1 DEF TypeInv, TypeOK
  <2>5. Busy' => 1 \notin CommandsAt'
    BY <2>1, <2>3, <2>4 DEF CommandsAt, Busy
  <2>6. \A i \in DOMAIN toStub' : toStub'[i] = Ack \/ (IsPacket(toStub'[i]) /\ toStub'[i].good)
    BY <2>2, <2>3
  <2>7. gdb' = "waitAck"
    BY <1>1 DEF SendCommand
  <2>8. QED BY <2>1, <2>5, <2>6, <2>7 DEF MarksAt, RepliesAt
<1>2. ASSUME toGdb # << >>, toGdb' = Tail(toGdb)
      PROVE  /\ \A i \in MarksAt' : toGdb'[i] = Ack
             /\ \A i \in RepliesAt' : toGdb'[i].good
             /\ AcksAt' # {} => AcksAt # {}
  BY <1>2, ReplyRead
<1>3. CASE AcceptAck
  <2>1. 1 \in AcksAt
    BY <1>3, ReplyRead DEF AcceptAck
  <2>2. gdb' = "idle" => ~Busy
    BY <1>3, <2>1 DEF AcceptAck
  <2>3. gdb' # "waitAck"
    BY <1>3 DEF AcceptAck
  <2>4. QED BY <1>2, <1>3, <2>2, <2>3 DEF AcceptAck, Busy, CommandsAt
<1>4. CASE AcceptNack
  BY <1>4, ReplyRead, NotPackets DEF AcceptNack
<1>5. CASE DropPacket \/ AcceptReply
  <2>1. /\ toGdb # << >> /\ toGdb' = Tail(toGdb) /\ GdbSends(<<Ack>>)
        /\ UNCHANGED <<stub, command, sent>> /\ gdb' \in {gdb, "idle"}
    BY <1>5 DEF DropPacket, AcceptReply
  <2>2. QED BY <1>2, <2>1, AckWritten DEF Busy
<1>6. CASE SkipToReply
  BY <1>2, <1>6 DEF SkipToReply, Busy, CommandsAt
<1>7. CASE RefuseReply
  BY <1>7, ReplyRead DEF RefuseReply
<1>8. CASE GiveUpReply
  <2>1. GdbSends(<<Ack>>) /\ UNCHANGED <<toGdb, stub, command, sent>> /\ gdb' = "idle"
    BY <1>8 DEF GiveUpReply
  <2>2. QED BY <2>1, AckWritten DEF Busy, MarksAt, RepliesAt
<1>9. CASE NoticeExit \/ Disconnect
  BY <1>9 DEF NoticeExit, Disconnect
<1>10. QED
  BY <1>1, <1>3, <1>4, <1>5, <1>6, <1>7, <1>8, <1>9 DEF GdbNext, GdbReceives

\* Every step keeps the calm, until something disturbs it.
LEMMA CalmNext == TypeInv /\ ConservedInv /\ CalmInv /\ [Next]_vars => CalmInv'
<1> SUFFICES ASSUME TypeInv, ConservedInv, CalmInv, [Next]_vars, ~Disturbed', gdb' # "closed"
             PROVE  Calm'
  BY DEF CalmInv
<1>1. ~Disturbed
  BY BudgetFalls
<1>2. gdb # "closed"
  BY DEF Next, StubNext, SendSignal, ReceiveAck, AckEndOfInput, SkipToPacket, ReceivePacket,
         RefusePacket, PacketEndOfInput, ExecuteQuery, ExecuteTerminated, ExecuteSilent,
         ExecuteStop, Executes,
         GdbNext, GdbReceives, SendCommand, AcceptAck, AcceptNack, DropPacket, Resend,
         SkipToReply, AcceptReply, RefuseReply, NoticeExit, SendInterrupt, GiveUpReply,
         Disconnect, Damage, Ended, vars, gdbVars, GdbHears
<1>3. Calm /\ Conserved
  BY <1>1, <1>2 DEF CalmInv, ConservedInv, Disturbed
<1>4. ~SendInterrupt /\ ~Resend /\ ~Damage
  BY Spent, BoundsAssumption
     DEF SendInterrupt, Resend, Damage, TypeInv, TypeOK, Budgets, Disturbed, Repeated
<1>5. CASE UNCHANGED vars
  BY <1>3, <1>5 DEF vars, stubVars, gdbVars, Calm, Busy, CommandsAt, RepliesAt, MarksAt, AcksAt
<1>6. QED BY <1>2, <1>3, <1>4, <1>5, CalmStub, CalmGdb DEF Next, Ended

\* Unless a unit is damaged or GDB sends one the stub does not expect, the
\* stub does not end the session (dbg_recv_ack never sees another character).
THEOREM SessionKept == Spec => []StaysUndisturbed
<1>1. CalmInv => StaysUndisturbed
  BY DEF CalmInv, Calm, StaysUndisturbed, ExitsOnDisconnect
<1>2. QED BY <1>1, InitType, NextType, ConservedInit, ConservedNext, CalmInit, CalmNext, PTL DEF Spec
=============================================================================
