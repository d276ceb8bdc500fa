----------------------------- MODULE RspPacket -----------------------------
(***************************************************************************)
(* The characters of the remote serial protocol (gdbstub.cc): how a packet *)
(* is framed, summed, stored in pkt_buf and taken apart into numbers, and  *)
(* how replies are written over it.  pkt_buf is never cleared, so that a   *)
(* packet has the remains of earlier ones behind it.                       *)
(*                                                                         *)
(* Characters are their codes.  GDB is external: it sends one command at a *)
(* time and acknowledges every packet it is sent.  RspLink has the rest of *)
(* the protocol and takes a packet as one unit.                            *)
(***************************************************************************)
EXTENDS Integers, SequencesExt

CONSTANTS
    BufLen,       \* sizeof(pkt_buf), 512
    DataLen,      \* sizeof(data) in dbg_mem_read, 64
    WordBits,     \* bits of an address
    Memory,       \* the byte at an address
    Registers,    \* the bytes of each register, 0 to the last
    Commands,     \* what GDB sends: [letter, args, tail]
    Garbage,      \* what pkt_buf may hold in the beginning
    MaxSent       \* bound: commands GDB sends

Chars == 0..127     \* ASCII

\* pkt_buf can hold the hexadecimal characters of what data holds, and an
\* address has as many values as a byte or more.
ASSUME BufferAssumption ==
    /\ BufLen \in Nat /\ BufLen >= 4
    /\ DataLen \in Nat /\ 2 * DataLen <= BufLen
    /\ WordBits \in Nat /\ 2^WordBits \in Nat /\ 2^WordBits >= 256
    /\ Garbage \subseteq [0..(BufLen - 1) -> Chars]

\* Memory and registers are bytes.
ASSUME ContentsAssumption ==
    /\ Memory \in [0..(2^WordBits - 1) -> 0..255]
    /\ DOMAIN Registers \subseteq Nat
    /\ \A n \in DOMAIN Registers : Registers[n] \in Seq(0..255)

VARIABLES
    buf,       \* pkt_buf, a character at each of 0..BufLen - 1
    input,     \* characters on the way to the stub
    stub,      \* "receive", "signal", "ack" or "exited", as in RspLink
    sent,      \* history: the commands GDB has sent
    taken,     \* history: what the stub understood of each
    reply      \* the packet the stub has sent last

packetVars == <<buf, input, stub, sent, taken, reply>>

Dollar == 36
Hash   == 35
Plus   == 43
Comma  == 44
Minus  == 45
Colon  == 58
Signal == <<83, 48, 53>>      \* S05
Error0 == <<69, 48, 48>>      \* E00
Error1 == <<69, 48, 49>>      \* E01
EOF    == -1

------------------------------------------------------------------------------
(* Numbers. *)

GetDigit(val) == IF val < 10 THEN 48 + val ELSE 87 + val

DigitOf(ch) ==
    IF ch \in 48..57 THEN ch - 48
    ELSE IF ch \in 97..102 THEN ch - 87
    ELSE IF ch \in 65..70 THEN ch - 55
    ELSE EOF

GetVal(ch, base) == IF DigitOf(ch) < base THEN DigitOf(ch) ELSE EOF

EncHex(bytes) ==
    [k \in 1..(2 * Len(bytes)) |->
        IF k % 2 = 1 THEN GetDigit(bytes[(k + 1) \div 2] \div 16) ELSE GetDigit(bytes[k \div 2] % 16)]

DecHex(high, low) == 16 * GetVal(high, 16) + GetVal(low, 16)

Checksum(data) ==
    LET sum[k \in 0..Len(data)] == IF k = 0 THEN 0 ELSE (sum[k - 1] + data[k]) % 256
    IN  sum[Len(data)]

Framed(data) == <<Dollar>> \o data \o <<Hash>> \o EncHex(<<Checksum(data)>>)

\* dbg_strtol on the characters s: the value, and how many it took; 0 of
\* them when there is no digit.
StrToL(s, base0) ==
    LET signed == s # <<>> /\ s[1] \in {Plus, Minus}
        pos    == IF signed THEN 1 ELSE 0
        hex    == pos + 2 < Len(s) /\ s[pos + 1] = 48 /\ s[pos + 2] \in {120, 88}
        base   == IF hex THEN 16 ELSE base0
        first  == IF hex THEN pos + 3 ELSE pos + 1
        stops  == {k \in first..Len(s) : GetVal(s[k], base) = EOF}
        end    == IF stops = {} THEN Len(s) ELSE (CHOOSE k \in stops : \A j \in stops : k <= j) - 1
        sum[k \in (first - 1)..end] ==
            IF k < first THEN 0 ELSE (sum[k - 1] * base + GetVal(s[k], base)) % 2^WordBits
        value  == sum[end]
    IN  IF end < first THEN [value |-> 0, taken |-> 0]
        ELSE [value |-> IF signed /\ s[1] = Minus THEN (2^WordBits - value) % 2^WordBits ELSE value,
              taken |-> end]

------------------------------------------------------------------------------
(* Taking a packet apart: ptr_next goes over pkt_buf. *)

Overwrite(b, text) == [i \in DOMAIN b |-> IF i < Len(text) THEN text[i + 1] ELSE b[i]]

\* Faulty variant: a number may use the whole buffer.
RemainingOfBuffer(b, next, len) == [k \in 1..(BufLen - next) |-> b[next + k - 1]]

\* token_remaining_buf: behind the end of the packet the subtraction wraps,
\* and the rest of the buffer remains.
Remaining(b, next, len) ==
    [k \in 1..((IF next > len THEN BufLen ELSE len) - next) |-> b[next + k - 1]]

Integer == 0    \* not a separator
ExpectInteger(b, len, p) ==
    LET number == StrToL(Remaining(b, p.next, len), 16)
    IN  IF number.taken = 0 THEN [p EXCEPT !.ok = FALSE]
        ELSE [p EXCEPT !.args = Append(@, number.value), !.next = @ + number.taken]

\* token_expect_seperator looks at pkt_buf, wherever the packet ends.
ExpectSeparator(b, p, ch) ==
    IF p.next \in DOMAIN b /\ b[p.next] = ch THEN [p EXCEPT !.next = @ + 1]
    ELSE [p EXCEPT !.ok = FALSE]

\* What dbg_main expects behind the letter of m, M, X, Z, z and p.
Format(letter) ==
    CASE letter = 109       -> <<Integer, Comma, Integer>>
      [] letter \in {77, 88} -> <<Integer, Comma, Integer, Colon>>
      [] letter \in {90, 122} -> <<Integer, Comma, Integer, Comma, Integer>>
      [] letter = 112       -> <<Integer>>
      [] OTHER              -> <<>>

Expect(b, len, p, token) ==
    IF ~p.ok THEN p
    ELSE IF token = Integer THEN ExpectInteger(b, len, p)
    ELSE ExpectSeparator(b, p, token)

Parse(b, len) ==
    LET parsed[k \in 0..Len(Format(b[0]))] ==
            IF k = 0 THEN [ok |-> TRUE, next |-> 1, args |-> <<>>, letter |-> b[0]]
            ELSE Expect(b, len, parsed[k - 1], Format(b[0])[k])
    IN  parsed[Len(Format(b[0]))]

Understood(p) == [letter |-> p.letter, args |-> p.args]

------------------------------------------------------------------------------
(* Serving it. *)

\* Faulty variant: data behind a refused length is sent.
MemReadAnyway(addr, len) ==
    EncHex([k \in 1..len |-> Memory[(addr + k) % 2^WordBits]])

\* dbg_mem_read with dbg_enc_hex; a length that data or pkt_buf cannot hold
\* is an error.
MemRead(addr, len) ==
    IF len > DataLen \/ 2 * len > BufLen THEN Error0
    ELSE EncHex([k \in 1..len |-> Memory[(addr + k - 1) % 2^WordBits]])

RegisterRead(n) == IF n \in DOMAIN Registers THEN EncHex(Registers[n]) ELSE Error0

ReplyTo(p) ==
    IF ~p.ok THEN Error0
    ELSE CASE p.letter = 109       -> MemRead(p.args[1], p.args[2])
           [] p.letter \in {77, 88} -> Error1
           [] p.letter = 112       -> RegisterRead(p.args[1])
           [] p.letter = 63        -> Signal
           [] p.letter \in {90, 122} -> <<79, 75>>
           [] OTHER                -> <<>>

\* dbg_send_ok_packet and the empty reply leave pkt_buf alone.
UsesBuffer(p) == ~p.ok \/ p.letter \in {109, 77, 88, 112, 63}

PacketInit ==
    /\ buf \in Garbage
    /\ input = <<Plus>>     \* GDB greets with an acknowledgment
    /\ stub = "signal"
    /\ sent = <<>> /\ taken = <<>> /\ reply = <<>>

\* dbg_main begins; GDB acknowledges, also when it waits for something else.
SendSignal ==
    /\ stub = "signal"
    /\ buf' = Overwrite(buf, Signal)
    /\ reply' = Framed(Signal)
    /\ stub' = "ack"
    /\ input' = Append(input, Plus)
    /\ UNCHANGED <<sent, taken>>

ReceiveAck ==
    /\ stub = "ack" /\ input # <<>>
    /\ stub' = IF Head(input) \in {Plus, Minus} THEN "receive" ELSE "exited"
    /\ input' = Tail(input)
    /\ UNCHANGED <<buf, sent, taken, reply>>

Before(chars, ch) == IF ch \in ToSet(chars) THEN SelectInSeq(chars, LAMBDA c : c = ch) - 1
                     ELSE Len(chars)

Fits(data) == Len(data) <= BufLen

SkipToStart ==
    /\ stub = "receive" /\ input # <<>> /\ Head(input) # Dollar
    /\ input' = SubSeq(input, Before(input, Dollar) + 1, Len(input))
    /\ UNCHANGED <<buf, stub, sent, taken, reply>>

\* The characters between $ and #, and those behind the checksum.
Data  == SubSeq(input, 2, Before(input, Hash))
Digits == SubSeq(input, Before(input, Hash) + 2, Before(input, Hash) + 3)
Rest  == SubSeq(input, Before(input, Hash) + 4, Len(input))

Receives == stub = "receive" /\ input # <<>> /\ Head(input) = Dollar /\ UNCHANGED sent

\* A packet longer than pkt_buf is given up in its middle: no acknowledgment,
\* and dbg_main begins again.
Overflow ==
    /\ Receives /\ ~Fits(Data)
    /\ buf' = Overwrite(buf, SubSeq(Data, 1, BufLen))
    /\ input' = SubSeq(input, BufLen + 3, Len(input))
    /\ stub' = "signal"
    /\ UNCHANGED <<taken, reply>>

\* GDB sends a packet again that was refused.  (A checksum that is not two
\* digits, which GDB does not send, is given up without an acknowledgment.)
Refuse ==
    /\ Receives /\ Fits(Data) /\ DecHex(Digits[1], Digits[2]) # Checksum(Data)
    /\ buf' = Overwrite(buf, Data)
    /\ input' = Rest \o Framed(Last(sent).text)
    /\ stub' = "signal"
    /\ UNCHANGED <<taken, reply>>

\* dbg_main serves a packet that was received.  (It passes over an empty one,
\* which RspLink has; the commands here have a letter.)
Execute ==
    /\ Receives /\ Fits(Data) /\ DecHex(Digits[1], Digits[2]) = Checksum(Data)
    /\ LET b == Overwrite(buf, Data)
           p == Parse(b, Len(Data))
       IN  /\ taken' = Append(taken, Understood(p))
           /\ reply' = Framed(ReplyTo(p))
           /\ buf' = IF UsesBuffer(p) THEN Overwrite(b, ReplyTo(p)) ELSE b
    /\ input' = Append(Rest, Plus)
    /\ stub' = "ack"

------------------------------------------------------------------------------
(* GDB (external). *)

HexOf(n) == IF n < 16 THEN <<GetDigit(n)>> ELSE <<GetDigit(n \div 16), GetDigit(n % 16)>>

Text(c) ==
    LET upto[k \in 0..Len(c.args)] ==
            IF k = 0 THEN <<c.letter>>
            ELSE upto[k - 1] \o (IF k = 1 THEN <<>> ELSE <<Comma>>) \o HexOf(c.args[k])
    IN  upto[Len(c.args)] \o c.tail

\* GDB sends well-formed commands: the numbers that the stub expects, at the
\* odd places of the format, behind the last of them nothing that could belong
\* to it, and no character of the framing.  A read of memory fits in pkt_buf.
ASSUME CommandsAssumption ==
    \A c \in Commands :
        /\ c.letter \in Chars \ {Dollar, Hash}
        /\ c.args \in Seq(0..255)
        /\ Len(c.args) = (Len(Format(c.letter)) + 1) \div 2
        /\ c.tail \in Seq(Chars \ {Dollar, Hash})
        /\ c.args # <<>> /\ c.tail # <<>> =>
              DigitOf(c.tail[1]) = EOF /\ c.tail[1] \notin {120, 88}
        /\ c.letter \in {77, 88} => c.tail # <<>> /\ c.tail[1] = Colon
        /\ c.letter = 109 => Len(Text(c)) <= BufLen

\* The character at one place may be damaged on the way.
SendCommand(c, place) ==
    /\ stub = "receive" /\ input = <<>>
    /\ Len(sent) < MaxSent
    /\ sent' = Append(sent, [letter |-> c.letter, args |-> c.args, text |-> Text(c)])
    /\ input' = IF place = 0 THEN Framed(Text(c)) ELSE [Framed(Text(c)) EXCEPT ![place + 1] = 55]
    /\ UNCHANGED <<buf, stub, taken, reply>>

PacketNext ==
    \/ SendSignal
    \/ ReceiveAck
    \/ SkipToStart
    \/ Overflow
    \/ Refuse
    \/ Execute
    \/ \E c \in Commands : \E place \in 0..Len(Text(c)) : SendCommand(c, place)

PacketSpec == PacketInit /\ [][PacketNext]_packetVars

------------------------------------------------------------------------------
(* Properties. *)

Idle == stub = "receive" /\ input = <<>>

\* Those of the first n commands that fit in pkt_buf.
Fitting(n) == {k \in 1..n : Len(sent[k].text) <= BufLen}

\* The stub understands the commands that GDB sends, all that fit in pkt_buf
\* and no others, with their numbers, whatever earlier packets and replies
\* have left there (gdbstub.cc:356, 828).
UnderstoodAsSent ==
    Idle => /\ Len(taken) = Cardinality(Fitting(Len(sent)))
            /\ \A k \in Fitting(Len(sent)) :
                  taken[Cardinality(Fitting(k))] =
                      [letter |-> sent[k].letter, args |-> sent[k].args]

\* What GDB finds in a reply.
Body(packet) == SubSeq(packet, 2, Len(packet) - 3)
BytesOf(text) == [k \in 1..(Len(text) \div 2) |-> DecHex(text[2 * k - 1], text[2 * k])]

\* The reply to a read of memory that is not an error holds the bytes at the
\* addresses GDB asked for, and only a read of more than the stub can hold
\* is an error (gdbstub.cc:556).
ReadsAnswered ==
    Idle /\ sent # <<>> /\ Last(sent).letter = 109 =>
        LET addr == Last(sent).args[1]
            len  == Last(sent).args[2]
        IN  /\ reply = Framed(Body(reply))
            /\ IF len <= DataLen
               THEN BytesOf(Body(reply)) = [k \in 1..len |-> Memory[(addr + k - 1) % 2^WordBits]]
               ELSE Body(reply) = Error0
=============================================================================
