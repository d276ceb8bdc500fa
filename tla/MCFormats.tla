----------------------------- MODULE MCFormats -----------------------------
(* A hierarchy, or a session of packets: while one goes on, the other has *)
(* not begun, so that their states are added and not multiplied.          *)
EXTENDS MCFstHier, RspPacket

MCMemory    == [addr \in 0..255 |-> (7 * addr + 1) % 256]
MCRegisters == [n \in 0..1 |-> <<16 * n, 255>>]

Request(letter, args, tail) == [letter |-> letter, args |-> args, tail |-> tail]
MCCommands ==
    {Request(109, <<addr, len>>, <<>>) : addr \in {0, 255}, len \in {1, 2, 16}}
    \cup {Request(77, <<16, 1>>, <<Colon, 97, 98>>), Request(90, <<0, 254, 2>>, <<>>),
          Request(122, <<1, 16, 4>>, <<>>), Request(112, <<1>>, <<>>), Request(112, <<32>>, <<>>),
          Request(63, <<>>, <<>>)}
    \cup {Request(113, <<>>, [k \in 1..n |-> IF k % 3 = 0 THEN Plus ELSE 97]) : n \in 7..10}

MCGarbage == {[i \in 0..(BufLen - 1) |-> ch] : ch \in {0, Comma, 49}}

\* A hierarchy of more than four records has two scopes in it, entered or left.
Short ==
    Len(hier) > 4 => Cardinality({k \in DOMAIN hier : hier[k].tag \in {"scope", "upscope"}}) >= 2

MCInit == HierInit /\ PacketInit
MCNext == \/ HierNext /\ Short' /\ sent = <<>> /\ stub = "signal" /\ UNCHANGED packetVars
          \/ PacketNext /\ hier = <<>> /\ results = <<>> /\ UNCHANGED hierVars
MCSpec == MCInit /\ [][MCNext]_<<hierVars, packetVars>>
=============================================================================
