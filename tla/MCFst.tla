------------------------------- MODULE MCFst -------------------------------
EXTENDS FstFile

Bit     == {<<ZeroCh>>, <<XCh>>}
TwoBits == {<<OneCh, ZeroCh>>, <<XCh, OneCh>>}
String  == {<<>>, <<OneCh>>}
MCValues == (0 :> String) @@ (1 :> Bit) @@ (2 :> TwoBits)

\* Two bits, and a vector with a string.
MCShapes == {<<1, 1>>, <<2, 0>>}

\* Three bits, for the table of chains that a block leaves to the next.
ThreeBits == {<<1, 1, 1>>}
OneAndZero == (1 :> {<<ZeroCh>>, <<OneCh>>})

Request(mask, range, use) == [mask |-> mask, range |-> range, use |-> use]
MCRequests == {Request({1, 2}, <<>>, use) : use \in {"changes", "vcd", "lookup"}}
              \cup {Request({1, 2}, <<1, 1>>, "vcd"), Request({2}, <<2, 2>>, "changes")}
AllChanges == {Request({1, 2, 3}, <<>>, "changes")}

\* With two variables a third change only without an extra, a size limit or
\* blackouts.  Dumps with blackouts: an extra only with one variable, and no lookups.
Short ==
    /\ Len(xc.lens) > 1 /\ past.changes > 2 =>
          past.extras = 0 /\ xc.limit = 0 /\ past.blackouts = <<>>
    /\ past.blackouts # <<>> /\ past.extras > 0 => Len(xc.lens) = 1
    /\ past.blackouts # <<>> /\ rd.pc = "open" => rd.use # "lookup"
MCSpec == Init /\ [][Next /\ Short']_vars
=============================================================================
