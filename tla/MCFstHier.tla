----------------------------- MODULE MCFstHier -----------------------------
EXTENDS FstHier

a == <<"a">>
x == <<"x">>
y == <<"y">>
MCScopes == {a, <<"a", Dot, "b">>}
MCVariables == {[type |-> "reg", len |-> 2, name |-> x],
                [type |-> "real", len |-> 1, name |-> x],
                [type |-> "string", len |-> 1, name |-> y]}
MCFiles == {<<"f">>, <<"f", "\n">>}
MCLists == <<{<<"a", Dot, "x">>, <<"a", Dot, "y">>}, {<<"a", Dot, "a", Dot, "b", Dot, "x">>, <<"a", Dot, "x">>}>>
=============================================================================
