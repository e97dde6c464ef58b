------------------------------ MODULE MCRouting ------------------------------
(* Targets of up to five characters, the parts ".", ".." and "..." among     *)
(* them, and servers whose locations nest, repeat, and differ in a part's    *)
(* end.                                                                      *)
EXTENDS Routing

MCChar == {"/", ".", "a", "b", "r", "s"}
Strings(n) == UNION {[1 .. k -> {"/", ".", "a", "b"}] : k \in 1 .. n}
MCTargets == {s \in Strings(5) : s[1] = "/"}

Paths == { <<"/">>, <<"/", "a">>, <<"/", "a", "/">>, <<"/", "a", "b">>, <<"/", "a", "/", "b">>,
           <<"/", "/", "b">> }
Loc(p) == [path |-> p, root |-> IF p = <<"/">> THEN <<"r">> ELSE <<"r", "/", "s">>]
LocationLists == {<<>>} \cup {<<Loc(p), Loc(q)>> : p, q \in Paths}
                 \cup {<<Loc(<<"/", "a">>), Loc(p), Loc(<<"/">>)>> : p \in Paths}
Named1 == [names |-> {"n"}, locations |-> <<Loc(<<"/">>)>>]
Named2 == [names |-> {"m", "n"}, locations |-> <<Loc(<<"/", "a">>)>>]
MCServers == {<<[names |-> {}, locations |-> l]>> : l \in LocationLists}
             \cup {<<Named1, Named2>>, <<Named2, Named1>>, <<[Named1 EXCEPT !.names = {}], Named2, Named1>>}
=============================================================================
