---------------------------- MODULE MCDiscovery ----------------------------
(* Four search nodes in a square, D across from A; B may register itself   *)
(* with A again.  A launches two discoveries, s without limits and t for   *)
(* its neighbours only, and an application of A may end (e).               *)
EXTENDS Discovery

Both(pairs)  == pairs \cup {<<l[2], l[1]>> : l \in pairs}
Square       == Both({<<"A", "B">>, <<"A", "C">>, <<"B", "D">>, <<"C", "D">>})
BUnderA      == {<<"B", "A">>}
OnlyD        == {{"D"}}
FromA        == [s \in Searches |-> "A"]
FarNearFar   == [s \in Searches |-> CASE s = "s" -> 1000 [] s = "t" -> 1 [] s = "e" -> UnlimitedHops]
Minus20      == -20
Anything     == {Overwritten, 1}
=============================================================================
