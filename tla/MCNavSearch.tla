---------------------------- MODULE MCNavSearch ----------------------------
(***************************************************************************)
(* Searches over a mesh of five areas for TLC: a ring of three, one area   *)
(* before it and one behind it, joined by a ladder as well.                 *)
(***************************************************************************)
EXTENDS NavSearch

CONSTANTS a1, a2, a3, a4, a5

MeshFloor == (a1 :> <<a2, a4>>) @@ (a2 :> <<a1, a3>>) @@ (a3 :> <<a5, a4>>) @@
             (a4 :> <<a3, a2>>) @@ (a5 :> <<a3>>)
MeshClimbs == (a1 :> <<>>) @@ (a2 :> <<>>) @@ (a3 :> <<a1>>) @@ (a4 :> <<>>) @@ (a5 :> <<>>)
MeshPlace == (a1 :> 0) @@ (a2 :> 3) @@ (a3 :> 0) @@ (a4 :> 1) @@ (a5 :> 2)
MeshHeight == (a1 :> 0) @@ (a2 :> 2) @@ (a3 :> 1) @@ (a4 :> 1) @@ (a5 :> 1)
MeshTeams == ("any" :> {}) @@ ("red" :> {a4})

\* Through the ring within a length, to a position past a blocked area, and nowhere.
Path(s, g, p, t, m) == [start |-> s, goal |-> g, pos |-> p, team |-> t, limit |-> m]
SomeRequests == { Path(a1, a5, NoArea, "any", 6), Path(a3, NoArea, a5, "red", 0),
                  Path(a2, a2, NoArea, "any", 0) }
SomeSurveys == { [start |-> a3, limit |-> 0, rise |-> 1], [start |-> a1, limit |-> 2, rise |-> 2] }
SomeOffers == { [parent |-> a2, cost |-> 1, total |-> 1], [parent |-> NoArea, cost |-> 3, total |-> 3] }

AnyCosts == {DeadEnd, NaN}
FirstCosts == {DeadEnd, 1}
=============================================================================
