--------------------------- MODULE MCPathFollower ---------------------------
(***************************************************************************)
(* The path follower and the index of nav areas that its searches look     *)
(* areas up in, for TLC.  The two share no state, so that a behaviour is   *)
(* one of either; which says of which.                                     *)
(***************************************************************************)
EXTENDS PathFollower, TLC

Symmetry == Permutations(Subjects)

\* Every kind of link, and a chain that is too long:
\* with MaxSegs = 5 four links make one area too many.
Found == { [links |-> c, found |-> TRUE] : c \in
  { <<>>, <<"walk", "drop">>, <<"gap">>, <<"gap", "walk", "drop", "climb">> } }
Missed == { [links |-> c, found |-> FALSE] : c \in { <<"climb">>, <<"ladderUp">>, <<"ladderDown">> } }
AllRoutes == Found \cup Missed

-----------------------------------------------------------------------------
(***************************************************************************)
(* The maps and the questions asked of the index of nav areas.             *)
(***************************************************************************)

\* Two maps: a gapless one whose areas meet in a corner, and one with a storey
\* above the other, an area that many cells share and negative coordinates.
CONSTANTS a1, a2, a3, a4, a5, b1, b2, b3,
          Areas, NoArea, CellSize, Ranges, Counters, MaxCount, Step, Beneath

LOCAL R(x0, y0, x1, y1, z) == [x0 |-> x0, y0 |-> y0, x1 |-> x1, y1 |-> y1, z |-> z]
MeshRect ==
  (a1 :> R(0, 0, 2, 2, 0)) @@ (a2 :> R(2, 0, 4, 2, 0)) @@ (a3 :> R(0, 2, 2, 4, 0)) @@ (a4 :> R(2, 2, 4, 4, 0))
  @@ (a5 :> R(4, 0, 6, 4, 0))
  @@ (b1 :> R(-4, 0, 8, 2, 0)) @@ (b2 :> R(0, -2, 4, 4, 4)) @@ (b3 :> R(6, 4, 8, 6, 0))

LOCAL BothWays(s) == s \cup { <<p[2], p[1]>> : p \in s }
MeshConnected == BothWays({<<a1, a2>>, <<a1, a3>>, <<a2, a4>>, <<a3, a4>>, <<a2, a5>>, <<a4, a5>>})
MeshMaps == {{}, {a1, a2, a3, a4, a5}, {b1, b2, b3}}
MeshSpots == [a \in Areas |-> IF a \in {a1, b1} THEN {a} ELSE {}]
MeshViews == {{}, {a1, b1}, {a4, b2}}

LOCAL At(x, y, z) == [x |-> x, y |-> y, z |-> z]
MeshPoints == {At(1, 1, 1), At(2, 2, 6), At(3, 5, 0), At(7, 3, 0)}
LOCAL E(x0, y0, x1, y1) == [x0 |-> x0, y0 |-> y0, x1 |-> x1, y1 |-> y1, z0 |-> 0, z1 |-> 1]
MeshExtents == {E(0, 0, 3, 3), E(-9, 1, 9, 1)}

VARIABLES which, hooked, game, index, mark, counter, walk, answer
mesh == <<hooked, game, index, mark, counter, walk, answer>>
Mesh == INSTANCE NavMesh WITH
  Rect <- MeshRect, Connected <- MeshConnected, Maps <- MeshMaps, Spots <- MeshSpots,
  Points <- MeshPoints, Extents <- MeshExtents, Views <- MeshViews
ASSUME MeshOK == Mesh!MeshConstantsOK

BothInit == which \in {"path", "mesh"} /\ Init /\ Mesh!Init
BothNext == \/ which = "path" /\ Next /\ UNCHANGED <<which, mesh>>
            \/ which = "mesh" /\ Mesh!Next /\ UNCHANGED <<which, vars>>
BothSpec == BothInit /\ [][BothNext]_<<which, vars, mesh>>

\* The properties of NavMesh, which are stated there.
CollectsAll == Mesh!CollectsAll
NearestFound == Mesh!NearestFound
=============================================================================
