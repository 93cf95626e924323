---------------------------- MODULE NavGeometry ----------------------------
(***************************************************************************)
(* The geometry of nav areas (sourcesdk/nav_area.cpp) and the walk along a *)
(* line through them (ForAllAreasAlongLine, toolsnav_mesh.h).              *)
(*                                                                         *)
(* An area is a level rectangle.  Coordinates are even integers, so that   *)
(* centres are integers too; x grows to the east and y to the south.       *)
(***************************************************************************)
EXTENDS Integers, Sequences, SequencesExt, FiniteSetsExt

CONSTANTS
  Areas,     \* the areas of all maps
  NoArea,    \* a null pointer
  Rect,      \* area -> [x0, y0, x1, y1, z]: its corners and its height
  Connected  \* pairs of areas with a connection from the first to the second

GeometryOK ==
  /\ IsFiniteSet(Areas) /\ NoArea \notin Areas /\ Connected \subseteq Areas \X Areas
  /\ \A a \in Areas : Rect[a].x0 < Rect[a].x1 /\ Rect[a].y0 < Rect[a].y1

Center(a) == [x |-> (Rect[a].x0 + Rect[a].x1) \div 2, y |-> (Rect[a].y0 + Rect[a].y1) \div 2,
              z |-> Rect[a].z]

Clamp(v, lo, hi) == IF v < lo THEN lo ELSE IF v > hi THEN hi ELSE v
Square(d) == d * d
DistanceSqr(p, q) == Square(p.x - q.x) + Square(p.y - q.y) + Square(p.z - q.z)

\* IsOverlapping of a point, with the border; of an extent, without it.
Over(a, p) == p.x \in Rect[a].x0 .. Rect[a].x1 /\ p.y \in Rect[a].y0 .. Rect[a].y1
\* Extent::IsOverlapping, with the borders and in three dimensions.
Meets(a, e) == /\ e.x0 <= Rect[a].x1 /\ e.x1 >= Rect[a].x0
               /\ e.y0 <= Rect[a].y1 /\ e.y1 >= Rect[a].y0
               /\ e.z0 <= Rect[a].z /\ e.z1 >= Rect[a].z

ClosestPoint(a, p) == [x |-> Clamp(p.x, Rect[a].x0, Rect[a].x1),
                       y |-> Clamp(p.y, Rect[a].y0, Rect[a].y1), z |-> Rect[a].z]

\* GetDistanceSquaredToPoint: height counts only over the area and at its corners.
DistanceSqrTo(a, p) ==
  LET west == Rect[a].x0 - p.x
      east == p.x - Rect[a].x1
      north == Rect[a].y0 - p.y
      south == p.y - Rect[a].y1
      aside == Max({west, east, 0})
      off == Max({north, south, 0})
      up == IF (aside = 0) = (off = 0) THEN Rect[a].z - p.z ELSE 0
  IN Square(aside) + Square(off) + Square(up)

\* ComputePortal: the ends of the opening from a to b along the border, clamped to a.
Portal(a, b, dir) ==
  IF dir \in {"north", "south"}
  THEN [lo |-> Clamp(Max({Rect[a].x0, Rect[b].x0}), Rect[a].x0, Rect[a].x1),
        hi |-> Clamp(Min({Rect[a].x1, Rect[b].x1}), Rect[a].x0, Rect[a].x1)]
  ELSE [lo |-> Clamp(Max({Rect[a].y0, Rect[b].y0}), Rect[a].y0, Rect[a].y1),
        hi |-> Clamp(Min({Rect[a].y1, Rect[b].y1}), Rect[a].y0, Rect[a].y1)]

Directions == {"north", "east", "south", "west"}

\* Does b lie across the border of a in that direction?
Beside(a, b, dir) ==
  /\ CASE dir = "north" -> Rect[b].y1 = Rect[a].y0
       [] dir = "south" -> Rect[b].y0 = Rect[a].y1
       [] dir = "west" -> Rect[b].x1 = Rect[a].x0
       [] dir = "east" -> Rect[b].x0 = Rect[a].x1
  /\ Portal(a, b, dir).lo < Portal(a, b, dir).hi

\* GetAdjacentAreas: the connections in a direction.  Their order is not ours to know.
Adjacent(a, dir) == { b \in Areas : <<a, b>> \in Connected /\ Beside(a, b, dir) }

\* ComputeClosestPointInPortal, along the border: a margin is kept where b ends at an
\* outer edge, unless the opening is too narrow for it; lo + hi is twice the midline.
IsEdge(a, dir) == Adjacent(a, dir) = {}
Margin == 1
InPortal(a, b, dir, v) ==
  LET alongX == dir \in {"north", "south"}
      lo == IF alongX THEN Max({Rect[a].x0, Rect[b].x0}) ELSE Max({Rect[a].y0, Rect[b].y0})
      hi == IF alongX THEN Min({Rect[a].x1, Rect[b].x1}) ELSE Min({Rect[a].y1, Rect[b].y1})
      from == IF IsEdge(b, IF alongX THEN "west" ELSE "north") THEN lo + Margin ELSE lo
      to == IF IsEdge(b, IF alongX THEN "east" ELSE "south") THEN hi - Margin ELSE hi
  IN IF from > to THEN lo + (hi - lo) \div 2 ELSE Clamp(v, from, to)

(***************************************************************************)
(* ForAllAreasAlongLine                                                    *)
(***************************************************************************)
Sign(v) == IF v < 0 THEN -1 ELSE IF v > 0 THEN 1 ELSE 0
Abs(v) == Sign(v) * v

\* Where the line from the centre of s to that of e leaves area a: the edge, and how
\* far along it as a fraction.  The x edges are looked at first.
Exit(a, s, e) ==
  LET p == Center(s)
      dx == Center(e).x - p.x
      dy == Center(e).y - p.y
      ex == (IF dx < 0 THEN Rect[a].x0 ELSE Rect[a].x1) - p.x
      ey == (IF dy < 0 THEN Rect[a].y0 ELSE Rect[a].y1) - p.y
      y == p.y * Abs(dx) + ex * Sign(dx) * dy    \* times Abs(dx)
      x == p.x * Abs(dy) + ey * Sign(dy) * dx    \* times Abs(dy)
      inner(d, total) == 0 < d * Sign(total) /\ d * Sign(total) < Abs(total)
  IN CASE inner(ex, dx) /\ y >= Rect[a].y0 * Abs(dx) /\ y <= Rect[a].y1 * Abs(dx)
            -> [edge |-> IF dx < 0 THEN "west" ELSE "east", num |-> y, den |-> Abs(dx)]
       [] ~(inner(ex, dx) /\ y >= Rect[a].y0 * Abs(dx) /\ y <= Rect[a].y1 * Abs(dx))
          /\ inner(ey, dy) /\ x >= Rect[a].x0 * Abs(dy) /\ x <= Rect[a].x1 * Abs(dy)
            -> [edge |-> IF dy < 0 THEN "north" ELSE "south", num |-> x, den |-> Abs(dy)]
       [] OTHER -> [edge |-> "none", num |-> 0, den |-> 1]

\* On an axis the line always leaves across the edge ahead.
ExitOnAxis(a, s, e) ==
  LET dx == Center(e).x - Center(s).x
      dy == Center(e).y - Center(s).y
  IN IF dx = 0 THEN [edge |-> IF dy < 0 THEN "north" ELSE "south", num |-> Center(s).x, den |-> 1]
     ELSE [edge |-> IF dx < 0 THEN "west" ELSE "east", num |-> Center(s).y, den |-> 1]

\* Does the point of the exit lie on the side of b, its ends included?
TouchesInside(b, x) ==   \* mutant: without the ends
  IF x.edge \in {"north", "south"}
  THEN Rect[b].x0 * x.den < x.num /\ x.num < Rect[b].x1 * x.den
  ELSE Rect[b].y0 * x.den < x.num /\ x.num < Rect[b].y1 * x.den
TouchesAny(b, x) == x.edge # "none"   \* mutant: the first neighbour across the edge
Touches(b, x) ==
  IF x.edge \in {"north", "south"}
  THEN Rect[b].x0 * x.den <= x.num /\ x.num <= Rect[b].x1 * x.den
  ELSE Rect[b].y0 * x.den <= x.num /\ x.num <= Rect[b].y1 * x.den

\* The areas that may be next on the line, and so the walk continues in one of them.
Onward(a, s, e) ==
  LET axis == Center(s).x = Center(e).x \/ Center(s).y = Center(e).y
      x == IF axis THEN ExitOnAxis(a, s, e) ELSE Exit(a, s, e)
  IN IF x.edge = "none" THEN {} ELSE { b \in Adjacent(a, x.edge) : Touches(b, x) }
=============================================================================
