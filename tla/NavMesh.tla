------------------------------- MODULE NavMesh ------------------------------
(***************************************************************************)
(* The extension's own index of the game's nav areas (toolsnav_mesh.cpp,   *)
(* toolsnav_mesh.h), the hook that fills it (sourcesdk/nav_mesh.cpp) and   *)
(* the queries that plugins make of it (natives/nav.cpp).                  *)
(*                                                                         *)
(* Areas are kept in a grid of cells, one area in every cell it meets.     *)
(* The queries that gather areas mark the ones they have met with a number *)
(* in the area itself; each of the three functions counts its own numbers. *)
(***************************************************************************)
EXTENDS NavGeometry

CONSTANTS
  Maps,       \* the sets of areas that a map may have, the empty one among them
  CellSize,   \* m_gridCellSize
  Spots,      \* area -> its hiding spots
  Points,     \* positions asked about
  Extents,    \* extents asked about
  Ranges,     \* radii and distances asked about, 0 for every area
  Views,      \* the sets of areas that may be blocked for a team or out of sight
  Counters,   \* where the counters may start
  MaxCount,   \* bound: the highest number of a counter
  Step,       \* StepHeight
  Beneath     \* the limit below a position

MeshConstantsOK ==
  /\ GeometryOK
  /\ {} \in Maps /\ \A m \in Maps : m \subseteq Areas
  /\ CellSize \in Nat \ {0} /\ Ranges \subseteq Nat /\ Counters \subseteq Nat \ {0}
  /\ \A a \in Areas : IsFiniteSet(Spots[a])
  /\ MaxCount \in Nat /\ Step \in Nat /\ Beneath \in Nat

Searches == {"extent", "radius", "nearest"}

VARIABLES
  hooked,    \* CNavMesh::Load is detoured, the natives are there
  game,      \* the game's areas, in the order of its list
  index,     \* the extension's index
  mark,      \* area -> m_nearNavSearchMarker
  counter,   \* the searchMarker of each function
  walk,      \* the running walk along a line
  answer     \* the last answer

vars == <<hooked, game, index, mark, counter, walk, answer>>

(***************************************************************************)
(* The index                                                               *)
(***************************************************************************)
Grid(ix) == DOMAIN ix.grid

\* WorldToGridX and WorldToGridY clamp.
Cell(ix, p) == << Clamp((p.x - ix.minX) \div CellSize, 0, ix.sizeX - 1),
                  Clamp((p.y - ix.minY) \div CellSize, 0, ix.sizeY - 1) >>

Corner(x, y) == [x |-> x, y |-> y, z |-> 0]

\* The cells from one position to another: an area is in every cell it meets.
CellsBetween(ix, lo, hi) == { c \in Grid(ix) : \A i \in 1 .. 2 : Cell(ix, lo)[i] <= c[i] /\ c[i] <= Cell(ix, hi)[i] }
CornersOnly(ix, a) ==   \* mutant: only the cells of the corners
  { Cell(ix, Corner(Rect[a].x0, Rect[a].y0)), Cell(ix, Corner(Rect[a].x1, Rect[a].y1)) }
CellsOf(ix, a) == CellsBetween(ix, Corner(Rect[a].x0, Rect[a].y0), Corner(Rect[a].x1, Rect[a].y1))

Empty == [loaded |-> FALSE, areas |-> {}, spots |-> {}, ids |-> {}, grid |-> <<>>,
          minX |-> 0, minY |-> 0, sizeX |-> 0, sizeY |-> 0]

SpotsAppended(ix, all) == ix.spots \cup UNION { Spots[a] : a \in all }   \* mutant: the spots are not cleared
SpotsOf(ix, all) == UNION { Spots[a] : a \in all }

\* Clear, the extent of all areas, AllocateGrid, and AddNavArea of each of them.  The
\* grid's origin and size are not cleared.
Load(ix, list) ==
  LET all == ToSet(list)
      x0 == Min({ Rect[a].x0 : a \in all })
      y0 == Min({ Rect[a].y0 : a \in all })
      w == (Max({ Rect[a].x1 : a \in all }) - x0) \div CellSize + 1
      h == (Max({ Rect[a].y1 : a \in all }) - y0) \div CellSize + 1
      blank == [loaded |-> TRUE, areas |-> all, spots |-> SpotsOf(ix, all), ids |-> all,
                minX |-> x0, minY |-> y0, sizeX |-> w, sizeY |-> h,
                grid |-> [c \in (0 .. w - 1) \X (0 .. h - 1) |-> <<>>]]
  IN IF list = <<>>
     THEN [Empty EXCEPT !.minX = ix.minX, !.minY = ix.minY, !.sizeX = ix.sizeX, !.sizeY = ix.sizeY]
     ELSE [blank EXCEPT !.grid = [c \in DOMAIN blank.grid |->
                                    SelectSeq(list, LAMBDA a : c \in CellsOf(blank, a))]]

(***************************************************************************)
(* The map and the hook                                                    *)
(***************************************************************************)
NoWalk == [at |-> NoArea, from |-> NoArea, to |-> NoArea, seen |-> <<>>]
Origin == [x |-> 0, y |-> 0, z |-> 0]
NoAnswer == [to |-> "none", point |-> Origin, range |-> 0, areas |-> <<>>, able |-> {}, fresh |-> FALSE]

Init ==
  /\ hooked = FALSE /\ game = <<>> /\ index = Empty
  /\ mark = [a \in Areas |-> 0] /\ counter \in [Searches -> Counters]
  /\ walk = NoWalk /\ answer = NoAnswer

Idle == walk = NoWalk

\* CNavMesh::Init finds the game's mesh and detours its Load; when something is
\* missing nothing is hooked.  A map may be running already.
Hook ==
  /\ ~hooked /\ hooked' = TRUE
  /\ index' = Load(index, game)
  /\ UNCHANGED <<game, mark, counter, walk, answer>>

Unhook ==
  /\ hooked /\ Idle /\ hooked' = FALSE
  /\ UNCHANGED <<game, index, mark, counter, walk, answer>>

\* The game loads a map, with new areas, and the index follows if it is hooked.
GameLoad(m) ==
  /\ game = <<>> /\ Idle
  /\ game' = SetToSeq(m) /\ index' = IF hooked THEN Load(index, SetToSeq(m)) ELSE index
  /\ mark' = [a \in Areas |-> 0] /\ answer' = NoAnswer
  /\ UNCHANGED <<hooked, counter, walk>>

\* OnCoreMapEnd does nothing: the index keeps the areas that the game frees, until
\* the next map is loaded.  Plugins are not called in between.
GameUnload ==
  /\ game # <<>> /\ Idle /\ game' = <<>> /\ answer' = NoAnswer
  /\ UNCHANGED <<hooked, index, mark, counter, walk>>

(***************************************************************************)
(* Searches of the grid                                                    *)
(***************************************************************************)
MayAsk == hooked /\ Idle /\ answer = NoAnswer /\ ToSet(game) = index.areas

\* The plugin has the answer.
Take == answer # NoAnswer /\ answer' = NoAnswer /\ UNCHANGED <<hooked, game, index, mark, counter, walk>>

\* The areas of some cells in the order of the loops over x and y.
InOrder(cells) == SelectSeq([i \in 1 .. index.sizeX * index.sizeY |-> << (i - 1) \div index.sizeY, (i - 1) % index.sizeY >>],
                            LAMBDA c : c \in cells)
Met(cells) == FoldLeft(LAMBDA s, c : s \o index.grid[c], <<>>, InOrder(cells))

\* A function counts, and visits each area that does not have the new number yet.
NumberOfAll(fn) == Max({ counter[f] : f \in Searches }) + MaxCount   \* mutant: runs away
Number(fn) == counter[fn] + 1
UnmarkedTwice(fn, s) == SelectSeq(s, LAMBDA a : mark[a] # Number(fn))   \* mutant: visited areas are not marked
Unmarked(fn, s) ==
  FoldLeft(LAMBDA out, a : IF mark[a] = Number(fn) \/ a \in ToSet(out) THEN out ELSE Append(out, a), <<>>, s)

Visit(fn, list) ==
  /\ counter[fn] < MaxCount /\ counter' = [counter EXCEPT ![fn] = Number(fn)]
  /\ mark' = [a \in Areas |-> IF a \in ToSet(list) THEN Number(fn) ELSE mark[a]]

\* No area has the number that the function uses next.
Fresh(fn) == \A a \in index.areas : mark[a] # Number(fn)

Answer(to, point, range, able, list, fresh) ==
  answer' = [to |-> to, point |-> point, range |-> range, able |-> able, areas |-> list, fresh |-> fresh]

NoGrid == index.grid = <<>>

\* ForAllAreasOverlappingExtent for a collector.
Overlapping(e) == Met(CellsBetween(index, Corner(e.x0, e.y0), Corner(e.x1, e.y1)))
CollectOverlapping(e) ==
  LET list == Unmarked("extent", Overlapping(e))
      able == { a \in index.areas : Meets(a, e) }
  IN /\ MayAsk
     /\ IF NoGrid THEN Answer("extent", Origin, 0, {}, <<>>, TRUE) /\ UNCHANGED <<counter, mark>>
        ELSE Visit("extent", list)
             /\ Answer("extent", Origin, 0, able, SelectSeq(list, LAMBDA a : a \in able), Fresh("extent"))
     /\ UNCHANGED <<hooked, game, index, walk>>

\* ForAllAreasInRadius: by the centres; a radius of 0 means all areas.
CellsInRings(o, n) == { c \in Grid(index) : \A i \in 1 .. 2 : c[i] \in o[i] - n .. o[i] + n }
RoundedDown(r) == r \div CellSize   \* mutant: the ring that the radius ends in is left out
RoundedUp(r) == (r + CellSize - 1) \div CellSize
CollectInRadius(p, r) ==
  LET limit == IF r = 0 THEN Max({index.sizeX, index.sizeY}) ELSE RoundedUp(r)
      list == Unmarked("radius", Met(CellsInRings(Cell(index, p), limit)))
      able == { a \in index.areas : r = 0 \/ DistanceSqr(Center(a), p) <= Square(r) }
  IN /\ MayAsk
     /\ IF NoGrid THEN Visit("radius", <<>>) /\ Answer("radius", p, r, {}, <<>>, TRUE)
        ELSE Visit("radius", list)
             /\ Answer("radius", p, r, able, SelectSeq(list, LAMBDA a : a \in able), Fresh("radius"))
     /\ UNCHANGED <<hooked, game, index, walk>>

\* GetNavArea: the highest area under a position that is not too far below it; the
\* code looks from five units higher, which is nothing here.
Under(p) == { a \in ToSet(index.grid[Cell(index, p)]) :
                Over(a, p) /\ Rect[a].z <= p.z /\ Rect[a].z >= p.z - Beneath }
Highest(s) == IF s = {} THEN NoArea ELSE CHOOSE a \in s : \A b \in s : Rect[b].z <= Rect[a].z
NavAreaAt(p) == IF NoGrid THEN NoArea ELSE Highest(Under(p))

GetNavArea(p) ==
  /\ MayAsk
  /\ Answer("at", p, 0, index.areas, <<NavAreaAt(p)>>, TRUE)
  /\ UNCHANGED <<hooked, game, index, mark, counter, walk>>

\* GetNavArea of an entity: the last known area, if the entity still stands in it;
\* else the highest that is not blocked and not above a step, unless the ground
\* below is looked for and hidden.
GetEntityArea(p, last, able, hidden) ==
  LET under == { a \in able : Over(a, p) /\ a \in ToSet(index.grid[Cell(index, p)])
                              /\ Rect[a].z <= p.z + Step /\ Rect[a].z >= p.z - Beneath }
      still == last # NoArea /\ Over(last, p) /\ Abs(Rect[last].z - p.z) <= Step
      use == Highest(under)
  IN /\ MayAsk
     /\ Answer("entity", p, 0, able,
               << CASE NoGrid -> NoArea
                    [] ~NoGrid /\ still -> last
                    [] OTHER -> IF use # NoArea /\ hidden /\ Rect[use].z < p.z - Step THEN NoArea ELSE use >>, TRUE)
     /\ UNCHANGED <<hooked, game, index, mark, counter, walk>>

\* GetNearestNavArea goes outwards in rings of cells, up to the ring after the one in
\* which it last found a nearer area.
Ring(o, n) == CellsInRings(o, n) \ (IF n = 0 THEN {} ELSE CellsInRings(o, n - 1))
GapTo(a, p) == DistanceSqr(ClosestPoint(a, p), p)
SameRing(n) == n   \* mutant: does not look one more step outwards
OneMore(n) == n + 1

Nearest(p, r, able) ==
  LET o == Cell(index, p)
      Look(f, n, a) == IF a \in able /\ GapTo(a, p) < f.best
                       THEN [f EXCEPT !.best = GapTo(a, p), !.area = a, !.limit = OneMore(n), !.met = @ \cup {a}]
                       ELSE [f EXCEPT !.met = @ \cup {a}]
      Turn(f, n) == IF n > f.limit THEN f
                    ELSE FoldLeft(LAMBDA g, a : IF a \in g.met THEN g ELSE Look(g, n, a), f,
                                  Unmarked("nearest", Met(Ring(o, n))))
  IN FoldLeft(Turn, [best |-> Square(r), area |-> NoArea, limit |-> RoundedUp(r), met |-> {}],
              [i \in 1 .. Max({index.sizeX, index.sizeY}) + 1 |-> i - 1])

\* Without checks of sight and ground an area below the position will do.  A check of
\* the ground ends the search when there is none, with a check of sight alone it goes
\* on; areas out of sight are left out.
GetNearestNavArea(p, r, checkLOS, checkGround, ground, able) ==
  LET found == Nearest(p, r, able)
  IN /\ MayAsk
     /\ IF NoGrid \/ (checkGround /\ ~ground)
        THEN Answer("nothing", p, r, able, <<NoArea>>, TRUE) /\ UNCHANGED <<counter, mark>>
        ELSE IF ~checkLOS /\ ~checkGround /\ NavAreaAt(p) # NoArea
        THEN Answer("at", p, r, index.areas, <<NavAreaAt(p)>>, TRUE) /\ UNCHANGED <<counter, mark>>
        ELSE Visit("nearest", SetToSeq(found.met))
             /\ Answer("nearest", p, r, able, <<found.area>>, Fresh("nearest"))
     /\ UNCHANGED <<hooked, game, index, walk>>

\* CNavArea::Contains: an area on or below a position, unless the search of the area's
\* extent finds one in between; it stops there.
UpTo(list, stop) ==
  LET i == SelectInSeq(list, LAMBDA a : a \in stop) IN IF i = 0 THEN list ELSE SubSeq(list, 1, i)
ContainsPoint(a, p) ==
  LET e == [x0 |-> Rect[a].x0, x1 |-> Rect[a].x1, y0 |-> Rect[a].y0, y1 |-> Rect[a].y1,
            z0 |-> Rect[a].z, z1 |-> Rect[a].z]
      between == { b \in index.areas \ {a} : Meets(b, e) /\ Over(b, p) /\ Rect[b].z <= p.z /\ Rect[b].z > Rect[a].z }
      list == Unmarked("extent", Overlapping(e))
  IN /\ MayAsk /\ a \in index.areas
     /\ IF ~Over(a, p) \/ Rect[a].z - Step > p.z
        THEN Answer("contains", p, 0, {a}, <<>>, TRUE) /\ UNCHANGED <<counter, mark>>
        ELSE Visit("extent", UpTo(list, between))
             /\ Answer("contains", p, 0, {a}, IF ToSet(list) \cap between = {} THEN <<a>> ELSE <<>>, Fresh("extent"))
     /\ UNCHANGED <<hooked, game, index, walk>>

\* ForAllAreasAlongLine, an area at a time; areas with the same centre need no walk.
StartWalk(a, b) ==
  /\ MayAsk /\ a \in index.areas /\ b \in index.areas
  /\ walk' = [at |-> a, from |-> a, to |-> b, seen |-> <<a>>]
  /\ answer' = NoAnswer
  /\ UNCHANGED <<hooked, game, index, mark, counter>>

Arrived == walk.at = walk.to \/ (Center(walk.from).x = Center(walk.to).x /\ Center(walk.from).y = Center(walk.to).y)
StepAlong ==
  /\ ~Idle /\ ~Arrived
  /\ \E b \in Onward(walk.at, walk.from, walk.to) :
       walk' = [walk EXCEPT !.at = b, !.seen = Append(@, b)]
  /\ UNCHANGED <<hooked, game, index, mark, counter, answer>>

EndWalk ==
  /\ ~Idle /\ (Arrived \/ Onward(walk.at, walk.from, walk.to) = {})
  /\ Answer(IF Arrived THEN "line" ELSE "broken", Center(walk.from), 0, {walk.to}, walk.seen, TRUE)
  /\ walk' = NoWalk
  /\ UNCHANGED <<hooked, game, index, mark, counter>>

Next ==
  \/ Hook \/ Unhook \/ GameUnload
  \/ \E m \in Maps : GameLoad(m)
  \/ \E e \in Extents : CollectOverlapping(e)
  \/ \E p \in Points :
       \/ GetNavArea(p)
       \/ \E r \in Ranges : \/ CollectInRadius(p, r)
                            \/ r > 0 /\ \E checkLOS, checkGround, ground \in BOOLEAN, view \in Views :
                                 GetNearestNavArea(p, r, checkLOS, checkGround, ground, index.areas \ view)
       \/ \E last \in index.areas \cup {NoArea}, view \in Views, hidden \in BOOLEAN :
            GetEntityArea(p, last, index.areas \ view, hidden)
       \/ \E a \in index.areas : ContainsPoint(a, p)
  \/ \E a, b \in index.areas : StartWalk(a, b)
  \/ StepAlong \/ EndWalk \/ Take

Spec == Init /\ [][Next]_vars

(***************************************************************************)
(* Properties                                                              *)
(***************************************************************************)

\* Every variable has a value of its type.
TypeOK ==
  /\ hooked \in BOOLEAN /\ ToSet(game) \subseteq Areas
  /\ mark \in [Areas -> 0 .. MaxCount] /\ counter \in [Searches -> 0 .. MaxCount]
  /\ walk.at \in Areas \cup {NoArea} /\ ToSet(walk.seen) \subseteq Areas
  /\ ToSet(answer.areas) \subseteq Areas \cup {NoArea} /\ answer.able \subseteq Areas

\* After every load of a map, with or without areas, the index is that of this map and
\* nothing of the one before: areas, ids, hiding spots and grid (toolsnav_mesh.cpp:20).
IndexIsOfMap ==
  hooked /\ game # <<>> =>
    /\ index.loaded /\ index.areas = ToSet(game) /\ index.ids = index.areas
    /\ index.spots = UNION { Spots[a] : a \in index.areas }
    /\ UNION { ToSet(index.grid[c]) : c \in Grid(index) } = index.areas

\* Collecting finds every area that is asked for once, wherever the extent or the
\* circle lies and whatever cells an area is kept in, unless an area already had
\* the number that marks a visit.
CollectsAll ==
  answer.to \in {"extent", "radius"} /\ answer.fresh =>
    ToSet(answer.areas) = answer.able /\ IsInjective(answer.areas)

\* GetNavArea answers with the highest area below the position that its limit allows,
\* of all areas, though it looks into one cell of the grid only.
AtIsHighest ==
  answer.to = "at" =>
    LET below == { a \in index.areas : /\ Over(a, answer.point) /\ Rect[a].z <= answer.point.z
                                       /\ Rect[a].z >= answer.point.z - Beneath }
    IN IF below = {} THEN answer.areas = <<NoArea>>
       ELSE answer.areas[1] \in below /\ \A a \in below : Rect[a].z <= Rect[answer.areas[1]].z

\* GetNearestNavArea answers null only if no area is within the distance; and its
\* answer is the nearest of all areas up to one ring of cells beyond its own: "we
\* must check one more step out" (toolsnav_mesh.cpp:304).
RingOf(a) == Min({ n \in 0 .. index.sizeX + index.sizeY : Ring(Cell(index, answer.point), n) \cap CellsOf(index, a) # {} })
NearestFound ==
  answer.to = "nearest" /\ answer.fresh =>
    LET use == answer.areas[1]
    IN IF use = NoArea THEN \A a \in answer.able : GapTo(a, answer.point) >= Square(answer.range)
       ELSE \A a \in answer.able : RingOf(a) <= RingOf(use) + 1 => GapTo(a, answer.point) >= GapTo(use, answer.point)

\* A walk along a line visits no area twice, so that it ends, and only areas that the
\* line touches.
Side(p, q, x, y) == Sign((q.x - p.x) * (y - p.y) - (q.y - p.y) * (x - p.x))
LineTouches(a, p, q) ==
  /\ Min({p.x, q.x}) <= Rect[a].x1 /\ Max({p.x, q.x}) >= Rect[a].x0
  /\ Min({p.y, q.y}) <= Rect[a].y1 /\ Max({p.y, q.y}) >= Rect[a].y0
  /\ LET sides == { Side(p, q, x, y) : x \in {Rect[a].x0, Rect[a].x1}, y \in {Rect[a].y0, Rect[a].y1} }
     IN 0 \in sides \/ sides = {-1, 1}
WalkOnLine ==
  /\ IsInjective(walk.seen)
  /\ ~Idle => \A i \in DOMAIN walk.seen : LineTouches(walk.seen[i], Center(walk.from), Center(walk.to))

\* The areas of the map fill a rectangle and every two that touch are connected.
Seamless ==
  /\ MapThenSumSet(LAMBDA a : (Rect[a].x1 - Rect[a].x0) * (Rect[a].y1 - Rect[a].y0), index.areas)
             = (Max({ Rect[a].x1 : a \in index.areas }) - Min({ Rect[a].x0 : a \in index.areas }))
               * (Max({ Rect[a].y1 : a \in index.areas }) - Min({ Rect[a].y0 : a \in index.areas }))
  /\ \A a, b \in index.areas : (\E d \in Directions : Beside(a, b, d)) => <<a, b>> \in Connected

\* In a mesh without holes a walk reaches its end, through corners as well.
WalkArrives == answer.to = "broken" => ~Seamless

\* "Return true if given point is on or above this area, but no others"
\* (nav_area.cpp:220): violated.  The search in the area's own extent leaves out the
\* areas at other heights.
ContainsAlone ==
  answer.to = "contains" /\ answer.areas # <<>> /\ answer.fresh =>
    \A b \in index.areas \ answer.able :
      ~(Over(b, answer.point) /\ Rect[b].z <= answer.point.z /\ Rect[b].z > Rect[answer.areas[1]].z)
=============================================================================
