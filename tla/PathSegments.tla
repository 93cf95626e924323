---------------------------- MODULE PathSegments ----------------------------
(***************************************************************************)
(* How a Path is made of segments (NextBotPath.h, NextBotPath.cpp): the    *)
(* chain of areas that the search found is cut to the size of m_path, the  *)
(* goal is appended, and bottoms of drops and launch points of jumps are   *)
(* inserted while there is room.  The cursor is a position along it.       *)
(*                                                                         *)
(* A route is the sequence of links between the areas of that chain.       *)
(* Every segment is two units long, so that there is a position between    *)
(* its ends; only a trivial path to where the bot stands has no length.    *)
(***************************************************************************)
EXTENDS Integers, Sequences, SequencesExt, FiniteSetsExt

CONSTANT MaxSegs   \* MAX_PATH_SEGMENTS

ASSUME MaxSegsOK == MaxSegs \in Nat /\ MaxSegs >= 3

\* What the terrain between two areas asks for, and where a segment begins a path
\* or is the goal itself.
Walks == {"walk", "drop", "gap", "climb"}         \* NavTraverseType up to GO_WEST
Ladders == {"ladderUp", "ladderDown"}
Links == Walks \cup Ladders \cup {"elevator"}
Types == {"ground", "drop", "gap", "climb"} \cup Ladders

Segment == [area : Nat, link : Links \cup {"start", "goal"}, type : Types]
Seg(area, link, type) == [area |-> area, link |-> link, type |-> type]

(***************************************************************************)
(* Path::Compute and ComputePathDetails                                    *)
(***************************************************************************)

\* The parent chain from the closest area back to the start area.  A chain that is
\* too long keeps its end.  The goal is appended if it was reached or asked for.
AssembleNoRoom(links, withGoal) ==   \* mutant: no room saved for the endpoint
  LET count == Min({Len(links) + 1, MaxSegs})
      first == Len(links) + 1 - count
  IN [j \in 1..count |-> Seg(first + j, IF j = 1 THEN "start" ELSE links[first + j - 1], "ground")]
     \o IF withGoal THEN <<Seg(first + count, "goal", "ground")>> ELSE <<>>

Assemble(links, withGoal) ==
  LET areas == Len(links) + 1
      count == Min({areas, MaxSegs - 1})
      first == areas - count
  IN [j \in 1..count |-> Seg(first + j, IF j = 1 THEN "start" ELSE links[first + j - 1], "ground")]
     \o IF withGoal THEN <<Seg(areas, "goal", "ground")>> ELSE <<>>

\* First pass: ladders and drops get their type, a drop its landing point, if there
\* is room: what the segment i of the path, given those before it, becomes.
DropStep(path, out, i) ==
  LET room == Len(out) + 1 + Len(path) - i < MaxSegs - 1
      typed == [path[i] EXCEPT !.type = IF path[i].link \in Ladders \cup {"drop"} THEN path[i].link ELSE @]
  IN IF path[i].link = "drop" /\ room THEN Append(Append(out, typed), path[i]) ELSE Append(out, typed)

WithDrops(path) ==
  LET out[i \in 0..Len(path)] == IF i = 0 THEN <<>> ELSE DropStep(path, out[i - 1], i)
  IN out[Len(path)]

\* Does the second pass put a launch point between the neighbours from and to?
NeedsLaunch(from, to) ==
  /\ from.link \in Walks \cup {"start", "goal"}
  /\ to.link \in {"gap", "climb"} /\ to.type = "ground"

\* Second pass: a gap and a ledge get a launch point before them (InsertSegment).
LaunchStep(path, out, i) ==
  IF i > 1 /\ NeedsLaunch(path[i - 1], path[i]) /\ Len(out) + 1 + Len(path) - i < MaxSegs - 1
  THEN Append(Append(out, [path[i - 1] EXCEPT !.type = path[i].link]), path[i])
  ELSE Append(out, path[i])

WithLaunches(path) ==
  LET out[i \in 0..Len(path)] == IF i = 0 THEN <<>> ELSE LaunchStep(path, out[i - 1], i)
  IN out[Len(path)]

Details(links, withGoal) == WithLaunches(WithDrops(Assemble(links, withGoal)))

\* BuildTrivialPath: from the bot straight to a goal in the same area.
Trivial == <<Seg(1, "start", "ground"), Seg(1, "goal", "ground")>>

(***************************************************************************)
(* Walking along the segments; 0 is the null pointer                       *)
(***************************************************************************)
FirstSegment(path) == IF path # <<>> THEN 1 ELSE 0
NextSegmentUnchecked(path, i) == IF path = <<>> THEN 0 ELSE i + 1   \* mutant: runs off the end
NextSegment(path, i) == IF i \in 1..Len(path) - 1 THEN i + 1 ELSE 0
PriorSegment(path, i) == IF i \in 2..Len(path) THEN i - 1 ELSE 0

(***************************************************************************)
(* The cursor: pos is the distance along the path, prior is m_cursorData   *)
(* .segmentPrior, dirty is m_isCursorDataDirty                             *)
(***************************************************************************)
NoPosition == -1    \* what a division of zero by zero leaves in m_cursorPos

NoCursorClean == [pos |-> 0, prior |-> 0, dirty |-> FALSE]   \* mutant: not marked dirty
NoCursor == [pos |-> 0, prior |-> 0, dirty |-> TRUE]

\* flat: the only segment has no length.
GetLength(path, flat) == IF path = <<>> \/ flat THEN 0 ELSE 2 * (Len(path) - 1)

\* The segment before a position, as GetCursorData finds it.
SegmentAt(path, flat, pos) ==
  CASE pos = 0 -> 1
    [] pos > 0 /\ pos = GetLength(path, flat) -> Len(path)
    [] OTHER -> (pos + 1) \div 2

\* GetCursorData brings m_cursorData up to date; comparisons with a NaN are false,
\* so that it stays as it is.
Refreshed(cursor, path, flat) ==
  IF path = <<>> THEN [cursor EXCEPT !.prior = 0]
  ELSE [cursor EXCEPT !.dirty = FALSE,
          !.prior = IF cursor.dirty /\ cursor.pos # NoPosition THEN SegmentAt(path, flat, cursor.pos) ELSE @]

\* MoveCursor, MoveCursorToStart and MoveCursorToEnd clamp to the path.  A NaN stays
\* one when it is moved relatively.
Moved(cursor, path, flat, value, relative) ==
  LET to == IF relative THEN cursor.pos + value ELSE value
  IN [cursor EXCEPT !.dirty = TRUE,
        !.pos = IF relative /\ cursor.pos = NoPosition THEN NoPosition
                ELSE Max({0, Min({to, GetLength(path, flat)})})]

\* Where a search of the path for the closest point ends: segment i at t halves of
\* its length.  The last segment has no length, and neither has a flat one.
Sought(i, t, path, flat) ==
  [dirty |-> TRUE, prior |-> i,
   pos |-> IF i = Len(path) \/ flat THEN NoPosition ELSE 2 * (i - 1) + t]

\* MoveCursorToClosestPosition from the segment first on, which may be the last.
Seeks(path, flat, first) ==
  { Sought(i, t, path, flat) : i \in first..Max({first, Len(path) - 1}), t \in 0..2 }
=============================================================================
