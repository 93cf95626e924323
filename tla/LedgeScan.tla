----------------------------- MODULE LedgeScan -----------------------------
(***************************************************************************)
(* How a bot finds the ledge that it climbs to (PathFollower::Climbing,    *)
(* sourcesdk/NextBot/Path/NextBotPathFollow.cpp): hull traces forward at   *)
(* growing heights meet the wall under the ledge first, and the free space *)
(* above it later.                                                         *)
(*                                                                         *)
(* Heights and depths are whole numbers of the smallest tolerance of the   *)
(* code.  The wall is a choice of the initial state; whether the ground on *)
(* a ledge can be stood on is one at the height where it is looked at.     *)
(***************************************************************************)
EXTENDS Integers, FiniteSetsExt

CONSTANTS
  StepHeight,   \* GetStepHeight
  MaxJump,      \* GetMaxJumpHeight
  Crouch,       \* GetCrouchHullHeight: how much above its height a trace meets
  LookAhead,    \* ledgeLookAheadRange
  MinDepth,     \* minLedgeDepth
  Fronts        \* the walls ahead: height -> how far it is free

Solid == -1               \* the trace starts in something solid
Free == LookAhead + MinDepth + 2   \* deeper than any trace

\* What the constants must satisfy; half a step is the least that a bot goes up.
LedgeConstantsOK ==
  /\ StepHeight \in Nat /\ StepHeight >= 2 /\ MaxJump \in Nat /\ MaxJump > StepHeight
  /\ Crouch \in Nat /\ LookAhead \in Nat \ {0} /\ MinDepth \in Nat
  /\ Fronts \subseteq [StepHeight + 1 .. MaxJump + Crouch -> {Solid} \cup Nat]

VARIABLES
  wall,      \* height -> how far it is free
  ceiling,   \* maxLedgeHeight
  planned,   \* isPlannedClimbImminent
  height,    \* ledgeHeight
  hit,       \* foundWall
  range,     \* ledgeTopLookAheadRange
  last,      \* isLastIteration
  refused,   \* ghost: heights whose ledge could not be stood on
  found      \* "scanning", "ledge", "none" or "overhead"

vars == <<wall, ceiling, planned, height, hit, range, last, refused, found>>

Lowest == StepHeight + 1
Increment == StepHeight \div 2

\* How far the low hull sweep got, which meets every height up to the ceiling.
FrontDepth == Min({ wall[h] : h \in Lowest .. ceiling })

\* What a trace at height h meets before it has gone r: startsolid, or its depth.
Depth(h) == Min({ wall[g] : g \in h .. h + Crouch })
TraceDepth(h, r) == Min({Depth(h), r})

\* There is something ahead, and head room for more than a step.
Init ==
  /\ wall \in Fronts
  /\ ceiling \in Lowest .. MaxJump
  /\ FrontDepth \in 0 .. LookAhead - 1
  /\ planned \in BOOLEAN
  /\ height = Lowest /\ hit = FALSE /\ range = LookAhead /\ last = FALSE
  /\ refused = {} /\ found = "scanning"

\* The next height; the last one is the ceiling, which is tried once.
AdvanceSkipsCeiling ==   \* mutant: no last round at the ceiling
  IF height + Increment < ceiling
  THEN height' = height + Increment /\ UNCHANGED <<last, found>>
  ELSE found' = "none" /\ UNCHANGED <<height, last>>

AdvanceForEver ==   \* mutant: the round at the ceiling does not count as the last
  IF height + Increment < ceiling THEN height' = height + Increment /\ UNCHANGED <<last, found>>
  ELSE height' = ceiling /\ UNCHANGED <<last, found>>
AdvancePast ==   \* mutant: a whole step at a time, past the ceiling
  IF height < ceiling THEN height' = height + StepHeight /\ UNCHANGED <<last, found>>
  ELSE found' = "none" /\ UNCHANGED <<height, last>>

Advance ==
  CASE height + Increment < ceiling -> height' = height + Increment /\ UNCHANGED <<last, found>>
    [] height + Increment >= ceiling /\ ~last -> height' = ceiling /\ last' = TRUE /\ UNCHANGED found
    [] OTHER -> found' = "none" /\ height' = height + Increment /\ UNCHANGED last

World == UNCHANGED <<wall, ceiling, planned>>

StartSolid ==
  /\ found = "scanning" /\ Depth(height) = Solid
  /\ Advance /\ World /\ UNCHANGED <<hit, range, refused>>

\* "make sure the subsequent traces are at least minLedgeDepth deeper than the wall
\* we just found, or all ledge checks will fail"
RangeKept(depth) == range   \* mutant: the range is not extended
RangeBehind(depth) == Max({range, depth + MinDepth + 1})

Wall ==
  LET depth == TraceDepth(height, range)
  IN /\ found = "scanning" /\ ~hit /\ depth # Solid /\ depth < range
     /\ hit' = TRUE /\ range' = RangeBehind(depth)
     /\ Advance /\ World /\ UNCHANGED refused

\* Nothing so far, and already above the head.
AboveAtOnce == TRUE   \* mutant: whatever the route asks for
AboveHead == height > Crouch /\ ~planned
Overhead ==
  /\ found = "scanning" /\ ~hit /\ TraceDepth(height, range) = range /\ AboveHead
  /\ found' = "overhead" /\ World /\ UNCHANGED <<height, hit, range, last, refused>>

Nothing ==
  /\ found = "scanning" /\ ~hit /\ TraceDepth(height, range) = range /\ ~AboveHead
  /\ Advance /\ World /\ UNCHANGED <<hit, range, refused>>

\* Above a wall a trace that gets deep enough behind it may be the ledge.
DeepEnough(depth) == depth - FrontDepth > MinDepth

Ledge ==
  LET depth == TraceDepth(height, range)
  IN /\ found = "scanning" /\ hit /\ depth # Solid /\ DeepEnough(depth)
     /\ \/ found' = "ledge" /\ UNCHANGED <<height, last, refused>>
        \/ refused' = refused \cup {height} /\ Advance
     /\ World /\ UNCHANGED <<hit, range>>

StillWall ==
  LET depth == TraceDepth(height, range)
  IN /\ found = "scanning" /\ hit /\ depth # Solid /\ ~DeepEnough(depth)
     /\ Advance /\ World /\ UNCHANGED <<hit, range, refused>>

Next == StartSolid \/ Wall \/ Overhead \/ Nothing \/ Ledge \/ StillWall

Spec == Init /\ [][Next]_vars /\ WF_vars(Next)

(***************************************************************************)
(* Properties                                                              *)
(***************************************************************************)

\* Every variable has a value of its type and heights stay below the ceiling.
TypeOK ==
  /\ height >= Lowest /\ (found = "scanning" => height <= ceiling)
  /\ range >= LookAhead /\ hit \in BOOLEAN /\ last \in BOOLEAN /\ planned \in BOOLEAN
  /\ refused \subseteq Lowest .. ceiling /\ found \in {"scanning", "ledge", "none", "overhead"}

\* The heights at which the code traces, and among them those above a wall.
Tried == { h \in Lowest .. ceiling : h = ceiling \/ (h - Lowest) % Increment = 0 }
Walls == { h \in Tried : Depth(h) \in 0 .. LookAhead - 1 }
Deep == { h \in Tried : Depth(h) - FrontDepth > MinDepth /\ \E w \in Walls : w < h }

\* The scan (NextBotPathFollow.cpp:1458) finds the lowest ledge there is: of all the
\* heights it tries, up to the ceiling itself, the first that is above a wall, as
\* deep behind the front as a ledge must be, and can be stood on.
LowestLedge ==
  /\ found = "ledge" => height \in Deep /\ \A h \in Deep : h < height => h \in refused
  /\ found = "none" => Deep \subseteq refused

\* Only free space overhead stops the scan early, never a wall already found.
OverheadIsFree == found = "overhead" => ~planned /\ \A h \in Walls : h > height

\* The scan ends.
ScanEnds == <>(found # "scanning")
=============================================================================
