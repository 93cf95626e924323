---------------------------- MODULE PathFollower ----------------------------
(***************************************************************************)
(* A bot that follows a path and chases a subject along it: Path,          *)
(* PathFollower, ChasePath and DirectChasePath (sourcesdk/NextBot/Path,    *)
(* natives/nextbot/path).                                                  *)
(*                                                                         *)
(* Update of a follower is one step per stage, in the code's order.  Three *)
(* of its calls reach plugin code that may use the path: the movement      *)
(* events OnMoveToSuccess and OnMoveToFailure, and the locomotion's        *)
(* ClimbUpToLedge and JumpAcrossGap.  While one of them runs, pc is        *)
(* "callback" and plugin calls interleave; it returns to the stage in      *)
(* after.  What the world looks like (traces, distances, whether the bot   *)
(* stands) is a free choice where the code asks for it.                    *)
(***************************************************************************)
EXTENDS PathSegments

CONSTANTS
  Routes,     \* [links, found]: chains that a search may return
  Subjects,   \* entities to chase
  MaxWait     \* bound: ticks of a fail or wait timer

ASSUME FollowerConstantsOK ==
  /\ Routes \subseteq [links : Seq(Links), found : BOOLEAN]
  /\ MaxWait \in Nat /\ MaxWait >= 1

None == "none"
Plugin == "plugin"   \* the goal of a path that a plugin computed

VARIABLES
  segs,      \* m_path up to m_segmentCount; empty when the path is not valid
  flat,      \* a trivial path from a point to itself
  built,     \* by what the segments were made: a search, trivially or by a copy
  cursor,    \* see PathSegments
  aged,      \* GetAge() > 0
  goal,      \* index of m_goal in m_path, 0 for null
  timer,     \* ticks until m_avoidTimer, m_waitTimer, m_throttleTimer and m_failTimer elapse
  leads,     \* the subject that the path was computed for
  last,      \* m_lastPathSubject
  current,   \* does the bot's GetCurrentPath return this path
  alive,     \* is the path allocated
  pc,        \* the stage of Update
  after,     \* the stage that the running callback returns to
  chased,    \* the subject of the running ChasePath::Update
  fresh,     \* by what the running callback rebuilt the path, None if it did not
  stale,     \* m_goal was taken from a path that is gone
  landing    \* the landing of the running gap jump

path == <<segs, flat, built, cursor>>
chase == <<last, chased>>
own == <<current, alive>>
vars == <<segs, flat, built, cursor, aged, goal, timer, leads, last,
          current, alive, pc, after, chased, fresh, stale, landing>>

Stages == {"idle", "refresh", "start", "ladder", "speed", "progress", "reached", "heading",
           "climb", "gaps", "landed", "fall", "avoid", "callback", "repath", "noPath", "crashed"}

IsValid == segs # <<>>
Elapsed(t) == timer[t] = 0

Init ==
  /\ segs = <<>> /\ flat = FALSE /\ built = None /\ cursor = NoCursor
  /\ aged = TRUE /\ goal = 0
  /\ timer = [t \in {"avoid", "wait", "throttle", "fail"} |-> 0]
  /\ leads = None /\ last = None /\ current = FALSE /\ alive = TRUE
  /\ pc = "idle" /\ after = "idle" /\ chased = None /\ fresh = None /\ stale = FALSE /\ landing = 0

(***************************************************************************)
(* What is done to the path, by itself or by a plugin                      *)
(***************************************************************************)

\* ChasePath::Invalidate, PathFollower::Invalidate and Path::Invalidate.
Cleared(t) == [t EXCEPT !["avoid"] = 0, !["wait"] = 0, !["throttle"] = 0]
InvalidateKeepsGoal ==   \* mutant: the follower does not extend Invalidate
  /\ segs' = <<>> /\ flat' = FALSE /\ built' = None /\ cursor' = NoCursor
  /\ leads' = None /\ timer' = Cleared(timer)
  /\ UNCHANGED <<aged, goal, stale>>

Invalidate ==
  /\ segs' = <<>> /\ flat' = FALSE /\ built' = None /\ cursor' = NoCursor
  /\ goal' = 0 /\ stale' = FALSE /\ leads' = None
  /\ timer' = Cleared(timer)
  /\ UNCHANGED aged

\* Path::Compute invalidates first.  Then there is nothing to compute from; or the
\* bot stands in the goal's area and the path is trivial, unless no area is near; or
\* a search made a route whose details work out, or do not.  Only PostProcess, which
\* a trivial path does not reach, starts the age timer; OnPathChanged sets m_goal.
Results ==
  { [segs |-> <<>>, flat |-> FALSE, built |-> None, isPath |-> b] : b \in BOOLEAN }
  \cup { [segs |-> Trivial, flat |-> b, built |-> "trivial", isPath |-> TRUE] : b \in BOOLEAN }
  \cup { [segs |-> IF Len(r.links) = 0 THEN Trivial ELSE Details(r.links, r.found \/ withGoal),
          flat |-> FALSE, built |-> IF Len(r.links) = 0 THEN "trivial" ELSE "search",
          isPath |-> r.found] : r \in Routes, withGoal \in BOOLEAN }

Compute(result, for, started) ==
  /\ segs' = result.segs /\ flat' = result.flat /\ built' = result.built
  /\ cursor' = NoCursor /\ goal' = FirstSegment(result.segs) /\ stale' = FALSE
  /\ aged' = IF result.built = "search" THEN FALSE ELSE aged
  /\ leads' = for /\ timer' = started

\* Path::Copy: from another path, or from itself, which is empty by then.
Copy(other) ==
  /\ segs' = other /\ flat' = FALSE /\ built' = IF other = <<>> THEN None ELSE "copy"
  /\ cursor' = NoCursor /\ goal' = FirstSegment(other) /\ stale' = FALSE
  /\ leads' = Plugin /\ timer' = Cleared(timer)
  /\ UNCHANGED aged

(***************************************************************************)
(* Calls of plugins: between updates, or from a callback                   *)
(***************************************************************************)
MayCall == alive /\ pc \in {"idle", "callback"}

\* Remembers by what the running callback rebuilt the path.
Rebuilt(how) == fresh' = IF pc = "callback" THEN how ELSE None

ComputeNative ==
  /\ MayCall
  /\ \E r \in Results : /\ Compute(r, Plugin, Cleared(timer))
                         /\ Rebuilt(IF r.built = None THEN "other" ELSE r.built)
  /\ UNCHANGED <<chase, own, pc, after, landing>>

InvalidateNative ==
  /\ MayCall /\ Invalidate /\ Rebuilt("other")
  /\ UNCHANGED <<chase, own, pc, after, landing>>

CopyNative ==
  /\ MayCall
  /\ \E other \in {<<>>, Trivial} : Copy(other)
  /\ Rebuilt("other")
  /\ UNCHANGED <<chase, own, pc, after, landing>>

MoveCursorNative ==
  /\ alive /\ pc = "idle"
  /\ \E value \in {-1, 1, GetLength(segs, flat)}, relative \in BOOLEAN :
       cursor' = Moved(cursor, segs, flat, value, relative)
  /\ UNCHANGED <<segs, flat, built, aged, goal, timer, leads, chase, own, pc, after, fresh, stale, landing>>

\* SEEK_ENTIRE_PATH starts at the first segment, SEEK_AHEAD at the cursor's.
SeekNative ==
  /\ alive /\ pc = "idle" /\ IsValid
  /\ \E first \in {1, Max({1, cursor.prior})} : cursor' \in Seeks(segs, flat, first)
  /\ UNCHANGED <<segs, flat, built, aged, goal, timer, leads, chase, own, pc, after, fresh, stale, landing>>

GetCursorDataNative ==
  /\ alive /\ pc = "idle"
  /\ cursor' = Refreshed(cursor, segs, flat)
  /\ UNCHANGED <<segs, flat, built, aged, goal, timer, leads, chase, own, pc, after, fresh, stale, landing>>

\* The destructor makes every bot forget the path.
DestroyUnheard ==   \* mutant: bots are not told
  /\ alive /\ pc = "idle" /\ alive' = FALSE
  /\ UNCHANGED <<path, aged, goal, timer, leads, chase, current, pc, after, fresh, stale, landing>>

Destroy ==
  /\ alive /\ pc = "idle"
  /\ alive' = FALSE /\ current' = FALSE
  /\ UNCHANGED <<path, aged, goal, timer, leads, chase, pc, after, fresh, stale, landing>>

\* The game time advances between updates.
Tick ==
  /\ pc = "idle"
  /\ aged' = TRUE
  /\ timer' = [t \in DOMAIN timer |-> Max({0, timer[t] - 1})]
  /\ UNCHANGED <<path, goal, leads, chase, own, pc, after, fresh, stale, landing>>

(***************************************************************************)
(* The callbacks of an update                                              *)
(***************************************************************************)
Call(stage) == pc' = "callback" /\ after' = stage /\ fresh' = None

Return ==
  /\ pc = "callback" /\ pc' = after /\ after' = "idle"
  /\ fresh' = IF after \in {"reached", "landed"} THEN fresh ELSE None
  /\ UNCHANGED <<path, aged, goal, timer, leads, chase, own, stale, landing>>

\* After a movement event: "don't invalidate if it just recomputed a new path".
DropOld ==
  /\ IF aged THEN Invalidate ELSE UNCHANGED <<path, aged, goal, timer, leads, stale>>
  /\ pc' = "idle" /\ fresh' = None
  /\ UNCHANGED <<chase, own, after, landing>>

(***************************************************************************)
(* PathFollower::Update                                                    *)
(***************************************************************************)
Kept == UNCHANGED <<path, aged, timer, leads, chase, own, after, fresh, landing>>

Update ==
  /\ alive /\ pc = "idle" /\ pc' = "start"
  /\ UNCHANGED <<goal, current, stale>> /\ Kept

\* The path becomes the bot's current one, even if there is nothing to follow.
StartUnchecked ==   \* mutant: m_goal is not looked at
  /\ pc = "start" /\ current' = TRUE /\ chased' = None
  /\ pc' = IF IsValid /\ Elapsed("wait") THEN "ladder" ELSE "idle"
  /\ UNCHANGED <<path, aged, goal, timer, leads, last, alive, after, fresh, stale, landing>>

Start ==
  /\ pc = "start" /\ current' = TRUE /\ chased' = None
  /\ pc' = IF IsValid /\ goal # 0 /\ Elapsed("wait") THEN "ladder" ELSE "idle"
  /\ UNCHANGED <<path, aged, goal, timer, leads, last, alive, after, fresh, stale, landing>>

TypeOf(i) == IF i \in 1..Len(segs) THEN segs[i].type ELSE "ground"
OnLadder(i) == TypeOf(i) \in Ladders

\* LadderUpdate: the ladder is being used; or there is none here, except that a bot
\* that fell onto a tall ladder ahead takes it up; or the goal's ladder is left
\* behind at its top, or mounted, or still far.
Ladder ==
  /\ pc = "ladder"
  /\ \/ pc' = "idle" /\ UNCHANGED goal
     \/ ~OnLadder(goal) /\ pc' = "speed" /\ UNCHANGED goal
     \/ /\ ~OnLadder(goal) /\ PriorSegment(segs, goal) # 0
        /\ \E s \in PriorSegment(segs, goal)..Len(segs) : TypeOf(s) = "ladderDown" /\ goal' = s
        /\ UNCHANGED pc
     \/ OnLadder(goal) /\ pc' = "speed" /\ UNCHANGED goal
     \/ TypeOf(goal) = "ladderUp" /\ goal' = NextSegment(segs, goal) /\ pc' = "speed"
     \/ TypeOf(goal) = "ladderDown" /\ goal' = NextSegment(segs, goal) /\ pc' = "idle"
  /\ UNCHANGED <<own, path, aged, timer, leads, chase, after, fresh, stale, landing>>

\* AdjustSpeed looks at the curvature under the bot, unless it jumps a gap or flies.
AdjustSpeed ==
  /\ pc = "speed" /\ pc' = "progress"
  /\ \/ UNCHANGED cursor
     \/ TypeOf(goal) # "gap" /\ \E c \in Seeks(segs, flat, 1) : cursor' = Refreshed(c, segs, flat)
  /\ UNCHANGED <<segs, flat, built, aged, goal, timer, leads, chase, own, after, fresh, stale, landing>>

\* IsAtGoal answers by distance, but says yes without a segment before the goal and,
\* at a drop or a climb, without one after it.
MustBeAtGoal ==
  \/ PriorSegment(segs, goal) = 0
  \/ TypeOf(goal) \in {"drop", "climb"} /\ NextSegment(segs, goal) = 0

\* Goals that m_minLookAheadRange lets the bot skip to.
SkipTo == { g \in goal + 1..Len(segs) : \A s \in goal..g : TypeOf(s) = "ground" }

\* CheckProgress: heading on, next goal, or the end of the path, which counts only on
\* the ground.
CheckProgress ==
  /\ pc = "progress"
  /\ \/ goal = 0 /\ pc' = "crashed" /\ UNCHANGED <<goal, after, fresh, stale, landing>>
     \/ goal # 0 /\ ~MustBeAtGoal /\ pc' = "heading" /\ UNCHANGED <<goal, after, fresh, stale, landing>>
     \/ /\ goal # 0 /\ \E g \in {NextSegment(segs, goal)} \cup SkipTo : g # 0 /\ goal' = g
        /\ stale' = FALSE /\ pc' = "heading" /\ UNCHANGED <<after, fresh>>
     \/ /\ goal # 0 /\ NextSegment(segs, goal) = 0
        /\ \/ pc' = "heading" /\ UNCHANGED <<after, fresh>>
           \/ Call("reached")
        /\ UNCHANGED <<goal, stale>>
  /\ UNCHANGED <<path, aged, timer, leads, chase, own, landing>>

Reached == pc = "reached" /\ DropOld

\* The direction to the goal may vanish: OnMoveToFailure(FAIL_STUCK).
Heading ==
  /\ pc = "heading"
  /\ \/ pc' = "climb" /\ UNCHANGED <<after, fresh>>
     \/ Call("reached")
  /\ UNCHANGED <<path, aged, goal, timer, leads, chase, own, stale, landing>>

\* Climbing needs the ability, the ground and a segment behind the goal, and a way
\* that is not just free.
MayClimb == PriorSegment(segs, goal) # 0

\* The ledge is known when the mesh is authoritative and the goal is a climb.
\* Otherwise it is searched for (see LedgeScan).  The mover says whether it climbed.
KnownLedge == TypeOf(goal) = "climb" /\ NextSegment(segs, goal) # 0 /\ \E stage \in {"gaps", "fall"} : Call(stage)
FoundLedge == MayClimb /\ \E stage \in {"gaps", "fall"} : Call(stage)

Climbing ==
  /\ pc = "climb"
  /\ \/ pc' = "gaps" /\ UNCHANGED <<after, fresh>>
     \/ KnownLedge
     \/ FoundLedge
  /\ UNCHANGED <<path, aged, goal, timer, leads, chase, own, stale, landing>>

\* The gap that JumpOverGaps looks for: behind the goal, or at or after it.
Gaps == LET behind == PriorSegment(segs, goal)
        IN IF TypeOf(behind) = "gap" THEN {behind}
           ELSE IF behind = 0 THEN {}
           ELSE { s \in goal..Len(segs) : TypeOf(s) = "gap" /\ \A r \in goal..s - 1 : TypeOf(r) # "gap" }

\* The landing is found before JumpAcrossGap runs and becomes the goal after it.
JumpOverGaps ==
  /\ pc = "gaps"
  /\ \/ /\ pc' = IF IsValid THEN "fall" ELSE "idle"
        /\ UNCHANGED <<landing, after, fresh>>
     \/ /\ IsValid
        /\ \E gap \in Gaps : NextSegment(segs, gap) # 0 /\ landing' = NextSegment(segs, gap)
        /\ Call("landed")
  /\ UNCHANGED <<path, aged, goal, timer, leads, chase, own, stale>>

Landed ==
  /\ pc = "landed" /\ pc' = "fall"
  /\ goal' = landing /\ stale' = (fresh # None) /\ landing' = 0
  /\ fresh' = None
  /\ UNCHANGED <<path, aged, timer, leads, chase, own, after>>

\* Plugin code may have invalidated the path.  A goal that is too high to reach means
\* that the bot fell off: OnMoveToFailure(FAIL_FELL_OFF).
Fall ==
  /\ pc = "fall"
  /\ \/ /\ pc' = IF IsValid THEN "avoid" ELSE "idle"
        /\ UNCHANGED <<after, fresh>>
     \/ IsValid /\ ~OnLadder(goal) /\ Call("reached")
  /\ UNCHANGED <<path, aged, goal, timer, leads, chase, own, stale, landing>>

\* FindBlocker looks along the path from the bot on, if the bot can be hindered.
LookAlong == UNCHANGED cursor \/ \E c \in Seeks(segs, flat, 1) : cursor' = Refreshed(c, segs, flat)

\* Avoid looks only now and then: a blocker makes the bot wait, an obstacle is walked
\* around and looked at again in the next update.
Avoid ==
  /\ pc = "avoid" /\ pc' = "idle"
  /\ IF ~Elapsed("avoid") THEN UNCHANGED <<timer, cursor>>
     ELSE \/ timer' = [timer EXCEPT !["avoid"] = 1] /\ UNCHANGED cursor
          \/ /\ LookAlong
             /\ \/ \E t \in 1..MaxWait : timer' = [timer EXCEPT !["avoid"] = 1, !["wait"] = t]
                \/ \E t \in 0..1 : timer' = [timer EXCEPT !["avoid"] = t]
  /\ UNCHANGED <<segs, flat, built, aged, goal, leads, chase, own, after, fresh, stale, landing>>

(***************************************************************************)
(* ChasePath and DirectChasePath                                           *)
(***************************************************************************)

\* IsDiscontinuityAhead with its default range of -1: the search of the remaining
\* path ends before its first segment.
IsDiscontinuityAhead(type) == goal # 0 /\ TypeOf(PriorSegment(segs, goal)) = type

ChaseUpdate(s) ==
  /\ alive /\ pc = "idle" /\ pc' = "refresh" /\ chased' = s
  /\ UNCHANGED <<path, aged, goal, timer, leads, last, own, after, fresh, stale, landing>>

\* DirectChase runs straight at the victim, off the path, unless the bot is in a jump.
DirectChase ==
  /\ alive /\ pc = "idle"
  /\ ~IsDiscontinuityAhead("climb") /\ ~IsDiscontinuityAhead("gap")
  /\ Invalidate
  /\ UNCHANGED <<chase, own, pc, after, fresh, landing>>

\* RefreshPath keeps the path while the bot uses a ladder, whoever it leads to, and
\* holds back the next search until a moment after it has left it.
RefreshOnLadder ==
  /\ pc = "refresh" /\ IsValid /\ pc' = "start"
  /\ timer' = [timer EXCEPT !["throttle"] = 2]
  /\ UNCHANGED <<path, aged, goal, leads, stale, chase, own, after, fresh, landing>>

\* Off a ladder there is no new path while the last attempt failed, and one for
\* another subject at once.
RefreshAnySubject ==   \* mutant: the subject is not compared with the last one
  /\ pc = "refresh"
  /\ pc' = IF Elapsed("fail") THEN "repath" ELSE "start"
  /\ UNCHANGED <<path, aged, goal, timer, leads, stale, chase, own, after, fresh, landing>>

Refresh ==
  /\ pc = "refresh"
  /\ \/ /\ ~Elapsed("fail") /\ pc' = "start"
        /\ UNCHANGED <<path, aged, goal, timer, leads, stale>>
     \/ /\ Elapsed("fail") /\ pc' = "repath"
        /\ IF chased # last THEN Invalidate
           ELSE UNCHANGED <<path, aged, goal, timer, leads, stale>>
  /\ UNCHANGED <<chase, own, after, fresh, landing>>

\* A path that is young or still leads to the subject is kept.  A success throttles
\* the next attempt; a failure too, and the bot may react to it.
Repath ==
  /\ pc = "repath"
  /\ \/ /\ IsValid /\ pc' = "start"
        /\ UNCHANGED <<path, aged, goal, timer, leads, stale, last, after, fresh>>
     \/ /\ ~IsValid \/ Elapsed("throttle")
        /\ \E r \in Results :
             \/ /\ r.isPath /\ last' = chased /\ pc' = "start"
                /\ Compute(r, chased, [Cleared(timer) EXCEPT !["throttle"] = 1])
                /\ UNCHANGED <<after, fresh>>
             \/ /\ ~r.isPath /\ Call("noPath") /\ UNCHANGED last
                /\ \E t \in 0..MaxWait : Compute(r, chased, [Cleared(timer) EXCEPT !["fail"] = t])
  /\ UNCHANGED <<chased, own, landing>>

\* Whatever the bot did about it, the failed path goes.
NoPathKept ==   \* mutant: the partial path stays
  /\ pc = "noPath" /\ pc' = "start"
  /\ UNCHANGED <<path, aged, goal, timer, leads, stale, chase, own, after, fresh, landing>>

NoPath ==
  /\ pc = "noPath" /\ pc' = "start" /\ Invalidate
  /\ UNCHANGED <<chase, own, after, fresh, landing>>

Next ==
  \/ ComputeNative \/ InvalidateNative \/ CopyNative
  \/ MoveCursorNative \/ SeekNative \/ GetCursorDataNative \/ Destroy \/ Tick \/ Return
  \/ Update \/ Start \/ Ladder \/ AdjustSpeed \/ CheckProgress \/ Reached \/ Heading
  \/ Climbing \/ JumpOverGaps \/ Landed \/ Fall \/ Avoid
  \/ \E s \in Subjects : ChaseUpdate(s)
  \/ DirectChase \/ RefreshOnLadder \/ Refresh \/ Repath \/ NoPath

Spec == Init /\ [][Next]_vars

(***************************************************************************)
(* Properties                                                              *)
(***************************************************************************)

\* Every variable has a value of its type.
TypeOK ==
  /\ segs \in Seq(Segment) /\ flat \in BOOLEAN /\ built \in {None, "search", "trivial", "copy"}
  /\ cursor.pos \in Int /\ cursor.prior \in Nat /\ cursor.dirty \in BOOLEAN
  /\ aged \in BOOLEAN /\ goal \in 0..MaxSegs /\ landing \in 0..MaxSegs /\ stale \in BOOLEAN
  /\ timer \in [{"avoid", "wait", "throttle", "fail"} -> 0..Max({2, MaxWait})]
  /\ leads \in Subjects \cup {None, Plugin} /\ {last, chased} \subseteq Subjects \cup {None}
  /\ {current, alive} \subseteq BOOLEAN /\ {pc, after} \subseteq Stages
  /\ fresh \in {None, "search", "trivial", "other"}

\* Inserting landing and launch points (ComputePathDetails, InsertSegment) leaves a
\* path that fits m_path, leads from area to area without a hole, and has a landing
\* behind every launch; a drop lacks its bottom only when there was no room for it.
PathShape ==
  /\ Len(segs) <= MaxSegs
  /\ \A i \in 1..Len(segs) - 1 : segs[i + 1].area - segs[i].area \in {0, 1}
  /\ \A i \in 1..Len(segs) :
       /\ segs[i].type \in {"gap", "climb"} =>
            i < Len(segs) /\ segs[i + 1].area = segs[i].area + 1 /\ segs[i + 1].link = segs[i].type
       /\ segs[i].type = "drop" => \/ Len(segs) >= MaxSegs - 1
                                   \/ i < Len(segs) /\ segs[i + 1].area = segs[i].area

\* The cached cursor data belong to this path and, unless marked dirty, to the
\* cursor's position on it: nothing is left of a path that was replaced.
CursorAgrees ==
  /\ cursor.prior <= Len(segs)
  /\ cursor.pos <= GetLength(segs, flat)
  /\ ~cursor.dirty /\ cursor.pos # NoPosition /\ IsValid => cursor.prior = SegmentAt(segs, flat, cursor.pos)

\* The follower's goal is a segment of the path that is there, except that a gap jump
\* whose callback rebuilt the path ends with the landing of the old one.
GoalOnPath == goal <= Len(segs) \/ stale

\* The follower uses a null goal only when the path ends at a ladder that goes up:
\* LadderUpdate steps past it and CheckProgress looks at what is there.
NullGoalAtLadderEnd == pc = "crashed" => segs # <<>> /\ segs[Len(segs)].type = "ladderUp"

\* While a failed attempt is throttled, the bot does not walk the partial path that
\* the attempt left.
FailedIsInvalid ==
  pc \in {"idle", "start"} /\ ~Elapsed("fail") => ~IsValid \/ leads = Plugin

\* A bot's current path exists: the destructor makes bots forget it.
CurrentAlive == current => alive

\* However RefreshPath hands over to Update - it keeps the path, throttled or not, has
\* found a new one, waits out a failed attempt or has just failed - a path that is
\* there leads to the subject chased now, or to where a plugin's own call led it.  Only
\* a bot on a ladder goes on with the path it is on, to whomever it leads
\* (NextBotChasePath.h:138); the next refresh off the ladder drops that path.
ChaseSubject ==
  [][pc' = "start" /\ pc \in {"refresh", "repath", "noPath"} /\ segs' # <<>> =>
       leads' \in {chased, Plugin} \/ RefreshOnLadder]_vars

\* "don't invalidate if OnMoveToSuccess just recomputed a new path": an event that
\* searched for a new path leaves the bot with it.
SearchedPathKept == [][pc = "reached" /\ fresh = "search" => segs' = segs]_vars

\* The same for a new path within the area the bot stands in, which does not restart
\* the age timer that the check looks at.
TrivialPathKept == [][pc = "reached" /\ fresh = "trivial" => segs' = segs]_vars

\* The path a bot is left with is one that was searched for its present purpose.
PathAsSearched == ChaseSubject /\ SearchedPathKept

\* "(-1 = entire remaining path)": the default range sees a climb or a gap ahead.
SeesAhead ==
  \A type \in {"climb", "gap"} :
    (\E i \in Max({1, goal})..Len(segs) : goal # 0 /\ segs[i].type = type) => IsDiscontinuityAhead(type)

\* The segments, the cursor and the goal are those of one path.
PathConsistent == PathShape /\ CursorAgrees /\ GoalOnPath
=============================================================================
