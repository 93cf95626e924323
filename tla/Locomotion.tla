----------------------------- MODULE Locomotion -----------------------------
(***************************************************************************)
(* The locomotion of one base_npc: the callbacks that a plugin may put in  *)
(* the place of its virtual functions (cbasenpc_locomotion.cpp), and the   *)
(* detection of a bot that is stuck, with the way out of it                *)
(* (sourcesdk/NextBot/NextBotLocomotionInterface.cpp).                     *)
(*                                                                         *)
(* run is the call stack, innermost call last: a plugin's callback, a      *)
(* default function of the mover, a plugin's handler of OnStuck, OnUnStuck *)
(* or OnLeaveGround, and the steps that ClearStuckStatus and Update still  *)
(* have to take when such a handler returns.  Whatever runs may call back  *)
(* into the mover.  Timers count the ticks since they were started.        *)
(***************************************************************************)
EXTENDS Naturals, SequencesExt

CONSTANTS
  CallbackTypes,    \* the functions that a plugin may replace
  Leaping,          \* those whose default makes the bot leave the ground
  IdleTime,         \* 0.25 s
  UnstickAfter,     \* 1 s
  StillStuckAfter,  \* 1 s
  EscapeTime,       \* STUCK_RADIUS over a tenth of the desired speed
  LongAgo,          \* bound: a timer that shows it may be older, or was never started
  MaxDepth          \* bound: nested calls

LocomotionConstantsOK ==
  /\ Leaping \subseteq CallbackTypes
  /\ {IdleTime, UnstickAfter, StillStuckAfter, EscapeTime, LongAgo, MaxDepth} \subseteq Nat
  /\ \A t \in {IdleTime, UnstickAfter, StillStuckAfter, EscapeTime} : t < LongAgo

VARIABLES
  types,       \* m_pCallbackTypeStack
  callback,    \* m_pCallbacks: none, a function that is runnable, or one of a plugin that is gone
  run,         \* the call stack
  isStuck,     \* m_isStuck
  stuckTimer,  \* m_stuckTimer
  stillTimer,  \* m_stillStuckTimer
  moveTimer,   \* m_moveRequestTimer
  away,        \* is the bot farther than STUCK_RADIUS from m_stuckPos
  goal,        \* has the bot a current path with a current goal
  due          \* has the think function to run before time goes on

stuck == <<isStuck, stuckTimer, stillTimer, away>>
world == <<moveTimer, goal, due>>
calls == <<types, callback>>
vars == <<types, callback, run, isStuck, stuckTimer, stillTimer, moveTimer, away, goal, due>>

Call(do, type) == [do |-> do, type |-> type]
Handler == Call("handler", "event")    \* plugin code that handles an event
Mark == Call("mark", "stuck")          \* the rest of ClearStuckStatus
Monitor == Call("monitor", "stuck")  \* the rest of V_Update

\* The mover as New and Construct leave it; the timers are not started.
Init ==
  /\ types = <<>> /\ callback = [t \in CallbackTypes |-> "none"] /\ run = <<>>
  /\ isStuck = FALSE /\ stuckTimer = LongAgo /\ stillTimer = LongAgo /\ moveTimer = LongAgo
  /\ away \in BOOLEAN /\ goal \in BOOLEAN /\ due = FALSE

\* What runs: plugin code on its own or called by the mover, or code of the game.
Innermost == IF run = <<>> THEN "plugin" ELSE Last(run).do
PluginRuns == Innermost \in {"plugin", "callback", "handler"}
CodeRuns == PluginRuns \/ Innermost = "default"
Deeper(n) == Len(run) + n <= MaxDepth

------------------------------------------------------------------------------
(* The functions that a plugin may replace. *)

SetCallback(t) ==
  /\ PluginRuns /\ callback[t] # "runnable"
  /\ callback' = [callback EXCEPT ![t] = "runnable"] /\ UNCHANGED <<run, types, stuck, world>>

\* The plugin of the callbacks unloads: IsRunnable is false from then on.
Unload ==
  /\ run = <<>> /\ \E t \in CallbackTypes : callback[t] = "runnable"
  /\ callback' = [t \in CallbackTypes |-> IF callback[t] = "runnable" THEN "gone" ELSE callback[t]]
  /\ UNCHANGED <<run, types, stuck, world>>

Callee(t) == IF callback[t] = "runnable" THEN "callback" ELSE "default"

\* Any of the V_ functions, called by the engine, a path or a native: it remembers the
\* type and calls the plugin, or the default where there is no runnable callback.
Enter(t) ==
  /\ CodeRuns /\ Deeper(1)
  /\ types' = Append(types, t) /\ run' = Append(run, Call(Callee(t), t))
  /\ UNCHANGED <<callback, stuck, world>>

\* A default that makes the bot jump tells the bot, and so the plugin's handlers.
Leap ==
  /\ run # <<>> /\ Last(run).do = "default" /\ Last(run).type \in Leaping /\ Deeper(1)
  /\ run' = Append(run, Handler) /\ UNCHANGED <<calls, stuck, world>>

\* Mutant: the type is forgotten only in the branch that ran the default.
LeaveDefault(call) == types' = IF call.do = "default" THEN Front(types) ELSE types

\* The callback or the default returns, or fails: its type is forgotten either way.
Leave(call) == types' = Front(types)

Return ==
  /\ run # <<>> /\ run' = Front(run)
  /\ CASE Last(run).do \in {"callback", "default"} -> Leave(Last(run))
       [] Last(run).do = "handler" -> UNCHANGED types
       [] OTHER -> FALSE
  /\ UNCHANGED <<callback, stuck, world>>

\* The native runs the default of the type on top of the stack, whoever calls it.
CallBaseFunction ==
  /\ PluginRuns /\ types # <<>> /\ Deeper(1)
  /\ run' = IF Last(types) \in Leaping THEN Append(run, Handler) ELSE run
  /\ UNCHANGED <<types, callback, stuck, world>>

------------------------------------------------------------------------------
(* Stuck and free. *)

Idle == moveTimer > IdleTime

\* m_stuckPos is where the bot stands now.
Restart == away' = FALSE /\ stuckTimer' = 0

\* ClearStuckStatus, when the calls of rest are still to come.  The handlers of OnUnStuck
\* run before the place and the time are taken.
ClearStuck(rest) ==
  IF isStuck
  THEN isStuck' = FALSE /\ run' = rest \o <<Mark, Handler>> /\ UNCHANGED <<stuckTimer, away, stillTimer>>
  ELSE Restart /\ run' = rest /\ UNCHANGED <<isStuck, stillTimer>>

\* Mutant: each OnStuck of a bot that stays stuck restarts the stuck timer as well.
StillStuckAnew(rest) ==
  /\ stillTimer > StillStuckAfter
  /\ stillTimer' = 0 /\ stuckTimer' = 0 /\ run' = Append(rest, Handler) /\ UNCHANGED <<isStuck, away>>

StillStuck(rest) ==
  /\ stillTimer > StillStuckAfter
  /\ stillTimer' = 0 /\ run' = Append(rest, Handler) /\ UNCHANGED <<isStuck, stuckTimer, away>>

BecomeStuck(rest) ==
  /\ stuckTimer > EscapeTime
  /\ isStuck' = TRUE /\ run' = Append(rest, Handler) /\ UNCHANGED <<stuckTimer, stillTimer, away>>

\* A bot that does not want to move is not watched, but keeps the mark of a stuck one.
StuckMonitor(rest) ==
  \/ Idle /\ Restart /\ run' = rest /\ UNCHANGED <<isStuck, stillTimer>>
  \/ ~Idle /\ isStuck /\ away /\ ClearStuck(rest)
  \/ ~Idle /\ isStuck /\ ~away /\ StillStuck(rest)
  \/ ~Idle /\ isStuck /\ ~away /\ stillTimer <= StillStuckAfter /\ run' = rest /\ UNCHANGED stuck
  \/ ~Idle /\ ~isStuck /\ away /\ Restart /\ run' = rest /\ UNCHANGED <<isStuck, stillTimer>>
  \/ ~Idle /\ ~isStuck /\ ~away /\ BecomeStuck(rest)
  \/ ~Idle /\ ~isStuck /\ ~away /\ stuckTimer <= EscapeTime /\ run' = rest /\ UNCHANGED stuck

\* V_Update: a bot stuck for long, with a path to follow, is put on the segment before its
\* goal, or on the goal when that is the first, or further along when it is the only one;
\* then the game's update monitors it.
V_Update(rest) ==
  IF isStuck /\ goal /\ stuckTimer > UnstickAfter
  THEN /\ isStuck' = FALSE /\ away' \in BOOLEAN /\ run' = rest \o <<Monitor, Mark, Handler>>
       /\ UNCHANGED <<stuckTimer, stillTimer>>
  ELSE StuckMonitor(rest)

Think == due /\ run = <<>> /\ V_Update(<<>>) /\ due' = FALSE /\ UNCHANGED <<calls, moveTimer, goal>>

\* The natives with which a plugin does the same.
UpdateNative == PluginRuns /\ Deeper(3) /\ V_Update(run) /\ UNCHANGED <<calls, world>>
StuckMonitorNative == PluginRuns /\ Deeper(2) /\ StuckMonitor(run) /\ UNCHANGED <<calls, world>>
ClearStuckStatus == PluginRuns /\ Deeper(2) /\ ClearStuck(run) /\ UNCHANGED <<calls, world>>

\* The steps left when the handlers of an event have returned.
Continue ==
  /\ run # <<>>
  /\ \/ Last(run) = Mark /\ Restart /\ run' = Front(run) /\ UNCHANGED <<isStuck, stillTimer>>
     \/ Last(run) = Monitor /\ StuckMonitor(Front(run))
  /\ UNCHANGED <<calls, world>>

\* Approach and DriveTo.
Approach == PluginRuns /\ moveTimer # 0 /\ moveTimer' = 0 /\ UNCHANGED <<run, calls, stuck, goal, due>>

\* Reset forgets that the bot is stuck and tells nobody; the place it compares with is the
\* origin of the map.
Reset ==
  /\ PluginRuns /\ isStuck' = FALSE /\ stuckTimer' = LongAgo /\ moveTimer' = LongAgo /\ away' \in BOOLEAN
  /\ UNCHANGED <<run, calls, stillTimer, goal, due>>

\* Time goes on and the world with it: the bot moves, its path ends or a new one begins.
Later(t) == IF t = LongAgo THEN t ELSE t + 1
Tick ==
  /\ run = <<>> /\ ~due /\ due' = TRUE
  /\ stuckTimer' = Later(stuckTimer) /\ stillTimer' = Later(stillTimer) /\ moveTimer' = Later(moveTimer)
  /\ away' \in BOOLEAN /\ goal' \in BOOLEAN
  /\ UNCHANGED <<run, calls, isStuck>>

Next ==
  \/ \E t \in CallbackTypes : SetCallback(t) \/ Enter(t)
  \/ Unload \/ Leap \/ Return \/ CallBaseFunction
  \/ Think \/ UpdateNative \/ StuckMonitorNative \/ ClearStuckStatus \/ Continue
  \/ Approach \/ Reset \/ Tick

\* Frames go on and bring the think function; steps that need nobody are taken.
Fairness == SF_vars(Tick) /\ SF_vars(Think) /\ WF_vars(Continue)
Spec == Init /\ [][Next]_vars /\ Fairness

------------------------------------------------------------------------------
\* A callback that asks for the base function gets that of its own type, however
\* callbacks, defaults and events are nested (CallBaseFunction, cbasenpc.cpp).
BaseIsCallers ==
  /\ run # <<>> /\ Last(run).do = "callback" => types # <<>> /\ Last(types) = Last(run).type
  /\ run = <<>> => types = <<>>

\* A bot that keeps trying to move along a path is never stuck for good, whatever plugins
\* do in their handlers, as long as they return (V_Update, StuckMonitor).
StuckIsLeft == ([]<>(run = <<>>) /\ <>[](~Idle /\ goal)) => []<>(~isStuck)
==============================================================================
