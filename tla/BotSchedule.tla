----------------------------- MODULE BotSchedule -----------------------------
(***************************************************************************)
(* Which player bots are updated in a frame: toolsnextbot.cpp asks the     *)
(* manager (sourcesdk/NextBot/NextBotManager.cpp) for leave whenever the   *)
(* game simulates the player, and the manager compares what the updates of *)
(* the frame have taken with the limit.  The game's own part of the        *)
(* manager starts a frame's account and flags bots; which ones is free.    *)
(***************************************************************************)
EXTENDS Integers, FiniteSetsExt

CONSTANTS
  Players,
  TickRate,     \* m_iUpdateTickrate
  FrameLimit,   \* nb_update_framelimit, in the units of MaxCost
  MaxSlide,     \* nb_update_maxslide
  MaxCost,      \* bound: what one update takes
  LongAgo       \* bound: 999 ticks, or more than are counted

BotScheduleConstantsOK ==
  /\ {TickRate, FrameLimit, MaxSlide, MaxCost, LongAgo} \subseteq Nat
  /\ LongAgo > TickRate + MaxSlide

VARIABLES
  bots,       \* the players that have a bot; a bot is never deleted
  flagged,    \* m_bScheduledForNextTick
  wait,       \* the ticks since m_iLastUpdateTick
  dormant,    \* m_isDormantWhenDead
  life,       \* alive, dying, dead
  stop,       \* the switches that are on: nb_stop, nb_player_stop
  pending,    \* players that the game still simulates in this tick
  updating,   \* the bot between BeginUpdate and EndUpdate, if any
  spent,      \* m_SumFrameTime
  ran         \* history: the bots whose components ran in this tick

settings == <<dormant, life, stop>>
vars == <<bots, flagged, wait, dormant, life, stop, pending, updating, spent, ran>>

Init ==
  /\ bots = {} /\ flagged = [p \in Players |-> FALSE] /\ wait = [p \in Players |-> LongAgo]
  /\ dormant = [p \in Players |-> TRUE] /\ life \in [Players -> {"alive", "dying", "dead"}]
  /\ stop = {} /\ pending = {} /\ updating = {} /\ spent = 0 /\ ran = {}

\* The constructor leaves the flag as the memory was; the player is simulated from the
\* next tick on.
ToolsNextBotPlayer(p) ==
  /\ p \notin bots /\ bots' = bots \union {p}
  /\ \E b \in BOOLEAN : flagged' = [flagged EXCEPT ![p] = b]
  /\ UNCHANGED <<wait, settings, pending, updating, spent, ran>>

SetIsDormantWhenDead(p, b) ==
  /\ p \in bots /\ dormant[p] # b /\ dormant' = [dormant EXCEPT ![p] = b]
  /\ UNCHANGED <<bots, flagged, wait, life, stop, pending, updating, spent, ran>>

\* A player spawns: the bot is reset, and seems not to have been updated for 999 ticks.
Spawn(p) ==
  /\ p \in bots /\ wait' = [wait EXCEPT ![p] = LongAgo] /\ life' = [life EXCEPT ![p] = "alive"]
  /\ UNCHANGED <<bots, flagged, dormant, stop, pending, updating, spent, ran>>

\* The game: the next tick, in a frame of its own.
Frame ==
  /\ pending = {} /\ updating = {} /\ pending' = bots /\ spent' = 0 /\ ran' = {}
  /\ flagged' \in {f \in [Players -> BOOLEAN] : \A p \in Players \ bots : f[p] = flagged[p]}
  /\ wait' = [p \in Players |-> IF wait[p] = LongAgo THEN LongAgo ELSE wait[p] + 1]
  /\ UNCHANGED <<bots, settings, updating>>

\* Players are hurt and the switches turned between the ticks.
World ==
  /\ pending = {} /\ updating = {}
  /\ \/ stop' \in SUBSET {"nb_stop", "nb_player_stop"} /\ UNCHANGED life
     \/ \E p \in Players : /\ life[p] # "dead" /\ UNCHANGED stop
                           /\ life' = [life EXCEPT ![p] = IF @ = "alive" THEN "dying" ELSE "dead"]
  /\ UNCHANGED <<bots, flagged, wait, dormant, pending, updating, spent, ran>>

------------------------------------------------------------------------------
(* A frame. *)

\* What counts against the limit: nothing, when the bot was not flagged.
SumFrameTime(p) == IF flagged[p] THEN spent ELSE 0
NTicksSlid(p) == wait[p] - TickRate

\* Mutant: what the frame has taken counts for every bot, and up to the limit alone.
SlidWithin(p) == NTicksSlid(p) >= MaxSlide /\ (FrameLimit = 0 \/ spent < FrameLimit)

\* A bot that has waited too long may take up to twice the limit.
Slid(p) == NTicksSlid(p) >= MaxSlide /\ (FrameLimit = 0 \/ SumFrameTime(p) < 2 * FrameLimit)

ShouldUpdate(p) ==
  \/ TickRate < 1
  \/ flagged[p] /\ FrameLimit > 0 /\ spent < FrameLimit
  \/ Slid(p)

\* The flag is used up, whatever the answer.
Asked(p) == flagged' = IF TickRate < 1 THEN flagged ELSE [flagged EXCEPT ![p] = FALSE]

Dormant(p) == (dormant[p] /\ life[p] = "dead") \/ "nb_stop" \in stop

\* ToolsNextBotPlayer::Update runs the components, or does nothing.
Runs(p) == (life[p] = "alive" \/ ~dormant[p]) /\ "nb_player_stop" \notin stop

\* PhysicsSimulate, up to BeginUpdate; a bot without leave has its body updated alone.
PhysicsSimulate(p) ==
  /\ p \in pending /\ updating = {} /\ pending' = pending \ {p}
  /\ IF Dormant(p) THEN UNCHANGED <<flagged, wait, updating, ran>>
     ELSE /\ Asked(p)
          /\ IF ShouldUpdate(p)
             THEN /\ updating' = {p} /\ wait' = [wait EXCEPT ![p] = 0]
                  /\ ran' = IF Runs(p) THEN ran \union {p} ELSE ran
             ELSE UNCHANGED <<wait, updating, ran>>
  /\ UNCHANGED <<bots, settings, spent>>

\* EndUpdate adds the time that the update took.
EndUpdate ==
  /\ updating # {} /\ updating' = {}
  /\ \E cost \in 0..MaxCost : spent' = Min({spent + cost, 2 * FrameLimit})
  /\ UNCHANGED <<bots, flagged, wait, settings, pending, ran>>

Next ==
  \/ \E p \in Players :
       \/ ToolsNextBotPlayer(p) \/ Spawn(p) \/ PhysicsSimulate(p)
       \/ \E b \in BOOLEAN : SetIsDormantWhenDead(p, b)
  \/ Frame \/ World \/ EndUpdate

\* Ticks go on, whatever else happens, and the game simulates every player in each.
Fairness == SF_vars(Frame) /\ SF_vars(\E p \in Players : PhysicsSimulate(p)) /\ WF_vars(EndUpdate)
Spec == Init /\ [][Next]_vars /\ Fairness

------------------------------------------------------------------------------
\* A bot whose player lives is updated again and again, whichever bots the game flags and
\* however long the others take, unless they keep taking twice the limit before its turn
\* (ShouldUpdate).
Left(p) == p \in bots /\ life[p] = "alive" /\ stop = {} /\ (p \in pending => spent < 2 * FrameLimit)
NoBotStarves == \A p \in Players : <>[]Left(p) => []<>(p \in ran)
==============================================================================
