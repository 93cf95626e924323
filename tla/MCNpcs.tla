------------------------------- MODULE MCNpcs -------------------------------
(***************************************************************************)
(* NPCs and bots, for TLC: the locomotion of an NPC, the layers of its     *)
(* animation, the ids of NPCs, the components of a bot, the schedule of    *)
(* player bots and the search for a ledge to climb to.  They share no      *)
(* state, so that a behaviour is one of a single part; which says of which.*)
(***************************************************************************)
EXTENDS Locomotion

CONSTANTS MaxOverlays, LayerPriorities, Activities
VARIABLES which, layers, cut
layerVars == <<layers, cut>>
Layers == INSTANCE Overlays

CONSTANTS Ids, Indexes, MaxPlayers, MaxIndex, Serials, Settings
VARIABLES state, serial, id, setting, registered, objNPC, objNPC2, asked
idVars == <<state, serial, id, setting, registered, objNPC, objNPC2, asked>>
Npcs == INSTANCE NpcIds

CONSTANTS Kinds, MaxUpdates
VARIABLES list, age, loops, times, fresh
componentVars == <<list, age, loops, times, fresh>>
Components == INSTANCE BotComponents WITH run <- loops, MaxDepth <- MaxUpdates

CONSTANTS Players, TickRate, FrameLimit, MaxSlide, MaxCost, FramesAgo
VARIABLES bots, flagged, wait, dormant, life, stop, pending, updating, spent, ran
scheduleVars == <<bots, flagged, wait, dormant, life, stop, pending, updating, spent, ran>>
Schedule == INSTANCE BotSchedule WITH LongAgo <- FramesAgo

CONSTANTS StepHeight, MaxJump, Crouch, LookAhead, MinDepth, Fronts
VARIABLES wall, ceiling, planned, height, hit, range, last, refused, found
ledgeVars == <<wall, ceiling, planned, height, hit, range, last, refused, found>>
Ledge == INSTANCE LedgeScan

\* Walls whose free depth changes at most three times on the way up.
LOCAL Heights == StepHeight + 1 .. MaxJump + Crouch
LOCAL Values == -1 .. LookAhead - 1 \cup {LookAhead + MinDepth + 2}   \* Solid and Free of LedgeScan included
Bands ==
  { [h \in Heights |-> IF h < at[1] THEN v[1] ELSE IF h < at[2] THEN v[2] ELSE IF h < at[3] THEN v[3] ELSE v[4]] :
      at \in { c \in [1 .. 3 -> Heights] : c[1] <= c[2] /\ c[2] <= c[3] }, v \in [1 .. 4 -> Values] }

ASSUME ConstantsOK ==
  /\ LocomotionConstantsOK /\ Layers!OverlaysConstantsOK /\ Npcs!NpcIdsConstantsOK
  /\ Components!BotComponentsConstantsOK /\ Schedule!BotScheduleConstantsOK /\ Ledge!LedgeConstantsOK

allVars == <<which, vars, layerVars, idVars, componentVars, scheduleVars, ledgeVars>>

\* The other parts stay in one of their initial states.
NpcsInit ==
  /\ Ledge!Init
  /\ which \in {"ledge"} \cup
       IF ceiling = Ledge!Lowest /\ ~planned /\ \A h \in Heights : wall[h] = 0
       THEN {"locomotion", "layers", "ids", "components", "schedule"} ELSE {}
  /\ which # "locomotion" => away = FALSE /\ goal = FALSE
  /\ which # "ids" => setting = [i \in Indexes |-> CHOOSE s \in Settings : TRUE]
  /\ which # "schedule" => life = [p \in Players |-> "alive"]
  /\ Init /\ Layers!Init /\ Npcs!Init /\ Components!Init /\ Schedule!Init

LocomotionStep(A) ==
  which = "locomotion" /\ A /\ UNCHANGED <<which, layerVars, idVars, componentVars, scheduleVars, ledgeVars>>
ScheduleStep(A) ==
  which = "schedule" /\ A /\ UNCHANGED <<which, vars, layerVars, idVars, componentVars, ledgeVars>>

NpcsNext ==
  \/ LocomotionStep(Next)
  \/ which = "layers" /\ Layers!Next /\ UNCHANGED <<which, vars, idVars, componentVars, scheduleVars, ledgeVars>>
  \/ which = "ids" /\ Npcs!Next /\ UNCHANGED <<which, vars, layerVars, componentVars, scheduleVars, ledgeVars>>
  \/ which = "components" /\ Components!Next /\ UNCHANGED <<which, vars, layerVars, idVars, scheduleVars, ledgeVars>>
  \/ ScheduleStep(Schedule!Next)
  \/ which = "ledge" /\ Ledge!Next /\ UNCHANGED <<which, vars, layerVars, idVars, componentVars, scheduleVars>>

\* The fairness of the parts, each in its own behaviours.
NpcsFairness ==
  /\ SF_vars(LocomotionStep(Tick)) /\ SF_vars(LocomotionStep(Think)) /\ WF_vars(LocomotionStep(Continue))
  /\ SF_scheduleVars(ScheduleStep(Schedule!Frame)) /\ WF_scheduleVars(ScheduleStep(Schedule!EndUpdate))
  /\ SF_scheduleVars(ScheduleStep(\E p \in Players : Schedule!PhysicsSimulate(p)))
NpcsSpec == NpcsInit /\ [][NpcsNext]_allVars /\ NpcsFairness

\* The properties of the other parts, which are stated there.
LayersOrdered == Layers!LayersOrdered
IdsResolve == Npcs!IdsResolve
UpdatedOnce == Components!UpdatedOnce
LowestLedge == Ledge!LowestLedge
OverheadIsFree == Ledge!OverheadIsFree
NoBotStarves == which = "schedule" => Schedule!NoBotStarves
==============================================================================
