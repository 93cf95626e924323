------------------------------ MODULE Overlays ------------------------------
(***************************************************************************)
(* The animation layers of one entity (sourcesdk/baseanimatingoverlay.cpp, *)
(* natives/baseanimatingoverlay.cpp).  A layer keeps what decides which    *)
(* layer is used, drawn and found: flags, priority, order and activity.    *)
(* Cycles, rates and weights are left out, and the flag that has a         *)
(* finished layer removed: when a layer is finished or has faded is free.  *)
(* The game advances the layers of a frame one after another; here each is *)
(* a step.                                                                 *)
(***************************************************************************)
EXTENDS Naturals, FiniteSetsExt, Sequences

CONSTANTS
  MaxOverlays,   \* MAX_OVERLAYS
  LayerPriorities,
  Activities

NoActivity == "none"   \* ACT_INVALID

OverlaysConstantsOK ==
  /\ MaxOverlays \in Nat \ {0} /\ LayerPriorities \subseteq Nat /\ 0 \in LayerPriorities
  /\ NoActivity \notin Activities

VARIABLES
  layers,   \* m_AnimOverlay
  cut       \* history: the most that SetNumAnimOverlays took away: none, unused or active

vars == <<layers, cut>>

\* CAnimationLayer::Init.
Unused ==
  [active |-> FALSE, killMe |-> FALSE, dying |-> FALSE,
   priority |-> 0, order |-> MaxOverlays, activity |-> NoActivity]

Init == layers = <<>> /\ cut = "none"

ActiveIn(ls) == {i \in DOMAIN ls : ls[i].active}
OpenIn(ls) == {i \in DOMAIN ls : ~ls[i].active /\ ~ls[i].dying}
IsValidLayer(i) == i \in ActiveIn(layers)

\* The order above every layer of a set that has the priority or a lower one.
OrderFor(set, priority) == Max({0} \union {l.order + 1 : l \in {m \in set : m.priority <= priority}})

\* The layers at is, moved up or down by one.
Raised(ls, is) == [i \in DOMAIN ls |-> IF i \in is THEN [ls[i] EXCEPT !.order = @ + 1] ELSE ls[i]]
Lowered(ls, is) == [i \in DOMAIN ls |-> IF i \in is THEN [ls[i] EXCEPT !.order = @ - 1] ELSE ls[i]]

------------------------------------------------------------------------------
(* AllocateLayer, on any sequence of layers. *)

Room(ls) == OpenIn(ls) # {} \/ Len(ls) < MaxOverlays
OpenLayer(ls) == IF OpenIn(ls) = {} THEN Len(ls) + 1 ELSE Min(OpenIn(ls))

\* A new layer when none is open, and another when that was the last one.
Grown(ls) ==
  LET one == IF OpenIn(ls) = {} THEN Append(ls, Unused) ELSE ls
      few == Cardinality(OpenIn(ls)) <= 1
  IN IF few /\ Len(one) < MaxOverlays THEN Append(one, Unused) ELSE one

AllocateLayer(ls, priority, activity) ==
  LET new == OrderFor({ls[i] : i \in ActiveIn(ls)}, priority)
      grown == Grown(ls)
      up == Raised(grown, {i \in DOMAIN grown : grown[i].order >= new /\ grown[i].order < MaxOverlays})
      layer == [Unused EXCEPT !.active = TRUE, !.order = new, !.priority = priority, !.activity = activity]
  IN [up EXCEPT ![OpenLayer(ls)] = layer]

\* A new active layer with the attributes, when there is room; the callers set the activity.
Added(priority, activity) == IF Room(layers) THEN AllocateLayer(layers, priority, activity) ELSE layers

AddLayeredSequence(priority) == layers' = Added(priority, NoActivity) /\ UNCHANGED cut
AddGestureSequence == layers' = Added(0, NoActivity) /\ UNCHANGED cut

------------------------------------------------------------------------------
(* Gestures: layers that are found by their activity. *)

Playing(activity) == {i \in ActiveIn(layers) : ~layers[i].killMe /\ layers[i].activity = activity}

\* AddGesture and RestartGesture, which winds a playing gesture back and changes no layer
\* here then; the model may have no sequence for the activity.
AddGesture(activity) ==
  /\ Playing(activity) = {}
  /\ layers' = Added(0, activity) /\ UNCHANGED cut

Killed(is) == [i \in DOMAIN layers |-> IF i \in is THEN [layers[i] EXCEPT !.killMe = TRUE] ELSE layers[i]]
First(is) == IF is = {} THEN {} ELSE {Min(is)}

RemoveGesture(activity) == layers' = Killed(First(Playing(activity))) /\ UNCHANGED cut
RemoveAllGestures == layers' = Killed(ActiveIn(layers)) /\ UNCHANGED cut
RemoveLayer(i) == IsValidLayer(i) /\ layers' = Killed({i}) /\ UNCHANGED cut

------------------------------------------------------------------------------
(* Orders. *)

Above(i) == {j \in ActiveIn(layers) : layers[j].order > layers[i].order}

FastRemoved(i) == [Lowered(layers, Above(i)) EXCEPT ![i] = Unused]
FastRemoveLayer(i) == IsValidLayer(i) /\ layers' = FastRemoved(i) /\ UNCHANGED cut

\* Mutant: the layer stays in its place while the new one is sought.
ReplacedAbove(i, priority) ==
  LET others == ActiveIn(layers) \ {i}
      new == OrderFor({layers[j] : j \in others}, priority)
      up == Raised(layers, {j \in others : layers[j].order >= new})
  IN [up EXCEPT ![i] = [@ EXCEPT !.order = new, !.priority = priority]]

\* The layer leaves its place, the layers above move down, and it comes in again above the
\* last one that it outranks.
Replaced(i, priority) ==
  LET down == Lowered(layers, Above(i))
      others == ActiveIn(down) \ {i}
      new == OrderFor({down[j] : j \in others}, priority)
      up == Raised(down, {j \in others : down[j].order >= new})
  IN [up EXCEPT ![i] = [@ EXCEPT !.order = new, !.priority = priority]]

SetLayerPriority(i, priority) ==
  /\ IsValidLayer(i) /\ layers[i].priority # priority
  /\ layers' = Replaced(i, priority) /\ UNCHANGED cut

\* Bounds: active layers are cut off once, as their orders never close up again; and there
\* are at most MaxOverlays layers, though the native has no upper limit (natives/
\* baseanimatingoverlay.cpp:712): of more active ones the last would have no order.
SetNumAnimOverlays(n) ==
  LET lost == {i \in DOMAIN layers : i > n}
  IN /\ cut # "active" \/ lost = {}
     /\ layers' = [i \in 1..n |-> IF i \in DOMAIN layers THEN layers[i] ELSE Unused]
     /\ cut' = IF lost \intersect ActiveIn(layers) # {} THEN "active" ELSE IF lost # {} THEN "unused" ELSE cut

------------------------------------------------------------------------------
(* What the game does with a layer in a frame. *)

Faded(i) == IsValidLayer(i) /\ layers[i].killMe /\ layers' = [FastRemoved(i) EXCEPT ![i].dying = TRUE]
Finished(i) == IsValidLayer(i) /\ layers' = Killed({i})
Dead(i) == layers[i].dying /\ layers' = [layers EXCEPT ![i].dying = FALSE]
Advance == (\E i \in DOMAIN layers : Faded(i) \/ Finished(i) \/ Dead(i)) /\ UNCHANGED cut

(* The natives of plugins; the entity's own code calls the same functions. *)
GestureNatives ==
  \/ AddGestureSequence \/ RemoveAllGestures
  \/ \E a \in Activities : AddGesture(a) \/ RemoveGesture(a)

LayerNatives ==
  \/ \E p \in LayerPriorities : AddLayeredSequence(p) \/ \E i \in DOMAIN layers : SetLayerPriority(i, p)
  \/ \E i \in DOMAIN layers : RemoveLayer(i) \/ FastRemoveLayer(i)
  \/ \E n \in 0..MaxOverlays : SetNumAnimOverlays(n)

Next == GestureNatives \/ LayerNatives \/ Advance

Spec == Init /\ [][Next]_vars

------------------------------------------------------------------------------
\* The orders of the active layers number them from the bottom, by priority: a client draws
\* each of them once (AllocateLayer, SetLayerPriority, FastRemoveLayer).
Numbered ==
  /\ {layers[i].order : i \in ActiveIn(layers)} = {n \in 0..MaxOverlays : n < Cardinality(ActiveIn(layers))}
  /\ \A i, j \in ActiveIn(layers) : layers[i].priority < layers[j].priority => layers[i].order < layers[j].order

\* Once a layer was needed there is one that nobody uses, up to the limit (AllocateLayer:541).
Spare == Len(layers) \in 1..(MaxOverlays - 1) => OpenIn(layers) # {}

\* An activity has one layer at most that is not about to end (AddGesture).
OncePlayed == \A a \in Activities : Cardinality(Playing(a)) <= 1

\* The three hold together, whatever is added, killed, faded and moved; cutting off layers
\* keeps what does not depend on those that are lost.
LayersOrdered ==
  /\ cut # "active" => Numbered
  /\ cut = "none" => Spare
  /\ OncePlayed
==============================================================================
