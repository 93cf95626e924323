------------------------- MODULE MCActionFactories --------------------------
(***************************************************************************)
(* Action factories for TLC.                                               *)
(***************************************************************************)
EXTENDS ActionFactories, TLC

Symmetry == Permutations(Factories) \cup Permutations(Bots)

\* Calls that the retirement is built to survive.
Survivable ==
  ({"initialAction", "onEnd"} \X CallKinds)
  \cup ({"attachBot"} \X {"create", "declare", "event"})

\* A factory is closed while an entity is between declaration and intention.
ClosedMeanwhile == {<<"attachBot", "close">>}
=============================================================================
