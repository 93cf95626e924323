-------------------------- MODULE MCEntityFactories --------------------------
(***************************************************************************)
(* Plugin entity factories for TLC: factory 1 is a root (abstract in some  *)
(* runs), factory 2 derives from it, and factory 3 may share a classname   *)
(* with 1 or derive from 1 or 2.                                           *)
(***************************************************************************)
EXTENDS EntityFactories

Owners == [f \in Factories |-> IF f = 2 THEN "q" ELSE "p"]
Classes == [f \in Factories |-> CASE f = 1 -> "a" [] f = 2 -> "b" [] OTHER -> "a"]
OwnClasses == [f \in Factories |-> CASE f = 1 -> "a" [] f = 2 -> "b" [] OTHER -> "c"]

\* The calls back that the factories are built to survive.
Survivable ==
  (Callbacks \X {"create"}) \cup ({"onInstalled"} \X {"edit", "install"})
  \cup {<<"onUninstalled", "uninstall">>}
Reinstalls == {<<"onUninstalled", "install">>}

Handle(f) == [from |-> "handle", factory |-> f]
Mixed == [f \in Factories |->
  CASE f = 1 -> {[from |-> "npc"]} [] f = 2 -> {Handle(1), [from |-> "class", class |-> "a"]}
    [] OTHER -> {Handle(1), Handle(2)}]
Tree == [f \in Factories |->
  CASE f = 1 -> {[from |-> "npc"]} [] f = 2 -> {Handle(1)} [] OTHER -> {Handle(1), Handle(2)}]
=============================================================================
