---------------------------- MODULE MCNetworkSchema ----------------------------
(***************************************************************************)
(* The network schema for TLC: a class "x" of the game's "s", a class "y"  *)
(* based on it, and a factory of their entities that has no declaration.   *)
(***************************************************************************)
EXTENDS NetworkSchema

DX == [name |-> "x", base |-> Stock]
DY == [name |-> "y", base |-> "x"]
DYS == [name |-> "y", base |-> Stock]

Declares == [f \in All |->
  CASE f = "fx" -> {DX} [] f = "fy" -> {DY} [] f = "cx" -> {DX} [] f = "cy" -> {DY, DYS} [] OTHER -> {}]
ByHandle == [f \in Factories |->
  CASE f = "fx" -> GameBase [] f = "fy" -> FactoryBase("fx") [] OTHER -> FactoryBase("fx")]
ByClassname == [f \in Factories |->
  CASE f = "fx" -> ClassnameBase("b") [] f = "g" -> FactoryBase("fx") [] OTHER -> GameBase]
Classnames == [f \in Factories |-> IF f \in {"b1", "b2"} THEN "b" ELSE f]
Ask(p, bits, owner) == [prop |-> p, bits |-> bits, owner |-> owner]
Asked == {Ask("p", 1, "consumer"), Ask("p", 2, "plugin"), Ask("q", 1, "plugin")}
Sizes == [f \in Factories |-> IF f = "b2" THEN 0 ELSE 1]
=============================================================================
