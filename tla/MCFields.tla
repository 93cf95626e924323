------------------------------- MODULE MCFields -------------------------------
(***************************************************************************)
(* Described fields, for TLC: those of a network entity and those of       *)
(* actions.  The two share no state, so that a behaviour is one of either; *)
(* which says of which.                                                    *)
(***************************************************************************)
EXTENDS NetworkFields, TLC

\* Two descriptions with at most two fields: every pair of neighbours among kinds of
\* different sizes, alignments, signs and codings, in one class or in both.
LOCAL F(kind, count, send, bits, unsigned, length) ==
  [kind |-> kind, count |-> count, send |-> send, bits |-> bits, unsigned |-> unsigned, length |-> length]
FieldShapes ==
  { F("Int", 1, TRUE, 3, TRUE, 0), F("Int", 1, TRUE, 0, TRUE, 0), F("Short", 1, TRUE, 3, FALSE, 0),
    F("Short", 2, TRUE, -1, TRUE, 0), F("Char", 2, TRUE, 0, FALSE, 0),
    F("Bool", 1, TRUE, 0, FALSE, 0), F("Angle", 1, TRUE, 0, FALSE, 0),
    F("VectorXY", 1, TRUE, 0, FALSE, 0), F("StringT", 2, TRUE, 0, FALSE, 2), F("EHandle", 1, TRUE, 0, FALSE, 0),
    F("Bool", 1, FALSE, 0, FALSE, 0) }

\* Bytes of two bits: a number is cut, or changes its sign, at 2, 8 or 128.
LOCAL H(entry, serial) == [entry |-> entry, serial |-> serial]
LOCAL Integers == {-3, 250}
LOCAL Vectors == {<<7, 130, 201>>}
FieldValues ==
  [Int |-> Integers, Short |-> Integers, Char |-> Integers, Bool |-> {0, 2}, Color32 |-> Integers,
   ModelIndex |-> Integers, Float |-> {130}, Angle |-> {130}, Time |-> {130}, Vector |-> Vectors,
   VectorXY |-> Vectors, QAngle |-> Vectors, StringT |-> {<<>>, <<1>>, <<2, 3, 1>>},
   EHandle |-> {H(7, 31), H(2, 13), H(3, 7)}]
FieldPool == <<<<1>>, <<2, 3, 1>>>>

\* Fields of an action, among them one without elements and one that ends unaligned.
FoldedNames == ("hp" :> "hp") @@ ("HP" :> "hp")
ActionShapes ==
  {[type |-> "integer", count |-> 1], [type |-> "short", count |-> 1], [type |-> "character", count |-> 2],
   [type |-> "vector", count |-> 2], [type |-> "ehandle", count |-> 0]}
CONSTANTS DataNames, DataFolded, DataShapes, Actions
VARIABLES which, dataDesc, dataComplete, dataMap, dataCache, dataBegun, action, last
data == <<dataDesc, dataComplete, dataMap, dataCache, dataBegun, action, last>>
Data == INSTANCE ActionData WITH
  Names <- DataNames, Folded <- DataFolded, Shapes <- DataShapes,
  desc <- dataDesc, complete <- dataComplete, map <- dataMap, cache <- dataCache, begun <- dataBegun
ASSUME DataConstantsOK == Data!ActionDataConstantsOK

FieldsInit == /\ which \in {"entity", "action"} /\ ViewInit /\ Data!Init
FieldsNext == \/ which = "entity" /\ ViewNext /\ UNCHANGED <<which, data>>
              \/ which = "action" /\ Data!Next /\ UNCHANGED <<which, vars, view>>
FieldsSpec == FieldsInit /\ [][FieldsNext]_<<which, vars, view, data>>

\* The properties of ActionData, which are stated there.
CacheFresh == Data!CacheFresh
DataApart == Data!DataApart
===============================================================================
