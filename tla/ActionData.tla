------------------------------ MODULE ActionData ------------------------------
(***************************************************************************)
(* The data that plugins attach to their actions: one                      *)
(* CBaseNPCPluginActionFactory as an IDataMapContainer                     *)
(* (idatamapcontainer.cpp), the actions it creates (cbasenpc_behavior.cpp) *)
(* and the natives of both (natives/nextbot/behavior.cpp).                 *)
(*                                                                         *)
(* A plugin describes fields, at any time and as often as it wants.  The   *)
(* data map is made with the first action after a description is complete, *)
(* and looked up by name, through a cache, on every access to the data of  *)
(* any action of the factory.                                              *)
(***************************************************************************)
EXTENDS DataLayout

CONSTANTS
  Names,       \* field names that plugins use
  Folded,      \* name -> its key in the cache, which ignores the case of letters
  Shapes,      \* the fields that may be defined: [type, count]
  MaxFields,   \* bound on the fields of a description
  MaxBegins,   \* bound on the descriptions that are begun
  MaxElement,  \* bound on the elements that are named
  Actions      \* the actions that the factory creates

ActionDataConstantsOK ==
  /\ Nameless \notin Names /\ Names \subseteq DOMAIN Folded
  /\ Shapes \subseteq [type : FieldTypes, count : Nat]
  /\ MaxFields \in Nat /\ MaxBegins \in Nat /\ MaxElement \in Nat

VARIABLES
  desc,      \* m_vecEntityDataTypeDescriptors and m_DataMapDescSizeInBytes
  complete,  \* m_bHasDataMapDesc
  map,       \* m_pDataMap: no or one list of descriptors
  cache,     \* m_DataMapCache: key -> descriptor
  begun,     \* how many descriptions have been begun
  action,    \* action -> whether it lives, the size of m_pData, the description it was made under
  last       \* what the last native touched
vars == <<desc, complete, map, cache, begun, action, last>>

NoAccess == [on |-> {}, bytes |-> {}]
NoCache == [k \in {} |-> {}]
NoAction == [alive |-> FALSE, size |-> 0, begun |-> 0]

\* unsigned short
Count(n) == n % 65536
-----------------------------------------------------------------------------
(***************************************************************************)
(* The description                                                         *)
(***************************************************************************)
\* Mutant: The cache outlives the map.
KeptCache == cache
PurgedCache == NoCache

\* BeginDataDesc: DestroyDataDesc, which destroys the map and purges the cache.
\* The actions keep their data.
BeginDataMapDesc ==
  /\ begun < MaxBegins
  /\ desc' = EmptyDescription(0) /\ complete' = FALSE /\ map' = <<>> /\ begun' = begun + 1
  /\ cache' = IF map = <<>> THEN cache ELSE PurgedCache
  /\ last' = NoAccess /\ UNCHANGED action

\* Nothing requires that a description was begun, or is not complete.
DefineDataField(name, shape) ==
  /\ Len(desc.descs) < MaxFields
  /\ desc' = DefineField(desc, name, shape.type, Count(shape.count))
  /\ last' = NoAccess /\ UNCHANGED <<complete, map, cache, begun, action>>

EndDataMapDesc ==
  /\ desc' = EndDescription(desc) /\ complete' = TRUE
  /\ last' = NoAccess /\ UNCHANGED <<map, cache, begun, action>>
-----------------------------------------------------------------------------
(***************************************************************************)
(* Actions                                                                 *)
(***************************************************************************)
\* A map is made once; fields defined later are not in it, but count in the size.
DataSize == IF complete THEN desc.size ELSE 0
Create(a) ==
  /\ ~action[a].alive
  /\ map' = IF complete /\ map = <<>> THEN <<desc.descs>> ELSE map
  /\ action' = [action EXCEPT ![a] = [alive |-> TRUE, size |-> DataSize, begun |-> begun]]
  /\ last' = NoAccess /\ UNCHANGED <<desc, complete, cache, begun>>

Destroy(a) ==
  /\ action[a].alive
  /\ action' = [action EXCEPT ![a] = NoAction]
  /\ last' = NoAccess /\ UNCHANGED <<desc, complete, map, cache, begun>>
-----------------------------------------------------------------------------
(***************************************************************************)
(* Access by name                                                          *)
(***************************************************************************)
\* FindDataMapInfo: the cache first, then the map; only what is found is cached.
Lookup(name) == IF Folded[name] \in DOMAIN cache THEN {cache[Folded[name]]} ELSE Find(map, name)
Remembered(name) ==
  IF Lookup(name) = {} THEN cache
  ELSE [k \in DOMAIN cache \cup {Folded[name]} |->
          IF k = Folded[name] THEN CHOOSE d \in Lookup(name) : TRUE ELSE cache[k]]

\* What each pair of natives stores in a field of each type it accepts, in bytes:
\* Get/SetObjectData, -Float, -Vector, -String (the pooled string, or text in a
\* character array) and -Entity.
Stored ==
  [int |-> [integer |-> 4, color32 |-> 4, modelindex |-> 4, short |-> 2, character |-> 1, boolean |-> 1],
   float |-> [float |-> 4, time |-> 4],
   vector |-> [vector |-> 12],
   string |-> [string |-> 4, character |-> 1],
   entity |-> [ehandle |-> 4]]
Natives == DOMAIN Stored

\* A character array is one text: only its element 0 can be named, and is as long as the array.
ElementAllowed(native, d, element) ==
  ElementExists(d, element) /\ ~(native = "string" /\ d.type = "character" /\ element # 0)
StoredLength(native, d) ==
  IF native = "string" /\ d.type = "character" THEN d.count ELSE Stored[native][d.type]

Touched(native, d, element) ==
  IF ElementAllowed(native, d, element) /\ d.type \in DOMAIN Stored[native]
  THEN LET first == ElementOffset(d, element) IN first .. first + StoredLength(native, d) - 1
  ELSE {}

\* GetData, SetData and their kin.  A found name is cached, even if the element or the
\* type is then refused.
AccessData(native, a, name, element) ==
  /\ action[a].alive /\ action[a].size > 0 /\ map # <<>>
  /\ cache' = Remembered(name)
  /\ last' = [on |-> {a}, bytes |-> UNION { Touched(native, d, element) : d \in Lookup(name) }]
  /\ UNCHANGED <<desc, complete, map, begun, action>>

HasData(a, name) ==
  /\ action[a].alive /\ map # <<>>
  /\ cache' = Remembered(name)
  /\ last' = NoAccess /\ UNCHANGED <<desc, complete, map, begun, action>>
-----------------------------------------------------------------------------
Init ==
  /\ desc = EmptyDescription(0) /\ complete = FALSE /\ map = <<>> /\ cache = NoCache /\ begun = 0
  /\ action = [a \in Actions |-> NoAction] /\ last = NoAccess

Next ==
  \/ BeginDataMapDesc \/ EndDataMapDesc
  \/ \E name \in Names, shape \in Shapes : DefineDataField(name, shape)
  \/ \E a \in Actions : Create(a) \/ Destroy(a)
  \/ \E a \in Actions, name \in Names : HasData(a, name)
  \/ \E native \in Natives, a \in Actions, name \in Names, element \in -1 .. MaxElement :
       AccessData(native, a, name, element)

Spec == Init /\ [][Next]_vars
-----------------------------------------------------------------------------
\* A cached descriptor is the one that a search of the present map finds, for the
\* name that was looked up first under its key: no entry survives its map.
CacheFresh ==
  \A k \in DOMAIN cache :
    \E name \in Names : Folded[name] = k /\ Find(map, name) = {cache[k]}

\* A native on an action that was made under the present description stays inside
\* the action's data, and two different fields or elements share no byte.
FieldsOf(m) == UNION { ToSet(m[i]) : i \in DOMAIN m }
Places(m) == { p \in FieldsOf(m) \X (0 .. MaxElement) : ElementExists(p[1], p[2]) }
ElementBytes(p) == LET n == p[1].bytes \div p[1].count IN
                   ElementOffset(p[1], p[2]) .. ElementOffset(p[1], p[2]) + n - 1
DataApart ==
  /\ \A a \in last.on : action[a].begun = begun => last.bytes \subseteq 0 .. action[a].size - 1
  /\ \A p, q \in Places(map) : p # q => ElementBytes(p) \cap ElementBytes(q) = {}

\* Without that condition, which fails: a factory that is described again while an
\* action lives finds its new fields in the data of the old size.
AlwaysInside == \A a \in last.on : last.bytes \subseteq 0 .. action[a].size - 1

\* And without folding: the field that is found is the one that was named.
FoundByName == \A name \in Names : Folded[name] \in DOMAIN cache => Lookup(name) \subseteq Find(map, name)
===============================================================================
