------------------------------- MODULE NpcIds -------------------------------
(***************************************************************************)
(* The ids of base_npc entities: the slots that NPCs are granted           *)
(* (npc_tools_internal.cpp), the NPC object inside each entity             *)
(* (shared/cbasenpc.h, cbasenpc_internal.cpp) and the natives that reach   *)
(* an NPC by its id or by its entity index (natives/cbasenpc.cpp).         *)
(*                                                                         *)
(* An entity is told of its end when it is removed and destroyed later,    *)
(* and plugins act in between.  An entity, its handle and the NPC object   *)
(* in it go by the same name: an entity index with a serial number.        *)
(***************************************************************************)
EXTENDS Naturals, FiniteSetsExt

CONSTANTS
  Ids,          \* 0 .. MAX_NPCS - 1
  Indexes,      \* the entity indexes that NPCs may have
  MaxPlayers,   \* 32: a slot with the index of a player counts as free
  MaxIndex,     \* 2048
  Serials,      \* bound: how many serial numbers an index has before they wrap around
  Settings      \* the values of one property that plugins set and the mover reads

Nobody == [index |-> MaxIndex + 1, serial |-> 0]   \* a handle or a pointer that is null
NoId == MaxIndex + 1                               \* INVALID_NPC_ID

\* The server has all of its player slots, so that no NPC has the index of a player.
NpcIdsConstantsOK ==
  /\ Ids \subseteq Nat /\ IsFiniteSet(Ids) /\ Ids # {} /\ NoId \notin Ids
  /\ MaxPlayers \in Nat /\ MaxIndex \in Nat
  /\ Indexes \subseteq Nat /\ \A i \in Indexes : i > MaxPlayers /\ i < MaxIndex
  /\ Serials \in Nat \ {0}

VARIABLES
  state,        \* of each index: free, an entity that lives, or one that is being removed
  serial,       \* the serial number of the entity at each index
  id,           \* CExtNPC::m_iIndex of the NPC at each index
  setting,      \* the property in the NPC at each index
  registered,   \* g_registeredNPCS
  objNPC,       \* g_objNPC
  objNPC2,      \* g_objNPC2
  asked         \* history: what plugins set last for the entity at each index

vars == <<state, serial, id, setting, registered, objNPC, objNPC2, asked>>

Init ==
  /\ state = [i \in Indexes |-> "free"] /\ serial = [i \in Indexes |-> 0] /\ id = [i \in Indexes |-> NoId]
  /\ setting \in [Indexes -> Settings] /\ asked = setting
  /\ registered = [n \in Ids |-> Nobody] /\ objNPC = [n \in Ids |-> Nobody]
  /\ objNPC2 = [i \in Indexes |-> Nobody]

Npc(i) == [index |-> i, serial |-> serial[i]]

\* The entity that a handle names, if there still is one; an NPC object is part of it.
Exists(h) == h.index \in Indexes /\ state[h.index] # "free" /\ serial[h.index] = h.serial

------------------------------------------------------------------------------
(* Creation. *)

\* A slot is free when its handle names no index of an NPC, be the handle stale or not.
Free == {n \in Ids : registered[n].index <= MaxPlayers \/ registered[n].index > MaxIndex}
SameIndex(i) == {n \in Ids : registered[n].index = i}

\* The slot with the index, whoever had it, and else the first free one.
GrantedId(i) ==
  IF SameIndex(i) # {} THEN Min(SameIndex(i)) ELSE IF Free # {} THEN Min(Free) ELSE NoId

\* Create_Extra constructs the NPC without an id and Create_PostConstructor grants one; the
\* handle of a slot with the same index stays what it was.
GrantID(i) ==
  LET n == GrantedId(i)
  IN /\ id' = [id EXCEPT ![i] = n]
     /\ IF n = NoId THEN UNCHANGED <<registered, objNPC, objNPC2>>
        ELSE /\ registered' = IF SameIndex(i) = {} THEN [registered EXCEPT ![n] = Npc(i)] ELSE registered
             /\ objNPC' = [objNPC EXCEPT ![n] = Npc(i)]
             /\ objNPC2' = [objNPC2 EXCEPT ![i] = Npc(i)]

\* An entity made by the map, the game or a plugin stays, with an id or without.
Create(i) ==
  /\ state[i] = "free" /\ state' = [state EXCEPT ![i] = "lives"] /\ GrantID(i)
  /\ \E s \in Settings : setting' = [setting EXCEPT ![i] = s] /\ asked' = [asked EXCEPT ![i] = s]
  /\ UNCHANGED serial

\* The native removes an entity that got none, at once: its listeners are told.
CBaseNPCCtor(i) ==
  /\ state[i] = "free" /\ state' = [state EXCEPT ![i] = IF GrantedId(i) = NoId THEN "removed" ELSE "lives"] /\ GrantID(i)
  /\ \E s \in Settings : setting' = [setting EXCEPT ![i] = s] /\ asked' = [asked EXCEPT ![i] = s]
  /\ UNCHANGED serial

------------------------------------------------------------------------------
(* The end. *)

\* The listener hears of the removal and empties the slot of the index.
DeleteNPCByEntIndex(i) ==
  LET npc == objNPC2[i]
  IN /\ objNPC2' = [objNPC2 EXCEPT ![i] = Nobody]
     /\ IF npc # Nobody /\ id[npc.index] # NoId
        THEN /\ objNPC' = [objNPC EXCEPT ![id[npc.index]] = Nobody]
             /\ registered' = [registered EXCEPT ![id[npc.index]] = Nobody]
        ELSE UNCHANGED <<objNPC, registered>>

OnEntityDestroyed(i) ==
  /\ state[i] = "lives" /\ state' = [state EXCEPT ![i] = "removed"] /\ DeleteNPCByEntIndex(i)
  /\ UNCHANGED <<serial, id, setting, asked>>

\* Mutant: the slot is emptied whoever has it now.
OwnsAny(i) == id[i] # NoId

\* Does the slot of the NPC still name its entity?
Owns(i) == id[i] # NoId /\ registered[id[i]] = Npc(i)

\* The destructor of the entity destroys the NPC in it.
DeleteNPC(i) ==
  IF Owns(i)
  THEN /\ objNPC' = [objNPC EXCEPT ![id[i]] = Nobody] /\ objNPC2' = [objNPC2 EXCEPT ![i] = Nobody]
       /\ registered' = [registered EXCEPT ![id[i]] = Nobody]
  ELSE UNCHANGED <<registered, objNPC, objNPC2>>

BotDestroy(i) ==
  /\ state[i] = "removed" /\ state' = [state EXCEPT ![i] = "free"] /\ DeleteNPC(i)
  /\ serial' = [serial EXCEPT ![i] = (@ + 1) % Serials] /\ id' = [id EXCEPT ![i] = NoId]
  /\ UNCHANGED <<setting, asked>>

------------------------------------------------------------------------------
(* Natives. *)

\* CNPCs.IsValidNPC and CNPCs.FindNPCByEntIndex.
IsValidNPC(n) == n \in Ids /\ objNPC[n] # Nobody /\ Exists(objNPC[n])
FindNPCByEntIndex(i) ==
  IF state[i] # "free" /\ objNPC2[i] # Nobody /\ Exists(objNPC2[i]) /\ objNPC2[i].index = i
  THEN id[objNPC2[i].index] ELSE NoId

\* GetExtNPC and CBaseNPC.GetEntity: the natives with an id go to the object in its slot.
GetExtNPC(n) == IF n \in Ids THEN objNPC[n] ELSE Nobody
GetEntity(n) == GetExtNPC(n).index

\* Any of the properties, set by a plugin that means the entity it knows by the id.
SetProperty(i, value) ==
  /\ state[i] = "lives" /\ id[i] # NoId /\ GetExtNPC(id[i]) # Nobody
  /\ setting' = [setting EXCEPT ![GetEntity(id[i])] = value] /\ asked' = [asked EXCEPT ![i] = value]
  /\ UNCHANGED <<state, serial, id, registered, objNPC, objNPC2>>

\* What a plugin reads by the id, and the mover in the object itself.
GetProperty(n) == setting[GetEntity(n)]
MoverReads(i) == setting[i]

Next ==
  \E i \in Indexes :
    \/ Create(i) \/ CBaseNPCCtor(i) \/ OnEntityDestroyed(i) \/ BotDestroy(i)
    \/ \E s \in Settings : SetProperty(i, s)

Spec == Init /\ [][Next]_vars

------------------------------------------------------------------------------
\* Every NPC that lives and has an id is what its id and its entity index name, for natives
\* as for its own mover, whatever is removed and created meanwhile; and the three tables name
\* no other, neither an NPC that is removed and not destroyed yet nor one of an index that is
\* used again (GrantID, DeleteNPC, DeleteNPCByEntIndex, natives/cbasenpc.cpp).
Named(n, i) == state[i] = "lives" /\ id[i] = n /\ registered[n] = Npc(i) /\ objNPC[n] = Npc(i)
IdsResolve ==
  /\ \A i \in Indexes : state[i] = "lives" /\ id[i] # NoId =>
       /\ IsValidNPC(id[i]) /\ FindNPCByEntIndex(i) = id[i] /\ GetEntity(id[i]) = i
       /\ GetProperty(id[i]) = asked[i] /\ MoverReads(i) = asked[i]
  /\ \A n \in Ids : {registered[n], objNPC[n]} # {Nobody} => \E i \in Indexes : Named(n, i)
  /\ \A i \in Indexes : objNPC2[i] # Nobody => objNPC2[i] = Npc(i) /\ Named(id[i], i)
==============================================================================
