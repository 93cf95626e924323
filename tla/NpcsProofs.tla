----------------------------- MODULE NpcsProofs -----------------------------
(***************************************************************************)
(* Proofs about NPCs and bots, for every choice of the constants of        *)
(* MCNpcs: whatever number of ids, indexes, components and nested calls.   *)
(***************************************************************************)
EXTENDS MCNpcs, SequenceTheorems, FiniteSetTheorems, WellFoundedInduction, TLAPS

(***************************************************************************)
(* Least and greatest numbers.                                             *)
(***************************************************************************)

Less == {p \in Nat \X Nat : p[1] < p[2]}

\* The relation that the library's theorem on well-founded relations takes.
LEMMA LessWellFounded == IsWellFoundedOn(Less, Nat)
<1>1. OpToRel(<, Nat) = Less
  BY Zenon DEF OpToRel, Less
<1>. QED
  BY <1>1, NatLessThanWellFounded, Zenon

\* A set of natural numbers has a least one.
LEMMA LeastNumber ==
  ASSUME NEW S \in SUBSET Nat, S # {}
  PROVE  \E x \in S : \A y \in S : x <= y
<1>1. PICK x \in S : \A y \in S : ~(<<y, x>> \in Less)
  BY LessWellFounded, WFMin
<1>2. ASSUME NEW y \in S PROVE x <= y
  <2>1. <<y, x>> \in Nat \X Nat /\ ~(<<y, x>>[1] < <<y, x>>[2])
    BY <1>1 DEF Less
  <2>. QED
    BY <2>1
<1>. QED
  BY <1>2

\* The least number as the ids and the layers choose it.
LEMMA MinChosen ==
  ASSUME NEW S \in SUBSET Nat, S # {}
  PROVE  Npcs!Min(S) \in S
<1>1. PICK x \in S : \A y \in S : x <= y
  BY LeastNumber
<1>. QED
  BY <1>1 DEF Npcs!Min

\* A bounded set of natural numbers has a greatest one.
LEMMA GreatestNumber ==
  ASSUME NEW S \in SUBSET Nat, S # {}, NEW b \in Nat, \A x \in S : x <= b
  PROVE  Layers!Max(S) \in S /\ \A x \in S : x <= Layers!Max(S)
<1> DEFINE T == {b - x : x \in S}
<1>1. T \in SUBSET Nat /\ T # {}
  <2>1. \A x \in S : b - x \in Nat
    OBVIOUS
  <2>. QED
    BY <2>1
<1>2. PICK t \in T : \A u \in T : t <= u
  <2> HIDE DEF T
  <2>. QED
    BY <1>1, LeastNumber
<1>3. PICK m \in S : t = b - m
  BY <1>2
<1>4. \A x \in S : x <= m
  BY <1>2, <1>3
<1>5. \A x \in S : m >= x
  BY <1>4
<1>. QED
  BY <1>5 DEF Layers!Max

\* Finitely many natural numbers have a bound: the least length without one is not zero,
\* and a bound of the others and the last number are below a greater bound.
LEMMA Bounded ==
  ASSUME NEW n \in Nat, NEW f \in [1..n -> Nat]
  PROVE  \E b \in Nat : \A i \in 1..n : f[i] <= b
<1> DEFINE Unbounded(k) == \E g \in [1..k -> Nat] : \A b \in Nat : \E i \in 1..k : ~(g[i] <= b)
           S == {k \in Nat : Unbounded(k)}
<1>1. S = {}
  <2> SUFFICES ASSUME S # {} PROVE FALSE
    OBVIOUS
  <2>0. S \in SUBSET Nat /\ (\A k \in S : Unbounded(k)) /\ (\A k \in Nat : k \notin S => ~Unbounded(k))
    OBVIOUS
  <2> HIDE DEF S
  <2>1. PICK k \in S : \A j \in S : k <= j
    BY <2>0, LeastNumber
  <2>2. PICK g \in [1..k -> Nat] : \A b \in Nat : \E i \in 1..k : ~(g[i] <= b)
    BY <2>0
  <2>3. k \in Nat /\ k # 0
    <3>1. k \in Nat
      BY <2>0
    <3>2. PICK i \in 1..k : ~(g[i] <= 0)
      BY <2>2
    <3>. QED
      BY <3>1, <3>2
  <2>4. k - 1 \in Nat /\ k - 1 \notin S
    BY <2>1, <2>3
  <2>5. ~Unbounded(k - 1)
    BY <2>0, <2>4
  <2> DEFINE h == [i \in 1..(k - 1) |-> g[i]]
  <2>6. h \in [1..(k - 1) -> Nat]
    <3>1. \A i \in 1..(k - 1) : i \in 1..k /\ g[i] \in Nat
      BY <2>3
    <3>. QED
      BY <3>1
  <2>7. PICK b \in Nat : \A i \in 1..(k - 1) : h[i] <= b
    <3> HIDE DEF h
    <3>. QED
      BY <2>5, <2>6
  <2>8. g[k] \in Nat /\ b + g[k] \in Nat
    BY <2>3
  <2>9. \A i \in 1..k : g[i] <= b + g[k]
    <3> SUFFICES ASSUME NEW i \in 1..k PROVE g[i] <= b + g[k]
      OBVIOUS
    <3>1. CASE i = k
      BY <2>8, <3>1
    <3>2. CASE i # k
      <4>1. i \in 1..(k - 1) /\ g[i] \in Nat
        BY <2>3, <3>2
      <4>. QED
        BY <2>7, <2>8, <4>1
    <3>. QED
      BY <3>1, <3>2
  <2>. QED
    BY <2>2, <2>8, <2>9
<1>2. n \notin S
  BY <1>1
<1>3. ~Unbounded(n)
  BY <1>2
<1>. QED
  BY <1>3

(***************************************************************************)
(* The behaviours of MCNpcs are behaviours of each of its parts.           *)
(***************************************************************************)

\* The components of a bot move only by their own steps.
LEMMA ComponentsAlone == NpcsSpec => Components!Spec
<1>1. NpcsInit => Components!Init
  BY DEF NpcsInit
<1>2. [NpcsNext]_allVars => [Components!Next]_(Components!vars)
  BY DEF NpcsNext, allVars, componentVars, Components!vars, LocomotionStep, ScheduleStep
<1>. QED
  BY <1>1, <1>2, PTL DEF NpcsSpec, Components!Spec

(***************************************************************************)
(* The components of a bot: each is updated once in a tick.                *)
(***************************************************************************)

\* What the last update of a component says of the updates in this tick.
UpdatesOf(c) ==
  \/ fresh[c] /\ age[c] = "never" /\ times[c] = 0
  \/ fresh[c] /\ age[c] = "before" /\ times[c] = 1
  \/ fresh[c] /\ age[c] = "now" /\ times[c] \in {0, 1, 2}
  \/ ~fresh[c] /\ age[c] = "before" /\ times[c] = 0
  \/ ~fresh[c] /\ age[c] = "now" /\ times[c] \in {0, 1}

UpdatesCounted ==
  /\ age \in [Kinds -> {"never", "before", "now"}]
  /\ times \in [Kinds -> Nat] /\ fresh \in [Kinds -> BOOLEAN]
  /\ \A c \in Kinds : UpdatesOf(c)

\* A component that is made or reset starts afresh.
LEMMA ForgottenCounted ==
  ASSUME UpdatesCounted, NEW cs, Components!Forgotten(cs)
  PROVE  UpdatesCounted'
BY DEF UpdatesCounted, UpdatesOf, Components!Forgotten

\* An update that is due counts once, and dates the component.
LEMMA VisitCounted ==
  ASSUME UpdatesCounted, Components!VisitComponent
  PROVE  UpdatesCounted'
<1>1. fresh' = fresh
  BY DEF Components!VisitComponent
<1>2. CASE UNCHANGED <<age, times>>
  BY <1>1, <1>2 DEF UpdatesCounted, UpdatesOf
<1>3. ASSUME NEW c, Components!Due(c), age' = Components!Dated(c), times' = [times EXCEPT ![c] = @ + 1]
      PROVE  UpdatesCounted'
  <2>1. CASE c \notin Kinds
    <3>1. age' = age /\ times' = times
      BY <1>3, <2>1 DEF UpdatesCounted, Components!Dated
    <3>. QED
      BY <1>1, <3>1 DEF UpdatesCounted, UpdatesOf
  <2>2. CASE c \in Kinds
    BY <1>1, <1>3, <2>2 DEF UpdatesCounted, UpdatesOf, Components!Dated, Components!Due
  <2>. QED
    BY <2>1, <2>2
<1>. QED
  BY <1>2, <1>3 DEF Components!VisitComponent

\* Every step of a bot's components keeps the counts.
LEMMA UpdatesStayCounted == UpdatesCounted /\ [Components!Next]_(Components!vars) => UpdatesCounted'
<1> SUFFICES ASSUME UpdatesCounted, [Components!Next]_(Components!vars) PROVE UpdatesCounted'
  OBVIOUS
<1>1. CASE UNCHANGED <<age, times, fresh>>
  BY <1>1 DEF UpdatesCounted, UpdatesOf
<1>2. ASSUME NEW c \in Kinds, Components!GetInterface(c) PROVE UpdatesCounted'
  BY <1>2, ForgottenCounted DEF Components!GetInterface
<1>3. ASSUME NEW c \in Kinds, Components!ComponentReset(c) PROVE UpdatesCounted'
  BY <1>3, ForgottenCounted DEF Components!ComponentReset
<1>4. CASE Components!BotReset
  BY <1>4, ForgottenCounted DEF Components!BotReset
<1>5. CASE Components!VisitComponent
  BY <1>5, VisitCounted
<1>6. CASE Components!Tick
  BY <1>6 DEF UpdatesCounted, UpdatesOf, Components!Tick
<1>. QED
  BY <1>1, <1>2, <1>3, <1>4, <1>5, <1>6
  DEF Components!Next, Components!vars, Components!UnregisterIntention, Components!BotUpdate,
      Components!ComponentUpdate, Components!Return

\* However deeply plugins nest updates of the bot, the loops of INextBot::Update update a
\* component at most once in a tick, at most twice where it had never been updated, counted
\* from its last reset on.
THEOREM BotUpdatesOnce == NpcsSpec => []UpdatedOnce
<1>1. Components!Init => UpdatesCounted
  BY DEF Components!Init, UpdatesCounted, UpdatesOf
<1>2. UpdatesCounted => UpdatedOnce
  BY DEF UpdatesCounted, UpdatesOf, UpdatedOnce, Components!UpdatedOnce
<1>. QED
  BY <1>1, <1>2, UpdatesStayCounted, ComponentsAlone, PTL DEF Components!Spec


(***************************************************************************)
(* The ids of NPCs.                                                        *)
(***************************************************************************)

\* The ids of NPCs change only by their own steps.
LEMMA IdsAlone == NpcsSpec => Npcs!Spec
<1>1. NpcsInit => Npcs!Init
  BY DEF NpcsInit
<1>2. [NpcsNext]_allVars => [Npcs!Next]_(Npcs!vars)
  BY DEF NpcsNext, allVars, idVars, Npcs!vars, LocomotionStep, ScheduleStep
<1>. QED
  BY <1>1, <1>2, PTL DEF NpcsSpec, Npcs!Spec

HasId(i) == state[i] = "lives" /\ id[i] # Npcs!NoId

IdsTyped ==
  /\ state \in [Indexes -> {"free", "lives", "removed"}] /\ serial \in [Indexes -> Nat]
  /\ id \in [Indexes -> Ids \union {Npcs!NoId}]
  /\ setting \in [Indexes -> Settings] /\ asked = setting
  /\ DOMAIN registered = Ids /\ DOMAIN objNPC2 = Indexes

\* The three tables name exactly the NPCs that live and have an id.
TablesAgree ==
  /\ objNPC = registered
  /\ \A i \in Indexes : HasId(i) => registered[id[i]] = Npcs!Npc(i)
  /\ \A i \in Indexes : objNPC2[i] = IF HasId(i) THEN Npcs!Npc(i) ELSE Npcs!Nobody
  /\ \A n \in Ids : registered[n] # Npcs!Nobody =>
       \E i \in Indexes : HasId(i) /\ id[i] = n /\ registered[n] = Npcs!Npc(i)

IdsInv == IdsTyped /\ TablesAgree

\* What the ids and indexes are, as the proofs use it.
LEMMA IdConstants ==
  /\ Ids \subseteq Nat /\ Indexes \subseteq Nat /\ MaxPlayers \in Nat /\ MaxIndex \in Nat /\ Serials \in Nat \ {0}
  /\ Npcs!NoId \notin Ids /\ \A i \in Indexes : i > MaxPlayers /\ i < MaxIndex
BY ConstantsOK DEF Npcs!NpcIdsConstantsOK

\* A handle of an NPC names its index and is not the empty one.
LEMMA NpcNamesIndex ==
  ASSUME NEW i \in Indexes
  PROVE  Npcs!Npc(i).index = i /\ Npcs!Npc(i) # Npcs!Nobody
BY IdConstants DEF Npcs!Npc, Npcs!Nobody

\* No slot has the index of an entity that does not exist, so that a new NPC is granted a
\* slot that names nobody, or no slot.
LEMMA GrantedSlot ==
  ASSUME IdsInv, NEW i \in Indexes, state[i] = "free"
  PROVE  /\ Npcs!SameIndex(i) = {}
         /\ Npcs!GrantedId(i) \in Ids \union {Npcs!NoId}
         /\ Npcs!GrantedId(i) # Npcs!NoId => registered[Npcs!GrantedId(i)] = Npcs!Nobody
<1>1. Npcs!Nobody.index = MaxIndex + 1
  BY DEF Npcs!Nobody
<1>2. \A n \in Ids : registered[n].index # i
  <2> SUFFICES ASSUME NEW n \in Ids, registered[n].index = i PROVE FALSE
    OBVIOUS
  <2>1. registered[n] # Npcs!Nobody
    BY <1>1, IdConstants
  <2>2. PICK j \in Indexes : HasId(j) /\ registered[n] = Npcs!Npc(j)
    BY <2>1 DEF IdsInv, TablesAgree
  <2>. QED
    BY <2>2, NpcNamesIndex DEF HasId
<1>3. Npcs!SameIndex(i) = {}
  BY <1>2 DEF Npcs!SameIndex
<1>4. Npcs!Free \in SUBSET Nat /\ Npcs!Free \subseteq Ids
  BY IdConstants DEF Npcs!Free
<1>5. \A n \in Npcs!Free : registered[n] = Npcs!Nobody
  <2> SUFFICES ASSUME NEW n \in Npcs!Free, registered[n] # Npcs!Nobody PROVE FALSE
    OBVIOUS
  <2>1. PICK j \in Indexes : registered[n] = Npcs!Npc(j)
    BY <1>4 DEF IdsInv, TablesAgree
  <2>. QED
    BY <2>1, NpcNamesIndex, IdConstants DEF Npcs!Free
<1>. QED
  BY <1>3, <1>4, <1>5, MinChosen DEF Npcs!GrantedId

\* An NPC that is constructed becomes a member of all the tables, or of none.
LEMMA GrantKeeps ==
  ASSUME IdsInv, NEW i \in Indexes, state[i] = "free", Npcs!GrantID(i),
         NEW s \in {"lives", "removed"}, state' = [state EXCEPT ![i] = s],
         s = "removed" => Npcs!GrantedId(i) = Npcs!NoId,
         NEW v \in Settings, setting' = [setting EXCEPT ![i] = v], asked' = [asked EXCEPT ![i] = v],
         UNCHANGED serial
  PROVE  IdsInv'
<1> DEFINE n == Npcs!GrantedId(i)
<1>0. IdsTyped /\ TablesAgree
  BY DEF IdsInv
<1>1. /\ Npcs!SameIndex(i) = {} /\ n \in Ids \union {Npcs!NoId}
      /\ n # Npcs!NoId => registered[n] = Npcs!Nobody
  BY GrantedSlot
<1>2. id' = [id EXCEPT ![i] = n]
  BY DEF Npcs!GrantID
<1>3. \A j \in Indexes : Npcs!Npc(j)' = Npcs!Npc(j)
  BY DEF Npcs!Npc
<1>4. \A j \in Indexes : j # i => (HasId(j)' <=> HasId(j)) /\ id'[j] = id[j]
  BY <1>0, <1>2 DEF HasId, IdsTyped
<1>5. ~HasId(i) /\ (HasId(i)' <=> n # Npcs!NoId) /\ id'[i] = n
  BY <1>0, <1>1, <1>2 DEF HasId, IdsTyped
<1>6. CASE n = Npcs!NoId
  <2>1. UNCHANGED <<registered, objNPC, objNPC2>>
    BY <1>6 DEF Npcs!GrantID
  <2>2. IdsTyped'
    BY <1>0, <1>1, <1>2, <2>1 DEF IdsTyped
  <2>3. ~HasId(i)' /\ \A j \in Indexes : (HasId(j)' <=> HasId(j))
    BY <1>4, <1>5, <1>6
  <2>4. TablesAgree'
    BY <1>0, <1>3, <1>4, <1>5, <2>1, <2>3 DEF TablesAgree
  <2>. QED
    BY <2>2, <2>4 DEF IdsInv
<1>7. CASE n # Npcs!NoId
  <2>1. /\ n \in Ids /\ registered[n] = Npcs!Nobody
        /\ registered' = [registered EXCEPT ![n] = Npcs!Npc(i)]
        /\ objNPC' = [objNPC EXCEPT ![n] = Npcs!Npc(i)]
        /\ objNPC2' = [objNPC2 EXCEPT ![i] = Npcs!Npc(i)]
    BY <1>1, <1>7 DEF Npcs!GrantID
  <2>2. IdsTyped'
    BY <1>0, <1>1, <1>2, <2>1 DEF IdsTyped
  <2>3. \A j \in Indexes : HasId(j) => id[j] # n
    BY <1>0, <2>1, NpcNamesIndex DEF TablesAgree
  <2>4. objNPC' = registered'
    BY <1>0, <2>1 DEF TablesAgree
  <2>5. \A j \in Indexes : HasId(j)' => registered'[id'[j]] = Npcs!Npc(j)'
    BY <1>0, <1>3, <1>4, <1>5, <2>1, <2>3 DEF TablesAgree, IdsTyped, HasId
  <2>6. \A j \in Indexes : objNPC2'[j] = IF HasId(j)' THEN Npcs!Npc(j)' ELSE Npcs!Nobody
    BY <1>0, <1>3, <1>4, <1>5, <1>7, <2>1 DEF TablesAgree, IdsTyped
  <2>7. \A m \in Ids : registered'[m] # Npcs!Nobody =>
          \E j \in Indexes : HasId(j)' /\ id'[j] = m /\ registered'[m] = Npcs!Npc(j)'
    <3> SUFFICES ASSUME NEW m \in Ids, registered'[m] # Npcs!Nobody
                 PROVE  \E j \in Indexes : HasId(j)' /\ id'[j] = m /\ registered'[m] = Npcs!Npc(j)'
      OBVIOUS
    <3>1. CASE m = n
      BY <1>0, <1>3, <1>5, <1>7, <2>1, <3>1 DEF IdsTyped
    <3>2. CASE m # n
      <4>1. registered'[m] = registered[m]
        BY <1>0, <2>1, <3>2 DEF IdsTyped
      <4>2. PICK j \in Indexes : HasId(j) /\ id[j] = m /\ registered[m] = Npcs!Npc(j)
        BY <1>0, <4>1 DEF TablesAgree
      <4>3. j # i
        BY <1>5, <4>2
      <4>. QED
        BY <1>3, <1>4, <4>1, <4>2, <4>3
    <3>. QED
      BY <3>1, <3>2
  <2>. QED
    BY <2>2, <2>4, <2>5, <2>6, <2>7 DEF IdsInv, TablesAgree
<1>. QED
  BY <1>6, <1>7

\* The removal of an NPC empties its slot and the entry of its index, and nothing else.
LEMMA RemovalKeeps ==
  ASSUME IdsInv, NEW i \in Indexes, Npcs!OnEntityDestroyed(i)
  PROVE  IdsInv'
<1>0. IdsTyped /\ TablesAgree
  BY DEF IdsInv
<1>1. /\ state[i] = "lives" /\ state' = [state EXCEPT ![i] = "removed"]
      /\ UNCHANGED <<serial, id, setting, asked>>
      /\ objNPC2' = [objNPC2 EXCEPT ![i] = Npcs!Nobody]
  BY DEF Npcs!OnEntityDestroyed, Npcs!DeleteNPCByEntIndex
<1>2. \A j \in Indexes : Npcs!Npc(j)' = Npcs!Npc(j)
  BY <1>1 DEF Npcs!Npc
<1>3. ~HasId(i)' /\ \A j \in Indexes \ {i} : HasId(j)' <=> HasId(j)
  BY <1>0, <1>1 DEF HasId, IdsTyped
<1>4. CASE HasId(i)
  <2>1. /\ objNPC2[i] = Npcs!Npc(i) /\ objNPC2[i] # Npcs!Nobody /\ objNPC2[i].index = i
        /\ id[i] # Npcs!NoId
    BY <1>0, <1>4, NpcNamesIndex DEF TablesAgree, HasId
  <2>2. /\ objNPC' = [objNPC EXCEPT ![id[i]] = Npcs!Nobody]
        /\ registered' = [registered EXCEPT ![id[i]] = Npcs!Nobody]
    BY <2>1 DEF Npcs!OnEntityDestroyed, Npcs!DeleteNPCByEntIndex
  <2>3. IdsTyped'
    BY <1>0, <1>1, <2>2 DEF IdsTyped
  <2>4. \A j \in Indexes : HasId(j) /\ id[j] = id[i] => j = i
    BY <1>0, <1>4, NpcNamesIndex DEF TablesAgree
  <2>5. \A j \in Indexes : HasId(j)' => registered'[id'[j]] = Npcs!Npc(j)'
    BY <1>0, <1>1, <1>2, <1>3, <2>2, <2>4 DEF TablesAgree, IdsTyped, HasId
  <2>6. \A j \in Indexes : objNPC2'[j] = IF HasId(j)' THEN Npcs!Npc(j)' ELSE Npcs!Nobody
    BY <1>0, <1>1, <1>2, <1>3 DEF TablesAgree, IdsTyped
  <2>7. \A m \in Ids : registered'[m] # Npcs!Nobody =>
          \E j \in Indexes : HasId(j)' /\ id'[j] = m /\ registered'[m] = Npcs!Npc(j)'
    <3> SUFFICES ASSUME NEW m \in Ids, registered'[m] # Npcs!Nobody
                 PROVE  \E j \in Indexes : HasId(j)' /\ id'[j] = m /\ registered'[m] = Npcs!Npc(j)'
      OBVIOUS
    <3>1. m # id[i] /\ registered'[m] = registered[m]
      BY <1>0, <2>2 DEF IdsTyped
    <3>2. PICK j \in Indexes : HasId(j) /\ id[j] = m /\ registered[m] = Npcs!Npc(j)
      BY <1>0, <3>1 DEF TablesAgree
    <3>3. j # i
      BY <3>1, <3>2
    <3>. QED
      BY <1>1, <1>2, <1>3, <3>1, <3>2, <3>3
  <2>8. objNPC' = registered'
    BY <1>0, <2>2 DEF TablesAgree
  <2>. QED
    BY <2>3, <2>5, <2>6, <2>7, <2>8 DEF IdsInv, TablesAgree
<1>5. CASE ~HasId(i)
  <2>1. UNCHANGED <<objNPC, registered>>
    BY <1>0, <1>5 DEF Npcs!OnEntityDestroyed, Npcs!DeleteNPCByEntIndex, TablesAgree
  <2>2. IdsTyped'
    BY <1>0, <1>1, <2>1 DEF IdsTyped
  <2>3. \A j \in Indexes : HasId(j)' <=> HasId(j)
    BY <1>3, <1>5
  <2>4. \A j \in Indexes : objNPC2'[j] = IF HasId(j)' THEN Npcs!Npc(j)' ELSE Npcs!Nobody
    BY <1>0, <1>1, <1>2, <1>3 DEF TablesAgree, IdsTyped
  <2>5. TablesAgree'
    BY <1>0, <1>1, <1>2, <2>1, <2>3, <2>4 DEF TablesAgree
  <2>. QED
    BY <2>2, <2>5 DEF IdsInv
<1>. QED
  BY <1>4, <1>5

\* An NPC that is destroyed later owns no slot any more, whoever has the slot now.
LEMMA DestructionKeeps ==
  ASSUME IdsInv, NEW i \in Indexes, Npcs!BotDestroy(i)
  PROVE  IdsInv'
<1>0. IdsTyped /\ TablesAgree
  BY DEF IdsInv
<1>1. /\ state[i] = "removed" /\ state' = [state EXCEPT ![i] = "free"]
      /\ serial' = [serial EXCEPT ![i] = (@ + 1) % Serials]
      /\ id' = [id EXCEPT ![i] = Npcs!NoId] /\ UNCHANGED <<setting, asked>>
  BY DEF Npcs!BotDestroy
<1>2. \A n \in Ids : registered[n] # Npcs!Npc(i)
  BY <1>0, <1>1, NpcNamesIndex DEF TablesAgree, HasId
<1>3. ~Npcs!Owns(i)
  BY <1>0, <1>2 DEF Npcs!Owns, IdsTyped
<1>4. UNCHANGED <<registered, objNPC, objNPC2>>
  BY <1>3 DEF Npcs!BotDestroy, Npcs!DeleteNPC
<1>5. IdsTyped'
  BY <1>0, <1>1, <1>4, IdConstants DEF IdsTyped
<1>6. ~HasId(i) /\ ~HasId(i)'
  BY <1>0, <1>1 DEF HasId, IdsTyped
<1>7. \A j \in Indexes \ {i} : (HasId(j)' <=> HasId(j)) /\ id'[j] = id[j] /\ Npcs!Npc(j)' = Npcs!Npc(j)
  BY <1>0, <1>1 DEF HasId, IdsTyped, Npcs!Npc
<1>8. TablesAgree'
  BY <1>0, <1>4, <1>6, <1>7 DEF TablesAgree
<1>. QED
  BY <1>5, <1>8 DEF IdsInv

\* What an id names is the entity that the plugin means.
LEMMA PropertyKeeps ==
  ASSUME IdsInv, NEW i \in Indexes, NEW s \in Settings, Npcs!SetProperty(i, s)
  PROVE  IdsInv'
<1>0. IdsTyped /\ TablesAgree
  BY DEF IdsInv
<1>1. /\ UNCHANGED <<state, serial, id, registered, objNPC, objNPC2>>
      /\ setting' = [setting EXCEPT ![Npcs!GetEntity(id[i])] = s]
      /\ asked' = [asked EXCEPT ![i] = s]
      /\ HasId(i)
  BY DEF Npcs!SetProperty, HasId
<1>2. id[i] \in Ids /\ objNPC[id[i]] = Npcs!Npc(i)
  BY <1>0, <1>1 DEF IdsTyped, TablesAgree, HasId
<1>3. Npcs!GetEntity(id[i]) = i
  BY <1>2, NpcNamesIndex DEF Npcs!GetEntity, Npcs!GetExtNPC
<1>4. IdsTyped'
  BY <1>0, <1>1, <1>3 DEF IdsTyped
<1>5. TablesAgree'
  BY <1>0, <1>1 DEF TablesAgree, HasId, Npcs!Npc
<1>. QED
  BY <1>4, <1>5 DEF IdsInv

\* Every native, creation and removal keeps the tables in agreement.
LEMMA IdsStayConsistent == IdsInv /\ [Npcs!Next]_(Npcs!vars) => IdsInv'
<1> SUFFICES ASSUME IdsInv, [Npcs!Next]_(Npcs!vars) PROVE IdsInv'
  OBVIOUS
<1>1. CASE UNCHANGED Npcs!vars
  BY <1>1 DEF Npcs!vars, IdsInv, IdsTyped, TablesAgree, HasId, Npcs!Npc
<1>2. ASSUME NEW i \in Indexes, Npcs!Create(i) PROVE IdsInv'
  BY <1>2, GrantKeeps DEF Npcs!Create
<1>3. ASSUME NEW i \in Indexes, Npcs!CBaseNPCCtor(i) PROVE IdsInv'
  <2>1. CASE Npcs!GrantedId(i) = Npcs!NoId
    BY <1>3, <2>1, GrantKeeps DEF Npcs!CBaseNPCCtor
  <2>2. CASE Npcs!GrantedId(i) # Npcs!NoId
    BY <1>3, <2>2, GrantKeeps DEF Npcs!CBaseNPCCtor
  <2>. QED
    BY <2>1, <2>2
<1>. QED
  BY <1>1, <1>2, <1>3, RemovalKeeps, DestructionKeeps, PropertyKeeps DEF Npcs!Next

\* Without NPCs the tables are empty and agree.
LEMMA IdsInitially == Npcs!Init => IdsInv
<1> SUFFICES ASSUME Npcs!Init PROVE IdsInv
  OBVIOUS
<1>1. IdsTyped
  BY DEF Npcs!Init, IdsTyped
<1>2. TablesAgree
  BY DEF Npcs!Init, TablesAgree, HasId
<1>. QED
  BY <1>1, <1>2 DEF IdsInv

\* Tables that agree resolve every id and index.
LEMMA ConsistentResolve == IdsInv => IdsResolve
<1> SUFFICES ASSUME IdsInv PROVE IdsResolve
  OBVIOUS
<1>0. IdsTyped /\ TablesAgree
  BY DEF IdsInv
<1>1. ASSUME NEW i \in Indexes, HasId(i)
      PROVE  Npcs!Exists(Npcs!Npc(i))
  BY <1>1, NpcNamesIndex DEF Npcs!Exists, Npcs!Npc, HasId
<1>2. ASSUME NEW i \in Indexes, state[i] = "lives", id[i] # Npcs!NoId
      PROVE  /\ Npcs!IsValidNPC(id[i]) /\ Npcs!FindNPCByEntIndex(i) = id[i] /\ Npcs!GetEntity(id[i]) = i
             /\ Npcs!GetProperty(id[i]) = asked[i] /\ Npcs!MoverReads(i) = asked[i]
  <2>1. HasId(i) /\ id[i] \in Ids /\ objNPC[id[i]] = Npcs!Npc(i) /\ objNPC2[i] = Npcs!Npc(i)
    BY <1>0, <1>2 DEF HasId, IdsTyped, TablesAgree
  <2>2. Npcs!IsValidNPC(id[i])
    BY <1>1, <2>1, NpcNamesIndex DEF Npcs!IsValidNPC
  <2>3. Npcs!FindNPCByEntIndex(i) = id[i]
    BY <1>1, <1>2, <2>1, NpcNamesIndex DEF Npcs!FindNPCByEntIndex
  <2>4. Npcs!GetEntity(id[i]) = i
    BY <2>1, NpcNamesIndex DEF Npcs!GetEntity, Npcs!GetExtNPC
  <2>5. Npcs!GetProperty(id[i]) = asked[i] /\ Npcs!MoverReads(i) = asked[i]
    BY <1>0, <2>4 DEF IdsTyped, Npcs!GetProperty, Npcs!MoverReads
  <2>. QED
    BY <2>2, <2>3, <2>4, <2>5
<1>3. ASSUME NEW n \in Ids, {registered[n], objNPC[n]} # {Npcs!Nobody}
      PROVE  \E i \in Indexes : Npcs!Named(n, i)
  <2>1. objNPC[n] = registered[n] /\ registered[n] # Npcs!Nobody
    BY <1>0, <1>3 DEF TablesAgree
  <2>2. PICK i \in Indexes : HasId(i) /\ id[i] = n /\ registered[n] = Npcs!Npc(i)
    BY <1>0, <2>1 DEF TablesAgree
  <2>. QED
    BY <2>1, <2>2 DEF Npcs!Named, HasId
<1>4. ASSUME NEW i \in Indexes, objNPC2[i] # Npcs!Nobody
      PROVE  objNPC2[i] = Npcs!Npc(i) /\ Npcs!Named(id[i], i)
  <2>1. HasId(i) /\ objNPC2[i] = Npcs!Npc(i)
    BY <1>0, <1>4 DEF TablesAgree
  <2>2. registered[id[i]] = Npcs!Npc(i) /\ objNPC[id[i]] = Npcs!Npc(i)
    BY <1>0, <2>1 DEF TablesAgree
  <2>. QED
    BY <2>1, <2>2 DEF Npcs!Named, HasId
<1>. QED
  BY <1>2, <1>3, <1>4 DEF IdsResolve, Npcs!IdsResolve

\* Where no NPC has an entity index up to MaxPlayers (NpcIdsConstantsOK): whatever is created,
\* removed and destroyed, and whatever number of ids and serial numbers there is, an id and an
\* entity index of a living NPC resolve to it, and the three tables name nobody else.
THEOREM IdsAlwaysResolve == NpcsSpec => []IdsResolve
BY IdsInitially, IdsStayConsistent, ConsistentResolve, IdsAlone, PTL DEF Npcs!Spec

(***************************************************************************)
(* The locomotion of an NPC: the stack of callback types.                  *)
(***************************************************************************)

\* The locomotion moves only by its own steps.
LEMMA LocomotionAlone == NpcsSpec => Init /\ [][Next]_vars
<1>1. NpcsInit => Init
  BY DEF NpcsInit
<1>2. [NpcsNext]_allVars => [Next]_vars
  BY DEF NpcsNext, allVars, LocomotionStep, ScheduleStep
<1>. QED
  BY <1>1, <1>2, PTL DEF NpcsSpec

Frame == [do : {"callback", "default", "handler", "mark", "monitor"}, type : CallbackTypes \union {"event", "stuck"}]
IsFunction(frame) == frame.do \in {"callback", "default"}

\* The types of ts are those of the functions in rs, in their order: p says where each is.
Follows(ts, rs) ==
  \E p \in [1..Len(ts) -> 1..Len(rs)] :
    /\ \A i, j \in 1..Len(ts) : i < j => p[i] < p[j]
    /\ \A j \in 1..Len(ts) : IsFunction(rs[p[j]]) /\ rs[p[j]].type = ts[j]
    /\ \A k \in 1..Len(rs) : IsFunction(rs[k]) => \E j \in 1..Len(ts) : p[j] = k

CallsTyped == run \in Seq(Frame) /\ types \in Seq(CallbackTypes) /\ DOMAIN callback = CallbackTypes
CallsInv == CallsTyped /\ Follows(types, run)

\* The sequences that a call pushes and a return pops.
LEMMA FrontLast ==
  ASSUME NEW S, NEW s \in Seq(S), s # <<>>
  PROVE  /\ Front(s) \in Seq(S) /\ Last(s) \in S /\ Len(s) \in Nat \ {0}
         /\ Len(Front(s)) = Len(s) - 1
         /\ \A i \in 1..(Len(s) - 1) : Front(s)[i] = s[i]
<1>1. Len(s) \in Nat \ {0} /\ \A i \in 1..Len(s) : s[i] \in S
  BY EmptySeq, ElementOfSeq
<1>2. \A i \in 1..(Len(s) - 1) : s[i] \in S
  BY <1>1
<1> DEFINE n == Len(s)
           f == SubSeq(s, 1, n - 1)
<1>3. /\ f \in Seq(S)
      /\ Len(f) = IF 1 <= n - 1 THEN n - 1 - 1 + 1 ELSE 0
      /\ \A i \in 1..(n - 1 - 1 + 1) : f[i] = s[1 + i - 1]
  BY <1>1, <1>2, SubSeqProperties
<1>4. n \in Nat \ {0} /\ s[n] \in S
  BY <1>1
<1>5. f = Front(s) /\ s[n] = Last(s)
  BY DEF Front, Last
<1> HIDE DEF f, n
<1>6. Len(f) = n - 1 /\ \A i \in 1..(n - 1) : f[i] = s[i]
  BY <1>3, <1>4
<1>7. f \in Seq(S) /\ s[n] \in S /\ n \in Nat \ {0} /\ Len(f) = n - 1 /\ \A i \in 1..(n - 1) : f[i] = s[i]
  BY <1>3, <1>4, <1>6
<1>. QED
  BY <1>5, <1>7 DEF n

\* A frame that is no function leaves the types as they are, when it comes and when it goes.
LEMMA FollowsPushed ==
  ASSUME NEW ts \in Seq(CallbackTypes), NEW rs \in Seq(Frame), Follows(ts, rs),
         NEW frame \in Frame, ~IsFunction(frame)
  PROVE  Follows(ts, Append(rs, frame))
<1>1. /\ Len(Append(rs, frame)) = Len(rs) + 1 /\ Len(rs) \in Nat /\ Len(ts) \in Nat
      /\ \A i \in 1..Len(rs) : Append(rs, frame)[i] = rs[i]
      /\ Append(rs, frame)[Len(rs) + 1] = frame
  BY AppendProperties, LenProperties
<1>2. PICK p \in [1..Len(ts) -> 1..Len(rs)] :
    /\ \A i, j \in 1..Len(ts) : i < j => p[i] < p[j]
    /\ \A j \in 1..Len(ts) : IsFunction(rs[p[j]]) /\ rs[p[j]].type = ts[j]
    /\ \A k \in 1..Len(rs) : IsFunction(rs[k]) => \E j \in 1..Len(ts) : p[j] = k
  BY DEF Follows
<1>3. p \in [1..Len(ts) -> 1..Len(Append(rs, frame))]
  BY <1>1
<1>4. \A k \in 1..Len(Append(rs, frame)) : IsFunction(Append(rs, frame)[k]) => \E j \in 1..Len(ts) : p[j] = k
  BY <1>1, <1>2
<1>5. \A j \in 1..Len(ts) : IsFunction(Append(rs, frame)[p[j]]) /\ Append(rs, frame)[p[j]].type = ts[j]
  BY <1>1, <1>2
<1>. QED
  BY <1>2, <1>3, <1>4, <1>5 DEF Follows

\* A function that returns takes its type with it.
LEMMA FollowsPopped ==
  ASSUME NEW ts \in Seq(CallbackTypes), NEW rs \in Seq(Frame), Follows(ts, rs),
         rs # <<>>, ~IsFunction(Last(rs))
  PROVE  Follows(ts, Front(rs))
<1>1. /\ Len(Front(rs)) = Len(rs) - 1 /\ Len(rs) \in Nat \ {0} /\ Len(ts) \in Nat
      /\ \A i \in 1..(Len(rs) - 1) : Front(rs)[i] = rs[i]
  BY FrontLast, LenProperties
<1>2. PICK p \in [1..Len(ts) -> 1..Len(rs)] :
    /\ \A i, j \in 1..Len(ts) : i < j => p[i] < p[j]
    /\ \A j \in 1..Len(ts) : IsFunction(rs[p[j]]) /\ rs[p[j]].type = ts[j]
    /\ \A k \in 1..Len(rs) : IsFunction(rs[k]) => \E j \in 1..Len(ts) : p[j] = k
  BY DEF Follows
<1>3. \A j \in 1..Len(ts) : p[j] \in 1..(Len(rs) - 1)
  BY <1>1, <1>2 DEF Last
<1>4. p \in [1..Len(ts) -> 1..Len(Front(rs))]
  BY <1>1, <1>3
<1>5. \A k \in 1..Len(Front(rs)) : IsFunction(Front(rs)[k]) => \E j \in 1..Len(ts) : p[j] = k
  BY <1>1, <1>2
<1>6. \A j \in 1..Len(ts) : IsFunction(Front(rs)[p[j]]) /\ Front(rs)[p[j]].type = ts[j]
  BY <1>1, <1>2, <1>3
<1>. QED
  BY <1>2, <1>4, <1>5, <1>6 DEF Follows

\* A function that is called puts its type on top, and takes the top off when it returns.
LEMMA FollowsCalled ==
  ASSUME NEW ts \in Seq(CallbackTypes), NEW rs \in Seq(Frame), Follows(ts, rs),
         NEW frame \in Frame, IsFunction(frame)
  PROVE  Follows(Append(ts, frame.type), Append(rs, frame))
<1> DEFINE rs2 == Append(rs, frame)
           ts2 == Append(ts, frame.type)
<1>1. /\ Len(rs2) = Len(rs) + 1 /\ Len(rs) \in Nat
      /\ \A i \in 1..Len(rs) : rs2[i] = rs[i]
      /\ rs2[Len(rs) + 1] = frame
  BY AppendProperties, LenProperties
<1>2. /\ Len(ts2) = Len(ts) + 1 /\ Len(ts) \in Nat
      /\ \A i \in 1..Len(ts) : ts2[i] = ts[i]
      /\ ts2[Len(ts) + 1] = frame.type
  <2>1. ts \in Seq(CallbackTypes \union {frame.type})
    BY SeqMonotonic
  <2>. QED
    BY <2>1, AppendProperties, LenProperties
<1>3. PICK p \in [1..Len(ts) -> 1..Len(rs)] :
    /\ \A i, j \in 1..Len(ts) : i < j => p[i] < p[j]
    /\ \A j \in 1..Len(ts) : IsFunction(rs[p[j]]) /\ rs[p[j]].type = ts[j]
    /\ \A k \in 1..Len(rs) : IsFunction(rs[k]) => \E j \in 1..Len(ts) : p[j] = k
  BY DEF Follows
<1> DEFINE q == [j \in 1..(Len(ts) + 1) |-> IF j <= Len(ts) THEN p[j] ELSE Len(rs) + 1]
<1>4. /\ q \in [1..(Len(ts) + 1) -> 1..(Len(rs) + 1)] /\ q[Len(ts) + 1] = Len(rs) + 1
      /\ \A j \in 1..Len(ts) : q[j] = p[j] /\ q[j] \in 1..Len(rs)
  BY <1>1, <1>2
<1> HIDE DEF q, rs2, ts2
<1>5. \A i, j \in 1..(Len(ts) + 1) : i < j => q[i] < q[j]
  BY <1>1, <1>2, <1>3, <1>4, SMTT(30)
<1>6. \A j \in 1..(Len(ts) + 1) :
        IsFunction(rs2[q[j]]) /\ rs2[q[j]].type = ts2[j]
  BY <1>1, <1>2, <1>3, <1>4
<1>7. \A k \in 1..(Len(rs) + 1) : IsFunction(rs2[k]) => \E j \in 1..(Len(ts) + 1) : q[j] = k
  <2> SUFFICES ASSUME NEW k \in 1..(Len(rs) + 1), IsFunction(rs2[k])
               PROVE  \E j \in 1..(Len(ts) + 1) : q[j] = k
    OBVIOUS
  <2>1. CASE k = Len(rs) + 1
    BY <1>2, <1>4, <2>1
  <2>2. CASE k # Len(rs) + 1
    <3>1. k \in 1..Len(rs) /\ IsFunction(rs[k])
      BY <1>1, <2>2
    <3>2. PICK j \in 1..Len(ts) : p[j] = k
      BY <1>3, <3>1
    <3>. QED
      BY <1>2, <1>4, <3>2
  <2>. QED
    BY <2>1, <2>2
<1>8. q \in [1..Len(ts2) -> 1..Len(rs2)]
  BY <1>1, <1>2, <1>4
<1>9. /\ \A i, j \in 1..Len(ts2) : i < j => q[i] < q[j]
      /\ \A j \in 1..Len(ts2) : IsFunction(rs2[q[j]]) /\ rs2[q[j]].type = ts2[j]
      /\ \A k \in 1..Len(rs2) : IsFunction(rs2[k]) => \E j \in 1..Len(ts2) : q[j] = k
  BY <1>1, <1>2, <1>5, <1>6, <1>7
<1>10. Follows(ts2, rs2)
  BY <1>8, <1>9 DEF Follows
<1>. QED
  BY <1>10 DEF rs2, ts2

\* The type of the innermost function is on top.
LEMMA FollowsTop ==
  ASSUME NEW ts \in Seq(CallbackTypes), NEW rs \in Seq(Frame), Follows(ts, rs),
         rs # <<>>, IsFunction(Last(rs))
  PROVE  ts # <<>> /\ Last(ts) = Last(rs).type /\ Follows(Front(ts), Front(rs))
<1>1. /\ Len(Front(rs)) = Len(rs) - 1 /\ Len(rs) \in Nat \ {0} /\ Len(ts) \in Nat
      /\ \A i \in 1..(Len(rs) - 1) : Front(rs)[i] = rs[i]
  BY FrontLast, LenProperties
<1>2. PICK p \in [1..Len(ts) -> 1..Len(rs)] :
    /\ \A i, j \in 1..Len(ts) : i < j => p[i] < p[j]
    /\ \A j \in 1..Len(ts) : IsFunction(rs[p[j]]) /\ rs[p[j]].type = ts[j]
    /\ \A k \in 1..Len(rs) : IsFunction(rs[k]) => \E j \in 1..Len(ts) : p[j] = k
  BY DEF Follows
<1>3. PICK m \in 1..Len(ts) : p[m] = Len(rs)
  BY <1>1, <1>2 DEF Last
<1>4. m = Len(ts)
  <2>1. CASE m < Len(ts)
    <3>1. p[m] < p[Len(ts)] /\ p[Len(ts)] \in 1..Len(rs)
      BY <1>1, <1>2, <2>1
    <3>. QED
      BY <1>1, <1>3, <3>1
  <2>. QED
    BY <1>1, <2>1
<1>5. ts # <<>> /\ Last(ts) = Last(rs).type
  <2>1. Len(ts) # 0
    BY <1>1, <1>4
  <2>. QED
    BY <1>2, <1>3, <1>4, <2>1, EmptySeq DEF Last
<1>6. /\ Len(Front(ts)) = Len(ts) - 1 /\ Len(ts) \in Nat \ {0}
      /\ \A i \in 1..(Len(ts) - 1) : Front(ts)[i] = ts[i]
  BY <1>5, FrontLast
<1> DEFINE q == [j \in 1..(Len(ts) - 1) |-> p[j]]
<1>7. \A j \in 1..(Len(ts) - 1) : q[j] = p[j] /\ q[j] \in 1..(Len(rs) - 1)
  <2> SUFFICES ASSUME NEW j \in 1..(Len(ts) - 1) PROVE p[j] \in 1..(Len(rs) - 1)
    OBVIOUS
  <2>1. p[j] \in 1..Len(rs) /\ p[j] < p[Len(ts)]
    <3>1. j \in 1..Len(ts) /\ Len(ts) \in 1..Len(ts) /\ j < Len(ts)
      BY <1>6
    <3>. QED
      BY <1>2, <3>1
  <2>. QED
    BY <1>1, <1>3, <1>4, <2>1
<1>8. q \in [1..Len(Front(ts)) -> 1..Len(Front(rs))]
  BY <1>1, <1>6, <1>7
<1> HIDE DEF q
<1>9. \A i, j \in 1..Len(Front(ts)) : i < j => q[i] < q[j]
  BY <1>1, <1>2, <1>6, <1>7
<1>10. \A j \in 1..Len(Front(ts)) : IsFunction(Front(rs)[q[j]]) /\ Front(rs)[q[j]].type = Front(ts)[j]
  <2> SUFFICES ASSUME NEW j \in 1..Len(Front(ts))
               PROVE  IsFunction(Front(rs)[q[j]]) /\ Front(rs)[q[j]].type = Front(ts)[j]
    OBVIOUS
  <2>1. j \in 1..(Len(ts) - 1) /\ j \in 1..Len(ts) /\ Front(ts)[j] = ts[j]
    BY <1>6
  <2>2. q[j] = p[j] /\ Front(rs)[q[j]] = rs[p[j]]
    BY <1>1, <1>7, <2>1
  <2>. QED
    BY <1>2, <2>1, <2>2
<1>11. \A k \in 1..Len(Front(rs)) : IsFunction(Front(rs)[k]) => \E j \in 1..Len(Front(ts)) : q[j] = k
  <2> SUFFICES ASSUME NEW k \in 1..Len(Front(rs)), IsFunction(Front(rs)[k])
               PROVE  \E j \in 1..Len(Front(ts)) : q[j] = k
    OBVIOUS
  <2>1. k \in 1..Len(rs) /\ k # Len(rs) /\ IsFunction(rs[k])
    BY <1>1
  <2>2. PICK j \in 1..Len(ts) : p[j] = k
    BY <1>2, <2>1
  <2>3. j # Len(ts)
    BY <1>3, <1>4, <2>1, <2>2
  <2>. QED
    BY <1>6, <1>7, <2>2, <2>3
<1>12. Follows(Front(ts), Front(rs))
  BY <1>8, <1>9, <1>10, <1>11 DEF Follows
<1>. QED
  BY <1>5, <1>12

\* The frames of an event's handlers are frames.
LEMMA EventFrames ==
  /\ Handler \in Frame /\ Mark \in Frame /\ Monitor \in Frame
  /\ ~IsFunction(Handler) /\ ~IsFunction(Mark) /\ ~IsFunction(Monitor)
BY DEF Handler, Mark, Monitor, Call, Frame, IsFunction

\* The calls of an event come on top of rest.
Events(rest) ==
  {rest, Append(rest, Handler), Append(Append(rest, Mark), Handler),
   Append(Append(Append(rest, Monitor), Mark), Handler)}

\* Frames before a stack of frames make a stack of frames.
LEMMA ConcatFrames ==
  ASSUME NEW rest \in Seq(Frame)
  PROVE  /\ rest \o <<Mark, Handler>> \in Events(rest)
         /\ rest \o <<Monitor, Mark, Handler>> \in Events(rest)
<1>1. /\ \A a, b \in Frame : <<a, b>> = Append(<<a>>, b)
      /\ \A a, b, c \in Frame : <<a, b, c>> = Append(<<a, b>>, c)
  OBVIOUS
<1>2. \A s, t \in Seq(Frame) : \A e \in Frame : s \o Append(t, e) = Append(s \o t, e)
  <2> SUFFICES ASSUME NEW s \in Seq(Frame), NEW t \in Seq(Frame), NEW e \in Frame
               PROVE  s \o Append(t, e) = Append(s \o t, e)
    OBVIOUS
  <2>1. /\ Append(t, e) \in Seq(Frame) /\ Len(Append(t, e)) = Len(t) + 1
        /\ \A i \in 1..Len(t) : Append(t, e)[i] = t[i]
        /\ Append(t, e)[Len(t) + 1] = e
    BY AppendProperties
  <2>2. /\ s \o t \in Seq(Frame) /\ Len(s \o t) = Len(s) + Len(t)
        /\ \A i \in 1..(Len(s) + Len(t)) : (s \o t)[i] = IF i <= Len(s) THEN s[i] ELSE t[i - Len(s)]
    BY ConcatProperties
  <2>. QED
    BY <2>1, <2>2, AppendIsConcat, ConcatAssociative
<1>3. rest \o <<Mark>> = Append(rest, Mark) /\ rest \o <<Monitor>> = Append(rest, Monitor)
  BY EventFrames, AppendIsConcat
<1>4. <<Mark>> \in Seq(Frame) /\ <<Monitor>> \in Seq(Frame) /\ <<Monitor, Mark>> \in Seq(Frame)
  BY EventFrames
<1>. QED
  BY <1>1, <1>2, <1>3, <1>4, EventFrames DEF Events

\* Such calls leave the types as they are.
LEMMA EventsFollowed ==
  ASSUME NEW ts \in Seq(CallbackTypes), NEW rest \in Seq(Frame), Follows(ts, rest), NEW rs \in Events(rest)
  PROVE  rs \in Seq(Frame) /\ Follows(ts, rs)
<1>1. \A s \in Seq(Frame), frame \in Frame :
        Follows(ts, s) /\ ~IsFunction(frame) => Append(s, frame) \in Seq(Frame) /\ Follows(ts, Append(s, frame))
  BY FollowsPushed, AppendProperties
<1>. QED
  BY <1>1, EventFrames DEF Events

\* The stuck monitor leaves a stack of frames.
LEMMA MonitorRuns ==
  ASSUME NEW rest \in Seq(Frame), StuckMonitor(rest)
  PROVE  run' \in Events(rest)
BY ConcatFrames DEF StuckMonitor, ClearStuck, StillStuck, BecomeStuck, Events

\* An update leaves a stack of frames.
LEMMA UpdateRuns ==
  ASSUME NEW rest \in Seq(Frame), V_Update(rest)
  PROVE  run' \in Events(rest)
BY ConcatFrames, MonitorRuns DEF V_Update

\* Events on top of the stack leave the types matched.
LEMMA EventsKeep ==
  ASSUME CallsInv, NEW rest \in Seq(Frame), Follows(types, rest), run' \in Events(rest),
         UNCHANGED types, callback' = callback
  PROVE  CallsInv'
BY EventsFollowed DEF CallsInv, CallsTyped

\* A function is called with its type on top.
LEMMA EnterKeeps ==
  ASSUME CallsInv, NEW t \in CallbackTypes, Enter(t)
  PROVE  CallsInv'
<1>1. types \in Seq(CallbackTypes) /\ run \in Seq(Frame) /\ Follows(types, run)
  BY DEF CallsInv, CallsTyped
<1> DEFINE frame == Call(Callee(t), t)
<1>2. frame \in Frame /\ IsFunction(frame) /\ frame.type = t
  BY DEF Call, Callee, Frame, IsFunction
<1>3. types' = Append(types, t) /\ run' = Append(run, frame) /\ callback' = callback
  BY DEF Enter
<1>4. Follows(types', run')
  BY <1>1, <1>2, <1>3, FollowsCalled
<1>5. types' \in Seq(CallbackTypes) /\ run' \in Seq(Frame)
  BY <1>1, <1>2, <1>3, AppendProperties
<1>. QED
  BY <1>3, <1>4, <1>5 DEF CallsInv, CallsTyped

\* A frame that returns leaves the types matched.
LEMMA ReturnKeeps ==
  ASSUME CallsInv, Return
  PROVE  CallsInv'
<1>1. types \in Seq(CallbackTypes) /\ run \in Seq(Frame) /\ Follows(types, run)
  BY DEF CallsInv, CallsTyped
<1>2. run # <<>> /\ run' = Front(run) /\ callback' = callback
  BY DEF Return
<1>3. run' \in Seq(Frame)
  BY <1>1, <1>2, FrontLast
<1>4. CASE IsFunction(Last(run))
  <2>1. types' = Front(types)
    BY <1>4 DEF Return, IsFunction, Leave
  <2>2. types # <<>> /\ Follows(types', run')
    BY <1>1, <1>2, <1>4, <2>1, FollowsTop
  <2>3. types' \in Seq(CallbackTypes)
    BY <1>1, <2>1, <2>2, FrontLast
  <2>. QED
    BY <1>2, <1>3, <2>2, <2>3 DEF CallsInv, CallsTyped
<1>5. CASE ~IsFunction(Last(run))
  <2>1. types' = types
    BY <1>5 DEF Return, IsFunction
  <2>2. Follows(types', run')
    BY <1>1, <1>2, <1>5, <2>1, FollowsPopped
  <2>. QED
    BY <1>1, <1>2, <1>3, <2>1, <2>2 DEF CallsInv, CallsTyped
<1>. QED
  BY <1>4, <1>5

\* The rest of ClearStuckStatus or of V_Update runs in the place of its mark.
LEMMA ContinueKeeps ==
  ASSUME CallsInv, Continue
  PROVE  CallsInv'
<1>1. types \in Seq(CallbackTypes) /\ run \in Seq(Frame) /\ Follows(types, run)
  BY DEF CallsInv, CallsTyped
<1>2. run # <<>> /\ ~IsFunction(Last(run)) /\ types' = types /\ callback' = callback
  BY EventFrames DEF Continue, calls
<1>3. Front(run) \in Seq(Frame) /\ Follows(types, Front(run))
  BY <1>1, <1>2, FrontLast, FollowsPopped
<1>4. run' \in Events(Front(run))
  BY <1>3, MonitorRuns DEF Continue, Events
<1>. QED
  BY <1>2, <1>3, <1>4, EventsKeep

\* Every call, return and update leaves the types matched.
LEMMA CallsStayMatched == CallsInv /\ [Next]_vars => CallsInv'
<1> SUFFICES ASSUME CallsInv, [Next]_vars PROVE CallsInv'
  OBVIOUS
<1>0. types \in Seq(CallbackTypes) /\ run \in Seq(Frame) /\ Follows(types, run) /\ DOMAIN callback = CallbackTypes
  BY DEF CallsInv, CallsTyped
<1>1. ASSUME UNCHANGED <<types, run>>, DOMAIN callback' = CallbackTypes PROVE CallsInv'
  BY <1>0, <1>1 DEF CallsInv, CallsTyped
<1>2. ASSUME run' \in Events(run), UNCHANGED calls PROVE CallsInv'
  BY <1>0, <1>2, EventsKeep DEF calls
<1>3. CASE UNCHANGED vars
  BY <1>0, <1>1, <1>3 DEF vars
<1>4. ASSUME NEW t \in CallbackTypes, SetCallback(t) PROVE CallsInv'
  BY <1>0, <1>1, <1>4 DEF SetCallback
<1>5. CASE Unload
  BY <1>0, <1>1, <1>5 DEF Unload
<1>6. CASE Leap
  BY <1>2, <1>6 DEF Leap, Events
<1>7. CASE CallBaseFunction
  BY <1>2, <1>7 DEF CallBaseFunction, Events, calls
<1>8. CASE Think
  <2>1. run' \in Events(run)
    BY <1>0, <1>8, UpdateRuns DEF Think
  <2>. QED
    BY <1>2, <1>8, <2>1 DEF Think
<1>9. CASE UpdateNative
  BY <1>0, <1>2, <1>9, UpdateRuns DEF UpdateNative
<1>10. CASE StuckMonitorNative
  BY <1>0, <1>2, <1>10, MonitorRuns DEF StuckMonitorNative
<1>11. CASE ClearStuckStatus
  <2>1. run' \in Events(run)
    BY <1>0, <1>11, ConcatFrames DEF ClearStuckStatus, ClearStuck, Events
  <2>. QED
    BY <1>2, <1>11, <2>1 DEF ClearStuckStatus
<1>12. CASE Approach \/ Reset \/ Tick
  BY <1>0, <1>1, <1>12 DEF Approach, Reset, Tick, calls
<1>. QED
  BY <1>3, <1>4, <1>5, <1>6, <1>7, <1>8, <1>9, <1>10, <1>11, <1>12, EnterKeeps, ReturnKeeps, ContinueKeeps
  DEF Next

\* Nothing runs at first, and no type is pushed.
LEMMA CallsInitially == Init => CallsInv
<1> SUFFICES ASSUME Init PROVE CallsInv
  OBVIOUS
<1>1. types = <<>> /\ run = <<>> /\ Len(types) = 0 /\ Len(run) = 0 /\ DOMAIN callback = CallbackTypes
  BY EmptySeq DEF Init
<1> DEFINE p == [i \in 1..Len(types) |-> i]
<1>2. p \in [1..Len(types) -> 1..Len(run)]
  BY <1>1
<1> HIDE DEF p
<1>3. Follows(types, run)
  <2>1. \A i \in 1..Len(types) : FALSE
    BY <1>1
  <2>2. \A i \in 1..Len(run) : FALSE
    BY <1>1
  <2>. QED
    BY <1>2, <2>1, <2>2 DEF Follows
<1>. QED
  BY <1>1, <1>3, EmptySeq DEF CallsInv, CallsTyped

\* When the types match, the last one is the running callback's.
LEMMA MatchedIsCallers == CallsInv => BaseIsCallers
<1> SUFFICES ASSUME CallsInv PROVE BaseIsCallers
  OBVIOUS
<1>1. types \in Seq(CallbackTypes) /\ run \in Seq(Frame) /\ Follows(types, run)
  BY DEF CallsInv, CallsTyped
<1>2. ASSUME run # <<>>, Last(run).do = "callback" PROVE types # <<>> /\ Last(types) = Last(run).type
  BY <1>1, <1>2, FollowsTop DEF IsFunction
<1>3. ASSUME run = <<>> PROVE types = <<>>
  <2>1. PICK p \in [1..Len(types) -> 1..0] : TRUE
    BY <1>1, <1>3, EmptySeq DEF Follows
  <2>2. Len(types) \in Nat /\ ~(Len(types) \in 1..Len(types))
    BY <1>1, <2>1, LenProperties
  <2>. QED
    BY <1>1, <2>2, EmptySeq
<1>. QED
  BY <1>2, <1>3 DEF BaseIsCallers

\* However deeply callbacks, defaults and events nest, the base function is the caller's own.
THEOREM BaseFunctionIsCallers == NpcsSpec => []BaseIsCallers
BY CallsInitially, CallsStayMatched, MatchedIsCallers, LocomotionAlone, PTL

(***************************************************************************)
(* The layers of an animation.                                             *)
(***************************************************************************)

\* The layers change only by their own steps.
LEMMA LayersAlone == NpcsSpec => Layers!Spec
<1>1. NpcsInit => Layers!Init
  BY DEF NpcsInit
<1>2. [NpcsNext]_allVars => [Layers!Next]_(Layers!vars)
  BY DEF NpcsNext, allVars, layerVars, Layers!vars, LocomotionStep, ScheduleStep
<1>. QED
  BY <1>1, <1>2, PTL DEF NpcsSpec, Layers!Spec

Layer ==
  [active : BOOLEAN, killMe : BOOLEAN, dying : BOOLEAN, priority : LayerPriorities, order : Nat,
   activity : Activities \union {Layers!NoActivity}]

\* What the constants of the layers are, as the proofs use it.
LEMMA LayerConstants ==
  /\ MaxOverlays \in Nat \ {0} /\ LayerPriorities \subseteq Nat /\ 0 \in LayerPriorities
  /\ Layers!NoActivity \notin Activities
BY ConstantsOK DEF Layers!OverlaysConstantsOK

\* The instances of Overlays count as this module does.
LEMMA SameCardinality == \A S : Layers!Cardinality(S) = Cardinality(S)
BY DEF Layers!Cardinality, Cardinality

\* CAnimationLayer::Init makes a layer.
LEMMA UnusedTyped == Layers!Unused \in Layer
BY LayerConstants DEF Layers!Unused, Layer

\* The order that a layer of the priority is given.
LEMMA NewOrder ==
  ASSUME NEW ls \in Seq(Layer), NEW A \in SUBSET DOMAIN ls, NEW p \in Nat
  PROVE  LET new == Layers!OrderFor({ls[i] : i \in A}, p)
         IN /\ new \in Nat
            /\ \A j \in A : ls[j].priority <= p => ls[j].order + 1 <= new
            /\ new = 0 \/ \E j \in A : ls[j].priority <= p /\ ls[j].order + 1 = new
<1> DEFINE set == {ls[i] : i \in A}
           S == {0} \union {l.order + 1 : l \in {m \in set : m.priority <= p}}
<1>1. Len(ls) \in Nat /\ DOMAIN ls = 1..Len(ls) /\ \A i \in 1..Len(ls) : ls[i] \in Layer
  BY LenProperties, ElementOfSeq
<1>2. \A i \in 1..Len(ls) : ls[i].order \in Nat
  BY <1>1 DEF Layer
<1>3. PICK b \in Nat : \A i \in 1..Len(ls) : ls[i].order <= b
  <2> DEFINE f == [i \in 1..Len(ls) |-> ls[i].order]
  <2>1. f \in [1..Len(ls) -> Nat]
    BY <1>2
  <2>2. \E b \in Nat : \A i \in 1..Len(ls) : f[i] <= b
    <3> HIDE DEF f
    <3>. QED
      BY <1>1, <2>1, Bounded
  <2>. QED
    BY <2>2
<1>4. \A x \in S : x = 0 \/ \E j \in A : ls[j].priority <= p /\ x = ls[j].order + 1
  OBVIOUS
<1>5. \A j \in A : ls[j].priority <= p => ls[j].order + 1 \in S
  OBVIOUS
<1>6. 0 \in S /\ Layers!OrderFor(set, p) = Layers!Max(S)
  BY DEF Layers!OrderFor
<1> HIDE DEF S
<1>7. \A j \in A : ls[j].order \in Nat /\ ls[j].order <= b
  BY <1>1, <1>2, <1>3
<1>8. S \in SUBSET Nat /\ S # {}
  BY <1>4, <1>6, <1>7
<1>9. b + 1 \in Nat /\ \A x \in S : x <= b + 1
  BY <1>4, <1>7
<1>10. Layers!Max(S) \in S /\ \A x \in S : x <= Layers!Max(S)
  BY <1>8, <1>9, GreatestNumber
<1>. QED
  BY <1>4, <1>5, <1>6, <1>8, <1>10

\* The layers at A have the orders from 0 on, by priority.
Ranked(A, ls) ==
  /\ IsFiniteSet(A)
  /\ \A i \in A : ls[i].order \in Nat /\ ls[i].order < Cardinality(A) /\ ls[i].priority \in Nat
  /\ \A i, j \in A : ls[i].order = ls[j].order => i = j
  /\ \A i, j \in A : ls[i].priority < ls[j].priority => ls[i].order < ls[j].order
  /\ \A n \in Nat : n < Cardinality(A) => \E i \in A : ls[i].order = n

\* Layers with the same orders and priorities are ranked alike.
LEMMA RankedAlike ==
  ASSUME NEW A, NEW ls, NEW us, Ranked(A, ls),
         \A i \in A : us[i].order = ls[i].order /\ us[i].priority = ls[i].priority
  PROVE  Ranked(A, us)
BY DEF Ranked

\* A layer that leaves its place lets those above it down.
LEMMA RankedLeft ==
  ASSUME NEW A, NEW ls, NEW us, Ranked(A, ls), NEW i \in A,
         \A j \in A \ {i} :
           /\ us[j].priority = ls[j].priority
           /\ us[j].order = IF ls[j].order > ls[i].order THEN ls[j].order - 1 ELSE ls[j].order
  PROVE  Ranked(A \ {i}, us)
<1> DEFINE B == A \ {i}
           n == Cardinality(A)
           o(j) == ls[j].order
<1>1. /\ IsFiniteSet(B) /\ Cardinality(B) = n - 1 /\ n \in Nat
  BY FS_RemoveElement, FS_CardinalityType DEF Ranked
<1>2. \A j \in A : o(j) \in Nat /\ o(j) < n
  BY DEF Ranked
<1>3. \A j \in B : o(j) # o(i)
  BY DEF Ranked
<1>4. \A j \in B : us[j].order \in Nat /\ us[j].order < n - 1 /\ us[j].priority \in Nat
  BY <1>1, <1>2, <1>3 DEF Ranked
<1>5. \A j, k \in B : us[j].order = us[k].order => j = k
  <2> SUFFICES ASSUME NEW j \in B, NEW k \in B, us[j].order = us[k].order PROVE j = k
    OBVIOUS
  <2>1. o(j) = o(k)
    BY <1>2, <1>3
  <2>. QED
    BY <2>1 DEF Ranked
<1>6. \A j, k \in B : us[j].priority < us[k].priority => us[j].order < us[k].order
  <2> SUFFICES ASSUME NEW j \in B, NEW k \in B, us[j].priority < us[k].priority PROVE us[j].order < us[k].order
    OBVIOUS
  <2>1. o(j) < o(k)
    BY DEF Ranked
  <2>. QED
    BY <1>2, <1>3, <2>1
<1>7. \A m \in Nat : m < n - 1 => \E j \in B : us[j].order = m
  <2> SUFFICES ASSUME NEW m \in Nat, m < n - 1 PROVE \E j \in B : us[j].order = m
    OBVIOUS
  <2>1. CASE m < o(i)
    <3>1. PICK j \in A : o(j) = m
      BY <1>1 DEF Ranked
    <3>. QED
      BY <1>2, <2>1, <3>1
  <2>2. CASE ~(m < o(i))
    <3>1. m + 1 \in Nat /\ m + 1 < n
      BY <1>1
    <3>2. PICK j \in A : o(j) = m + 1
      BY <3>1 DEF Ranked
    <3>. QED
      BY <1>2, <2>2, <3>2
  <2>. QED
    BY <2>1, <2>2
<1> HIDE DEF B
<1>8. \A m \in Nat : m < Cardinality(B) => \E j \in B : us[j].order = m
  BY <1>1, <1>7
<1>9. \A j \in B : us[j].order \in Nat /\ us[j].order < Cardinality(B) /\ us[j].priority \in Nat
  BY <1>1, <1>4
<1>10. Ranked(B, us)
  BY <1>1, <1>5, <1>6, <1>8, <1>9 DEF Ranked
<1>. QED
  BY <1>10 DEF B

\* A layer that comes in, above the last one that it outranks, lifts those above it.
LEMMA RankedJoined ==
  ASSUME NEW A, NEW ls, NEW us, Ranked(A, ls), NEW i, i \notin A, NEW p \in Nat, NEW new \in Nat,
         \A j \in A : ls[j].priority <= p => ls[j].order + 1 <= new,
         new = 0 \/ \E j \in A : ls[j].priority <= p /\ ls[j].order + 1 = new,
         us[i].order = new, us[i].priority = p,
         \A j \in A :
           /\ us[j].priority = ls[j].priority
           /\ us[j].order = IF ls[j].order >= new THEN ls[j].order + 1 ELSE ls[j].order
  PROVE  Ranked(A \union {i}, us)
<1> DEFINE B == A \union {i}
           n == Cardinality(A)
           o(j) == ls[j].order
<1>1. /\ IsFiniteSet(B) /\ Cardinality(B) = n + 1 /\ n \in Nat
  BY FS_AddElement, FS_CardinalityType DEF Ranked
<1>2. \A j \in A : o(j) \in Nat /\ o(j) < n /\ ls[j].priority \in Nat
  BY DEF Ranked
<1>3. new <= n
  BY <1>1, <1>2
\* The layers under the new order are the ones that are not outranked.
<1>4. \A j \in A : o(j) < new => ls[j].priority <= p
  <2> SUFFICES ASSUME NEW j \in A, o(j) < new, ls[j].priority > p PROVE FALSE
    BY <1>2
  <2>1. PICK k \in A : ls[k].priority <= p /\ o(k) + 1 = new
    BY <1>2
  <2>2. ls[k].priority < ls[j].priority
    BY <1>2, <2>1
  <2>3. o(k) < o(j)
    BY <2>2 DEF Ranked
  <2>. QED
    BY <1>2, <2>1, <2>3
<1>5. \A j \in A : o(j) >= new => ls[j].priority > p
  BY <1>2
<1>6. \A j \in B : us[j].order \in Nat /\ us[j].order < n + 1 /\ us[j].priority \in Nat
  BY <1>1, <1>2, <1>3
<1>7. \A j, k \in B : us[j].order = us[k].order => j = k
  <2> SUFFICES ASSUME NEW j \in B, NEW k \in B, us[j].order = us[k].order PROVE j = k
    OBVIOUS
  <2>1. CASE j \in A /\ k \in A
    <3>1. o(j) = o(k)
      BY <1>2, <2>1
    <3>. QED
      BY <2>1, <3>1 DEF Ranked
  <2>2. CASE ~(j \in A /\ k \in A)
    BY <1>2, <2>2
  <2>. QED
    BY <2>1, <2>2
<1>8. \A j, k \in B : us[j].priority < us[k].priority => us[j].order < us[k].order
  <2> SUFFICES ASSUME NEW j \in B, NEW k \in B, us[j].priority < us[k].priority PROVE us[j].order < us[k].order
    OBVIOUS
  <2>1. CASE j \in A /\ k \in A
    <3>1. o(j) < o(k)
      BY <2>1 DEF Ranked
    <3>. QED
      BY <1>2, <2>1, <3>1
  <2>2. CASE j = i /\ k \in A
    BY <1>2, <1>4, <2>2
  <2>3. CASE j \in A /\ k = i
    BY <1>2, <1>5, <2>3
  <2>4. CASE j = i /\ k = i
    BY <2>4
  <2>. QED
    BY <2>1, <2>2, <2>3, <2>4
<1>9. \A m \in Nat : m < n + 1 => \E j \in B : us[j].order = m
  <2> SUFFICES ASSUME NEW m \in Nat, m < n + 1 PROVE \E j \in B : us[j].order = m
    OBVIOUS
  <2>1. CASE m < new
    <3>1. PICK j \in A : o(j) = m
      BY <1>1, <1>3, <2>1 DEF Ranked
    <3>. QED
      BY <1>2, <2>1, <3>1
  <2>2. CASE m = new
    BY <2>2
  <2>3. CASE m > new
    <3>1. m - 1 \in Nat /\ m - 1 < n
      BY <1>1, <2>3
    <3>2. PICK j \in A : o(j) = m - 1
      BY <3>1 DEF Ranked
    <3>. QED
      BY <1>2, <2>3, <3>2
  <2>. QED
    BY <2>1, <2>2, <2>3
<1> HIDE DEF B
<1>10. \A m \in Nat : m < Cardinality(B) => \E j \in B : us[j].order = m
  BY <1>1, <1>9
<1>11. \A j \in B : us[j].order \in Nat /\ us[j].order < Cardinality(B) /\ us[j].priority \in Nat
  BY <1>1, <1>6
<1>12. Ranked(B, us)
  BY <1>1, <1>7, <1>8, <1>10, <1>11 DEF Ranked
<1>. QED
  BY <1>12 DEF B

\* A sequence of layers and an unused one is a sequence of layers.
LEMMA AppendedUnused ==
  ASSUME NEW ls \in Seq(Layer)
  PROVE  /\ Append(ls, Layers!Unused) \in Seq(Layer) /\ Len(Append(ls, Layers!Unused)) = Len(ls) + 1
         /\ \A j \in 1..Len(ls) : Append(ls, Layers!Unused)[j] = ls[j]
         /\ Append(ls, Layers!Unused)[Len(ls) + 1] = Layers!Unused
BY UnusedTyped, AppendProperties

\* Every index of a sequence of layers has a layer.
LEMMA LayersAt ==
  ASSUME NEW ls \in Seq(Layer)
  PROVE  /\ Len(ls) \in Nat /\ DOMAIN ls = 1..Len(ls) /\ \A i \in 1..Len(ls) : ls[i] \in Layer
         /\ Layers!ActiveIn(ls) \subseteq 1..Len(ls) /\ Layers!OpenIn(ls) \subseteq 1..Len(ls)
         /\ IsFiniteSet(Layers!OpenIn(ls)) /\ IsFiniteSet(Layers!ActiveIn(ls))
         /\ Cardinality(Layers!ActiveIn(ls)) \in Nat /\ Cardinality(Layers!ActiveIn(ls)) <= Len(ls)
<1>1. Len(ls) \in Nat /\ DOMAIN ls = 1..Len(ls) /\ \A i \in 1..Len(ls) : ls[i] \in Layer
  BY LenProperties, ElementOfSeq
<1>2. Layers!ActiveIn(ls) \subseteq 1..Len(ls) /\ Layers!OpenIn(ls) \subseteq 1..Len(ls)
  BY <1>1 DEF Layers!ActiveIn, Layers!OpenIn
<1>3. IsFiniteSet(1..Len(ls)) /\ Cardinality(1..Len(ls)) = Len(ls)
  <2> DEFINE n == Len(ls)
  <2>1. n \in Nat
    BY <1>1
  <2> HIDE DEF n
  <2>2. IsFiniteSet(1..n) /\ Cardinality(1..n) = IF 1 > n THEN 0 ELSE n - 1 + 1
    BY <2>1, FS_Interval
  <2>3. Cardinality(1..n) = n
    BY <2>1, <2>2
  <2>. QED
    BY <2>2, <2>3 DEF n
<1>4. IsFiniteSet(Layers!OpenIn(ls)) /\ IsFiniteSet(Layers!ActiveIn(ls)) /\ Cardinality(Layers!ActiveIn(ls)) <= Len(ls)
  BY <1>2, <1>3, FS_Subset
<1>. QED
  BY <1>1, <1>2, <1>4, FS_CardinalityType

\* The layers of a growing sequence stay, and one that nobody uses is left over.
LEMMA GrownLayers ==
  ASSUME NEW ls \in Seq(Layer), Len(ls) <= MaxOverlays, Layers!Room(ls)
  PROVE  /\ Layers!Grown(ls) \in Seq(Layer)
         /\ Len(ls) <= Len(Layers!Grown(ls)) /\ Len(Layers!Grown(ls)) <= MaxOverlays
         /\ \A j \in 1..Len(Layers!Grown(ls)) :
              Layers!Grown(ls)[j] = IF j <= Len(ls) THEN ls[j] ELSE Layers!Unused
         /\ Layers!OpenLayer(ls) \in 1..Len(Layers!Grown(ls)) /\ Layers!OpenLayer(ls) \notin Layers!ActiveIn(ls)
         /\ Len(Layers!Grown(ls)) < MaxOverlays => Layers!OpenIn(Layers!Grown(ls)) \ {Layers!OpenLayer(ls)} # {}
<1> DEFINE g == Layers!Grown(ls)
           k == Layers!OpenLayer(ls)
           open == Layers!OpenIn(ls)
           ls1 == Append(ls, Layers!Unused)
           ls2 == Append(ls1, Layers!Unused)
<1>0. /\ Len(ls) \in Nat /\ DOMAIN ls = 1..Len(ls) /\ open \subseteq 1..Len(ls) /\ IsFiniteSet(open)
      /\ Layers!ActiveIn(ls) \subseteq 1..Len(ls) /\ MaxOverlays \in Nat
  BY LayersAt, LayerConstants
<1>1. /\ ls1 \in Seq(Layer) /\ Len(ls1) = Len(ls) + 1
      /\ \A j \in 1..(Len(ls) + 1) : ls1[j] = IF j <= Len(ls) THEN ls[j] ELSE Layers!Unused
  BY <1>0, AppendedUnused
<1>2. /\ ls2 \in Seq(Layer) /\ Len(ls2) = Len(ls) + 2
      /\ \A j \in 1..(Len(ls) + 2) : ls2[j] = IF j <= Len(ls) THEN ls[j] ELSE Layers!Unused
  BY <1>0, <1>1, AppendedUnused
<1>3. \A us \in Seq(Layer) : \A j \in 1..Len(us) : us[j] = Layers!Unused => j \in Layers!OpenIn(us)
  BY LayersAt DEF Layers!OpenIn, Layers!Unused
<1>4. CASE open = {}
  <2>1. Cardinality(open) <= 1 /\ Len(ls) < MaxOverlays
    BY <1>4, FS_EmptySet DEF Layers!Room
  <2>2. g = IF Len(ls1) < MaxOverlays THEN ls2 ELSE ls1
    BY <1>4, <2>1, SameCardinality DEF Layers!Grown
  <2>3. k = Len(ls) + 1
    BY <1>4 DEF Layers!OpenLayer
  <2> HIDE DEF g, k, ls1, ls2
  <2>4. /\ g \in Seq(Layer) /\ Len(ls) <= Len(g) /\ Len(g) <= MaxOverlays
        /\ \A j \in 1..Len(g) : g[j] = IF j <= Len(ls) THEN ls[j] ELSE Layers!Unused
        /\ k \in 1..Len(g) /\ k \notin Layers!ActiveIn(ls)
    BY <1>0, <1>1, <1>2, <2>1, <2>2, <2>3
  <2>5. ASSUME Len(g) < MaxOverlays PROVE Layers!OpenIn(g) \ {k} # {}
    <3>1. g = ls2 /\ Len(ls) + 2 \in 1..Len(g) /\ g[Len(ls) + 2] = Layers!Unused
      BY <1>0, <1>1, <1>2, <2>2, <2>5
    <3>. QED
      BY <1>0, <1>3, <2>3, <2>4, <3>1
  <2>. QED
    BY <2>4, <2>5 DEF g, k
<1>5. CASE open # {}
  <2>1. k \in open
    <3>1. open \in SUBSET Nat
      BY <1>0
    <3>2. PICK x \in open : \A y \in open : x <= y
      BY <1>5, <3>1, LeastNumber
    <3>. QED
      BY <1>5, <3>2 DEF Layers!OpenLayer, Layers!Min
  <2>2. g = IF Cardinality(open) <= 1 /\ Len(ls) < MaxOverlays THEN ls1 ELSE ls
    BY <1>5, SameCardinality DEF Layers!Grown
  <2>3. k \notin Layers!ActiveIn(ls)
    BY <2>1 DEF Layers!ActiveIn, Layers!OpenIn
  <2> HIDE DEF g, k, ls1, ls2, open
  <2>4. /\ g \in Seq(Layer) /\ Len(ls) <= Len(g) /\ Len(g) <= MaxOverlays
        /\ \A j \in 1..Len(g) : g[j] = IF j <= Len(ls) THEN ls[j] ELSE Layers!Unused
        /\ k \in 1..Len(g) /\ k \notin Layers!ActiveIn(ls)
    <3>1. CASE g = ls1 /\ Len(ls) < MaxOverlays
      BY <1>0, <1>1, <2>1, <2>3, <3>1
    <3>2. CASE g = ls
      BY <1>0, <2>1, <2>3, <3>2
    <3>. QED
      BY <2>2, <3>1, <3>2
  <2>5. ASSUME Len(g) < MaxOverlays PROVE Layers!OpenIn(g) \ {k} # {}
    <3>1. CASE g = ls1 /\ Len(ls) < MaxOverlays
      <4>1. Len(ls) + 1 \in 1..Len(g) /\ g[Len(ls) + 1] = Layers!Unused
        BY <1>0, <1>1, <3>1
      <4>. QED
        BY <1>0, <1>3, <2>1, <2>4, <4>1
    <3>2. CASE g = ls /\ ~(Cardinality(open) <= 1 /\ Len(ls) < MaxOverlays)
      <4>1. Cardinality(open \ {k}) = Cardinality(open) - 1 /\ Cardinality(open) \in Nat /\ IsFiniteSet(open \ {k})
        BY <1>0, <2>1, FS_RemoveElement, FS_CardinalityType
      <4>2. Cardinality(open \ {k}) # 0
        BY <1>0, <2>5, <3>2, <4>1
      <4>3. open \ {k} # {}
        BY <4>2, FS_EmptySet
      <4>. QED
        BY <3>2, <4>3 DEF open
    <3>. QED
      BY <2>2, <3>1, <3>2
  <2>. QED
    BY <2>4, <2>5 DEF g, k
<1>. QED
  BY <1>4, <1>5

SpareIn(ls) == Len(ls) \in 1..(MaxOverlays - 1) => Layers!OpenIn(ls) # {}
PlayingIn(ls) == {i \in Layers!ActiveIn(ls) : ~ls[i].killMe /\ ls[i].activity \in Activities}
NoneTwice(ls) == \A i, j \in PlayingIn(ls) : ls[i].activity = ls[j].activity => i = j

LayersInv ==
  /\ layers \in Seq(Layer) /\ Len(layers) <= MaxOverlays /\ cut \in {"none", "unused", "active"}
  /\ cut # "active" => Ranked(Layers!ActiveIn(layers), layers)
  /\ cut = "none" => SpareIn(layers)
  /\ NoneTwice(layers)

\* A layer that is allocated and given its activity.
LEMMA AllocatedLayers ==
  ASSUME NEW ls \in Seq(Layer), Len(ls) <= MaxOverlays, Layers!Room(ls), NEW p \in LayerPriorities,
         NEW a \in Activities \union {Layers!NoActivity},
         NEW us, us = Layers!AllocateLayer(ls, p, a)
  PROVE  /\ us \in Seq(Layer) /\ Len(us) <= MaxOverlays /\ SpareIn(us)
         /\ Ranked(Layers!ActiveIn(ls), ls) => Ranked(Layers!ActiveIn(us), us)
         /\ NoneTwice(ls) /\ (\A i \in PlayingIn(ls) : ls[i].activity # a) => NoneTwice(us)
<1> DEFINE A == Layers!ActiveIn(ls)
           g == Layers!Grown(ls)
           k == Layers!OpenLayer(ls)
           new == Layers!OrderFor({ls[i] : i \in A}, p)
           is == {i \in DOMAIN g : g[i].order >= new /\ g[i].order < MaxOverlays}
           made == [Layers!Unused EXCEPT !.active = TRUE, !.order = new, !.priority = p, !.activity = a]
<1>0. /\ Len(ls) \in Nat /\ DOMAIN ls = 1..Len(ls) /\ A \subseteq 1..Len(ls) /\ \A i \in 1..Len(ls) : ls[i] \in Layer
      /\ IsFiniteSet(A) /\ Cardinality(A) \in Nat /\ MaxOverlays \in Nat \ {0} /\ p \in Nat
  BY LayersAt, LayerConstants
<1>1. /\ g \in Seq(Layer) /\ Len(ls) <= Len(g) /\ Len(g) <= MaxOverlays
      /\ \A j \in 1..Len(g) : g[j] = IF j <= Len(ls) THEN ls[j] ELSE Layers!Unused
      /\ k \in 1..Len(g) /\ k \notin A
      /\ Len(g) < MaxOverlays => Layers!OpenIn(g) \ {k} # {}
  BY GrownLayers
<1>2. /\ new \in Nat
      /\ \A j \in A : ls[j].priority <= p => ls[j].order + 1 <= new
      /\ new = 0 \/ \E j \in A : ls[j].priority <= p /\ ls[j].order + 1 = new
  BY <1>0, NewOrder
<1>3. us = [[i \in DOMAIN g |-> IF i \in is THEN [g[i] EXCEPT !.order = @ + 1] ELSE g[i]] EXCEPT ![k] = made]
  BY DEF Layers!AllocateLayer, Layers!Raised
<1>4. Len(g) \in Nat /\ DOMAIN g = 1..Len(g) /\ \A i \in 1..Len(g) : g[i] \in Layer
  BY <1>1, LayersAt
<1> HIDE DEF g, k, new, A
<1>5. \A i \in 1..Len(g) : [g[i] EXCEPT !.order = @ + 1] \in Layer
  BY <1>4 DEF Layer
<1>6. made \in Layer /\ made.active /\ ~made.killMe /\ ~made.dying /\ made.order = new
      /\ made.priority = p /\ made.activity = a
  BY <1>2, UnusedTyped DEF Layer, Layers!Unused
<1> HIDE DEF is, made
<1>7. us \in [1..Len(g) -> Layer] /\ us[k] = made
      /\ \A j \in 1..Len(g) : j # k => us[j] = IF j \in is THEN [g[j] EXCEPT !.order = @ + 1] ELSE g[j]
  <2> DEFINE up == [i \in 1..Len(g) |-> IF i \in is THEN [g[i] EXCEPT !.order = @ + 1] ELSE g[i]]
  <2>1. /\ up \in [1..Len(g) -> Layer]
        /\ \A j \in 1..Len(g) : up[j] = IF j \in is THEN [g[j] EXCEPT !.order = @ + 1] ELSE g[j]
    BY <1>4, <1>5
  <2>2. us = [up EXCEPT ![k] = made]
    BY <1>3, <1>4
  <2> HIDE DEF up
  <2>3. us \in [1..Len(g) -> Layer] /\ us[k] = made /\ \A j \in 1..Len(g) : j # k => us[j] = up[j]
    BY <1>1, <1>6, <2>1, <2>2
  <2>. QED
    BY <2>1, <2>3
<1>8. us \in Seq(Layer) /\ Len(us) = Len(g) /\ DOMAIN us = 1..Len(g)
  BY <1>4, <1>7
\* The layers that were there keep all but their orders; the one in k is new.
<1>9. \A j \in 1..Len(g) : j # k =>
        /\ us[j].active = g[j].active /\ us[j].killMe = g[j].killMe /\ us[j].dying = g[j].dying
        /\ us[j].activity = g[j].activity /\ us[j].priority = g[j].priority
        /\ us[j].order = IF j \in is THEN g[j].order + 1 ELSE g[j].order
  BY <1>4, <1>7 DEF Layer
<1>10. Layers!ActiveIn(us) = A \union {k}
  <2>1. \A j \in 1..Len(g) : j \in A <=> g[j].active
    BY <1>0, <1>1 DEF A, Layers!ActiveIn, Layers!Unused
  <2>. QED
    BY <1>0, <1>1, <1>6, <1>7, <1>8, <1>9, <2>1, SMTT(30) DEF Layers!ActiveIn
<1>11. Layers!OpenIn(us) = Layers!OpenIn(g) \ {k}
  BY <1>1, <1>4, <1>6, <1>7, <1>8, <1>9 DEF Layers!OpenIn
<1>12. SpareIn(us)
  BY <1>0, <1>1, <1>4, <1>8, <1>11 DEF SpareIn
<1>13. ASSUME Ranked(A, ls) PROVE Ranked(A \union {k}, us)
  <2>1. \A j \in A : j \in 1..Len(g) /\ j # k /\ g[j] = ls[j]
    BY <1>0, <1>1, <1>4
  <2>2. Cardinality(A) < MaxOverlays
    <3>1. Cardinality(A \union {k}) = Cardinality(A) + 1
      BY <1>0, <1>1, FS_AddElement
    <3>2. Cardinality(Layers!ActiveIn(us)) <= Len(us) /\ Len(us) <= MaxOverlays /\ Len(us) \in Nat
      BY <1>1, <1>4, <1>8, LayersAt
    <3>. QED
      BY <1>0, <1>10, <3>1, <3>2
  <2>3. \A j \in A : ls[j].order \in Nat /\ ls[j].order < MaxOverlays
    BY <1>0, <1>13, <2>2 DEF Ranked
  <2>4. \A j \in A : j \in is <=> ls[j].order >= new
    BY <1>4, <2>1, <2>3, SMTT(30) DEF is
  <2>5. \A j \in A :
          /\ us[j].priority = ls[j].priority
          /\ us[j].order = IF ls[j].order >= new THEN ls[j].order + 1 ELSE ls[j].order
    BY <1>9, <2>1, <2>4
  <2>. QED
    BY <1>0, <1>1, <1>2, <1>6, <1>7, <1>13, <2>5, RankedJoined, SMTT(30)
<1>14. ASSUME NoneTwice(ls), \A i \in PlayingIn(ls) : ls[i].activity # a PROVE NoneTwice(us)
  <2>1. \A j \in PlayingIn(us) : j = k \/ (j \in PlayingIn(ls) /\ us[j].activity = ls[j].activity)
    BY <1>0, <1>1, <1>4, <1>9, <1>10 DEF PlayingIn, A
  <2>2. us[k].activity = a
    BY <1>6, <1>7
  <2>. QED
    BY <1>14, <2>1, <2>2 DEF NoneTwice
<1>. QED
  BY <1>1, <1>8, <1>10, <1>12, <1>13, <1>14 DEF A

\* Layers given one by one make a sequence of layers.
LEMMA LayersMade ==
  ASSUME NEW n \in Nat, NEW us \in [1..n -> Layer]
  PROVE  us \in Seq(Layer) /\ Len(us) = n /\ DOMAIN us = 1..n
OBVIOUS

\* A layer is added, or none when there is no room.
LEMMA AddingKeeps ==
  ASSUME LayersInv, NEW p \in LayerPriorities, NEW a \in Activities \union {Layers!NoActivity},
         a \in Activities => Layers!Playing(a) = {},
         layers' = Layers!Added(p, a), UNCHANGED cut
  PROVE  LayersInv'
<1>1. CASE ~Layers!Room(layers)
  BY <1>1 DEF Layers!Added, LayersInv
<1>2. CASE Layers!Room(layers)
  <2>1. layers' = Layers!AllocateLayer(layers, p, a)
    BY <1>2 DEF Layers!Added
  <2>2. layers \in Seq(Layer) /\ Len(layers) <= MaxOverlays
    BY DEF LayersInv
  <2>3. \A i \in PlayingIn(layers) : layers[i].activity # a
    BY LayerConstants DEF PlayingIn, Layers!Playing
  <2>4. /\ layers' \in Seq(Layer) /\ Len(layers') <= MaxOverlays /\ SpareIn(layers')
        /\ Ranked(Layers!ActiveIn(layers), layers) => Ranked(Layers!ActiveIn(layers'), layers')
        /\ NoneTwice(layers) => NoneTwice(layers')
    BY <1>2, <2>1, <2>2, <2>3, AllocatedLayers
  <2>. QED
    BY <2>4 DEF LayersInv
<1>. QED
  BY <1>1, <1>2

\* Layers that keep what is active, open and ordered.
LEMMA KeptLayers ==
  ASSUME LayersInv, UNCHANGED cut, NEW us, layers' = us, us \in Seq(Layer), Len(us) = Len(layers),
         \A i \in 1..Len(us) :
           /\ us[i].active = layers[i].active /\ us[i].order = layers[i].order
           /\ us[i].priority = layers[i].priority /\ us[i].activity = layers[i].activity
           /\ layers[i].killMe => us[i].killMe
           /\ us[i].dying => layers[i].dying
  PROVE  LayersInv'
<1>1. /\ layers \in Seq(Layer) /\ Len(layers) \in Nat /\ DOMAIN layers = 1..Len(layers) /\ DOMAIN us = 1..Len(layers)
      /\ Layers!ActiveIn(layers) \subseteq 1..Len(layers)
      /\ \A i \in 1..Len(layers) : layers[i] \in Layer /\ us[i] \in Layer
  BY LayersAt DEF LayersInv
<1>2. Layers!ActiveIn(us) = Layers!ActiveIn(layers) /\ Layers!OpenIn(layers) \subseteq Layers!OpenIn(us)
  BY <1>1 DEF Layers!ActiveIn, Layers!OpenIn, Layer
<1>3. Ranked(Layers!ActiveIn(layers), layers) => Ranked(Layers!ActiveIn(us), us)
  BY <1>1, <1>2, RankedAlike
<1>4. SpareIn(layers) => SpareIn(us)
  BY <1>1, <1>2 DEF SpareIn
<1>5. PlayingIn(us) \subseteq PlayingIn(layers) /\ \A i \in PlayingIn(us) : us[i].activity = layers[i].activity
  BY <1>1, <1>2 DEF PlayingIn
<1>6. NoneTwice(layers) => NoneTwice(us)
  BY <1>5 DEF NoneTwice
<1>. QED
  BY <1>1, <1>3, <1>4, <1>6 DEF LayersInv

\* Layers that are to end.
LEMMA KillingKeeps ==
  ASSUME LayersInv, UNCHANGED cut, NEW is, layers' = Layers!Killed(is)
  PROVE  LayersInv'
<1> DEFINE us == Layers!Killed(is)
<1>1. layers \in Seq(Layer) /\ Len(layers) \in Nat /\ DOMAIN layers = 1..Len(layers)
      /\ \A i \in 1..Len(layers) : layers[i] \in Layer
  BY LayersAt DEF LayersInv
<1>2. \A i \in 1..Len(layers) : [layers[i] EXCEPT !.killMe = TRUE] \in Layer
  BY <1>1 DEF Layer
<1>3. us \in [1..Len(layers) -> Layer]
      /\ \A i \in 1..Len(layers) : us[i] = IF i \in is THEN [layers[i] EXCEPT !.killMe = TRUE] ELSE layers[i]
  BY <1>1, <1>2 DEF Layers!Killed
<1> HIDE DEF us
<1>4. us \in Seq(Layer) /\ Len(us) = Len(layers)
  BY <1>1, <1>3
<1>5. \A i \in 1..Len(us) :
           /\ us[i].active = layers[i].active /\ us[i].order = layers[i].order
           /\ us[i].priority = layers[i].priority /\ us[i].activity = layers[i].activity
           /\ layers[i].killMe => us[i].killMe
           /\ us[i].dying => layers[i].dying
  BY <1>1, <1>3, <1>4 DEF Layer
<1>6. layers' = us
  BY DEF us
<1>. QED
  BY <1>4, <1>5, <1>6, KeptLayers

\* A layer that has died is open again.
LEMMA DyingKeeps ==
  ASSUME LayersInv, UNCHANGED cut, NEW i \in DOMAIN layers, Layers!Dead(i)
  PROVE  LayersInv'
<1> DEFINE us == [layers EXCEPT ![i].dying = FALSE]
<1>1. layers \in Seq(Layer) /\ Len(layers) \in Nat /\ DOMAIN layers = 1..Len(layers)
      /\ \A j \in 1..Len(layers) : layers[j] \in Layer
  BY LayersAt DEF LayersInv
<1>2. [layers[i] EXCEPT !.dying = FALSE] \in Layer
  BY <1>1 DEF Layer
<1>3. us \in [1..Len(layers) -> Layer]
      /\ \A j \in 1..Len(layers) : us[j] = IF j = i THEN [layers[i] EXCEPT !.dying = FALSE] ELSE layers[j]
  BY <1>1, <1>2
<1>6. layers' = us
  BY DEF Layers!Dead
<1> HIDE DEF us
<1>4. us \in Seq(Layer) /\ Len(us) = Len(layers)
  BY <1>1, <1>3
<1>5. \A j \in 1..Len(us) :
           /\ us[j].active = layers[j].active /\ us[j].order = layers[j].order
           /\ us[j].priority = layers[j].priority /\ us[j].activity = layers[j].activity
           /\ layers[j].killMe => us[j].killMe
           /\ us[j].dying => layers[j].dying
  BY <1>1, <1>3, <1>4 DEF Layer
<1>. QED
  BY <1>4, <1>5, <1>6, KeptLayers

\* The layer at i leaves its place, where u is then.
Vacated(i, u) == [Layers!Lowered(layers, Layers!Above(i)) EXCEPT ![i] = u]

\* What a layer leaves when u takes its place in us.
LeavesOthers(i, u, us) ==
  /\ us \in Seq(Layer) /\ Len(us) = Len(layers) /\ us[i] = u
  /\ \A j \in 1..Len(layers) : j # i =>
       /\ us[j].active = layers[j].active /\ us[j].killMe = layers[j].killMe
       /\ us[j].dying = layers[j].dying /\ us[j].activity = layers[j].activity
       /\ us[j].priority = layers[j].priority
  /\ Ranked(Layers!ActiveIn(layers), layers) => Ranked(Layers!ActiveIn(layers) \ {i}, us)

\* The layers above one that leaves close up.
LEMMA LoweredLayers ==
  ASSUME LayersInv, NEW i \in Layers!ActiveIn(layers), NEW u \in Layer
  PROVE  LeavesOthers(i, u, Vacated(i, u))
<1> DEFINE A == Layers!ActiveIn(layers)
           above == Layers!Above(i)
           us == Vacated(i, u)
<1>1. /\ layers \in Seq(Layer) /\ Len(layers) \in Nat /\ DOMAIN layers = 1..Len(layers) /\ A \subseteq 1..Len(layers)
      /\ \A j \in 1..Len(layers) : layers[j] \in Layer
  BY LayersAt DEF LayersInv
<1>2. above = {j \in A : layers[j].order > layers[i].order}
  BY DEF Layers!Above
<1>3. \A j \in 1..Len(layers) : layers[j].order \in Nat
  BY <1>1 DEF Layer
<1>4. us = [[j \in 1..Len(layers) |-> IF j \in above THEN [layers[j] EXCEPT !.order = @ - 1] ELSE layers[j]]
             EXCEPT ![i] = u]
  BY <1>1 DEF Vacated, Layers!Lowered
<1> HIDE DEF A, above, us
<1>5. \A j \in above : [layers[j] EXCEPT !.order = @ - 1] \in Layer
  <2> SUFFICES ASSUME NEW j \in above PROVE [layers[j] EXCEPT !.order = @ - 1] \in Layer
    OBVIOUS
  <2>1. layers[j] \in Layer /\ layers[j].order - 1 \in Nat
    BY <1>1, <1>2, <1>3 DEF A
  <2>. QED
    BY <2>1 DEF Layer
<1>6. us \in [1..Len(layers) -> Layer] /\ us[i] = u
      /\ \A j \in 1..Len(layers) :
           j # i => us[j] = IF j \in above THEN [layers[j] EXCEPT !.order = @ - 1] ELSE layers[j]
  BY <1>1, <1>4, <1>5 DEF A
<1>7. us \in Seq(Layer) /\ Len(us) = Len(layers)
  <2>1. us \in [1..Len(layers) -> Layer]
    BY <1>6
  <2>. QED
    BY <1>1, <2>1, LayersMade
<1>8. \A j \in 1..Len(layers) : j # i =>
        /\ us[j].active = layers[j].active /\ us[j].killMe = layers[j].killMe
        /\ us[j].dying = layers[j].dying /\ us[j].activity = layers[j].activity
        /\ us[j].priority = layers[j].priority
        /\ us[j].order = IF j \in above THEN layers[j].order - 1 ELSE layers[j].order
  BY <1>1, <1>6 DEF Layer
<1>9. ASSUME Ranked(A, layers) PROVE Ranked(A \ {i}, us)
  <2>1. \A j \in A \ {i} :
           /\ us[j].priority = layers[j].priority
           /\ us[j].order = IF layers[j].order > layers[i].order THEN layers[j].order - 1 ELSE layers[j].order
    BY <1>1, <1>2, <1>8
  <2>2. i \in A
    BY DEF A
  <2>. QED
    BY ONLY <1>9, <2>1, <2>2, RankedLeft
<1>. QED
  BY <1>6, <1>7, <1>8, <1>9 DEF A, us, LeavesOthers

\* A layer that is removed at once, or has faded and is dying.
LEMMA RemovingKeeps ==
  ASSUME LayersInv, UNCHANGED cut, NEW i \in Layers!ActiveIn(layers), NEW u \in Layer, ~u.active,
         layers' = Vacated(i, u)
  PROVE  LayersInv'
<1> DEFINE us == Vacated(i, u)
<1>1. /\ layers \in Seq(Layer) /\ Len(layers) \in Nat /\ DOMAIN layers = 1..Len(layers)
      /\ Layers!ActiveIn(layers) \subseteq 1..Len(layers) /\ Len(layers) <= MaxOverlays
      /\ \A j \in 1..Len(layers) : layers[j] \in Layer
  BY LayersAt DEF LayersInv
<1>2. /\ us \in Seq(Layer) /\ Len(us) = Len(layers) /\ us[i] = u
      /\ \A j \in 1..Len(layers) : j # i =>
           /\ us[j].active = layers[j].active /\ us[j].killMe = layers[j].killMe
           /\ us[j].dying = layers[j].dying /\ us[j].activity = layers[j].activity
           /\ us[j].priority = layers[j].priority
      /\ Ranked(Layers!ActiveIn(layers), layers) => Ranked(Layers!ActiveIn(layers) \ {i}, us)
  BY LoweredLayers DEF LeavesOthers
<1>3. DOMAIN us = 1..Len(layers)
  BY <1>1, <1>2, LayersAt
<1>4. Layers!ActiveIn(us) = Layers!ActiveIn(layers) \ {i}
  BY <1>1, <1>2, <1>3 DEF Layers!ActiveIn
<1>5. Layers!OpenIn(layers) \subseteq Layers!OpenIn(us)
  BY <1>1, <1>2, <1>3 DEF Layers!OpenIn, Layers!ActiveIn
<1>6. PlayingIn(us) \subseteq PlayingIn(layers) /\ \A j \in PlayingIn(us) : us[j].activity = layers[j].activity
  BY <1>1, <1>2, <1>4 DEF PlayingIn
<1>7. NoneTwice(layers) => NoneTwice(us)
  BY <1>6 DEF NoneTwice
<1>8. SpareIn(layers) => SpareIn(us)
  BY <1>2, <1>5 DEF SpareIn
<1>. QED
  BY <1>1, <1>2, <1>4, <1>7, <1>8 DEF LayersInv

\* A layer that goes elsewhere, by its new priority.
LEMMA ReplacingKeeps ==
  ASSUME LayersInv, UNCHANGED cut, NEW i \in Layers!ActiveIn(layers), NEW p \in LayerPriorities,
         layers' = Layers!Replaced(i, p)
  PROVE  LayersInv'
<1> DEFINE A == Layers!ActiveIn(layers)
           down == Layers!Lowered(layers, Layers!Above(i))
           B == Layers!ActiveIn(down) \ {i}
           new == Layers!OrderFor({down[j] : j \in B}, p)
           is == {j \in B : down[j].order >= new}
           up == Layers!Raised(down, is)
           us == Layers!Replaced(i, p)
<1>1. /\ layers \in Seq(Layer) /\ Len(layers) \in Nat /\ DOMAIN layers = 1..Len(layers)
      /\ A \subseteq 1..Len(layers) /\ Len(layers) <= MaxOverlays
      /\ \A j \in 1..Len(layers) : layers[j] \in Layer
  BY LayersAt DEF LayersInv
<1>2. layers[i] \in Layer /\ p \in Nat
  BY <1>1, LayerConstants
\* The layer has its place among them still while the others close up.
<1>3. Vacated(i, layers[i]) = down
  <2>1. i \notin Layers!Above(i)
    BY <1>2 DEF Layers!Above, Layers!ActiveIn, Layer
  <2>2. down[i] = layers[i]
    BY <1>1, <2>1 DEF Layers!Lowered
  <2>. QED
    BY <1>1, <2>2 DEF Vacated, Layers!Lowered
<1>4. /\ down \in Seq(Layer) /\ Len(down) = Len(layers) /\ down[i] = layers[i]
      /\ \A j \in 1..Len(layers) : j # i =>
           /\ down[j].active = layers[j].active /\ down[j].killMe = layers[j].killMe
           /\ down[j].dying = layers[j].dying /\ down[j].activity = layers[j].activity
           /\ down[j].priority = layers[j].priority
      /\ Ranked(A, layers) => Ranked(A \ {i}, down)
  <2>1. \A u \in Layer : LeavesOthers(i, u, Vacated(i, u))
    BY ONLY LayersInv, i \in Layers!ActiveIn(layers), LoweredLayers
  <2>2. LeavesOthers(i, layers[i], down)
    BY <1>2, <1>3, <2>1
  <2> HIDE DEF down
  <2>. QED
    BY <2>2 DEF LeavesOthers
<1> HIDE DEF down
<1>5. DOMAIN down = 1..Len(layers) /\ \A j \in 1..Len(layers) : down[j] \in Layer
  BY <1>1, <1>4, LayersAt
<1>6. B = A \ {i}
  BY <1>1, <1>4, <1>5 DEF Layers!ActiveIn
<1>7. /\ new \in Nat
      /\ \A j \in B : down[j].priority <= p => down[j].order + 1 <= new
      /\ new = 0 \/ \E j \in B : down[j].priority <= p /\ down[j].order + 1 = new
  <2>1. B \in SUBSET DOMAIN down
    BY <1>1, <1>5, <1>6
  <2> HIDE DEF B
  <2>. QED
    BY <1>2, <1>4, <2>1, NewOrder
<1>8. us = [up EXCEPT ![i] = [@ EXCEPT !.order = new, !.priority = p]]
  BY DEF Layers!Replaced, down
<1>9. up = [j \in 1..Len(layers) |-> IF j \in is THEN [down[j] EXCEPT !.order = @ + 1] ELSE down[j]]
  BY <1>5 DEF Layers!Raised
<1>10. i \in 1..Len(layers) /\ i \notin is
  BY <1>1
<1> HIDE DEF A, B, new, up, us, is
<1>11. \A j \in 1..Len(layers) : [down[j] EXCEPT !.order = @ + 1] \in Layer
  BY <1>5 DEF Layer
<1>12. [down[i] EXCEPT !.order = new, !.priority = p] \in Layer
  BY <1>5, <1>7, <1>10 DEF Layer
<1>13. up[i] = down[i] /\ up \in [1..Len(layers) -> Layer]
       /\ \A j \in 1..Len(layers) : up[j] = IF j \in is THEN [down[j] EXCEPT !.order = @ + 1] ELSE down[j]
  BY <1>5, <1>9, <1>10, <1>11
<1>14. us \in [1..Len(layers) -> Layer] /\ us[i] = [down[i] EXCEPT !.order = new, !.priority = p]
       /\ \A j \in 1..Len(layers) : j # i => us[j] = up[j]
  BY <1>8, <1>10, <1>12, <1>13
<1>15. us \in Seq(Layer) /\ Len(us) = Len(layers) /\ DOMAIN us = 1..Len(layers)
  <2>1. us \in [1..Len(layers) -> Layer]
    BY <1>14
  <2>. QED
    BY <1>1, <2>1, LayersMade
<1>16. us[i].order = new /\ us[i].priority = p /\ us[i].active = layers[i].active /\ us[i].killMe = layers[i].killMe
       /\ us[i].dying = layers[i].dying /\ us[i].activity = layers[i].activity
  BY <1>4, <1>5, <1>10, <1>14 DEF Layer
<1>17. \A j \in 1..Len(layers) : j # i =>
        /\ us[j].active = layers[j].active /\ us[j].killMe = layers[j].killMe
        /\ us[j].dying = layers[j].dying /\ us[j].activity = layers[j].activity
        /\ us[j].priority = down[j].priority
        /\ us[j].order = IF j \in is THEN down[j].order + 1 ELSE down[j].order
  BY <1>4, <1>5, <1>13, <1>14 DEF Layer
<1>18. Layers!ActiveIn(us) = A /\ Layers!OpenIn(us) = Layers!OpenIn(layers)
  BY <1>1, <1>15, <1>16, <1>17 DEF A, Layers!ActiveIn, Layers!OpenIn
<1>19. ASSUME Ranked(A, layers) PROVE Ranked(A, us)
  <2>1. Ranked(B, down) /\ i \notin B /\ B \union {i} = A
    BY <1>4, <1>6, <1>19 DEF A
  <2>2. \A j \in B :
           /\ us[j].priority = down[j].priority
           /\ us[j].order = IF down[j].order >= new THEN down[j].order + 1 ELSE down[j].order
    BY <1>1, <1>6, <1>17 DEF is
  <2>3. Ranked(B \union {i}, us)
    BY ONLY <1>2, <1>7, <1>16, <2>1, <2>2, RankedJoined
  <2>. QED
    BY <2>1, <2>3
<1>20. PlayingIn(us) = PlayingIn(layers) /\ \A j \in PlayingIn(us) : us[j].activity = layers[j].activity
  BY <1>1, <1>16, <1>17, <1>18 DEF PlayingIn, A
<1>21. NoneTwice(layers) => NoneTwice(us)
  BY <1>20 DEF NoneTwice
<1>22. SpareIn(layers) => SpareIn(us)
  BY <1>15, <1>18 DEF SpareIn
<1>23. layers' = us
  BY DEF us
<1>. QED
  BY <1>1, <1>15, <1>18, <1>19, <1>21, <1>22, <1>23 DEF LayersInv, A

\* Cutting off layers; the history says what was lost.
LEMMA CuttingKeeps ==
  ASSUME LayersInv, NEW n \in 0..MaxOverlays, Layers!SetNumAnimOverlays(n)
  PROVE  LayersInv'
<1> DEFINE us == [i \in 1..n |-> IF i \in DOMAIN layers THEN layers[i] ELSE Layers!Unused]
           A == Layers!ActiveIn(layers)
           lost == {i \in DOMAIN layers : i > n}
<1>1. /\ layers \in Seq(Layer) /\ Len(layers) \in Nat /\ DOMAIN layers = 1..Len(layers)
      /\ A \subseteq 1..Len(layers) /\ Len(layers) <= MaxOverlays
      /\ \A j \in 1..Len(layers) : layers[j] \in Layer
  BY LayersAt DEF LayersInv
<1>2. /\ cut # "active" \/ lost = {}
      /\ layers' = us
      /\ cut' = IF lost \intersect A # {} THEN "active" ELSE IF lost # {} THEN "unused" ELSE cut
  BY DEF Layers!SetNumAnimOverlays
<1>3. us \in [1..n -> Layer] /\ n \in Nat /\ n <= MaxOverlays
  BY <1>1, UnusedTyped, LayerConstants
<1>4. \A j \in 1..n : us[j] = IF j <= Len(layers) THEN layers[j] ELSE Layers!Unused
  BY <1>1
<1>5. \A j \in lost : j \in 1..Len(layers) /\ j > n
  BY <1>1
<1>6. \A j \in 1..Len(layers) : j > n => j \in lost
  BY <1>1
<1> HIDE DEF us, lost
<1>7. us \in Seq(Layer) /\ Len(us) = n /\ DOMAIN us = 1..n
  BY <1>3, LayersMade
<1>8. Layers!ActiveIn(us) = A \ lost
  BY <1>1, <1>3, <1>4, <1>5, <1>6, <1>7 DEF Layers!ActiveIn, Layers!Unused
<1>9. \A j \in A \ lost : j \in 1..n /\ us[j] = layers[j]
  BY <1>1, <1>3, <1>4, <1>6
<1>10. ASSUME cut' # "active" PROVE Ranked(Layers!ActiveIn(us), us)
  <2>1. A \ lost = A /\ cut # "active"
    BY <1>2, <1>10
  <2>2. Ranked(A, layers)
    BY <2>1 DEF LayersInv
  <2>. QED
    BY <1>8, <1>9, <2>1, <2>2, RankedAlike
<1>11. ASSUME cut' = "none" PROVE SpareIn(us)
  <2>1. lost = {} /\ cut = "none" /\ n >= Len(layers)
    <3>1. lost = {} /\ cut = "none"
      BY <1>2, <1>11
    <3>2. ~(Len(layers) > n)
      BY <1>1, <1>3, <1>6, <3>1
    <3>. QED
      BY <1>1, <1>3, <3>1, <3>2
  <2>2. CASE n = Len(layers)
    <3>1. Layers!OpenIn(layers) \subseteq Layers!OpenIn(us)
      BY <1>1, <1>4, <1>7, <2>2 DEF Layers!OpenIn
    <3>2. SpareIn(layers)
      BY <2>1 DEF LayersInv
    <3>. QED
      BY <1>7, <2>2, <3>1, <3>2 DEF SpareIn
  <2>3. CASE n > Len(layers)
    <3>1. n \in 1..n /\ us[n] = Layers!Unused
      BY <1>1, <1>3, <1>4, <2>3
    <3>2. n \in Layers!OpenIn(us)
      BY <1>7, <3>1 DEF Layers!OpenIn, Layers!Unused
    <3>. QED
      BY <3>2 DEF SpareIn
  <2>4. n = Len(layers) \/ n > Len(layers)
    <3>1. \A k \in Nat : n >= k => n = k \/ n > k
      BY ONLY n \in Nat
    <3>. QED
      BY <1>1, <1>3, <2>1, <3>1
  <2>. QED
    BY <2>2, <2>3, <2>4
<1>12. PlayingIn(us) \subseteq PlayingIn(layers) /\ \A j \in PlayingIn(us) : us[j] = layers[j]
  BY <1>8, <1>9 DEF PlayingIn
<1>13. NoneTwice(us)
  BY <1>12 DEF NoneTwice, LayersInv
<1>14. cut' \in {"none", "unused", "active"}
  BY <1>2 DEF LayersInv
<1>. QED
  BY <1>2, <1>3, <1>7, <1>10, <1>11, <1>13, <1>14 DEF LayersInv

\* Every native and every frame leaves the layers in order.
LEMMA LayersStayOrdered == LayersInv /\ [Layers!Next]_(Layers!vars) => LayersInv'
<1> SUFFICES ASSUME LayersInv, [Layers!Next]_(Layers!vars) PROVE LayersInv'
  OBVIOUS
<1>0. /\ layers \in Seq(Layer) /\ DOMAIN layers = 1..Len(layers)
      /\ \A j \in 1..Len(layers) : layers[j] \in Layer
  BY LayersAt DEF LayersInv
<1>1. CASE UNCHANGED Layers!vars
  BY <1>1 DEF Layers!vars, LayersInv
<1>2. CASE Layers!AddGestureSequence
  BY <1>2, AddingKeeps, LayerConstants DEF Layers!AddGestureSequence
<1>3. ASSUME NEW p \in LayerPriorities, Layers!AddLayeredSequence(p) PROVE LayersInv'
  BY <1>3, AddingKeeps, LayerConstants DEF Layers!AddLayeredSequence
<1>4. ASSUME NEW a \in Activities, Layers!AddGesture(a) PROVE LayersInv'
  BY <1>4, AddingKeeps, LayerConstants DEF Layers!AddGesture
<1>5. ASSUME NEW a \in Activities, Layers!RemoveGesture(a) PROVE LayersInv'
  BY <1>5, KillingKeeps DEF Layers!RemoveGesture
<1>6. CASE Layers!RemoveAllGestures
  BY <1>6, KillingKeeps DEF Layers!RemoveAllGestures
<1>7. ASSUME NEW i \in DOMAIN layers, Layers!RemoveLayer(i) PROVE LayersInv'
  BY <1>7, KillingKeeps DEF Layers!RemoveLayer
<1>8. ASSUME NEW i \in DOMAIN layers, Layers!FastRemoveLayer(i) PROVE LayersInv'
  <2>1. i \in Layers!ActiveIn(layers) /\ layers' = Vacated(i, Layers!Unused) /\ UNCHANGED cut
    BY <1>8 DEF Layers!FastRemoveLayer, Layers!FastRemoved, Layers!IsValidLayer, Vacated
  <2>2. ~Layers!Unused.active
    BY DEF Layers!Unused
  <2>. QED
    BY <2>1, <2>2, UnusedTyped, RemovingKeeps
<1>9. ASSUME NEW i \in DOMAIN layers, NEW p \in LayerPriorities, Layers!SetLayerPriority(i, p) PROVE LayersInv'
  BY <1>9, ReplacingKeeps DEF Layers!SetLayerPriority, Layers!IsValidLayer
<1>10. ASSUME NEW i \in DOMAIN layers, Layers!Faded(i), UNCHANGED cut PROVE LayersInv'
  <2> DEFINE u == [Layers!Unused EXCEPT !.dying = TRUE]
  <2>1. u \in Layer /\ ~u.active
    BY UnusedTyped DEF Layer, Layers!Unused
  <2>2. i \in Layers!ActiveIn(layers) /\ layers' = [Layers!FastRemoved(i) EXCEPT ![i].dying = TRUE]
    BY <1>10 DEF Layers!Faded, Layers!IsValidLayer
  <2>3. DOMAIN Layers!Lowered(layers, Layers!Above(i)) = DOMAIN layers
    BY DEF Layers!Lowered
  <2>4. layers' = Vacated(i, u)
    BY <2>2, <2>3 DEF Layers!FastRemoved, Vacated
  <2> HIDE DEF u
  <2>. QED
    BY <1>10, <2>1, <2>2, <2>4, RemovingKeeps
<1>11. ASSUME NEW i \in DOMAIN layers, Layers!Finished(i), UNCHANGED cut PROVE LayersInv'
  BY <1>11, KillingKeeps DEF Layers!Finished
<1>12. ASSUME NEW i \in DOMAIN layers, Layers!Dead(i), UNCHANGED cut PROVE LayersInv'
  BY <1>12, DyingKeeps
<1>. QED
  BY <1>1, <1>2, <1>3, <1>4, <1>5, <1>6, <1>7, <1>8, <1>9, <1>10, <1>11, <1>12, CuttingKeeps
  DEF Layers!Next, Layers!GestureNatives, Layers!LayerNatives, Layers!Advance

\* No layers are in order.
LEMMA LayersInitially == Layers!Init => LayersInv
<1> SUFFICES ASSUME Layers!Init PROVE LayersInv
  OBVIOUS
<1>1. layers = <<>> /\ layers \in Seq(Layer) /\ Len(layers) = 0 /\ cut = "none" /\ MaxOverlays \in Nat
  BY EmptySeq, LayerConstants DEF Layers!Init
<1>2. Layers!ActiveIn(layers) = {}
  <2>1. DOMAIN layers = {}
    BY <1>1
  <2>. QED
    BY <2>1 DEF Layers!ActiveIn
<1>3. Ranked({}, layers)
  BY FS_EmptySet DEF Ranked
<1>4. SpareIn(layers)
  BY <1>1 DEF SpareIn
<1>5. NoneTwice(layers)
  BY <1>2 DEF NoneTwice, PlayingIn
<1>6. Ranked(Layers!ActiveIn(layers), layers)
  BY <1>2, <1>3
<1>7. Len(layers) <= MaxOverlays
  BY <1>1
<1>. QED
  BY <1>1, <1>4, <1>5, <1>6, <1>7 DEF LayersInv

\* Layers in order are numbered, one is spare, and a gesture plays once.
LEMMA OrderedLayers == LayersInv => LayersOrdered
<1> SUFFICES ASSUME LayersInv PROVE LayersOrdered
  OBVIOUS
<1> DEFINE A == Layers!ActiveIn(layers)
<1>1. /\ layers \in Seq(Layer) /\ Len(layers) \in Nat /\ A \subseteq 1..Len(layers) /\ IsFiniteSet(A)
      /\ Cardinality(A) \in Nat /\ Cardinality(A) <= MaxOverlays /\ MaxOverlays \in Nat
      /\ Cardinality(A) <= Len(layers) /\ Len(layers) <= MaxOverlays
  <2>1. layers \in Seq(Layer) /\ Len(layers) <= MaxOverlays
    BY DEF LayersInv
  <2>. QED
    BY <2>1, LayersAt, LayerConstants
<1>2. ASSUME cut # "active" PROVE Layers!Numbered
  <2>1. Ranked(A, layers)
    BY <1>2 DEF LayersInv
  <2>2. {layers[i].order : i \in A} = {n \in 0..MaxOverlays : n < Cardinality(A)}
    <3>1. \A i \in A : layers[i].order \in 0..MaxOverlays /\ layers[i].order < Cardinality(A)
      BY <1>1, <2>1 DEF Ranked
    <3>2. \A n \in 0..MaxOverlays : n < Cardinality(A) => \E i \in A : layers[i].order = n
      BY <1>1, <2>1 DEF Ranked
    <3>. QED
      BY <3>1, <3>2
  <2>. QED
    BY <2>1, <2>2, SameCardinality DEF Layers!Numbered, Ranked
<1>3. ASSUME cut = "none" PROVE Layers!Spare
  BY <1>3 DEF LayersInv, SpareIn, Layers!Spare
<1>4. Layers!OncePlayed
  <2> SUFFICES ASSUME NEW a \in Activities PROVE Cardinality(Layers!Playing(a)) <= 1
    BY SameCardinality DEF Layers!OncePlayed
  <2>1. \A i, j \in Layers!Playing(a) : i = j
    BY DEF LayersInv, NoneTwice, PlayingIn, Layers!Playing
  <2>2. Layers!Playing(a) = {} \/ \E i : Layers!Playing(a) = {i}
    BY <2>1
  <2>3. Cardinality(Layers!Playing(a)) \in {0, 1}
    BY <2>2, FS_EmptySet, FS_Singleton
  <2>. QED
    BY <2>3
<1>. QED
  BY <1>2, <1>3, <1>4 DEF LayersOrdered, Layers!LayersOrdered

\* Whatever is added, killed, faded, moved and cut off, and whatever number of layers there
\* may be, the orders number the active layers by priority, one layer is spare and no
\* gesture plays twice.
THEOREM LayersStayNumbered == NpcsSpec => []LayersOrdered
BY LayersInitially, LayersStayOrdered, OrderedLayers, LayersAlone, PTL DEF Layers!Spec

(***************************************************************************)
(* The search for a ledge over every wall, for bots of every step, jump    *)
(* and crouch height.                                                      *)
(***************************************************************************)

\* The variables of the search.
ScanTypes ==
  /\ wall \in [StepHeight + 1 .. MaxJump + Crouch -> {Ledge!Solid} \cup Nat]
  /\ ceiling \in Ledge!Lowest .. MaxJump
  /\ planned \in BOOLEAN /\ hit \in BOOLEAN /\ last \in BOOLEAN
  /\ height \in Nat /\ range \in Nat /\ range >= LookAhead
  /\ Ledge!FrontDepth \in 0 .. LookAhead - 1
  /\ found \in {"scanning", "ledge", "none", "overhead"}

\* A search goes through the heights that are tried, the ceiling last.
AtTried ==
  found # "none" =>
    /\ height \in Ledge!Tried
    /\ last => height = ceiling
    /\ ~last => height < ceiling \/ ceiling = Ledge!Lowest

\* A wall was found if one is below.  From then on the traces are longer than the
\* front is away by a ledge, unless nothing above goes deeper than the front.
BehindWall ==
  found # "none" =>
    /\ ~hit => range = LookAhead /\ \A w \in Ledge!Walls : w >= height
    /\ hit =>
         /\ (\E w \in Ledge!Walls : w < height) \/ (height = ceiling /\ ceiling = Ledge!Lowest)
         /\ \/ range > Ledge!FrontDepth + MinDepth
            \/ \A h \in height .. ceiling : Ledge!Depth(h) <= Ledge!FrontDepth

\* The ledges below could not be stood on.
BelowRefused ==
  /\ found # "none" => \A h \in Ledge!Deep : h < height => h \in refused
  /\ found = "none" => Ledge!Deep \subseteq refused
  /\ found = "ledge" => height \in Ledge!Deep
OverheadSeen == found = "overhead" => ~planned /\ ~hit /\ height \notin Ledge!Walls

ScanInv == ScanTypes /\ AtTried /\ BehindWall /\ BelowRefused /\ OverheadSeen

(***************************************************************************)
(* Numbers.                                                                *)
(***************************************************************************)

\* The least of a set of depths is one of them: startsolid is the least there is.
LEMMA MinIs ==
  ASSUME NEW S \in SUBSET ({-1} \cup Nat), S # {}
  PROVE  Ledge!Min(S) \in S /\ \A x \in S : Ledge!Min(S) <= x
<1> DEFINE T == {x + 1 : x \in S}
<1>1. T \in SUBSET Nat /\ T # {}
  <2>1. \A x \in S : x + 1 \in Nat
    OBVIOUS
  <2> QED
    BY <2>1
<1>2. PICK t \in T : \A u \in T : t <= u
  <2> HIDE DEF T
  <2> QED
    BY <1>1, LeastNumber
<1>3. PICK m \in S : t = m + 1
  BY <1>2
<1>4. \A x \in S : m <= x
  <2> SUFFICES ASSUME NEW x \in S PROVE m <= x
    OBVIOUS
  <2>1. x + 1 \in T
    OBVIOUS
  <2>2. m + 1 <= x + 1
    BY <1>2, <1>3, <2>1
  <2> QED
    BY <2>2
<1> QED
  BY <1>4 DEF Ledge!Min

\* The lesser of two numbers, for a trace that ends at its range.
LEMMA LessOfTwo ==
  ASSUME NEW a \in Int, NEW b \in Int
  PROVE  Ledge!Min({a, b}) = IF a <= b THEN a ELSE b
<1> DEFINE m == IF a <= b THEN a ELSE b
<1>1. m \in {a, b} /\ \A x \in {a, b} : m <= x
  OBVIOUS
<1>2. \A x \in {a, b} : (\A y \in {a, b} : x <= y) => x = m
  OBVIOUS
<1> HIDE DEF m
<1>3. Ledge!Min({a, b}) = m
  BY <1>1, <1>2 DEF Ledge!Min
<1> QED
  BY <1>3 DEF m

\* The greater of two numbers, for the range that a wall extends.
LEMMA MoreOfTwo ==
  ASSUME NEW a \in Int, NEW b \in Int
  PROVE  Ledge!Max({a, b}) = IF a >= b THEN a ELSE b
<1> DEFINE m == IF a >= b THEN a ELSE b
<1>1. m \in {a, b} /\ \A x \in {a, b} : m >= x
  OBVIOUS
<1>2. \A x \in {a, b} : (\A y \in {a, b} : x >= y) => x = m
  OBVIOUS
<1> HIDE DEF m
<1>3. Ledge!Max({a, b}) = m
  BY <1>1, <1>2 DEF Ledge!Max
<1> QED
  BY <1>3 DEF m

\* A number whose remainder is zero is a multiple, and the multiples are one apart.
LEMMA Multiple ==
  ASSUME NEW d \in Nat, d > 0, NEW a \in Nat
  PROVE  a % d = 0 => \E q \in Nat : a = q * d
<1>1. a \div d \in Nat /\ a = d * (a \div d) + (a % d)
  OBVIOUS
<1> QED
  BY <1>1

\* An increment above a multiple is the next one.
LEMMA NextMultiple ==
  ASSUME NEW d \in Nat, d > 0, NEW a \in Nat
  PROVE  a % d = 0 => (a + d) % d = 0
<1>1. \A k \in Nat : (k * d) % d = 0
  OBVIOUS
<1> SUFFICES ASSUME a % d = 0 PROVE (a + d) % d = 0
  OBVIOUS
<1>2. PICK q \in Nat : a = q * d
  BY Multiple
<1>3. a + d = (q + 1) * d
  BY <1>2
<1>4. PICK k \in Nat : k = q + 1
  OBVIOUS
<1>5. a + d = k * d
  BY <1>3, <1>4
<1>6. (k * d) % d = 0
  BY <1>1
<1> QED
  BY ONLY <1>5, <1>6

\* Two multiples are at least one increment apart.
LEMMA MultiplesApart ==
  ASSUME NEW d \in Nat, d > 0, NEW p \in Nat, NEW q \in Nat, p * d < q * d
  PROVE  p * d + d <= q * d
<1>1. p < q
  BY SMTT(30)
<1>2. PICK k \in Nat : q = p + 1 + k
  BY <1>1
<1>3. q * d = p * d + d + k * d
  BY <1>2
<1>4. k * d >= 0
  OBVIOUS
<1> QED
  BY <1>3, <1>4

(***************************************************************************)
(* Walls.                                                                  *)
(***************************************************************************)

Dom == StepHeight + 1 .. MaxJump + Crouch

\* The constants, for a search.
LEMMA ConstantTypes ==
  /\ StepHeight \in Nat /\ MaxJump \in Nat /\ Crouch \in Nat /\ MinDepth \in Nat
  /\ LookAhead \in Nat /\ LookAhead > 0 /\ MaxJump > StepHeight
  /\ Ledge!Lowest \in Nat /\ Ledge!Lowest = StepHeight + 1
  /\ Ledge!Increment \in Nat /\ Ledge!Increment > 0
  /\ Ledge!Solid = -1
  /\ Fronts \subseteq [Dom -> {-1} \cup Nat]
<1>1. /\ StepHeight \in Nat /\ MaxJump \in Nat /\ Crouch \in Nat /\ MinDepth \in Nat /\ StepHeight >= 2
      /\ LookAhead \in Nat \ {0} /\ MaxJump > StepHeight
      /\ Fronts \subseteq [Dom -> {-1} \cup Nat]
  BY ConstantsOK DEF Ledge!LedgeConstantsOK, Ledge!Solid, Dom
<1>2. StepHeight \div 2 \in Nat /\ StepHeight \div 2 > 0
  BY <1>1
<1> QED
  BY <1>1, <1>2 DEF Ledge!Lowest, Ledge!Increment, Ledge!Solid

\* What is met at a height is met at one of the heights that the hull reaches.
LEMMA DepthIs ==
  ASSUME wall \in [Dom -> {-1} \cup Nat], ceiling \in Ledge!Lowest .. MaxJump,
         NEW h \in Ledge!Lowest .. ceiling
  PROVE  /\ Ledge!Depth(h) \in {-1} \cup Nat
         /\ \E g \in h .. h + Crouch : g \in Dom /\ Ledge!Depth(h) = wall[g]
         /\ \A g \in h .. h + Crouch : Ledge!Depth(h) <= wall[g]
<1> DEFINE S == {wall[g] : g \in h .. h + Crouch}
<1>1. h \in h .. h + Crouch /\ \A g \in h .. h + Crouch : g \in Dom
  BY ConstantTypes DEF Dom
<1>2. S \in SUBSET ({-1} \cup Nat) /\ S # {}
  BY <1>1
<1>3. Ledge!Min(S) \in S /\ \A x \in S : Ledge!Min(S) <= x
  <2> HIDE DEF S
  <2> QED
    BY <1>2, MinIs
<1>4. Ledge!Depth(h) = Ledge!Min(S)
  BY DEF Ledge!Depth
<1> QED
  BY <1>1, <1>2, <1>3, <1>4

\* The front is as far as the nearest wall up to the ceiling.
LEMMA FrontIs ==
  ASSUME wall \in [Dom -> {-1} \cup Nat], ceiling \in Ledge!Lowest .. MaxJump
  PROVE  \A g \in Ledge!Lowest .. ceiling : Ledge!FrontDepth <= wall[g]
<1> DEFINE S == {wall[g] : g \in Ledge!Lowest .. ceiling}
<1>1. ceiling \in Ledge!Lowest .. ceiling /\ \A g \in Ledge!Lowest .. ceiling : g \in Dom
  BY ConstantTypes DEF Dom
<1>2. S \in SUBSET ({-1} \cup Nat) /\ S # {}
  BY <1>1
<1>3. Ledge!Min(S) \in S /\ \A x \in S : Ledge!Min(S) <= x
  <2> HIDE DEF S
  <2> QED
    BY <1>2, MinIs
<1>4. Ledge!FrontDepth = Ledge!Min(S)
  BY DEF Ledge!FrontDepth
<1> QED
  BY <1>3, <1>4

\* The heights that are tried are an increment apart, but for the ceiling.
LEMMA TriedApart ==
  ASSUME ceiling \in Ledge!Lowest .. MaxJump, NEW h \in Ledge!Tried, h < ceiling
  PROVE  /\ h + Ledge!Increment < ceiling => h + Ledge!Increment \in Ledge!Tried
         /\ \A k \in Ledge!Tried : h < k => k = ceiling \/ k >= h + Ledge!Increment
<1> DEFINE low == Ledge!Lowest
           d == Ledge!Increment
<1>1. low \in Nat /\ d \in Nat /\ d > 0 /\ ceiling \in Nat
  BY ConstantTypes
<1>2. h \in low .. ceiling /\ (h - low) % d = 0 /\ h - low \in Nat
  BY <1>1 DEF Ledge!Tried
<1>3. ASSUME h + d < ceiling PROVE h + d \in Ledge!Tried
  <2>1. (h - low + d) % d = 0
    BY <1>1, <1>2, NextMultiple
  <2>2. PICK k \in Nat : k = h + d
    BY <1>1, <1>2
  <2>3. k \in low .. ceiling /\ k - low = h - low + d
    BY <1>1, <1>2, <1>3, <2>2
  <2>4. (k - low) % d = 0
    BY <2>1, <2>3
  <2>5. k \in Ledge!Tried
    BY <2>3, <2>4 DEF Ledge!Tried
  <2> QED
    BY <2>2, <2>5
<1>4. ASSUME NEW k \in Ledge!Tried, h < k, k # ceiling PROVE k >= h + d
  <2>1. k \in low .. ceiling /\ (k - low) % d = 0 /\ k - low \in Nat
    BY <1>1, <1>4 DEF Ledge!Tried
  <2>2. PICK p \in Nat : h - low = p * d
    BY <1>1, <1>2, Multiple
  <2>3. PICK q \in Nat : k - low = q * d
    BY <1>1, <2>1, Multiple
  <2>4. p * d < q * d
    BY <1>1, <1>2, <1>4, <2>1, <2>2, <2>3
  <2>5. p * d + d <= q * d
    BY <1>1, <2>4, MultiplesApart
  <2> HIDE DEF low, d
  <2>6. h - low + d <= k - low
    BY <2>2, <2>3, <2>5
  <2> QED
    BY <1>1, <1>2, <2>1, <2>6
<1> QED
  BY <1>3, <1>4

(***************************************************************************)
(* The search.                                                             *)
(***************************************************************************)

\* The three ways to go on: up, to the ceiling, and past it.
LEMMA AdvanceIs ==
  ASSUME Ledge!Advance
  PROVE  \/ /\ height + Ledge!Increment < ceiling
            /\ height' = height + Ledge!Increment /\ last' = last /\ found' = found
         \/ /\ height + Ledge!Increment >= ceiling /\ ~last
            /\ height' = ceiling /\ last' = TRUE /\ found' = found
         \/ /\ ~(height + Ledge!Increment < ceiling) /\ ~(height + Ledge!Increment >= ceiling /\ ~last)
            /\ height' = height + Ledge!Increment /\ last' = last /\ found' = "none"
BY Zenon DEF Ledge!Advance

\* What depends on the walls and the ceiling alone.
LEMMA SameWalls ==
  ASSUME UNCHANGED <<wall, ceiling>>
  PROVE  /\ Ledge!Tried' = Ledge!Tried /\ Ledge!FrontDepth' = Ledge!FrontDepth
         /\ Ledge!Walls' = Ledge!Walls /\ Ledge!Deep' = Ledge!Deep /\ Ledge!Lowest' = Ledge!Lowest
         /\ \A h : Ledge!Depth(h)' = Ledge!Depth(h)
<1>1. wall' = wall /\ ceiling' = ceiling
  OBVIOUS
<1>2. Ledge!Lowest' = Ledge!Lowest
  BY DEF Ledge!Lowest
<1>3. Ledge!Tried' = Ledge!Tried
  BY <1>1, Zenon DEF Ledge!Tried, Ledge!Lowest, Ledge!Increment
<1>4. \A h : Ledge!Depth(h)' = Ledge!Depth(h)
  BY <1>1, Zenon DEF Ledge!Depth
<1>5. Ledge!FrontDepth' = Ledge!FrontDepth
  BY <1>1, Zenon DEF Ledge!FrontDepth, Ledge!Lowest
<1>6. Ledge!Walls' = Ledge!Walls
  BY <1>3, <1>4, Zenon DEF Ledge!Walls
<1>7. Ledge!Deep' = Ledge!Deep
  BY <1>3, <1>4, <1>5, <1>6, Zenon DEF Ledge!Deep
<1> QED
  BY <1>2, <1>3, <1>4, <1>5, <1>6, <1>7

\* What a step that goes on to another height must leave.
LEMMA AdvanceKeeps ==
  ASSUME ScanInv, found = "scanning", Ledge!Advance, Ledge!World,
         height \in Ledge!Deep => height \in refused', refused \subseteq refused',
         hit' \in BOOLEAN, range' \in Nat, range' >= LookAhead,
         ~hit' => ~hit /\ height \notin Ledge!Walls /\ range' = range,
         hit' => \/ hit
                 \/ height \in Ledge!Walls,
         hit' => \/ range' > Ledge!FrontDepth + MinDepth
                 \/ \A h \in height .. ceiling : Ledge!Depth(h) <= Ledge!FrontDepth
  PROVE  ScanInv'
<1> DEFINE d == Ledge!Increment
<1>1. /\ Ledge!Lowest \in Nat /\ d \in Nat /\ d > 0 /\ ceiling \in Nat /\ ceiling >= Ledge!Lowest
      /\ Ledge!Lowest' = Ledge!Lowest /\ height \in Nat
  BY ConstantTypes DEF ScanInv, ScanTypes, Ledge!Lowest
<1>2. /\ height \in Ledge!Tried /\ (last => height = ceiling)
      /\ ~last => height < ceiling \/ ceiling = Ledge!Lowest
      /\ height >= Ledge!Lowest /\ height <= ceiling
      /\ \A h \in Ledge!Tried : h \in Nat /\ Ledge!Lowest <= h /\ h <= ceiling
      /\ ceiling \in Ledge!Tried
  <2>1. /\ height \in Ledge!Tried /\ (last => height = ceiling)
        /\ ~last => height < ceiling \/ ceiling = Ledge!Lowest
    BY DEF ScanInv, AtTried
  <2>2. \A h \in Ledge!Tried : h \in Nat /\ Ledge!Lowest <= h /\ h <= ceiling
    BY <1>1 DEF Ledge!Tried
  <2>3. ceiling \in Ledge!Tried
    BY <1>1 DEF Ledge!Tried
  <2> QED
    BY <1>1, <2>1, <2>2, <2>3
<1>3. UNCHANGED <<wall, ceiling, planned>>
  BY DEF Ledge!World
<1>4. /\ Ledge!Tried' = Ledge!Tried /\ Ledge!FrontDepth' = Ledge!FrontDepth
      /\ Ledge!Walls' = Ledge!Walls /\ Ledge!Deep' = Ledge!Deep
      /\ \A h : Ledge!Depth(h)' = Ledge!Depth(h)
  BY <1>3, SameWalls
<1>5. Ledge!Walls \subseteq Ledge!Tried /\ Ledge!Deep \subseteq Ledge!Tried
  BY DEF Ledge!Walls, Ledge!Deep
<1>6. /\ ScanTypes' <=> /\ height' \in Nat
                       /\ last' \in BOOLEAN /\ found' \in {"scanning", "ledge", "none", "overhead"}
  BY <1>1, <1>3, <1>4 DEF ScanInv, ScanTypes
<1>7. CASE height + d < ceiling /\ height' = height + d /\ last' = last /\ found' = found
  <2>1. ~last /\ height' \in Ledge!Tried /\ \A k \in Ledge!Tried : k < height' => k <= height
    BY <1>1, <1>2, <1>7, TriedApart DEF ScanInv, ScanTypes
  <2>2. ScanTypes'
    BY <1>1, <1>6, <1>7 DEF ScanInv, ScanTypes
  <2>3. AtTried'
    BY <1>3, <1>4, <1>7, <2>1 DEF AtTried
  <2>4. BehindWall'
    <3>1. ~hit' => range' = LookAhead /\ \A w \in Ledge!Walls : w >= height'
      BY <1>1, <1>2, <1>5, <1>7, <2>1 DEF ScanInv, BehindWall
    <3>2. hit' => \E w \in Ledge!Walls : w < height'
      <4>1. hit => \E w \in Ledge!Walls : w < height
        BY <1>1, <1>2, <1>7 DEF ScanInv, BehindWall
      <4>2. \A w \in Ledge!Walls : w <= height => w < height'
        BY <1>1, <1>2, <1>5, <1>7
      <4>3. \A w \in Ledge!Walls : w < height => w <= height
        BY <1>1, <1>2, <1>5
      <4>4. height <= height
        BY <1>1
      <4> QED
        BY <4>1, <4>2, <4>3, <4>4
    <3>3. (\A h \in height .. ceiling : Ledge!Depth(h) <= Ledge!FrontDepth)
            => \A h \in height' .. ceiling : Ledge!Depth(h) <= Ledge!FrontDepth
      BY <1>1, <1>7
    <3> QED
      BY <1>3, <1>4, <3>1, <3>2, <3>3 DEF BehindWall
  <2>5. BelowRefused'
    <3>1. \A h \in Ledge!Deep : h < height' => h \in refused'
      BY <1>1, <1>2, <1>5, <1>7, <2>1 DEF ScanInv, BelowRefused
    <3> QED
      BY <1>4, <1>7, <3>1 DEF BelowRefused
  <2> QED
    BY <1>7, <2>2, <2>3, <2>4, <2>5 DEF ScanInv, OverheadSeen
<1>8. CASE height + d >= ceiling /\ ~last /\ height' = ceiling /\ last' = TRUE /\ found' = found
  <2>1. \A k \in Ledge!Tried : k < ceiling => k <= height
    <3>1. CASE height < ceiling
      BY <1>1, <1>2, <1>8, <3>1, TriedApart DEF ScanInv, ScanTypes
    <3>2. CASE height = ceiling
      BY <1>2, <3>2
    <3> QED
      BY <1>1, <1>2, <3>1, <3>2
  <2>2. ScanTypes'
    BY <1>1, <1>6, <1>8 DEF ScanInv, ScanTypes
  <2>3. AtTried'
    BY <1>2, <1>3, <1>4, <1>8 DEF AtTried
  <2>4. BehindWall'
    <3>1. ~hit' => range' = LookAhead /\ \A w \in Ledge!Walls : w >= ceiling
      BY <1>1, <1>2, <1>5, <1>8, <2>1 DEF ScanInv, BehindWall
    <3>2. hit' => (\E w \in Ledge!Walls : w < ceiling) \/ ceiling = Ledge!Lowest
      <4>1. hit => (\E w \in Ledge!Walls : w < height) \/ ceiling = Ledge!Lowest
        BY <1>2, <1>8 DEF ScanInv, BehindWall
      <4>2. \A w \in Ledge!Walls : w < height => w < ceiling
        BY <1>1, <1>2, <1>5
      <4> QED
        BY <1>2, <1>8, <4>1, <4>2
    <3>3. (\A h \in height .. ceiling : Ledge!Depth(h) <= Ledge!FrontDepth)
            => \A h \in height' .. ceiling : Ledge!Depth(h) <= Ledge!FrontDepth
      BY <1>1, <1>2, <1>8
    <3> QED
      BY <1>1, <1>3, <1>4, <1>8, <3>1, <3>2, <3>3 DEF BehindWall
  <2>5. BelowRefused'
    <3>1. \A h \in Ledge!Deep : h < ceiling => h \in refused'
      BY <1>1, <1>2, <1>5, <1>8, <2>1 DEF ScanInv, BelowRefused
    <3> QED
      BY <1>4, <1>8, <3>1 DEF BelowRefused
  <2> QED
    BY <1>8, <2>2, <2>3, <2>4, <2>5 DEF ScanInv, OverheadSeen
<1>9. CASE /\ ~(height + d < ceiling) /\ ~(height + d >= ceiling /\ ~last)
           /\ height' = height + d /\ last' = last /\ found' = "none"
  <2>1. height = ceiling
    BY <1>1, <1>2, <1>9
  <2>2. ScanTypes'
    BY <1>1, <1>6, <1>9 DEF ScanInv, ScanTypes
  <2>3. Ledge!Deep \subseteq refused'
    BY <1>1, <1>2, <1>5, <2>1 DEF ScanInv, BelowRefused
  <2> QED
    BY <1>4, <1>9, <2>2, <2>3 DEF ScanInv, AtTried, BehindWall, BelowRefused, OverheadSeen
<1> QED
  BY <1>7, <1>8, <1>9, AdvanceIs

\* What is known of the height that is tried, and of the trace at it.
LEMMA AtHeight ==
  ASSUME ScanInv, found = "scanning"
  PROVE  /\ height \in Ledge!Tried /\ height \in Ledge!Lowest .. ceiling
         /\ Ledge!Lowest \in Nat /\ ceiling \in Nat /\ height \in Nat /\ range \in Nat
         /\ MinDepth \in Nat /\ Crouch \in Nat /\ LookAhead \in Nat /\ Ledge!Solid = -1
         /\ Ledge!FrontDepth \in Nat
         /\ wall \in [Dom -> {-1} \cup Nat] /\ ceiling \in Ledge!Lowest .. MaxJump
         /\ Ledge!Depth(height) \in {-1} \cup Nat
         /\ Ledge!TraceDepth(height, range) = IF Ledge!Depth(height) <= range
                                              THEN Ledge!Depth(height) ELSE range
<1>1. /\ height \in Ledge!Tried /\ height \in Ledge!Lowest .. ceiling
      /\ Ledge!Lowest \in Nat /\ ceiling \in Nat /\ height \in Nat /\ range \in Nat
      /\ MinDepth \in Nat /\ Crouch \in Nat /\ LookAhead \in Nat /\ Ledge!Solid = -1
      /\ Ledge!FrontDepth \in Nat
  BY ConstantTypes DEF ScanInv, ScanTypes, AtTried, Ledge!Tried
<1>2. wall \in [Dom -> {-1} \cup Nat] /\ ceiling \in Ledge!Lowest .. MaxJump
  BY ConstantTypes DEF ScanInv, ScanTypes, Dom
<1>3. Ledge!Depth(height) \in {-1} \cup Nat
  BY <1>1, <1>2, DepthIs
<1>4. Ledge!TraceDepth(height, range) = Ledge!Min({Ledge!Depth(height), range})
  BY DEF Ledge!TraceDepth
<1>5. Ledge!Depth(height) \in Int /\ range \in Int
  BY <1>1, <1>3
<1>6. Ledge!TraceDepth(height, range) = IF Ledge!Depth(height) <= range
                                        THEN Ledge!Depth(height) ELSE range
  BY <1>4, <1>5, LessOfTwo
<1> QED
  BY <1>1, <1>2, <1>3, <1>6

\* A trace that starts in something solid tells nothing.
LEMMA StartSolidKeeps == ASSUME ScanInv, Ledge!StartSolid PROVE ScanInv'
<1>1. /\ found = "scanning" /\ Ledge!Depth(height) = Ledge!Solid /\ Ledge!Advance /\ Ledge!World
      /\ hit' = hit /\ range' = range /\ refused' = refused
  BY DEF Ledge!StartSolid
<1>2. height \notin Ledge!Walls /\ height \notin Ledge!Deep
  BY <1>1, AtHeight DEF Ledge!Walls, Ledge!Deep
<1> QED
  BY <1>1, <1>2, AdvanceKeeps DEF ScanInv, ScanTypes, BehindWall

\* A trace that meets the wall: it is longer than the front is away by a ledge from
\* then on, or what it met reaches over the ceiling and hides all that is above.
LEMMA WallKeeps == ASSUME ScanInv, Ledge!Wall PROVE ScanInv'
<1> DEFINE depth == Ledge!TraceDepth(height, range)
<1>1. /\ found = "scanning" /\ ~hit /\ depth # Ledge!Solid /\ depth < range
      /\ hit' = TRUE /\ range' = Ledge!RangeBehind(depth)
      /\ Ledge!Advance /\ Ledge!World /\ refused' = refused
  BY DEF Ledge!Wall
<1>2. range = LookAhead /\ \A w \in Ledge!Walls : w >= height
  BY <1>1 DEF ScanInv, BehindWall
<1>3. depth = Ledge!Depth(height) /\ depth \in 0 .. LookAhead - 1
  BY <1>1, <1>2, AtHeight
<1>4. height \in Ledge!Walls
  BY <1>1, <1>3, AtHeight DEF Ledge!Walls
<1>5. height \notin Ledge!Deep
  BY <1>1, <1>2, AtHeight DEF Ledge!Deep, Ledge!Walls, Ledge!Tried
<1>6. range' = IF range >= depth + MinDepth + 1 THEN range ELSE depth + MinDepth + 1
  <2>1. range \in Int /\ depth + MinDepth + 1 \in Int
    BY <1>1, <1>3, AtHeight
  <2> HIDE DEF depth
  <2> QED
    BY <1>1, <2>1, MoreOfTwo DEF Ledge!RangeBehind
<1>7. \/ range' > Ledge!FrontDepth + MinDepth
      \/ \A h \in height .. ceiling : Ledge!Depth(h) <= Ledge!FrontDepth
  <2>1. CASE depth >= Ledge!FrontDepth
    BY <1>1, <1>3, <1>6, <2>1, AtHeight
  <2>2. CASE depth < Ledge!FrontDepth
    <3>1. PICK g \in height .. height + Crouch : g \in Dom /\ depth = wall[g]
      BY <1>1, <1>3, AtHeight, DepthIs
    <3>2. g > ceiling
      <4>1. g \in Nat /\ g >= Ledge!Lowest
        BY <1>1, AtHeight
      <4>2. ~(g <= ceiling)
        BY <1>1, <1>3, <2>2, <3>1, <4>1, AtHeight, FrontIs
      <4> QED
        BY <1>1, <4>1, <4>2, AtHeight
    <3>3. ASSUME NEW h \in height .. ceiling PROVE Ledge!Depth(h) <= Ledge!FrontDepth
      <4>1. h \in Ledge!Lowest .. ceiling /\ g \in h .. h + Crouch
        BY <1>1, <3>2, AtHeight
      <4>2. Ledge!Depth(h) \in {-1} \cup Nat /\ Ledge!Depth(h) <= wall[g]
        BY <1>1, <4>1, AtHeight, DepthIs
      <4> QED
        BY <1>1, <1>3, <2>2, <3>1, <4>2, AtHeight
    <3> QED
      BY <3>3
  <2> QED
    BY <1>1, <1>3, <2>1, <2>2, AtHeight
<1>8. range' \in Nat /\ range' >= LookAhead
  BY <1>1, <1>2, <1>3, <1>6, AtHeight
<1> QED
  BY <1>1, <1>4, <1>5, <1>7, <1>8, AdvanceKeeps

\* Free space over the head ends the search.
LEMMA OverheadKeeps == ASSUME ScanInv, Ledge!Overhead PROVE ScanInv'
<1>1. /\ found = "scanning" /\ ~hit /\ Ledge!TraceDepth(height, range) = range /\ ~planned
      /\ found' = "overhead" /\ UNCHANGED <<wall, ceiling, planned, height, hit, range, last, refused>>
  BY DEF Ledge!Overhead, Ledge!World, Ledge!AboveHead
<1>2. height \notin Ledge!Walls
  BY <1>1, AtHeight DEF Ledge!Walls, ScanInv, BehindWall
<1>3. /\ Ledge!Tried' = Ledge!Tried /\ Ledge!FrontDepth' = Ledge!FrontDepth
      /\ Ledge!Walls' = Ledge!Walls /\ Ledge!Deep' = Ledge!Deep /\ Ledge!Lowest' = Ledge!Lowest
      /\ \A h : Ledge!Depth(h)' = Ledge!Depth(h)
  BY <1>1, SameWalls
<1>4. ScanTypes' /\ AtTried' /\ OverheadSeen'
  BY <1>1, <1>2, <1>3 DEF ScanInv, ScanTypes, AtTried, OverheadSeen
<1>5. BehindWall' /\ BelowRefused'
  BY <1>1, <1>3 DEF ScanInv, BehindWall, BelowRefused
<1> QED
  BY <1>4, <1>5 DEF ScanInv

\* Free space below the head: there was no wall to be on top of.
LEMMA NothingKeeps == ASSUME ScanInv, Ledge!Nothing PROVE ScanInv'
<1>1. /\ found = "scanning" /\ ~hit /\ Ledge!TraceDepth(height, range) = range
      /\ Ledge!Advance /\ Ledge!World /\ hit' = hit /\ range' = range /\ refused' = refused
  BY DEF Ledge!Nothing
<1>2. range = LookAhead /\ \A w \in Ledge!Walls : w >= height
  BY <1>1 DEF ScanInv, BehindWall
<1>3. height \notin Ledge!Walls
  BY <1>1, <1>2, AtHeight DEF Ledge!Walls
<1>4. height \notin Ledge!Deep
  BY <1>1, <1>2, AtHeight DEF Ledge!Deep, Ledge!Walls, Ledge!Tried
<1> QED
  BY <1>1, <1>3, <1>4, AdvanceKeeps DEF ScanInv, ScanTypes

\* A trace that is deep enough behind the front is of a ledge.
LEMMA LedgeKeeps == ASSUME ScanInv, Ledge!Ledge PROVE ScanInv'
<1> DEFINE depth == Ledge!TraceDepth(height, range)
<1>1. /\ found = "scanning" /\ hit /\ depth # Ledge!Solid /\ depth - Ledge!FrontDepth > MinDepth
      /\ \/ found' = "ledge" /\ UNCHANGED <<height, last, refused>>
         \/ refused' = refused \cup {height} /\ Ledge!Advance
      /\ Ledge!World /\ hit' = hit /\ range' = range
  BY DEF Ledge!Ledge, Ledge!DeepEnough
<1>2. Ledge!Depth(height) - Ledge!FrontDepth > MinDepth
  BY <1>1, AtHeight
<1>3. \E w \in Ledge!Walls : w < height
  <2>1. ASSUME height = ceiling, ceiling = Ledge!Lowest PROVE FALSE
    <3>1. Ledge!FrontDepth = Ledge!Min({wall[g] : g \in Ledge!Lowest .. ceiling})
      BY DEF Ledge!FrontDepth
    <3>2. {wall[g] : g \in Ledge!Lowest .. ceiling} = {wall[ceiling]}
      BY <1>1, <2>1, AtHeight
    <3>3. wall[ceiling] \in Int
      BY <1>1, AtHeight, ConstantTypes DEF Dom
    <3>4. Ledge!Min({wall[ceiling], wall[ceiling]}) = wall[ceiling]
      BY <3>3, LessOfTwo
    <3>5. {wall[ceiling], wall[ceiling]} = {wall[ceiling]}
      OBVIOUS
    <3>6. Ledge!FrontDepth = wall[ceiling]
      BY <3>1, <3>2, <3>4, <3>5
    <3>7. height \in height .. height + Crouch
      BY <1>1, AtHeight
    <3>8. Ledge!Depth(height) <= wall[height]
      BY <1>1, <3>7, AtHeight, DepthIs
    <3> QED
      BY <1>1, <1>2, <2>1, <3>3, <3>6, <3>8, AtHeight
  <2> QED
    BY <1>1, <2>1 DEF ScanInv, BehindWall
<1>4. height \in Ledge!Deep
  BY <1>1, <1>2, <1>3, AtHeight DEF Ledge!Deep
<1>5. CASE refused' = refused \cup {height} /\ Ledge!Advance
  <2>1. hit => \/ range' > Ledge!FrontDepth + MinDepth
               \/ \A h \in height .. ceiling : Ledge!Depth(h) <= Ledge!FrontDepth
    BY <1>1 DEF ScanInv, BehindWall
  <2> QED
    BY <1>1, <1>5, <2>1, AdvanceKeeps DEF ScanInv, ScanTypes
<1>6. CASE found' = "ledge" /\ UNCHANGED <<height, last, refused>>
  <2>1. UNCHANGED <<wall, ceiling, planned>>
    BY <1>1 DEF Ledge!World
  <2>2. /\ Ledge!Tried' = Ledge!Tried /\ Ledge!FrontDepth' = Ledge!FrontDepth
        /\ Ledge!Walls' = Ledge!Walls /\ Ledge!Deep' = Ledge!Deep /\ Ledge!Lowest' = Ledge!Lowest
        /\ \A h : Ledge!Depth(h)' = Ledge!Depth(h)
    BY <2>1, SameWalls
  <2>3. ScanTypes' /\ AtTried' /\ OverheadSeen'
    BY <1>1, <1>6, <2>1, <2>2 DEF ScanInv, ScanTypes, AtTried, OverheadSeen
  <2>4. BehindWall' /\ BelowRefused'
    BY <1>1, <1>4, <1>6, <2>1, <2>2 DEF ScanInv, BehindWall, BelowRefused
  <2> QED
    BY <2>3, <2>4 DEF ScanInv
<1> QED
  BY <1>1, <1>5, <1>6

\* A trace that is not deep enough is not of a ledge: one long enough would have shown it.
LEMMA StillWallKeeps == ASSUME ScanInv, Ledge!StillWall PROVE ScanInv'
<1> DEFINE depth == Ledge!TraceDepth(height, range)
<1>1. /\ found = "scanning" /\ hit /\ ~(depth - Ledge!FrontDepth > MinDepth)
      /\ Ledge!Advance /\ Ledge!World /\ hit' = hit /\ range' = range /\ refused' = refused
  BY DEF Ledge!StillWall, Ledge!DeepEnough
<1>2. \/ range > Ledge!FrontDepth + MinDepth
      \/ \A h \in height .. ceiling : Ledge!Depth(h) <= Ledge!FrontDepth
  BY <1>1 DEF ScanInv, BehindWall
<1>3. ~(Ledge!Depth(height) - Ledge!FrontDepth > MinDepth)
  <2>1. height \in height .. ceiling
    BY <1>1, AtHeight
  <2> QED
    BY <1>1, <1>2, <2>1, AtHeight
<1>4. height \notin Ledge!Deep
  BY <1>3 DEF Ledge!Deep
<1> QED
  BY <1>1, <1>2, <1>4, AdvanceKeeps DEF ScanInv, ScanTypes

\* A search starts at the lowest height, with nothing met yet.
LEMMA ScanStarts == ASSUME Ledge!Init PROVE ScanInv
<1>1. /\ ceiling \in Ledge!Lowest .. MaxJump /\ wall \in Fronts /\ Ledge!FrontDepth \in 0 .. LookAhead - 1
      /\ planned \in BOOLEAN /\ height = Ledge!Lowest /\ hit = FALSE /\ range = LookAhead /\ last = FALSE
      /\ refused = {} /\ found = "scanning"
  BY DEF Ledge!Init
<1>2. ScanTypes
  <2>1. wall \in [Dom -> {-1} \cup Nat]
    BY <1>1, ConstantTypes
  <2>2. wall \in [StepHeight + 1 .. MaxJump + Crouch -> {Ledge!Solid} \cup Nat]
    BY <2>1, ConstantTypes DEF Dom
  <2>3. height \in Nat /\ range \in Nat /\ range >= LookAhead
    BY <1>1, ConstantTypes
  <2> QED
    BY <1>1, <2>2, <2>3 DEF ScanTypes
<1>3. Ledge!Lowest \in Ledge!Tried
  <2>1. Ledge!Lowest \in Ledge!Lowest .. ceiling
    BY <1>1, ConstantTypes
  <2>2. \A d \in Nat : d > 0 => 0 % d = 0
    OBVIOUS
  <2>3. (Ledge!Lowest - Ledge!Lowest) % Ledge!Increment = 0
    BY <2>2, ConstantTypes
  <2> QED
    BY <2>1, <2>3 DEF Ledge!Tried
<1>4. \A h \in Ledge!Tried : h \in Nat /\ h >= Ledge!Lowest
  BY ConstantTypes DEF Ledge!Tried
<1>5. AtTried
  BY <1>1, <1>3, ConstantTypes DEF AtTried
<1>6. BehindWall
  BY <1>1, <1>4 DEF BehindWall, Ledge!Walls
<1>7. BelowRefused
  BY <1>1, <1>4, ConstantTypes DEF BelowRefused, Ledge!Deep
<1> QED
  BY <1>1, <1>2, <1>5, <1>6, <1>7 DEF ScanInv, OverheadSeen

\* A step that leaves the search alone.
LEMMA ScanRests == ASSUME ScanInv, UNCHANGED ledgeVars PROVE ScanInv'
<1>1. UNCHANGED <<wall, ceiling, planned, height, hit, range, last, refused, found>>
  BY DEF ledgeVars
<1>2. /\ Ledge!Tried' = Ledge!Tried /\ Ledge!FrontDepth' = Ledge!FrontDepth
      /\ Ledge!Walls' = Ledge!Walls /\ Ledge!Deep' = Ledge!Deep /\ Ledge!Lowest' = Ledge!Lowest
      /\ \A h : Ledge!Depth(h)' = Ledge!Depth(h)
  BY <1>1, SameWalls
<1>3. ScanTypes' /\ AtTried' /\ OverheadSeen'
  BY <1>1, <1>2 DEF ScanInv, ScanTypes, AtTried, OverheadSeen
<1>4. BehindWall' /\ BelowRefused'
  BY <1>1, <1>2 DEF ScanInv, BehindWall, BelowRefused
<1> QED
  BY <1>3, <1>4 DEF ScanInv

\* The search moves only by its own steps.
LEMMA LedgeAlone == NpcsSpec => Ledge!Init /\ [][Ledge!Next]_ledgeVars
<1>1. NpcsInit => Ledge!Init
  BY DEF NpcsInit
<1>2. [NpcsNext]_allVars => [Ledge!Next]_ledgeVars
  BY DEF NpcsNext, allVars, LocomotionStep, ScheduleStep
<1> QED
  BY <1>1, <1>2, PTL DEF NpcsSpec

\* The invariant of the search.
LEMMA ScanInvHolds == NpcsSpec => []ScanInv
<1>1. Ledge!Init => ScanInv
  BY ScanStarts
<1>2. ScanInv /\ [Ledge!Next]_ledgeVars => ScanInv'
  <2> SUFFICES ASSUME ScanInv, [Ledge!Next]_ledgeVars PROVE ScanInv'
    OBVIOUS
  <2>1. CASE Ledge!Next
    BY <2>1, StartSolidKeeps, WallKeeps, OverheadKeeps, NothingKeeps, LedgeKeeps, StillWallKeeps
       DEF Ledge!Next
  <2>2. CASE UNCHANGED ledgeVars
    BY <2>2, ScanRests
  <2> QED
    BY <2>1, <2>2
<1> QED
  BY <1>1, <1>2, LedgeAlone, PTL

\* The search for a ledge finds the lowest one there is: of all the heights that it
\* tries, up to the ceiling itself, the first that is above a wall, as deep behind the
\* front as a ledge must be, and can be stood on (NextBotPathFollow.cpp:1458).
THEOREM LowestLedgeIsFound == NpcsSpec => []LowestLedge
<1>1. ScanInv => LowestLedge
  BY DEF ScanInv, BelowRefused, LowestLedge, Ledge!LowestLedge
<1> QED
  BY <1>1, ScanInvHolds, PTL

\* Free space overhead ends a search only where there was no wall on the way up, and
\* no climb is planned.
THEOREM OnlyFreeOverheadEnds == NpcsSpec => []OverheadIsFree
<1>1. ScanInv => OverheadIsFree
  <2> SUFFICES ASSUME ScanInv, found = "overhead"
               PROVE  ~planned /\ \A h \in Ledge!Walls : h > height
    BY DEF OverheadIsFree, Ledge!OverheadIsFree
  <2>1. ~planned /\ height \notin Ledge!Walls /\ \A h \in Ledge!Walls : h >= height
    BY DEF ScanInv, OverheadSeen, BehindWall
  <2>2. \A h \in Ledge!Walls : h \in Nat /\ height \in Nat
    BY ConstantTypes DEF ScanInv, ScanTypes, Ledge!Walls, Ledge!Tried
  <2> QED
    BY <2>1, <2>2
<1> QED
  BY <1>1, ScanInvHolds, PTL

==============================================================================
