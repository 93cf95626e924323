---------------------------- MODULE ClientEntities ----------------------------
(***************************************************************************)
(* The client entity manager: CClientEntityManager                         *)
(* (client/cliententitymanager.cpp) and the creation of custom client      *)
(* classes (CBaseNPCClientClassManager::Create and the sidecar pool of     *)
(* CBaseNPCRuntimeClientClass, sourcesdk/cbasenpcclientclass.{h,cpp}).     *)
(*                                                                         *)
(* The game's client creates and deletes entities and tells the manager;   *)
(* the manager keeps a record of each and tells plugins and listeners,     *)
(* which may create and delete entities before they return.  ctl is the    *)
(* C++ call stack, innermost call first.                                   *)
(*                                                                         *)
(* An entity is an address with the handle of the object that lives there: *)
(* addresses are used again, handles are not.                              *)
(***************************************************************************)
EXTENDS Naturals, Sequences, FiniteSets

CONSTANTS
  Addresses,   \* memory that client entities may occupy
  Indexes,     \* entity indexes of networked entities
  Listeners,   \* C++ listeners that may be registered
  MaxHandles,  \* bound: entities created in one execution
  MaxDepth,    \* bound: calls on the stack when a callback calls back
  CallsBack    \* <<callback, call>>: the calls that callbacks make

None == 0
Handles == 1..MaxHandles
\* The callbacks into plugins and listeners.
Callbacks == {"constructed", "removed", "forwardCreated", "listenerCreated",
              "forwardDestroyed", "listenerDestroyed"}
CallKinds == {"create", "delete", "listen"}

ASSUME ConstantsOK ==
  /\ Addresses # {}
  /\ None \notin Addresses /\ None \notin Indexes /\ None \notin Listeners
  /\ MaxHandles \in Nat \ {0} /\ MaxDepth \in Nat
  /\ CallsBack \subseteq Callbacks \X CallKinds

\* EntityRecord.  clientRef is the index of a networked entity and the token
\* (durableRef) of a client-only one; runtime says whether runtimeClass is set.
Record ==
  [handle : Handles, index : Indexes \cup {None}, token : Handles, deleting : BOOLEAN,
   runtime : BOOLEAN, sidecar : 0..MaxHandles, slotted : BOOLEAN,
   createdNotified : BOOLEAN, postConstructed : BOOLEAN, removeNotified : BOOLEAN]
NoRecord == [handle |-> None]
NoSlot == [a |-> None, sidecar |-> None, h |-> None]

VARIABLES
  live,       \* engine: the handle of the entity at each address, or None
  at,         \* engine: its entity index, or None if it is client-only
  used,       \* engine: handles given out so far
  entities,   \* entities_: the record of each address, or NoRecord
  tokens,     \* clientTokens_
  nextToken,  \* nextClientToken_
  order,      \* entityOrder_
  pending,    \* pendingCreates_
  listeners,  \* listeners_
  slots,      \* networkSidecars_
  blocks,     \* sidecarBlocks: how many were allocated
  free,       \* freeSidecars
  available,  \* available_
  purging,    \* purging_
  published,  \* whether the network schema was published with custom classes
  told,       \* history: what plugins were told of each handle, in order
  ctl         \* the call stack

engine == <<live, at, used>>
registry == <<entities, tokens, nextToken, order>>
sidecars == <<slots, blocks, free>>
modes == <<available, purging, published>>
vars == <<live, at, used, entities, tokens, nextToken, order, pending, listeners,
          slots, blocks, free, available, purging, published, told, ctl>>

(***************************************************************************)
(* Calls                                                                   *)
(***************************************************************************)
Ops == Callbacks \cup
  {"deleted", "cleanup", "cleanedUp", "notifyDestroyed", "destroyedAll", "destroyedEach",
   "erase", "freeMemory", "notify", "createdAll", "createdEach", "flush", "attach",
   "return", "purge", "purged", "stop"}
Frame ==
  [op : Ops, a : Addresses \cup {None}, h : 0..MaxHandles, ls : Seq(Listeners),
   q : Seq(Addresses \X (0..MaxHandles)), t : 0..MaxHandles]

Do(op, a, h) == [op |-> op, a |-> a, h |-> h, ls |-> <<>>, q |-> <<>>, t |-> None]
Each(op, a, h, ls) == [Do(op, a, h) EXCEPT !.ls = ls]
Queue(op, q) == [Do(op, None, None) EXCEPT !.q = q]

Top == Head(ctl)
Running(op) == ctl # <<>> /\ Top.op = op
Becomes(fs) == ctl' = fs \o Tail(ctl)
Calls(fs) == ctl' = fs \o ctl

\* Plugin and engine code runs between calls and inside callbacks.
MayCall(call) ==
  IF ctl = <<>> THEN TRUE
  ELSE <<Top.op, call>> \in CallsBack /\ Len(ctl) <= MaxDepth

\* std::remove and erase.
Remaining(s, x) ==
  LET rest[k \in 0..Len(s)] ==
        IF k = 0 THEN <<>> ELSE IF s[k] = x THEN rest[k-1] ELSE Append(rest[k-1], s[k])
  IN rest[Len(s)]

Tracked(a) == entities[a] # NoRecord
Tells(h, event) == told' = [told EXCEPT ![h] = Append(@, event)]
-----------------------------------------------------------------------------
(***************************************************************************)
(* References                                                              *)
(***************************************************************************)

\* ResolveRecord of a durable reference: the entity it stands for.
Resolve(t) ==
  {a \in Addresses : /\ available /\ tokens[t] = a
                     /\ Tracked(a) /\ entities[a].token = t
                     /\ live[a] = entities[a].handle}

\* IsSameClientEntity.
IsSameClientEntity(a, t) == available /\ Tracked(a) /\ a \in Resolve(t)

\* What GetNetworkSidecarAddress lets a receive proxy write to.
SidecarAt(i, a) ==
  IF available /\ slots[i].a = a /\ live[a] = slots[i].h THEN slots[i].sidecar ELSE None

(***************************************************************************)
(* TrackEntity, AttachRuntime and the creation of entities                 *)
(***************************************************************************)

TokenOfLowest == CHOOSE t \in Handles : tokens[t] = None /\ \A u \in Handles : tokens[u] = None => t <= u
\* Tokens are never recycled.
TokenOfNext == nextToken

NewRecord(h, i) ==
  [handle |-> h, index |-> i, token |-> TokenOfNext, deleting |-> FALSE,
   runtime |-> FALSE, sidecar |-> None, slotted |-> FALSE,
   createdNotified |-> FALSE, postConstructed |-> FALSE, removeNotified |-> FALSE]

\* AcquireSidecar: the block released last, or a new one.
Acquired == IF free = <<>> THEN blocks + 1 ELSE free[Len(free)]
AcquireWithoutPop ==
  /\ blocks' = IF free = <<>> THEN blocks + 1 ELSE blocks
  /\ free' = free
AfterAcquire ==
  /\ blocks' = IF free = <<>> THEN blocks + 1 ELSE blocks
  /\ free' = IF free = <<>> THEN free ELSE SubSeq(free, 1, Len(free) - 1)

\* The record of a new entity.  One of a custom class gets its runtime and a
\* sidecar at once; hooked is whether both hooks of it could be set, if not
\* CleanupRuntime takes the runtime away again.
Track(a, h, i, custom, hooked) ==
  LET attached == custom /\ hooked
      r == [NewRecord(h, i) EXCEPT
              !.runtime = attached, !.slotted = attached, !.removeNotified = custom /\ ~hooked,
              !.sidecar = IF attached THEN Acquired ELSE None]
  IN /\ entities' = [entities EXCEPT ![a] = r]
     /\ tokens' = [tokens EXCEPT ![r.token] = a]
     /\ nextToken' = nextToken + 1
     /\ order' = Append(order, a)
     /\ IF attached
        THEN /\ slots' = [slots EXCEPT ![i] = [a |-> a, sidecar |-> Acquired, h |-> h]]
             /\ AfterAcquire
        ELSE IF custom
        THEN /\ slots' = [slots EXCEPT ![i] = NoSlot]
             /\ blocks' = IF free = <<>> THEN blocks + 1 ELSE blocks
             /\ free' = IF free = <<>> THEN <<blocks + 1>> ELSE free
        ELSE UNCHANGED sidecars

\* The engine constructs an entity and calls OnEntityCreated; the manager
\* does not track it while it purges or when it is stopped.
Construct(a, i, custom, hooked, networked, after) ==
  LET h == used + 1
      tracks == available /\ ~purging
  IN /\ live[a] = None /\ h \in Handles
     /\ i # None => \A b \in Addresses : live[b] = None \/ at[b] # i
     /\ live' = [live EXCEPT ![a] = h] /\ at' = [at EXCEPT ![a] = i] /\ used' = h
     /\ IF tracks THEN Track(a, h, i, custom, hooked)
        ELSE UNCHANGED <<registry, sidecars>>
     /\ pending' = IF tracks /\ networked THEN Append(pending, <<a, h>>) ELSE pending
     /\ Calls((IF tracks /\ ~networked THEN <<Do("notify", a, h)>> ELSE <<>>) \o after)
     /\ UNCHANGED <<listeners, modes, told>>

\* Networked creation is announced after the initial decode.
CreateNetworked(a, i) ==
  MayCall("create") /\ Construct(a, i, FALSE, FALSE, TRUE, <<>>)

\* A client-only entity is announced at once.
CreateClientOnly(a) ==
  MayCall("create") /\ Construct(a, None, FALSE, FALSE, FALSE, <<>>)

\* CBaseNPCClientClassManager::Create, the create function of a custom class.
CreateCustom(a, i, hooked) ==
  /\ MayCall("create") /\ available /\ published
  /\ Construct(a, i, TRUE, hooked, TRUE, <<Do("attach", a, used + 1)>>)

\* What the engine does to delete an entity: Release (hooked for a custom
\* class), OnEntityDeleted, and the memory.
Deletion(a) ==
  (IF Tracked(a) /\ entities[a].runtime THEN <<Do("cleanup", a, None)>> ELSE <<>>)
  \o <<Do("deleted", a, None), Do("freeMemory", a, None)>>

\* The record got its runtime in TrackEntity and is not on its way out.
Attachable(a) ==
  Tracked(a) /\ entities[a].runtime /\ ~entities[a].deleting /\ ~entities[a].removeNotified

\* ... after the stock create function: AttachRuntime, RunPostConstructor.
AttachRuntime ==
  /\ Running("attach")
  /\ LET a == Top.a IN
     IF Attachable(a)
     THEN /\ entities' = [entities EXCEPT ![a].postConstructed = TRUE]
          /\ Tells(Top.h, "constructed")
          /\ Becomes(<<Do("constructed", a, Top.h),
                       [Do("return", a, Top.h) EXCEPT !.t = entities[a].token]>>)
     ELSE /\ Becomes(Deletion(a))
          /\ UNCHANGED <<entities, told>>
  /\ UNCHANGED <<engine, tokens, nextToken, order, pending, listeners, sidecars, modes>>

\* What Create returns to the engine: the networkable, unless a callback has
\* deleted the entity.
ReturnsEntity == IsSameClientEntity(Top.a, Top.t)
CreateReturns ==
  /\ Running("return")
  /\ Becomes(<<>>)
  /\ UNCHANGED <<engine, registry, pending, listeners, sidecars, modes, told>>

\* A callback is over.
CallbackReturns ==
  /\ ctl # <<>> /\ Top.op \in Callbacks
  /\ Becomes(<<>>)
  /\ UNCHANGED <<engine, registry, pending, listeners, sidecars, modes, told>>

(***************************************************************************)
(* NotifyCreated and FlushPendingCreates                                   *)
(***************************************************************************)
AnyCurrent(a, h) == Tracked(a)
\* The record is still that of the entity the call is about.
IsCurrent(a, h) == Tracked(a) /\ entities[a].handle = h

NotifyCreated ==
  /\ Running("notify")
  /\ LET a == Top.a
         h == Top.h
     IN IF available /\ IsCurrent(a, h) /\ ~entities[a].deleting /\ ~entities[a].createdNotified
        THEN /\ entities' = [entities EXCEPT ![a].createdNotified = TRUE]
             /\ Tells(h, "created")
             /\ Becomes(<<Do("forwardCreated", a, h), Do("createdAll", a, h)>>)
        ELSE /\ Becomes(<<>>)
             /\ UNCHANGED <<entities, told>>
  /\ UNCHANGED <<engine, tokens, nextToken, order, pending, listeners, sidecars, modes>>

\* The listeners registered when the forward has returned.
CreatedListeners ==
  /\ Running("createdAll")
  /\ Becomes(<<Each("createdEach", Top.a, Top.h, listeners)>>)
  /\ UNCHANGED <<engine, registry, pending, listeners, sidecars, modes, told>>

Registered(l) == \E k \in DOMAIN listeners : listeners[k] = l
\* Each is told unless it left meanwhile, or the entity did.
TellCreated ==
  /\ Running("createdEach")
  /\ IF Top.ls = <<>> \/ ~available \/ ~IsCurrent(Top.a, Top.h)
     THEN Becomes(<<>>)
     ELSE Becomes((IF Registered(Head(Top.ls))
                   THEN <<Do("listenerCreated", Top.a, Top.h)>> ELSE <<>>)
                  \o <<[Top EXCEPT !.ls = Tail(@)]>>)
  /\ UNCHANGED <<engine, registry, pending, listeners, sidecars, modes, told>>

\* FrameStageNotify at FRAME_NET_UPDATE_END.
FlushPendingCreates ==
  /\ ctl = <<>> /\ available /\ pending # <<>>
  /\ pending' = <<>>
  /\ Calls(<<Queue("flush", pending)>>)
  /\ UNCHANGED <<engine, registry, listeners, sidecars, modes, told>>

\* One call for each pending creation; those that callbacks add meanwhile wait
\* for the next update.
FlushThenClear ==
  /\ Running("flush")
  /\ IF Top.q = <<>> THEN Becomes(<<>>)
     ELSE Becomes(<<Do("notify", Head(Top.q)[1], Head(Top.q)[2]),
                    Queue("flush", Tail(Top.q))>>)
  /\ pending' = IF Top.q = <<>> THEN <<>> ELSE pending
  /\ UNCHANGED <<engine, registry, listeners, sidecars, modes, told>>
Flush ==
  /\ Running("flush")
  /\ IF Top.q = <<>> THEN Becomes(<<>>)
     ELSE Becomes(<<Do("notify", Head(Top.q)[1], Head(Top.q)[2]),
                    Queue("flush", Tail(Top.q))>>)
  /\ UNCHANGED <<engine, registry, pending, listeners, sidecars, modes, told>>

(***************************************************************************)
(* OnEntityDeleted and CleanupRuntime                                      *)
(***************************************************************************)

\* The game, or a callback, deletes an entity that is not being deleted yet.
Deleting(a) == \E k \in DOMAIN ctl : ctl[k].op = "freeMemory" /\ ctl[k].a = a
DeleteEntity(a) ==
  /\ MayCall("delete") /\ live[a] # None /\ ~Deleting(a)
  /\ Calls(Deletion(a))
  /\ UNCHANGED <<engine, registry, pending, listeners, sidecars, modes, told>>

\* Destruction is told of entities whose creation was.
Notice(a, h) ==
  IF entities[a].createdNotified THEN <<Do("notifyDestroyed", a, h)>> ELSE <<>>
EraseFirst(a, h) == <<Do("cleanup", a, None), Do("erase", a, h)>> \o Notice(a, h)
\* Cleanup, then the callbacks, and the record goes last.
Destruction(a, h) == <<Do("cleanup", a, None)>> \o Notice(a, h) \o <<Do("erase", a, h)>>

OnEntityDeleted ==
  /\ Running("deleted")
  /\ LET a == Top.a IN
     IF ~available \/ ~Tracked(a) \/ entities[a].deleting
     THEN /\ Becomes(<<>>)
          /\ UNCHANGED entities
     ELSE LET h == entities[a].handle IN
          /\ entities' = [entities EXCEPT ![a].deleting = TRUE]
          /\ Becomes(Destruction(a, h))
  /\ UNCHANGED <<engine, tokens, nextToken, order, pending, listeners, sidecars, modes, told>>

\* CleanupRuntime, once for each record, up to the OnRemove callback.
CleanupRuntime ==
  /\ Running("cleanup")
  /\ LET a == Top.a IN
     IF ~Tracked(a) \/ entities[a].removeNotified
     THEN /\ Becomes(<<>>)
          /\ UNCHANGED <<entities, told>>
     ELSE LET h == entities[a].handle
              tells == entities[a].runtime /\ entities[a].postConstructed
          IN /\ entities' = [entities EXCEPT ![a].removeNotified = TRUE]
             /\ IF tells THEN Tells(h, "removed") ELSE UNCHANGED told
             /\ Becomes((IF tells THEN <<Do("removed", a, h)>> ELSE <<>>)
                        \o <<Do("cleanedUp", a, h)>>)
  /\ UNCHANGED <<engine, tokens, nextToken, order, pending, listeners, sidecars, modes>>

SlotsKept(a) == slots
\* ClearNetworkSlot: a slot that a newer entity has taken over stays.
SlotsCleared(a) ==
  LET r == entities[a] IN
  IF r.slotted /\ slots[r.index].a = a /\ slots[r.index].h = r.handle
  THEN [slots EXCEPT ![r.index] = NoSlot] ELSE slots

ReleasedAlways(a) == Append(free, entities[a].sidecar)
\* ReleaseSidecar.
Released(a) == IF entities[a].runtime THEN Append(free, entities[a].sidecar) ELSE free

\* ... and after it: the slot, the hooks and the sidecar go.
CleanedUp ==
  /\ Running("cleanedUp")
  /\ LET a == Top.a IN
     IF ~IsCurrent(a, Top.h)
     THEN UNCHANGED <<entities, slots, free>>
     ELSE /\ slots' = SlotsCleared(a)
          /\ free' = Released(a)
          /\ entities' = [entities EXCEPT ![a].slotted = FALSE, ![a].runtime = FALSE,
                                         ![a].sidecar = None]
  /\ Becomes(<<>>)
  /\ UNCHANGED <<engine, tokens, nextToken, order, pending, listeners, blocks, modes, told>>

NotifyDestroyed ==
  /\ Running("notifyDestroyed")
  /\ Tells(Top.h, "destroyed")
  /\ Becomes(<<Do("forwardDestroyed", Top.a, Top.h), Do("destroyedAll", Top.a, Top.h)>>)
  /\ UNCHANGED <<engine, registry, pending, listeners, sidecars, modes>>

DestroyedListeners ==
  /\ Running("destroyedAll")
  /\ Becomes(<<Each("destroyedEach", Top.a, Top.h, listeners)>>)
  /\ UNCHANGED <<engine, registry, pending, listeners, sidecars, modes, told>>

TellDestroyed ==
  /\ Running("destroyedEach")
  /\ IF Top.ls = <<>> \/ ~available
     THEN Becomes(<<>>)
     ELSE Becomes((IF Registered(Head(Top.ls))
                   THEN <<Do("listenerDestroyed", Top.a, Top.h)>> ELSE <<>>)
                  \o <<[Top EXCEPT !.ls = Tail(@)]>>)
  /\ UNCHANGED <<engine, registry, pending, listeners, sidecars, modes, told>>

OrderKept(a) == order
Without(a) == Remaining(order, a)

\* The record goes when all callbacks have returned.
Erase ==
  /\ Running("erase")
  /\ LET a == Top.a IN
     IF IsCurrent(a, Top.h)
     THEN /\ order' = Without(a)
          /\ tokens' = [tokens EXCEPT ![entities[a].token] = None]
          /\ entities' = [entities EXCEPT ![a] = NoRecord]
     ELSE UNCHANGED <<order, tokens, entities>>
  /\ Becomes(<<>>)
  /\ UNCHANGED <<engine, nextToken, pending, listeners, sidecars, modes, told>>

\* The engine frees the memory; the address may be used again.
FreeMemory ==
  /\ Running("freeMemory")
  /\ live' = [live EXCEPT ![Top.a] = None] /\ at' = [at EXCEPT ![Top.a] = None]
  /\ Becomes(<<>>)
  /\ UNCHANGED <<used, registry, pending, listeners, sidecars, modes, told>>

(***************************************************************************)
(* PurgeEntities and Shutdown                                              *)
(***************************************************************************)
PurgeFrames == <<Queue("purge", [k \in DOMAIN order |-> <<order[k], None>>]),
                 Do("purged", None, None)>>

\* LevelShutdown and the end of the map.
PurgeEntities ==
  /\ ctl = <<>> /\ available
  /\ purging' = TRUE /\ pending' = <<>>
  /\ Calls(PurgeFrames)
  /\ UNCHANGED <<engine, registry, listeners, sidecars, available, published, told>>

\* The extension unloads.  (After publication it leaves the manager as it is.)
Shutdown ==
  /\ ctl = <<>> /\ available /\ ~published
  /\ purging' = TRUE /\ pending' = <<>>
  /\ Calls(PurgeFrames \o <<Do("stop", None, None)>>)
  /\ UNCHANGED <<engine, registry, listeners, sidecars, available, published, told>>

Purge ==
  /\ Running("purge")
  /\ IF Top.q = <<>> THEN Becomes(<<>>)
     ELSE Becomes(<<Do("deleted", Head(Top.q)[1], None), Queue("purge", Tail(Top.q))>>)
  /\ UNCHANGED <<engine, registry, pending, listeners, sidecars, modes, told>>

Purged ==
  /\ Running("purged")
  /\ order' = <<>> /\ entities' = [a \in Addresses |-> NoRecord]
  /\ tokens' = [t \in Handles |-> None] /\ slots' = [i \in Indexes |-> NoSlot]
  /\ purging' = FALSE
  /\ Becomes(<<>>)
  /\ UNCHANGED <<engine, nextToken, pending, listeners, blocks, free, available, published, told>>

Stop ==
  /\ Running("stop")
  /\ available' = FALSE /\ listeners' = <<>>
  /\ Becomes(<<>>)
  /\ UNCHANGED <<engine, registry, pending, sidecars, purging, published, told>>

AddClientEntityListener(l) ==
  /\ MayCall("listen") /\ available /\ ~Registered(l)
  /\ listeners' = Append(listeners, l)
  /\ UNCHANGED <<engine, registry, pending, sidecars, modes, told, ctl>>

RemoveClientEntityListener(l) ==
  /\ MayCall("listen") /\ Registered(l)
  /\ listeners' = Remaining(listeners, l)
  /\ UNCHANGED <<engine, registry, pending, sidecars, modes, told, ctl>>

-----------------------------------------------------------------------------
\* SeedExistingEntities: an entity may be there before the extension, and is
\* tracked silently (at one address, as they do not differ).
Init ==
  /\ \E seed \in {NoSlot} \cup
         {[a |-> CHOOSE a \in Addresses : TRUE, h |-> 1, i |-> i] : i \in Indexes \cup {None}} :
       LET seeded == seed # NoSlot IN
       /\ live = [a \in Addresses |-> IF a = seed.a THEN 1 ELSE None]
       /\ at = [a \in Addresses |-> IF a = seed.a THEN seed.i ELSE None]
       /\ used = IF seeded THEN 1 ELSE 0
       /\ entities = [a \in Addresses |->
            IF a = seed.a
            THEN [handle |-> 1, index |-> seed.i, token |-> 1, deleting |-> FALSE,
                  runtime |-> FALSE, sidecar |-> None, slotted |-> FALSE,
                  createdNotified |-> TRUE, postConstructed |-> FALSE, removeNotified |-> FALSE]
            ELSE NoRecord]
       /\ tokens = [t \in Handles |-> IF seeded /\ t = 1 THEN seed.a ELSE None]
       /\ nextToken = IF seeded THEN 2 ELSE 1
       /\ order = IF seeded THEN <<seed.a>> ELSE <<>>
       /\ told = [h \in Handles |-> IF seeded /\ h = 1 THEN <<"seeded">> ELSE <<>>]
  /\ pending = <<>> /\ listeners = <<>>
  /\ slots = [i \in Indexes |-> NoSlot] /\ blocks = 0 /\ free = <<>>
  /\ available = TRUE /\ purging = FALSE /\ ctl = <<>>
  /\ published \in BOOLEAN

\* The manager's own code.
Manager ==
  \/ AttachRuntime \/ CreateReturns \/ CallbackReturns
  \/ NotifyCreated \/ CreatedListeners \/ TellCreated \/ Flush
  \/ OnEntityDeleted \/ CleanupRuntime \/ CleanedUp
  \/ NotifyDestroyed \/ DestroyedListeners \/ TellDestroyed \/ Erase \/ FreeMemory
  \/ Purge \/ Purged \/ Stop

\* The game's client, plugins and listeners.
World ==
  \/ \E a \in Addresses :
       \/ CreateClientOnly(a) \/ DeleteEntity(a)
       \/ \E i \in Indexes : CreateNetworked(a, i)
       \/ \E i \in Indexes, hooked \in BOOLEAN : CreateCustom(a, i, hooked)
  \/ \E l \in Listeners : AddClientEntityListener(l) \/ RemoveClientEntityListener(l)
  \/ FlushPendingCreates \/ PurgeEntities \/ Shutdown

Next == Manager \/ World
Spec == Init /\ [][Next]_vars
\* Calls run on, and the client ends its network updates.
FairSpec == Spec /\ WF_vars(Manager) /\ WF_vars(FlushPendingCreates)
-----------------------------------------------------------------------------
(***************************************************************************)
(* Properties                                                              *)
(***************************************************************************)

\* Type correctness of records, tokens, slots, the sidecar pool and frames.
TypeOK ==
  /\ live \in [Addresses -> 0..MaxHandles] /\ at \in [Addresses -> Indexes \cup {None}]
  /\ used \in 0..MaxHandles
  /\ entities \in [Addresses -> Record \cup {NoRecord}]
  /\ tokens \in [Handles -> Addresses \cup {None}] /\ nextToken \in 1..(MaxHandles + 1)
  /\ order \in Seq(Addresses) /\ pending \in Seq(Addresses \X Handles)
  /\ listeners \in Seq(Listeners)
  /\ slots \in [Indexes -> [a : Addresses \cup {None}, sidecar : 0..MaxHandles, h : 0..MaxHandles]]
  /\ blocks \in 0..MaxHandles /\ free \in Seq(1..MaxHandles)
  /\ available \in BOOLEAN /\ purging \in BOOLEAN /\ published \in BOOLEAN
  /\ told \in [Handles -> Seq({"seeded", "constructed", "created", "removed", "destroyed"})]
  /\ ctl \in Seq(Frame)

\* entities_, clientTokens_ and entityOrder_ describe the same entities at
\* every moment, also while callbacks run, and enumeration meets each once.
RegistryAgrees ==
  /\ \A t \in Handles : tokens[t] # None => Tracked(tokens[t]) /\ entities[tokens[t]].token = t
  /\ \A a \in Addresses : Tracked(a) =>
       /\ tokens[entities[a].token] = a
       /\ Cardinality({k \in DOMAIN order : order[k] = a}) = 1
  /\ \A k \in DOMAIN order : Tracked(order[k])

\* Durable references are "opaque tokens": one names one entity as long as it
\* names anything, and nothing ever after.
TokensNeverRevive ==
  [][\A t \in 1..(nextToken - 1) : \A a \in Resolve(t)' :
       a \in Resolve(t) /\ live'[a] = live[a]]_vars

\* Every sidecar block belongs to one living record or is in the pool once:
\* nothing is lost, released twice, or still used after its release.
SidecarsExact ==
  LET owned == {a \in Addresses : Tracked(a) /\ entities[a].sidecar # None} IN
  /\ {entities[a].sidecar : a \in owned} \cup {free[k] : k \in DOMAIN free} = 1..blocks
  /\ Cardinality(owned) + Len(free) = blocks

\* A receive proxy writes only to the sidecar of the very entity it decodes,
\* whatever stale slots entity indexes have left behind.
SlotsSafe ==
  \A i \in Indexes, a \in Addresses :
    SidecarAt(i, a) # None =>
      Tracked(a) /\ entities[a].handle = live[a] /\ entities[a].sidecar = SidecarAt(i, a)

\* "During destruction the record remains available until callbacks return",
\* whatever those callbacks create and delete; outside a purge the entity
\* itself is still there as well, and OnRemove finds its sidecar.  The create
\* function of a custom class returns only an entity that is still the one it
\* created, after callbacks, to an engine that goes on to use the pointer.
CallbacksSeeRecord ==
  /\ \A k \in DOMAIN ctl :
       ctl[k].op \in {"removed", "forwardDestroyed", "listenerDestroyed"} =>
         /\ IsCurrent(ctl[k].a, ctl[k].h)
         /\ purging \/ live[ctl[k].a] = ctl[k].h
  /\ Running("removed") => entities[Top.a].sidecar # None
  /\ Running("return") /\ ReturnsEntity => live[Top.a] = Top.h

Said(h, event) == \E k \in DOMAIN told[h] : told[h][k] = event
Before(h, first, second) ==
  \A k \in DOMAIN told[h] : told[h][k] = second =>
    \E j \in 1..(k-1) : told[h][j] = first
Gone(h) == h <= used /\ (\A a \in Addresses : live[a] # h) /\ ctl = <<>>

\* What plugins hear of one entity: each event once, construction before
\* OnRemove, creation (or silent seeding) before destruction; and when the
\* entity is gone, OnRemove for each PostConstructor and a destruction for
\* each creation they heard of.
EventsPaired ==
  \A h \in Handles :
    /\ \A j, k \in DOMAIN told[h] : told[h][j] = told[h][k] => j = k
    /\ Before(h, "constructed", "removed")
    /\ Said(h, "seeded") \/ Before(h, "created", "destroyed")
    /\ Gone(h) /\ available =>
         /\ Said(h, "constructed") => Said(h, "removed")
         /\ Said(h, "created") \/ Said(h, "seeded") => Said(h, "destroyed")

\* A tracked entity is announced at the end of a network update, or goes
\* away: no callback makes the manager forget a pending creation.
Unannounced(h) == \E a \in Addresses : IsCurrent(a, h) /\ ~entities[a].createdNotified
EventuallyAnnounced == \A h \in Handles : Unannounced(h) ~> ~Unannounced(h)

\* All that the manager keeps of an entity agrees: records, sidecars and slots.
RecordsConsistent == RegistryAgrees /\ SidecarsExact /\ SlotsSafe
=============================================================================
