# CBaseNPC in TLA+

CBaseNPC is a SourceMod extension that gives plugins their own NextBots: entity
classes (factories), behaviours made of actions, locomotion, paths and, for
custom networked entities, a client and a server class. This directory holds TLA+
modules of the parts whose order of events is hard to get right, the TLC
configurations that check them on small instances, and proofs for TLAPS.

Everything runs on the game's main thread. What makes the code hard is not
threads but *re-entrancy*: the extension calls plugin code (action callbacks,
forwards, entity callbacks) in the middle of its own operations, and plugin code
calls natives that change the very structures the operation is working on. The
modules therefore model the C++ call stack explicitly (variable `ctl` or `run`, a
sequence of frames, or the stage `pc` of an update). A frame whose `op` is in
`Callbacks` is about to enter plugin code; constants say which callbacks call back,
and with what. The second source of trouble is memory that is laid out, counted or
indexed by hand: field offsets, linked lists threaded through areas, grids, layers.

## 1. The system and its parts

Paths are relative to `src/extension/`.

| part | files | state | operations | interacts with |
|---|---|---|---|---|
| Behaviour engine | `sourcesdk/NextBot/NextBotBehavior.h` | the tree of stacks of `Action` objects (`m_parent`, `m_child`, `m_buriedUnderMe`, `m_coveringMe`), flags, one pending event result per action, the dead-action vector | update, transitions (CHANGE_TO, SUSPEND_FOR, DONE), events, destruction | plugin callbacks; intentions |
| Plugin actions, action factories, intentions | `cbasenpc_behavior.{h,cpp}`, `natives/nextbot/behavior.cpp`, `actionreasons.h` | the behaviour of each bot, the actions and intentions of each action factory | create, reset, retire a factory, set results | engine; entity factories |
| Plugin entity factories | `pluginentityfactory.{h,cpp}`, `natives/entityfactory.cpp` | factory hierarchy, classname dictionary, entity records | construct, derive, install, uninstall, create, remove, plugin/extension unload | plugins' forwards and entity callbacks; intentions; network schema |
| Client entity manager | `client/*` | entities known to the client, tokens, pending creations, listeners | track, create, delete, purge | engine's client; consumers' listeners |
| Network schema | `sourcesdk/cbasenpcnetworkschema.cpp`, `cbasenpcserverclass.cpp`, `cbasenpcclientclass.cpp`, send/recv tables | the declared, prepared, published and committed classes | register, finalize once | entity factories, engine class lists |
| Native API for C++ consumers | `nativecontext.*`, `nativehandlepolicy.h`, `callbackbuffers.h`, `shared/*`, `cbasenpcinterfaces.cpp`, `extension.cpp` | contexts, callbacks, ownership and grants of handles | acquire, call, register, release | natives |
| Data maps | `idatamapcontainer.{h,cpp}`, `shared/datamaplookup.h` | type descriptors and field offsets, the map of an action factory and its name cache | define, find, access fields and elements | entity and action factories, network fields |
| NextBot core | `sourcesdk/NextBot/NextBotInterface.cpp`, `NextBotManager.cpp`, `toolsnextbot.cpp` | components of a bot, update schedule | register, update, schedule | all components |
| Locomotion | `NextBotLocomotionInterface.cpp`, `NextBotGroundLocomotion.cpp`, `cbasenpc_locomotion.cpp` | replaced functions, motion, stuck monitor | update, approach, jump | paths, plugin callbacks |
| Paths | `sourcesdk/NextBot/Path/*`, `natives/nextbot/path/*` | segments, cursor, repath timers | compute, copy, follow, chase, invalidate | nav mesh, locomotion, movement events |
| Nav mesh | `sourcesdk/nav_*.cpp`, `toolsnav_mesh.*`, `natives/nav.cpp`, `natives/nav/area.cpp` | open list, markers and parents in the areas; the index of areas | search, collect, query | engine's mesh, cost callbacks |
| CBaseNPC entities and ids | `npc_tools_internal.cpp`, `cbasenpc_internal.cpp`, `natives/cbasenpc.cpp` | slots, ids, settings | create, remove, look up | engine's entities |
| Animation layers | `sourcesdk/baseanimatingoverlay.cpp` and its natives | the layers of an entity, their orders and priorities | allocate, gesture, remove, advance | clients draw by order |
| Engine wrappers, marshalling | `sourcesdk/base*.cpp`, `natives/*` | offsets of gamedata | virtual calls, conversions | engine |

### What is hard, and what makes each part correct

- **Behaviour engine.** A transition runs a chain of callbacks, each of which may
  start another transition, suspend itself, deliver an event to any action of the
  same behaviour, or reset the bot. Actions are destroyed late, through a queue,
  because they may be on the call stack. Correct means: no call ever reaches a
  destroyed action; when the update is over the pointers make one stack of every
  level, whose links up agree with those down or are lost; contained actions end before their container and replaced ones
  before their replacement starts; nothing is destroyed between OnStart and OnEnd;
  results of events are neither lost to lower priorities nor left unserved.
- **Entity factories.** Uninstalling walks a vector of derived factories and a
  snapshot of entities while calling plugins. Correct means: the classname
  dictionary names exactly the installed factories; a derived factory never
  outlives its base; entities never outlive their factory; what each level of the
  hierarchy put into an entity is taken out again; the walk survives what the
  callbacks do.
- **Action factories.** Retiring a factory resets the intentions that use it and
  then deletes whatever actions are left, while resets create new actions.
- **Client entities.** Listeners run in the middle of creation and deletion and may
  delete the entity or unregister themselves.
- **Network schema.** Finalizing publishes into engine lists in several steps, any
  of which may fail; it is attempted once.
- **Network fields.** A field has an offset on the server and another one in the
  client's sidecar; kinds differ in size, alignment, sign and coding. Correct means:
  a value that is stored, sent and read back is that value, as far as its kind can hold
  it, and no field disturbs another.
- **Paths.** Movement events and movers run plugin code in the middle of an update and
  may compute, copy or invalidate the path that is followed. Correct means: cursor
  and goal stay on the path that exists, whatever its length, and a chase follows the
  subject it searched for.
- **Nav searches.** One open list, one set of parents and costs serve every search; a
  cost callback may start another search. Correct means: the list is what its links,
  markers and costs say; the chain of parents ends at the start; a search ends whose first
  cost is a number and whose callbacks do not search for ever.
- **Index of areas, ledges.** An area lies in several cells of a grid; every query has
  cut-offs that must not skip what it looks for. The ledge scan stretches its reach and
  its height as it goes and must find the lowest ledge, if there is one.
- **Bots and NPCs.** A replaced function may call the base function of its own type
  however calls nest; a stuck bot gets out; the components update once per tick
  although they update each other; ids survive the reuse of entity indexes; no player
  bot starves.
- **Native API.** Handles outlive the scopes that created and were granted them.

## 2. Modules

| module | models | checked by |
|---|---|---|
| `Behavior` | the behaviour engine under one intention | `MCBehavior`, 2 configurations |
| `BehaviorProofs` | proofs about `Behavior` | TLAPS |
| `ActionFactories` | intentions, creation and retirement of action factories | `MCActionFactories`, 2 configurations |
| `ActionFactoriesProofs` | proofs about `ActionFactories` | TLAPS |
| `EntityFactories` | plugin entity factories and entity records | `MCEntityFactories` |
| `EntityFactoriesProofs` | proofs about `EntityFactories` | TLAPS |
| `ClientEntities` | the client entity manager and the creation of custom client classes | `MCClientEntities` |
| `ClientEntitiesProofs` | proofs about `ClientEntities` | TLAPS |
| `NetworkSchema` | the declarations of both sides and the one attempt to finalize them | `MCNetworkSchema` |
| `NetworkSchemaProofs` | proofs about `NetworkSchema` | TLAPS |
| `DataLayout` | descriptors, offsets, search, bytes: operators | used by the next two |
| `NetworkFields` | network fields from definition to what natives read on both sides | `MCFields` |
| `FieldStore` | what network fields promise: the abstract specification of `NetworkFields` | `MCFields` |
| `ActionData` | the data of actions: map, cache, access | `MCFields` |
| `FieldsProofs` | proofs about `ActionData` in `MCFields` | TLAPS |
| `PathSegments` | how segments are made, and the cursor: operators | used by the next one |
| `PathFollower` | a follower and a chase on one path | `MCPathFollower` |
| `PathProofs` | proofs about `PathSegments`, `PathFollower`, `NavOpenList` and `NavSearch` | TLAPS |
| `NavOpenList` | the open list threaded through the areas: operators | used by the next one |
| `NavSearch` | searches, collections and the natives of the open list | `MCNavSearch` |
| `NavGeometry` | rectangles, cells of the grid, the walk along a line: operators | used by the next one |
| `NavMesh` | the extension's index of areas and its queries | `MCPathFollower` |
| `LedgeScan` | the search for a ledge to climb | `MCNpcs` |
| `Locomotion` | replaced functions of the mover, stuck monitor | `MCNpcs` |
| `Overlays` | animation layers of an entity | `MCNpcs` |
| `NpcIds` | NPC entities, slots and ids | `MCNpcs` |
| `BotComponents` | the components of a bot and their updates | `MCNpcs` |
| `BotSchedule` | which player bots run in a frame | `MCNpcs` |
| `NpcsProofs` | proofs about `Locomotion`, `Overlays`, `NpcIds`, `BotComponents` and `LedgeScan` in `MCNpcs` | TLAPS |

`MCFields`, `MCNpcs` and `MCPathFollower` put parts into one run that share no state: a
behaviour is one of a single part (variable `which`), the other variables rest.
Their properties are the properties of each part, stated in the part's module.

### `Behavior`

State: each field of `Action` is a function over action numbers (`parent` is
`m_parent`, `child` `m_child`, `buried` `m_buriedUnderMe`, `covering` `m_coveringMe`,
`started`, `suspended`, `pend` `m_eventResult`); `root`, `me`, `dead` are the fields of
`Behavior`; `behavior` says whether the intention has one. One TLA+ action per
function, split where the function calls plugin code or another function of the
engine: `InvokeUpdate`, `ApplyContinue/ChangeTo/SuspendFor/Done` (the cases of
`ApplyResult`), `InvokeOnStart`, `InvokeOnEnd`, `InvokeOnSuspend`, `InvokeOnResume`,
the destructor in four steps (`DeleteAction`, `DeleteChild`, `Unlink`, `Release`,
`Free`), `Purge`, and the intention's `Reset`, `InitBehavior`, `DestroyBehavior`.
`Event` is one call of `StorePendingEventResult` through the `PROCESS_EVENT` macros.

Abstracted: names, reasons and debug output; contextual queries (they change
nothing); a callback sets its result once; OnSuspend answers CONTINUE or DONE (the
engine takes every other answer for CONTINUE); an event that several levels answer
is several `Event` steps. `StorePendingEventResult` deletes a replaced action before
it stores the new one, the model stores first: the deleted action was never
started, so no callback runs in between. `SuspendFor()` clears the stored result when it is called
(line 1252), the model when the callback that calls it ends: a result stored between the two by an
event of that callback is dropped in the model only. Not modelled: SUSPEND_FOR without an
action (the engine dereferences it), the unused `Behavior::Resume`, an `Update` of
the same behaviour from inside its callbacks.

### `ActionFactories`

State: `factory` is the life of an action factory (`m_bDestroying` between), `declared` what
entity factories hold of it, `bot`, `initial`, `behavior`, `resetting` the fields of an intention
at its address (`m_Intentions` are the bots in state "intention"), `inside` the actions a
behaviour contains, `made` the factory of each action and with it `m_Actions`, `pend` the
action in a pending event result, `loose` the actions a plugin has created and not handed
over. `ctl` is the call stack; a frame keeps the snapshot of a retirement, the actions of a
behaviour being deleted, or an initial action that has no behaviour yet. An address of an
intention or an action is used again as soon as it is free.

Abstracted: what a behaviour does with its actions is in `Behavior`; here an update takes
actions in and deletes others, without calls. One callback stands for all OnEnd calls of a
destruction. The record's pointer to the factory is nulled with the intention's and read
only to create it. Which level of a hierarchy declares the factory is left out. A plugin
calls Destroy on an action that no bot was given, as the include file asks.

### `EntityFactories`

State: `factories` is `m_Factories`; `derive`, `installed`, `base` the fields of a
factory; `slots` and `count` the memory and size of `m_DerivedFactories`, kept apart
because `Uninstall` indexes the vector while callbacks shrink it and then reads a
slot past its end, where the old element still stands; `dict` the classname
dictionary; `record`, `fields`, `killed`, `gone` an entity's record, the levels whose
fields it holds, its EFL_KILLME mark, and its end.

Abstracted: `m_bIsAbstract`, owner and classname of a factory do not change during
an execution; every factory has a data description; a callback that is not set is
one that does nothing; the order of `m_Records` (a map keyed by address) is any
order. The engine's `RemoveEntityImmediate` ignores an entity that is already being
removed; SourceMod frees a plugin's handles after `OnPluginUnloaded`, each once.
Not modelled: the refusal to create an entity before the network schema is final,
a failing allocation hook; action factories are in `ActionFactories`.

### `ClientEntities`

State: `entities`, `tokens`, `nextToken`, `order`, `pending`, `listeners`, `slots`,
`available`, `purging` are `entities_`, `clientTokens_`, `nextClientToken_`,
`entityOrder_`, `pendingCreates_`, `listeners_`, `networkSidecars_`, `available_`,
`purging_`; `blocks` and `free` the sidecar pool of one runtime class; `live` and `at`
the engine's entities: which handle lives at which address, under which index. An
address is used again, a handle never. `told` is a history variable: what plugins
heard of each handle. One action per function, split where it calls out:
`Construct` is `TrackEntity` with the `AttachRuntime` inside stock creation,
`AttachRuntime` the second attach and `RunPostConstructor`, `CleanupRuntime` /
`CleanedUp` the two halves of that function, `OnEntityDeleted` ... `Erase` the steps of a
destruction, `Flush` and `Purge` the loops over their snapshots.

Abstracted: one forward stands for the private and the global one; classnames
(`ReceiveClassname`, `EnsureEffectiveClassname`, `EffectiveClassname`) are left out;
the two hooks of an entity are set together or not at all; one runtime class. The
engine deletes an entity once; a callback may delete any entity that is not being
deleted, and create others. Not modelled: `DetachPluginConsumers`, which the code
itself declares unsafe; purging from inside a callback, which nothing does.

### `NetworkSchema`

State: `schema` is `CBaseNPCNetworkSchemaManager`; `server` and `client` the `State` of
the two class managers (`client.exists` is false on a dedicated server); `factory`
the fields of the server factories the schema reads (data description with its start
and size, frozen layout, public class, final size); `declared` the declarations of both
sides; `owned` the life of a client factory; `engine` what the extension does to the
game: the public class lists, the two sets of tables, patched bits and the bridge in
DT_BaseEntity. `Finalize` is one step per call it makes, `step` says which is next;
between them no plugin runs. Each step takes as a parameter how far it gets: `fits`,
`retained`, `outcome`. Plugins declare, install, close and unload before and after.

Abstracted: the names of tables stand with the names of classes; the limits on tables
and the validity of fields are `fits`, which may fail at any time; a classname that an
entity derives from is one of a plugin factory; factories of one hierarchy close in one
step, without callbacks (those are in `EntityFactories`). `m_FinalNetworkEntitySize` is
not set by a preparation that throws later: it is read only when final. After a failure
behind publication the process ends, as `SDK_OnAllPluginsLoaded` has it. Physical
bases of client classes, which have to contain the network base, belong to `fits`.
The tables themselves and their proxies are in `NetworkFields`.

### `DataLayout`, `NetworkFields`, `FieldStore`, `ActionData`

`DataLayout` holds the descriptors of `IDataMapContainer` (offset, size, count), the search
through a chain of data maps and little-endian bytes. Bytes have `ByteBits` bits; with two
of them a number is cut, or changes its sign, within reach of a small instance.
`NetworkFields` goes from `BeginDataMapDesc` and `DefineField` of two factories, one derived from
the other, over `SendTableOf`, `RecvTableAfter` and the checks of the layout (`Finalize`) to the
values: `SetOnServer`, `Update` (send proxy, coding, receive proxy), `SetOnClient` and what
the natives of both sides read. `memory` is the entity's object, `sidecar` the client's
copy. `FieldStore` knows no bytes: every element of every field is a variable on the
server and one on the client, and an update carries a value over as far as its kind
and its options allow. `ImplementsStore` states that `NetworkFields` implements it; the mapping
is `view`, what the natives read of every element of every field, so that a write which
disturbs a neighbour is a step that `FieldStore` does not have. `ActionData` has the data map of an
action factory, the cache of names and the access natives.

Abstracted: floats are words and angles words modulo a circle; the shapes are kinds with
a count, bits, a sign and a length. `StockSize` is not aligned, as the sizes are that
the stock classes report; an unaligned start lets two fields meet in every way. The wire is
SourceMod's and the engine's: `SetOnServer` and `Coded` stand for them. Not modelled: varints and
quantized floats; the `Prop_Data` natives on stock fields and raw offsets, which reach the
game's own memory; conversions of action data beyond size and type; save and restore.

### `PathSegments`, `PathFollower`

A route is the list of links (walk, drop, gap, climb, ladder, elevator) between the areas a
search found. `PathSegments` makes the segments of `m_path` of it: `Assemble` cuts a chain that is
too long, `WithDrops` and `WithLaunches` insert landings and launch points while there is
room, one segment of the path per step (`DropStep`, `LaunchStep`). The cursor is a position, a prior segment and the dirty flag, as in `CursorType`.
`PathFollower` has `PathFollower::Update` as a chain of stages (`pc`) in the order of the code:
avoid, ladders, speed, progress, reaching the end, heading, climbing, gaps, falling. The events
OnMoveToSuccess and OnMoveToFailure and the calls ClimbUpToLedge and JumpAcrossGap run
plugin code: in "callback" any native of the path may be called before `Return` goes on in
the stage `after`. `ChaseUpdate`, `RefreshOnLadder`, `Refresh`, `Repath` and `NoPath` are `ChasePath` with its timers.

Abstracted: segments have length two; traces, distances and whether the bot stands are
choices at the point of the code that asks. Queries of the path (visibility, gaps,
traversability) are taken not to change it. `Compute` is one step: its cost functions run plugin code
too (`NextBotPath.h:196, 319`), which is taken to leave this path alone (what it may do to the search is
in `NavSearch`). Not modelled: destroying a path in its own events
(a use after free), `NextBotRetreatPath.h`, which nothing uses.

### `NavOpenList`, `NavSearch`

`NavOpenList` is the doubly linked list threaded through the areas, with head, tail, open marker
and the functions that insert, move and remove, in the places of the total costs.
`NavSearch` has `NavAreaBuildPath` in steps (`Start`, pop, next neighbour, the cost callback),
`CollectSurroundingAreas`, and the natives that plugins have of the same list. `stack` holds
the running searches: a cost callback may start another search or collection, or use the
natives, and they share markers, parents and costs. Costs are small integers; NaN
compares with nothing.

Assumed: the mesh does not change while a search runs; ladders and elevators are edges. The
`alone` flag of a search says whether something else touched the lists meanwhile, which
the properties about costs and parents require. A search that returns at once, as its start is the
goal, counts: it has cut its start off from the parent that an outer search gave it
(nav_mesh.cpp:162) and so may leave that search with a way back that ends too early.

### `NavGeometry`, `NavMesh`, `LedgeScan`

`NavGeometry` has level rectangles on even coordinates: distances, extents, cells of the grid,
and the walk from area to area along a line. `NavMesh` is the extension's own index of
the game's areas: filled by a hook on `CNavMesh::Load`, emptied with the next load, with
marks and counters of visits, and the queries of it (at a position, in an extent, within a
radius, nearest, along a line). `LedgeScan` is the loop of `PathFollower::Climbing` that traces
forward at growing heights and stretches its reach over the edge; a wall is any function
from heights to free depth.

The scan goes up in steps of half the step height. The code relies on that being at least one
unit (with less its loop would not advance), and so does the model (`LedgeConstantsOK`).

Abstracted: areas are level, and visibility, blocking and ground checks are sets of areas
given with the query. Ladders, elevators and the attributes of areas are left out.

### `Locomotion`, `Overlays`, `NpcIds`, `BotComponents`, `BotSchedule`

- `Locomotion`: `types` is the stack of callback types that `CallBaseFunction` looks at, `run` the calls
  in progress; the timers of the stuck monitor count ticks. The handlers of OnStuck,
  OnUnStuck and OnLeaveGround may call back into the mover. The game's own update of the
  ground locomotion (`m_OriginalUpdate`) is taken to monitor as this code's `StuckMonitor`.
- `Overlays`: the layers of an entity by flags, priority, order and activity; a frame advances
  one layer per step. Cycles, weights and rates are choices. Cutting the number of layers
  below an active one leaves a gap in the orders: `cut` remembers it. The number is at most
  `MaxOverlays`; the native has no limit (`natives/baseanimatingoverlay.cpp:712`), and with more active
  layers the numbering breaks (`baseanimatingoverlay.cpp:553`). Natives that write the raw
  fields of a layer are left out.
- `NpcIds`: entity indexes are used again with another serial number; an entity is told of its
  end when removed and destroyed later. The server is taken to have all its player slots
  (below 32 an NPC may get the index of a player, whose slot counts as free,
  `npc_tools_internal.cpp:40`).
- `BotComponents`: the list of components, grown at its head by whoever asks first, and nested
  loops over it.
- `BotSchedule`: the player bots of a tick, the budget of a frame, flags and slides. It applies to
  bots made with `ToolsNextBotPlayer`; a base_npc's think function updates its bot directly.
  The game flags bots, which ones is free.

## 3. Runs

Bounds are named in the modules (`MaxActions`, `MaxFactories`, `MaxEntities`,
`MaxDepth`, ...). Numbers of actions and factories are never reused, so a destroyed object
stays recognisable. `CHECK_DEADLOCK FALSE` everywhere: the bot may be removed for good, the
extension unloaded, or the bound of constructions reached.

### Passing

| run | bounds | shows |
|---|---|---|
| `lifecycle` | 4 actions, resets between updates, results DONE and SUSPEND_FOR of events at priorities TRY and CRITICAL, between updates and from inside every callback; callbacks answer with every transition | types; the links make one stack of every level after each update, a link up agrees with the one down or is lost; children end before their container; a replaced action and its contents end before the replacement's OnStart; no call on a destroyed action; a stored result is not lost to a lower priority; no action is destroyed between OnStart and OnEnd while the behaviour runs |
| `progress` | 4 actions, events DONE, SUSTAIN and CHANGE_TO between updates, fairness, no resets | calls return; an action told to leave leaves, however deep; every living action can be reached from the behaviour |
| `af_retire` | 2 factories, 2 bots, 2 actions besides the initial ones, 4 calls deep, each callback makes one call of any kind | `NothingDangles`: no reference to a deleted action, bot or factory; every action has one owner |
| `ef_lifecycle` | 3 factories that derive by handle and by classname, a shared classname that is also one of the game, 2 entities; every callback creates, the install forward derives and installs, the uninstall forward uninstalls | `FactoriesServe`: the dictionary is exact and no entity is without an installed factory; the hierarchy agrees; calls work on living objects; all fields of an entity are destroyed with it |
| `client_entities` | 3 entities at 2 addresses, 1 entity index, 1 listener, 6 calls deep, fairness; every callback creates, deletes, adds and removes listeners | `RecordsConsistent`: the maps of the registry agree, sidecar blocks are neither lost nor shared, a receive proxy writes only to the sidecar of the entity it decodes; `CallbacksSeeRecord`: records outlive the callbacks of a destruction and the create function never returns a deleted entity; events come in pairs and order; pending creations are announced |
| `network_finalize` | 2 factories, one deriving from the other, 2 client factories with matching and mismatching declarations, 3 bit patches of which two conflict and one cannot be applied; late load, listen server, each failure | a schema rejected before publication leaves the engine untouched; once final both sides have the same classes and the requested bits; `PublicKept`: the classes that the engine refers to and the client factories under them are never discarded |
| `path_follow` | 1 path of at most 5 segments, 2 subjects, 7 routes with every kind of link, one of them too long; callbacks of movement events and movers use every native. The index of areas: 2 maps of 5 and 3 areas, one with storeys and negative coordinates, 4 positions, 2 extents, 3 ranges | `PathConsistent`: segments fit and join, cursor and goal are of the path that is there; `PathAsSearched`: off a ladder a chase goes on with a path to its subject or a plugin's, a path searched in OnMoveToSuccess is kept; `CollectsAll`, `NearestFound`: collecting finds every area asked for once, the nearest area of the rings looked through is not skipped |
| `nav_search` | 5 areas with a ring and a ladder, 2 searches that may be nested, one of them to where it starts, or 1 search and a native inside; later costs DEAD END, NaN and the area's own, the first a number | `OpenListSound`: links, ends and markers of the list agree and it is sorted when popped; parents lead to the start over connections of the mesh; every search ends. Two searches in all: what a callback that nests one each time does is not covered (below) |
| `fields` | 2 fields in one class or two, of 11 shapes, StockSize 6, 2 accesses; 2 action fields of 5 shapes with names that differ in case | `NetworkFields` implements `FieldStore`; a cached descriptor is that of the present map; elements of action data share no byte and stay inside |
| `npcs` | locomotion 3 calls deep with timers up to 3; 3 layers; 2 ids, 3 indexes of 2 serial numbers; 2 components, 6 calls deep; 2 player bots; every wall of up to 3 changes of depth over a jump of 7 units | each base function goes to its caller; a stuck bot gets out; orders number the layers by priority; ids and indexes resolve to the living NPC; components update once a tick; no player bot starves; the scan finds the lowest ledge or that there is none |

Four actions are enough for a stack of three with a contained action, or a
replacement above a suspended action with one more waiting below, which is where
each hazard of the list shows; three factories give a chain and a fork; two
entities or bots let one be created while another is removed. Of three client entities one
is deleted, one takes its address and index, and one is created by a callback. Two fields
make every pair of neighbours; a conflict of offsets is one of neighbours. Five
segments leave room for one insertion of two, and a cut. A search over a ring reaches an
area twice with different costs, closes it and opens it again. Three indexes for two
ids let an id be given again before its last holder is destroyed.

`progress` leaves out SUSPEND_FOR events and events inside callbacks: `SuspendFor()` clears a
stored result without deleting its action, which is a leak by itself and would
hide every other. It leaves out resets: with `Resets = "betweenUpdates"` the same `NoLeak`
fails, because a purged action resets the covering link of the action below, which a
successor already covers (`BuriedKnowTheirCover`), and teardown then misses the successor.

`network_finalize`, `ef_lifecycle` and `af_retire` leave out the call sequences listed below.
The modules state a few more properties than the runs check (types of each module, and
facts that the checked ones rest on or that are weaker than these).

### Fairness

- `FairSpec` of `Behavior`: weak fairness of the engine (code that was called goes on
  running) and of `Update` (the game updates every bot each tick). Nothing is assumed
  of events or plugin results. `EntityFactories` assumes only the former.
- `ClientEntities` assumes it too, and that the client ends its network updates
  (`FlushPendingCreates`, called each frame).
- `NavSearch`: a running search goes on, and its cost callbacks return (`Fair`, weak fairness of `Run`
  written without ENABLED).
- `Locomotion`: frames go on and bring the think function, and steps that wait for nobody are
  taken. Strong fairness of `Tick` and `Think`, because plugin calls come in between. That
  handlers return is a premise of `StuckIsLeft`.
- `BotSchedule`: frames go on and the game simulates every player in each; an update that began
  ends.

### Violations: where the code and its documentation differ

| run | property | what happens |
|---|---|---|
| `af_severed` | `SeveredAtOnce` | the initial action factory is read before the callback that makes the INextBot and used after it; a factory closed there is given to the new intention |
| `network_layout` | `CreatedFits` | an entity may be created by a factory that inherits its public class although the layout below has changed: the check compares only the sizes of factories with a declaration of their own (`pluginentityfactory.cpp:939`), so over a base installed again with a smaller description the entity is smaller than its tables assume. The run derives by classname, with two candidates of different size for the base |

PROJECT.json quotes the sentences of the source that these contradict. The following
properties are stated in the modules and fail too; no run is kept for them:

- `EveryStartHasAnEnd` (`Behavior`): destroying a behaviour ends `m_action` and what it contains or is
  covered by; suspended actions below are deleted without OnEnd.
- `BuriedKnowTheirCover` (`Behavior`): `m_coveringMe` is to be the action just above; after a CHANGE_TO
  above a buried action the destructor of the replaced one clears the link to its successor
  (`NextBotBehavior.h:1202`).
- `SuspendedNeverUpdated` (`Behavior`): an uncovered action with a change pending is not resumed; a
  SUSTAIN event replaces the change; Update runs while suspended.
- `HierarchyAgrees` (`EntityFactories`) when the uninstall forward may install: a derived factory installed
  again from there outlives its base.
- `TrivialPathKept`, `SeesAhead` (`PathFollower`): a new path within the area the bot stands in does
  not restart the age that the check after OnMoveToSuccess looks at, so it is
  invalidated; the default range of `IsDiscontinuityAhead`, documented as the entire
  remaining path, sees nothing.
- `FoundWithinLimit` (`NavSearch`): the length kept with an area is overwritten by that of a worse way
  before that way is skipped, so a path may be longer than `maxPathLength`.
- `ContainsAlone` (`NavMesh`): `Contains` searches the area's own extent, at its own height, and so
  leaves out the areas at other heights, which its comment rules out.
- `AlwaysInside`, `FoundByName` (`ActionData`): an action that was made under an earlier description is
  accessed at the offsets of the present one; a name that differs in case only from one in
  the cache finds the other field.

### Call sequences that no document rules out and that do fail

A reader should know that the passing runs exclude these:

- `Uninstall` or closing a handle from PostConstructor or from a NextBot factory:
  the entity under construction is removed while its levels are still constructed.
- `Uninstall` from an OnRemove callback or an action's OnEnd: fields are left, the
  snapshot of entities becomes stale.
- Closing an action factory from OnEnd of one of its actions while their behaviour is destroyed,
  or from the CreateInitialAction callback of its own action (`Exposed` in `ActionFactories`).
- `INextBot.Reset` from CreateInitialAction while the intention is constructed: two behaviours
  are created, one is lost.
- `INextBotComponent.Update` of another bot's intention from a callback of a retirement: the bot
  may take an action of the retiring factory after the snapshot of its users.
- Removing a bot at once from a callback of its own reset.
- Closing a factory's handle from its own callbacks: `Uninstall` goes on after `delete`.
- Uninstalling a base from the uninstall forward of a derived factory: harmless,
  but the base is detached and announced twice.
- Deleting a client entity from a destruction callback of a purge: listeners
  called later get the address of a freed entity (creation has a check for this).
- `INextBot.Reset` inside a callback of the bot's actions (`Resets = "anytime"`):
  the action whose callback runs is destroyed at once.
- Destroying a path from one of the movement events that its own update sends.
- A path that ends at a ladder that goes up: the goal becomes null and is used
  (`NullGoalAtLadderEnd` says that nothing else leads there).
- A path that a jump's callback rebuilds: the jump ends with the landing of the old one
  (`stale` in `PathFollower`).
- Seeking ahead at the very end of a path, or along a segment without length: the
  position of the cursor becomes NaN.
- `AddToOpenListTail` for an area that `UpdateOnOpenList` has moved: areas drop off the list
  (`moved` in `NavSearch`; nothing in `nav.inc` rules it out). A start area with a cost that is not a number
  (`nav_mesh.cpp:185`): the search may not end (the premise of `SearchEnds`).
- A cost callback that nests a search each time it is called: each wipes the marks (`nav_mesh.cpp:179`), so
  that the search outside may reopen a ring of areas for ever. `MaxCalls` bounds the searches in the run.
- A search nested in a cost callback: the parents of the outer search, which the path is made
  of, may form a circle (properties about parents hold for `alone` searches).
- A step height of 0 or 1: the scan for ledges does not advance.
- `Reset` of a bot's locomotion near the origin of the map: the bot counts as stuck at once,
  since its position when stuck is taken as the origin.

## 4. Proofs

Each theorem holds for every value of the constants that their assumptions admit: any
number of actions, bots, factories, classes, layers, ids, fields, any bound on the depth of
calls. Where an invariant that a run checks is not inductive, TLC checked the inductive one
first, on the configuration of that run.

**`BehaviorProofs`**, resets at any time included, except in the third:

- `TypeCorrect`: `TypeOK` always holds. It is inductive by itself; it covers the call stack,
  so it needs, for every action, that the frames it pushes are well-typed. One lemma per
  group of actions, then `NextTyped`.
- `PendingKept`: `PendingNotDowngraded`, the action property that a stored event result gives
  way to a lower priority only when it is executed, when its owner suspends itself or
  with its owner. It follows from `TypeOK` and one lemma per action that changes `pend`.
- `ChildrenAlwaysEndFirst` (`ChildrenEndFirst`). Hypothesis: `Resets # "anytime"`, that is, no callback
  resets its own bot (TLC finds the invariant true without it too: 3 399 092 states of four actions).
  `ChildrenEndFirst` speaks of one moment, the top of the call stack; the inductive
  `EndInv` speaks of every frame: `ContentsCounted`, whatever an action whose `onEnd` is on the
  stack contains has ended or a frame above is about to end it; `EndingUndisturbed`, above such a
  frame are only endings and destructors of actions without pointers, so the stacks that
  are being walked do not change; `WaitingAside`, an action that waits in an event result, which is
  what an event may destroy in the middle of it all, waits in that one alone, no pointer and no
  frame leads to it and it has no pointers. `BelowUnfolds` takes the walk along `m_buriedUnderMe` apart;
  walks are recursive functions, about which `SetInduction` proves what is needed.

**`ActionFactoriesProofs`**: `NothingEverDangles` (`NothingDangles`), `AlwaysOneOwner` (`OneOwner`),
`SeveredEver` (`SeveredAtOnce`) and `TypesHold`. Hypothesis: `CallsBack \subseteq Survivable`, that is,
the callback attachBot, which runs between the declaration of an entity and its intention, only
creates actions, declares factories and raises events; the other callbacks make every call.
Without it `SeveredAtOnce` is false, which is what the run `af_severed` shows. The invariant has four parts, since none is inductive alone:

- `StackInv`: each frame refers to bots and factories in the state its call needs, frames lie in
  an order the code can produce, and no bot is reset, started or freed twice at once. Without
  it a reset that returns could touch an intention that a call inside has deleted.
- `RetireInv`: while a factory is being retired, a bot that still has one of its actions is in the
  snapshot or about to be reset; no call below holds one.
- `OwnInv`: the places where actions are owned (contained, held by a call, loose, waiting in a
  pending result) are disjoint and make up the living actions.
- `Budget`: each bot without a behaviour has an address left for its initial action.

**`EntityFactoriesProofs`**: `FactoriesAlwaysServe` (`FactoriesServe`), `HierarchyAlwaysAgrees`
(`HierarchyAgrees`), `CallsAlwaysTouchLive` (`CallsTouchLive`), `FieldsAlwaysDestroyed`
(`FieldsDestroyed`) and `TypesHold`, for any number of factories, entities, plugins and classnames, any
`MaxDepth` and any hierarchy that `Derivations` allows. Hypothesis: `CallsBack \subseteq Survivable`,
that is, every callback may create entities, OnInstalled may also derive and install, OnUninstalled may
also uninstall. The calls that it excludes break the properties in the code itself (section
3, "Call sequences"): a removal callback that uninstalls, a PostConstructor that uninstalls its factory, an
uninstall forward that installs. `HierarchyAgrees` and `FieldsDestroyed` hold at every moment, `FactoriesServe` between calls, `CallsTouchLive`
speaks of frames; the invariant has what is true in the middle of calls:

- `Ordered` and `Installing`: calls nest by rank (a construction in a removal in an uninstall in a
  deletion in an unload), calls of one rank only where constructions or uninstalls nest, and nothing
  is installed inside an uninstall. Without it a factory could come back to life between two
  stages of its own uninstall.
- `FramesFit`: what each frame refers to is neither deleted nor destroyed.
- `Registered`, `Hierarchy`: a factory is listed once until it is deleted; base and derived
  factories know each other, each derived one stands once in the live part of `slots`.
- `Withdrawn`: an uninstall that has gone back to slot `n` of the derived factories has at most that
  one left, and then a call above is uninstalling it. This is why the loop over a vector that shrinks
  under it skips no factory.
- `Named`, `Deleting`: a classname leads to an installed factory, and an installed factory lacks
  its classname only while it is being uninstalled.
- `Recorded`, `Emptied`: an entity without a record is in OnDestroy; the snapshot of
  `RemoveAllEntities` has every entity of the factory but those that calls above are removing,
  so that none is left when the factory leaves its base.
- `Filled`: an entity holds fields only of levels of its factory's line (`Line`, which `LevelsAre` proves equal to the
  model's `Levels` by induction along the hierarchy), and a line loses no level while an entity has a record.

**`ClientEntitiesProofs`**: `RecordsAlwaysConsistent` (`RecordsConsistent`),
`CallbacksAlwaysSeeRecord` (`CallbacksSeeRecord`), `EventsAlwaysPaired` (`EventsPaired`), `TypeCorrect`
(`TypeOK`) and the action property `TokensNeverReviveHolds` (`TokensNeverRevive`). They hold for any
number of addresses, entity indexes, handles and listeners, any `MaxDepth` and any `CallsBack`: every
callback may create, delete and listen. The only assumption is `ConstantsOK`, the types of the
constants: addresses, indexes and listeners are not `None`, there is at least one address and
one handle, `CallsBack` relates callbacks and kinds of calls. None of the properties is inductive, since a record is in use by calls that are still to return. The
invariant `IInv` is `CoreInv`, which follows itself, and `ToldFit`:

- `TypeOK`, and `Bounded`: a token or a sidecar block is used up only with a handle, so none is
  missing while handles are left.
- `StackInv`: `Nested` and `Single`, the order in which the manager's functions call each other, and that
  no entity is deleted or destroyed twice at once; `FramesFit`, what each frame goes on to use when it
  returns (a record with this handle, its `deleting`, an entity that is still allocated);
  `Freed` and `Purges`, that memory is freed after the record is gone, or in a purge. Without the order
  a callback could erase the record that `CleanupRuntime` clears below it.
- `RecordInv`: for each record which calls are on the stack in each stage of its destruction
  (`RecordsFit`), what the entity index and the slots say of it (`HandlesFit`, `SlotsFit`), the registry
  (`Listed`) and the sidecar pool (`Pooled`). An address whose record has another handle than its entity is
  allowed only to a record that a purge is deleting.
- `ToldFit`: the flags of a record (`postConstructed`, `removeNotified`, `createdNotified`,
  `deleting`) say exactly what plugins have heard of its handle, save for a notice that is on the
  stack; a handle without a record has heard all.

`TokensNeverRevive` follows from `CoreInv`, which says that the tokens given out are below `nextToken` and
that a token in the index is that of the record it leads to.
Enumeration orders are proved about `Remaining`, the recursion of `std::remove`, by induction on
the length with the least counterexample (`RemainingIs` and the lemmas before it).

**`NetworkSchemaProofs`**: `RejectedLeavesNothing` (`RejectedUntouched`), `FinalizedSidesAgree`
(`SidesAgree`) and `PublicStays` (`PublicKept`): classes that the engine was given keep their records and client
factories, whatever plugins uninstall, close and unload. What a step of `Finalize` does
follows only from what the steps before it left, so the invariant `Stages` says for each of
them what holds from there to the end of a finalization that succeeds, and at rest afterwards;
`Shape` keeps the domains of the records.

**`NpcsProofs`**:

- `BaseFunctionIsCallers` (`BaseIsCallers`): the stack of callback types follows the C++ call stack
  (`Follows`), frame by frame, so its top is the type of the callback that asks.
- `LayersStayNumbered` (`LayersOrdered`): besides orders and priorities, the invariant `LayersInv`
  keeps that a gesture plays in one layer and that a vector with room has an unused layer.
- `IdsAlwaysResolve` (`IdsResolve`): the NPCs named by the registered ones and by both tables are the same, and
  living; both tables have the entry of an NPC exactly while it is registered (`TablesAgree`), which is what lets an index be reused before its old entity is
  destroyed. Assumed is that no NPC has an index up to `MaxPlayers` (`NpcIdsConstantsOK`).
- `BotUpdatesOnce` (`UpdatedOnce`): how often a component was updated in this tick is how often the nested
  loops have passed it (`UpdatesCounted`): once at most, twice if it never was before, from the last reset on.
- `LowestLedgeIsFound` (`LowestLedge`), for every wall, ceiling, step, jump and crouch
  height, and `OnlyFreeOverheadEnds`. `ScanInv` says of the heights behind the scan that none was a
  ledge: `BehindWall`, that the reach exceeds the front by a ledge or nothing tried so far goes
  deeper than the front; `BelowRefused`, that a height above a wall was refused for its depth
  or for not being standable; `AtTried`, that the next height is one the code tries.

**`PathProofs`**, paths and followers: `PathAlwaysConsistent` (`PathConsistent`), `PathAlwaysAsSearched`
(`PathAsSearched`) and `FollowerTypes` (`TypeOK`), for every `MaxSegs` of at least 3, every set of routes
with links of the known kinds, any subjects and timers. There are two halves.

The first is about operators only (`DetailsShaped`): what `Details` makes of any route fits
`m_path` and goes together. Each pass is followed step by step. `Dropped` and `Launched` say of the segments
made so far what their neighbours are to each other (`DropPairs`, `LaunchPairs`) and that they would
fit with the rest of the route put behind them unchanged, which is what the code asks before
it inserts. A path that is once full stays full, so a drop without a bottom stays excused. `PassExists`
and `PassKeeps` are the recursion and the induction over the segments.

The second is the invariant `FollowInv` of the follower: `PathInv` (the path has that shape, the
cursor fits it), `GoalInv` (the goal is on the path or `stale`; the landing of a gap jump is on
it as long as its callback rebuilds nothing), `StageInv` (stages that look along the path have one, as no
callback runs between the check of `IsValid` and them; a path searched for by the running callback has no age) and
`ChaseInv` (the path leads to the last subject, but from a failed search until its path is
dropped: `FailInv`, `FailStays`; the one way to go on with that path is the return on a ladder, which
`ChaseSubject` excepts).

**`PathProofs`**, searches: `OpenListAlwaysSound` (`OpenListSound`), `ParentsAlwaysLeadHome`
(`ParentsLeadHome`) and `SearchTypes` (`SearchTypeOK`), for every finite mesh, any teams and blocked areas, any requests, costs and depth of nesting; assumed are
`AreasOK` and `SearchConstantsOK`, the types of the constants.

`IsList(Q, s, n)` says that the links of the record `Q` are the list `s` of `n` different areas: the
markers are those of `s`, the head is its first, and each area is linked to its neighbours in `s`.
For each operation a lemma gives the list it leaves: `With` an area more (`InsertIs`), the `Rest`
(`PopIs`), two neighbours `Swapped` (`SwapIs`). `AddIs` and `UpdateIs` add the order: the place that
`AddToOpenList` finds keeps a sorted list sorted, and `UpdateOnOpenList` sorts a list where only the area
it is told of has become cheaper, as each round moves that area up by one or finds it in place
(`RaiseIs`), and there are no more rounds to make than areas. `ListedIs` shows that the walk along
the links that the properties use is `s`, and `LinkedIs` that they go forth and back.

The invariant `NavInv` has the types and `Held`, what the innermost search may rely on:

- The list is a proper one, whoever has touched it, but for the call that `moved` excludes; its last area is `m_openListTail` unless
  `UpdateOnOpenList` was used since the lists were cleared (`moved`), as that function leaves the
  tail behind. `AddToOpenListTail` relies on it.
- For a search that is not disturbed (`Searching`): the list is empty before the first cost has
  come, and after that it is sorted, with the total cost of each listed area its cost so far and its
  distance to the target (`Priced`). A better way to a listed area lowers the total cost only because
  of that equation, and `UpdateOnOpenList`, which only moves areas up, needs it lower. The first
  area is excepted: its total cost leaves its cost out, and it is popped before any other is listed.
- Searches below the innermost wait in a callback and are disturbed (`Stack`).

The costs that plugins return need not be consistent with distances in any way.

`ParentsLeadHome` needs more, `HomeInv`. A walk along the parents could circle, as an area that is closed
is opened again when a better path to it is found. It does not because costs so far fall along
it (`PathTree`), and they do because the new cost of an area is more than that of the one it is reached
from (`NewCostGrows`) and less than the one it had. The start must not be reached again:
it costs least, and it is always open, closed or the area at hand, so every other path to it is
worse (`PathHome`); a start that is blocked is popped before anything else is reached. `RelaxedHome` is
the step that this is for. A collection has costs that may be equal, and its walk falls in the order of
collection (`CollectHome`). `Home` says that some rank falls along the parents, and `HomeIs` that
the bounded walk of the property then ends at the start, as no area comes twice. The theorem has one
hypothesis, `NaN \notin StartCosts`: if the functor's first cost is not a number, all costs of
that search are none, no path is worse than another, and the parents may circle.

**`FieldsProofs`**: `DataStayApart` (`DataApart`) and `CacheStaysFresh` (`CacheFresh`), for any
description: fields are laid one behind the other (`Laid`), by induction on their number, and
an element lies inside its field. The induction is over a set of numbers with a least
element (`WFMin` of the library), as the theorems that take a predicate cannot be used;
`SetInduction` of `BehaviorProofs` does the same for walks.

TLC checked the inductive invariants on 1 322 331 states (`af_retire`), 2 574 096
(`network_finalize`), 652 258 (`client_entities`, with `TokensNeverRevive`), 554 680 (`ef_lifecycle`),
1 094 323 (`EndInv`, the lifecycle run), 969 818 (`path_follow`), 416 467 (`nav_search`, `NavInv` and `HomeInv`) and 52 080 (the scan).

Only model-checked:

- Liveness, as fairness and ENABLED are out of the prover's reach: `CallsReturn`,
  `LeaveRequestsHonoured`, `EventuallyAnnounced`, `SearchEnds`, `StuckIsLeft`,
  `NoBotStarves`.
- `Behavior`: the other invariants along its pointers (`StackLinksAgree`, `ReplacedEndsFirst`,
  `CallsTouchLiveActions`, `NoLeak`, `EndedBeforeFreed`). They speak of reachability, which is defined by recursion
  over the links (`Contained`), and need an invariant on the ownership of every pointer under
  every frame of the engine.
- `CollectsAll` and `NearestFound` of `NavMesh`, whose operators are folds over cells and areas;
  `ImplementsStore`.

## 5. Plan

1. `Behavior`, `BehaviorProofs`, `ActionFactories`, `EntityFactories`, `ClientEntities`,
   `NetworkSchema`: done.
2. Paths, nav searches, the index of areas and ledges: done.
3. Fields from their definition to their values on both sides, and the abstract store they
   implement; the data of actions: done.
4. Locomotion, layers, ids, components and schedule of bots: done.
5. Theorems about fields, NPCs and bots, ledges, the network schema, action factories,
   entity factories, client entities, paths and the open list: done. Next to be proved: the ownership of actions in `Behavior`.
6. `NativeHandles`: contexts, callback numbers, grants and scopes; the classnames of client
   entities.
7. An abstract specification of what a stack of actions promises
   (`ActionStack`: started, suspended, ended), refined by `Behavior`.

### Not modelled

- Native API for C++ consumers (`nativecontext.*`, `nativehandlepolicy.h`, `callbackbuffers.h`): step 6 of the
  plan.
- Marshalling natives (`natives/*`) and wrappers of engine classes (`sourcesdk/base*.cpp`):
  virtual calls, offsets of gamedata and conversions of arguments, without state or control
  of their own. Gamedata and build files likewise.
- The motion of a bot, the traces of the world and the engine's mesh: they are the game's,
  which is not in the repository; where the code asks them, the models choose freely.
- Texts: debug output, reasons of transitions, names of events.
