----------------------------- MODULE NetworkSchema -----------------------------
(***************************************************************************)
(* The network schema of custom entities:                                  *)
(* CBaseNPCNetworkSchemaManager::Finalize (cbasenpcnetworkschema.cpp),     *)
(* which drives CBaseNPCServerClassManager (cbasenpcserverclass.cpp) and   *)
(* CBaseNPCClientClassManager (cbasenpcclientclass.cpp), the declarations  *)
(* of server and client factories it reads, and what it does to the engine.*)
(*                                                                         *)
(* Plugins declare classes; the schema is finalized at most once: prepared *)
(* on both sides (may be rejected), published (cannot be taken back) and   *)
(* committed (the engine's tables are torn down and built again).          *)
(* Plugins come and go before and after.                                   *)
(***************************************************************************)
EXTENDS Naturals, FiniteSets, FiniteSetsExt

CONSTANTS
  Factories,        \* server entity factories
  ClientFactories,  \* client factories
  Names,            \* network names of custom classes
  Stock,            \* the network name of a class of the game
  Declarations,     \* factory -> the declarations its plugin may make
  Derive,           \* server factory -> what its entities derive from
  Classname,        \* server factory -> entity classname
  Size,             \* server factory -> size of its data description
  Sends,            \* server factories whose fields are network fields
  Unfinished,       \* server factories whose plugin may forget EndDataMapDesc
  Props,            \* properties of stock tables
  IntProps,         \* those of them whose bits can be changed
  Requests,         \* bit patches that are asked for: [prop, bits, owner]
  Consumers         \* the owners of patches that are extensions; others are plugins

None == "none"
NoDecl == [name |-> None, base |-> None]
All == Factories \cup ClientFactories
Owners == {r.owner : r \in Requests}
\* What an entity may derive from: the game, a factory, or a classname.
GameBase == [kind |-> "game"]
FactoryBase(f) == [kind |-> "factory", of |-> f]
ClassnameBase(c) == [kind |-> "classname", of |-> c]
GameSize == 1

ASSUME ConstantsOK ==
  /\ IsFiniteSet(Factories) /\ None \notin Factories
  /\ Stock \notin Names /\ None \notin Names
  /\ \A f \in All : Declarations[f] \subseteq [name : Names, base : Names \cup {Stock}]
  /\ \A f \in Factories : Size[f] \in Nat
  /\ Sends \subseteq Factories /\ Unfinished \subseteq Factories /\ IntProps \subseteq Props
  /\ \A r \in Requests : r.prop \in Props /\ r.bits \in 1..32
  /\ Consumers \subseteq Owners

VARIABLES
  schema,    \* CBaseNPCNetworkSchemaManager: attempted_, finalized_, failed_, published_, lateLoad_, inertLateLoad
  server,    \* CBaseNPCServerClassManager::State
  client,    \* CBaseNPCClientClassManager::State; exists is false on a dedicated server
  factory,   \* the fields of each server factory
  declared,  \* the declaration of each factory, or NoDecl
  owned,     \* client factories: "new", "installed", "frozen" or "deleted"
  engine,    \* the game's class lists, tables, bit counts and DT_BaseEntity
  entities,  \* whether the game has entities
  step       \* the next step of Finalize, or what the extension does

vars == <<schema, server, client, factory, declared, owned, engine, entities, step>>

Class(f, required) ==
  [name |-> declared[f].name, base |-> declared[f].base, factory |-> f, required |-> required]
Patch(r) == [prop |-> r.prop, bits |-> r.bits, owners |-> {r.owner}]
NamesOf(classes) == {c.name : c \in classes}
-----------------------------------------------------------------------------
(***************************************************************************)
(* Server factories                                                        *)
(***************************************************************************)
Alive(f) == factory[f].alive
Installed(f) == factory[f].installed

\* FindBaseFactory: the base that Install, BeginDataDesc and Prepare would use.
FindBase(f) ==
  LET d == Derive[f] IN
  CASE d.kind = "game" -> {}
    [] d.kind = "factory" -> {g \in {d.of} : Installed(g)}
    [] d.kind = "classname" -> {g \in Factories \ {f} : Installed(g) /\ Classname[g] = d.of}
HasBase(f) == Derive[f].kind = "game" \/ FindBase(f) # {}

\* The factories in fs and those that Of leads to from them.
Reached(fs, Of(_)) ==
  LET reached[n \in 0..Cardinality(Factories)] ==
        IF n = 0 THEN fs
        ELSE LET before == reached[n-1] IN before \cup UNION {Of(g) : g \in before}
  IN reached[Cardinality(Factories)]

\* GetDataDescSize counts a description only once it is complete.
DescSize(f) == IF factory[f].desc = "complete" THEN factory[f].size ELSE 0
\* GetEntitySize, along m_pBaseFactory.
EntitySize(f) ==
  LET size[n \in 0..Cardinality(Factories), g \in Factories] ==
        DescSize(g) +
        (IF factory[g].base # None
         THEN IF n = 0 THEN 0 ELSE size[n-1, factory[g].base]
         ELSE IF Derive[g].kind = "game" THEN GameSize ELSE 0)
  IN size[Cardinality(Factories), f]
BaseSize(f) == IF FindBase(f) = {} THEN EntitySize(f) - DescSize(f)
               ELSE EntitySize(CHOOSE g \in FindBase(f) : TRUE)

\* f and the factories its entities are allocated through.
AllocationChain(f) == Reached({f}, FindBase)
Deriving(f) == Reached({f}, LAMBDA g : {h \in Factories : factory[h].base = g})

HasDeclaration(f) == declared[f] # NoDecl
\* HasNetworkDefinition and GetEffectiveServerClass: its own or that of its base.
DefiningFactories(f) ==
  {g \in Reached({f}, LAMBDA h : {factory[h].base} \ {None}) : HasDeclaration(g) \/ factory[g].sends}
HasNetworkDefinition(f) == DefiningFactories(f) # {}
EffectiveClass(f) ==
  LET class[n \in 0..Cardinality(Factories), g \in Factories] ==
        IF HasDeclaration(g) THEN factory[g].class
        ELSE IF n = 0 \/ factory[g].base = None THEN None ELSE class[n-1, factory[g].base]
  IN class[Cardinality(Factories), f]

(***************************************************************************)
(* Declarations, made by plugins at any time the extension runs            *)
(***************************************************************************)
IsRegistrationOpen == ~server.attempted /\ ~server.blocked
Plugin == step = "running"
Editable(f) == Alive(f) /\ ~Installed(f) /\ ~factory[f].frozen

DefineServerClass(f) ==
  /\ Plugin /\ Alive(f) /\ IsRegistrationOpen /\ ~HasDeclaration(f)
  /\ \E d \in Declarations[f] : declared' = [declared EXCEPT ![f] = d]
  /\ UNCHANGED <<schema, server, client, factory, owned, engine, entities, step>>

\* BeginDataMapDesc, the fields, EndDataMapDesc.  A plugin may forget the
\* last; one that defines a network field too late stops at the field.
DefineDataMap(f, ends) ==
  /\ Plugin /\ Editable(f) /\ HasBase(f) /\ (ends \/ f \in Unfinished)
  /\ LET refused == f \in Sends /\ ~IsRegistrationOpen IN
     factory' = [factory EXCEPT
       ![f].start = BaseSize(f), ![f].size = IF refused THEN 0 ELSE Size[f],
       ![f].sends = f \in Sends /\ ~refused,
       ![f].desc = IF ends /\ ~refused THEN "complete" ELSE "open"]
  /\ UNCHANGED <<schema, server, client, declared, owned, engine, entities, step>>

Install(f) ==
  /\ Plugin /\ Alive(f) /\ ~Installed(f) /\ HasBase(f)
  /\ \A g \in Factories : Installed(g) => Classname[g] # Classname[f]
  /\ factory' = [factory EXCEPT ![f].installed = TRUE,
       ![f].base = IF FindBase(f) = {} THEN None ELSE CHOOSE g \in FindBase(f) : TRUE]
  /\ UNCHANGED <<schema, server, client, declared, owned, engine, entities, step>>

\* Factories that derive from it are uninstalled first.
Uninstalled(fs) ==
  [g \in Factories |-> IF g \in fs THEN [factory[g] EXCEPT !.installed = FALSE, !.base = None]
                       ELSE factory[g]]
Uninstall(f) ==
  /\ Plugin /\ Installed(f)
  /\ factory' = Uninstalled(Deriving(f))
  /\ UNCHANGED <<schema, server, client, declared, owned, engine, entities, step>>

\* The handle is closed, also when its plugin unloads: the factory is deleted.
CloseFactory(f) ==
  /\ Plugin /\ Alive(f)
  /\ factory' = [Uninstalled(IF Installed(f) THEN Deriving(f) ELSE {}) EXCEPT ![f].alive = FALSE]
  /\ UNCHANGED <<schema, server, client, declared, owned, engine, entities, step>>

\* DefineClientClass, DeriveFromNetworkClass and Install of a client factory.
InstallClient(c) ==
  /\ Plugin /\ owned[c] = "new" /\ IsRegistrationOpen
  /\ \E d \in Declarations[c] :
       /\ \A e \in ClientFactories : owned[e] = "installed" => declared[e].name # d.name
       /\ declared' = [declared EXCEPT ![c] = d]
  /\ owned' = [owned EXCEPT ![c] = "installed"]
  /\ UNCHANGED <<schema, server, client, factory, engine, entities, step>>

DeletedAlways(c) == "deleted"
\* A frozen declaration outlives its handle: the runtime class refers to it.
AfterClose(c) == IF owned[c] = "frozen" THEN "frozen" ELSE "deleted"
CloseClient(c) ==
  /\ Plugin /\ owned[c] \in {"new", "installed", "frozen"}
  /\ owned' = [owned EXCEPT ![c] = AfterClose(c)]
  /\ UNCHANGED <<schema, server, client, factory, declared, engine, entities, step>>

\* RegisterDTPropBitsPatch: one bit count for each property, many owners.
RegisterDTPropBitsPatch(request) ==
  /\ Plugin /\ IsRegistrationOpen
  /\ LET same == {q \in server.patches : q.prop = request.prop} IN
     /\ \A q \in same : q.bits = request.bits
     /\ server' = [server EXCEPT !.patches =
          IF same = {} THEN @ \cup {Patch(request)}
          ELSE (@ \ same) \cup {[q EXCEPT !.owners = @ \cup {request.owner}] : q \in same}]
  /\ UNCHANGED <<schema, client, factory, declared, owned, engine, entities, step>>

WithoutOwner(patches, owner) == {[q EXCEPT !.owners = @ \ {owner}] : q \in patches}
\* A patch goes with its last owner.
Without(patches, owner) ==
  {q \in {[q EXCEPT !.owners = @ \ {owner}] : q \in patches} : q.owners # {}}
RemoveDTPropBitsPatches(owner) ==
  /\ Plugin /\ ~server.attempted
  /\ server' = [server EXCEPT !.patches = Without(@, owner)]
  /\ UNCHANGED <<schema, client, factory, declared, owned, engine, entities, step>>

(***************************************************************************)
(* Preparation                                                             *)
(***************************************************************************)
\* The installed server factories with a declaration, and the client ones.
Declaring == {f \in Factories : Installed(f) /\ HasDeclaration(f)}
ClientDeclaring == {c \in ClientFactories : owned[c] = "installed"}
BaseDeclaration(f) == {g \in Declaring : declared[g].name = declared[f].base}

\* The declarations f inherits from.
Inherited(f) == Reached(BaseDeclaration(f), BaseDeclaration)
\* Where the last network field of f, inherited ones included, ends.
RequiredSize(f) ==
  Max({0} \cup {factory[g].start + factory[g].size : g \in {h \in Inherited(f) \cup {f} : factory[h].sends}})

\* Prepare of the server: what each declaration has to satisfy.
Buildable(f) ==
  /\ \A g \in Declaring \ {f} : declared[g].name # declared[f].name
  /\ declared[f].base = Stock \/ BaseDeclaration(f) # {}
  /\ f \notin Inherited(f)
  /\ \A g \in BaseDeclaration(f) : RequiredSize(g) > 0 => g \in AllocationChain(f)
  /\ factory[f].desc # "open" /\ HasBase(f)
  /\ factory[f].desc = "complete" => factory[f].start = BaseSize(f)
  /\ BaseSize(f) > 0 /\ BaseSize(f) + DescSize(f) >= RequiredSize(f)
AllDeclared == \A f \in Factories : Installed(f) /\ factory[f].sends => HasDeclaration(f)
ServerValid ==
  /\ AllDeclared
  /\ \A f \in Declaring : Buildable(f)
  /\ \A p \in server.patches : p.prop \in IntProps
\* Without declarations, patches and a client of its own the game stays as it is.
Rebuilds == Declaring # {} \/ server.patches # {} \/ (client.exists /\ ~schema.inert)

DeclaredByServer == \A c \in ClientDeclaring : \E f \in Declaring : declared[f] = declared[c]
\* Prepare of the client: both sides declare the same.
ClientValid ==
  /\ \A c \in ClientDeclaring : \E f \in Declaring : declared[f] = declared[c]
  /\ \A f \in Declaring : \E c \in ClientDeclaring : declared[c].name = declared[f].name

(***************************************************************************)
(* Finalize, a step for each call it makes                                 *)
(***************************************************************************)
\* An exception: the schema is never tried again, and after publication the
\* extension ends the process (SDK_OnAllPluginsLoaded).
Fails ==
  /\ schema' = [schema EXCEPT !.failed = TRUE]
  /\ step' = IF schema.published THEN "ended" ELSE "running"

CustomNetworking ==
  \/ server.patches # {} \/ ClientDeclaring # {}
  \/ \E f \in Factories : Installed(f) /\ (HasDeclaration(f) \/ factory[f].sends)
\* An extension loaded late finds entities made by the old tables.
Timely == ~(schema.late /\ entities /\ CustomNetworking)

FinalizeBegins ==
  /\ Plugin /\ ~schema.attempted
  /\ IF Timely
     THEN /\ schema' = [schema EXCEPT !.attempted = TRUE,
                          !.inert = schema.late /\ entities /\ ~CustomNetworking]
          /\ step' = "serverPrepare"
     ELSE /\ schema' = [schema EXCEPT !.attempted = TRUE, !.failed = TRUE]
          /\ UNCHANGED step
  /\ UNCHANGED <<server, client, factory, declared, owned, engine, entities>>

\* Network fields need a declaration even where nothing would be rebuilt.
\* fits: the limits on tables and properties, which are not modelled, are kept.
ServerPrepare(fits) ==
  /\ step = "serverPrepare"
  /\ IF ~Rebuilds /\ AllDeclared
     THEN /\ server' = [server EXCEPT !.attempted = TRUE, !.prepared = TRUE]
          /\ step' = "clientPrepare" /\ UNCHANGED <<schema, factory>>
     ELSE IF ServerValid /\ fits
     THEN /\ server' = [server EXCEPT !.attempted = TRUE, !.prepared = TRUE, !.rebuilds = TRUE,
                          !.classes = {Class(f, RequiredSize(f)) : f \in Declaring},
                          !.planned = server.patches]
          /\ factory' = [f \in Factories |->
               IF f \in Declaring THEN [factory[f] EXCEPT !.final = BaseSize(f) + DescSize(f)] ELSE factory[f]]
          /\ step' = "clientPrepare" /\ UNCHANGED schema
     ELSE /\ server' = [server EXCEPT !.attempted = TRUE, !.failed = TRUE]
          /\ Fails /\ UNCHANGED factory
  /\ UNCHANGED <<client, declared, owned, engine, entities>>

ClientPrepare(fits) ==
  /\ step = "clientPrepare"
  /\ IF ~client.exists
     THEN step' = "bridge" /\ UNCHANGED <<schema, client>>
     ELSE IF schema.inert
     THEN /\ client' = [client EXCEPT !.inert = TRUE, !.prepared = TRUE]
          /\ step' = "bridge" /\ UNCHANGED schema
     ELSE IF ClientValid /\ fits
     THEN /\ client' = [client EXCEPT !.prepared = TRUE,
                          !.classes = {Class(c, 0) : c \in ClientDeclaring}]
          /\ step' = "bridge" /\ UNCHANGED schema
     ELSE client' = [client EXCEPT !.failed = TRUE] /\ Fails
  /\ UNCHANGED <<server, factory, declared, owned, engine, entities>>

\* The arrays of DT_BaseEntity with the classname property, not installed yet.
PrepareBridge(fits) ==
  /\ step = "bridge"
  /\ IF server.rebuilds /\ ~schema.inert /\ ~fits
     THEN Fails
     ELSE step' = "serverPublish" /\ UNCHANGED schema
  /\ UNCHANGED <<server, client, factory, declared, owned, engine, entities>>

ServerPublishFirst(retained) ==
  /\ step = "serverPublish"
  /\ IF ~server.rebuilds
     THEN step' = "clientPublish" /\ UNCHANGED <<schema, server, engine>>
     ELSE /\ engine' = [engine EXCEPT !.servers = NamesOf(server.classes)]
          /\ IF retained
             THEN /\ server' = [server EXCEPT !.published = TRUE]
                  /\ schema' = [schema EXCEPT !.published = TRUE]
                  /\ step' = "installBridge"
             ELSE Fails /\ UNCHANGED server
  /\ UNCHANGED <<client, factory, declared, owned, entities>>
\* retained: the code module could be kept loaded.
ServerPublish(retained) ==
  /\ step = "serverPublish"
  /\ IF ~server.rebuilds
     THEN step' = "clientPublish" /\ UNCHANGED <<schema, server, engine>>
     ELSE IF retained
     THEN /\ server' = [server EXCEPT !.published = TRUE]
          /\ schema' = [schema EXCEPT !.published = TRUE]
          /\ engine' = [engine EXCEPT !.servers = NamesOf(server.classes)]
          /\ step' = "installBridge"
     ELSE Fails /\ UNCHANGED <<server, engine>>
  /\ UNCHANGED <<client, factory, declared, owned, entities>>

InstallBridge ==
  /\ step = "installBridge"
  /\ engine' = [engine EXCEPT !.bridged = TRUE]
  /\ step' = "clientPublish"
  /\ UNCHANGED <<schema, server, client, factory, declared, owned, entities>>

ClientPublish ==
  /\ step = "clientPublish"
  /\ IF client.exists /\ client.prepared /\ ~client.inert
     THEN /\ client' = [client EXCEPT !.published = TRUE]
          /\ engine' = [engine EXCEPT !.clients = NamesOf(client.classes)]
          /\ owned' = [c \in ClientFactories |->
               IF c \in {d.factory : d \in client.classes} THEN "frozen" ELSE owned[c]]
     ELSE UNCHANGED <<client, engine, owned>>
  /\ step' = "serverCommit"
  /\ UNCHANGED <<schema, server, factory, declared, entities>>

PatchedProps == {q.prop : q \in server.planned}
\* The bits once the patches of these properties are applied.
BitsAfter(props) ==
  [p \in Props |-> IF p \in props THEN (CHOOSE q \in server.planned : q.prop = p).bits
                                  ELSE engine.bits[p]]
Built == {c.factory : c \in server.classes}
\* Layouts can no longer change: of what was built, and what it is allocated through.
Frozen == UNION {AllocationChain(f) : f \in Built}

\* Tear the tables down, patch bits, build them again, look at the result.
\* outcome is how far this gets: a property to patch changed in the meantime,
\* the engine rejects the tables, or the public list differs from the plan.
ServerCommit(outcome) ==
  /\ step = "serverCommit"
  /\ IF ~server.rebuilds
     THEN /\ server' = [server EXCEPT !.finalized = TRUE]
          /\ step' = "clientCommit" /\ UNCHANGED <<schema, factory, engine>>
     ELSE /\ \E applied \in SUBSET PatchedProps :
               /\ applied = PatchedProps <=> outcome # "changed"
               /\ engine' = [engine EXCEPT !.bits = BitsAfter(applied),
                    !.sends = IF outcome \in {"changed", "rejected"} THEN "down" ELSE "custom"]
          /\ factory' = IF outcome \in {"changed", "rejected"} THEN factory
                        ELSE [f \in Factories |->
                               [factory[f] EXCEPT !.frozen = @ \/ f \in Frozen,
                                  !.class = IF f \in Built THEN declared[f].name ELSE @]]
          /\ IF outcome = "committed"
             THEN /\ server' = [server EXCEPT !.finalized = TRUE]
                  /\ step' = "clientCommit" /\ UNCHANGED schema
             ELSE server' = [server EXCEPT !.failed = TRUE] /\ Fails
  /\ UNCHANGED <<client, declared, owned, entities>>

ClientCommit(outcome) ==
  /\ step = "clientCommit"
  /\ IF ~client.exists \/ client.inert
     THEN /\ client' = [client EXCEPT !.finalized = client.exists]
          /\ schema' = [schema EXCEPT !.finalized = TRUE] /\ step' = "running"
          /\ UNCHANGED engine
     ELSE /\ engine' = [engine EXCEPT !.recvs = IF outcome = "rejected" THEN "down" ELSE "custom"]
          /\ IF outcome = "committed"
             THEN /\ client' = [client EXCEPT !.finalized = TRUE]
                  /\ schema' = [schema EXCEPT !.finalized = TRUE] /\ step' = "running"
             ELSE /\ client' = [client EXCEPT !.failed = TRUE, !.finalized = outcome = "differs"]
                  /\ Fails
  /\ UNCHANGED <<server, factory, declared, owned, entities>>

(***************************************************************************)
(* Entities and unload                                                     *)
(***************************************************************************)
IsFinalized == schema.finalized /\ ~schema.failed
\* CPluginEntityFactory::Create.
MayCreate(f) ==
  /\ Installed(f)
  /\ HasNetworkDefinition(f) =>
       /\ IsFinalized /\ EffectiveClass(f) # None
       /\ factory[f].final # 0 => EntitySize(f) = factory[f].final
Create(f) ==
  /\ Plugin /\ MayCreate(f) /\ entities' = TRUE
  /\ UNCHANGED <<schema, server, client, factory, declared, owned, engine, step>>

\* The map begins with entities of the game and ends with none.
MapChanges ==
  /\ Plugin /\ entities' = ~entities
  /\ UNCHANGED <<schema, server, client, factory, declared, owned, engine, step>>

\* SDK_OnUnload.  Published metadata stays, everything else goes.
Unload ==
  /\ Plugin /\ step' = "unloaded"
  /\ IF ~schema.published
     THEN /\ server' = [server EXCEPT !.classes = {}, !.patches = {}, !.planned = {}]
          /\ client' = [client EXCEPT !.classes = {}]
          /\ UNCHANGED <<schema, factory>>
     ELSE schema' = [schema EXCEPT !.failed = TRUE] /\ UNCHANGED <<server, client, factory>>
  /\ owned' = [c \in ClientFactories |-> AfterClose(c)]
  /\ UNCHANGED <<declared, engine, entities>>

-----------------------------------------------------------------------------
\* SDK_OnLoad and ConfigureLoad: the extension may be loaded late, and only a
\* listen server has a client.
Init ==
  /\ entities \in BOOLEAN
  /\ \E late, hasClient \in BOOLEAN :
       /\ schema = [attempted |-> FALSE, finalized |-> FALSE, failed |-> FALSE,
                    published |-> FALSE, inert |-> FALSE, late |-> late]
       /\ server = [attempted |-> FALSE, prepared |-> FALSE, published |-> FALSE,
                    finalized |-> FALSE, failed |-> FALSE, blocked |-> late /\ entities,
                    rebuilds |-> FALSE, classes |-> {}, patches |-> {}, planned |-> {}]
       /\ client = [exists |-> hasClient, prepared |-> FALSE, published |-> FALSE,
                    finalized |-> FALSE, failed |-> FALSE, inert |-> FALSE, classes |-> {}]
  /\ factory = [f \in Factories |->
       [alive |-> TRUE, installed |-> FALSE, base |-> None, desc |-> "none", start |-> 0,
        size |-> 0, sends |-> FALSE, frozen |-> FALSE, class |-> None, final |-> 0]]
  /\ declared = [f \in All |-> NoDecl]
  /\ owned = [c \in ClientFactories |-> "new"]
  /\ engine = [servers |-> {}, clients |-> {}, sends |-> "stock", recvs |-> "stock",
               bits |-> [p \in Props |-> 0], bridged |-> FALSE]
  /\ step = "running"

Finalize ==
  \/ FinalizeBegins \/ InstallBridge \/ ClientPublish
  \/ \E fits \in BOOLEAN : ServerPrepare(fits) \/ ClientPrepare(fits) \/ PrepareBridge(fits)
  \/ \E retained \in BOOLEAN : ServerPublish(retained)
  \/ \E outcome \in {"changed", "rejected", "differs", "committed"} : ServerCommit(outcome)
  \/ \E outcome \in {"rejected", "differs", "committed"} : ClientCommit(outcome)

PluginCode ==
  \/ \E f \in Factories :
       \/ DefineServerClass(f) \/ Install(f) \/ Uninstall(f) \/ CloseFactory(f) \/ Create(f)
       \/ \E ends \in BOOLEAN : DefineDataMap(f, ends)
  \/ \E c \in ClientFactories : InstallClient(c) \/ CloseClient(c)
  \/ \E request \in Requests : RegisterDTPropBitsPatch(request)
  \/ \E owner \in Consumers : RemoveDTPropBitsPatches(owner)

Next == Finalize \/ PluginCode \/ MapChanges \/ Unload
Spec == Init /\ [][Next]_vars
-----------------------------------------------------------------------------
(***************************************************************************)
(* Properties                                                              *)
(***************************************************************************)
Steps == {"running", "serverPrepare", "clientPrepare", "bridge", "serverPublish",
          "installBridge", "clientPublish", "serverCommit", "clientCommit", "ended", "unloaded"}

\* Type correctness of the two managers, the factories and the engine.
TypeOK ==
  /\ schema \in [attempted : BOOLEAN, finalized : BOOLEAN, failed : BOOLEAN,
                 published : BOOLEAN, inert : BOOLEAN, late : BOOLEAN]
  /\ \A b \in {"attempted", "prepared", "published", "finalized", "failed", "blocked", "rebuilds"} :
       server[b] \in BOOLEAN
  /\ \A c \in server.classes : c.factory \in Factories /\ c.name \in Names /\ c.required \in Nat
  /\ \A p \in server.patches \cup server.planned :
       p.prop \in Props /\ p.bits \in 1..32 /\ p.owners \in SUBSET Owners \ {{}}
  /\ \A b \in {"exists", "prepared", "published", "finalized", "failed", "inert"} : client[b] \in BOOLEAN
  /\ \A c \in client.classes : c.factory \in ClientFactories /\ c.name \in Names
  /\ \A f \in Factories :
       /\ factory[f].base \in Factories \cup {None} /\ factory[f].desc \in {"none", "open", "complete"}
       /\ factory[f].start \in Nat /\ factory[f].size \in Nat /\ factory[f].final \in Nat
       /\ factory[f].class \in Names \cup {None}
       /\ \A b \in {"alive", "installed", "sends", "frozen"} : factory[f][b] \in BOOLEAN
  /\ declared \in [All -> [name : Names, base : Names \cup {Stock}] \cup {NoDecl}]
  /\ owned \in [ClientFactories -> {"new", "installed", "frozen", "deleted"}]
  /\ engine \in [servers : SUBSET Names, clients : SUBSET Names, sends : {"stock", "down", "custom"},
                 recvs : {"stock", "down", "custom"}, bits : [Props -> 0..32], bridged : BOOLEAN]
  /\ entities \in BOOLEAN /\ step \in Steps

\* "schema rejected before publication": whatever fails before that, on either
\* side, the engine has not been touched.
RejectedUntouched ==
  ~schema.published =>
    /\ engine.servers = {} /\ engine.clients = {} /\ ~engine.bridged
    /\ engine.sends = "stock" /\ engine.recvs = "stock"
    /\ \A p \in Props : engine.bits[p] = 0

\* Once finalized, both sides have the same custom classes on the same bases,
\* all of them public, over tables that are up, with the bits that were asked for.
SidesAgree ==
  IsFinalized =>
    /\ server.finalized /\ engine.sends # "down" /\ engine.recvs # "down"
    /\ \A p \in Props : engine.bits[p] =
         IF \E q \in server.patches : q.prop = p
         THEN (CHOOSE q \in server.patches : q.prop = p).bits ELSE 0
    /\ step # "unloaded" =>
         /\ engine.servers = NamesOf(server.classes)
         /\ client.exists /\ ~client.inert =>
              /\ client.published /\ engine.bridged /\ engine.clients = engine.servers
              /\ {[c EXCEPT !.factory = None, !.required = 0] : c \in client.classes} =
                 {[c EXCEPT !.factory = None, !.required = 0] : c \in server.classes}

\* The engine never refers to metadata that was discarded, and the runtime
\* class of a public client class never to a deleted factory, whatever
\* plugins close and also when the extension is unloaded.
PublicKept ==
  /\ engine.servers \subseteq NamesOf(server.classes)
  /\ engine.clients \subseteq NamesOf(client.classes)
  /\ client.published => \A c \in client.classes : owned[c.factory] # "deleted"

\* "changing a finalized layout [requires] a process restart": an entity that
\* may be created has the public class its tables were built for, and is large
\* enough for every field they read.  Violated: only a factory with a declaration
\* of its own has a final size to compare with (cbasenpcserverclass.cpp:455), one
\* that inherits its public class is created over whatever base is installed.
CreatedFits ==
  \A f \in Factories :
    Plugin /\ MayCreate(f) /\ HasNetworkDefinition(f) =>
      \E c \in server.classes :
        /\ c.name = EffectiveClass(f) /\ c.name \in engine.servers
        /\ EntitySize(f) >= c.required
=============================================================================
