-------------------------- MODULE NetworkSchemaProofs --------------------------
(***************************************************************************)
(* What holds of the network schema for any plugins, classes and patches:  *)
(* a schema that fails before its publication leaves the engine as it was, *)
(* a finalized one has the same classes on both sides and the bits that    *)
(* were asked for, and nothing the engine was given is taken back.         *)
(*                                                                         *)
(* None of these is inductive: what a step of Finalize does follows from   *)
(* what the steps before it left.  The invariant Stages says for each of   *)
(* them what holds from there to the end of a Finalize that succeeds, and  *)
(* at rest while the schema is finalized.                                  *)
(***************************************************************************)
EXTENDS NetworkSchema, TLAPS

\* From these steps on the schema was prepared, on the server and on the
\* client, published, on the server and on the client, and committed.
AtCommitted == {"clientCommit"}
AtClientPublished == {"serverCommit", "clientCommit"}
AtPublished == {"installBridge", "clientPublish", "serverCommit", "clientCommit"}
AtClientPrepared == {"bridge", "serverPublish"} \cup AtPublished
AtPrepared == {"clientPrepare"} \cup AtClientPrepared
AtWork == {"serverPrepare"} \cup AtPrepared
Past(steps) == step \in steps \/ IsFinalized

\* The fields of the records.
Shape ==
  /\ DOMAIN schema = {"attempted", "finalized", "failed", "published", "inert", "late"}
  /\ DOMAIN server = {"attempted", "prepared", "published", "finalized", "failed", "blocked",
                      "rebuilds", "classes", "patches", "planned"}
  /\ DOMAIN client = {"exists", "prepared", "published", "finalized", "failed", "inert", "classes"}
  /\ DOMAIN engine = {"servers", "clients", "sends", "recvs", "bits", "bridged"}
  /\ DOMAIN factory = Factories /\ DOMAIN owned = ClientFactories /\ DOMAIN engine.bits = Props
  /\ \A f \in Factories :
       DOMAIN factory[f] = {"alive", "installed", "base", "desc", "start", "size", "sends",
                            "frozen", "class", "final"}
  /\ \A c \in client.classes : c.factory \in ClientFactories
  /\ \A c \in server.classes \cup client.classes : "name" \in DOMAIN c

\* Nothing is prepared before the first attempt.
Blank ==
  /\ ~server.rebuilds /\ server.classes = {}
  /\ ~client.inert /\ ~client.published /\ client.classes = {}
  /\ ~schema.published
\* An attempt is made once, and ends before the plugins' code runs again.
Attempt ==
  /\ step \in AtWork \/ schema.finalized => schema.attempted
  /\ schema.finalized => step \notin AtWork
  /\ ~schema.attempted \/ step = "serverPrepare" => Blank

\* c is the class that Prepare makes of the declaration of f.
ClassOf(c, f) ==
  c = [name |-> declared[f].name, base |-> declared[f].base, factory |-> f, required |-> c.required]
SameClasses ==
  /\ \A c \in server.classes : \E f \in Declaring : ClassOf(c, f)
  /\ \A f \in Declaring : \E c \in server.classes : ClassOf(c, f)
  /\ \A f, g \in Declaring : declared[f].name = declared[g].name => f = g

\* From the preparation of the server: no patch is added or removed, and
\* without a rebuild there are none.
Prepared ==
  /\ Past(AtPrepared) =>
       /\ server.attempted
       /\ server.rebuilds => server.planned = server.patches
       /\ ~server.rebuilds =>
            server.patches = {} /\ server.classes = {} /\ (~client.exists \/ schema.inert)
  /\ step = "clientPrepare" /\ server.rebuilds => SameClasses
  /\ step = "clientPrepare" => ~client.published /\ ~client.inert /\ ~schema.published

\* From the preparation of the client: it declares what the server does.
ClientAgrees ==
  Past(AtClientPrepared) /\ client.exists =>
    /\ client.prepared /\ (client.inert <=> schema.inert)
    /\ step # "unloaded" /\ ~client.inert =>
         {[c EXCEPT !.factory = None, !.required = 0] : c \in client.classes} =
         {[c EXCEPT !.factory = None, !.required = 0] : c \in server.classes}

\* The engine has what was published, and nothing else.
Published ==
  /\ RejectedUntouched
  /\ Past(AtPublished) /\ server.rebuilds => schema.published
  /\ step = "installBridge" => server.rebuilds
  /\ schema.published =>
       /\ engine.servers = NamesOf(server.classes)
       /\ step # "installBridge" => engine.bridged
  /\ ~client.published => engine.clients = {}
  /\ client.published =>
       /\ schema.published /\ engine.clients = NamesOf(client.classes)
       /\ \A c \in client.classes : owned[c.factory] = "frozen"
  /\ Past(AtClientPublished) /\ client.exists /\ ~client.inert => client.published
  /\ step \in {"bridge", "serverPublish"} => ~client.published /\ ~schema.published

Bits(patches) ==
  [p \in Props |-> IF \E q \in patches : q.prop = p
                   THEN (CHOOSE q \in patches : q.prop = p).bits ELSE 0]
\* The tables and bits before and after they are built.
Committed ==
  /\ step \in AtWork => engine.recvs = "stock"
  /\ step \in AtWork \ AtCommitted => engine.sends = "stock" /\ \A p \in Props : engine.bits[p] = 0
  /\ Past(AtCommitted) =>
       /\ server.finalized /\ engine.sends # "down"
       /\ \A p \in Props : engine.bits[p] = Bits(server.patches)[p]
  /\ IsFinalized => engine.recvs # "down"

Stages == Attempt /\ Prepared /\ ClientAgrees /\ Published /\ Committed
IInv == Shape /\ Stages

-----------------------------------------------------------------------------

\* The schema starts out as Shape and Stages say: nothing attempted, nothing built.
LEMMA InitHolds == Init => IInv
<1> SUFFICES ASSUME Init PROVE IInv
  OBVIOUS
<1>1. PICK late \in BOOLEAN, hasClient \in BOOLEAN :
       /\ schema = [attempted |-> FALSE, finalized |-> FALSE, failed |-> FALSE,
                    published |-> FALSE, inert |-> FALSE, late |-> late]
       /\ server = [attempted |-> FALSE, prepared |-> FALSE, published |-> FALSE,
                    finalized |-> FALSE, failed |-> FALSE, blocked |-> late /\ entities,
                    rebuilds |-> FALSE, classes |-> {}, patches |-> {}, planned |-> {}]
       /\ client = [exists |-> hasClient, prepared |-> FALSE, published |-> FALSE,
                    finalized |-> FALSE, failed |-> FALSE, inert |-> FALSE, classes |-> {}]
  BY DEF Init
<1>2. /\ engine = [servers |-> {}, clients |-> {}, sends |-> "stock", recvs |-> "stock",
                   bits |-> [p \in Props |-> 0], bridged |-> FALSE]
      /\ step = "running"
  BY DEF Init
<1>3. Shape
  <2>1. /\ DOMAIN schema = {"attempted", "finalized", "failed", "published", "inert", "late"}
        /\ DOMAIN server = {"attempted", "prepared", "published", "finalized", "failed", "blocked",
                            "rebuilds", "classes", "patches", "planned"}
        /\ DOMAIN client = {"exists", "prepared", "published", "finalized", "failed", "inert", "classes"}
        /\ DOMAIN engine = {"servers", "clients", "sends", "recvs", "bits", "bridged"}
        /\ DOMAIN engine.bits = Props /\ client.classes = {} /\ server.classes = {}
    BY <1>1, <1>2
  <2>2. /\ DOMAIN factory = Factories /\ DOMAIN owned = ClientFactories
        /\ \A f \in Factories :
             DOMAIN factory[f] = {"alive", "installed", "base", "desc", "start", "size", "sends",
                                  "frozen", "class", "final"}
    BY DEF Init
  <2> QED
    BY <2>1, <2>2 DEF Shape
<1>4. Attempt /\ Prepared /\ ClientAgrees
  BY <1>1, <1>2 DEF Attempt, Prepared, ClientAgrees, Past, AtPrepared, AtClientPrepared, AtPublished,
     AtWork, IsFinalized, Blank
<1>5. Published /\ Committed
  BY <1>1, <1>2 DEF Published, Committed, Past, AtCommitted, AtClientPublished, AtPublished, AtWork,
     AtPrepared, AtClientPrepared, IsFinalized, RejectedUntouched
<1> QED
  BY <1>3, <1>4, <1>5 DEF IInv, Stages

\* A step that leaves the schema, the sides, the engine and the client factories alone keeps
\* the invariant, unless the classes of the sides are being compared.
LEMMA OthersChange ==
  ASSUME IInv, Shape', step # "clientPrepare",
         UNCHANGED <<schema, server, client, engine, owned, step>>
  PROVE IInv'
<1> USE DEF IInv, Stages
<1>1. Attempt' /\ Prepared'
  BY DEF Attempt, Blank, Prepared, Past, AtPrepared, AtClientPrepared, AtPublished, AtWork, IsFinalized
<1>2. ClientAgrees'
  BY DEF ClientAgrees, Past, AtClientPrepared, AtPublished, IsFinalized
<1>3. Published'
  BY DEF Published, Past, AtPublished, AtClientPublished, IsFinalized, RejectedUntouched, NamesOf, Shape
<1>4. Committed'
  BY DEF Committed, Past, AtWork, AtPrepared, AtClientPrepared, AtPublished, AtCommitted, IsFinalized, Bits
<1> QED
  BY <1>1, <1>2, <1>3, <1>4

\* A plugin declares a server class of a factory.
LEMMA DefineServerClassKeeps ==
  ASSUME IInv, NEW f \in Factories, DefineServerClass(f) PROVE IInv'
<1>1. Shape'
  BY DEF DefineServerClass, IInv, Shape
<1> QED
  BY <1>1, OthersChange DEF DefineServerClass, Plugin

\* A plugin describes the data map of a factory.
LEMMA DefineDataMapKeeps ==
  ASSUME IInv, NEW f \in Factories, NEW ends \in BOOLEAN, DefineDataMap(f, ends) PROVE IInv'
<1>1. Shape'
  BY DEF DefineDataMap, IInv, Shape
<1> QED
  BY <1>1, OthersChange DEF DefineDataMap, Plugin

\* A factory is installed.
LEMMA InstallKeeps == ASSUME IInv, NEW f \in Factories, Install(f) PROVE IInv'
<1>1. Shape'
  BY DEF Install, IInv, Shape
<1> QED
  BY <1>1, OthersChange DEF Install, Plugin

\* What uninstalling factories leaves are the records of the factories.
LEMMA UninstalledShape ==
  ASSUME Shape, NEW fs, NEW g \in Factories
  PROVE /\ DOMAIN Uninstalled(fs) = Factories
        /\ DOMAIN Uninstalled(fs)[g] = DOMAIN factory[g]
BY DEF Uninstalled, Shape

\* A factory is uninstalled, with those over it.
LEMMA UninstallKeeps == ASSUME IInv, NEW f \in Factories, Uninstall(f) PROVE IInv'
<1>1. Shape'
  BY UninstalledShape DEF Uninstall, IInv, Shape
<1> QED
  BY <1>1, OthersChange DEF Uninstall, Plugin

\* The handle of a factory is closed.
LEMMA CloseFactoryKeeps == ASSUME IInv, NEW f \in Factories, CloseFactory(f) PROVE IInv'
<1>1. Shape'
  BY UninstalledShape DEF CloseFactory, IInv, Shape
<1> QED
  BY <1>1, OthersChange DEF CloseFactory, Plugin

\* An entity of a factory is created.
LEMMA CreateKeeps == ASSUME IInv, NEW f \in Factories, Create(f) PROVE IInv'
<1>1. Shape'
  BY DEF Create, IInv, Shape
<1> QED
  BY <1>1, OthersChange DEF Create, Plugin

\* The map changes: the entities go.
LEMMA MapChangesKeeps == ASSUME IInv, MapChanges PROVE IInv'
<1>1. Shape'
  BY DEF MapChanges, IInv, Shape
<1> QED
  BY <1>1, OthersChange DEF MapChanges, Plugin

\* A step that changes client factories alone keeps the invariant, as long as it thaws none.
LEMMA ClientsChange ==
  ASSUME IInv, Shape', Plugin,
         \A c \in ClientFactories : owned[c] = "frozen" => owned'[c] = "frozen",
         UNCHANGED <<schema, server, client, engine, step>>
  PROVE IInv'
<1> USE DEF IInv, Stages, Plugin
<1>1. Attempt' /\ Prepared'
  BY DEF Attempt, Blank, Prepared, Past, AtPrepared, AtClientPrepared, AtPublished, AtWork, IsFinalized
<1>2. ClientAgrees'
  BY DEF ClientAgrees, Past, AtClientPrepared, AtPublished, IsFinalized
<1>3. Published'
  BY DEF Published, Past, AtPublished, AtClientPublished, IsFinalized, RejectedUntouched, NamesOf, Shape
<1>4. Committed'
  BY DEF Committed, Past, AtWork, AtPrepared, AtClientPrepared, AtPublished, AtCommitted, IsFinalized, Bits
<1> QED
  BY <1>1, <1>2, <1>3, <1>4

\* A plugin declares a client factory.
LEMMA InstallClientKeeps == ASSUME IInv, NEW c \in ClientFactories, InstallClient(c) PROVE IInv'
<1>1. Shape'
  BY DEF InstallClient, IInv, Shape
<1>2. \A e \in ClientFactories : owned[e] = "frozen" => owned'[e] = "frozen"
  BY DEF InstallClient, IInv, Shape
<1> QED
  BY <1>1, <1>2, ClientsChange DEF InstallClient

\* The handle of a client factory is closed: a frozen one stays.
LEMMA CloseClientKeeps == ASSUME IInv, NEW c \in ClientFactories, CloseClient(c) PROVE IInv'
<1>1. Shape'
  BY DEF CloseClient, IInv, Shape
<1>2. \A e \in ClientFactories : owned[e] = "frozen" => owned'[e] = "frozen"
  BY DEF CloseClient, AfterClose, IInv, Shape
<1> QED
  BY <1>1, <1>2, ClientsChange DEF CloseClient

\* Patches change before the server is prepared.
LEMMA PatchesChange ==
  ASSUME IInv, Shape', Plugin, ~server.attempted,
         NEW patches, server' = [server EXCEPT !.patches = patches],
         UNCHANGED <<schema, client, factory, declared, owned, engine, step>>
  PROVE IInv'
<1>1. /\ server'.rebuilds = server.rebuilds /\ server'.classes = server.classes
      /\ server'.attempted = server.attempted /\ server'.finalized = server.finalized
  BY DEF IInv, Shape
<1>2. /\ ~IsFinalized /\ IsFinalized' = IsFinalized
      /\ step = "running"
  BY DEF IInv, Stages, Prepared, Past, Plugin, IsFinalized
<1> USE DEF IInv, Stages
<1>3. Attempt' /\ Prepared' /\ ClientAgrees'
  BY <1>1, <1>2 DEF Attempt, Blank, Prepared, ClientAgrees, Past, AtPrepared, AtClientPrepared, AtPublished, AtWork
<1>4. Published'
  BY <1>1, <1>2 DEF Published, Past, AtPublished, AtClientPublished, RejectedUntouched, NamesOf
<1>5. Committed'
  BY <1>1, <1>2 DEF Committed, Past, AtWork, AtPrepared, AtClientPrepared, AtPublished, AtCommitted
<1> QED
  BY <1>3, <1>4, <1>5

\* A plugin asks for the bits of a property.
LEMMA RegisterKeeps ==
  ASSUME IInv, NEW r \in Requests, RegisterDTPropBitsPatch(r) PROVE IInv'
<1>1. PICK patches : server' = [server EXCEPT !.patches = patches]
  BY DEF RegisterDTPropBitsPatch
<1>2. Shape'
  BY <1>1 DEF RegisterDTPropBitsPatch, IInv, Shape
<1> QED
  BY <1>1, <1>2, PatchesChange DEF RegisterDTPropBitsPatch, IsRegistrationOpen

\* The patches of a plugin are withdrawn.
LEMMA RemoveKeeps ==
  ASSUME IInv, NEW owner, RemoveDTPropBitsPatches(owner) PROVE IInv'
<1>1. PICK patches : server' = [server EXCEPT !.patches = patches]
  BY DEF RemoveDTPropBitsPatches
<1>2. Shape'
  BY <1>1 DEF RemoveDTPropBitsPatches, IInv, Shape
<1> QED
  BY <1>1, <1>2, PatchesChange DEF RemoveDTPropBitsPatches

\* The extension unloads: what was published stays, the rest is dropped.
LEMMA UnloadKeeps == ASSUME IInv, Unload PROVE IInv'
<1> USE DEF Plugin
<1>1. \A c \in ClientFactories : owned[c] = "frozen" => owned'[c] = "frozen"
  BY DEF Unload, AfterClose
<1>2. /\ step = "running" /\ step' = "unloaded" /\ UNCHANGED engine
      /\ ~schema.published =>
           /\ server'.classes = {} /\ server'.patches = {} /\ server'.planned = {}
           /\ server'.attempted = server.attempted /\ server'.rebuilds = server.rebuilds
           /\ server'.finalized = server.finalized
           /\ client'.classes = {} /\ client'.exists = client.exists
           /\ client'.published = client.published /\ client'.inert = client.inert
           /\ client'.prepared = client.prepared
           /\ UNCHANGED <<schema, factory>>
      /\ schema.published =>
           /\ UNCHANGED <<server, client, factory>> /\ schema'.failed = TRUE
           /\ schema'.attempted = schema.attempted /\ schema'.finalized = schema.finalized
           /\ schema'.published = schema.published /\ schema'.inert = schema.inert
  <2>1. step = "running" /\ step' = "unloaded" /\ UNCHANGED engine
    BY DEF Unload
  <2>2. CASE ~schema.published
    <3>1. /\ server' = [server EXCEPT !.classes = {}, !.patches = {}, !.planned = {}]
          /\ client' = [client EXCEPT !.classes = {}]
          /\ UNCHANGED <<schema, factory>>
      BY <2>2 DEF Unload
    <3> QED
      BY <2>1, <2>2, <3>1 DEF IInv, Shape
  <2>3. CASE schema.published
    <3>1. schema' = [schema EXCEPT !.failed = TRUE] /\ UNCHANGED <<server, client, factory>>
      BY <2>3 DEF Unload
    <3> QED
      BY <2>1, <2>3, <3>1 DEF IInv, Shape
  <2> QED
    BY <2>2, <2>3
<1>3. Shape'
  BY <1>2 DEF Unload, IInv, Shape
<1>4. IsFinalized' => IsFinalized /\ ~schema.published /\ ~server.rebuilds
  BY <1>2 DEF IsFinalized, IInv, Stages, Published, Past
<1> USE DEF IInv, Stages
<1>5. Attempt' /\ Prepared'
  BY <1>2, <1>4 DEF Attempt, Blank, Prepared, Past, AtPrepared, AtClientPrepared, AtPublished, AtWork
<1>6. ClientAgrees'
  BY <1>2, <1>4 DEF ClientAgrees, Past, AtClientPrepared, AtPublished
<1>7. Published'
  <2>1. ~schema.published => ~client.published
    BY DEF Published
  <2>2. RejectedUntouched'
    BY <1>2 DEF Published, RejectedUntouched
  <2>3. (client.published => \A c \in client.classes : owned[c.factory] = "frozen")'
    <3>1. CASE client'.published
      <4>1. schema.published /\ UNCHANGED client
        BY <3>1, <2>1, <1>2
      <4>2. \A c \in client.classes : c.factory \in ClientFactories /\ owned[c.factory] = "frozen"
        BY <3>1, <4>1 DEF Published, Shape
      <4> QED
        BY <4>1, <4>2, <1>1
    <3> QED
      BY <3>1
  <2>4. ((Past(AtPublished) /\ server.rebuilds => schema.published) /\ step # "installBridge")'
    BY <1>2, <1>4 DEF Past, AtPublished
  <2>5. (schema.published => engine.servers = NamesOf(server.classes) /\ engine.bridged)'
    BY <1>2 DEF Published, NamesOf
  <2>6. /\ (~client.published => engine.clients = {})'
        /\ (client.published => schema.published /\ engine.clients = NamesOf(client.classes))'
    BY <2>1, <1>2 DEF Published, NamesOf
  <2>7. (Past(AtClientPublished) /\ client.exists /\ ~client.inert => client.published)'
    BY <1>2, <1>4 DEF Published, Past, AtClientPublished
  <2> QED
    BY <2>2, <2>3, <2>4, <2>5, <2>6, <2>7, <1>2 DEF Published
<1>8. Committed'
  BY <1>2, <1>4 DEF Committed, Past, AtWork, AtPrepared, AtClientPrepared, AtPublished, AtCommitted,
     Bits, Prepared
<1> QED
  BY <1>3, <1>5, <1>6, <1>7, <1>8

\* Finalize begins: the first attempt, or none.
LEMMA FinalizeBeginsKeeps == ASSUME IInv, FinalizeBegins PROVE IInv'
<1> USE DEF Plugin
<1>1. /\ UNCHANGED <<server, client, factory, declared, owned, engine>>
      /\ schema'.published = schema.published /\ schema'.finalized = schema.finalized
      /\ schema'.attempted = TRUE /\ step' \in {"serverPrepare", "running"}
  <2>1. CASE Timely
    BY <2>1 DEF FinalizeBegins, IInv, Shape
  <2>2. CASE ~Timely
    BY <2>2 DEF FinalizeBegins, IInv, Shape
  <2> QED
    BY <2>1, <2>2
<1>2. Shape'
  BY <1>1 DEF FinalizeBegins, IInv, Shape
<1>3. ~schema.finalized /\ Blank /\ ~IsFinalized /\ ~IsFinalized' /\ step = "running"
  BY <1>1 DEF FinalizeBegins, IInv, Stages, Attempt, IsFinalized
<1>4. RejectedUntouched
  BY DEF IInv, Stages, Published
<1> USE DEF IInv, Stages
<1>5. Attempt' /\ Prepared' /\ ClientAgrees'
  BY <1>1, <1>3 DEF Attempt, Blank, Prepared, ClientAgrees, Past, AtPrepared, AtClientPrepared, AtPublished, AtWork
<1>6. Published'
  BY <1>1, <1>3, <1>4 DEF Published, Past, AtPublished, AtClientPublished, RejectedUntouched, Blank
<1>7. Committed'
  <2>1. \A p \in Props : engine.bits[p] = 0
    BY <1>4, <1>3 DEF RejectedUntouched, Blank, Shape
  <2> QED
    BY <2>1, <1>1, <1>3, <1>4 DEF Committed, Past, AtWork, AtPrepared, AtClientPrepared, AtPublished,
       AtCommitted, RejectedUntouched, Blank
<1> QED
  BY <1>2, <1>5, <1>6, <1>7

\* What Prepare of the server makes is what the client is compared with.
LEMMA ClassesPrepared ==
  ASSUME Shape, step = "serverPrepare", ServerValid,
         server'.classes = {Class(f, RequiredSize(f)) : f \in Declaring},
         Declaring' = Declaring, UNCHANGED declared
  PROVE SameClasses'
<1>1. \A c \in server'.classes : \E f \in Declaring : ClassOf(c, f)'
  BY DEF Class, ClassOf
<1>2. ASSUME NEW f \in Declaring PROVE \E c \in server'.classes : ClassOf(c, f)'
  <2>1. Class(f, RequiredSize(f)) \in server'.classes
    OBVIOUS
  <2> QED
    BY <2>1 DEF Class, ClassOf
<1>3. \A f, g \in Declaring : declared[f].name = declared[g].name => f = g
  BY DEF ServerValid, Buildable, Declaring
<1> QED
  BY <1>1, <1>2, <1>3 DEF SameClasses

\* Finalize prepares the server side: its classes are those of the declarations.
LEMMA ServerPrepareKeeps ==
  ASSUME IInv, NEW fits \in BOOLEAN, ServerPrepare(fits) PROVE IInv'
<1>1. /\ step = "serverPrepare" /\ ~IsFinalized /\ Blank /\ ~server.rebuilds
      /\ schema.attempted /\ ~schema.finalized
      /\ UNCHANGED <<client, declared, owned, engine, entities>>
  BY DEF ServerPrepare, IInv, Stages, Attempt, AtWork, IsFinalized, Blank
<1>2. RejectedUntouched /\ engine.clients = {}
  BY <1>1 DEF IInv, Stages, Published, Blank
<1>3. CASE ~Rebuilds /\ AllDeclared
  <2>1. /\ server'.attempted = TRUE /\ server'.rebuilds = server.rebuilds
        /\ server'.classes = server.classes /\ server'.patches = server.patches
        /\ UNCHANGED <<schema, factory>> /\ step' = "clientPrepare"
    BY <1>3, <1>1 DEF ServerPrepare, IInv, Shape
  <2>2. Shape'
    BY <1>1, <1>3, <2>1 DEF ServerPrepare, IInv, Shape
  <2>3. server.patches = {} /\ (~client.exists \/ schema.inert)
    BY <1>3 DEF Rebuilds
  <2>4. Attempt' /\ Prepared' /\ ClientAgrees'
    BY <1>1, <2>1, <2>3 DEF Attempt, Blank, Prepared, ClientAgrees, Past, AtPrepared, AtClientPrepared,
       AtPublished, AtWork, IsFinalized
  <2>5. Published'
    BY <1>1, <1>2, <2>1 DEF Published, Past, AtPublished, AtClientPublished, RejectedUntouched,
       IsFinalized, Blank
  <2>6. Committed'
    BY <1>1, <1>2, <2>1 DEF IInv, Stages, Committed, Past, AtWork, AtPrepared, AtClientPrepared, AtPublished,
       AtCommitted, IsFinalized
  <2> QED
    BY <2>2, <2>4, <2>5, <2>6 DEF IInv, Stages
<1>4. CASE ~(~Rebuilds /\ AllDeclared) /\ ServerValid /\ fits
  <2>1. /\ server'.attempted = TRUE /\ server'.rebuilds = TRUE
        /\ server'.classes = {Class(f, RequiredSize(f)) : f \in Declaring}
        /\ server'.patches = server.patches /\ server'.planned = server.patches
        /\ UNCHANGED schema /\ step' = "clientPrepare"
        /\ factory' = [f \in Factories |->
             IF f \in Declaring THEN [factory[f] EXCEPT !.final = BaseSize(f) + DescSize(f)] ELSE factory[f]]
    BY <1>4, <1>1 DEF ServerPrepare, IInv, Shape
  <2>2. Shape'
    <3>1. DOMAIN factory' = Factories /\ \A f \in Factories : DOMAIN factory'[f] = DOMAIN factory[f]
      BY <2>1
    <3>2. DOMAIN server' = DOMAIN server
      BY <1>4, <1>1 DEF ServerPrepare
    <3>3. \A c \in server'.classes : "name" \in DOMAIN c
      BY <2>1 DEF Class
    <3> QED
      BY <3>1, <3>2, <3>3, <1>1, <2>1 DEF IInv, Shape
  <2>3. Declaring' = Declaring
    <3>1. \A f \in Factories : factory'[f].installed = factory[f].installed
      BY <2>1 DEF IInv, Shape
    <3> QED
      BY <3>1, <1>1 DEF Declaring, Installed, HasDeclaration
  <2>4. SameClasses'
    BY <2>1, <2>3, <1>1, <1>4, ClassesPrepared DEF IInv
  <2>5. Attempt' /\ Prepared' /\ ClientAgrees'
    BY <1>1, <2>1, <2>4 DEF Attempt, Blank, Prepared, ClientAgrees, Past, AtPrepared, AtClientPrepared,
       AtPublished, AtWork, IsFinalized
  <2>6. Published'
    BY <1>1, <1>2, <2>1 DEF Published, Past, AtPublished, AtClientPublished, RejectedUntouched,
       IsFinalized, Blank
  <2>7. Committed'
    BY <1>1, <1>2, <2>1 DEF IInv, Stages, Committed, Past, AtWork, AtPrepared, AtClientPrepared, AtPublished,
       AtCommitted, IsFinalized
  <2> QED
    BY <2>2, <2>5, <2>6, <2>7 DEF IInv, Stages
<1>5. CASE ~(~Rebuilds /\ AllDeclared) /\ ~(ServerValid /\ fits)
  <2>1. /\ server'.rebuilds = server.rebuilds /\ server'.classes = server.classes
        /\ UNCHANGED factory /\ step' = "running"
        /\ schema'.attempted = schema.attempted /\ schema'.finalized = schema.finalized
        /\ schema'.published = schema.published
    <3>1. /\ server' = [server EXCEPT !.attempted = TRUE, !.failed = TRUE]
          /\ schema' = [schema EXCEPT !.failed = TRUE]
          /\ step' = IF schema.published THEN "ended" ELSE "running"
          /\ UNCHANGED factory
      BY <1>5 DEF ServerPrepare, Fails
    <3>2. ~schema.published
      BY <1>1 DEF Blank
    <3> QED
      BY <3>1, <3>2 DEF IInv, Shape
  <2>2. Shape'
    BY <1>1, <1>5, <2>1 DEF ServerPrepare, Fails, IInv, Shape
  <2>3. Attempt' /\ Prepared' /\ ClientAgrees'
    BY <1>1, <2>1 DEF Attempt, Blank, Prepared, ClientAgrees, Past, AtPrepared, AtClientPrepared,
       AtPublished, AtWork, IsFinalized
  <2>4. Published'
    BY <1>1, <1>2, <2>1 DEF Published, Past, AtPublished, AtClientPublished, RejectedUntouched,
       IsFinalized, Blank
  <2>5. Committed'
    BY <1>1, <1>2, <2>1 DEF IInv, Stages, Committed, Past, AtWork, AtPrepared, AtClientPrepared, AtPublished,
       AtCommitted, IsFinalized
  <2> QED
    BY <2>2, <2>3, <2>4, <2>5 DEF IInv, Stages
<1> QED
  BY <1>3, <1>4, <1>5

\* A class without what differs between the sides.
Bare(c) == [c EXCEPT !.factory = None, !.required = 0]

\* What is left of a class without its factory and its required size.
LEMMA BareClass ==
  ASSUME NEW c, NEW name, NEW base, NEW f, NEW size
  PROVE c = [name |-> name, base |-> base, factory |-> f, required |-> size] =>
          Bare(c) = [name |-> name, base |-> base, factory |-> None, required |-> 0]
<1> DEFINE R == [name : {name}, base : {base}, factory : {f, None}, required : {size, 0}]
<1> SUFFICES ASSUME c = [name |-> name, base |-> base, factory |-> f, required |-> size]
             PROVE Bare(c) = [name |-> name, base |-> base, factory |-> None, required |-> 0]
  OBVIOUS
<1>1. c \in R
  OBVIOUS
<1>2. Bare(c) \in R /\ Bare(c).factory = None /\ Bare(c).required = 0
  BY ONLY <1>1 DEF Bare
<1>3. \A r \in R : r.factory = None /\ r.required = 0 =>
        r = [name |-> name, base |-> base, factory |-> None, required |-> 0]
  OBVIOUS
<1> QED
  <2> HIDE DEF R
  <2> QED
    BY <1>2, <1>3

\* Both sides declare the same classes.
LEMMA SidesDeclareSame ==
  ASSUME SameClasses, ClientValid,
         client'.classes = {Class(c, 0) : c \in ClientDeclaring}, UNCHANGED server
  PROVE ({[c EXCEPT !.factory = None, !.required = 0] : c \in client.classes} =
         {[c EXCEPT !.factory = None, !.required = 0] : c \in server.classes})'
<1>1. ASSUME NEW c \in ClientDeclaring, NEW s \in server.classes, NEW f \in Declaring,
             ClassOf(s, f), declared[f] = declared[c]
      PROVE Bare(Class(c, 0)) = Bare(s)
  <2>1. Bare(Class(c, 0)) =
          [name |-> declared[c].name, base |-> declared[c].base, factory |-> None, required |-> 0]
    <3>1. Class(c, 0) = [name |-> declared[c].name, base |-> declared[c].base, factory |-> c,
                         required |-> 0]
      BY DEF Class
    <3> QED
      BY ONLY <3>1, BareClass
  <2>2. Bare(s) =
          [name |-> declared[f].name, base |-> declared[f].base, factory |-> None, required |-> 0]
    <3>1. s = [name |-> declared[f].name, base |-> declared[f].base, factory |-> f,
               required |-> s.required]
      BY <1>1 DEF ClassOf
    <3> QED
      BY ONLY <3>1, BareClass
  <2> QED
    BY <2>1, <2>2, <1>1
<1>2. ASSUME NEW c \in ClientDeclaring
      PROVE \E s \in server.classes : Bare(Class(c, 0)) = Bare(s)
  <2>1. PICK f \in Declaring : declared[f] = declared[c]
    BY DEF ClientValid
  <2>2. PICK s \in server.classes : ClassOf(s, f)
    BY DEF SameClasses
  <2> QED
    BY <2>1, <2>2, <1>1
<1>3. ASSUME NEW s \in server.classes
      PROVE \E c \in ClientDeclaring : Bare(Class(c, 0)) = Bare(s)
  <2>1. PICK f \in Declaring : ClassOf(s, f)
    BY DEF SameClasses
  <2>2. PICK c \in ClientDeclaring : declared[c].name = declared[f].name
    BY DEF ClientValid
  <2>3. PICK g \in Declaring : declared[g] = declared[c]
    BY DEF ClientValid
  <2>4. g = f
    BY <2>2, <2>3 DEF SameClasses
  <2> QED
    BY <2>1, <2>3, <2>4, <1>1
<1>4. {Bare(c) : c \in client'.classes} = {Bare(s) : s \in server.classes}
  BY <1>2, <1>3
<1>5. server'.classes = server.classes
  OBVIOUS
<1> QED
  BY <1>4, <1>5 DEF Bare

\* Finalize prepares the client side: its classes are those of the server.
LEMMA ClientPrepareKeeps ==
  ASSUME IInv, NEW fits \in BOOLEAN, ClientPrepare(fits) PROVE IInv'
<1>1. /\ step = "clientPrepare" /\ ~IsFinalized /\ schema.attempted /\ ~schema.finalized
      /\ UNCHANGED <<server, factory, declared, owned, engine, entities>>
  BY DEF ClientPrepare, IInv, Stages, Attempt, AtWork, AtPrepared, IsFinalized
<1>2. /\ ~schema.published /\ ~client.published /\ ~client.inert
      /\ server.attempted
      /\ server.rebuilds => server.planned = server.patches /\ SameClasses
      /\ ~server.rebuilds =>
            server.patches = {} /\ server.classes = {} /\ (~client.exists \/ schema.inert)
  BY <1>1 DEF IInv, Stages, Prepared, Past, AtPrepared
<1>3. RejectedUntouched /\ engine.clients = {}
  BY <1>2 DEF IInv, Stages, Published
<1>4. engine.recvs = "stock" /\ engine.sends = "stock" /\ \A p \in Props : engine.bits[p] = 0
  BY <1>2, <1>3 DEF RejectedUntouched
<1>5. ASSUME client'.exists = client.exists, client'.published = client.published, Shape',
             UNCHANGED schema, step' = "bridge", ClientAgrees'
      PROVE IInv'
  <2>1. Attempt' /\ Prepared'
    BY <1>1, <1>2, <1>5 DEF Attempt, Prepared, Past, AtPrepared, AtClientPrepared,
       AtPublished, AtWork, IsFinalized
  <2>2. Published'
    BY <1>1, <1>2, <1>3, <1>5 DEF Published, Past, AtPublished, AtClientPublished, RejectedUntouched,
       IsFinalized
  <2>3. Committed'
    BY <1>1, <1>4, <1>5 DEF Committed, Past, AtWork, AtPrepared, AtClientPrepared, AtPublished,
       AtCommitted, IsFinalized
  <2> QED
    BY <1>5, <2>1, <2>2, <2>3 DEF IInv, Stages
<1>6. CASE ~client.exists
  <2>1. UNCHANGED <<schema, client>> /\ step' = "bridge"
    BY <1>6, <1>1 DEF ClientPrepare
  <2>2. Shape'
    BY <2>1, <1>1 DEF IInv, Shape
  <2>3. ClientAgrees'
    BY <2>1, <1>6 DEF ClientAgrees
  <2> QED
    BY <2>1, <2>2, <2>3, <1>5
<1>7. CASE client.exists /\ schema.inert
  <2>1. /\ client'.inert = TRUE /\ client'.prepared = TRUE /\ client'.exists = client.exists
        /\ client'.published = client.published
        /\ UNCHANGED schema /\ step' = "bridge"
    BY <1>7, <1>1 DEF ClientPrepare, IInv, Shape
  <2>2. Shape'
    BY <1>1, <1>7 DEF ClientPrepare, IInv, Shape
  <2>3. ClientAgrees'
    BY <1>7, <2>1 DEF ClientAgrees
  <2> QED
    BY <2>1, <2>2, <2>3, <1>5
<1>8. CASE client.exists /\ ~schema.inert /\ ClientValid /\ fits
  <2>1. /\ client' = [client EXCEPT !.prepared = TRUE, !.classes = {Class(c, 0) : c \in ClientDeclaring}]
        /\ UNCHANGED schema /\ step' = "bridge"
    BY <1>8, <1>1 DEF ClientPrepare
  <2>2. /\ client'.classes = {Class(c, 0) : c \in ClientDeclaring}
        /\ client'.prepared = TRUE /\ client'.exists = client.exists /\ client'.inert = client.inert
        /\ client'.published = client.published
    BY <2>1 DEF IInv, Shape
  <2>3. Shape'
    BY <1>1, <2>1, <2>2 DEF IInv, Shape, Class, ClientDeclaring
  <2>4. server.rebuilds /\ SameClasses
    BY <1>2, <1>8
  <2>5. ({[c EXCEPT !.factory = None, !.required = 0] : c \in client.classes} =
         {[c EXCEPT !.factory = None, !.required = 0] : c \in server.classes})'
    BY <2>4, <2>2, <1>8, <1>1, SidesDeclareSame
  <2>6. client.inert <=> schema.inert
    BY <1>2, <1>8
  <2>7. ClientAgrees'
    BY <2>1, <2>2, <2>5, <2>6 DEF ClientAgrees
  <2> QED
    BY <2>1, <2>2, <2>3, <2>7, <1>5
<1>9. CASE client.exists /\ ~schema.inert /\ ~(ClientValid /\ fits)
  <2>1. /\ client'.classes = client.classes /\ client'.exists = client.exists
        /\ client'.published = client.published /\ client'.inert = client.inert
        /\ step' = "running"
        /\ schema'.attempted = schema.attempted /\ schema'.finalized = schema.finalized
        /\ schema'.published = schema.published
    <3>1. /\ client' = [client EXCEPT !.failed = TRUE]
          /\ schema' = [schema EXCEPT !.failed = TRUE]
          /\ step' = IF schema.published THEN "ended" ELSE "running"
      BY <1>9 DEF ClientPrepare, Fails
    <3> QED
      BY <3>1, <1>2 DEF IInv, Shape
  <2>2. Shape'
    BY <1>1, <1>9, <2>1 DEF ClientPrepare, Fails, IInv, Shape
  <2>3. Attempt' /\ Prepared' /\ ClientAgrees'
    BY <1>1, <2>1 DEF Attempt, Prepared, ClientAgrees, Past, AtPrepared, AtClientPrepared,
       AtPublished, AtWork, IsFinalized
  <2>4. Published'
    BY <1>1, <1>2, <1>3, <2>1 DEF Published, Past, AtPublished, AtClientPublished, RejectedUntouched,
       IsFinalized
  <2>5. Committed'
    BY <1>1, <1>4, <2>1 DEF Committed, Past, AtWork, AtPrepared, AtClientPrepared, AtPublished,
       AtCommitted, IsFinalized
  <2> QED
    BY <2>2, <2>3, <2>4, <2>5 DEF IInv, Stages
<1> QED
  BY <1>6, <1>7, <1>8, <1>9

\* What a step of Finalize that fails leaves.
LEMMA FailsKeeps ==
  ASSUME IInv, Shape', step \in AtClientPrepared, Fails, client'.classes = client.classes,
         client'.published = client.published, server'.classes = server.classes,
         server'.rebuilds = server.rebuilds, RejectedUntouched', schema.published => step # "installBridge",
         engine'.servers = engine.servers, engine'.clients = engine.clients,
         engine'.bridged = engine.bridged, UNCHANGED owned
  PROVE IInv'
<1>1. /\ schema.attempted /\ ~schema.finalized
  BY DEF IInv, Stages, Attempt, AtWork, AtPrepared
<1>2. /\ schema'.attempted = schema.attempted /\ schema'.finalized = schema.finalized
      /\ schema'.published = schema.published /\ step' \in {"running", "ended"}
  BY DEF Fails, IInv, Shape
<1>3. ~IsFinalized'
  BY <1>1, <1>2 DEF IsFinalized
<1>4. Attempt' /\ Prepared' /\ ClientAgrees' /\ Committed'
  BY <1>1, <1>2, <1>3 DEF Attempt, Prepared, ClientAgrees, Committed, Past, AtPrepared, AtClientPrepared,
     AtPublished, AtWork, AtCommitted
<1>5. Published'
  BY <1>2, <1>3 DEF IInv, Stages, Published, Past, AtPublished, AtClientPublished, NamesOf
<1> QED
  BY <1>4, <1>5 DEF IInv, Stages

\* Finalize prepares the arrays of the bridge.
LEMMA PrepareBridgeKeeps ==
  ASSUME IInv, NEW fits \in BOOLEAN, PrepareBridge(fits) PROVE IInv'
<1>1. step = "bridge" /\ UNCHANGED <<server, client, factory, declared, owned, engine, entities>>
  BY DEF PrepareBridge
<1>2. CASE server.rebuilds /\ ~schema.inert /\ ~fits
  <2>1. Fails
    BY <1>2 DEF PrepareBridge
  <2>2. Shape' /\ RejectedUntouched'
    BY <2>1, <1>1 DEF IInv, Stages, Published, Shape, Fails, RejectedUntouched
  <2> QED
    BY <2>1, <2>2, <1>1, FailsKeeps DEF AtClientPrepared
<1>3. CASE ~(server.rebuilds /\ ~schema.inert /\ ~fits)
  <2>1. step' = "serverPublish" /\ UNCHANGED schema
    BY <1>3 DEF PrepareBridge
  <2>2. Shape'
    BY <2>1, <1>1 DEF IInv, Shape
  <2>3. Attempt' /\ Prepared' /\ ClientAgrees' /\ Committed'
    BY <2>1, <1>1 DEF IInv, Stages, Attempt, Prepared, ClientAgrees, Committed, Past, AtPrepared,
       AtClientPrepared, AtPublished, AtWork, AtCommitted, IsFinalized, Bits
  <2>4. Published'
    BY <2>1, <1>1 DEF IInv, Stages, Published, Past, AtPublished, AtClientPublished, RejectedUntouched,
       IsFinalized, NamesOf
  <2> QED
    BY <2>2, <2>3, <2>4 DEF IInv, Stages
<1> QED
  BY <1>2, <1>3

\* Finalize publishes the server classes, if there are any.
LEMMA ServerPublishKeeps ==
  ASSUME IInv, NEW retained \in BOOLEAN, ServerPublish(retained) PROVE IInv'
<1>1. /\ step = "serverPublish" /\ UNCHANGED <<client, factory, declared, owned, entities>>
      /\ ~IsFinalized /\ schema.attempted /\ ~schema.finalized
  BY DEF ServerPublish, IInv, Stages, Attempt, AtWork, AtPrepared, AtClientPrepared, IsFinalized
<1>2. /\ ~schema.published /\ ~client.published /\ RejectedUntouched /\ engine.clients = {}
  BY <1>1 DEF IInv, Stages, Published
<1>3. CASE ~server.rebuilds
  <2>1. step' = "clientPublish" /\ UNCHANGED <<schema, server, engine>>
    BY <1>3, <1>1 DEF ServerPublish
  <2>2. Shape'
    BY <2>1, <1>1 DEF IInv, Shape
  <2>3. Attempt' /\ Prepared' /\ ClientAgrees' /\ Committed'
    BY <2>1, <1>1 DEF IInv, Stages, Attempt, Prepared, ClientAgrees, Committed, Past, AtPrepared,
       AtClientPrepared, AtPublished, AtWork, AtCommitted, IsFinalized, Bits
  <2>4. Published'
    BY <2>1, <1>1, <1>2, <1>3 DEF Published, Past, AtPublished, AtClientPublished, RejectedUntouched,
       IsFinalized
  <2> QED
    BY <2>2, <2>3, <2>4 DEF IInv, Stages
<1>4. CASE server.rebuilds /\ retained
  <2>1. /\ schema'.published = TRUE /\ schema'.inert = schema.inert /\ schema'.failed = schema.failed
        /\ schema'.finalized = schema.finalized /\ schema'.attempted = schema.attempted
        /\ server'.classes = server.classes /\ server'.rebuilds = server.rebuilds
        /\ server'.planned = server.planned /\ server'.patches = server.patches
        /\ server'.attempted = server.attempted
        /\ engine'.servers = NamesOf(server.classes) /\ engine'.clients = engine.clients
        /\ engine'.sends = engine.sends /\ engine'.recvs = engine.recvs /\ engine'.bits = engine.bits
        /\ step' = "installBridge"
    <3>1. /\ server' = [server EXCEPT !.published = TRUE]
          /\ schema' = [schema EXCEPT !.published = TRUE]
          /\ engine' = [engine EXCEPT !.servers = NamesOf(server.classes)]
          /\ step' = "installBridge"
      BY <1>4 DEF ServerPublish
    <3> QED
      BY <3>1 DEF IInv, Shape
  <2>2. Shape'
    BY <1>4, <1>1 DEF ServerPublish, IInv, Shape
  <2>3. ~IsFinalized'
    BY <2>1, <1>1 DEF IsFinalized
  <2>4. Attempt' /\ Prepared' /\ ClientAgrees' /\ Committed'
    <3>1. Attempt' /\ Prepared'
      BY <2>1, <2>3, <1>1 DEF IInv, Stages, Attempt, Prepared, Past, AtPrepared,
         AtClientPrepared, AtPublished, AtWork
    <3>2. ClientAgrees'
      BY <2>1, <2>3, <1>1 DEF IInv, Stages, ClientAgrees, Past, AtClientPrepared, AtPublished
    <3>3. Committed'
      BY <2>1, <2>3, <1>1 DEF IInv, Stages, Committed, Past, AtPrepared,
         AtClientPrepared, AtPublished, AtWork, AtCommitted
    <3> QED
      BY <3>1, <3>2, <3>3
  <2>5. Published'
    BY <2>1, <2>3, <1>1, <1>2, <1>4 DEF Published, Past, AtPublished, AtClientPublished, RejectedUntouched,
       NamesOf
  <2> QED
    BY <2>2, <2>4, <2>5 DEF IInv, Stages
<1>5. CASE server.rebuilds /\ ~retained
  <2>1. Fails /\ UNCHANGED <<server, engine>>
    BY <1>5, <1>1 DEF ServerPublish
  <2>2. Shape' /\ RejectedUntouched'
    BY <2>1, <1>1 DEF IInv, Stages, Published, Shape, Fails, RejectedUntouched
  <2> QED
    BY <2>1, <2>2, <1>1, FailsKeeps DEF AtClientPrepared
<1> QED
  BY <1>3, <1>4, <1>5

\* Finalize installs the bridge.
LEMMA InstallBridgeKeeps == ASSUME IInv, InstallBridge PROVE IInv'
<1>1. /\ step = "installBridge" /\ step' = "clientPublish"
      /\ UNCHANGED <<schema, server, client, factory, declared, owned, entities>>
      /\ engine'.bridged = TRUE
      /\ engine'.servers = engine.servers /\ engine'.clients = engine.clients
      /\ engine'.sends = engine.sends /\ engine'.recvs = engine.recvs /\ engine'.bits = engine.bits
  BY DEF InstallBridge, IInv, Shape
<1>2. Shape'
  BY <1>1 DEF InstallBridge, IInv, Shape
<1>3. schema.published
  BY <1>1 DEF IInv, Stages, Published, Past, AtPublished
<1>4. Attempt' /\ Prepared' /\ ClientAgrees' /\ Committed'
  <2>1. IsFinalized' = IsFinalized
    BY <1>1 DEF IsFinalized
  <2>2. Attempt' /\ Prepared'
    BY <2>1, <1>1 DEF IInv, Stages, Attempt, Blank, Prepared, Past, AtPrepared, AtClientPrepared,
       AtPublished, AtWork
  <2>3. ClientAgrees'
    BY <2>1, <1>1 DEF IInv, Stages, ClientAgrees, Past, AtClientPrepared, AtPublished
  <2>4. Committed'
    BY <2>1, <1>1 DEF IInv, Stages, Committed, Past, AtPrepared, AtClientPrepared, AtPublished, AtWork,
       AtCommitted, Bits
  <2> QED
    BY <2>2, <2>3, <2>4
<1>5. Published'
  BY <1>1, <1>3 DEF IInv, Stages, Published, Past, AtPublished, AtClientPublished, RejectedUntouched,
     IsFinalized, NamesOf
<1> QED
  BY <1>2, <1>4, <1>5 DEF IInv, Stages

\* Finalize publishes the client classes, whose factories are frozen with them.
LEMMA ClientPublishKeeps == ASSUME IInv, ClientPublish PROVE IInv'
<1>1. /\ step = "clientPublish" /\ step' = "serverCommit"
      /\ UNCHANGED <<schema, server, factory, declared, entities>>
      /\ ~IsFinalized /\ ~IsFinalized' /\ schema.attempted /\ ~schema.finalized
  BY DEF ClientPublish, IInv, Stages, Attempt, AtWork, AtPrepared, AtClientPrepared, AtPublished, IsFinalized
<1>2. CASE client.exists /\ client.prepared /\ ~client.inert
  <2>1. /\ client'.published = TRUE /\ client'.classes = client.classes
        /\ client'.exists = client.exists /\ client'.inert = client.inert
        /\ client'.prepared = client.prepared
        /\ engine'.clients = NamesOf(client.classes) /\ engine'.servers = engine.servers
        /\ engine'.sends = engine.sends /\ engine'.recvs = engine.recvs /\ engine'.bits = engine.bits
        /\ engine'.bridged = engine.bridged
        /\ owned' = [c \in ClientFactories |->
             IF c \in {d.factory : d \in client.classes} THEN "frozen" ELSE owned[c]]
    BY <1>2 DEF ClientPublish, IInv, Shape
  <2>2. Shape'
    BY <1>1, <1>2, <2>1 DEF ClientPublish, IInv, Shape
  <2>3. server.rebuilds /\ schema.published
    <3>1. ~schema.inert
      BY <1>1, <1>2 DEF IInv, Stages, ClientAgrees, Past, AtClientPrepared, AtPublished
    <3>2. server.rebuilds
      BY <3>1, <1>1, <1>2 DEF IInv, Stages, Prepared, Past, AtPrepared, AtClientPrepared, AtPublished
    <3> QED
      BY <3>2, <1>1 DEF IInv, Stages, Published, Past, AtPublished
  <2>4. Attempt' /\ Prepared'
    BY <2>1, <1>1 DEF IInv, Stages, Attempt, Prepared, Past, AtPrepared, AtClientPrepared, AtPublished, AtWork
  <2>5. ClientAgrees'
    BY <2>1, <1>1 DEF IInv, Stages, ClientAgrees, Past, AtClientPrepared, AtPublished
  <2>6. \A c \in client'.classes : owned'[c.factory] = "frozen"
    BY <2>1 DEF IInv, Shape
  <2>7. Published'
    BY <2>1, <2>3, <2>6, <1>1 DEF IInv, Stages, Published, Past, AtPublished, AtClientPublished,
       RejectedUntouched, NamesOf
  <2>8. Committed'
    BY <2>1, <1>1 DEF IInv, Stages, Committed, Past, AtPrepared, AtClientPrepared, AtPublished, AtWork,
       AtCommitted
  <2> QED
    BY <2>2, <2>4, <2>5, <2>7, <2>8 DEF IInv, Stages
<1>3. CASE ~(client.exists /\ client.prepared /\ ~client.inert)
  <2>1. UNCHANGED <<client, engine, owned>>
    BY <1>3 DEF ClientPublish
  <2>2. Shape'
    BY <1>1, <2>1 DEF IInv, Shape
  <2>3. ~client.exists \/ client.inert
    BY <1>1, <1>3 DEF IInv, Stages, ClientAgrees, Past, AtClientPrepared, AtPublished
  <2>4. Attempt' /\ Prepared' /\ ClientAgrees'
    BY <2>1, <1>1 DEF IInv, Stages, Attempt, Prepared, ClientAgrees, Past, AtPrepared, AtClientPrepared,
       AtPublished, AtWork
  <2>5. Published'
    BY <2>1, <2>3, <1>1 DEF IInv, Stages, Published, Past, AtPublished, AtClientPublished,
       RejectedUntouched, NamesOf
  <2>6. Committed'
    BY <2>1, <1>1 DEF IInv, Stages, Committed, Past, AtPrepared, AtClientPrepared, AtPublished, AtWork,
       AtCommitted
  <2> QED
    BY <2>2, <2>4, <2>5, <2>6 DEF IInv, Stages
<1> QED
  BY <1>2, <1>3

\* The bits after all the planned patches are those of the patches.
LEMMA BitsArePatches ==
  ASSUME server.planned = server.patches, \A p \in Props : engine.bits[p] = 0
  PROVE \A p \in Props : BitsAfter(PatchedProps)[p] = Bits(server.patches)[p]
BY DEF BitsAfter, PatchedProps, Bits

\* Finalize patches the bits and builds the send tables again.
LEMMA ServerCommitKeeps ==
  ASSUME IInv, NEW outcome \in {"changed", "rejected", "differs", "committed"}, ServerCommit(outcome)
  PROVE IInv'
<1>1. /\ step = "serverCommit" /\ UNCHANGED <<client, declared, owned, entities>>
      /\ ~IsFinalized /\ schema.attempted /\ ~schema.finalized
  BY DEF ServerCommit, IInv, Stages, Attempt, AtWork, AtPrepared, AtClientPrepared, AtPublished, IsFinalized
<1>2. /\ engine.recvs = "stock" /\ engine.sends = "stock" /\ \A p \in Props : engine.bits[p] = 0
  BY <1>1 DEF IInv, Stages, Committed, AtWork, AtPrepared, AtClientPrepared, AtPublished, AtCommitted
<1>3. CASE ~server.rebuilds
  <2>1. /\ server'.finalized = TRUE /\ server'.classes = server.classes /\ server'.patches = server.patches
        /\ server'.planned = server.planned /\ server'.rebuilds = server.rebuilds
        /\ server'.attempted = server.attempted
        /\ step' = "clientCommit" /\ UNCHANGED <<schema, factory, engine>>
    BY <1>1, <1>3 DEF ServerCommit, IInv, Shape
  <2>2. Shape'
    BY <1>1, <1>3, <2>1 DEF ServerCommit, IInv, Shape
  <2>3. ~IsFinalized' /\ server.patches = {}
    BY <2>1, <1>1, <1>3 DEF IInv, Stages, Prepared, Past, AtPrepared, AtClientPrepared, AtPublished, IsFinalized
  <2>4. Attempt' /\ Prepared' /\ ClientAgrees'
    BY <2>1, <2>3, <1>1 DEF IInv, Stages, Attempt, Prepared, ClientAgrees, Past, AtPrepared, AtClientPrepared,
       AtPublished, AtWork
  <2>5. Published'
    BY <2>1, <2>3, <1>1 DEF IInv, Stages, Published, Past, AtPublished, AtClientPublished,
       RejectedUntouched, NamesOf
  <2>6. Committed'
    BY <2>1, <2>3, <1>2 DEF Committed, Past, AtPrepared, AtClientPrepared, AtPublished, AtWork, AtCommitted, Bits
  <2> QED
    BY <2>2, <2>4, <2>5, <2>6 DEF IInv, Stages
<1>4. CASE server.rebuilds
  <2>1. schema.published /\ server.planned = server.patches
    BY <1>1, <1>4 DEF IInv, Stages, Published, Prepared, Past, AtPublished, AtPrepared, AtClientPrepared
  <2>2. PICK applied \in SUBSET PatchedProps :
          /\ applied = PatchedProps <=> outcome # "changed"
          /\ engine' = [engine EXCEPT !.bits = BitsAfter(applied),
               !.sends = IF outcome \in {"changed", "rejected"} THEN "down" ELSE "custom"]
    BY <1>1, <1>4 DEF ServerCommit
  <2>3. /\ engine'.servers = engine.servers /\ engine'.clients = engine.clients
        /\ engine'.recvs = engine.recvs /\ engine'.bridged = engine.bridged
        /\ engine'.bits = BitsAfter(applied) /\ DOMAIN engine' = DOMAIN engine
        /\ engine'.sends = IF outcome \in {"changed", "rejected"} THEN "down" ELSE "custom"
    BY <2>2 DEF IInv, Shape
  <2>4. factory' = factory \/
          factory' = [f \in Factories |-> [factory[f] EXCEPT !.frozen = @ \/ f \in Frozen,
                                             !.class = IF f \in Built THEN declared[f].name ELSE @]]
    BY <1>1, <1>4 DEF ServerCommit
  <2>5. DOMAIN factory' = Factories /\ \A f \in Factories : DOMAIN factory'[f] = DOMAIN factory[f]
    <3>1. CASE factory' = factory
      BY <3>1 DEF IInv, Shape
    <3>2. CASE factory' # factory
      <4>1. DOMAIN factory' = Factories
        BY <3>2, <2>4
      <4>2. ASSUME NEW f \in Factories PROVE DOMAIN factory'[f] = DOMAIN factory[f]
        <5>1. factory'[f] = [factory[f] EXCEPT !.frozen = @ \/ f \in Frozen,
                                               !.class = IF f \in Built THEN declared[f].name ELSE @]
          BY <3>2, <2>4
        <5>2. DOMAIN [factory[f] EXCEPT !.frozen = @ \/ f \in Frozen,
                                        !.class = IF f \in Built THEN declared[f].name ELSE @] =
              DOMAIN factory[f]
          OBVIOUS
        <5> QED
          BY <5>1, <5>2
      <4> QED
        BY <4>1, <4>2
    <3> QED
      BY <3>1, <3>2
  <2>6. CASE outcome = "committed"
    <3>1. /\ server'.finalized = TRUE /\ server'.classes = server.classes /\ server'.patches = server.patches
          /\ server'.planned = server.planned /\ server'.rebuilds = server.rebuilds
          /\ server'.attempted = server.attempted /\ DOMAIN server' = DOMAIN server
          /\ step' = "clientCommit" /\ UNCHANGED schema
      <4>1. server' = [server EXCEPT !.finalized = TRUE] /\ step' = "clientCommit" /\ UNCHANGED schema
        BY <1>4, <2>6 DEF ServerCommit
      <4> QED
        BY <4>1 DEF IInv, Shape
    <3>2. Shape'
      BY <1>1, <2>3, <2>5, <3>1 DEF IInv, Shape, BitsAfter
    <3>3. ~IsFinalized'
      BY <3>1, <1>1 DEF IsFinalized
    <3>4. Attempt' /\ Prepared' /\ ClientAgrees'
      BY <3>1, <3>3, <1>1 DEF IInv, Stages, Attempt, Prepared, ClientAgrees, Past, AtPrepared, AtClientPrepared,
         AtPublished, AtWork
    <3>5. Published'
      BY <2>1, <2>3, <3>1, <3>3, <1>1 DEF IInv, Stages, Published, Past, AtPublished, AtClientPublished,
         RejectedUntouched, NamesOf
    <3>6. \A p \in Props : engine'.bits[p] = Bits(server.patches)[p]
      BY <2>1, <2>2, <2>3, <2>6, <1>2, BitsArePatches
    <3>7. Bits(server.patches)' = Bits(server.patches)
      BY <3>1 DEF Bits
    <3>8. Committed'
      BY <2>3, <2>6, <3>1, <3>3, <3>6, <3>7, <1>2 DEF Committed, Past, AtPrepared, AtClientPrepared,
         AtPublished, AtWork, AtCommitted
    <3> QED
      BY <3>2, <3>4, <3>5, <3>8 DEF IInv, Stages
  <2>7. CASE outcome # "committed"
    <3>1. server' = [server EXCEPT !.failed = TRUE] /\ Fails
      BY <1>1, <1>4, <2>7 DEF ServerCommit
    <3>2. /\ server'.classes = server.classes /\ server'.rebuilds = server.rebuilds
          /\ DOMAIN server' = DOMAIN server /\ DOMAIN schema' = DOMAIN schema
          /\ schema'.published = schema.published
      BY <3>1 DEF IInv, Shape, Fails
    <3>3. Shape'
      BY <1>1, <2>3, <2>5, <3>2 DEF IInv, Shape, BitsAfter
    <3>4. RejectedUntouched'
      BY <2>1, <3>2 DEF RejectedUntouched
    <3> QED
      BY <1>1, <2>3, <3>1, <3>2, <3>3, <3>4, FailsKeeps DEF AtClientPrepared, AtPublished
  <2> QED
    BY <2>6, <2>7
<1> QED
  BY <1>3, <1>4

\* Finalize builds the receive tables again and ends.
LEMMA ClientCommitKeeps ==
  ASSUME IInv, NEW outcome \in {"rejected", "differs", "committed"}, ClientCommit(outcome)
  PROVE IInv'
<1>1. /\ step = "clientCommit" /\ UNCHANGED <<server, factory, declared, owned, entities>>
      /\ schema.attempted /\ ~schema.finalized
  BY DEF ClientCommit, IInv, Stages, Attempt, AtWork, AtPrepared, AtClientPrepared, AtPublished
<1>2. /\ engine.recvs = "stock" /\ server.finalized /\ engine.sends # "down"
      /\ \A p \in Props : engine.bits[p] = Bits(server.patches)[p]
  BY <1>1 DEF IInv, Stages, Committed, AtWork, AtPrepared, AtClientPrepared, AtPublished, AtCommitted, Past
<1>3. client.exists => client.prepared /\ (client.inert <=> schema.inert)
  BY <1>1 DEF IInv, Stages, ClientAgrees, Past, AtClientPrepared, AtPublished
<1>4. CASE ~client.exists \/ client.inert
  <2>1. /\ client' = [client EXCEPT !.finalized = client.exists]
        /\ schema' = [schema EXCEPT !.finalized = TRUE] /\ step' = "running" /\ UNCHANGED engine
    BY <1>1, <1>4 DEF ClientCommit
  <2>2. /\ client'.exists = client.exists /\ client'.inert = client.inert
        /\ client'.prepared = client.prepared /\ client'.published = client.published
        /\ client'.classes = client.classes
        /\ schema'.attempted = schema.attempted /\ schema'.inert = schema.inert
        /\ schema'.published = schema.published
    BY <2>1 DEF IInv, Shape
  <2>3. Shape'
    BY <1>1, <2>1, <2>2 DEF IInv, Shape
  <2>4. Attempt' /\ Prepared'
    BY <2>1, <2>2, <1>1 DEF IInv, Stages, Attempt, Prepared, Past, AtPrepared, AtClientPrepared,
       AtPublished, AtWork
  <2>5. ClientAgrees'
    BY <2>1, <2>2, <1>1, <1>3, <1>4 DEF ClientAgrees
  <2>6. Published'
    BY <2>1, <2>2, <1>1, <1>4 DEF IInv, Stages, Published, Past, AtPublished, AtClientPublished,
       RejectedUntouched, NamesOf
  <2>7. Bits(server.patches)' = Bits(server.patches)
    BY <1>1 DEF Bits
  <2>8. Committed'
    BY <2>1, <2>7, <1>1, <1>2 DEF Committed, AtWork, AtPrepared, AtClientPrepared, AtPublished, AtCommitted
  <2> QED
    BY <2>3, <2>4, <2>5, <2>6, <2>8 DEF IInv, Stages
<1>5. CASE client.exists /\ ~client.inert
  <2>1. schema.published /\ client.published
    <3>1. server.rebuilds
      BY <1>1, <1>3, <1>5 DEF IInv, Stages, Prepared, Past, AtPrepared, AtClientPrepared, AtPublished
    <3> QED
      BY <3>1, <1>1, <1>5 DEF IInv, Stages, Published, Past, AtPublished, AtClientPublished
  <2>2. engine' = [engine EXCEPT !.recvs = IF outcome = "rejected" THEN "down" ELSE "custom"]
    BY <1>1, <1>5 DEF ClientCommit
  <2>3. /\ engine'.servers = engine.servers /\ engine'.clients = engine.clients
        /\ engine'.sends = engine.sends /\ engine'.bits = engine.bits /\ engine'.bridged = engine.bridged
        /\ engine'.recvs = IF outcome = "rejected" THEN "down" ELSE "custom"
        /\ DOMAIN engine' = DOMAIN engine
    BY <2>2 DEF IInv, Shape
  <2>4. CASE outcome = "committed"
    <3>1. /\ client' = [client EXCEPT !.finalized = TRUE]
          /\ schema' = [schema EXCEPT !.finalized = TRUE] /\ step' = "running"
      BY <1>1, <1>5, <2>4 DEF ClientCommit
    <3>2. /\ client'.exists = client.exists /\ client'.inert = client.inert
          /\ client'.prepared = client.prepared /\ client'.published = client.published
          /\ client'.classes = client.classes
          /\ schema'.attempted = schema.attempted /\ schema'.inert = schema.inert
          /\ schema'.published = schema.published
      BY <3>1 DEF IInv, Shape
    <3>3. Shape'
      BY <1>1, <2>3, <3>1, <3>2 DEF IInv, Shape
    <3>4. Attempt' /\ Prepared'
      BY <3>1, <3>2, <1>1 DEF IInv, Stages, Attempt, Prepared, Past, AtPrepared, AtClientPrepared,
         AtPublished, AtWork
    <3>5. ClientAgrees'
      <4>1. {[c EXCEPT !.factory = None, !.required = 0] : c \in client.classes} =
            {[c EXCEPT !.factory = None, !.required = 0] : c \in server.classes}
        BY <1>1, <1>5 DEF IInv, Stages, ClientAgrees, Past, AtClientPrepared, AtPublished
      <4> QED
        BY <4>1, <3>1, <3>2, <1>1, <1>3, <1>5 DEF ClientAgrees
    <3>6. Published'
      BY <2>1, <2>3, <3>1, <3>2, <1>1 DEF IInv, Stages, Published, Past, AtPublished, AtClientPublished,
         RejectedUntouched, NamesOf
    <3>7. Bits(server.patches)' = Bits(server.patches)
      BY <1>1 DEF Bits
    <3>8. Committed'
      BY <2>3, <2>4, <3>1, <3>7, <1>1, <1>2 DEF Committed, AtWork, AtPrepared, AtClientPrepared, AtPublished,
         AtCommitted
    <3> QED
      BY <3>3, <3>4, <3>5, <3>6, <3>8 DEF IInv, Stages
  <2>5. CASE outcome # "committed"
    <3>1. client' = [client EXCEPT !.failed = TRUE, !.finalized = outcome = "differs"] /\ Fails
      BY <1>1, <1>5, <2>5 DEF ClientCommit
    <3>2. /\ client'.published = client.published /\ client'.classes = client.classes
          /\ DOMAIN client' = DOMAIN client /\ DOMAIN schema' = DOMAIN schema
          /\ schema'.published = schema.published
      BY <3>1 DEF IInv, Shape, Fails
    <3>3. Shape'
      BY <1>1, <2>3, <3>2 DEF IInv, Shape
    <3>4. RejectedUntouched'
      BY <2>1, <3>2 DEF RejectedUntouched
    <3> QED
      BY <1>1, <2>3, <3>1, <3>2, <3>3, <3>4, FailsKeeps DEF AtClientPrepared, AtPublished
  <2> QED
    BY <2>4, <2>5
<1> QED
  BY <1>4, <1>5

-----------------------------------------------------------------------------
\* Every step keeps the invariant.
LEMMA NextKeeps == ASSUME IInv, [Next]_vars PROVE IInv'
<1>1. CASE UNCHANGED vars
  <2>1. Shape'
    BY <1>1 DEF IInv, Shape, vars
  <2>2. SameClasses => SameClasses'
    BY <1>1 DEF SameClasses, ClassOf, Declaring, Installed, HasDeclaration, vars
  <2>3. Attempt' /\ Prepared' /\ ClientAgrees'
    BY <1>1, <2>2 DEF IInv, Stages, Attempt, Blank, Prepared, ClientAgrees, Past, IsFinalized, vars
  <2>4. Published'
    BY <1>1 DEF IInv, Stages, Published, RejectedUntouched, NamesOf, Past, IsFinalized, vars
  <2>5. Committed'
    BY <1>1 DEF IInv, Stages, Committed, Bits, Past, IsFinalized, vars
  <2> QED
    BY <2>1, <2>3, <2>4, <2>5 DEF IInv, Stages
<1>2. CASE Finalize
  BY <1>2, FinalizeBeginsKeeps, InstallBridgeKeeps, ClientPublishKeeps, ServerPrepareKeeps,
     ClientPrepareKeeps, PrepareBridgeKeeps, ServerPublishKeeps, ServerCommitKeeps, ClientCommitKeeps
     DEF Finalize
<1>3. CASE PluginCode
  BY <1>3, DefineServerClassKeeps, InstallKeeps, UninstallKeeps, CloseFactoryKeeps, CreateKeeps,
     DefineDataMapKeeps, InstallClientKeeps, CloseClientKeeps, RegisterKeeps, RemoveKeeps
     DEF PluginCode
<1>4. CASE MapChanges \/ Unload
  BY <1>4, MapChangesKeeps, UnloadKeeps
<1> QED
  BY <1>1, <1>2, <1>3, <1>4 DEF Next

\* The invariant holds in every state.
LEMMA IInvHolds == Spec => []IInv
<1>1. Init => IInv
  BY InitHolds
<1>2. IInv /\ [Next]_vars => IInv'
  BY NextKeeps
<1> QED
  BY <1>1, <1>2, PTL DEF Spec

\* A schema that is rejected before its publication leaves nothing behind: the lists of
\* classes, the bits and the tables of the engine are the game's own (cbasenpcnetworkschema.cpp,
\* Finalize up to the publication).
THEOREM RejectedLeavesNothing == Spec => []RejectedUntouched
<1>1. IInv => RejectedUntouched
  BY DEF IInv, Stages, Published
<1> QED
  BY <1>1, IInvHolds, PTL

\* Sets of classes that are equal but for factories and sizes have the same names.
LEMMA SameNames ==
  ASSUME NEW C, NEW S, \A c \in C \cup S : "name" \in DOMAIN c,
         {Bare(c) : c \in C} = {Bare(c) : c \in S}
  PROVE NamesOf(C) = NamesOf(S)
<1>1. \A c \in C \cup S : Bare(c).name = c.name
  BY DEF Bare
<1>2. \A c \in C : \E s \in S : Bare(s) = Bare(c)
  OBVIOUS
<1>3. \A s \in S : \E c \in C : Bare(s) = Bare(c)
  OBVIOUS
<1> HIDE DEF Bare
<1> QED
  BY <1>1, <1>2, <1>3 DEF NamesOf

\* A finalized schema has the same classes on both sides, the bridge that joins them, the
\* bits that the plugins asked for, and tables that are up (cbasenpcnetworkschema.cpp, Finalize).
THEOREM FinalizedSidesAgree == Spec => []SidesAgree
<1>1. IInv => SidesAgree
  <2> SUFFICES ASSUME IInv, IsFinalized PROVE SidesAgree
    BY DEF SidesAgree
  <2>1. server.finalized /\ engine.sends # "down" /\ engine.recvs # "down"
    BY DEF IInv, Stages, Committed, Past
  <2>2. \A p \in Props : engine.bits[p] =
          IF \E q \in server.patches : q.prop = p
          THEN (CHOOSE q \in server.patches : q.prop = p).bits ELSE 0
    BY DEF IInv, Stages, Committed, Past, Bits
  <2>3. step # "installBridge"
    BY DEF IsFinalized, IInv, Stages, Attempt, AtWork, AtPrepared, AtClientPrepared, AtPublished
  <2>4. engine.servers = NamesOf(server.classes)
    <3>1. CASE schema.published
      BY <3>1 DEF IInv, Stages, Published
    <3>2. CASE ~schema.published
      <4>1. server.classes = {}
        BY <3>2 DEF IInv, Stages, Published, Prepared, Past
      <4> QED
        BY <3>2, <4>1 DEF IInv, Stages, Published, RejectedUntouched, NamesOf
    <3> QED
      BY <3>1, <3>2
  <2>5. ASSUME step # "unloaded", client.exists, ~client.inert
        PROVE /\ client.published /\ engine.bridged /\ engine.clients = engine.servers
              /\ {[c EXCEPT !.factory = None, !.required = 0] : c \in client.classes} =
                 {[c EXCEPT !.factory = None, !.required = 0] : c \in server.classes}
    <3>1. /\ {[c EXCEPT !.factory = None, !.required = 0] : c \in client.classes} =
             {[c EXCEPT !.factory = None, !.required = 0] : c \in server.classes}
          /\ client.published /\ engine.bridged /\ engine.clients = NamesOf(client.classes)
      BY <2>3, <2>5 DEF IInv, Stages, ClientAgrees, Published, Past
    <3>2. NamesOf(client.classes) = NamesOf(server.classes)
      BY <3>1, SameNames DEF IInv, Shape, Bare
    <3> QED
      BY <2>4, <3>1, <3>2
  <2> QED
    BY <2>1, <2>2, <2>4, <2>5 DEF SidesAgree
<1> QED
  BY <1>1, IInvHolds, PTL

\* What the engine was given is still there: the classes in its lists, and the factories of
\* the client's, whatever plugins close or unload after that.
THEOREM PublicStays == Spec => []PublicKept
<1>1. ASSUME IInv PROVE PublicKept
  <2>1. engine.servers \subseteq NamesOf(server.classes) /\ engine.clients \subseteq NamesOf(client.classes)
    BY <1>1 DEF IInv, Stages, Published, RejectedUntouched
  <2>2. client.published => \A c \in client.classes : owned[c.factory] # "deleted"
    BY <1>1 DEF IInv, Stages, Published
  <2> QED
    BY <2>1, <2>2 DEF PublicKept
<1> QED
  BY <1>1, IInvHolds, PTL

=============================================================================
