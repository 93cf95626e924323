--------------------------- MODULE EntityFactories ---------------------------
(***************************************************************************)
(* Plugin entity factories: CPluginEntityFactories and                     *)
(* CPluginEntityFactory of pluginentityfactory.cpp, as plugins reach them   *)
(* through natives/entityfactory.cpp.                                      *)
(*                                                                         *)
(* Factories form a hierarchy while they are installed.  Installing,       *)
(* uninstalling, creating and removing an entity all call into plugins,    *)
(* and the plugins may call back.  As in module Behavior the C++ call      *)
(* stack is the variable ctl, innermost call first, and a frame whose op   *)
(* is in Callbacks is about to enter plugin code.                          *)
(*                                                                         *)
(* Every factory of the model has a data description, so that each level   *)
(* of a hierarchy owns fields of the entity (CreateFields, DestroyFields). *)
(***************************************************************************)
EXTENDS Naturals, Sequences, FiniteSets

CONSTANTS
  MaxFactories,  \* bound: factories constructed in one execution
  MaxEntities,   \* bound: entities created in one execution
  MaxDepth,      \* bound: calls on the stack when plugin code calls back
  Plugins,       \* the plugins that own factories
  Classnames,    \* entity classnames
  GameClasses,   \* the classnames the game has a factory for
  Owner,         \* m_pPlugin of each factory
  Class,         \* m_iClassname of each factory
  Abstract,      \* the factories with m_bIsAbstract
  Derivations,   \* what each factory may be told to derive from
  CallsBack      \* <<callback, call>>: the calls that callbacks make

Factories == 1..MaxFactories
Entities == 1..MaxEntities
None == 0
Game == MaxFactories + 1   \* a factory of the game, g_pBaseNPCFactory included

\* PluginEntityFactoryDeriveInfo_t.  "base" stands for DERIVETYPE_BASECLASS
\* and DERIVETYPE_CONFIG, which need no base factory.
DeriveInfo ==
  [from : {"none", "base", "npc"}] \cup [from : {"class"}, class : Classnames]
  \cup [from : {"handle"}, factory : Factories]

\* The frames that are about to enter plugin code.
Callbacks ==
  {"onInstalled", "onUninstalled", "onRemove", "onEnd", "attachNextBot", "postConstruct"}
CallKinds == {"edit", "install", "uninstall", "close", "create"}

ASSUME ConstantsOK ==
  /\ MaxFactories \in Nat \ {0} /\ MaxEntities \in Nat /\ MaxDepth \in Nat
  /\ GameClasses \subseteq Classnames
  /\ Owner \in [Factories -> Plugins] /\ Class \in [Factories -> Classnames]
  /\ Abstract \subseteq Factories
  /\ Derivations \in [Factories -> SUBSET DeriveInfo]
  /\ CallsBack \subseteq Callbacks \X CallKinds

VARIABLES
  factories,  \* m_Factories, in order of construction
  closed,     \* factories deleted when their handle was closed
  derive,     \* m_Derive
  installed,  \* m_bInstalled
  base,       \* m_pBaseFactory
  slots,      \* the memory of m_DerivedFactories
  count,      \* and its Count()
  dict,       \* m_pluginFactories
  created,    \* number of entities created so far
  record,     \* m_Records: the factory of each entity that has a record
  fields,     \* the factories whose fields an entity holds
  killed,     \* entities marked EFL_KILLME
  gone,       \* entities whose destructor has finished
  hooked,     \* the extension is loaded
  ctl         \* the call stack

hierarchy == <<installed, base, slots, count, dict>>
population == <<created, record, fields, killed, gone>>
vars == <<factories, closed, derive, installed, base, slots, count, dict,
          created, record, fields, killed, gone, hooked, ctl>>

(***************************************************************************)
(* Frames, and walks up the hierarchy                                      *)
(***************************************************************************)
Ops == Callbacks \cup
  {"uninstall", "children", "removeAll", "removeEach", "detach", "removeEntity",
   "destruct", "construct", "delete", "closeOwned", "unloadAll", "closeAll"}
Frame == [op : Ops, f : 0..MaxFactories, e : 0..MaxEntities, n : Nat,
          es : SUBSET Entities, fs : Seq(Factories), p : Plugins \cup {"none"}]

Do(op, f, e) ==
  [op |-> op, f |-> f, e |-> e, n |-> 0, es |-> {}, fs |-> <<>>, p |-> "none"]

Top == Head(ctl)
Running(op) == ctl # <<>> /\ Top.op = op
Becomes(fs) == ctl' = fs \o Tail(ctl)
Calls(fs) == ctl' = fs \o ctl

Live == {factories[i] : i \in DOMAIN factories}
\* ToPluginEntityFactory: only a member of m_Factories is one.
ToPlugin(b) == IF b \in Live THEN b ELSE None

\* Up(f)[k]: the factory k levels above f.
Up(f) ==
  LET up[k \in 0..MaxFactories] ==
        IF k = 0 THEN f ELSE IF up[k-1] = None THEN None ELSE ToPlugin(base[up[k-1]])
  IN up
LevelsPastRoot(f) == {Up(f)[k] : k \in 0..MaxFactories}
Levels(f) == {Up(f)[k] : k \in 0..MaxFactories} \ {None}
\* The same as a sequence, from the root of the hierarchy to f.
FromRoot(f) ==
  LET d == Cardinality(Levels(f)) IN [k \in 1..d |-> Up(f)[d - k]]

Derived(f) == {slots[f][i] : i \in 1..count[f]}

\* Plugin code runs between engine calls and inside callbacks.
PluginCode(call) ==
  IF ctl = <<>> THEN hooked
  ELSE <<Top.op, call>> \in CallsBack /\ Len(ctl) <= MaxDepth
-----------------------------------------------------------------------------
(***************************************************************************)
(* CPluginEntityFactory: constructor, DeriveFrom*, Install                 *)
(***************************************************************************)
NewFactory(f) ==
  /\ PluginCode("edit") /\ f \notin Live \cup closed
  /\ factories' = Append(factories, f)
  /\ UNCHANGED <<closed, derive, hierarchy, population, hooked, ctl>>

\* FindFactory: plugin factories shadow the ones of the game.
FindFactory(c) ==
  IF dict[c] # None THEN dict[c] ELSE IF c \in GameClasses THEN Game ELSE None

\* The DeriveFrom natives, on a factory that is not installed.
DeriveFrom(f, d) ==
  /\ PluginCode("edit") /\ f \in Live /\ ~installed[f]
  /\ d.from = "class" => FindFactory(d.class) # None
  /\ d.from = "handle" => d.factory \in Live \ {f}
  /\ derive' = [derive EXCEPT ![f] = d]
  /\ UNCHANGED <<factories, closed, hierarchy, population, hooked, ctl>>

FindAnyBase(f) ==
  LET d == derive[f] IN
  CASE d.from = "npc" -> Game
    [] d.from = "class" -> IF dict[d.class] \in {None, f}
                           THEN IF d.class \in GameClasses THEN Game ELSE None
                           ELSE dict[d.class]
    [] d.from = "handle" -> ToPlugin(d.factory)
    [] OTHER -> None
\* A factory named by handle is a base only while it is installed.
FindBaseFactory(f) ==
  LET d == derive[f] IN
  CASE d.from = "npc" -> Game
    [] d.from = "class" -> IF dict[d.class] \in {None, f}
                           THEN IF d.class \in GameClasses THEN Game ELSE None
                           ELSE dict[d.class]
    [] d.from = "handle" -> IF d.factory \in Live /\ installed[d.factory]
                            THEN d.factory ELSE None
    [] OTHER -> None

IsBaseFactoryRequired(f) == derive[f].from \in {"npc", "class", "handle"}

\* m_DerivedFactories.AddToTail and FindAndRemove.  Removing shifts the
\* elements behind down and leaves the last slot as it was.
AddDerived(b, f) ==
  /\ slots' = [slots EXCEPT ![b] = SubSeq(@, 1, count[b]) \o <<f>>
                                   \o SubSeq(@, count[b] + 2, Len(@))]
  /\ count' = [count EXCEPT ![b] = @ + 1]
KeepDerived(b, f) == UNCHANGED <<slots, count>>
RemoveDerived(b, f) ==
  LET at == {i \in 1..count[b] : slots[b][i] = f} IN
  IF at = {} THEN UNCHANGED <<slots, count>>
  ELSE LET i == CHOOSE k \in at : \A l \in at : k <= l IN
       /\ slots' = [slots EXCEPT ![b] =
                      [k \in DOMAIN @ |-> IF k \in i..(count[b]-1) THEN @[k+1] ELSE @[k]]]
       /\ count' = [count EXCEPT ![b] = @ - 1]

ClassnameShared(f) == TRUE
\* A classname belongs to one installed factory.
ClassnameFree(f) == f \in Abstract \/ dict[Class[f]] = None

Install(f) ==
  /\ PluginCode("install") /\ f \in Live /\ ~installed[f]
  /\ derive[f].from # "none" /\ ClassnameFree(f)
  /\ LET b == FindBaseFactory(f) IN
     /\ IsBaseFactoryRequired(f) => b # None
     /\ base' = [base EXCEPT ![f] = b]
     /\ IF ToPlugin(b) # None THEN AddDerived(b, f) ELSE UNCHANGED <<slots, count>>
  /\ dict' = IF f \in Abstract THEN dict ELSE [dict EXCEPT ![Class[f]] = f]
  /\ installed' = [installed EXCEPT ![f] = TRUE]
  /\ Calls(<<Do("onInstalled", f, None)>>)
  /\ UNCHANGED <<factories, closed, derive, population, hooked>>

(***************************************************************************)
(* CPluginEntityFactory::Uninstall                                         *)
(***************************************************************************)

\* The Uninstall native.
UninstallNative(f) ==
  /\ PluginCode("uninstall") /\ f \in Live /\ installed[f]
  /\ Calls(<<Do("uninstall", f, None)>>)
  /\ UNCHANGED <<factories, closed, derive, hierarchy, population, hooked>>

ChildrenFrom(f, n) == [Do("children", f, None) EXCEPT !.n = n]

KeepPluginFactory(f) == dict
RemovePluginFactory(f) ==
  IF f \in Abstract THEN dict
  ELSE [c \in Classnames |-> IF dict[c] = f THEN None ELSE dict[c]]

\* The classname goes first, so that no entity is created from now on.
Uninstall ==
  /\ Running("uninstall")
  /\ LET f == Top.f IN
     IF ~installed[f]
     THEN /\ Becomes(<<>>)
          /\ UNCHANGED dict
     ELSE /\ dict' = RemovePluginFactory(f)
          /\ Becomes(<<ChildrenFrom(f, count[f])>>)
  /\ UNCHANGED <<factories, closed, derive, installed, base, slots, count, population, hooked>>

\* Entities of this factory are removed when its children are gone.
SkipEntities(f) == Do("detach", f, None)
AfterChildren(f) == Do("removeAll", f, None)

\* The loop over m_DerivedFactories, last one first.
UninstallChildren ==
  /\ Running("children")
  /\ LET f == Top.f IN
     IF Top.n = 0
     THEN Becomes(<<AfterChildren(f)>>)
     ELSE Becomes(<<Do("uninstall", slots[f][Top.n], None), ChildrenFrom(f, Top.n - 1)>>)
  /\ UNCHANGED <<factories, closed, derive, hierarchy, population, hooked>>

\* RemoveAllEntities: GetEntities, then RemoveEntityImmediate on each.
GetEntities(f) == {e \in Entities : record[e] = f}
RemoveAllEntities ==
  /\ Running("removeAll")
  /\ Becomes(<<[Do("removeEach", Top.f, None) EXCEPT !.es = GetEntities(Top.f)]>>)
  /\ UNCHANGED <<factories, closed, derive, hierarchy, population, hooked>>
Unremoved(es, e) == es
Remaining(es, e) == es \ {e}
RemoveEach ==
  /\ Running("removeEach")
  /\ IF Top.es = {}
     THEN Becomes(<<Do("detach", Top.f, None)>>)
     ELSE \E e \in Top.es :
            Becomes(<<Do("removeEntity", None, e), [Top EXCEPT !.es = Remaining(@, e)]>>)
  /\ UNCHANGED <<factories, closed, derive, hierarchy, population, hooked>>

\* Leave the hierarchy; only now the factory is uninstalled.
Detach ==
  /\ Running("detach")
  /\ LET f == Top.f IN
     /\ base' = [base EXCEPT ![f] = None]
     /\ IF ToPlugin(base[f]) # None THEN RemoveDerived(base[f], f)
        ELSE UNCHANGED <<slots, count>>
     /\ installed' = [installed EXCEPT ![f] = FALSE]
     /\ Becomes(<<Do("onUninstalled", f, None)>>)
  /\ UNCHANGED <<factories, closed, derive, dict, population, hooked>>

\* A callback whose return value nobody reads is over.
CallbackReturns ==
  /\ ctl # <<>> /\ Top.op \in {"onInstalled", "onUninstalled", "attachNextBot", "postConstruct"}
  /\ Becomes(<<>>)
  /\ UNCHANGED <<factories, closed, derive, hierarchy, population, hooked>>

(***************************************************************************)
(* Closing a factory's handle, unloading a plugin or the extension         *)
(***************************************************************************)

\* Calls that close a handle, and the handles being closed.
CloseInstalled(f) == <<Do("delete", f, None)>>
Close(f) == <<Do("uninstall", f, None), Do("delete", f, None)>>
Closing == {ctl[i].f : i \in {j \in DOMAIN ctl : ctl[j].op = "delete"}}

CloseHandle(f) ==
  /\ PluginCode("close") /\ f \in Live \ Closing
  /\ Calls(Close(f))
  /\ UNCHANGED <<factories, closed, derive, hierarchy, population, hooked>>

\* m_Factories.FindAndRemove.
Unlisted(f) ==
  LET at == {i \in DOMAIN factories : factories[i] = f} IN
  IF at = {} THEN factories
  ELSE LET i == CHOOSE k \in at : \A l \in at : k <= l IN
       [k \in 1..(Len(factories) - 1) |-> IF k < i THEN factories[k] ELSE factories[k+1]]

\* OnHandleDestroy, after Uninstall: delete factory.
Delete ==
  /\ Running("delete")
  /\ factories' = Unlisted(Top.f)
  /\ closed' = closed \cup {Top.f}
  /\ Becomes(<<>>)
  /\ UNCHANGED <<derive, hierarchy, population, hooked>>

\* Of the factories of a plugin only the topmost of each branch are listed:
\* uninstalling a base uninstalls the derived ones.
TopmostOf(p, f) ==
  LET owned == {k \in 0..MaxFactories :
                  \A j \in 0..k : Up(f)[j] # None /\ Owner[Up(f)[j]] = p}
  IN Up(f)[CHOOSE k \in owned : \A j \in owned : j <= k]
\* In the order of m_Factories, each root once.
ToUninstall(p) ==
  LET roots[i \in 0..Len(factories)] ==
        IF i = 0 THEN <<>>
        ELSE LET f == factories[i] IN
             IF installed[f] /\ Owner[f] = p
                  /\ \A k \in DOMAIN roots[i-1] : roots[i-1][k] # TopmostOf(p, f)
             THEN Append(roots[i-1], TopmostOf(p, f)) ELSE roots[i-1]
  IN roots[Len(factories)]

CloseOwned(p) == [Do("closeOwned", None, None) EXCEPT !.p = p]

\* OnPluginUnloaded; then SourceMod frees the plugin's handles.
PluginUnload(p) ==
  /\ ctl = <<>> /\ hooked /\ \E f \in Live : Owner[f] = p
  /\ LET roots == ToUninstall(p) IN
     Calls([i \in DOMAIN roots |-> Do("uninstall", roots[i], None)] \o <<CloseOwned(p)>>)
  /\ UNCHANGED <<factories, closed, derive, hierarchy, population, hooked>>

FreeOwnedHandles ==
  /\ Running("closeOwned")
  /\ LET mine == {f \in Live : Owner[f] = Top.p} \ Closing IN
     IF mine = {} THEN Becomes(<<>>)
     ELSE \E f \in mine : Becomes(Close(f) \o <<Top>>)
  /\ UNCHANGED <<factories, closed, derive, hierarchy, population, hooked>>

\* SDK_OnUnload: the dictionary hooks go, then every factory is uninstalled
\* by index, then the handle type is removed and with it every handle.
ExtensionUnload ==
  /\ ctl = <<>> /\ hooked
  /\ hooked' = FALSE
  /\ Calls(<<[Do("unloadAll", None, None) EXCEPT !.n = 1]>>)
  /\ UNCHANGED <<factories, closed, derive, hierarchy, population>>

UninstallByIndex ==
  /\ Running("unloadAll")
  /\ IF Top.n > Len(factories)
     THEN Becomes(<<Do("closeAll", None, None)>>)
     ELSE Becomes(<<Do("uninstall", factories[Top.n], None), [Top EXCEPT !.n = @ + 1]>>)
  /\ UNCHANGED <<factories, closed, derive, hierarchy, population, hooked>>

RemoveHandleType ==
  /\ Running("closeAll")
  /\ IF Live \subseteq Closing THEN Becomes(<<>>)
     ELSE \E f \in Live \ Closing : Becomes(Close(f) \o <<Top>>)
  /\ UNCHANGED <<factories, closed, derive, hierarchy, population, hooked>>

(***************************************************************************)
(* Entities: Create, RecursiveCreate, OnRemove, OnDestroy                  *)
(***************************************************************************)
Construct(f, e, levels) == [Do("construct", f, e) EXCEPT !.fs = levels]

\* Hook_Create of a plugin factory's classname.  The root of the hierarchy
\* instantiates the entity and its record, and attaches a NextBot.
Create(c) ==
  /\ PluginCode("create") /\ hooked /\ dict[c] # None /\ created < MaxEntities
  /\ LET f == dict[c]
         e == created + 1
     IN /\ created' = e
        /\ record' = [record EXCEPT ![e] = f]
        /\ Calls(<<Do("attachNextBot", FromRoot(f)[1], e), Construct(f, e, FromRoot(f))>>)
  /\ UNCHANGED <<factories, closed, derive, hierarchy, fields, killed, gone, hooked>>

\* Each level from the root down creates its fields and then runs its
\* PostConstructor.
RecursiveCreate ==
  /\ Running("construct")
  /\ IF Top.fs = <<>>
     THEN /\ Becomes(<<>>)
          /\ UNCHANGED fields
     ELSE /\ fields' = [fields EXCEPT ![Top.e] = @ \cup {Head(Top.fs)}]
          /\ Becomes(<<Do("postConstruct", Head(Top.fs), Top.e),
                       Construct(Top.f, Top.e, Tail(Top.fs))>>)
  /\ UNCHANGED <<factories, closed, derive, hierarchy, created, record, killed, gone, hooked>>

\* The game removes an entity.
RemoveEntity(e) ==
  /\ ctl = <<>> /\ e <= created /\ e \notin killed
  /\ Calls(<<Do("removeEntity", None, e)>>)
  /\ UNCHANGED <<factories, closed, derive, hierarchy, population, hooked>>

\* RemoveEntityImmediate: UpdateOnRemove, then the destructor.
RemoveEntityImmediate ==
  /\ Running("removeEntity")
  /\ LET e == Top.e IN
     IF e \in killed
     THEN /\ Becomes(<<>>)
          /\ UNCHANGED killed
     ELSE /\ killed' = killed \cup {e}
          /\ Becomes((IF record[e] = None THEN <<>> ELSE <<Do("onRemove", record[e], e)>>)
                     \o <<Do("destruct", None, e)>>)
  /\ UNCHANGED <<factories, closed, derive, hierarchy, created, record, fields, gone, hooked>>

\* OnRemove: the factory's callback, then its base factory's.
OnRemove ==
  /\ Running("onRemove")
  /\ LET b == ToPlugin(base[Top.f]) IN
     Becomes(IF b = None THEN <<>> ELSE <<Do("onRemove", b, Top.e)>>)
  /\ UNCHANGED <<factories, closed, derive, hierarchy, population, hooked>>

\* OnDestroy: the record goes, and with it the intention, whose actions end.
OnDestroy ==
  /\ Running("destruct")
  /\ LET e == Top.e IN
     IF record[e] = None
     THEN /\ gone' = gone \cup {e}
          /\ Becomes(<<>>)
          /\ UNCHANGED record
     ELSE /\ record' = [record EXCEPT ![e] = None]
          /\ Becomes(<<Do("onEnd", record[e], e)>>)
          /\ UNCHANGED gone
  /\ UNCHANGED <<factories, closed, derive, hierarchy, created, fields, killed, hooked>>

OwnFields(f) == {f}
FieldLevels(f) == Levels(f)
\* ... then DestroyUserEntityData on every level of the hierarchy.
DestroyUserEntityData ==
  /\ Running("onEnd")
  /\ fields' = [fields EXCEPT ![Top.e] = @ \ FieldLevels(Top.f)]
  /\ gone' = gone \cup {Top.e}
  /\ Becomes(<<>>)
  /\ UNCHANGED <<factories, closed, derive, hierarchy, created, record, killed, hooked>>

-----------------------------------------------------------------------------
Init ==
  /\ factories = <<>> /\ closed = {}
  /\ derive = [f \in Factories |-> [from |-> "none"]]
  /\ installed = [f \in Factories |-> FALSE]
  /\ base = [f \in Factories |-> None]
  /\ slots = [f \in Factories |-> <<>>] /\ count = [f \in Factories |-> 0]
  /\ dict = [c \in Classnames |-> None]
  /\ created = 0 /\ record = [e \in Entities |-> None]
  /\ fields = [e \in Entities |-> {}] /\ killed = {} /\ gone = {}
  /\ hooked = TRUE /\ ctl = <<>>

\* The extension's own code.
Engine ==
  \/ Uninstall \/ UninstallChildren \/ RemoveAllEntities \/ RemoveEach \/ Detach
  \/ CallbackReturns \/ Delete \/ FreeOwnedHandles \/ UninstallByIndex \/ RemoveHandleType
  \/ RecursiveCreate \/ RemoveEntityImmediate \/ OnRemove \/ OnDestroy
  \/ DestroyUserEntityData

\* Plugins and the game.
World ==
  \/ \E f \in Factories :
       \/ NewFactory(f) \/ Install(f) \/ UninstallNative(f) \/ CloseHandle(f)
       \/ \E d \in Derivations[f] : DeriveFrom(f, d)
  \/ \E p \in Plugins : PluginUnload(p)
  \/ ExtensionUnload
  \/ \E c \in Classnames : Create(c)
  \/ \E e \in Entities : RemoveEntity(e)

Next == Engine \/ World
Spec == Init /\ [][Next]_vars

\* A call that was made runs on.
FairSpec == Spec /\ WF_vars(Engine)
-----------------------------------------------------------------------------
(***************************************************************************)
(* Properties                                                              *)
(***************************************************************************)

\* Type correctness of the registry, the hierarchy, the entity records and
\* the call frames.
TypeOK ==
  /\ factories \in Seq(Factories) /\ closed \subseteq Factories
  /\ derive \in [Factories -> DeriveInfo]
  /\ installed \in [Factories -> BOOLEAN] /\ base \in [Factories -> 0..Game]
  /\ slots \in [Factories -> Seq(Factories)] /\ count \in [Factories -> Nat]
  /\ dict \in [Classnames -> 0..MaxFactories]
  /\ created \in 0..MaxEntities /\ record \in [Entities -> 0..MaxFactories]
  /\ fields \in [Entities -> SUBSET Factories]
  /\ killed \subseteq Entities /\ gone \subseteq Entities
  /\ hooked \in BOOLEAN
  /\ ctl \in Seq(Frame)

\* "However, if the base factory is uninstalled, this factory will be
\* uninstalled first": an installed factory's base is installed and knows it, also in
\* the middle of an uninstall or an unload and in its callbacks.
HierarchyAgrees ==
  \A f \in Factories : installed[f] =>
    /\ f \in Live
    /\ base[f] \in Factories => installed[base[f]] /\ f \in Derived(base[f])
    /\ \A d \in Derived(f) : installed[d] /\ base[d] = f

\* The classname dictionary names exactly the installed factories that are
\* not abstract, whatever was installed, uninstalled or refused before.
DictionaryExact ==
  ctl = <<>> =>
    \A c \in Classnames, f \in Factories :
      dict[c] = f <=> installed[f] /\ f \notin Abstract /\ Class[f] = c

\* "Upon uninstalling a factory, all entities that were directly created by
\* this factory will be removed": a live entity's factory is installed.
EntitiesHaveFactories ==
  ctl = <<>> =>
    \A e \in 1..created : e \notin gone => record[e] # None /\ installed[record[e]]

\* The fields every level created in an entity are destroyed with it, so the
\* hierarchy an entity was built through outlives the entity.
FieldsDestroyed == \A e \in gone : fields[e] = {}

\* No call in progress works on a deleted factory or a deleted entity (also
\* not one of the entities listed for removal), and an entity under
\* construction still has its record.
CallsTouchLive ==
  \A i \in DOMAIN ctl :
    LET c == ctl[i] IN
    /\ c.f \notin closed
    /\ c.e \notin gone /\ c.es \cap gone = {}
    /\ \A k \in DOMAIN c.fs : c.fs[k] \notin closed
    /\ c.op = "construct" /\ c.fs # <<>> => record[c.e] # None

\* Every call returns, whatever the callbacks do.
CallsReturn == (ctl # <<>>) ~> (ctl = <<>>)

\* A classname and a live entity both lead to an installed factory.
FactoriesServe == DictionaryExact /\ EntitiesHaveFactories
=============================================================================
