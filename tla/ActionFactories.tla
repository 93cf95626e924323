--------------------------- MODULE ActionFactories ---------------------------
(***************************************************************************)
(* Action factories and the intentions of plugin bots:                     *)
(* CBaseNPCPluginActionFactory, CBaseNPCPluginActionFactories and          *)
(* CBaseNPCIntention of cbasenpc_behavior.cpp, with the record that        *)
(* creates an intention (pluginentityfactory.cpp).                         *)
(*                                                                         *)
(* Closing the handle of a factory retires it: bots that use it are reset, *)
(* then what is left of its actions is deleted.  The resets call plugins,  *)
(* and plugins create actions, hand them to other bots, reset, spawn and   *)
(* remove bots and retire further factories meanwhile.  As in module       *)
(* Behavior, ctl is the C++ call stack, innermost call first.              *)
(*                                                                         *)
(* What happens inside one behaviour is the subject of module Behavior;    *)
(* here a behaviour is the set of actions it contains, and one callback    *)
(* stands for all the OnEnd calls of its destruction.                      *)
(***************************************************************************)
EXTENDS Integers, Sequences, FiniteSets

CONSTANTS
  Factories,   \* action factories
  Classes,     \* entity classes that plugins gave bots to
  Bots,        \* addresses of intentions; one that is freed is used again
  MaxLoose,    \* bound: actions that were not created by a reset
  MaxDepth,    \* bound: calls on the stack when plugin code calls back
  MaxCalls,    \* bound: calls that one callback makes
  CallsBack    \* <<callback, call>>: the calls that callbacks make

None == 0
Actions == 1..(MaxLoose + Cardinality(Bots) + 1)   \* addresses, one to spare

Callbacks == {"attachBot", "initialAction", "onEnd"}
CallKinds == {"create", "declare", "spawn", "remove", "event", "reset", "close"}

ASSUME ConstantsOK ==
  /\ IsFiniteSet(Bots) /\ None \notin Factories \cup Bots
  /\ MaxLoose \in Nat /\ MaxDepth \in Nat /\ MaxCalls \in Nat
  /\ CallsBack \subseteq Callbacks \X CallKinds

VARIABLES
  factory,    \* is the factory alive, destroying (m_bDestroying) or gone
  declared,   \* m_pBaseNPCInitialActionFactory of an entity factory
  bot,        \* what is at the address of an intention
  initial,    \* its m_pInitialActionFactory, which its record holds too
  behavior,   \* does its m_pBehavior point to a behaviour
  resetting,  \* its m_bResetting
  inside,     \* the actions that the behaviour of an intention contains
  made,       \* m_pFactory of an action, None once it is deleted; m_Actions of f are
              \* the actions with made[a] = f
  pend,       \* m_eventResult.m_action of an action
  loose,      \* actions that a plugin created and did not hand to a bot yet
  ctl         \* the call stack

minds == <<bot, initial, behavior, resetting>>
pool == <<made, loose>>
vars == <<factory, declared, bot, initial, behavior, resetting, inside,
          made, pend, loose, ctl>>

(***************************************************************************)
(* Frames                                                                  *)
(***************************************************************************)
Frame == [op : Callbacks \cup {"reset", "init", "endReset", "construct", "free",
                               "resetUsers", "drain"},
          b : Bots \cup {None}, f : Factories \cup {None},
          as : SUBSET Actions, bs : SUBSET Bots, n : Nat]

Do(op, b, f) == [op |-> op, b |-> b, f |-> f, as |-> {}, bs |-> {}, n |-> MaxCalls]

Top == Head(ctl)
Running(op) == ctl # <<>> /\ Top.op = op
Becomes(fs) == ctl' = fs \o Tail(ctl)

\* Plugin code runs between engine calls and inside callbacks.
PluginCode(call) ==
  ctl # <<>> => /\ <<Top.op, call>> \in CallsBack
                /\ Top.n > 0 /\ Len(ctl) <= MaxDepth
\* The stack below a call that plugin code makes now.
Caller == IF ctl = <<>> THEN <<>> ELSE <<[Top EXCEPT !.n = @ - 1]>> \o Tail(ctl)
Calls(fs) == ctl' = fs \o Caller

Frames == {ctl[k] : k \in DOMAIN ctl}
\* Bots in the middle of a construction, reset or destruction.
Busy == {fr.b : fr \in Frames} \ {None}
\* Actions that only a call on the stack refers to.
InHand == UNION {fr.as : fr \in Frames}
Pending(as) == {pend[a] : a \in as} \ {None}

\* m_Intentions.
Intentions == {b \in Bots : bot[b] = "intention"}
-----------------------------------------------------------------------------
(***************************************************************************)
(* Actions: CBaseNPCPluginAction constructor and destructor                *)
(***************************************************************************)
\* Actions constructed and not yet deleted.
live == {a \in Actions : made[a] # None}

\* A free address.
Fresh == CHOOSE a \in Actions : a \notin live

\* The destructors of the actions as: each takes its pending action along, and
\* OnActionRemoved of a factory that is being retired clears every pending
\* result that points to the dead action (DetachPendingAction).
Dead(as) == as \cup Pending(as)
Destroyed(as) ==
  LET dead == Dead(as) IN
  /\ loose' = loose \ dead
  /\ made' = [a \in Actions |-> IF a \in dead THEN None ELSE made[a]]
  /\ pend' = [a \in Actions |->
       IF \/ a \in dead
          \/ pend[a] \in dead /\ factory[made[pend[a]]] = "destroying"
       THEN None ELSE pend[a]]

\* Bots without any action: a bound on Create leaves them their initial action.
Mindless == {b \in Bots :
  inside[b] = {} /\ ~\E fr \in Frames : fr.b = b /\ fr.as # {}}

\* NextBotActionFactory.Create.  A factory being retired makes none.
Create(f) ==
  /\ PluginCode("create") /\ factory[f] = "alive"
  /\ Cardinality(live) + Cardinality(Mindless) < Cardinality(Actions) - 1
  /\ made' = [made EXCEPT ![Fresh] = f]
  /\ loose' = loose \cup {Fresh}
  /\ Calls(<<>>)
  /\ UNCHANGED <<factory, declared, minds, inside, pend>>

\* NextBotAction.Destroy, meant for actions that no bot was given.
DestroyLoose(a) ==
  /\ ctl = <<>>
  /\ Destroyed({a})
  /\ UNCHANGED <<factory, declared, minds, inside, ctl>>

(***************************************************************************)
(* A bot's update and events, as far as they move actions                  *)
(***************************************************************************)
\* An event callback asks for a loose action; the result that it replaces goes.
Event(b, x, a) ==
  /\ PluginCode("event")
  /\ bot[b] = "intention" /\ behavior[b]
  /\ made' = [c \in Actions |-> IF c \in Pending({x}) THEN None ELSE made[c]]
  /\ pend' = [pend EXCEPT ![x] = a]
  /\ loose' = loose \ {a}
  /\ Calls(<<>>)
  /\ UNCHANGED <<factory, declared, minds, inside>>

\* A stored result of higher priority wins: the refused action goes.
EventRefused(b, x, a) ==
  /\ PluginCode("event")
  /\ bot[b] = "intention" /\ behavior[b]
  /\ pend[x] # None
  /\ Destroyed({a})
  /\ Calls(<<>>)
  /\ UNCHANGED <<factory, declared, minds, inside>>

\* Mutant: The pending action is started without a look whether there is one.
StartPendingUnasked(b, x) ==
  /\ ctl = <<>> /\ behavior[b]
  /\ inside' = [inside EXCEPT ![b] = @ \cup {pend[x]}]
  /\ pend' = [pend EXCEPT ![x] = None]
  /\ UNCHANGED <<factory, declared, minds, pool, ctl>>

\* Update starts the action that x was told to start,
StartPending(b, x) ==
  /\ ctl = <<>> /\ behavior[b] /\ pend[x] # None
  /\ inside' = [inside EXCEPT ![b] = @ \cup {pend[x]}]
  /\ pend' = [pend EXCEPT ![x] = None]
  /\ UNCHANGED <<factory, declared, minds, pool, ctl>>

\* or one that a callback returned,
StartLoose(b, a) ==
  /\ ctl = <<>> /\ behavior[b] /\ inside[b] # {}
  /\ inside' = [inside EXCEPT ![b] = @ \cup {a}]
  /\ loose' = loose \ {a}
  /\ UNCHANGED <<factory, declared, minds, made, pend, ctl>>

\* and deletes those that have ended, the last one included.
Finish(b, as) ==
  /\ ctl = <<>> /\ behavior[b] /\ as # {}
  /\ inside' = [inside EXCEPT ![b] = @ \ as]
  /\ Destroyed(as)
  /\ UNCHANGED <<factory, declared, minds, ctl>>

(***************************************************************************)
(* Intentions                                                              *)
(***************************************************************************)
\* CEntityFactory.SetInitialActionFactory.
Declare(c, f) ==
  /\ PluginCode("declare") /\ (f # None => factory[f] = "alive")
  /\ declared[c] # f
  /\ declared' = [declared EXCEPT ![c] = f]
  /\ Calls(<<>>)
  /\ UNCHANGED <<factory, minds, inside, pool, pend>>

\* CPluginEntityFactory::Create reads the declaration, then calls the plugin
\* for the INextBot, then gives the entity its intention.
Spawn(b, c) ==
  /\ PluginCode("spawn") /\ bot[b] = "none" /\ declared[c] # None
  /\ bot' = [bot EXCEPT ![b] = "entity"]
  /\ Calls(<<Do("attachBot", b, None), Do("construct", b, declared[c])>>)
  /\ UNCHANGED <<factory, declared, initial, behavior, resetting, inside, pool, pend>>

\* PluginFactoryEntityRecord_t::Hook and the constructor of the intention.
Construct ==
  /\ Running("construct")
  /\ bot' = [bot EXCEPT ![Top.b] = "intention"]
  /\ initial' = [initial EXCEPT ![Top.b] = Top.f]
  /\ Becomes(<<Do("init", Top.b, None)>>)
  /\ UNCHANGED <<factory, declared, behavior, resetting, inside, pool, pend>>

\* InitBehavior: create the initial action, if there is a factory to ask and it
\* is not being retired, and let the plugin set it up.
InitBehavior ==
  /\ Running("init")
  /\ LET b == Top.b  f == initial[b] IN
     \/ /\ f = None
        /\ behavior' = [behavior EXCEPT ![b] = FALSE]
        /\ Becomes(<<>>)
        /\ UNCHANGED made
     \/ /\ f # None /\ factory[f] = "destroying"
        /\ Becomes(<<>>)
        /\ UNCHANGED <<behavior, made>>
     \/ /\ f # None /\ factory[f] # "destroying"
        /\ made' = [made EXCEPT ![Fresh] = f]
        /\ Becomes(<<[Do("initialAction", b, None) EXCEPT !.as = {Fresh}]>>)
        /\ UNCHANGED behavior
  /\ UNCHANGED <<factory, declared, bot, initial, resetting, inside, pend, loose>>

\* The rest of InitBehavior: new Behavior.
Adopt ==
  /\ Running("initialAction")
  /\ behavior' = [behavior EXCEPT ![Top.b] = TRUE]
  /\ inside' = [inside EXCEPT ![Top.b] = Top.as]
  /\ Becomes(<<>>)
  /\ UNCHANGED <<factory, declared, bot, initial, resetting, pool, pend>>

\* DestroyBehavior lets go of the behaviour before it deletes it.
LettingGo(b) ==
  /\ behavior' = [behavior EXCEPT ![b] = FALSE]
  /\ inside' = [inside EXCEPT ![b] = {}]
Ending(b) ==
  IF behavior[b] THEN <<[Do("onEnd", b, None) EXCEPT !.as = inside[b]]>> ELSE <<>>

\* ~Behavior, behind its OnEnd calls: the actions go.
DeleteBehavior ==
  /\ Running("onEnd")
  /\ Destroyed(Top.as)
  /\ Becomes(<<>>)
  /\ UNCHANGED <<factory, declared, minds, inside>>

\* CBaseNPCIntention::Reset, from a native or the engine.  Not of a bot whose
\* constructor is still creating its first behaviour.
Reset(b) ==
  /\ PluginCode("reset") /\ b \in Intentions /\ (b \in Busy => resetting[b])
  /\ Calls(<<Do("reset", b, None)>>)
  /\ UNCHANGED <<factory, declared, minds, inside, pool, pend>>

\* Mutant: A reset inside a reset is not refused.
ResetBeginAgain ==
  /\ Running("reset")
  /\ resetting' = [resetting EXCEPT ![Top.b] = TRUE]
  /\ LettingGo(Top.b)
  /\ Becomes(Ending(Top.b) \o <<Do("init", Top.b, None), Do("endReset", Top.b, None)>>)
  /\ UNCHANGED <<factory, declared, bot, initial, pool, pend>>

\* Mutant: A reset only creates a behaviour again when there was one to destroy, as if
\* DestroyBehavior's early return were the one of Reset.
ResetBeginRunning ==
  /\ Running("reset")
  /\ IF resetting[Top.b]
     THEN /\ Becomes(<<>>)
          /\ UNCHANGED <<behavior, resetting, inside>>
     ELSE /\ resetting' = [resetting EXCEPT ![Top.b] = TRUE]
          /\ LettingGo(Top.b)
          /\ Becomes(IF inside[Top.b] = {} THEN <<Do("endReset", Top.b, None)>>
                     ELSE Ending(Top.b) \o <<Do("init", Top.b, None), Do("endReset", Top.b, None)>>)
  /\ UNCHANGED <<factory, declared, bot, initial, pool, pend>>

ResetBegin ==
  /\ Running("reset")
  /\ IF resetting[Top.b]
     THEN /\ Becomes(<<>>)
          /\ UNCHANGED <<behavior, resetting, inside>>
     ELSE /\ resetting' = [resetting EXCEPT ![Top.b] = TRUE]
          /\ LettingGo(Top.b)
          /\ Becomes(Ending(Top.b) \o <<Do("init", Top.b, None), Do("endReset", Top.b, None)>>)
  /\ UNCHANGED <<factory, declared, bot, initial, pool, pend>>

ResetEnd ==
  /\ Running("endReset")
  /\ resetting' = [resetting EXCEPT ![Top.b] = FALSE]
  /\ Becomes(<<>>)
  /\ UNCHANGED <<factory, declared, bot, initial, behavior, inside, pool, pend>>

\* The record of a removed entity deletes its intention.
Remove(b) ==
  /\ PluginCode("remove") /\ b \in Intentions /\ b \notin Busy
  /\ bot' = [bot EXCEPT ![b] = "removing"]
  /\ LettingGo(b)
  /\ Calls(Ending(b) \o <<Do("free", b, None)>>)
  /\ UNCHANGED <<factory, declared, initial, resetting, pool, pend>>

Free ==
  /\ Running("free")
  /\ bot' = [bot EXCEPT ![Top.b] = "none"]
  /\ initial' = [initial EXCEPT ![Top.b] = None]
  /\ Becomes(<<>>)
  /\ UNCHANGED <<factory, declared, behavior, resetting, inside, pool, pend>>

(***************************************************************************)
(* Retirement of a factory                                                 *)
(***************************************************************************)
\* Behavior::ContainsAction for the actions of f: attached or pending.
IsUsedBy(f, b) ==
  behavior[b] /\ \E a \in inside[b] \cup Pending(inside[b]) : made[a] = f
\* Mutant: Only bots that start with an action of f are taken for its users.
UsesAsInitial(b, f) == initial[b] = f

UsesActionFactory(b, f) == initial[b] = f \/ IsUsedBy(f, b)

\* Actions that a call on the stack is about to use: a behaviour being deleted,
\* an initial action that no behaviour has yet.
Exposed(f) == \E a \in InHand \cup Pending(InHand) : made[a] = f

\* Mutant: The declarations of entity factories are forgotten.
CloseKeepingDeclarations(f) ==
  /\ PluginCode("close") /\ factory[f] = "alive" /\ ~Exposed(f)
  /\ factory' = [factory EXCEPT ![f] = "destroying"]
  /\ initial' = [b \in Bots |->
       IF b \in Intentions /\ initial[b] = f THEN None ELSE initial[b]]
  /\ Calls(<<[Do("resetUsers", None, f)
              EXCEPT !.bs = {b \in Intentions : UsesActionFactory(b, f)}]>>)
  /\ UNCHANGED <<declared, bot, behavior, resetting, inside, pool, pend>>

\* The handle is closed.  Before any callback, the declarations are severed
\* (DetachActionFactory), and the affected intentions lose their factory.
Close(f) ==
  /\ PluginCode("close") /\ factory[f] = "alive" /\ ~Exposed(f)
  /\ factory' = [factory EXCEPT ![f] = "destroying"]
  /\ declared' = [c \in Classes |-> IF declared[c] = f THEN None ELSE declared[c]]
  /\ initial' = [b \in Bots |->
       IF b \in Intentions /\ initial[b] = f THEN None ELSE initial[b]]
  /\ Calls(<<[Do("resetUsers", None, f)
              EXCEPT !.bs = {b \in Intentions : UsesActionFactory(b, f)}]>>)
  /\ UNCHANGED <<bot, behavior, resetting, inside, pool, pend>>

\* Mutant: The snapshot is not compared with m_Intentions.
ResetUserUnchecked(b) ==
  /\ Running("resetUsers") /\ b \in Top.bs
  /\ Becomes(<<Do("reset", b, None), [Top EXCEPT !.bs = @ \ {b}]>>)
  /\ UNCHANGED <<factory, declared, minds, inside, pool, pend>>

\* ResetIntentionsUsingFactory: the snapshot may be stale by now.
ResetUser(b) ==
  /\ Running("resetUsers") /\ b \in Top.bs
  /\ LET rest == [Top EXCEPT !.bs = @ \ {b}] IN
     Becomes(IF b \in Intentions THEN <<Do("reset", b, None), rest>> ELSE <<rest>>)
  /\ UNCHANGED <<factory, declared, minds, inside, pool, pend>>

UsersReset ==
  /\ Running("resetUsers") /\ Top.bs = {}
  /\ Becomes(<<Do("drain", None, Top.f)>>)
  /\ UNCHANGED <<factory, declared, minds, inside, pool, pend>>

\* Mutant: Only actions of bots are deleted with their factory.
DrainNothing ==
  /\ Running("drain")
  /\ factory' = [factory EXCEPT ![Top.f] = "gone"]
  /\ Becomes(<<>>)
  /\ UNCHANGED <<declared, minds, inside, pool, pend>>

\* while (m_Actions.Count() > 0) delete m_Actions.Tail(), and the end of the
\* destructor.  Nothing in between calls a plugin.
Drain ==
  /\ Running("drain")
  /\ Destroyed({a \in Actions : made[a] = Top.f})
  /\ factory' = [factory EXCEPT ![Top.f] = "gone"]
  /\ Becomes(<<>>)
  /\ UNCHANGED <<declared, minds, inside>>

\* A callback returns to the extension.
Return ==
  /\ Running("attachBot")
  /\ Becomes(<<>>)
  /\ UNCHANGED <<factory, declared, minds, inside, pool, pend>>
-----------------------------------------------------------------------------
Init ==
  /\ factory = [f \in Factories |-> "alive"]
  /\ declared = [c \in Classes |-> None]
  /\ bot = [b \in Bots |-> "none"]
  /\ initial = [b \in Bots |-> None]
  /\ behavior = [b \in Bots |-> FALSE]
  /\ resetting = [b \in Bots |-> FALSE]
  /\ inside = [b \in Bots |-> {}]
  /\ loose = {}
  /\ made = [a \in Actions |-> None]
  /\ pend = [a \in Actions |-> None]
  /\ ctl = <<>>

Engine ==
  \/ Construct \/ InitBehavior \/ Adopt \/ DeleteBehavior \/ ResetBegin \/ ResetEnd
  \/ Free \/ UsersReset \/ Drain \/ Return
  \/ \E b \in Bots : ResetUser(b)

Plugin ==
  \/ \E f \in Factories : Create(f) \/ Close(f)
  \/ \E a \in loose : DestroyLoose(a)
  \/ \E c \in Classes, f \in Factories \cup {None} : Declare(c, f)
  \/ \E b \in Bots, c \in Classes : Spawn(b, c)
  \/ \E b \in Bots : Reset(b) \/ Remove(b)
  \/ \E b \in Bots : \E x \in inside[b], a \in loose : Event(b, x, a) \/ EventRefused(b, x, a)

Update ==
  \E b \in Bots :
    \/ \E x \in inside[b] : StartPending(b, x)
    \/ \E a \in loose : StartLoose(b, a)
    \/ \E as \in SUBSET inside[b] : Finish(b, as)

Next == Engine \/ Plugin \/ Update

Spec == Init /\ [][Next]_vars
-----------------------------------------------------------------------------
(***************************************************************************)
(* Properties                                                              *)
(***************************************************************************)
\* Every variable has its type.
TypeOK ==
  /\ factory \in [Factories -> {"alive", "destroying", "gone"}]
  /\ declared \in [Classes -> Factories \cup {None}]
  /\ bot \in [Bots -> {"none", "entity", "intention", "removing"}]
  /\ initial \in [Bots -> Factories \cup {None}]
  /\ behavior \in [Bots -> BOOLEAN] /\ resetting \in [Bots -> BOOLEAN]
  /\ inside \in [Bots -> SUBSET Actions]
  /\ loose \subseteq Actions
  /\ made \in [Actions -> Factories \cup {None}]
  /\ pend \in [Actions -> Actions \cup {None}]
  /\ ctl \in Seq(Frame)

\* An action is never deleted under a behaviour, a pending result or a call
\* that refers to it, whatever the resets of a retirement have created, handed
\* over or removed in the meantime.
ActionsLive ==
  (UNION {inside[b] : b \in Bots}) \cup InHand \cup Pending(live) \subseteq live

\* Only bots that still exist are reset: the snapshot of
\* ResetIntentionsUsingFactory is never followed to a deleted intention.
ResetsReachBots ==
  \A fr \in Frames : fr.op \in {"reset", "init", "endReset"} => bot[fr.b] = "intention"

\* No action outlives its factory, which its callbacks, name and data go through.
FactoryOutlivesActions ==
  \A a \in live : factory[made[a]] # "gone"

\* A factory whose destructor has begun is no longer declared for a class of
\* entities and never asked for the initial action of a bot.
SeveredAtOnce ==
  /\ \A c \in Classes : declared[c] # None => factory[declared[c]] = "alive"
  /\ \A b \in Intentions : initial[b] # None => factory[initial[b]] = "alive"

\* Every action has exactly one owner that will delete it: a behaviour, a call
\* that is deleting or building one, the pending result of one other action, or
\* the plugin that created it.
OneOwner ==
  \A a \in live :
    Cardinality({b \in Bots : a \in inside[b]}) + Cardinality({x \in live : pend[x] = a})
      + Cardinality({k \in DOMAIN ctl : a \in ctl[k].as}) + (IF a \in loose THEN 1 ELSE 0) = 1

\* However resets, removals and retirements nest, a bot whose factory is alive has
\* a behaviour again once no call is busy with it.
BotsKeepTheirMind ==
  \A b \in Intentions \ Busy : initial[b] # None => behavior[b]

\* Nothing that is deleted is still reached: an action, a bot or a factory.
NothingDangles == ActionsLive /\ ResetsReachBots /\ FactoryOutlivesActions
=============================================================================
