---------------------------- MODULE BotComponents ----------------------------
(***************************************************************************)
(* The components of one bot and the loop that updates them                *)
(* (sourcesdk/NextBot/NextBotInterface.cpp,                                *)
(* NextBotComponentInterface.h, natives/nextbot.cpp and component.cpp).    *)
(*                                                                         *)
(* A component is made, and put at the head of the list, when somebody     *)
(* first asks for it.  The code of a component may run plugin code, which  *)
(* may update the bot, reset it and ask for components again.              *)
(***************************************************************************)
EXTENDS Naturals, SequencesExt

CONSTANTS
  Kinds,     \* the interfaces of a bot, with the intention
  MaxDepth   \* bound: nested loops and updates

Intention == "intention"
BotComponentsConstantsOK == Intention \in Kinds /\ MaxDepth \in Nat

VARIABLES
  list,   \* m_componentList
  age,    \* m_lastUpdateTime: never, before this tick, or now
  run,    \* the call stack: loops of INextBot::Update and updates of components
  times,  \* history: how often a loop updated the component in this tick and since its Reset
  fresh   \* history: had the component not been updated before those

vars == <<list, age, run, times, fresh>>

Pass(c) == [do |-> "pass", at |-> c]       \* a loop, which has come to c
Update(c) == [do |-> "update", at |-> c]   \* the Update of c
Start == "start"

Init ==
  /\ list = <<>> /\ run = <<>>
  /\ age = [c \in Kinds |-> "never"] /\ times = [c \in Kinds |-> 0] /\ fresh = [c \in Kinds |-> TRUE]

Innermost == IF run = <<>> THEN "plugin" ELSE Last(run).do
PluginRuns == Innermost # "pass"
Deeper(n) == Len(run) + n <= MaxDepth

Forgotten(cs) ==
  /\ age' = [c \in Kinds |-> IF c \in cs THEN "never" ELSE age[c]]
  /\ times' = [c \in Kinds |-> IF c \in cs THEN 0 ELSE times[c]]
  /\ fresh' = [c \in Kinds |-> c \in cs \/ fresh[c]]

\* Get...Interface makes the component when there is none; its constructor registers it.
GetInterface(c) ==
  /\ PluginRuns /\ ~Contains(list, c)
  /\ list' = <<c>> \o list /\ Forgotten({c}) /\ UNCHANGED run

\* An entity with a factory has its first intention taken off the list, and one of its own
\* registered, before the bot is ever updated (pluginentityfactory.cpp).
UnregisterIntention ==
  /\ run = <<>> /\ Contains(list, Intention) /\ \A c \in Kinds : age[c] = "never"
  /\ list' = <<Intention>> \o Remove(list, Intention) /\ UNCHANGED <<age, run, times, fresh>>

\* INextBot::Reset and INextBotComponent::Reset.
BotReset == PluginRuns /\ Forgotten(ToSet(list)) /\ UNCHANGED <<list, run>>
ComponentReset(c) == PluginRuns /\ Contains(list, c) /\ Forgotten({c}) /\ UNCHANGED <<list, run>>

\* INextBot::Update by the think function or by a plugin; INextBotComponent::Update by a plugin.
BotUpdate == PluginRuns /\ Deeper(2) /\ run' = Append(run, Pass(Start)) /\ UNCHANGED <<list, age, times, fresh>>
ComponentUpdate(c) ==
  /\ PluginRuns /\ Deeper(1) /\ Contains(list, c)
  /\ run' = Append(run, Update(c)) /\ UNCHANGED <<list, age, times, fresh>>

------------------------------------------------------------------------------
(* The loop. *)

\* ComputeUpdateInterval: an update is due when time has passed since the last one; the
\* first one is dated back by an interval, so that another one is due at once.
Due(c) == age[c] # "now"

\* Mutant: the time is not kept when it is the first update.
DatedOther(c) == [age EXCEPT ![c] = IF @ = "never" THEN "never" ELSE "now"]

Dated(c) == [age EXCEPT ![c] = IF @ = "never" THEN "before" ELSE "now"]

\* m_nextComponent of the component that the loop has come to.
NextComponent(c) ==
  IF c = Start THEN {list[i] : i \in {1} \intersect DOMAIN list}
  ELSE {list[i] : i \in {j \in DOMAIN list : j > 1 /\ list[j - 1] = c}}

VisitComponent ==
  /\ Innermost = "pass"
  /\ \E c \in NextComponent(Last(run).at) :
       IF Due(c)
       THEN /\ run' = Front(run) \o <<Pass(c), Update(c)>> /\ age' = Dated(c)
            /\ times' = [times EXCEPT ![c] = @ + 1]
       ELSE run' = Append(Front(run), Pass(c)) /\ UNCHANGED <<age, times>>
  /\ UNCHANGED <<list, fresh>>

Return ==
  /\ run # <<>> /\ (Innermost = "pass" => NextComponent(Last(run).at) = {})
  /\ run' = Front(run) /\ UNCHANGED <<list, age, times, fresh>>

\* The next tick.
Tick ==
  /\ run = <<>>
  /\ age' = [c \in Kinds |-> IF age[c] = "never" THEN "never" ELSE "before"]
  /\ times' = [c \in Kinds |-> 0] /\ fresh' = [c \in Kinds |-> age[c] = "never"]
  /\ UNCHANGED <<list, run>>

Next ==
  \/ \E c \in Kinds : GetInterface(c) \/ ComponentReset(c) \/ ComponentUpdate(c)
  \/ UnregisterIntention \/ BotReset \/ BotUpdate
  \/ VisitComponent \/ Return \/ Tick

Spec == Init /\ [][Next]_vars

------------------------------------------------------------------------------
\* However plugins update the bot from inside its components, the loops update a component
\* at most once in a tick, and at most twice where it was the first time: the recursion
\* ends (ComputeUpdateInterval).  Updates count from the last reset of the component on: one
\* that resets itself and updates its own bot each time does not end, as in the code.
UpdatedOnce == \A c \in Kinds : times[c] <= (IF fresh[c] THEN 2 ELSE 1)
==============================================================================
