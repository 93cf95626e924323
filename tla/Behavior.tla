------------------------------ MODULE Behavior ------------------------------
(***************************************************************************)
(* The NextBot behaviour engine of CBaseNPC: Behavior<Actor> and           *)
(* Action<Actor> of sourcesdk/NextBot/NextBotBehavior.h, driven by one     *)
(* CBaseNPCIntention (cbasenpc_behavior.cpp).                              *)
(*                                                                         *)
(* The engine is one recursive C++ program over a heap of Action objects.  *)
(* Its call stack is the variable ctl, a sequence of frames, innermost     *)
(* call first.  An action of this module runs from one call to the next.   *)
(* A frame whose op is in Callbacks is about to enter plugin code, which   *)
(* may deliver events to the same behaviour, or reset it, before it        *)
(* returns the result that the step picks.                                 *)
(*                                                                         *)
(* Actions are numbered in the order of their construction; a number is    *)
(* never used twice, so a freed action stays recognisable.                 *)
(***************************************************************************)
EXTENDS Naturals, Sequences

CONSTANTS
  MaxActions,     \* bound: actions constructed in one execution
  EventTypes,     \* the results event handlers may ask for
  Priorities,     \* the priorities they may ask with
  EventsDuring,   \* the callbacks that may deliver an event while they run
  Resets          \* when the bot may be reset or removed: "never",
                  \* "betweenUpdates", or "anytime" (also inside a callback)

Null == 0
Ids == 1..MaxActions
IdOrNull == 0..MaxActions

\* EventResultPriorityType
RESULT_NONE == 0
RESULT_TRY == 1
RESULT_IMPORTANT == 2
RESULT_CRITICAL == 3

\* ActionResultType
ResultTypes == {"CONTINUE", "CHANGE_TO", "SUSPEND_FOR", "DONE", "SUSTAIN"}
ActionResult ==
  {r \in [type : ResultTypes, act : IdOrNull] : r.type = "SUSPEND_FOR" => r.act # Null}
EventDesiredResult ==
  {r \in [type : ResultTypes, act : IdOrNull, prio : RESULT_NONE..RESULT_CRITICAL] :
     r.type = "SUSPEND_FOR" => r.act # Null}

\* The frames that are about to enter plugin code.
Callbacks == {"onStart", "onUpdate", "onSuspend", "onResume", "onEnd", "initial"}

ASSUME ConstantsOK ==
  /\ MaxActions \in Nat \ {0}
  /\ EventTypes \subseteq ResultTypes \ {"CONTINUE"}
  /\ Priorities \subseteq RESULT_TRY..RESULT_CRITICAL
  /\ EventsDuring \subseteq Callbacks
  /\ Resets \in {"never", "betweenUpdates", "anytime"}

Result(type, act) == [type |-> type, act |-> act]
Continue == Result("CONTINUE", Null)
Done == Result("DONE", Null)
NoPending == [type |-> "CONTINUE", act |-> Null, prio |-> RESULT_NONE]

\* IActionResult::IsRequestingChange
IsRequestingChange(r) == r.type \in {"CHANGE_TO", "SUSPEND_FOR", "DONE"}

\* Calls on an action, and calls that need none or accept NULL.
ActionOps == Callbacks \cup
  {"update", "apply", "change", "finish", "begin", "interrupt", "suspend",
   "doneSuspended", "resume", "end", "setChild", "delete", "unlink", "release", "free"}
OtherOps == {"endChild", "deleteChild", "ret", "setRoot", "purge",
             "deleteBottom", "dropBehavior", "initBehavior"}

\* A call in progress: the action it runs on, the other action it was given,
\* the ended action to destroy when the callback returns, and, for
\* ApplyResult, the result to apply.
Frame ==
  {f \in [op : ActionOps \cup OtherOps, a : IdOrNull, b : IdOrNull, drop : IdOrNull,
          res : ActionResult] :
     /\ f.op \in ActionOps => f.a # Null
     /\ f.op = "change" => f.b # Null}

VARIABLES
  created,    \* number of actions constructed so far
  freed,      \* actions whose destructor has finished
  parent,     \* m_parent
  child,      \* m_child, the active contained action
  buried,     \* m_buriedUnderMe
  covering,   \* m_coveringMe
  started,    \* m_isStarted
  suspended,  \* m_isSuspended
  pend,       \* m_eventResult
  behavior,   \* CBaseNPCIntention: "none", or "active" while m_pBehavior is set
  root,       \* Behavior::m_action
  me,         \* Behavior::m_me is set
  dead,       \* Behavior::m_deadActionVector
  ctl         \* the call stack

links == <<parent, child, buried, covering>>
flags == <<started, suspended>>
heap == <<created, freed>>
owner == <<behavior, root, me>>
vars == <<created, freed, parent, child, buried, covering, started, suspended,
          pend, behavior, root, me, dead, ctl>>

(***************************************************************************)
(* Frames, and walks along the pointers of the stack.                      *)
(***************************************************************************)
Call(op, a, b, drop) ==
  [op |-> op, a |-> a, b |-> b, drop |-> drop, res |-> Continue]
Do(op, a) == Call(op, a, Null, Null)
Apply(a, r) == [op |-> "apply", a |-> a, b |-> Null, drop |-> Null, res |-> r]

Top == Head(ctl)
Running(op) == ctl # <<>> /\ Top.op = op
\* The innermost call is replaced by the frames fs.
Becomes(fs) == ctl' = fs \o Tail(ctl)

\* Walk(f, a)[k]: the action k links away from a along the pointers f.
Walk(f, a) ==
  LET step[k \in 0..MaxActions] ==
        IF k = 0 THEN a
        ELSE IF step[k-1] \in Ids THEN f[step[k-1]] ELSE Null
  IN step
Under(a) == {Walk(buried, a)[k] : k \in 1..MaxActions} \ {Null}
\* The end of the walk from a (none when the pointers form a cycle).
Ends(f, a) ==
  {x \in Ids : f[x] = Null /\ \E k \in 0..MaxActions : Walk(f, a)[k] = x}
\* The first action under a for which P holds in the set S.
FirstUnder(a, S) ==
  {x \in S : \E k \in 1..MaxActions :
     /\ Walk(buried, a)[k] = x
     /\ \A j \in 1..(k-1) : Walk(buried, a)[j] \notin S}

\* DestroyAction: queue an ended action for deletion.
DestroyUnchecked(a) == dead' = Append(dead, a)
DestroyForgotten(a) == dead' = dead
Destroy(a) == dead' = IF a = Null THEN dead ELSE Append(dead, a)

\* Construction of an action by plugin code.
CanCreate == created < MaxActions
NewAction == created + 1

\* What OnStart, Update and OnResume may return, and how many actions the
\* callback constructed for it.  CHANGE_TO a null action is an error path.
CallbackResults ==
  {<<Continue, 0>>, <<Done, 0>>, <<Result("CHANGE_TO", Null), 0>>} \cup
  (IF CanCreate
   THEN {<<Result("CHANGE_TO", NewAction), 1>>, <<Result("SUSPEND_FOR", NewAction), 1>>}
   ELSE {})

\* SuspendFor() drops the pending event result of the action that calls it.  The
\* code does so at the call (NextBotBehavior.h:1252), here it is done when the
\* callback that asks for the suspension ends: a result stored between the two by
\* an event of that callback is dropped here and kept there.
PendingAfter(a, r) ==
  IF r.type = "SUSPEND_FOR" THEN [pend EXCEPT ![a] = NoPending] ELSE pend
-----------------------------------------------------------------------------
(***************************************************************************)
(* Behavior::Update and Action::InvokeUpdate                               *)
(***************************************************************************)

\* CBaseNPCIntention::Update and Behavior::Update, up to the root's update.
Update ==
  /\ ctl = <<>> /\ behavior = "active" /\ root # Null
  /\ me' = TRUE
  /\ ctl' = <<Do("update", root), Do("setRoot", Null)>>
  /\ UNCHANGED <<heap, links, flags, pend, behavior, root, dead>>

NeverOutOfScope(a) == FALSE
\* IsOutOfScope: an action below has already been told to leave.
IsOutOfScope(a) == \E u \in Under(a) : pend[u].type \in {"CHANGE_TO", "DONE"}

\* ProcessPendingEvents: the action whose pending result a executes, if any.
PendingSource(a) ==
  IF IsRequestingChange(pend[a]) THEN {a}
  ELSE FirstUnder(a, {u \in Ids : pend[u].type = "SUSPEND_FOR"})

InvokeUpdate ==
  /\ Running("update")
  /\ LET a == Top.a IN
     \/ /\ IsOutOfScope(a)
        /\ Becomes(<<Apply(a, Done)>>)
        /\ UNCHANGED pend
     \/ /\ ~IsOutOfScope(a) /\ ~started[a]
        /\ Becomes(<<Apply(a, Result("CHANGE_TO", a))>>)
        /\ UNCHANGED pend
     \/ /\ ~IsOutOfScope(a) /\ started[a]
        /\ \E u \in PendingSource(a) :
             /\ Becomes(<<Apply(a, Result(pend[u].type, pend[u].act))>>)
             /\ pend' = [pend EXCEPT ![u] = NoPending]
     \/ /\ ~IsOutOfScope(a) /\ started[a] /\ PendingSource(a) = {}
        /\ IF child[a] = Null
           THEN Becomes(<<Do("onUpdate", a)>>)
           ELSE Becomes(<<Do("update", child[a]), Do("setChild", a), Do("onUpdate", a)>>)
        /\ UNCHANGED pend
  /\ UNCHANGED <<heap, links, flags, owner, dead>>

\* The Update callback.
OnUpdate ==
  /\ Running("onUpdate")
  /\ \E r \in CallbackResults :
       /\ created' = created + r[2]
       /\ pend' = PendingAfter(Top.a, r[1])
       /\ Becomes(<<Apply(Top.a, r[1])>>)
  /\ UNCHANGED <<freed, links, flags, owner, dead>>

(***************************************************************************)
(* Action::ApplyResult, one action per case                                *)
(***************************************************************************)

\* CONTINUE, SUSTAIN, and CHANGE_TO a null action: nothing changes.
ApplyContinue ==
  /\ Running("apply")
  /\ \/ Top.res.type \in {"CONTINUE", "SUSTAIN"}
     \/ Top.res = Result("CHANGE_TO", Null)
  /\ Becomes(<<Do("ret", Top.a)>>)
  /\ UNCHANGED <<heap, links, flags, pend, owner, dead>>

StartThenEnd(a, n) == <<Call("change", a, n, Null), Do("end", a)>>
EndThenStart(a, n) == <<Do("end", a), Call("change", a, n, Null)>>

\* CHANGE_TO: end this action, then start the new one in its place.
ApplyChangeTo ==
  /\ Running("apply") /\ Top.res.type = "CHANGE_TO" /\ Top.res.act # Null
  /\ Becomes(EndThenStart(Top.a, Top.res.act))
  /\ UNCHANGED <<heap, links, flags, pend, owner, dead>>

\* SUSPEND_FOR: suspend whatever is on top of the stack.
ApplySuspendFor ==
  /\ Running("apply") /\ Top.res.type = "SUSPEND_FOR"
  /\ \E top \in Ends(covering, Top.a) :
       Becomes(<<Call("suspend", top, Top.res.act, Null), Do("begin", Top.res.act)>>)
  /\ UNCHANGED <<heap, links, flags, pend, owner, dead>>

\* DONE: end this action, then resume the one under it.
ApplyDone ==
  /\ Running("apply") /\ Top.res.type = "DONE"
  /\ Becomes(<<Do("end", Top.a), Call("finish", Top.a, buried[Top.a], Null)>>)
  /\ UNCHANGED <<heap, links, flags, pend, owner, dead>>

\* ... after OnEnd: an empty stack returns NULL, otherwise the uncovered
\* action resumes and the ended one is destroyed once it has.
FinishDone ==
  /\ Running("finish")
  /\ IF Top.b = Null
     THEN /\ Destroy(Top.a)
          /\ Becomes(<<Do("ret", Null)>>)
     ELSE /\ Becomes(<<Call("resume", Top.b, Null, Top.a)>>)
          /\ UNCHANGED dead
  /\ UNCHANGED <<heap, links, flags, pend, owner>>

(***************************************************************************)
(* Action::InvokeOnStart                                                   *)
(***************************************************************************)

\* InvokeOnStart(prior, under) of n, up to InitialContainedAction.  drop is
\* the action that the caller destroys when OnStart has returned.
InvokeOnStart(n, prior, under, drop) ==
  LET p == IF prior = Null THEN parent[n] ELSE parent[prior] IN
  /\ started' = [started EXCEPT ![n] = TRUE]
  /\ parent' = [parent EXCEPT ![n] = p]
  /\ child' = IF p = Null THEN child ELSE [child EXCEPT ![p] = n]
  /\ buried' = [buried EXCEPT ![n] = under]
  /\ covering' =
       [(IF under = Null THEN covering ELSE [covering EXCEPT ![under] = n])
          EXCEPT ![n] = Null]
  /\ Becomes(<<Call("initial", n, prior, drop)>>)

\* CHANGE_TO after OnEnd of the action it replaces (or starts).
StartChanged ==
  /\ Running("change")
  /\ InvokeOnStart(Top.b, Top.a, buried[Top.a], IF Top.a = Top.b THEN Null ELSE Top.a)
  /\ UNCHANGED <<heap, suspended, pend, owner, dead>>

\* SUSPEND_FOR after InvokeOnSuspend: start above the action it returned.
StartInterrupting ==
  /\ Running("interrupt")
  /\ InvokeOnStart(Top.a, Top.b, Top.b, Null)
  /\ UNCHANGED <<heap, suspended, pend, owner, dead>>

\* The InitialContainedAction callback; a child it returns is started first.
InitialContainedAction ==
  /\ Running("initial")
  /\ LET n == Top.a
         onStart == Call("onStart", n, Top.b, Top.drop)
     IN \/ /\ child' = [child EXCEPT ![n] = Null]
           /\ Becomes(<<onStart>>)
           /\ UNCHANGED <<created, parent>>
        \/ /\ CanCreate
           /\ created' = created + 1
           /\ child' = [child EXCEPT ![n] = NewAction]
           /\ parent' = [parent EXCEPT ![NewAction] = n]
           /\ Becomes(<<Apply(NewAction, Result("CHANGE_TO", NewAction)),
                        Do("setChild", n), onStart>>)
  /\ UNCHANGED <<freed, buried, covering, flags, pend, owner, dead>>

\* The OnStart callback; its result is applied at once.
OnStart ==
  /\ Running("onStart")
  /\ \E r \in CallbackResults :
       /\ created' = created + r[2]
       /\ pend' = PendingAfter(Top.a, r[1])
       /\ Becomes(<<Apply(Top.a, r[1])>>)
  /\ Destroy(Top.drop)
  /\ UNCHANGED <<freed, links, flags, owner>>

(***************************************************************************)
(* Action::InvokeOnEnd                                                     *)
(***************************************************************************)

EndParentFirst(a) == <<Do("onEnd", a), Do("endChild", child[a])>>
EndParentOnly(a) == <<Do("onEnd", a)>>
\* The contained actions leave before the one that contains them.
EndChildrenFirst(a) == <<Do("endChild", child[a]), Do("onEnd", a)>>

InvokeOnEnd ==
  /\ Running("end")
  /\ LET a == Top.a IN
     IF ~started[a]
     THEN /\ Becomes(<<>>)
          /\ UNCHANGED started
     ELSE /\ started' = [started EXCEPT ![a] = FALSE]
          /\ Becomes(EndChildrenFirst(a))
  /\ UNCHANGED <<heap, links, suspended, pend, owner, dead>>

\* The loop over the contained stack, topmost first.
EndChild ==
  /\ Running("endChild")
  /\ IF Top.a = Null
     THEN Becomes(<<>>)
     ELSE Becomes(<<Do("end", Top.a), Do("endChild", buried[Top.a])>>)
  /\ UNCHANGED <<heap, links, flags, pend, owner, dead>>

\* The OnEnd callback, then the actions stacked on top of this one.
OnEnd ==
  /\ Running("onEnd")
  /\ IF covering[Top.a] = Null
     THEN Becomes(<<>>)
     ELSE Becomes(<<Do("end", covering[Top.a])>>)
  /\ UNCHANGED <<heap, links, flags, pend, owner, dead>>

(***************************************************************************)
(* Action::InvokeOnSuspend and Action::InvokeOnResume                      *)
(***************************************************************************)

InvokeOnSuspend ==
  /\ Running("suspend")
  /\ LET a == Top.a
         onSuspend == Call("onSuspend", a, Top.b, Null)
     IN IF child[a] = Null
        THEN Becomes(<<onSuspend>>)
        ELSE Becomes(<<Call("suspend", child[a], Top.b, Null), Do("setChild", a), onSuspend>>)
  /\ UNCHANGED <<heap, links, flags, pend, owner, dead>>

MarkNothing(a) == suspended
MarkSuspended(a) == [suspended EXCEPT ![a] = TRUE]

\* The OnSuspend callback.  DONE means: replace me instead of suspending me.
OnSuspend ==
  /\ Running("onSuspend")
  /\ suspended' = MarkSuspended(Top.a)
  /\ \/ Becomes(<<Do("ret", Top.a)>>)
     \/ Becomes(<<Do("end", Top.a), Do("doneSuspended", Top.a)>>)
  /\ UNCHANGED <<heap, links, started, pend, owner, dead>>

DoneSuspended ==
  /\ Running("doneSuspended")
  /\ Destroy(Top.a)
  /\ Becomes(<<Do("ret", buried[Top.a])>>)
  /\ UNCHANGED <<heap, links, flags, pend, owner>>

InvokeOnResume ==
  /\ Running("resume")
  /\ LET a == Top.a
         onResume == Call("onResume", a, Null, Top.drop)
     IN IF ~suspended[a] \/ IsRequestingChange(pend[a])
        THEN /\ Destroy(Top.drop)
             /\ Becomes(<<Apply(a, Continue)>>)
             /\ UNCHANGED <<suspended, covering, child>>
        ELSE /\ suspended' = [suspended EXCEPT ![a] = FALSE]
             /\ covering' = [covering EXCEPT ![a] = Null]
             /\ child' = IF parent[a] = Null THEN child
                         ELSE [child EXCEPT ![parent[a]] = a]
             /\ IF child[a] = Null
                THEN Becomes(<<onResume>>)
                ELSE Becomes(<<Do("resume", child[a]), Do("setChild", a), onResume>>)
             /\ UNCHANGED dead
  /\ UNCHANGED <<heap, parent, buried, started, pend, owner>>

\* The OnResume callback; the action that ended is destroyed before its
\* result is applied.
OnResume ==
  /\ Running("onResume")
  /\ \E r \in CallbackResults :
       /\ created' = created + r[2]
       /\ pend' = PendingAfter(Top.a, r[1])
       /\ Becomes(<<Apply(Top.a, r[1])>>)
  /\ Destroy(Top.drop)
  /\ UNCHANGED <<freed, links, flags, owner>>

(***************************************************************************)
(* The action that ApplyResult or InvokeOnSuspend returns, and where the   *)
(* caller stores it: m_child, m_action (Update then purges the dead         *)
(* actions) or the local topAction of SUSPEND_FOR.                         *)
(***************************************************************************)
Return ==
  /\ Running("ret") /\ Len(ctl) > 1
  /\ LET to == ctl[2]
         v == Top.a
         Then(fs) == ctl' = fs \o Tail(Tail(ctl))
     IN \/ /\ to.op = "setChild"
           /\ child' = [child EXCEPT ![to.a] = v]
           /\ Then(<<>>)
           /\ UNCHANGED root
        \/ /\ to.op = "setRoot"
           /\ root' = v
           /\ Then(<<Do("purge", Null)>>)
           /\ UNCHANGED child
        \/ /\ to.op = "begin"
           /\ Then(<<Call("interrupt", to.a, v, Null)>>)
           /\ UNCHANGED <<root, child>>
  /\ UNCHANGED <<heap, parent, buried, covering, flags, pend, behavior, me, dead>>

(***************************************************************************)
(* Action::~Action                                                         *)
(***************************************************************************)

\* Leave the parent, then delete the contained stack, topmost first.
DeleteAction ==
  /\ Running("delete")
  /\ LET a == Top.a IN
     /\ child' = IF parent[a] # Null /\ child[parent[a]] = a
                 THEN [child EXCEPT ![parent[a]] = buried[a]] ELSE child
     /\ Becomes(<<Do("deleteChild", child'[a]), Do("unlink", a)>>)
  /\ UNCHANGED <<heap, parent, buried, covering, flags, pend, owner, dead>>

DeleteChild ==
  /\ Running("deleteChild")
  /\ IF Top.a = Null
     THEN Becomes(<<>>)
     ELSE Becomes(<<Do("delete", Top.a), Do("deleteChild", buried[Top.a])>>)
  /\ UNCHANGED <<heap, links, flags, pend, owner, dead>>

LeaveCovered(a) == covering
Uncover(a) ==
  IF buried[a] = Null THEN covering ELSE [covering EXCEPT ![buried[a]] = Null]

\* Uncover the action below and delete the actions stacked on top.
Unlink ==
  /\ Running("unlink")
  /\ LET a == Top.a IN
     /\ covering' = Uncover(a)
     /\ IF covering'[a] = Null
        THEN Becomes(<<Do("release", a)>>)
        ELSE Becomes(<<Do("delete", covering'[a]), Do("release", a)>>)
  /\ UNCHANGED <<heap, parent, child, buried, flags, pend, owner, dead>>

\* Delete the action of a pending event result.
Release ==
  /\ Running("release")
  /\ Becomes((IF pend[Top.a].act = Null THEN <<>> ELSE <<Do("delete", pend[Top.a].act)>>)
             \o <<Do("free", Top.a)>>)
  /\ UNCHANGED <<heap, links, flags, pend, owner, dead>>

\* The memory goes last, and whatever the fields held is gone with it.
Free ==
  /\ Running("free")
  /\ LET a == Top.a IN
     /\ freed' = freed \cup {a}
     /\ parent' = [parent EXCEPT ![a] = Null]
     /\ child' = [child EXCEPT ![a] = Null]
     /\ buried' = [buried EXCEPT ![a] = Null]
     /\ covering' = [covering EXCEPT ![a] = Null]
     /\ started' = [started EXCEPT ![a] = FALSE]
     /\ suspended' = [suspended EXCEPT ![a] = FALSE]
     /\ pend' = [pend EXCEPT ![a] = NoPending]
  /\ Becomes(<<>>)
  /\ UNCHANGED <<created, owner, dead>>

KeepDeleted == dead
Undeleted == Tail(dead)

\* m_deadActionVector.PurgeAndDeleteElements.
Purge ==
  /\ Running("purge")
  /\ IF dead = <<>>
     THEN /\ Becomes(<<>>)
          /\ UNCHANGED dead
     ELSE /\ Becomes(<<Do("delete", Head(dead)), Do("purge", Null)>>)
          /\ dead' = Undeleted
  /\ UNCHANGED <<heap, links, flags, pend, owner>>

(***************************************************************************)
(* CBaseNPCIntention: InitBehavior, DestroyBehavior, Reset and the         *)
(* destructor; Behavior::~Behavior                                         *)
(***************************************************************************)

\* Plugin code runs between two updates and inside callbacks.
BetweenCallsOr(ops) == IF ctl = <<>> THEN TRUE ELSE Top.op \in ops

\* DestroyBehavior, guarded by m_pBehavior; the behaviour stops receiving
\* events, then its destructor runs.
DestroyBehavior(then) ==
  ctl' = (IF me /\ root # Null THEN <<Do("end", root)>> ELSE <<>>)
         \o <<Do("deleteBottom", Null), Do("purge", Null), Do("dropBehavior", Null)>>
         \o then \o ctl

\* CBaseNPCIntention::Reset.  m_bResetting is set exactly while an
\* initBehavior frame waits, and then m_pBehavior is not set.
Reset ==
  /\ Resets # "never"
  /\ BetweenCallsOr(IF Resets = "anytime" THEN Callbacks ELSE {})
  /\ behavior = "active"
  /\ behavior' = "none"
  /\ DestroyBehavior(<<Do("initBehavior", Null)>>)
  /\ UNCHANGED <<heap, links, flags, pend, root, me, dead>>

\* ~CBaseNPCIntention, when the bot's entity goes away between two updates.
DestroyIntention ==
  /\ Resets # "never" /\ ctl = <<>> /\ behavior = "active"
  /\ behavior' = "none"
  /\ DestroyBehavior(<<>>)
  /\ UNCHANGED <<heap, links, flags, pend, root, me, dead>>

\* ~Behavior: delete the bottom of the stack; deletion runs upwards from it.
DeleteBottom ==
  /\ Running("deleteBottom")
  /\ IF root = Null
     THEN Becomes(<<>>)
     ELSE \E bottom \in Ends(buried, root) : Becomes(<<Do("delete", bottom)>>)
  /\ UNCHANGED <<heap, links, flags, pend, owner, dead>>

\* The Behavior object itself is gone.
DropBehavior ==
  /\ Running("dropBehavior")
  /\ root' = Null /\ me' = FALSE
  /\ Becomes(<<>>)
  /\ UNCHANGED <<heap, links, flags, pend, behavior, dead>>

\* InitBehavior: a new Behavior around a new initial action.
InitBehavior ==
  /\ Running("initBehavior")
  /\ IF CanCreate
     THEN /\ created' = created + 1
          /\ root' = NewAction
          /\ behavior' = "active"
     ELSE UNCHANGED <<created, root, behavior>>
  /\ Becomes(<<>>)
  /\ UNCHANGED <<freed, links, flags, pend, me, dead>>

(***************************************************************************)
(* Events (the PROCESS_EVENT macros) and StorePendingEventResult           *)
(***************************************************************************)

\* Behavior -> m_action -> m_child -> ...: an action that is not started
\* stops the event; a started one offers it to itself and those it buries.
Responders ==
  LET level[k \in 0..MaxActions] ==
        IF k = 0 THEN root
        ELSE IF level[k-1] \in Ids /\ started[level[k-1]] THEN child[level[k-1]] ELSE Null
  IN UNION {IF level[k] \in Ids /\ started[level[k]]
            THEN {level[k]} \cup Under(level[k]) ELSE {} : k \in 0..MaxActions}

AcceptsAny(prio, old) == TRUE
\* The latest result of the highest priority wins.
Accepts(prio, old) == prio >= old

\* One handler answers one event.  (Answers on several levels of one event
\* are several steps: handlers share no state but their own m_eventResult.)
Event(a, type, prio) ==
  /\ BetweenCallsOr(EventsDuring) /\ behavior = "active" /\ a \in Responders
  /\ LET creates == type \in {"CHANGE_TO", "SUSPEND_FOR"}
         new == IF creates THEN NewAction ELSE Null
         accepted == Accepts(prio, pend[a].prio)
         unused == IF accepted THEN pend[a].act ELSE new
     IN /\ creates => CanCreate
        /\ created' = IF creates THEN NewAction ELSE created
        /\ pend' = IF accepted
                   THEN [pend EXCEPT ![a] = [type |-> type, act |-> new, prio |-> prio]]
                   ELSE pend
        /\ ctl' = IF unused = Null THEN ctl ELSE <<Do("delete", unused)>> \o ctl
  /\ UNCHANGED <<freed, links, flags, owner, dead>>

-----------------------------------------------------------------------------
Init ==
  /\ created = 1 /\ freed = {}
  /\ parent = [a \in Ids |-> Null] /\ child = [a \in Ids |-> Null]
  /\ buried = [a \in Ids |-> Null] /\ covering = [a \in Ids |-> Null]
  /\ started = [a \in Ids |-> FALSE] /\ suspended = [a \in Ids |-> FALSE]
  /\ pend = [a \in Ids |-> NoPending]
  /\ behavior = "active" /\ root = 1 /\ me = FALSE
  /\ dead = <<>> /\ ctl = <<>>

\* The engine's own code.
Engine ==
  \/ InvokeUpdate \/ OnUpdate
  \/ ApplyContinue \/ ApplyChangeTo \/ ApplySuspendFor \/ ApplyDone \/ FinishDone
  \/ StartChanged \/ StartInterrupting \/ InitialContainedAction \/ OnStart
  \/ InvokeOnEnd \/ EndChild \/ OnEnd
  \/ InvokeOnSuspend \/ OnSuspend \/ DoneSuspended \/ InvokeOnResume \/ OnResume
  \/ Return
  \/ DeleteAction \/ DeleteChild \/ Unlink \/ Release \/ Free \/ Purge
  \/ DeleteBottom \/ DropBehavior \/ InitBehavior

\* The game and plugin code that call into it.
World ==
  \/ Update \/ Reset \/ DestroyIntention
  \/ \E a \in Ids, type \in EventTypes, prio \in Priorities : Event(a, type, prio)

Next == Engine \/ World

Spec == Init /\ [][Next]_vars

\* The game calls Update every tick and a call that was made runs on.
FairSpec == Spec /\ WF_vars(Engine) /\ WF_vars(Update)

-----------------------------------------------------------------------------
(***************************************************************************)
(* Properties of the engine                                                *)
(***************************************************************************)

\* Type correctness of every pointer, flag, result and call frame.
TypeOK ==
  /\ created \in 0..MaxActions
  /\ freed \subseteq Ids
  /\ parent \in [Ids -> IdOrNull] /\ child \in [Ids -> IdOrNull]
  /\ buried \in [Ids -> IdOrNull] /\ covering \in [Ids -> IdOrNull]
  /\ started \in [Ids -> BOOLEAN] /\ suspended \in [Ids -> BOOLEAN]
  /\ pend \in [Ids -> EventDesiredResult]
  /\ behavior \in {"none", "active"}
  /\ root \in IdOrNull /\ me \in BOOLEAN
  /\ dead \in Seq(Ids)
  /\ ctl \in Seq(Frame)

\* The actions that a call reads or writes when it runs next.
Uses(f) ==
  ({f.a, f.b, f.drop, f.res.act} \cup
   (CASE f.op = "delete" /\ f.a # Null -> {parent[f.a]}
      [] f.op = "unlink" -> {buried[f.a]}
      [] OTHER -> {})) \ {Null}

\* No call in progress, queued deletion or running behaviour still refers to
\* an action whose destructor has finished: what DestroyAction's deferred
\* deletion is for.
CallsTouchLiveActions ==
  /\ \A i \in DOMAIN ctl : Uses(ctl[i]) \cap freed = {}
  /\ \A i \in DOMAIN dead : dead[i] \notin freed
  /\ behavior = "active" => root \notin freed

\* The actions Behavior::ContainsAction finds: from the root and the dead
\* vector through contained, buried and pending actions.
Contained ==
  LET grow[k \in 0..MaxActions] ==
        IF k = 0 THEN ({root} \cup {dead[i] : i \in DOMAIN dead}) \ {Null}
        ELSE grow[k-1] \cup
             (UNION {{child[a], buried[a], pend[a].act} : a \in grow[k-1]} \ {Null})
  IN grow[MaxActions]

BetweenUpdates == ctl = <<>> /\ behavior = "active"

\* Between two updates every action that was constructed and not destroyed
\* is still owned by the behaviour: "so we don't leak action memory".
NoLeak == ctl = <<>> => (1..created) \ freed \subseteq Contained

\* An action that waits under another one is started and suspended, so that
\* it will be resumed, and not updated, when it is uncovered.
BuriedAreSuspended ==
  BetweenUpdates =>
    \A a \in Contained : buried[a] # Null => suspended[buried[a]] /\ started[buried[a]]

\* Between two updates the links still make one stack of every level, although
\* transitions, refused suspensions and deferred deletions update the two
\* directions at different times.  A link up leads to the action that is buried
\* the other way; an action is buried under one other at most, and not while it
\* is on top (m_action, m_child); its link up leads to that other or is lost.
StackLinksAgree ==
  BetweenUpdates =>
    /\ \A a \in Contained :
         /\ covering[a] # Null => buried[covering[a]] = a
         /\ child[a] # Null => covering[child[a]] = Null
         /\ a = root => covering[a] = Null /\ parent[a] = Null
    /\ \A a \in Contained : buried[a] # Null =>
         /\ covering[buried[a]] \in {a, Null}
         /\ \A b \in Contained \ {a} : buried[b] # buried[a] /\ child[b] # buried[a]

\* m_coveringMe is "the Action just above us in the stack": violated.  After a
\* CHANGE_TO above a buried action its successor covers that one; then the
\* destructor of the replaced action clears the link (NextBotBehavior.h:1202).
BuriedKnowTheirCover ==
  BetweenUpdates => \A a \in Contained : buried[a] # Null => covering[buried[a]] = a

\* While its behaviour runs, an action is never destroyed between its OnStart
\* and its OnEnd, whatever transition, suspension or deletion removes it.
EndedBeforeFreed ==
  [][\A a \in freed' \ freed : behavior = "active" => ~started[a]]_vars

\* "An Action can count on each OnStart() being followed (eventually) with
\* an OnEnd()": the same, also when the behaviour itself is destroyed.
EveryStartHasAnEnd == [][\A a \in freed' \ freed : ~started[a]]_vars

ContainedStack(a) ==
  IF child[a] = Null THEN {} ELSE {child[a]} \cup Under(child[a])

\* When an action's OnEnd runs, everything it contains has ended already.
ChildrenEndFirst == Running("onEnd") => \A c \in ContainedStack(Top.a) : ~started[c]

\* When OnStart of a replacement runs, the action it replaces and all that
\* one contains have ended: transitions are atomic.
ReplacedEndsFirst ==
  Running("onStart") /\ Top.drop # Null =>
    ~started[Top.drop] /\ \A c \in ContainedStack(Top.drop) : ~started[c]

\* IsSuspended is true only of an action "suspended for another Action", so
\* never of one whose own Update is called.
SuspendedNeverUpdated == Running("onUpdate") => ~suspended[Top.a]

\* How a stored event result may lose its priority: when it is executed, when
\* its owner suspends itself, or with its owner.
DowngradedOnlyByUse ==
  \A a \in Ids :
    pend'[a].prio < pend[a].prio =>
      \/ Running("update")
      \/ Running("free") /\ Top.a = a
      \/ /\ ctl # <<>> /\ Top.op \in {"onStart", "onUpdate", "onResume"} /\ Top.a = a
         /\ ctl' # <<>> /\ ctl'[1].res.type = "SUSPEND_FOR"

\* StorePendingEventResult never loses a stored result to one of lower
\* priority, whichever callbacks the events arrive in.
PendingNotDowngraded == [][DowngradedOnlyByUse]_vars

\* Every call into the engine returns (its callbacks construct finitely many
\* actions): no walk, deletion or transition runs in circles.
CallsReturn == (ctl # <<>>) ~> (ctl = <<>>)

RootStack == ({root} \cup Under(root)) \ {Null}
ToldToLeave(a) ==
  a \in RootStack /\ started[a] /\ pend[a].type \in {"DONE", "CHANGE_TO"}

\* An action of the root stack that an event told to leave, however deep it
\* is buried, does not linger: the actions above it go out of scope.
LeaveRequestsHonoured == \A a \in Ids : ToldToLeave(a) ~> ~ToldToLeave(a)
=============================================================================
