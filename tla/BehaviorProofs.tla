--------------------------- MODULE BehaviorProofs ---------------------------
(***************************************************************************)
(* Proofs about the behaviour engine, for every bound on the number of     *)
(* actions and every choice of the other constants of Behavior.            *)
(***************************************************************************)
EXTENDS Behavior, SequenceTheorems, WellFoundedInduction, TLAPS

USE DEF Null

\* There is room for an action at least.
LEMMA BoundPositive == MaxActions \in Nat /\ MaxActions >= 1
BY ConstantsOK

\* An action or none: what is not none is an action.
LEMMA Ranges ==
  /\ Null \in IdOrNull
  /\ Ids \subseteq IdOrNull
  /\ \A a \in IdOrNull : a # Null => a \in Ids
BY BoundPositive DEF Ids, IdOrNull

\* Nothing pending is a pending result.
LEMMA NoPendingTyped == NoPending \in EventDesiredResult
BY Ranges DEF NoPending, EventDesiredResult, ResultTypes, RESULT_NONE, RESULT_CRITICAL

\* The frames a step pushes are well-typed calls.
LEMMA CallTyped ==
  ASSUME NEW op \in ActionOps \ {"change"}, NEW a \in Ids,
         NEW b \in IdOrNull, NEW d \in IdOrNull
  PROVE  Call(op, a, b, d) \in Frame
BY Ranges DEF Call, Frame, Continue, Result, ActionResult, ResultTypes, Ids

\* A result that changes the action is a result.
LEMMA ChangeTyped ==
  ASSUME NEW a \in Ids, NEW b \in Ids
  PROVE  Call("change", a, b, Null) \in Frame
BY Ranges DEF Call, Frame, Continue, Result, ActionResult, ResultTypes, Ids, ActionOps

\* A call on the stack is a call.
LEMMA DoTyped ==
  ASSUME NEW op \in ActionOps \ {"change"}, NEW a \in Ids
  PROVE  Do(op, a) \in Frame
BY CallTyped, Ranges DEF Do

\* A call on another action is a call.
LEMMA DoOtherTyped ==
  ASSUME NEW op \in OtherOps, NEW a \in IdOrNull
  PROVE  Do(op, a) \in Frame
BY Ranges DEF Do, Call, Frame, Continue, Result, ActionResult, ResultTypes, ActionOps, OtherOps, Callbacks

\* A result that is to be applied is a call.
LEMMA ApplyTyped ==
  ASSUME NEW a \in Ids, NEW r \in ActionResult
  PROVE  Apply(a, r) \in Frame
BY Ranges DEF Apply, Frame, ActionOps, Ids

\* The innermost call, and the calls that remain when it returns.
LEMMA TopTyped ==
  ASSUME ctl \in Seq(Frame), ctl # <<>>
  PROVE  /\ Top \in Frame
         /\ Tail(ctl) \in Seq(Frame)
BY HeadTailProperties DEF Top

\* Calls that replace the innermost one leave a stack of calls.
LEMMA BecomesTyped ==
  ASSUME ctl \in Seq(Frame), ctl # <<>>, NEW fs \in Seq(Frame), Becomes(fs)
  PROVE  ctl' \in Seq(Frame)
BY TopTyped, ConcatProperties DEF Becomes

\* Queueing an action for deletion keeps the vector well typed.
LEMMA DestroyTyped ==
  ASSUME dead \in Seq(Ids), NEW a \in IdOrNull, Destroy(a)
  PROVE  dead' \in Seq(Ids)
<1>1. CASE a = Null
  BY <1>1 DEF Destroy
<1>2. CASE a # Null
  <2>1. a \in Ids
    BY <1>2, Ranges
  <2>. QED
    BY <1>2, <2>1, AppendProperties DEF Destroy
<1>. QED
  BY <1>1, <1>2

\* Zero to two frames, as the steps push them.
LEMMA FramesTyped ==
  /\ <<>> \in Seq(Frame)
  /\ \A f \in Frame : <<f>> \in Seq(Frame)
  /\ \A f, g \in Frame : <<f, g>> \in Seq(Frame)
  /\ \A f, g, h \in Frame : <<f, g, h>> \in Seq(Frame)
OBVIOUS

\* The initial states have their types.
LEMMA InitTyped == Init => TypeOK
<1> SUFFICES ASSUME Init PROVE TypeOK
  OBVIOUS
<1>2. pend \in [Ids -> EventDesiredResult]
  BY NoPendingTyped DEF Init
<1>3. /\ parent \in [Ids -> IdOrNull] /\ child \in [Ids -> IdOrNull]
      /\ buried \in [Ids -> IdOrNull] /\ covering \in [Ids -> IdOrNull]
  BY Ranges DEF Init
<1>4. started \in [Ids -> BOOLEAN] /\ suspended \in [Ids -> BOOLEAN]
  BY DEF Init
<1>5. created \in 0..MaxActions /\ root \in IdOrNull
  BY BoundPositive DEF Init, IdOrNull
<1>6. freed \subseteq Ids /\ dead \in Seq(Ids) /\ ctl \in Seq(Frame)
  BY DEF Init
<1>7. behavior \in {"none", "active"} /\ me \in BOOLEAN
  BY DEF Init
<1>. QED
  BY <1>2, <1>3, <1>4, <1>5, <1>6, <1>7 DEF TypeOK

\* What a callback returns is a result.
LEMMA ResultsTyped ==
  /\ Continue \in ActionResult /\ Done \in ActionResult
  /\ \A a \in IdOrNull : Result("CHANGE_TO", a) \in ActionResult
  /\ \A a \in Ids : Result("SUSPEND_FOR", a) \in ActionResult
BY Ranges DEF Continue, Done, Result, ActionResult, ResultTypes, Ids

\* What a callback of action a may return is a well-typed result.
LEMMA CallbackTyped ==
  ASSUME TypeOK, NEW r \in CallbackResults
  PROVE  /\ r[1] \in ActionResult
         /\ created + r[2] \in 0..MaxActions
<1>1. created + 0 \in 0..MaxActions /\ (CanCreate => created + 1 \in 0..MaxActions)
  BY BoundPositive DEF TypeOK, CanCreate
<1>2. CanCreate => NewAction \in Ids
  BY <1>1 DEF NewAction, Ids, TypeOK
<1>. QED
  BY <1>1, <1>2, ResultsTyped, Ranges DEF CallbackResults

\* What an event leaves pending is a pending result.
LEMMA PendingAfterTyped ==
  ASSUME TypeOK, NEW a, NEW r
  PROVE  PendingAfter(a, r) \in [Ids -> EventDesiredResult]
BY NoPendingTyped DEF PendingAfter, TypeOK

\* What every engine step starts from.
LEMMA CallInProgress ==
  ASSUME TypeOK, NEW op, Running(op)
  PROVE  /\ ctl \in Seq(Frame) /\ ctl # <<>>
         /\ Top.op = op
         /\ Top.a \in IdOrNull /\ Top.b \in IdOrNull /\ Top.drop \in IdOrNull
         /\ Top.res \in ActionResult /\ Top.res.act \in IdOrNull
         /\ op \in ActionOps => Top.a \in Ids
         /\ op = "change" => Top.b \in Ids
<1>1. ctl \in Seq(Frame) /\ ctl # <<>> /\ Top.op = op
  BY DEF TypeOK, Running
<1>2. Top \in Frame
  BY <1>1, TopTyped
<1>. QED
  BY <1>1, <1>2, Ranges DEF Frame, ActionResult

\* What the fields of an action hold.
LEMMA FieldTyped ==
  ASSUME TypeOK, NEW a \in Ids
  PROVE  /\ parent[a] \in IdOrNull /\ child[a] \in IdOrNull
         /\ buried[a] \in IdOrNull /\ covering[a] \in IdOrNull
         /\ pend[a] \in EventDesiredResult /\ pend[a].act \in IdOrNull
         /\ Result(pend[a].type, pend[a].act) \in ActionResult
BY DEF TypeOK, EventDesiredResult, ActionResult, Result

\* A step that only moves the call stack.
LEMMA OnlyControlTyped ==
  ASSUME TypeOK, UNCHANGED <<heap, links, flags, pend, owner, dead>>, ctl' \in Seq(Frame)
  PROVE  TypeOK'
BY DEF TypeOK, heap, links, flags, owner

\* The callbacks that return a result.
LEMMA OnUpdateTyped == TypeOK /\ OnUpdate => TypeOK'
<1> SUFFICES ASSUME TypeOK, OnUpdate PROVE TypeOK'
  OBVIOUS
<1>1. Running("onUpdate")
  BY DEF OnUpdate
<1>2. ctl \in Seq(Frame) /\ ctl # <<>> /\ Top.a \in Ids
  BY <1>1, CallInProgress DEF ActionOps, Callbacks
<1>3. PICK r \in CallbackResults :
        /\ created' = created + r[2]
        /\ pend' = PendingAfter(Top.a, r[1])
        /\ Becomes(<<Apply(Top.a, r[1])>>)
  BY DEF OnUpdate
<1>4. created' \in 0..MaxActions /\ pend' \in [Ids -> EventDesiredResult]
  BY <1>2, <1>3, CallbackTyped, PendingAfterTyped
<1>5. ctl' \in Seq(Frame)
  BY <1>2, <1>3, CallbackTyped, ApplyTyped, FramesTyped, BecomesTyped
<1>. QED
  BY <1>4, <1>5 DEF OnUpdate, TypeOK, links, flags, owner

\* OnStart and OnResume keep the types.
LEMMA OnStartTyped == TypeOK /\ (OnStart \/ OnResume) => TypeOK'
<1> SUFFICES ASSUME TypeOK, OnStart \/ OnResume PROVE TypeOK'
  OBVIOUS
<1>1. Running("onStart") \/ Running("onResume")
  BY DEF OnStart, OnResume
<1>2. ctl \in Seq(Frame) /\ ctl # <<>> /\ Top.a \in Ids /\ Top.drop \in IdOrNull
  BY <1>1, CallInProgress DEF ActionOps, Callbacks
<1>3. PICK r \in CallbackResults :
        /\ created' = created + r[2]
        /\ pend' = PendingAfter(Top.a, r[1])
        /\ Becomes(<<Apply(Top.a, r[1])>>)
  BY DEF OnStart, OnResume
<1>4. created' \in 0..MaxActions /\ pend' \in [Ids -> EventDesiredResult]
  BY <1>2, <1>3, CallbackTyped, PendingAfterTyped
<1>5. ctl' \in Seq(Frame)
  BY <1>2, <1>3, CallbackTyped, ApplyTyped, FramesTyped, BecomesTyped
<1>6. dead' \in Seq(Ids)
  BY <1>2, DestroyTyped DEF OnStart, OnResume, TypeOK
<1>. QED
  BY <1>4, <1>5, <1>6 DEF OnStart, OnResume, TypeOK, links, flags, owner

\* InvokeUpdate keeps the types.
LEMMA InvokeUpdateTyped == TypeOK /\ InvokeUpdate => TypeOK'
<1> SUFFICES ASSUME TypeOK, InvokeUpdate PROVE TypeOK'
  OBVIOUS
<1>1. Running("update") /\ UNCHANGED <<heap, links, flags, owner, dead>>
  BY DEF InvokeUpdate
<1>2. ctl \in Seq(Frame) /\ ctl # <<>> /\ Top.a \in Ids
  BY <1>1, CallInProgress DEF ActionOps
<1> DEFINE a == Top.a
<1>3. CASE Becomes(<<Apply(a, Done)>>) /\ UNCHANGED pend
  <2>1. ctl' \in Seq(Frame)
    BY <1>2, <1>3, ResultsTyped, ApplyTyped, FramesTyped, BecomesTyped
  <2>. QED
    BY <1>1, <1>3, <2>1, OnlyControlTyped
<1>4. CASE Becomes(<<Apply(a, Result("CHANGE_TO", a))>>) /\ UNCHANGED pend
  <2>1. ctl' \in Seq(Frame)
    BY <1>2, <1>4, Ranges, ResultsTyped, ApplyTyped, FramesTyped, BecomesTyped
  <2>. QED
    BY <1>1, <1>4, <2>1, OnlyControlTyped
<1>5. ASSUME NEW u \in PendingSource(a),
             Becomes(<<Apply(a, Result(pend[u].type, pend[u].act))>>),
             pend' = [pend EXCEPT ![u] = NoPending]
      PROVE  TypeOK'
  <2>1. u \in Ids
    BY <1>2, <1>5 DEF PendingSource, FirstUnder
  <2>2. ctl' \in Seq(Frame)
    BY <1>2, <1>5, <2>1, FieldTyped, ApplyTyped, FramesTyped, BecomesTyped
  <2>3. pend' \in [Ids -> EventDesiredResult]
    BY <1>5, NoPendingTyped DEF TypeOK
  <2>. QED
    BY <1>1, <2>2, <2>3 DEF TypeOK, heap, links, flags, owner
<1>6. CASE /\ IF child[a] = Null
              THEN Becomes(<<Do("onUpdate", a)>>)
              ELSE Becomes(<<Do("update", child[a]), Do("setChild", a), Do("onUpdate", a)>>)
           /\ UNCHANGED pend
  <2>1. Do("onUpdate", a) \in Frame /\ Do("setChild", a) \in Frame
    BY <1>2, DoTyped DEF ActionOps, Callbacks
  <2>2. child[a] # Null => Do("update", child[a]) \in Frame
    BY <1>2, FieldTyped, Ranges, DoTyped DEF ActionOps
  <2>3. ctl' \in Seq(Frame)
    BY <1>2, <1>6, <2>1, <2>2, FramesTyped, BecomesTyped
  <2>. QED
    BY <1>1, <1>6, <2>3, OnlyControlTyped
<1>. QED
  BY <1>3, <1>4, <1>5, <1>6 DEF InvokeUpdate

\* ApplyResult.
LEMMA ApplyResultTyped ==
  TypeOK /\ (ApplyContinue \/ ApplyChangeTo \/ ApplySuspendFor \/ ApplyDone) => TypeOK'
<1> SUFFICES ASSUME TypeOK, ApplyContinue \/ ApplyChangeTo \/ ApplySuspendFor \/ ApplyDone
             PROVE  TypeOK'
  OBVIOUS
<1>1. Running("apply") /\ UNCHANGED <<heap, links, flags, pend, owner, dead>>
  BY DEF ApplyContinue, ApplyChangeTo, ApplySuspendFor, ApplyDone
<1>2. /\ ctl \in Seq(Frame) /\ ctl # <<>> /\ Top.a \in Ids
      /\ Top.res \in ActionResult /\ Top.res.act \in IdOrNull
  BY <1>1, CallInProgress DEF ActionOps
<1>3. ASSUME ApplyContinue PROVE ctl' \in Seq(Frame)
  <2>1. Do("ret", Top.a) \in Frame
    BY <1>2, Ranges, DoOtherTyped DEF OtherOps
  <2>. QED
    BY <1>2, <1>3, <2>1, FramesTyped, BecomesTyped DEF ApplyContinue
<1>4. ASSUME ApplyChangeTo PROVE ctl' \in Seq(Frame)
  <2>1. Top.res.act \in Ids
    BY <1>2, <1>4, Ranges DEF ApplyChangeTo
  <2>2. Do("end", Top.a) \in Frame /\ Call("change", Top.a, Top.res.act, Null) \in Frame
    BY <1>2, <2>1, DoTyped, ChangeTyped DEF ActionOps
  <2>. QED
    BY <1>2, <1>4, <2>2, FramesTyped, BecomesTyped DEF ApplyChangeTo, EndThenStart
<1>5. ASSUME ApplySuspendFor PROVE ctl' \in Seq(Frame)
  <2>1. Top.res.act \in Ids
    BY <1>2, <1>5, Ranges DEF ApplySuspendFor, ActionResult
  <2>2. PICK top \in Ends(covering, Top.a) :
          Becomes(<<Call("suspend", top, Top.res.act, Null), Do("begin", Top.res.act)>>)
    BY <1>5 DEF ApplySuspendFor
  <2>3. top \in Ids
    BY <2>2 DEF Ends
  <2>4. Call("suspend", top, Top.res.act, Null) \in Frame /\ Do("begin", Top.res.act) \in Frame
    BY <2>1, <2>3, Ranges, CallTyped, DoTyped DEF ActionOps
  <2>. QED
    BY <1>2, <2>2, <2>4, FramesTyped, BecomesTyped
<1>6. ASSUME ApplyDone PROVE ctl' \in Seq(Frame)
  <2>1. Do("end", Top.a) \in Frame /\ Call("finish", Top.a, buried[Top.a], Null) \in Frame
    BY <1>2, FieldTyped, Ranges, DoTyped, CallTyped DEF ActionOps
  <2>. QED
    BY <1>2, <1>6, <2>1, FramesTyped, BecomesTyped DEF ApplyDone
<1>7. ctl' \in Seq(Frame)
  BY <1>3, <1>4, <1>5, <1>6
<1>. QED
  BY <1>1, <1>7, OnlyControlTyped

\* The end of ApplyResult's DONE keeps the types.
LEMMA FinishDoneTyped == TypeOK /\ FinishDone => TypeOK'
<1> SUFFICES ASSUME TypeOK, FinishDone PROVE TypeOK'
  OBVIOUS
<1>1. Running("finish") /\ UNCHANGED <<heap, links, flags, pend, owner>>
  BY DEF FinishDone
<1>2. ctl \in Seq(Frame) /\ ctl # <<>> /\ Top.a \in Ids /\ Top.b \in IdOrNull
  BY <1>1, CallInProgress DEF ActionOps
<1>3. Do("ret", Null) \in Frame
  BY Ranges, DoOtherTyped DEF OtherOps
<1>4. Top.b # Null => Call("resume", Top.b, Null, Top.a) \in Frame
  BY <1>2, Ranges, CallTyped DEF ActionOps
<1>5. ctl' \in Seq(Frame)
  BY <1>2, <1>3, <1>4, FramesTyped, BecomesTyped DEF FinishDone
<1>6. dead' \in Seq(Ids)
  BY <1>2, Ranges, DestroyTyped DEF FinishDone, TypeOK
<1>. QED
  BY <1>1, <1>5, <1>6 DEF TypeOK, heap, links, flags, owner

\* InvokeOnStart, on behalf of CHANGE_TO and of SUSPEND_FOR.
LEMMA InvokeOnStartTyped ==
  ASSUME TypeOK, ctl # <<>>, NEW n \in Ids, NEW prior \in IdOrNull, NEW under \in IdOrNull,
         NEW drop \in IdOrNull, InvokeOnStart(n, prior, under, drop),
         UNCHANGED <<heap, suspended, pend, owner, dead>>
  PROVE  TypeOK'
<1> DEFINE p == IF prior = Null THEN parent[n] ELSE parent[prior]
<1>1. p \in IdOrNull
  BY FieldTyped, Ranges
<1>2. started' \in [Ids -> BOOLEAN]
  BY DEF TypeOK, InvokeOnStart
<1>3. parent' \in [Ids -> IdOrNull] /\ child' \in [Ids -> IdOrNull]
  BY <1>1, Ranges DEF TypeOK, InvokeOnStart
<1>4. buried' \in [Ids -> IdOrNull] /\ covering' \in [Ids -> IdOrNull]
  BY Ranges DEF TypeOK, InvokeOnStart
<1>5. Call("initial", n, prior, drop) \in Frame
  BY CallTyped DEF ActionOps, Callbacks
<1>6. ctl' \in Seq(Frame)
  BY <1>5, FramesTyped, BecomesTyped DEF TypeOK, InvokeOnStart
<1>. QED
  BY <1>2, <1>3, <1>4, <1>6 DEF TypeOK, heap, owner

\* A change or a suspension that starts its action keeps the types.
LEMMA StartTyped == TypeOK /\ (StartChanged \/ StartInterrupting) => TypeOK'
<1>1. ASSUME TypeOK, StartChanged PROVE TypeOK'
  <2>1. Running("change")
    BY <1>1 DEF StartChanged
  <2>2. ctl # <<>> /\ Top.a \in Ids /\ Top.b \in Ids
    BY <1>1, <2>1, CallInProgress DEF ActionOps
  <2> DEFINE drop == IF Top.a = Top.b THEN Null ELSE Top.a
  <2>3. drop \in IdOrNull /\ buried[Top.a] \in IdOrNull /\ Top.a \in IdOrNull
    BY <1>1, <2>2, FieldTyped, Ranges
  <2>4. InvokeOnStart(Top.b, Top.a, buried[Top.a], drop)
    BY <1>1 DEF StartChanged
  <2>5. UNCHANGED <<heap, suspended, pend, owner, dead>>
    BY <1>1 DEF StartChanged
  <2> HIDE DEF drop
  <2>. QED
    BY <1>1, <2>2, <2>3, <2>4, <2>5, InvokeOnStartTyped
<1>2. ASSUME TypeOK, StartInterrupting PROVE TypeOK'
  <2>1. Running("interrupt")
    BY <1>2 DEF StartInterrupting
  <2>2. ctl # <<>> /\ Top.a \in Ids /\ Top.b \in IdOrNull
    BY <1>2, <2>1, CallInProgress DEF ActionOps
  <2>. QED
    BY <1>2, <2>2, Ranges, InvokeOnStartTyped DEF StartInterrupting
<1>. QED
  BY <1>1, <1>2

\* InitialContainedAction keeps the types.
LEMMA InitialContainedActionTyped == TypeOK /\ InitialContainedAction => TypeOK'
<1> SUFFICES ASSUME TypeOK, InitialContainedAction PROVE TypeOK'
  OBVIOUS
<1>1. Running("initial") /\ UNCHANGED <<freed, buried, covering, flags, pend, owner, dead>>
  BY DEF InitialContainedAction
<1>2. /\ ctl \in Seq(Frame) /\ ctl # <<>> /\ Top.a \in Ids
      /\ Top.b \in IdOrNull /\ Top.drop \in IdOrNull
  BY <1>1, CallInProgress DEF ActionOps, Callbacks
<1> DEFINE n == Top.a
           onStart == Call("onStart", n, Top.b, Top.drop)
<1>3. onStart \in Frame
  BY <1>2, CallTyped DEF ActionOps, Callbacks
<1>4. ASSUME child' = [child EXCEPT ![n] = Null], Becomes(<<onStart>>),
             UNCHANGED <<created, parent>>
      PROVE  TypeOK'
  <2>1. ctl' \in Seq(Frame)
    BY <1>2, <1>3, <1>4, FramesTyped, BecomesTyped
  <2>2. child' \in [Ids -> IdOrNull]
    BY <1>4, Ranges DEF TypeOK
  <2>. QED
    BY <1>1, <1>4, <2>1, <2>2 DEF TypeOK, flags, owner
<1>5. ASSUME CanCreate, created' = created + 1,
             child' = [child EXCEPT ![n] = NewAction],
             parent' = [parent EXCEPT ![NewAction] = n],
             Becomes(<<Apply(NewAction, Result("CHANGE_TO", NewAction)), Do("setChild", n), onStart>>)
      PROVE  TypeOK'
  <2>1. created' \in 0..MaxActions /\ NewAction \in Ids
    BY <1>5, BoundPositive DEF TypeOK, CanCreate, NewAction, Ids
  <2>2. child' \in [Ids -> IdOrNull] /\ parent' \in [Ids -> IdOrNull]
    BY <1>2, <1>5, <2>1, Ranges DEF TypeOK
  <2>3. Apply(NewAction, Result("CHANGE_TO", NewAction)) \in Frame
    BY <2>1, Ranges, ResultsTyped, ApplyTyped
  <2>4. Do("setChild", n) \in Frame
    BY <1>2, DoTyped DEF ActionOps
  <2>5. ctl' \in Seq(Frame)
    BY <1>2, <1>3, <1>5, <2>3, <2>4, FramesTyped, BecomesTyped
  <2>. QED
    BY <1>1, <2>1, <2>2, <2>5 DEF TypeOK, flags, owner
<1>. QED
  BY <1>4, <1>5 DEF InitialContainedAction

\* InvokeOnEnd, its loop over the contained stack, and OnEnd.
LEMMA OnEndTyped == TypeOK /\ (InvokeOnEnd \/ EndChild \/ OnEnd) => TypeOK'
<1>1. ASSUME TypeOK, InvokeOnEnd PROVE TypeOK'
  <2>1. Running("end") /\ UNCHANGED <<heap, links, suspended, pend, owner, dead>>
    BY <1>1 DEF InvokeOnEnd
  <2>2. ctl \in Seq(Frame) /\ ctl # <<>> /\ Top.a \in Ids
    BY <1>1, <2>1, CallInProgress DEF ActionOps
  <2>3. Do("endChild", child[Top.a]) \in Frame /\ Do("onEnd", Top.a) \in Frame
    BY <1>1, <2>2, FieldTyped, DoOtherTyped, DoTyped DEF OtherOps, ActionOps, Callbacks
  <2>4. ctl' \in Seq(Frame)
    BY <1>1, <2>2, <2>3, FramesTyped, BecomesTyped DEF InvokeOnEnd, EndChildrenFirst
  <2>5. started' \in [Ids -> BOOLEAN]
    BY <1>1 DEF InvokeOnEnd, TypeOK
  <2>. QED
    BY <1>1, <2>1, <2>4, <2>5 DEF TypeOK, heap, links, owner
<1>2. ASSUME TypeOK, EndChild PROVE TypeOK'
  <2>1. Running("endChild") /\ UNCHANGED <<heap, links, flags, pend, owner, dead>>
    BY <1>2 DEF EndChild
  <2>2. ctl \in Seq(Frame) /\ ctl # <<>> /\ Top.a \in IdOrNull
    BY <1>2, <2>1, CallInProgress
  <2>3. Top.a # Null => Do("end", Top.a) \in Frame /\ Do("endChild", buried[Top.a]) \in Frame
    BY <1>2, <2>2, FieldTyped, Ranges, DoOtherTyped, DoTyped DEF OtherOps, ActionOps
  <2>4. ctl' \in Seq(Frame)
    BY <1>2, <2>2, <2>3, FramesTyped, BecomesTyped DEF EndChild
  <2>. QED
    BY <1>2, <2>1, <2>4, OnlyControlTyped
<1>3. ASSUME TypeOK, OnEnd PROVE TypeOK'
  <2>1. Running("onEnd") /\ UNCHANGED <<heap, links, flags, pend, owner, dead>>
    BY <1>3 DEF OnEnd
  <2>2. ctl \in Seq(Frame) /\ ctl # <<>> /\ Top.a \in Ids
    BY <1>3, <2>1, CallInProgress DEF ActionOps, Callbacks
  <2>3. covering[Top.a] # Null => Do("end", covering[Top.a]) \in Frame
    BY <1>3, <2>2, FieldTyped, Ranges, DoTyped DEF ActionOps
  <2>4. ctl' \in Seq(Frame)
    BY <1>3, <2>2, <2>3, FramesTyped, BecomesTyped DEF OnEnd
  <2>. QED
    BY <1>3, <2>1, <2>4, OnlyControlTyped
<1>. QED
  BY <1>1, <1>2, <1>3

\* InvokeOnSuspend and the OnSuspend callback.
LEMMA OnSuspendTyped == TypeOK /\ (InvokeOnSuspend \/ OnSuspend \/ DoneSuspended) => TypeOK'
<1>1. ASSUME TypeOK, InvokeOnSuspend PROVE TypeOK'
  <2>1. Running("suspend") /\ UNCHANGED <<heap, links, flags, pend, owner, dead>>
    BY <1>1 DEF InvokeOnSuspend
  <2>2. ctl \in Seq(Frame) /\ ctl # <<>> /\ Top.a \in Ids /\ Top.b \in IdOrNull
    BY <1>1, <2>1, CallInProgress DEF ActionOps
  <2>3. Call("onSuspend", Top.a, Top.b, Null) \in Frame /\ Do("setChild", Top.a) \in Frame
    BY <2>2, Ranges, CallTyped, DoTyped DEF ActionOps, Callbacks
  <2>4. child[Top.a] # Null => Call("suspend", child[Top.a], Top.b, Null) \in Frame
    BY <1>1, <2>2, FieldTyped, Ranges, CallTyped DEF ActionOps
  <2>5. ctl' \in Seq(Frame)
    BY <1>1, <2>2, <2>3, <2>4, FramesTyped, BecomesTyped DEF InvokeOnSuspend
  <2>. QED
    BY <1>1, <2>1, <2>5, OnlyControlTyped
<1>2. ASSUME TypeOK, OnSuspend PROVE TypeOK'
  <2>1. Running("onSuspend") /\ UNCHANGED <<heap, links, started, pend, owner, dead>>
    BY <1>2 DEF OnSuspend
  <2>2. ctl \in Seq(Frame) /\ ctl # <<>> /\ Top.a \in Ids
    BY <1>2, <2>1, CallInProgress DEF ActionOps, Callbacks
  <2>3. Do("ret", Top.a) \in Frame
    BY <2>2, Ranges, DoOtherTyped DEF OtherOps
  <2>4. Do("end", Top.a) \in Frame /\ Do("doneSuspended", Top.a) \in Frame
    BY <2>2, DoTyped DEF ActionOps
  <2>5. ctl' \in Seq(Frame)
    BY <1>2, <2>2, <2>3, <2>4, FramesTyped, BecomesTyped DEF OnSuspend
  <2>6. suspended' \in [Ids -> BOOLEAN]
    BY <1>2 DEF OnSuspend, MarkSuspended, TypeOK
  <2>. QED
    BY <1>2, <2>1, <2>5, <2>6 DEF TypeOK, heap, links, owner
<1>3. ASSUME TypeOK, DoneSuspended PROVE TypeOK'
  <2>1. Running("doneSuspended") /\ UNCHANGED <<heap, links, flags, pend, owner>>
    BY <1>3 DEF DoneSuspended
  <2>2. ctl \in Seq(Frame) /\ ctl # <<>> /\ Top.a \in Ids
    BY <1>3, <2>1, CallInProgress DEF ActionOps
  <2>3. Do("ret", buried[Top.a]) \in Frame
    BY <1>3, <2>2, FieldTyped, DoOtherTyped DEF OtherOps
  <2>4. ctl' \in Seq(Frame)
    BY <1>3, <2>2, <2>3, FramesTyped, BecomesTyped DEF DoneSuspended
  <2>5. dead' \in Seq(Ids)
    BY <1>3, <2>2, Ranges, DestroyTyped DEF DoneSuspended, TypeOK
  <2>. QED
    BY <1>3, <2>1, <2>4, <2>5 DEF TypeOK, heap, links, flags, owner
<1>. QED
  BY <1>1, <1>2, <1>3

\* InvokeOnResume keeps the types.
LEMMA InvokeOnResumeTyped == TypeOK /\ InvokeOnResume => TypeOK'
<1> SUFFICES ASSUME TypeOK, InvokeOnResume PROVE TypeOK'
  OBVIOUS
<1>1. Running("resume") /\ UNCHANGED <<heap, parent, buried, started, pend, owner>>
  BY DEF InvokeOnResume
<1>2. ctl \in Seq(Frame) /\ ctl # <<>> /\ Top.a \in Ids /\ Top.drop \in IdOrNull
  BY <1>1, CallInProgress DEF ActionOps
<1> DEFINE a == Top.a
           onResume == Call("onResume", a, Null, Top.drop)
<1>3. Apply(a, Continue) \in Frame
  BY <1>2, ResultsTyped, ApplyTyped
<1>4. onResume \in Frame /\ Do("setChild", a) \in Frame
  BY <1>2, Ranges, CallTyped, DoTyped DEF ActionOps, Callbacks
<1>5. child[a] # Null => Do("resume", child[a]) \in Frame
  BY <1>2, FieldTyped, Ranges, DoTyped DEF ActionOps
<1>6. \/ Becomes(<<Apply(a, Continue)>>)
      \/ Becomes(<<onResume>>)
      \/ child[a] # Null /\ Becomes(<<Do("resume", child[a]), Do("setChild", a), onResume>>)
  BY DEF InvokeOnResume
<1>7. ctl' \in Seq(Frame)
  BY <1>2, <1>3, <1>4, <1>5, <1>6, FramesTyped, BecomesTyped
<1>8. dead' \in Seq(Ids)
  BY <1>2, DestroyTyped DEF InvokeOnResume, TypeOK
<1>9. suspended' = suspended \/ suspended' = [suspended EXCEPT ![a] = FALSE]
  BY DEF InvokeOnResume
<1>10. suspended' \in [Ids -> BOOLEAN]
  BY <1>9 DEF TypeOK
<1>11. covering' = covering \/ covering' = [covering EXCEPT ![a] = Null]
  BY DEF InvokeOnResume
<1>12. covering' \in [Ids -> IdOrNull]
  BY <1>11, Ranges DEF TypeOK
<1>13. child' = child \/ child' = [child EXCEPT ![parent[a]] = a]
  BY DEF InvokeOnResume
<1>14. child' \in [Ids -> IdOrNull]
  BY <1>2, <1>13, Ranges DEF TypeOK
<1>. QED
  BY <1>1, <1>7, <1>8, <1>10, <1>12, <1>14 DEF TypeOK, heap, owner

\* A return value reaches the pointer of the caller that waits for it.
LEMMA ReturnTyped == TypeOK /\ Return => TypeOK'
<1> SUFFICES ASSUME TypeOK, Return PROVE TypeOK'
  OBVIOUS
<1>1. Running("ret") /\ UNCHANGED <<heap, parent, buried, covering, flags, pend, behavior, me, dead>>
  BY DEF Return
<1>2. ctl \in Seq(Frame) /\ ctl # <<>> /\ Top.a \in IdOrNull
  BY <1>1, CallInProgress
<1>3. ctl[2] \in Frame /\ Tail(Tail(ctl)) \in Seq(Frame)
  <2>1. Len(ctl) > 1
    BY DEF Return
  <2>2. ctl[2] \in Frame
    BY <1>2, <2>1
  <2>3. Tail(ctl) \in Seq(Frame) /\ Len(Tail(ctl)) = Len(ctl) - 1
    BY <1>2, HeadTailProperties
  <2>4. Len(ctl) \in Nat
    BY <1>2, LenProperties
  <2>5. Tail(ctl) # <<>>
    <3>1. Len(Tail(ctl)) # 0
      BY <2>1, <2>3, <2>4
    <3>2. Len(<<>>) = 0
      BY EmptySeq
    <3>. QED
      BY <3>1, <3>2
  <2>. QED
    BY <2>2, <2>3, <2>5, HeadTailProperties
<1> DEFINE to == ctl[2]
           Then(fs) == ctl' = fs \o Tail(Tail(ctl))
<1>4. to.op \in ActionOps => to.a \in Ids
  BY <1>3, Ranges DEF Frame
<1>5. ASSUME NEW fs \in Seq(Frame), Then(fs) PROVE ctl' \in Seq(Frame)
  BY <1>3, <1>5, ConcatProperties
<1>6. CASE to.op = "setChild" /\ child' = [child EXCEPT ![to.a] = Top.a] /\ Then(<<>>)
           /\ UNCHANGED root
  <2>1. child' \in [Ids -> IdOrNull]
    BY <1>2, <1>6 DEF TypeOK
  <2>2. ctl' \in Seq(Frame)
    BY <1>5, <1>6, FramesTyped
  <2>. QED
    BY <1>1, <1>6, <2>1, <2>2 DEF TypeOK, heap, flags
<1>7. CASE to.op = "setRoot" /\ root' = Top.a /\ Then(<<Do("purge", Null)>>) /\ UNCHANGED child
  <2>1. Do("purge", Null) \in Frame
    BY Ranges, DoOtherTyped DEF OtherOps
  <2>2. ctl' \in Seq(Frame)
    BY <1>5, <1>7, <2>1, FramesTyped
  <2>. QED
    BY <1>1, <1>2, <1>7, <2>2 DEF TypeOK, heap, flags
<1>8. CASE to.op = "begin" /\ Then(<<Call("interrupt", to.a, Top.a, Null)>>)
           /\ UNCHANGED <<root, child>>
  <2>1. Call("interrupt", to.a, Top.a, Null) \in Frame
    BY <1>2, <1>4, <1>8, Ranges, CallTyped DEF ActionOps
  <2>2. ctl' \in Seq(Frame)
    BY <1>5, <1>8, <2>1, FramesTyped
  <2>. QED
    BY <1>1, <1>8, <2>2 DEF TypeOK, heap, flags
<1>. QED
  BY <1>6, <1>7, <1>8 DEF Return

\* The destructor of Action, one lemma for its four stages and its loop.
LEMMA DeleteTyped == TypeOK /\ (DeleteAction \/ DeleteChild \/ Unlink \/ Release) => TypeOK'
<1>1. ASSUME TypeOK, DeleteAction PROVE TypeOK'
  <2>1. Running("delete") /\ UNCHANGED <<heap, parent, buried, covering, flags, pend, owner, dead>>
    BY <1>1 DEF DeleteAction
  <2>2. ctl \in Seq(Frame) /\ ctl # <<>> /\ Top.a \in Ids
    BY <1>1, <2>1, CallInProgress DEF ActionOps
  <2>3. child' = child \/ child' = [child EXCEPT ![parent[Top.a]] = buried[Top.a]]
    BY <1>1 DEF DeleteAction
  <2>4. child' \in [Ids -> IdOrNull]
    BY <1>1, <2>2, <2>3, FieldTyped DEF TypeOK
  <2>5. Do("deleteChild", child'[Top.a]) \in Frame /\ Do("unlink", Top.a) \in Frame
    BY <2>2, <2>4, DoOtherTyped, DoTyped DEF OtherOps, ActionOps
  <2>6. ctl' \in Seq(Frame)
    BY <1>1, <2>2, <2>5, FramesTyped, BecomesTyped DEF DeleteAction
  <2>. QED
    BY <1>1, <2>1, <2>4, <2>6 DEF TypeOK, heap, flags, owner
<1>2. ASSUME TypeOK, DeleteChild PROVE TypeOK'
  <2>1. Running("deleteChild") /\ UNCHANGED <<heap, links, flags, pend, owner, dead>>
    BY <1>2 DEF DeleteChild
  <2>2. ctl \in Seq(Frame) /\ ctl # <<>> /\ Top.a \in IdOrNull
    BY <1>2, <2>1, CallInProgress
  <2>3. Top.a # Null => Do("delete", Top.a) \in Frame /\ Do("deleteChild", buried[Top.a]) \in Frame
    BY <1>2, <2>2, FieldTyped, Ranges, DoOtherTyped, DoTyped DEF OtherOps, ActionOps
  <2>4. ctl' \in Seq(Frame)
    BY <1>2, <2>2, <2>3, FramesTyped, BecomesTyped DEF DeleteChild
  <2>. QED
    BY <1>2, <2>1, <2>4, OnlyControlTyped
<1>3. ASSUME TypeOK, Unlink PROVE TypeOK'
  <2>1. Running("unlink") /\ UNCHANGED <<heap, parent, child, buried, flags, pend, owner, dead>>
    BY <1>3 DEF Unlink
  <2>2. ctl \in Seq(Frame) /\ ctl # <<>> /\ Top.a \in Ids
    BY <1>3, <2>1, CallInProgress DEF ActionOps
  <2>3. covering' \in [Ids -> IdOrNull]
    BY <1>3, Ranges DEF Unlink, Uncover, TypeOK
  <2>4. Do("release", Top.a) \in Frame
    BY <2>2, DoTyped DEF ActionOps
  <2>5. covering'[Top.a] # Null => Do("delete", covering'[Top.a]) \in Frame
    BY <2>2, <2>3, Ranges, DoTyped DEF ActionOps
  <2>6. ctl' \in Seq(Frame)
    BY <1>3, <2>2, <2>4, <2>5, FramesTyped, BecomesTyped DEF Unlink
  <2>. QED
    BY <1>3, <2>1, <2>3, <2>6 DEF TypeOK, heap, flags, owner
<1>4. ASSUME TypeOK, Release PROVE TypeOK'
  <2>1. Running("release") /\ UNCHANGED <<heap, links, flags, pend, owner, dead>>
    BY <1>4 DEF Release
  <2>2. ctl \in Seq(Frame) /\ ctl # <<>> /\ Top.a \in Ids
    BY <1>4, <2>1, CallInProgress DEF ActionOps
  <2> DEFINE fs == (IF pend[Top.a].act = Null THEN <<>> ELSE <<Do("delete", pend[Top.a].act)>>)
                   \o <<Do("free", Top.a)>>
  <2>3. Do("free", Top.a) \in Frame
    BY <2>2, DoTyped DEF ActionOps
  <2>4. pend[Top.a].act # Null => Do("delete", pend[Top.a].act) \in Frame
    BY <1>4, <2>2, FieldTyped, Ranges, DoTyped DEF ActionOps
  <2>5. fs \in Seq(Frame)
    BY <2>3, <2>4, FramesTyped, ConcatProperties
  <2>6. Becomes(fs)
    BY <1>4 DEF Release
  <2>7. ctl' \in Seq(Frame)
    BY <2>2, <2>5, <2>6, BecomesTyped
  <2>. QED
    BY <1>4, <2>1, <2>7, OnlyControlTyped
<1>. QED
  BY <1>1, <1>2, <1>3, <1>4

\* The deletion of an action keeps the types.
LEMMA FreeTyped == TypeOK /\ Free => TypeOK'
<1> SUFFICES ASSUME TypeOK, Free PROVE TypeOK'
  OBVIOUS
<1>1. Running("free") /\ UNCHANGED <<created, owner, dead>>
  BY DEF Free
<1>2. ctl \in Seq(Frame) /\ ctl # <<>> /\ Top.a \in Ids
  BY <1>1, CallInProgress DEF ActionOps
<1>3. freed' \subseteq Ids
  BY <1>2 DEF Free, TypeOK
<1>4. /\ parent' \in [Ids -> IdOrNull] /\ child' \in [Ids -> IdOrNull]
      /\ buried' \in [Ids -> IdOrNull] /\ covering' \in [Ids -> IdOrNull]
  BY Ranges DEF Free, TypeOK
<1>5. started' \in [Ids -> BOOLEAN] /\ suspended' \in [Ids -> BOOLEAN]
  BY DEF Free, TypeOK
<1>6. pend' \in [Ids -> EventDesiredResult]
  BY NoPendingTyped DEF Free, TypeOK
<1>7. ctl' \in Seq(Frame)
  BY <1>2, FramesTyped, BecomesTyped DEF Free
<1>. QED
  BY <1>1, <1>3, <1>4, <1>5, <1>6, <1>7 DEF TypeOK, owner

\* DestroyAllPendingActions keeps the types.
LEMMA PurgeTyped == TypeOK /\ Purge => TypeOK'
<1> SUFFICES ASSUME TypeOK, Purge PROVE TypeOK'
  OBVIOUS
<1>1. Running("purge") /\ UNCHANGED <<heap, links, flags, pend, owner>>
  BY DEF Purge
<1>2. ctl \in Seq(Frame) /\ ctl # <<>>
  BY <1>1, CallInProgress
<1>3. CASE dead = <<>> /\ Becomes(<<>>) /\ UNCHANGED dead
  <2>1. ctl' \in Seq(Frame)
    BY <1>2, <1>3, FramesTyped, BecomesTyped
  <2>. QED
    BY <1>1, <1>3, <2>1, OnlyControlTyped
<1>4. CASE /\ dead # <<>> /\ Becomes(<<Do("delete", Head(dead)), Do("purge", Null)>>)
           /\ dead' = Undeleted
  <2>1. Head(dead) \in Ids /\ Tail(dead) \in Seq(Ids)
    BY <1>4, HeadTailProperties DEF TypeOK
  <2>2. Do("delete", Head(dead)) \in Frame /\ Do("purge", Null) \in Frame
    BY <2>1, Ranges, DoTyped, DoOtherTyped DEF ActionOps, OtherOps
  <2>3. ctl' \in Seq(Frame)
    BY <1>2, <1>4, <2>2, FramesTyped, BecomesTyped
  <2>. QED
    BY <1>1, <1>4, <2>1, <2>3 DEF TypeOK, Undeleted, heap, links, flags, owner
<1>. QED
  BY <1>3, <1>4 DEF Purge

\* ~Behavior and InitBehavior.
LEMMA BehaviorObjectTyped ==
  TypeOK /\ (DeleteBottom \/ DropBehavior \/ InitBehavior) => TypeOK'
<1>1. ASSUME TypeOK, DeleteBottom PROVE TypeOK'
  <2>1. Running("deleteBottom") /\ UNCHANGED <<heap, links, flags, pend, owner, dead>>
    BY <1>1 DEF DeleteBottom
  <2>2. ctl \in Seq(Frame) /\ ctl # <<>>
    BY <1>1, <2>1, CallInProgress
  <2>3. \A bottom \in Ends(buried, root) : Do("delete", bottom) \in Frame
    BY DoTyped DEF Ends, ActionOps
  <2>4. ctl' \in Seq(Frame)
    BY <1>1, <2>2, <2>3, FramesTyped, BecomesTyped DEF DeleteBottom
  <2>. QED
    BY <1>1, <2>1, <2>4, OnlyControlTyped
<1>2. ASSUME TypeOK, DropBehavior PROVE TypeOK'
  <2>1. Running("dropBehavior")
    BY <1>2 DEF DropBehavior
  <2>2. ctl \in Seq(Frame) /\ ctl # <<>>
    BY <1>2, <2>1, CallInProgress
  <2>3. ctl' \in Seq(Frame)
    BY <1>2, <2>2, FramesTyped, BecomesTyped DEF DropBehavior
  <2>. QED
    BY <1>2, <2>3, Ranges DEF DropBehavior, TypeOK, heap, links, flags
<1>3. ASSUME TypeOK, InitBehavior PROVE TypeOK'
  <2>1. Running("initBehavior")
    BY <1>3 DEF InitBehavior
  <2>2. ctl \in Seq(Frame) /\ ctl # <<>>
    BY <1>3, <2>1, CallInProgress
  <2>3. ctl' \in Seq(Frame)
    BY <1>3, <2>2, FramesTyped, BecomesTyped DEF InitBehavior
  <2>4. created' \in 0..MaxActions /\ root' \in IdOrNull /\ behavior' \in {"none", "active"}
    BY <1>3, BoundPositive DEF InitBehavior, CanCreate, NewAction, TypeOK, IdOrNull
  <2>. QED
    BY <1>3, <2>3, <2>4 DEF InitBehavior, TypeOK, links, flags
<1>. QED
  BY <1>1, <1>2, <1>3

\* The calls that the game and plugin code make.
LEMMA UpdateTyped == TypeOK /\ Update => TypeOK'
<1> SUFFICES ASSUME TypeOK, Update PROVE TypeOK'
  OBVIOUS
<1>1. root \in Ids
  BY Ranges DEF Update, TypeOK
<1>2. Do("update", root) \in Frame /\ Do("setRoot", Null) \in Frame
  BY <1>1, Ranges, DoTyped, DoOtherTyped DEF ActionOps, OtherOps
<1>3. ctl' \in Seq(Frame)
  BY <1>2, FramesTyped DEF Update
<1>. QED
  BY <1>3 DEF Update, TypeOK, heap, links, flags

\* The destruction of the behaviour leaves a stack of calls.
LEMMA DestroyBehaviorTyped ==
  ASSUME TypeOK, NEW then \in Seq(Frame), DestroyBehavior(then)
  PROVE  ctl' \in Seq(Frame)
<1> DEFINE leave == IF me /\ root # Null THEN <<Do("end", root)>> ELSE <<>>
           destroy == <<Do("deleteBottom", Null), Do("purge", Null), Do("dropBehavior", Null)>>
<1>1. root # Null => Do("end", root) \in Frame
  BY Ranges, DoTyped DEF TypeOK, ActionOps
<1>2. leave \in Seq(Frame)
  BY <1>1, FramesTyped
<1>3. /\ Do("deleteBottom", Null) \in Frame /\ Do("purge", Null) \in Frame
      /\ Do("dropBehavior", Null) \in Frame
  BY Ranges, DoOtherTyped DEF OtherOps
<1>4. destroy \in Seq(Frame)
  BY <1>3, FramesTyped
<1>5. ctl' = leave \o destroy \o then \o ctl
  BY DEF DestroyBehavior
<1> HIDE DEF leave, destroy
<1>. QED
  BY <1>2, <1>4, <1>5, ConcatProperties DEF TypeOK

\* Reset and the destruction of the intention keep the types.
LEMMA ResetTyped == TypeOK /\ (Reset \/ DestroyIntention) => TypeOK'
<1> SUFFICES ASSUME TypeOK, Reset \/ DestroyIntention PROVE TypeOK'
  OBVIOUS
<1>1. Do("initBehavior", Null) \in Frame
  BY Ranges, DoOtherTyped DEF OtherOps
<1>2. ctl' \in Seq(Frame)
  BY <1>1, FramesTyped, DestroyBehaviorTyped DEF Reset, DestroyIntention
<1>. QED
  BY <1>2 DEF Reset, DestroyIntention, TypeOK, heap, links, flags

\* An event keeps the types, whatever it answers.
LEMMA EventTyped ==
  ASSUME TypeOK, NEW a \in Ids, NEW type \in EventTypes, NEW prio \in Priorities,
         Event(a, type, prio)
  PROVE  TypeOK'
<1> DEFINE creates == type \in {"CHANGE_TO", "SUSPEND_FOR"}
           new == IF creates THEN NewAction ELSE Null
           accepted == Accepts(prio, pend[a].prio)
           unused == IF accepted THEN pend[a].act ELSE new
           result == [type |-> type, act |-> new, prio |-> prio]
<1>1. creates => NewAction \in Ids /\ NewAction \in 0..MaxActions
  BY BoundPositive DEF Event, CanCreate, NewAction, Ids, TypeOK
<1>2. created' \in 0..MaxActions
  BY <1>1 DEF Event, TypeOK
<1>3. new \in IdOrNull /\ (creates => new # Null)
  BY <1>1, Ranges DEF Ids
<1>4. type \in ResultTypes /\ prio \in RESULT_NONE..RESULT_CRITICAL
  BY ConstantsOK DEF RESULT_NONE, RESULT_TRY, RESULT_CRITICAL
<1>5. result \in EventDesiredResult
  BY <1>3, <1>4 DEF EventDesiredResult
<1>6. pend' \in [Ids -> EventDesiredResult]
  BY <1>5 DEF Event, TypeOK
<1>7. unused \in IdOrNull
  BY <1>3, FieldTyped
<1>8. unused # Null => Do("delete", unused) \in Frame
  BY <1>7, Ranges, DoTyped DEF ActionOps
<1>9. ctl' = IF unused = Null THEN ctl ELSE <<Do("delete", unused)>> \o ctl
  BY DEF Event
<1> HIDE DEF unused
<1>10. ctl' \in Seq(Frame)
  BY <1>8, <1>9, FramesTyped, ConcatProperties DEF TypeOK
<1>. QED
  BY <1>2, <1>6, <1>10 DEF Event, TypeOK, links, flags, owner

\* Every step keeps the types.
LEMMA NextTyped == TypeOK /\ [Next]_vars => TypeOK'
<1> SUFFICES ASSUME TypeOK, [Next]_vars PROVE TypeOK'
  OBVIOUS
<1>1. CASE Engine
  BY <1>1, InvokeUpdateTyped, OnUpdateTyped, ApplyResultTyped, FinishDoneTyped, StartTyped,
     InitialContainedActionTyped, OnStartTyped, OnEndTyped, OnSuspendTyped,
     InvokeOnResumeTyped, ReturnTyped, DeleteTyped, FreeTyped, PurgeTyped,
     BehaviorObjectTyped DEF Engine
<1>2. CASE World
  BY <1>2, UpdateTyped, ResetTyped, EventTyped DEF World
<1>3. CASE UNCHANGED vars
  BY <1>3 DEF vars, TypeOK
<1>. QED
  BY <1>1, <1>2, <1>3 DEF Next

\* Every pointer of every action, every stored result and every call in
\* progress is well typed in every reachable state of the engine: no call is
\* ever made on a null action, and no SUSPEND_FOR is applied without one.
THEOREM TypeCorrect == Spec => []TypeOK
<1>1. Init => TypeOK
  BY InitTyped
<1>2. TypeOK /\ [Next]_vars => TypeOK'
  BY NextTyped
<1>. QED
  BY <1>1, <1>2, PTL DEF Spec

\* The priorities of an action can be compared.
LEMMA PriorityTyped ==
  ASSUME TypeOK, NEW a \in Ids
  PROVE  pend[a].prio \in Nat
<1>1. pend[a].prio \in RESULT_NONE..RESULT_CRITICAL
  BY FieldTyped DEF EventDesiredResult
<1>. QED
  BY <1>1 DEF RESULT_NONE, RESULT_CRITICAL

\* A step that leaves the pending results alone downgrades none.
LEMMA UnchangedNotDowngraded == TypeOK /\ UNCHANGED pend => DowngradedOnlyByUse
BY PriorityTyped DEF DowngradedOnlyByUse

\* A callback clears a stored result only by suspending its own action.
LEMMA CallbackNotDowngraded ==
  ASSUME TypeOK, ctl # <<>>, Top.op \in {"onStart", "onUpdate", "onResume"},
         NEW r \in ActionResult,
         pend' = PendingAfter(Top.a, r), Becomes(<<Apply(Top.a, r)>>)
  PROVE  DowngradedOnlyByUse
<1> SUFFICES ASSUME NEW a \in Ids, pend'[a].prio < pend[a].prio
             PROVE  /\ Top.a = a
                    /\ ctl' # <<>> /\ ctl'[1].res.type = "SUSPEND_FOR"
  BY DEF DowngradedOnlyByUse
<1>1. pend'[a] # pend[a]
  BY PriorityTyped
<1>2. r.type = "SUSPEND_FOR" /\ Top.a = a
  BY <1>1 DEF PendingAfter, TypeOK
<1>3. Top.a \in Ids /\ Apply(Top.a, r) \in Frame
  BY <1>2, ApplyTyped
<1>4. Tail(ctl) \in Seq(Frame) /\ <<Apply(Top.a, r)>> \in Seq(Frame)
  BY <1>3, TopTyped, FramesTyped DEF TypeOK
<1>5. ctl' = <<Apply(Top.a, r)>> \o Tail(ctl)
  BY DEF Becomes
<1>6. ctl' # <<>> /\ ctl'[1] = Apply(Top.a, r)
  BY <1>4, <1>5
<1>. QED
  BY <1>2, <1>6 DEF Apply

\* An event replaces a pending result by a stronger one only.
LEMMA EventNotDowngraded ==
  ASSUME TypeOK, NEW a \in Ids, NEW type \in EventTypes, NEW prio \in Priorities,
         Event(a, type, prio)
  PROVE  DowngradedOnlyByUse
<1> SUFFICES ASSUME NEW b \in Ids, pend'[b].prio < pend[b].prio PROVE FALSE
  BY DEF DowngradedOnlyByUse
<1>1. pend[b].prio \in Nat /\ prio \in Nat
  BY ConstantsOK, PriorityTyped DEF RESULT_TRY, RESULT_CRITICAL
<1>2. PICK new :
        pend' = IF Accepts(prio, pend[a].prio)
                THEN [pend EXCEPT ![a] = [type |-> type, act |-> new, prio |-> prio]]
                ELSE pend
  BY DEF Event
<1>3. b = a /\ Accepts(prio, pend[a].prio)
  BY <1>1, <1>2 DEF TypeOK
<1>4. pend'[b].prio = prio
  BY <1>2, <1>3 DEF TypeOK
<1>. QED
  BY <1>1, <1>3, <1>4 DEF Accepts

\* A slot that is freed has no pending result to keep.
LEMMA FreeNotDowngraded == TypeOK /\ Free => DowngradedOnlyByUse
<1> SUFFICES ASSUME TypeOK, Free, NEW a \in Ids, pend'[a].prio < pend[a].prio
             PROVE  Running("free") /\ Top.a = a
  BY DEF DowngradedOnlyByUse
<1>1. pend' = [pend EXCEPT ![Top.a] = NoPending] /\ Running("free")
  BY DEF Free
<1>2. pend'[a] # pend[a]
  BY PriorityTyped
<1>. QED
  BY <1>1, <1>2 DEF TypeOK

\* No step downgrades a pending result but its use.
LEMMA NextNotDowngraded == TypeOK /\ [Next]_vars => DowngradedOnlyByUse
<1> SUFFICES ASSUME TypeOK, [Next]_vars PROVE DowngradedOnlyByUse
  OBVIOUS
<1>1. CASE UNCHANGED pend
  BY <1>1, UnchangedNotDowngraded
<1>2. CASE InvokeUpdate
  BY <1>2 DEF InvokeUpdate, DowngradedOnlyByUse
<1>3. CASE OnUpdate \/ OnStart \/ OnResume
  <2>1. ctl # <<>> /\ Top.op \in {"onStart", "onUpdate", "onResume"}
    BY <1>3 DEF OnUpdate, OnStart, OnResume, Running
  <2>2. PICK r \in CallbackResults :
          pend' = PendingAfter(Top.a, r[1]) /\ Becomes(<<Apply(Top.a, r[1])>>)
    BY <1>3 DEF OnUpdate, OnStart, OnResume
  <2>. QED
    BY <2>1, <2>2, CallbackTyped, CallbackNotDowngraded
<1>4. CASE Free
  BY <1>4, FreeNotDowngraded
<1>5. ASSUME NEW a \in Ids, NEW type \in EventTypes, NEW prio \in Priorities,
             Event(a, type, prio)
      PROVE  DowngradedOnlyByUse
  BY <1>5, EventNotDowngraded
<1>6. CASE Next
  <2>1. ASSUME Engine PROVE UNCHANGED pend \/ InvokeUpdate \/ OnUpdate \/ OnStart \/ OnResume \/ Free
    BY <2>1 DEF Engine, ApplyContinue, ApplyChangeTo, ApplySuspendFor, ApplyDone, FinishDone,
       StartChanged, StartInterrupting, InitialContainedAction, InvokeOnEnd, EndChild, OnEnd,
       InvokeOnSuspend, OnSuspend, DoneSuspended, InvokeOnResume, Return, DeleteAction,
       DeleteChild, Unlink, Release, Purge, DeleteBottom, DropBehavior, InitBehavior
  <2>2. ASSUME Update \/ Reset \/ DestroyIntention PROVE UNCHANGED pend
    BY <2>2 DEF Update, Reset, DestroyIntention
  <2>. QED
    BY <1>1, <1>2, <1>3, <1>4, <1>5, <1>6, <2>1, <2>2 DEF Next, World
<1>7. CASE UNCHANGED vars
  BY <1>1, <1>7 DEF vars
<1>. QED
  BY <1>6, <1>7

\* An event result that was stored is never lost to one of lower priority:
\* it goes when InvokeUpdate executes it, when the action that owns it
\* suspends itself, or when that action is freed, and in no other way.
THEOREM PendingKept == Spec => PendingNotDowngraded
<1>1. Init => TypeOK
  BY InitTyped
<1>2. TypeOK /\ [Next]_vars => TypeOK'
  BY NextTyped
<1>3. TypeOK /\ [Next]_vars => DowngradedOnlyByUse
  BY NextNotDowngraded
<1>. QED
  BY <1>1, <1>2, <1>3, PTL DEF Spec, PendingNotDowngraded

-----------------------------------------------------------------------------
(***************************************************************************)
(* Walks along pointers.                                                   *)
(***************************************************************************)

\* A set of numbers that holds 0 and every successor is all of them.
LEMMA SetInduction ==
  ASSUME NEW S, 0 \in S, \A n \in Nat : n \in S => n + 1 \in S
  PROVE  Nat \subseteq S
<1> SUFFICES ASSUME Nat \ S # {} PROVE FALSE
  OBVIOUS
<1> DEFINE R == OpToRel(<, Nat)
<1>1. IsWellFoundedOn(R, Nat)
  BY NatLessThanWellFounded
<1>2. PICK x \in Nat \ S : \A y \in Nat \ S : <<y, x>> \notin R
  <2> HIDE DEF R
  <2>. QED BY <1>1, WFMin
<1>3. \A y \in Nat : y < x => <<y, x>> \in R
  BY DEF OpToRel
<1>4. x # 0 /\ x - 1 \in Nat /\ x - 1 < x
  OBVIOUS
<1>5. x - 1 \in S
  BY <1>2, <1>3, <1>4
<1>6. (x - 1) + 1 \in S
  BY <1>4, <1>5
<1>. QED
  BY <1>6

WalkStep(f, a, g, k) ==
  IF k = 0 THEN a ELSE IF g[k-1] \in Ids THEN f[g[k-1]] ELSE Null

\* A walk of any length exists.
LEMMA WalkExists ==
  ASSUME NEW f \in [Ids -> IdOrNull], NEW a \in IdOrNull
  PROVE  \E g \in [0..MaxActions -> IdOrNull] :
           g = [k \in 0..MaxActions |-> WalkStep(f, a, g, k)]
<1> DEFINE S == {m \in Nat : \E g \in [Nat -> IdOrNull] :
                   \A k \in 0..m : g[k] = WalkStep(f, a, g, k)}
<1>1. 0 \in S
  <2> DEFINE g == [k \in Nat |-> a]
  <2>1. g \in [Nat -> IdOrNull] /\ \A k \in 0..0 : g[k] = WalkStep(f, a, g, k)
    BY DEF WalkStep
  <2>. QED
    BY <2>1
<1>2. ASSUME NEW m \in Nat, m \in S PROVE m + 1 \in S
  <2>1. PICK g \in [Nat -> IdOrNull] : \A k \in 0..m : g[k] = WalkStep(f, a, g, k)
    BY <1>2
  <2> DEFINE h == [g EXCEPT ![m + 1] = WalkStep(f, a, g, m + 1)]
  <2>2. WalkStep(f, a, g, m + 1) \in IdOrNull
    BY Ranges DEF WalkStep
  <2>3. h \in [Nat -> IdOrNull]
    BY <2>2
  <2>4. ASSUME NEW k \in 0..(m + 1) PROVE h[k] = WalkStep(f, a, h, k)
    <3>1. CASE k = m + 1
      BY <3>1 DEF WalkStep
    <3>2. CASE k # m + 1
      <4>1. k \in 0..m /\ h[k] = g[k] /\ (k # 0 => h[k-1] = g[k-1])
        BY <3>2
      <4>. QED
        BY <2>1, <4>1 DEF WalkStep
    <3>. QED
      BY <3>1, <3>2
  <2> HIDE DEF h
  <2>. QED
    BY <2>3, <2>4
<1> HIDE DEF S
<1>3. MaxActions \in S
  BY <1>1, <1>2, SetInduction, BoundPositive
<1>4. PICK g \in [Nat -> IdOrNull] : \A k \in 0..MaxActions : g[k] = WalkStep(f, a, g, k)
  BY <1>3 DEF S
<1> DEFINE h == [k \in 0..MaxActions |-> g[k]]
<1>5. h \in [0..MaxActions -> IdOrNull]
  BY BoundPositive
<1>6. ASSUME NEW k \in 0..MaxActions PROVE h[k] = WalkStep(f, a, h, k)
  <2>1. h[k] = g[k] /\ (k # 0 => h[k-1] = g[k-1])
    BY BoundPositive
  <2>. QED
    BY <1>4, <2>1 DEF WalkStep
<1>. QED
  BY <1>5, <1>6

\* The walk of the model is such a walk.
LEMMA WalkUnfolds ==
  ASSUME NEW f \in [Ids -> IdOrNull], NEW a \in IdOrNull
  PROVE  Walk(f, a) \in [0..MaxActions -> IdOrNull]
         /\ Walk(f, a) = [k \in 0..MaxActions |-> WalkStep(f, a, Walk(f, a), k)]
<1>1. Walk(f, a) = CHOOSE g : g = [k \in 0..MaxActions |-> WalkStep(f, a, g, k)]
  BY DEF Walk, WalkStep
<1>2. PICK g : g = [k \in 0..MaxActions |-> WalkStep(f, a, g, k)]
  BY WalkExists
<1>3. Walk(f, a) = [k \in 0..MaxActions |-> WalkStep(f, a, Walk(f, a), k)]
  BY <1>1, <1>2
<1>4. \A h, k : WalkStep(f, a, h, k) \in IdOrNull
  BY Ranges DEF WalkStep
<1> DEFINE w == Walk(f, a)
<1> HIDE DEF w
<1>5. w = [k \in 0..MaxActions |-> WalkStep(f, a, w, k)]
  BY <1>3 DEF w
<1>6. w \in [0..MaxActions -> IdOrNull]
  BY <1>4, <1>5
<1>. QED
  BY <1>5, <1>6 DEF w

\* A set that the pointers f do not leave holds every walk that starts in it.
LEMMA WalkStays ==
  ASSUME NEW f \in [Ids -> IdOrNull], NEW a \in IdOrNull, NEW S, a \in S, Null \in S,
         \A x \in Ids : x \in S => f[x] \in S
  PROVE  \A k \in 0..MaxActions : Walk(f, a)[k] \in S
<1> DEFINE w == Walk(f, a)
<1> HIDE DEF w
<1>1. w = [k \in 0..MaxActions |-> WalkStep(f, a, w, k)]
  BY WalkUnfolds DEF w
<1>2. \A k \in 0..MaxActions : w[k] = WalkStep(f, a, w, k)
  BY <1>1
<1> DEFINE T == {m \in Nat : m \in 0..MaxActions => w[m] \in S}
<1>3. 0 \in T
  <2>1. 0 \in 0..MaxActions
    BY BoundPositive
  <2>2. w[0] = a
    BY <1>2, <2>1 DEF WalkStep
  <2>. QED
    BY <2>2
<1>4. ASSUME NEW m \in Nat, m \in T PROVE m + 1 \in T
  <2> SUFFICES ASSUME m + 1 \in 0..MaxActions PROVE w[m + 1] \in S
    OBVIOUS
  <2>1. m \in 0..MaxActions /\ (m + 1) - 1 = m /\ m + 1 # 0
    BY BoundPositive
  <2>2. w[m] \in S
    BY <1>4, <2>1
  <2>3. w[m + 1] = IF w[m] \in Ids THEN f[w[m]] ELSE Null
    BY <1>2, <2>1 DEF WalkStep
  <2>. QED
    BY <2>2, <2>3
<1> HIDE DEF T
<1>5. Nat \subseteq T
  BY <1>3, <1>4, SetInduction
<1>6. ASSUME NEW k \in 0..MaxActions PROVE w[k] \in S
  <2>1. k \in Nat
    BY BoundPositive
  <2>. QED
    BY <1>5, <2>1 DEF T
<1>. QED
  BY <1>6 DEF w

\* The walk from where a points is the walk from a without its first step.
LEMMA WalkShift ==
  ASSUME NEW f \in [Ids -> IdOrNull], NEW a \in Ids, NEW k \in 0..MaxActions, k + 1 <= MaxActions
  PROVE  Walk(f, a)[k + 1] = Walk(f, f[a])[k]
<1> DEFINE w == Walk(f, a)
<1> DEFINE v == Walk(f, f[a])
<1>1. a \in IdOrNull /\ f[a] \in IdOrNull
  BY Ranges
<1> HIDE DEF w, v
<1>2. w = [i \in 0..MaxActions |-> WalkStep(f, a, w, i)]
  BY <1>1, WalkUnfolds DEF w
<1>3. v = [i \in 0..MaxActions |-> WalkStep(f, f[a], v, i)]
  BY <1>1, WalkUnfolds DEF v
<1>4. \A i \in 0..MaxActions : w[i] = WalkStep(f, a, w, i) /\ v[i] = WalkStep(f, f[a], v, i)
  BY <1>2, <1>3
<1> DEFINE T == {m \in Nat : m + 1 <= MaxActions => w[m + 1] = v[m]}
<1>5. 0 \in T
  <2> SUFFICES ASSUME 0 + 1 <= MaxActions PROVE w[0 + 1] = v[0]
    OBVIOUS
  <2>1. 0 \in 0..MaxActions /\ 1 \in 0..MaxActions /\ 0 + 1 = 1 /\ 1 - 1 = 0
    BY BoundPositive
  <2>2. w[0] = a /\ v[0] = f[a]
    BY <1>4, <2>1 DEF WalkStep
  <2>. QED
    BY <1>4, <2>1, <2>2 DEF WalkStep
<1>6. ASSUME NEW m \in Nat, m \in T PROVE m + 1 \in T
  <2> SUFFICES ASSUME (m + 1) + 1 <= MaxActions PROVE w[(m + 1) + 1] = v[m + 1]
    OBVIOUS
  <2>1. m + 1 \in 0..MaxActions /\ (m + 1) + 1 \in 0..MaxActions
        /\ (m + 1) - 1 = m /\ ((m + 1) + 1) - 1 = m + 1 /\ m + 1 # 0 /\ (m + 1) + 1 # 0
    BY BoundPositive
  <2>2. w[m + 1] = v[m]
    BY <1>6, <2>1, BoundPositive
  <2>. QED
    BY <1>4, <2>1, <2>2 DEF WalkStep
<1> HIDE DEF T
<1>7. Nat \subseteq T
  BY <1>5, <1>6, SetInduction
<1>8. k \in Nat /\ k \in T
  BY <1>7, BoundPositive
<1>. QED
  BY <1>8 DEF T, w, v

-----------------------------------------------------------------------------
(***************************************************************************)
(* Endings.  What ends an action runs inside calls that end others, and    *)
(* plugin code delivers events meanwhile, which destroy actions.  Those    *)
(* are actions no pointer and no call leads to: they wait in one event     *)
(* result, or were never constructed.                                      *)
(***************************************************************************)

\* n is no action that only waits in one of the event results p, and c
\* actions were constructed.
ClearIn(n, c, p) == n = Null \/ (n <= c /\ \A u \in Ids : p[u].act # n)
\* No pointer of n leads anywhere.
IsolatedIn(n, pa, ch, bu, co) ==
  pa[n] = Null /\ ch[n] = Null /\ bu[n] = Null /\ co[n] = Null
\* Calls of a destructor.
DeleteOps == {"delete", "deleteChild", "unlink", "release", "free"}
\* A call names no waiting action, unless it destroys one.
CallClear(f, c, p) ==
  f.op \in DeleteOps \/
    (ClearIn(f.a, c, p) /\ ClearIn(f.b, c, p) /\ ClearIn(f.drop, c, p) /\ ClearIn(f.res.act, c, p))
CallsClearIn(ct, c, p) == \A i \in 1..Len(ct) : CallClear(ct[i], c, p)
PointersClearIn(f, c, p) == \A a \in Ids : ClearIn(f[a], c, p)
WaitingIsolatedIn(c, p, pa, ch, bu, co, st) ==
  \A n \in Ids : ClearIn(n, c, p) \/ (IsolatedIn(n, pa, ch, bu, co) /\ ~st[n])
WaitOnceIn(c, p) ==
  /\ \A u, v \in Ids : p[u].act = p[v].act => u = v \/ p[u].act = Null
  /\ \A u \in Ids : p[u].act <= c

\* An action that waits in an event result waits in that one alone; nothing
\* leads to it and it leads nowhere.
WaitingAside ==
  /\ CallsClearIn(ctl, created, pend)
  /\ ClearIn(root, created, pend)
  /\ PointersClearIn(parent, created, pend) /\ PointersClearIn(child, created, pend)
  /\ PointersClearIn(buried, created, pend) /\ PointersClearIn(covering, created, pend)
  /\ WaitingIsolatedIn(created, pend, parent, child, buried, covering, started)
  /\ WaitOnceIn(created, pend)

\* Calls that may run on top of one that ends an action.
EndOps == {"end", "endChild", "onEnd"}
DiscardIn(f, pa, ch, bu, co) ==
  f.op \in DeleteOps /\ (f.a = Null \/ IsolatedIn(f.a, pa, ch, bu, co))
LightIn(f, pa, ch, bu, co) == f.op \in EndOps \/ DiscardIn(f, pa, ch, bu, co)
UndisturbedIn(ct, pa, ch, bu, co) ==
  \A i \in 1..Len(ct) : ct[i].op = "onEnd" =>
    \A j \in 1..(i-1) : LightIn(ct[j], pa, ch, bu, co)
\* On top of an ending there are only endings, and destructors of actions
\* that nothing leads to.
EndingUndisturbed == UndisturbedIn(ctl, parent, child, buried, covering)

BelowIn(bu, a) == {Walk(bu, a)[k] : k \in 1..MaxActions} \ {Null}
StackIn(ch, bu, a) == IF ch[a] = Null THEN {} ELSE {ch[a]} \cup BelowIn(bu, ch[a])
\* The call f is about to end c.
EndingIn(f, c, bu) ==
  \/ f.op = "end" /\ f.a = c
  \/ f.op = "endChild" /\ c \in {f.a} \cup BelowIn(bu, f.a)
CountedIn(ct, st, ch, bu) ==
  \A i \in 1..Len(ct) : ct[i].op = "onEnd" =>
    \A c \in StackIn(ch, bu, ct[i].a) :
      st[c] => \E j \in 1..(i-1) : EndingIn(ct[j], c, bu)
\* Whatever an ending action contains has ended, or a call on top is about to
\* end it.
ContentsCounted == CountedIn(ctl, started, child, buried)

EndInv == TypeOK /\ WaitingAside /\ EndingUndisturbed /\ ContentsCounted

\* The helper of ContainedStack is that of the invariant.
LEMMA StacksSame ==
  ASSUME NEW a
  PROVE  ContainedStack(a) = StackIn(child, buried, a) /\ Under(a) = BelowIn(buried, a)
BY DEF ContainedStack, StackIn, Under, BelowIn


\* Nothing remains above the ending on top of the stack.
LEMMA CountedGivesEnd == EndInv => ChildrenEndFirst
<1> SUFFICES ASSUME EndInv, Running("onEnd"), NEW c \in ContainedStack(Top.a)
             PROVE  ~started[c]
  BY DEF ChildrenEndFirst
<1>1. ctl \in Seq(Frame) /\ ctl # <<>> /\ Top.op = "onEnd"
  BY DEF EndInv, TypeOK, Running
<1>2. 1 \in 1..Len(ctl) /\ ctl[1] = Top
  BY <1>1 DEF Top
<1>3. c \in StackIn(child, buried, ctl[1].a)
  BY <1>2, StacksSame
<1>4. started[c] => \E j \in 1..(1-1) : EndingIn(ctl[j], c, buried)
  BY <1>1, <1>2, <1>3 DEF EndInv, ContentsCounted, CountedIn
<1>. QED
  BY <1>4

\* What replaces the first element of a sequence, and what stays.
LEMMA Replaced ==
  ASSUME NEW S, NEW s \in Seq(S), s # <<>>, NEW fs \in Seq(S), NEW t, t = fs \o Tail(s)
  PROVE  /\ t \in Seq(S) /\ Len(t) = Len(fs) + Len(s) - 1 /\ Len(s) \in Nat \ {0} /\ Len(fs) \in Nat
         /\ \A i \in 1..Len(fs) : i \in 1..Len(t) /\ t[i] = fs[i]
         /\ \A i \in 1..Len(t) : i > Len(fs) =>
              i - Len(fs) + 1 \in 2..Len(s) /\ t[i] = s[i - Len(fs) + 1]
<1>1. Tail(s) \in Seq(S) /\ Len(Tail(s)) = Len(s) - 1 /\ Len(s) \in Nat \ {0} /\ Len(fs) \in Nat
  OBVIOUS
<1>2. t \in Seq(S) /\ Len(t) = Len(fs) + Len(s) - 1
  BY <1>1
<1>3. \A i \in 1..Len(fs) : i \in 1..Len(t) /\ t[i] = fs[i]
  BY <1>1, <1>2
<1>4. ASSUME NEW i \in 1..Len(t), i > Len(fs)
      PROVE  i - Len(fs) + 1 \in 2..Len(s) /\ t[i] = s[i - Len(fs) + 1]
  <2>1. i - Len(fs) \in 1..Len(Tail(s)) /\ t[i] = Tail(s)[i - Len(fs)]
    BY <1>1, <1>2, <1>4
  <2>. QED
    BY <1>1, <2>1
<1>. QED
  BY <1>1, <1>2, <1>3, <1>4

\* What a step may do to the event results: drop some, and store the action
\* it constructs.
PendStep(c, p, c2, p2) ==
  /\ c2 = c \/ c2 = c + 1
  /\ \A u \in Ids : p2[u].act = p[u].act \/ p2[u].act = Null \/ (c2 = c + 1 /\ p2[u].act = c + 1)

\* An action that waits nowhere does not begin to wait.
LEMMA ClearStays ==
  ASSUME NEW c \in Nat, NEW p, NEW c2, NEW p2, PendStep(c, p, c2, p2),
         NEW n \in Nat, ClearIn(n, c, p)
  PROVE  ClearIn(n, c2, p2)
BY DEF PendStep, ClearIn

\* Nor does a call begin to name one that waits.
LEMMA CallStays ==
  ASSUME NEW c \in Nat, NEW p, NEW c2, NEW p2, PendStep(c, p, c2, p2),
         NEW f \in Frame, CallClear(f, c, p)
  PROVE  CallClear(f, c2, p2)
<1>1. f.a \in Nat /\ f.b \in Nat /\ f.drop \in Nat /\ f.res.act \in Nat
  BY BoundPositive DEF Frame, IdOrNull, ActionResult
<1>. QED
  BY <1>1, ClearStays DEF CallClear

\* The calls that replace the one on top name no waiting action.
LEMMA CallsClearReplaced ==
  ASSUME NEW c \in Nat, NEW p, NEW c2, NEW p2, PendStep(c, p, c2, p2),
         NEW s \in Seq(Frame), s # <<>>, CallsClearIn(s, c, p),
         NEW X, NEW fs \in Seq(X), NEW t, t = fs \o Tail(s),
         \A i \in 1..Len(fs) : CallClear(fs[i], c2, p2)
  PROVE  CallsClearIn(t, c2, p2)
<1> DEFINE S == Frame \cup X
<1>0. s \in Seq(S) /\ fs \in Seq(S) /\ Len(s) \in Nat /\ \A j \in 1..Len(s) : s[j] \in Frame
  OBVIOUS
<1> HIDE DEF S
<1> SUFFICES ASSUME NEW i \in 1..Len(t) PROVE CallClear(t[i], c2, p2)
  BY DEF CallsClearIn
<1>1. CASE i <= Len(fs)
  <2>1. i \in 1..Len(fs) /\ t[i] = fs[i]
    BY <1>0, <1>1, Replaced
  <2>. QED
    BY <2>1
<1>2. CASE i > Len(fs)
  <2> DEFINE k == i - Len(fs) + 1
  <2>0. \A m \in 1..Len(t) : m > Len(fs) =>
          m - Len(fs) + 1 \in 2..Len(s) /\ t[m] = s[m - Len(fs) + 1]
    BY <1>0, Replaced
  <2>1. PICK j \in 2..Len(s) : t[i] = s[j]
    <3>1. k \in 2..Len(s) /\ t[i] = s[k]
      BY <1>2, <2>0
    <3> HIDE DEF k
    <3>. QED
      BY <3>1
  <2>2. j \in 1..Len(s) /\ s[j] \in Frame
    BY <1>0
  <2>3. CallClear(s[j], c, p)
    BY <2>2 DEF CallsClearIn
  <2>. QED
    BY <2>1, <2>2, <2>3, CallStays
<1>3. Len(fs) \in Nat /\ i \in Nat
  OBVIOUS
<1>. QED
  BY <1>1, <1>2, <1>3

\* The calls that stay name no waiting action.
LEMMA PointersStay ==
  ASSUME NEW c \in Nat, NEW p, NEW c2, NEW p2, PendStep(c, p, c2, p2),
         NEW f \in [Ids -> IdOrNull], PointersClearIn(f, c, p)
  PROVE  PointersClearIn(f, c2, p2)
<1> SUFFICES ASSUME NEW a \in Ids PROVE ClearIn(f[a], c2, p2)
  BY DEF PointersClearIn
<1>1. f[a] \in Nat /\ ClearIn(f[a], c, p)
  BY BoundPositive DEF PointersClearIn, IdOrNull
<1>. QED
  BY <1>1, ClearStays

Clear(n) == ClearIn(n, created, pend)
ClearCall(f) == CallClear(f, created, pend)

\* Results that nobody touches.
LEMMA PendSame ==
  ASSUME UNCHANGED <<created, pend>>
  PROVE  PendStep(created, pend, created', pend')
BY DEF PendStep

\* A call of actions that wait nowhere.
LEMMA CallIsClear ==
  ASSUME NEW op, NEW a, NEW b, NEW d, NEW c, NEW p,
         ClearIn(a, c, p), ClearIn(b, c, p), ClearIn(d, c, p)
  PROVE  CallClear(Call(op, a, b, d), c, p)
BY DEF CallClear, Call, Continue, Result, ClearIn

\* A call of one such action.
LEMMA DoIsClear ==
  ASSUME NEW op, NEW a, NEW c, NEW p, ClearIn(a, c, p) \/ op \in DeleteOps
  PROVE  CallClear(Do(op, a), c, p)
BY DEF CallClear, Do, Call, Continue, Result, ClearIn

\* A result of such an action for another.
LEMMA ApplyIsClear ==
  ASSUME NEW a, NEW r, NEW c, NEW p, ClearIn(a, c, p), ClearIn(r.act, c, p)
  PROVE  CallClear(Apply(a, r), c, p)
BY DEF CallClear, Apply, ClearIn

\* What the innermost call names.
LEMMA TopClear ==
  ASSUME TypeOK, WaitingAside, NEW op, Running(op), op \notin DeleteOps
  PROVE  Clear(Top.a) /\ Clear(Top.b) /\ Clear(Top.drop) /\ Clear(Top.res.act)
<1>1. ctl \in Seq(Frame) /\ ctl # <<>> /\ Top.op = op
  BY DEF Running, TypeOK
<1>2. 1 \in 1..Len(ctl) /\ ctl[1] = Top
  BY <1>1 DEF Top
<1>3. CallClear(Top, created, pend)
  BY <1>2 DEF WaitingAside, CallsClearIn
<1>. QED
  BY <1>1, <1>3 DEF CallClear, Clear

\* Where the pointers lead.
LEMMA PointerClear ==
  ASSUME WaitingAside, NEW a \in Ids
  PROVE  Clear(parent[a]) /\ Clear(child[a]) /\ Clear(buried[a]) /\ Clear(covering[a])
BY DEF WaitingAside, PointersClearIn, Clear

\* No action waits nowhere.
LEMMA NullClear == Clear(Null)
BY DEF Clear, ClearIn

\* The ends of a walk from an action are such actions.
LEMMA EndsClear ==
  ASSUME TypeOK, WaitingAside, NEW f \in [Ids -> IdOrNull], PointersClearIn(f, created, pend),
         NEW a \in Ids, Clear(a), NEW x \in Ends(f, a)
  PROVE  x \in Ids /\ Clear(x)
<1> DEFINE S == {y \in IdOrNull : Clear(y)}
<1>1. a \in S /\ Null \in S
  BY Ranges, NullClear
<1>2. \A y \in Ids : y \in S => f[y] \in S
  BY DEF PointersClearIn, Clear
<1>3. a \in IdOrNull /\ x \in Ids
  BY Ranges DEF Ends
<1> HIDE DEF S
<1>4. \A k \in 0..MaxActions : Walk(f, a)[k] \in S
  BY <1>1, <1>2, <1>3, WalkStays
<1>5. x \in S
  BY <1>4 DEF Ends
<1>. QED
  BY <1>3, <1>5 DEF S

\* Up to three calls.
LEMMA FewCalls ==
  ASSUME NEW x, NEW y, NEW z
  PROVE  /\ <<>> \in Seq({x}) /\ Len(<<>>) = 0
         /\ <<x>> \in Seq({x}) /\ 1..Len(<<x>>) = {1}
         /\ <<x, y>> \in Seq({x, y}) /\ 1..Len(<<x, y>>) = {1, 2}
         /\ <<x, y, z>> \in Seq({x, y, z}) /\ 1..Len(<<x, y, z>>) = {1, 2, 3}
OBVIOUS

\* Calls pushed in two parts.
LEMMA ConcatFew ==
  ASSUME NEW x, NEW y
  PROVE  <<>> \o <<x>> = <<x>> /\ <<x>> \o <<y>> = <<x, y>>
<1> DEFINE S == {x, y}
<1>1. x \in S /\ y \in S
  OBVIOUS
<1> HIDE DEF S
<1>2. <<x>> \in Seq(S) /\ <<y>> \in Seq(S)
  BY <1>1
<1>3. <<>> \o <<x>> = <<x>>
  BY <1>2, ConcatEmptySeq
<1> DEFINE t == <<x>> \o <<y>>
<1> DEFINE u == <<x, y>>
<1>4. t \in Seq(S) /\ Len(t) = 2 /\ \A i \in 1..Len(t) : t[i] = IF i = 1 THEN x ELSE y
  BY <1>2
<1>5. u \in Seq(S) /\ Len(u) = 2 /\ \A i \in 1..Len(u) : u[i] = IF i = 1 THEN x ELSE y
  BY <1>1
<1> HIDE DEF t, u
<1>6. t = u
  BY <1>4, <1>5, SeqEqual
<1>. QED
  BY <1>3, <1>6 DEF t, u

\* A sequence of more than one element without its first.
LEMMA TailLong ==
  ASSUME NEW S, NEW s \in Seq(S), Len(s) > 1
  PROVE  /\ Tail(s) \in Seq(S) /\ Tail(s) # <<>> /\ Len(Tail(s)) = Len(s) - 1
         /\ \A i \in 1..Len(Tail(s)) : i + 1 \in 1..Len(s) /\ Tail(s)[i] = s[i + 1]
<1>1. /\ Tail(s) \in Seq(S) /\ Len(Tail(s)) = Len(s) - 1 /\ Len(s) \in Nat
      /\ \A i \in 1..Len(Tail(s)) : i + 1 \in 1..Len(s) /\ Tail(s)[i] = s[i + 1]
  OBVIOUS
<1>2. Len(Tail(s)) # 0
  BY <1>1
<1>3. Len(<<>>) = 0
  BY EmptySeq
<1>. QED
  BY <1>1, <1>2, <1>3

\* Steps that replace the innermost call by a few that name no waiting action.
LEMMA CallsClearBecomes ==
  ASSUME TypeOK, WaitingAside, ctl # <<>>, PendStep(created, pend, created', pend')
  PROVE  /\ Becomes(<<>>) => CallsClearIn(ctl', created', pend')
         /\ \A x : Becomes(<<x>>) /\ CallClear(x, created', pend')
                     => CallsClearIn(ctl', created', pend')
         /\ \A x, y : Becomes(<<x, y>>) /\ CallClear(x, created', pend') /\ CallClear(y, created', pend')
                        => CallsClearIn(ctl', created', pend')
         /\ \A x, y, z :
              (Becomes(<<x, y, z>>) /\ CallClear(x, created', pend') /\ CallClear(y, created', pend')
                 /\ CallClear(z, created', pend')) => CallsClearIn(ctl', created', pend')
<1>1. created \in Nat /\ ctl \in Seq(Frame) /\ CallsClearIn(ctl, created, pend)
  BY DEF TypeOK, WaitingAside
<1>2. ASSUME NEW X, NEW fs \in Seq(X), Becomes(fs),
             \A i \in 1..Len(fs) : CallClear(fs[i], created', pend')
      PROVE  CallsClearIn(ctl', created', pend')
  BY <1>1, <1>2, CallsClearReplaced DEF Becomes
<1>3. ASSUME Becomes(<<>>) PROVE CallsClearIn(ctl', created', pend')
  <2>1. <<>> \in Seq(Frame) /\ \A i \in 1..Len(<<>>) : CallClear(<<>>[i], created', pend')
    OBVIOUS
  <2>. QED
    BY <1>2, <1>3, <2>1
<1>4. ASSUME NEW x, Becomes(<<x>>), CallClear(x, created', pend')
      PROVE  CallsClearIn(ctl', created', pend')
  <2>1. \A i \in 1..Len(<<x>>) : CallClear(<<x>>[i], created', pend')
    BY <1>4, FewCalls
  <2>. QED
    BY <1>2, <1>4, <2>1, FewCalls
<1>5. ASSUME NEW x, NEW y, Becomes(<<x, y>>), CallClear(x, created', pend'), CallClear(y, created', pend')
      PROVE  CallsClearIn(ctl', created', pend')
  <2>1. \A i \in 1..Len(<<x, y>>) : CallClear(<<x, y>>[i], created', pend')
    BY <1>5, FewCalls
  <2>. QED
    BY <1>2, <1>5, <2>1, FewCalls
<1>6. ASSUME NEW x, NEW y, NEW z, Becomes(<<x, y, z>>), CallClear(x, created', pend'),
             CallClear(y, created', pend'), CallClear(z, created', pend')
      PROVE  CallsClearIn(ctl', created', pend')
  <2>1. \A i \in 1..Len(<<x, y, z>>) : CallClear(<<x, y, z>>[i], created', pend')
    BY <1>6, FewCalls
  <2>. QED
    BY <1>2, <1>6, <2>1, FewCalls
<1>7. \A x : Becomes(<<x>>) /\ CallClear(x, created', pend') => CallsClearIn(ctl', created', pend')
  BY <1>4
<1>8. \A x, y : Becomes(<<x, y>>) /\ CallClear(x, created', pend') /\ CallClear(y, created', pend')
                  => CallsClearIn(ctl', created', pend')
  BY <1>5
<1>9. \A x, y, z : (Becomes(<<x, y, z>>) /\ CallClear(x, created', pend') /\ CallClear(y, created', pend')
                      /\ CallClear(z, created', pend'))
                     => CallsClearIn(ctl', created', pend')
  BY <1>6
<1>. QED
  BY ONLY <1>3, <1>7, <1>8, <1>9

\* A step that only moves the calls, or ends actions.
LEMMA AsideControl ==
  ASSUME TypeOK, WaitingAside,
         UNCHANGED <<created, pend, links>>, root' = root \/ root' = Null,
         \A n \in Ids : started'[n] => started[n],
         CallsClearIn(ctl', created', pend')
  PROVE  WaitingAside'
<1>1. ClearIn(root', created', pend')
  BY DEF WaitingAside, ClearIn
<1>2. WaitingIsolatedIn(created, pend, parent, child, buried, covering, started')
  BY DEF WaitingAside, WaitingIsolatedIn
<1>. QED
  BY <1>1, <1>2 DEF WaitingAside, links

\* The calls of a step that touches no event result.
LEMMA CallsClearSame ==
  ASSUME TypeOK, WaitingAside, ctl # <<>>, UNCHANGED <<created, pend>>
  PROVE  /\ Becomes(<<>>) => CallsClearIn(ctl', created', pend')
         /\ \A x : Becomes(<<x>>) /\ ClearCall(x) => CallsClearIn(ctl', created', pend')
         /\ \A x, y : Becomes(<<x, y>>) /\ ClearCall(x) /\ ClearCall(y)
                        => CallsClearIn(ctl', created', pend')
         /\ \A x, y, z : Becomes(<<x, y, z>>) /\ ClearCall(x) /\ ClearCall(y) /\ ClearCall(z)
                           => CallsClearIn(ctl', created', pend')
<1>1. PendStep(created, pend, created', pend')
  BY PendSame
<1>2. ASSUME NEW x, ClearCall(x) PROVE CallClear(x, created', pend')
  BY <1>2 DEF ClearCall
<1>3. Becomes(<<>>) => CallsClearIn(ctl', created', pend')
  BY <1>1, CallsClearBecomes
<1>4. ASSUME NEW x, Becomes(<<x>>), ClearCall(x) PROVE CallsClearIn(ctl', created', pend')
  BY <1>1, <1>2, <1>4, CallsClearBecomes
<1>5. ASSUME NEW x, NEW y, Becomes(<<x, y>>), ClearCall(x), ClearCall(y)
      PROVE  CallsClearIn(ctl', created', pend')
  <2>1. CallClear(x, created', pend') /\ CallClear(y, created', pend')
    BY <1>2, <1>5
  <2>. QED
    BY <1>1, <1>5, <2>1, CallsClearBecomes
<1>6. ASSUME NEW x, NEW y, NEW z, Becomes(<<x, y, z>>), ClearCall(x), ClearCall(y), ClearCall(z)
      PROVE  CallsClearIn(ctl', created', pend')
  <2>1. CallClear(x, created', pend') /\ CallClear(y, created', pend') /\ CallClear(z, created', pend')
    BY <1>2, <1>6
  <2>. QED
    BY <1>1, <1>6, <2>1, CallsClearBecomes
<1>7. \A x : Becomes(<<x>>) /\ ClearCall(x) => CallsClearIn(ctl', created', pend')
  BY <1>4
<1>8. \A x, y : Becomes(<<x, y>>) /\ ClearCall(x) /\ ClearCall(y) => CallsClearIn(ctl', created', pend')
  BY <1>5
<1>9. \A x, y, z : Becomes(<<x, y, z>>) /\ ClearCall(x) /\ ClearCall(y) /\ ClearCall(z)
                     => CallsClearIn(ctl', created', pend')
  BY <1>6
<1>. QED
  BY ONLY <1>3, <1>7, <1>8, <1>9

\* The calls of clear actions, for the step at hand.
LEMMA MakeClear ==
  /\ \A op, a, b, d : Clear(a) /\ Clear(b) /\ Clear(d) => ClearCall(Call(op, a, b, d))
  /\ \A op, a : Clear(a) \/ op \in DeleteOps => ClearCall(Do(op, a))
  /\ \A a, r : Clear(a) /\ Clear(r.act) => ClearCall(Apply(a, r))
  /\ Clear(Null)
BY CallIsClear, DoIsClear, ApplyIsClear, NullClear DEF Clear, ClearCall

\* ApplyResult passes on the actions it was given, and those next to them.
LEMMA ApplyAside ==
  TypeOK /\ WaitingAside /\ (ApplyContinue \/ ApplyChangeTo \/ ApplySuspendFor \/ ApplyDone \/ FinishDone)
    => WaitingAside'
<1> SUFFICES ASSUME TypeOK, WaitingAside,
                    ApplyContinue \/ ApplyChangeTo \/ ApplySuspendFor \/ ApplyDone \/ FinishDone
             PROVE  WaitingAside'
  OBVIOUS
<1>1. UNCHANGED <<created, pend, links, root, started>> /\ ctl # <<>>
  BY DEF ApplyContinue, ApplyChangeTo, ApplySuspendFor, ApplyDone, FinishDone, heap, flags, owner, Running
<1>2. PICK op \in {"apply", "finish"} : Running(op)
  BY DEF ApplyContinue, ApplyChangeTo, ApplySuspendFor, ApplyDone, FinishDone
<1>3. Clear(Top.a) /\ Clear(Top.b) /\ Clear(Top.drop) /\ Clear(Top.res.act) /\ Top.a \in Ids
  BY <1>2, TopClear, CallInProgress DEF DeleteOps, ActionOps
<1>4. ASSUME ApplyContinue PROVE CallsClearIn(ctl', created', pend')
  BY <1>1, <1>3, <1>4, MakeClear, CallsClearSame DEF ApplyContinue
<1>5. ASSUME ApplyChangeTo PROVE CallsClearIn(ctl', created', pend')
  BY <1>1, <1>3, <1>5, MakeClear, CallsClearSame DEF ApplyChangeTo, EndThenStart
<1>6. ASSUME ApplySuspendFor PROVE CallsClearIn(ctl', created', pend')
  <2>1. PICK top \in Ends(covering, Top.a) :
          Becomes(<<Call("suspend", top, Top.res.act, Null), Do("begin", Top.res.act)>>)
    BY <1>6 DEF ApplySuspendFor
  <2>2. covering \in [Ids -> IdOrNull] /\ PointersClearIn(covering, created, pend)
    BY DEF TypeOK, WaitingAside
  <2>3. Clear(top)
    BY <1>3, <2>2, EndsClear
  <2>. QED
    BY <1>1, <1>3, <2>1, <2>3, MakeClear, CallsClearSame
<1>7. ASSUME ApplyDone PROVE CallsClearIn(ctl', created', pend')
  BY <1>1, <1>3, <1>7, MakeClear, PointerClear, CallsClearSame DEF ApplyDone
<1>8. ASSUME FinishDone PROVE CallsClearIn(ctl', created', pend')
  BY <1>1, <1>3, <1>8, MakeClear, CallsClearSame DEF FinishDone
<1>. QED
  BY <1>1, <1>4, <1>5, <1>6, <1>7, <1>8, AsideControl

\* A step that moves pointers of actions that wait nowhere.
LEMMA AsideLinks ==
  ASSUME TypeOK, WaitingAside, UNCHANGED <<created, pend>>, Clear(root'),
         CallsClearIn(ctl', created', pend'),
         PointersClearIn(parent', created, pend), PointersClearIn(child', created, pend),
         PointersClearIn(buried', created, pend), PointersClearIn(covering', created, pend),
         \A n \in Ids : \/ Clear(n)
                        \/ /\ parent'[n] \in {parent[n], Null} /\ child'[n] \in {child[n], Null}
                           /\ buried'[n] \in {buried[n], Null} /\ covering'[n] \in {covering[n], Null}
                           /\ started'[n] => started[n]
  PROVE  WaitingAside'
<1>1. WaitingIsolatedIn(created, pend, parent', child', buried', covering', started')
  <2> SUFFICES ASSUME NEW n \in Ids, ~Clear(n)
               PROVE  IsolatedIn(n, parent', child', buried', covering') /\ ~started'[n]
    BY DEF WaitingIsolatedIn, Clear
  <2>1. IsolatedIn(n, parent, child, buried, covering) /\ ~started[n]
    BY DEF WaitingAside, WaitingIsolatedIn, Clear
  <2>. QED
    BY <2>1 DEF IsolatedIn
<1>2. ClearIn(root', created', pend')
  BY DEF Clear
<1>. QED
  BY <1>1, <1>2 DEF WaitingAside

\* A pointer that is set to a clear action.
LEMMA PointersSet ==
  ASSUME NEW f \in [Ids -> IdOrNull], PointersClearIn(f, created, pend), NEW x, NEW v, Clear(v)
  PROVE  PointersClearIn([f EXCEPT ![x] = v], created, pend)
BY DEF PointersClearIn, Clear

\* The pointers as they stand.
LEMMA PointersNow ==
  ASSUME TypeOK, WaitingAside
  PROVE  /\ parent \in [Ids -> IdOrNull] /\ PointersClearIn(parent, created, pend)
         /\ child \in [Ids -> IdOrNull] /\ PointersClearIn(child, created, pend)
         /\ buried \in [Ids -> IdOrNull] /\ PointersClearIn(buried, created, pend)
         /\ covering \in [Ids -> IdOrNull] /\ PointersClearIn(covering, created, pend)
         /\ Clear(root)
BY DEF TypeOK, WaitingAside, Clear

\* None is no action.
LEMMA NullNoAction == Null \notin Ids
BY BoundPositive DEF Ids

\* InvokeOnStart links the action that it starts.
LEMMA InvokeOnStartAside ==
  ASSUME TypeOK, WaitingAside, ctl # <<>>, NEW n \in Ids, NEW prior \in IdOrNull,
         NEW under \in IdOrNull, NEW drop \in IdOrNull, InvokeOnStart(n, prior, under, drop),
         Clear(n), Clear(prior), Clear(under), Clear(drop),
         UNCHANGED <<heap, suspended, pend, owner, dead>>
  PROVE  WaitingAside'
<1> DEFINE p == IF prior = Null THEN parent[n] ELSE parent[prior]
<1>1. p \in IdOrNull /\ Clear(p)
  BY FieldTyped, PointerClear, Ranges
<1> HIDE DEF p
<1>2. /\ started' = [started EXCEPT ![n] = TRUE]
      /\ parent' = [parent EXCEPT ![n] = p]
      /\ child' = IF p = Null THEN child ELSE [child EXCEPT ![p] = n]
      /\ buried' = [buried EXCEPT ![n] = under]
      /\ covering' = [(IF under = Null THEN covering ELSE [covering EXCEPT ![under] = n])
                        EXCEPT ![n] = Null]
      /\ Becomes(<<Call("initial", n, prior, drop)>>)
  BY DEF InvokeOnStart, p
<1>3. PointersClearIn(parent', created, pend) /\ PointersClearIn(buried', created, pend)
  BY <1>1, <1>2, PointersNow, PointersSet
<1>4. PointersClearIn(child', created, pend)
  BY <1>2, PointersNow, PointersSet
<1>5. PointersClearIn(covering', created, pend)
  <2> DEFINE co == IF under = Null THEN covering ELSE [covering EXCEPT ![under] = n]
  <2>1. co \in [Ids -> IdOrNull] /\ PointersClearIn(co, created, pend)
    BY PointersNow, PointersSet, Ranges
  <2> HIDE DEF co
  <2>2. PointersClearIn([co EXCEPT ![n] = Null], created, pend)
    BY <2>1, PointersSet, NullClear
  <2>. QED
    BY <1>2, <2>2 DEF co
<1>6. UNCHANGED <<created, pend, root>>
  BY DEF heap, owner
<1>7. CallsClearIn(ctl', created', pend')
  BY <1>2, <1>6, MakeClear, CallsClearSame
<1>8. ASSUME NEW m \in Ids, ~Clear(m)
      PROVE  /\ parent'[m] \in {parent[m], Null} /\ child'[m] \in {child[m], Null}
             /\ buried'[m] \in {buried[m], Null} /\ covering'[m] \in {covering[m], Null}
             /\ started'[m] => started[m]
  <2>1. m # n /\ m # p /\ m # under
    BY <1>1, <1>8
  <2>. QED
    BY <1>2, <2>1, PointersNow DEF TypeOK
<1>9. Clear(root')
  BY <1>6, PointersNow
<1>. QED
  BY <1>3, <1>4, <1>5, <1>6, <1>7, <1>8, <1>9, AsideLinks

\* The started action is the one that a call named.
LEMMA StartAside == TypeOK /\ WaitingAside /\ (StartChanged \/ StartInterrupting) => WaitingAside'
<1> SUFFICES ASSUME TypeOK, WaitingAside, StartChanged \/ StartInterrupting PROVE WaitingAside'
  OBVIOUS
<1>1. ctl # <<>> /\ UNCHANGED <<heap, suspended, pend, owner, dead>>
  BY DEF StartChanged, StartInterrupting, Running
<1>2. CASE StartChanged
  <2>1. Running("change")
    BY <1>2 DEF StartChanged
  <2>2. Top.a \in Ids /\ Top.b \in Ids /\ Clear(Top.a) /\ Clear(Top.b)
    BY <2>1, CallInProgress, TopClear DEF ActionOps, DeleteOps
  <2> DEFINE drop == IF Top.a = Top.b THEN Null ELSE Top.a
  <2>3. buried[Top.a] \in IdOrNull /\ Clear(buried[Top.a]) /\ drop \in IdOrNull /\ Clear(drop)
        /\ Top.a \in IdOrNull
    BY <2>2, FieldTyped, PointerClear, Ranges, NullClear
  <2>4. InvokeOnStart(Top.b, Top.a, buried[Top.a], drop)
    BY <1>2 DEF StartChanged
  <2> HIDE DEF drop
  <2>. QED
    BY <1>1, <2>2, <2>3, <2>4, InvokeOnStartAside
<1>3. CASE StartInterrupting
  <2>1. Running("interrupt")
    BY <1>3 DEF StartInterrupting
  <2>2. Top.a \in Ids /\ Top.b \in IdOrNull /\ Clear(Top.a) /\ Clear(Top.b)
    BY <2>1, CallInProgress, TopClear DEF ActionOps, DeleteOps
  <2>3. InvokeOnStart(Top.a, Top.b, Top.b, Null)
    BY <1>3 DEF StartInterrupting
  <2>. QED
    BY <1>1, <2>2, <2>3, InvokeOnStartAside, NullClear, Ranges
<1>. QED
  BY <1>2, <1>3

\* The steps of the endings.
LEMMA EndAside == TypeOK /\ WaitingAside /\ (InvokeOnEnd \/ EndChild \/ OnEnd) => WaitingAside'
<1> SUFFICES ASSUME TypeOK, WaitingAside, InvokeOnEnd \/ EndChild \/ OnEnd PROVE WaitingAside'
  OBVIOUS
<1>1. UNCHANGED <<created, pend, links, root>> /\ ctl # <<>>
  BY DEF InvokeOnEnd, EndChild, OnEnd, heap, flags, owner, Running
<1>2. PICK op \in EndOps : Running(op)
  BY DEF InvokeOnEnd, EndChild, OnEnd, EndOps
<1>3. Clear(Top.a) /\ Top.a \in IdOrNull
  BY <1>2, TopClear, CallInProgress DEF EndOps, DeleteOps
<1>4. Top.a # Null => Top.a \in Ids /\ Clear(child[Top.a]) /\ Clear(buried[Top.a]) /\ Clear(covering[Top.a])
  BY <1>3, Ranges, PointerClear
<1>5. (InvokeOnEnd \/ OnEnd) => Top.a # Null
  <2>1. InvokeOnEnd \/ OnEnd => Running("end") \/ Running("onEnd")
    BY DEF InvokeOnEnd, OnEnd
  <2>2. Running("end") => Top.a \in Ids
    BY CallInProgress DEF ActionOps
  <2>3. Running("onEnd") => Top.a \in Ids
    BY CallInProgress DEF ActionOps, Callbacks
  <2>. QED
    BY <2>1, <2>2, <2>3, NullNoAction
<1>6. ASSUME InvokeOnEnd PROVE CallsClearIn(ctl', created', pend')
  <2>1. CASE ~started[Top.a]
    BY <1>1, <1>6, <2>1, CallsClearSame DEF InvokeOnEnd
  <2>2. CASE started[Top.a]
    <3>1. Becomes(<<Do("endChild", child[Top.a]), Do("onEnd", Top.a)>>)
      BY <1>6, <2>2 DEF InvokeOnEnd, EndChildrenFirst
    <3>. QED
      BY <1>1, <1>3, <1>4, <1>5, <1>6, <3>1, MakeClear, CallsClearSame
  <2>. QED
    BY <2>1, <2>2
<1>7. ASSUME EndChild PROVE CallsClearIn(ctl', created', pend')
  <2>1. CASE Top.a = Null
    BY <1>1, <1>7, <2>1, CallsClearSame DEF EndChild
  <2>2. CASE Top.a # Null
    <3>1. Becomes(<<Do("end", Top.a), Do("endChild", buried[Top.a])>>)
      BY <1>7, <2>2 DEF EndChild
    <3>. QED
      BY <1>1, <1>3, <1>4, <2>2, <3>1, MakeClear, CallsClearSame
  <2>. QED
    BY <2>1, <2>2
<1>8. ASSUME OnEnd PROVE CallsClearIn(ctl', created', pend')
  <2>1. CASE covering[Top.a] = Null
    BY <1>1, <1>8, <2>1, CallsClearSame DEF OnEnd
  <2>2. CASE covering[Top.a] # Null
    <3>1. Becomes(<<Do("end", covering[Top.a])>>)
      BY <1>8, <2>2 DEF OnEnd
    <3>. QED
      BY <1>1, <1>4, <1>5, <1>8, <3>1, MakeClear, CallsClearSame
  <2>. QED
    BY <2>1, <2>2
<1>9. \A n \in Ids : started'[n] => started[n]
  BY DEF InvokeOnEnd, EndChild, OnEnd, flags, TypeOK
<1>. QED
  BY <1>1, <1>6, <1>7, <1>8, <1>9, AsideControl

\* The steps of a suspension, up to the callback's answer.
LEMMA SuspendAside ==
  TypeOK /\ WaitingAside /\ (InvokeOnSuspend \/ OnSuspend \/ DoneSuspended) => WaitingAside'
<1> SUFFICES ASSUME TypeOK, WaitingAside, InvokeOnSuspend \/ OnSuspend \/ DoneSuspended
             PROVE  WaitingAside'
  OBVIOUS
<1>1. UNCHANGED <<created, pend, links, root, started>> /\ ctl # <<>>
  BY DEF InvokeOnSuspend, OnSuspend, DoneSuspended, heap, flags, owner, Running
<1>2. PICK op \in {"suspend", "onSuspend", "doneSuspended"} : Running(op)
  BY DEF InvokeOnSuspend, OnSuspend, DoneSuspended
<1>3. Clear(Top.a) /\ Clear(Top.b) /\ Top.a \in Ids
  BY <1>2, TopClear, CallInProgress DEF ActionOps, Callbacks, DeleteOps
<1>4. Clear(child[Top.a]) /\ Clear(buried[Top.a])
  BY <1>3, PointerClear
<1>5. ASSUME InvokeOnSuspend PROVE CallsClearIn(ctl', created', pend')
  <2> DEFINE f == Call("onSuspend", Top.a, Top.b, Null)
  <2> DEFINE g == Call("suspend", child[Top.a], Top.b, Null)
  <2>1. ClearCall(f) /\ ClearCall(g) /\ ClearCall(Do("setChild", Top.a))
    BY <1>3, <1>4, MakeClear
  <2>2. Becomes(<<f>>) \/ Becomes(<<g, Do("setChild", Top.a), f>>)
    BY <1>5 DEF InvokeOnSuspend
  <2> HIDE DEF f, g
  <2>. QED
    BY <1>1, <2>1, <2>2, CallsClearSame
<1>6. ASSUME OnSuspend PROVE CallsClearIn(ctl', created', pend')
  <2>1. ClearCall(Do("ret", Top.a)) /\ ClearCall(Do("end", Top.a)) /\ ClearCall(Do("doneSuspended", Top.a))
    BY <1>3, MakeClear
  <2>. QED
    BY <1>1, <1>6, <2>1, CallsClearSame DEF OnSuspend
<1>7. ASSUME DoneSuspended PROVE CallsClearIn(ctl', created', pend')
  BY <1>1, <1>4, <1>7, MakeClear, CallsClearSame DEF DoneSuspended
<1>. QED
  BY <1>1, <1>5, <1>6, <1>7, AsideControl

\* InvokeOnResume uncovers an action that a call named.
LEMMA ResumeAside == TypeOK /\ WaitingAside /\ InvokeOnResume => WaitingAside'
<1> SUFFICES ASSUME TypeOK, WaitingAside, InvokeOnResume PROVE WaitingAside'
  OBVIOUS
<1>1. UNCHANGED <<created, pend, parent, buried, root, started>> /\ ctl # <<>> /\ Running("resume")
  BY DEF InvokeOnResume, heap, owner, Running
<1>2. Clear(Top.a) /\ Clear(Top.drop) /\ Top.a \in Ids
  BY <1>1, TopClear, CallInProgress DEF ActionOps, DeleteOps
<1>3. Clear(child[Top.a]) /\ Clear(parent[Top.a])
  BY <1>2, PointerClear
<1>4. CASE UNCHANGED <<suspended, covering, child>> /\ Becomes(<<Apply(Top.a, Continue)>>)
  <2>1. ClearCall(Apply(Top.a, Continue))
    BY <1>2, MakeClear DEF Continue, Result
  <2>2. CallsClearIn(ctl', created', pend')
    BY <1>1, <1>4, <2>1, CallsClearSame
  <2>. QED
    BY <1>1, <1>4, <2>2, AsideControl DEF links
<1>5. CASE /\ covering' = [covering EXCEPT ![Top.a] = Null]
           /\ child' = IF parent[Top.a] = Null THEN child
                       ELSE [child EXCEPT ![parent[Top.a]] = Top.a]
           /\ IF child[Top.a] = Null
              THEN Becomes(<<Call("onResume", Top.a, Null, Top.drop)>>)
              ELSE Becomes(<<Do("resume", child[Top.a]), Do("setChild", Top.a),
                             Call("onResume", Top.a, Null, Top.drop)>>)
  <2>1. ClearCall(Call("onResume", Top.a, Null, Top.drop)) /\ ClearCall(Do("resume", child[Top.a]))
        /\ ClearCall(Do("setChild", Top.a))
    BY <1>2, <1>3, MakeClear
  <2>2. \/ Becomes(<<Call("onResume", Top.a, Null, Top.drop)>>)
        \/ Becomes(<<Do("resume", child[Top.a]), Do("setChild", Top.a),
                     Call("onResume", Top.a, Null, Top.drop)>>)
    BY <1>5
  <2>3. CallsClearIn(ctl', created', pend')
    BY <1>1, <2>1, <2>2, CallsClearSame
  <2>4. PointersClearIn(covering', created, pend) /\ PointersClearIn(child', created, pend)
    BY <1>2, <1>5, PointersNow, PointersSet, NullClear
  <2>5. PointersClearIn(parent', created, pend) /\ PointersClearIn(buried', created, pend) /\ Clear(root')
    BY <1>1, PointersNow
  <2>6. ASSUME NEW m \in Ids, ~Clear(m)
        PROVE  /\ parent'[m] \in {parent[m], Null} /\ child'[m] \in {child[m], Null}
               /\ buried'[m] \in {buried[m], Null} /\ covering'[m] \in {covering[m], Null}
               /\ started'[m] => started[m]
    <3>1. m # Top.a /\ m # parent[Top.a]
      BY <1>2, <1>3, <2>6
    <3>. QED
      BY <1>1, <1>5, <3>1, PointersNow
  <2>. QED
    BY <1>1, <2>3, <2>4, <2>5, <2>6, AsideLinks
<1>. QED
  BY <1>4, <1>5 DEF InvokeOnResume

\* What Return stores is an action that a call named.
LEMMA ReturnAside == TypeOK /\ WaitingAside /\ Return => WaitingAside'
<1> SUFFICES ASSUME TypeOK, WaitingAside, Return PROVE WaitingAside'
  OBVIOUS
<1>1. /\ UNCHANGED <<created, pend, parent, buried, covering, started>>
      /\ Running("ret") /\ ctl \in Seq(Frame) /\ Len(ctl) > 1
  BY DEF Return, heap, flags, TypeOK
<1>2. Clear(Top.a) /\ Top.a \in IdOrNull
  BY <1>1, TopClear, CallInProgress DEF DeleteOps
<1> DEFINE to == ctl[2]
<1>3. to \in Frame /\ CallClear(to, created, pend)
  <2>1. 2 \in 1..Len(ctl)
    BY <1>1
  <2>. QED
    BY <1>1, <2>1 DEF WaitingAside, CallsClearIn
<1>4. Tail(ctl) \in Seq(Frame) /\ Tail(ctl) # <<>> /\ CallsClearIn(Tail(ctl), created, pend)
  <2>1. Tail(ctl) \in Seq(Frame) /\ Tail(ctl) # <<>>
        /\ \A i \in 1..Len(Tail(ctl)) : i + 1 \in 1..Len(ctl) /\ Tail(ctl)[i] = ctl[i + 1]
    BY <1>1, TailLong
  <2>3. CallsClearIn(Tail(ctl), created, pend)
    BY <2>1 DEF WaitingAside, CallsClearIn
  <2>. QED
    BY <2>1, <2>3
<1>5. PendStep(created, pend, created', pend') /\ created \in Nat
  BY <1>1, PendSame DEF TypeOK
<1>6. ASSUME ctl' = <<>> \o Tail(Tail(ctl)) PROVE CallsClearIn(ctl', created', pend')
  <2>1. <<>> \in Seq(Frame) /\ \A i \in 1..Len(<<>>) : CallClear(<<>>[i], created', pend')
    OBVIOUS
  <2>. QED
    BY <1>4, <1>5, <1>6, <2>1, CallsClearReplaced
<1>7. ASSUME NEW x, ClearCall(x), ctl' = <<x>> \o Tail(Tail(ctl))
      PROVE  CallsClearIn(ctl', created', pend')
  <2>1. \A i \in 1..Len(<<x>>) : CallClear(<<x>>[i], created', pend')
    BY <1>1, <1>7, FewCalls DEF ClearCall
  <2>2. <<x>> \in Seq({x})
    BY FewCalls
  <2>. QED
    BY <1>4, <1>5, <1>7, <2>1, <2>2, CallsClearReplaced
<1>8. CASE to.op = "setChild" /\ child' = [child EXCEPT ![to.a] = Top.a]
           /\ ctl' = <<>> \o Tail(Tail(ctl)) /\ UNCHANGED root
  <2>1. Clear(to.a)
    BY <1>3, <1>8 DEF CallClear, Clear, DeleteOps
  <2>2. PointersClearIn(child', created, pend)
    BY <1>2, <1>8, PointersNow, PointersSet
  <2>3. PointersClearIn(parent', created, pend) /\ PointersClearIn(buried', created, pend)
        /\ PointersClearIn(covering', created, pend) /\ Clear(root')
    BY <1>1, <1>8, PointersNow
  <2>4. ASSUME NEW m \in Ids, ~Clear(m)
        PROVE  /\ parent'[m] \in {parent[m], Null} /\ child'[m] \in {child[m], Null}
               /\ buried'[m] \in {buried[m], Null} /\ covering'[m] \in {covering[m], Null}
               /\ started'[m] => started[m]
    <3>1. m # to.a
      BY <2>1, <2>4
    <3>. QED
      BY <1>1, <1>8, <3>1, PointersNow
  <2>. QED
    BY <1>1, <1>6, <1>8, <2>2, <2>3, <2>4, AsideLinks
<1>9. CASE to.op = "setRoot" /\ root' = Top.a /\ ctl' = <<Do("purge", Null)>> \o Tail(Tail(ctl))
           /\ UNCHANGED child
  <2>1. CallsClearIn(ctl', created', pend')
    BY <1>7, <1>9, MakeClear
  <2>2. ClearIn(root', created', pend')
    BY <1>1, <1>2, <1>9 DEF Clear
  <2>. QED
    BY <1>1, <1>9, <2>1, <2>2 DEF WaitingAside
<1>10. CASE to.op = "begin" /\ ctl' = <<Call("interrupt", to.a, Top.a, Null)>> \o Tail(Tail(ctl))
            /\ UNCHANGED <<root, child>>
  <2>1. Clear(to.a)
    BY <1>3, <1>10 DEF CallClear, Clear, DeleteOps
  <2>2. CallsClearIn(ctl', created', pend')
    BY <1>2, <1>7, <1>10, <2>1, MakeClear
  <2>. QED
    BY <1>1, <1>10, <2>2 DEF WaitingAside
<1>. QED
  BY <1>8, <1>9, <1>10 DEF Return

\* A call of a destructor names what it likes.
LEMMA DeleteClear == \A op, a : op \in DeleteOps => ClearCall(Do(op, a))
BY MakeClear

\* Destructors shorten pointers.
LEMMA DeleteAside ==
  TypeOK /\ WaitingAside /\ (DeleteAction \/ DeleteChild \/ Unlink \/ Release) => WaitingAside'
<1> SUFFICES ASSUME TypeOK, WaitingAside, DeleteAction \/ DeleteChild \/ Unlink \/ Release
             PROVE  WaitingAside'
  OBVIOUS
<1>1. UNCHANGED <<created, pend, parent, buried, root, started>> /\ ctl # <<>>
  BY DEF DeleteAction, DeleteChild, Unlink, Release, heap, links, flags, owner, Running
<1>2. CASE DeleteAction
  <2>1. Running("delete")
    BY <1>2 DEF DeleteAction
  <2>2. Top.a \in Ids
    BY <2>1, CallInProgress DEF ActionOps
  <2>3. /\ child' = IF parent[Top.a] # Null /\ child[parent[Top.a]] = Top.a
                    THEN [child EXCEPT ![parent[Top.a]] = buried[Top.a]] ELSE child
        /\ Becomes(<<Do("deleteChild", child'[Top.a]), Do("unlink", Top.a)>>)
        /\ UNCHANGED covering
    BY <1>2 DEF DeleteAction
  <2>4. CallsClearIn(ctl', created', pend')
    BY <1>1, <2>3, DeleteClear, CallsClearSame DEF DeleteOps
  <2>5. Clear(buried[Top.a])
    BY <2>2, PointerClear
  <2>6. PointersClearIn(child', created, pend)
    BY <2>3, <2>5, PointersNow, PointersSet
  <2>7. PointersClearIn(parent', created, pend) /\ PointersClearIn(buried', created, pend)
        /\ PointersClearIn(covering', created, pend) /\ Clear(root')
    BY <1>1, <2>3, PointersNow
  <2>8. ASSUME NEW m \in Ids, ~Clear(m)
        PROVE  /\ parent'[m] \in {parent[m], Null} /\ child'[m] \in {child[m], Null}
               /\ buried'[m] \in {buried[m], Null} /\ covering'[m] \in {covering[m], Null}
               /\ started'[m] => started[m]
    <3>1. child[m] = Null
      BY <2>8 DEF WaitingAside, WaitingIsolatedIn, IsolatedIn, Clear
    <3>2. parent[Top.a] = m /\ child[m] = Top.a => FALSE
      BY <2>2, <3>1, NullNoAction
    <3>. QED
      BY <1>1, <2>3, <3>2, PointersNow
  <2>. QED
    BY <1>1, <2>4, <2>6, <2>7, <2>8, AsideLinks
<1>3. CASE Unlink
  <2>1. Running("unlink")
    BY <1>3 DEF Unlink
  <2>2. Top.a \in Ids
    BY <2>1, CallInProgress DEF ActionOps
  <2>3. covering' = Uncover(Top.a) /\ UNCHANGED child
    BY <1>3 DEF Unlink
  <2>4. CallsClearIn(ctl', created', pend')
    <3>1. \/ Becomes(<<Do("release", Top.a)>>)
          \/ Becomes(<<Do("delete", covering'[Top.a]), Do("release", Top.a)>>)
      BY <1>3 DEF Unlink
    <3>2. ClearCall(Do("release", Top.a)) /\ ClearCall(Do("delete", covering'[Top.a]))
      BY DeleteClear DEF DeleteOps
    <3>. QED
      BY <1>1, <3>1, <3>2, CallsClearSame
  <2>5. PointersClearIn(covering', created, pend)
    BY <2>3, PointersNow, PointersSet, NullClear DEF Uncover
  <2>6. PointersClearIn(parent', created, pend) /\ PointersClearIn(buried', created, pend)
        /\ PointersClearIn(child', created, pend) /\ Clear(root')
    BY <1>1, <2>3, PointersNow
  <2>7. ASSUME NEW m \in Ids, ~Clear(m)
        PROVE  /\ parent'[m] \in {parent[m], Null} /\ child'[m] \in {child[m], Null}
               /\ buried'[m] \in {buried[m], Null} /\ covering'[m] \in {covering[m], Null}
               /\ started'[m] => started[m]
    <3>1. covering'[m] \in {covering[m], Null}
      BY <2>3, PointersNow DEF Uncover
    <3>. QED
      BY <1>1, <2>3, <3>1
  <2>. QED
    BY <1>1, <2>4, <2>5, <2>6, <2>7, AsideLinks
<1>4. CASE DeleteChild \/ Release
  <2>1. UNCHANGED <<links, root>>
    BY <1>4 DEF DeleteChild, Release, owner
  <2>2. CASE DeleteChild
    <3>1. \/ Becomes(<<>>)
          \/ Becomes(<<Do("delete", Top.a), Do("deleteChild", buried[Top.a])>>)
      BY <2>2 DEF DeleteChild
    <3>2. ClearCall(Do("delete", Top.a)) /\ ClearCall(Do("deleteChild", buried[Top.a]))
      BY DeleteClear DEF DeleteOps
    <3>3. CallsClearIn(ctl', created', pend')
      BY <1>1, <3>1, <3>2, CallsClearSame
    <3>. QED
      BY <1>1, <2>1, <3>3, AsideControl
  <2>3. CASE Release
    <3>1. \/ Becomes(<<>> \o <<Do("free", Top.a)>>)
          \/ Becomes(<<Do("delete", pend[Top.a].act)>> \o <<Do("free", Top.a)>>)
      BY <2>3 DEF Release
    <3>2. \A x, y : <<>> \o <<x>> = <<x>> /\ <<x>> \o <<y>> = <<x, y>>
      BY ConcatFew
    <3>3. ClearCall(Do("delete", pend[Top.a].act)) /\ ClearCall(Do("free", Top.a))
      BY DeleteClear DEF DeleteOps
    <3>4. Becomes(<<Do("free", Top.a)>>) \/ Becomes(<<Do("delete", pend[Top.a].act), Do("free", Top.a)>>)
      BY <3>1, <3>2
    <3>5. CallsClearIn(ctl', created', pend')
      BY <1>1, <3>3, <3>4, CallsClearSame
    <3>. QED
      BY <1>1, <2>1, <3>5, AsideControl
  <2>. QED
    BY <1>4, <2>2, <2>3
<1>. QED
  BY <1>2, <1>3, <1>4

\* An action that waited nowhere and is no new one does not wait now.
LEMMA ClearKept ==
  ASSUME TypeOK, PendStep(created, pend, created', pend'), NEW n \in IdOrNull, Clear(n)
  PROVE  ClearIn(n, created', pend')
<1>1. created \in Nat /\ n \in Nat
  BY BoundPositive DEF TypeOK, IdOrNull
<1>. QED
  BY <1>1, ClearStays DEF Clear

\* A step that stores or drops event results and leaves the pointers.
LEMMA AsidePend ==
  ASSUME TypeOK, WaitingAside, PendStep(created, pend, created', pend'),
         WaitOnceIn(created', pend'), UNCHANGED <<links, started>>,
         ClearIn(root', created', pend'), CallsClearIn(ctl', created', pend')
  PROVE  WaitingAside'
<1>1. created \in Nat
  BY DEF TypeOK
<1>2. /\ PointersClearIn(parent, created', pend') /\ PointersClearIn(child, created', pend')
      /\ PointersClearIn(buried, created', pend') /\ PointersClearIn(covering, created', pend')
  BY <1>1, PointersNow, PointersStay
<1>3. WaitingIsolatedIn(created', pend', parent, child, buried, covering, started)
  <2> SUFFICES ASSUME NEW n \in Ids, ~ClearIn(n, created', pend')
               PROVE  IsolatedIn(n, parent, child, buried, covering) /\ ~started[n]
    BY DEF WaitingIsolatedIn
  <2>1. ~Clear(n)
    BY ClearKept, Ranges
  <2>. QED
    BY <2>1 DEF WaitingAside, WaitingIsolatedIn, Clear
<1>. QED
  BY <1>2, <1>3 DEF WaitingAside, links

\* What a callback does to the event results, and what it returns.
LEMMA CallbackAside ==
  ASSUME TypeOK, WaitingAside, NEW a, NEW r \in CallbackResults,
         created' = created + r[2], pend' = PendingAfter(a, r[1])
  PROVE  /\ PendStep(created, pend, created', pend') /\ WaitOnceIn(created', pend')
         /\ ClearIn(r[1].act, created', pend')
<1>1. created \in Nat /\ pend \in [Ids -> EventDesiredResult] /\ WaitOnceIn(created, pend)
  BY DEF TypeOK, WaitingAside
<1>2. \A u \in Ids : pend[u].act \in Nat
  BY FieldTyped, BoundPositive DEF IdOrNull
<1>3. \A u \in Ids : pend'[u].act = pend[u].act \/ pend'[u].act = Null
  BY <1>1 DEF PendingAfter, NoPending
<1>4. (r[1].act = Null /\ r[2] = 0) \/ (r[1].act = created + 1 /\ r[2] = 1)
  <2>1. \/ r = <<Continue, 0>> \/ r = <<Done, 0>> \/ r = <<Result("CHANGE_TO", Null), 0>>
        \/ r = <<Result("CHANGE_TO", NewAction), 1>> \/ r = <<Result("SUSPEND_FOR", NewAction), 1>>
    BY DEF CallbackResults
  <2>. QED
    BY <2>1 DEF Continue, Done, Result, NewAction
<1>5. created' = created \/ created' = created + 1
  BY <1>1, <1>4
<1>6. PendStep(created, pend, created', pend')
  BY <1>3, <1>5 DEF PendStep
<1>7. WaitOnceIn(created', pend')
  <2>1. \A u \in Ids : pend'[u].act <= created'
    BY <1>1, <1>2, <1>3, <1>5 DEF WaitOnceIn
  <2>2. \A u, v \in Ids : pend'[u].act = pend'[v].act => u = v \/ pend'[u].act = Null
    BY <1>1, <1>3 DEF WaitOnceIn
  <2>. QED
    BY <2>1, <2>2 DEF WaitOnceIn
<1>8. ClearIn(r[1].act, created', pend')
  <2>1. CASE r[1].act = Null
    BY <2>1 DEF ClearIn
  <2>2. CASE r[1].act = created + 1 /\ r[2] = 1
    <3>1. created' = created + 1 /\ \A u \in Ids : pend'[u].act # created + 1
      BY <1>1, <1>2, <1>3, <2>2 DEF WaitOnceIn
    <3>. QED
      BY <1>1, <2>2, <3>1 DEF ClearIn
  <2>. QED
    BY <1>4, <2>1, <2>2
<1>. QED
  BY <1>6, <1>7, <1>8

\* The callbacks that return a result.
LEMMA CallbacksAside == TypeOK /\ WaitingAside /\ (OnUpdate \/ OnStart \/ OnResume) => WaitingAside'
<1> SUFFICES ASSUME TypeOK, WaitingAside, OnUpdate \/ OnStart \/ OnResume PROVE WaitingAside'
  OBVIOUS
<1>1. ctl # <<>> /\ UNCHANGED <<links, started, root>>
  BY DEF OnUpdate, OnStart, OnResume, Running, flags, owner
<1>2. PICK op \in {"onUpdate", "onStart", "onResume"} : Running(op)
  BY DEF OnUpdate, OnStart, OnResume
<1>3. Clear(Top.a) /\ Top.a \in IdOrNull
  BY <1>2, TopClear, CallInProgress DEF DeleteOps
<1>4. PICK r \in CallbackResults :
        /\ created' = created + r[2]
        /\ pend' = PendingAfter(Top.a, r[1])
        /\ Becomes(<<Apply(Top.a, r[1])>>)
  BY DEF OnUpdate, OnStart, OnResume
<1>5. /\ PendStep(created, pend, created', pend') /\ WaitOnceIn(created', pend')
      /\ ClearIn(r[1].act, created', pend')
  BY <1>4, CallbackAside
<1>6. ClearIn(Top.a, created', pend')
  BY <1>3, <1>5, ClearKept
<1>7. CallClear(Apply(Top.a, r[1]), created', pend')
  BY <1>5, <1>6, ApplyIsClear
<1>8. CallsClearIn(ctl', created', pend')
  BY <1>1, <1>4, <1>5, <1>7, CallsClearBecomes
<1>9. ClearIn(root', created', pend')
  <2>1. root \in IdOrNull /\ Clear(root)
    BY PointersNow DEF TypeOK
  <2>. QED
    BY <1>1, <1>5, <2>1, ClearKept
<1>. QED
  BY <1>1, <1>5, <1>8, <1>9, AsidePend

\* InvokeUpdate takes a waiting action out of its event result.
LEMMA InvokeUpdateAside == TypeOK /\ WaitingAside /\ InvokeUpdate => WaitingAside'
<1> SUFFICES ASSUME TypeOK, WaitingAside, InvokeUpdate PROVE WaitingAside'
  OBVIOUS
<1>1. Running("update") /\ ctl # <<>> /\ UNCHANGED <<created, links, started, root>>
  BY DEF InvokeUpdate, heap, flags, owner, Running
<1> DEFINE a == Top.a
<1>2. Clear(a) /\ a \in Ids /\ Clear(child[a])
  BY <1>1, TopClear, CallInProgress, PointerClear DEF ActionOps, DeleteOps
<1>3. CASE Becomes(<<Apply(a, Done)>>) /\ UNCHANGED pend
  <2>1. ClearCall(Apply(a, Done))
    BY <1>2, MakeClear DEF Done, Result
  <2>2. CallsClearIn(ctl', created', pend')
    BY <1>1, <1>3, <2>1, CallsClearSame
  <2>. QED
    BY <1>1, <1>3, <2>2, AsideControl
<1>4. CASE Becomes(<<Apply(a, Result("CHANGE_TO", a))>>) /\ UNCHANGED pend
  <2>1. ClearCall(Apply(a, Result("CHANGE_TO", a)))
    BY <1>2, MakeClear DEF Result
  <2>2. CallsClearIn(ctl', created', pend')
    BY <1>1, <1>4, <2>1, CallsClearSame
  <2>. QED
    BY <1>1, <1>4, <2>2, AsideControl
<1>5. ASSUME NEW u \in PendingSource(a),
             Becomes(<<Apply(a, Result(pend[u].type, pend[u].act))>>),
             pend' = [pend EXCEPT ![u] = NoPending]
      PROVE  WaitingAside'
  <2>1. u \in Ids
    BY <1>2, <1>5 DEF PendingSource, FirstUnder
  <2>2. created \in Nat /\ pend \in [Ids -> EventDesiredResult] /\ WaitOnceIn(created, pend)
    BY DEF TypeOK, WaitingAside
  <2>3. \A v \in Ids : pend[v].act \in Nat
    BY FieldTyped, BoundPositive DEF IdOrNull
  <2>4. /\ \A v \in Ids : v # u => pend'[v].act = pend[v].act
        /\ pend'[u].act = Null
    BY <1>5, <2>1, <2>2 DEF NoPending
  <2>5. PendStep(created, pend, created', pend')
    BY <1>1, <2>4 DEF PendStep
  <2>6. WaitOnceIn(created', pend')
    BY <1>1, <2>2, <2>3, <2>4 DEF WaitOnceIn
  <2>7. ClearIn(pend[u].act, created', pend')
    BY <1>1, <2>1, <2>2, <2>3, <2>4 DEF WaitOnceIn, ClearIn
  <2>8. ClearIn(a, created', pend')
    BY <1>2, <2>5, ClearKept, Ranges
  <2>9. CallClear(Apply(a, Result(pend[u].type, pend[u].act)), created', pend')
    BY <2>7, <2>8, ApplyIsClear DEF Result
  <2>10. CallsClearIn(ctl', created', pend')
    BY <1>1, <1>5, <2>5, <2>9, CallsClearBecomes
  <2>11. ClearIn(root', created', pend')
    <3>1. root \in IdOrNull /\ Clear(root)
      BY PointersNow DEF TypeOK
    <3>. QED
      BY <1>1, <2>5, <3>1, ClearKept
  <2>. QED
    BY <1>1, <2>5, <2>6, <2>10, <2>11, AsidePend
<1>6. CASE /\ IF child[a] = Null
              THEN Becomes(<<Do("onUpdate", a)>>)
              ELSE Becomes(<<Do("update", child[a]), Do("setChild", a), Do("onUpdate", a)>>)
           /\ UNCHANGED pend
  <2>1. ClearCall(Do("onUpdate", a)) /\ ClearCall(Do("update", child[a])) /\ ClearCall(Do("setChild", a))
    BY <1>2, MakeClear
  <2>2. CallsClearIn(ctl', created', pend')
    BY <1>1, <1>6, <2>1, CallsClearSame
  <2>. QED
    BY <1>1, <1>6, <2>2, AsideControl
<1>. QED
  BY <1>3, <1>4, <1>5, <1>6 DEF InvokeUpdate

\* InitialContainedAction links a child that did not exist.
LEMMA InitialAside == TypeOK /\ WaitingAside /\ InitialContainedAction => WaitingAside'
<1> SUFFICES ASSUME TypeOK, WaitingAside, InitialContainedAction PROVE WaitingAside'
  OBVIOUS
<1>1. /\ Running("initial") /\ ctl # <<>>
      /\ UNCHANGED <<buried, covering, started, pend, root>>
  BY DEF InitialContainedAction, Running, flags, owner
<1> DEFINE n == Top.a
<1> DEFINE onStart == Call("onStart", n, Top.b, Top.drop)
<1>2. Clear(n) /\ Clear(Top.b) /\ Clear(Top.drop) /\ n \in Ids /\ Top.b \in IdOrNull /\ Top.drop \in IdOrNull
  BY <1>1, TopClear, CallInProgress DEF ActionOps, Callbacks, DeleteOps
<1>3. CASE /\ child' = [child EXCEPT ![n] = Null]
           /\ Becomes(<<onStart>>)
           /\ UNCHANGED <<created, parent>>
  <2>1. ClearCall(onStart)
    BY <1>2, MakeClear
  <2>2. CallsClearIn(ctl', created', pend')
    BY <1>1, <1>3, <2>1, CallsClearSame
  <2>3. PointersClearIn(child', created, pend)
    BY <1>3, PointersNow, PointersSet, NullClear
  <2>4. PointersClearIn(parent', created, pend) /\ PointersClearIn(buried', created, pend)
        /\ PointersClearIn(covering', created, pend) /\ Clear(root')
    BY <1>1, <1>3, PointersNow
  <2>5. ASSUME NEW m \in Ids, ~Clear(m)
        PROVE  /\ parent'[m] \in {parent[m], Null} /\ child'[m] \in {child[m], Null}
               /\ buried'[m] \in {buried[m], Null} /\ covering'[m] \in {covering[m], Null}
               /\ started'[m] => started[m]
    BY <1>1, <1>3, PointersNow
  <2>. QED
    BY <1>1, <1>3, <2>2, <2>3, <2>4, <2>5, AsideLinks
<1>4. CASE /\ created' = created + 1
           /\ child' = [child EXCEPT ![n] = NewAction]
           /\ parent' = [parent EXCEPT ![NewAction] = n]
           /\ Becomes(<<Apply(NewAction, Result("CHANGE_TO", NewAction)), Do("setChild", n), onStart>>)
  <2>1. created \in Nat /\ NewAction = created + 1
    BY DEF TypeOK, NewAction
  <2>2. PendStep(created, pend, created', pend')
    BY <1>1, <1>4 DEF PendStep
  <2>3. \A u \in Ids : pend[u].act \in Nat /\ pend[u].act <= created
    BY FieldTyped, BoundPositive DEF IdOrNull, WaitingAside, WaitOnceIn
  <2>4. ClearIn(NewAction, created', pend')
    BY <1>1, <1>4, <2>1, <2>3 DEF ClearIn
  <2>5. ClearIn(n, created', pend') /\ ClearIn(Top.b, created', pend') /\ ClearIn(Top.drop, created', pend')
    BY <1>2, <2>2, ClearKept, Ranges
  <2>6. /\ CallClear(Apply(NewAction, Result("CHANGE_TO", NewAction)), created', pend')
        /\ CallClear(Do("setChild", n), created', pend')
        /\ CallClear(onStart, created', pend')
    BY <2>4, <2>5, ApplyIsClear, DoIsClear, CallIsClear DEF Result
  <2>7. CallsClearIn(ctl', created', pend')
    BY <1>1, <1>4, <2>2, <2>6, CallsClearBecomes
  <2>8. /\ PointersClearIn(parent, created', pend') /\ PointersClearIn(child, created', pend')
        /\ PointersClearIn(buried, created', pend') /\ PointersClearIn(covering, created', pend')
    BY <2>1, <2>2, PointersNow, PointersStay
  <2>9. PointersClearIn(parent', created', pend') /\ PointersClearIn(child', created', pend')
    BY <1>4, <2>4, <2>5, <2>8, PointersNow DEF PointersClearIn
  <2>10. WaitingIsolatedIn(created', pend', parent', child', buried, covering, started)
    <3> SUFFICES ASSUME NEW m \in Ids, ~ClearIn(m, created', pend')
                 PROVE  IsolatedIn(m, parent', child', buried, covering) /\ ~started[m]
      BY DEF WaitingIsolatedIn
    <3>1. ~Clear(m)
      BY <2>2, ClearKept, Ranges
    <3>2. IsolatedIn(m, parent, child, buried, covering) /\ ~started[m]
      BY <3>1 DEF WaitingAside, WaitingIsolatedIn, Clear
    <3>3. m # NewAction /\ m # n
      BY <2>4, <2>5
    <3>. QED
      BY <1>4, <3>2, <3>3, PointersNow DEF IsolatedIn
  <2>11. WaitOnceIn(created', pend')
    BY <1>1, <1>4, <2>1, <2>3 DEF WaitingAside, WaitOnceIn
  <2>12. ClearIn(root', created', pend')
    <3>1. root \in IdOrNull /\ Clear(root)
      BY PointersNow DEF TypeOK
    <3>. QED
      BY <1>1, <2>2, <3>1, ClearKept
  <2>. QED
    BY <1>1, <2>7, <2>8, <2>9, <2>10, <2>11, <2>12 DEF WaitingAside
<1>. QED
  BY <1>3, <1>4 DEF InitialContainedAction

\* The memory of an action goes, and with it the result that was stored.
LEMMA FreeAside == TypeOK /\ WaitingAside /\ Free => WaitingAside'
<1> SUFFICES ASSUME TypeOK, WaitingAside, Free PROVE WaitingAside'
  OBVIOUS
<1> DEFINE a == Top.a
<1>1. /\ ctl # <<>> /\ UNCHANGED <<created, root>> /\ Becomes(<<>>)
      /\ parent' = [parent EXCEPT ![a] = Null] /\ child' = [child EXCEPT ![a] = Null]
      /\ buried' = [buried EXCEPT ![a] = Null] /\ covering' = [covering EXCEPT ![a] = Null]
      /\ started' = [started EXCEPT ![a] = FALSE] /\ pend' = [pend EXCEPT ![a] = NoPending]
  BY DEF Free, Running, owner
<1> HIDE DEF a
<1>2. created \in Nat /\ pend \in [Ids -> EventDesiredResult] /\ WaitOnceIn(created, pend)
  BY DEF TypeOK, WaitingAside
<1>3. \A v \in Ids : pend'[v].act = pend[v].act \/ pend'[v].act = Null
  BY <1>1, <1>2 DEF NoPending
<1>4. PendStep(created, pend, created', pend')
  BY <1>1, <1>3 DEF PendStep
<1>5. WaitOnceIn(created', pend')
  BY <1>1, <1>2, <1>3 DEF WaitOnceIn
<1>6. CallsClearIn(ctl', created', pend')
  BY <1>1, <1>4, CallsClearBecomes
<1>7. /\ PointersClearIn(parent, created', pend') /\ PointersClearIn(child, created', pend')
      /\ PointersClearIn(buried, created', pend') /\ PointersClearIn(covering, created', pend')
  BY <1>2, <1>4, PointersNow, PointersStay
<1>8. ClearIn(Null, created', pend')
  BY DEF ClearIn
<1>9. /\ PointersClearIn(parent', created', pend') /\ PointersClearIn(child', created', pend')
      /\ PointersClearIn(buried', created', pend') /\ PointersClearIn(covering', created', pend')
  BY <1>1, <1>7, <1>8, PointersNow DEF PointersClearIn
<1>10. WaitingIsolatedIn(created', pend', parent', child', buried', covering', started')
  <2> SUFFICES ASSUME NEW m \in Ids, ~ClearIn(m, created', pend')
               PROVE  IsolatedIn(m, parent', child', buried', covering') /\ ~started'[m]
    BY DEF WaitingIsolatedIn
  <2>1. ~Clear(m)
    BY <1>4, ClearKept, Ranges
  <2>2. IsolatedIn(m, parent, child, buried, covering) /\ ~started[m]
    BY <2>1 DEF WaitingAside, WaitingIsolatedIn, Clear
  <2>. QED
    BY <1>1, <2>2, PointersNow DEF IsolatedIn, TypeOK
<1>11. ClearIn(root', created', pend')
  <2>1. root \in IdOrNull /\ Clear(root)
    BY PointersNow DEF TypeOK
  <2>. QED
    BY <1>1, <1>4, <2>1, ClearKept
<1>. QED
  BY <1>5, <1>6, <1>9, <1>10, <1>11 DEF WaitingAside

\* Calls pushed on top of others.
LEMMA CallsClearPushed ==
  ASSUME NEW c, NEW p, NEW S, NEW s \in Seq(S), NEW t \in Seq(S),
         CallsClearIn(s, c, p), CallsClearIn(t, c, p)
  PROVE  CallsClearIn(s \o t, c, p)
<1> SUFFICES ASSUME NEW i \in 1..Len(s \o t) PROVE CallClear((s \o t)[i], c, p)
  BY DEF CallsClearIn
<1>1. Len(s) \in Nat /\ Len(t) \in Nat /\ Len(s \o t) = Len(s) + Len(t)
  OBVIOUS
<1>2. CASE i <= Len(s)
  <2>1. i \in 1..Len(s) /\ (s \o t)[i] = s[i]
    BY <1>1, <1>2
  <2>. QED
    BY <2>1 DEF CallsClearIn
<1>3. CASE i > Len(s)
  <2>1. i - Len(s) \in 1..Len(t) /\ (s \o t)[i] = t[i - Len(s)]
    BY <1>1, <1>3
  <2>. QED
    BY <2>1 DEF CallsClearIn
<1>. QED
  BY <1>1, <1>2, <1>3

\* The objects around the actions.
LEMMA ObjectsAside ==
  TypeOK /\ WaitingAside /\ (Purge \/ DeleteBottom \/ DropBehavior) => WaitingAside'
<1> SUFFICES ASSUME TypeOK, WaitingAside, Purge \/ DeleteBottom \/ DropBehavior PROVE WaitingAside'
  OBVIOUS
<1>1. /\ UNCHANGED <<created, pend, links, started>> /\ ctl # <<>>
      /\ root' = root \/ root' = Null
  BY DEF Purge, DeleteBottom, DropBehavior, heap, flags, owner, Running
<1>2. ASSUME Purge PROVE CallsClearIn(ctl', created', pend')
  <2>1. Becomes(<<>>) \/ Becomes(<<Do("delete", Head(dead)), Do("purge", Null)>>)
    BY <1>2 DEF Purge
  <2>2. ClearCall(Do("delete", Head(dead))) /\ ClearCall(Do("purge", Null))
    BY MakeClear DEF DeleteOps
  <2>. QED
    BY <1>1, <2>1, <2>2, CallsClearSame
<1>3. ASSUME DeleteBottom PROVE CallsClearIn(ctl', created', pend')
  <2>1. Becomes(<<>>) \/ \E bottom \in Ends(buried, root) : Becomes(<<Do("delete", bottom)>>)
    BY <1>3 DEF DeleteBottom
  <2>2. \A b : ClearCall(Do("delete", b))
    BY DeleteClear DEF DeleteOps
  <2>. QED
    BY <1>1, <2>1, <2>2, CallsClearSame
<1>4. ASSUME DropBehavior PROVE CallsClearIn(ctl', created', pend')
  BY <1>1, <1>4, CallsClearSame DEF DropBehavior
<1>. QED
  BY <1>1, <1>2, <1>3, <1>4, AsideControl

\* InitBehavior constructs the initial action.
LEMMA InitBehaviorAside == TypeOK /\ WaitingAside /\ InitBehavior => WaitingAside'
<1> SUFFICES ASSUME TypeOK, WaitingAside, InitBehavior PROVE WaitingAside'
  OBVIOUS
<1>1. ctl # <<>> /\ UNCHANGED <<links, started, pend>> /\ Becomes(<<>>)
  BY DEF InitBehavior, Running, flags
<1>2. \/ UNCHANGED <<created, root>>
      \/ created' = created + 1 /\ root' = created + 1
  BY DEF InitBehavior, NewAction
<1>3. PendStep(created, pend, created', pend')
  BY <1>1, <1>2 DEF PendStep
<1>4. created \in Nat /\ \A u \in Ids : pend[u].act \in Nat /\ pend[u].act <= created
  BY FieldTyped, BoundPositive DEF IdOrNull, WaitingAside, WaitOnceIn, TypeOK
<1>5. WaitOnceIn(created', pend')
  BY <1>1, <1>2, <1>4 DEF WaitingAside, WaitOnceIn
<1>6. ClearIn(root', created', pend')
  <2>1. root \in IdOrNull /\ Clear(root)
    BY PointersNow DEF TypeOK
  <2>2. CASE UNCHANGED <<created, root>>
    BY <1>3, <2>1, <2>2, ClearKept
  <2>3. CASE created' = created + 1 /\ root' = created + 1
    BY <1>1, <1>4, <2>3 DEF ClearIn
  <2>. QED
    BY <1>2, <2>2, <2>3
<1>7. CallsClearIn(ctl', created', pend')
  BY <1>1, <1>3, CallsClearBecomes
<1>. QED
  BY <1>1, <1>3, <1>5, <1>6, <1>7, AsidePend

\* The game calls Update.
LEMMA UpdateAside == TypeOK /\ WaitingAside /\ Update => WaitingAside'
<1> SUFFICES ASSUME TypeOK, WaitingAside, Update PROVE WaitingAside'
  OBVIOUS
<1>1. UNCHANGED <<created, pend, links, root, started>>
      /\ ctl' = <<Do("update", root), Do("setRoot", Null)>>
  BY DEF Update, heap, flags
<1>2. ClearCall(Do("update", root)) /\ ClearCall(Do("setRoot", Null))
  BY MakeClear, PointersNow
<1>3. CallsClearIn(ctl', created', pend')
  <2>1. \A i \in 1..Len(ctl') : ctl'[i] = Do("update", root) \/ ctl'[i] = Do("setRoot", Null)
    BY <1>1
  <2>. QED
    BY <1>1, <1>2, <2>1 DEF CallsClearIn, ClearCall
<1>. QED
  BY <1>1, <1>3, AsideControl

\* The destruction of the behaviour is called.
LEMMA ResetAside == TypeOK /\ WaitingAside /\ (Reset \/ DestroyIntention) => WaitingAside'
<1> SUFFICES ASSUME TypeOK, WaitingAside, Reset \/ DestroyIntention PROVE WaitingAside'
  OBVIOUS
<1>1. UNCHANGED <<created, pend, links, root, started>>
  BY DEF Reset, DestroyIntention, heap, flags
<1> DEFINE S == Frame \cup {Do("end", root), Do("deleteBottom", Null), Do("purge", Null),
                            Do("dropBehavior", Null), Do("initBehavior", Null)}
<1> DEFINE pre == IF me /\ root # Null THEN <<Do("end", root)>> ELSE <<>>
<1> DEFINE mid == <<Do("deleteBottom", Null), Do("purge", Null), Do("dropBehavior", Null)>>
<1>2. PICK then \in {<<>>, <<Do("initBehavior", Null)>>} : ctl' = pre \o mid \o then \o ctl
  BY DEF Reset, DestroyIntention, DestroyBehavior
<1>3. pre \in Seq(S) /\ mid \in Seq(S) /\ then \in Seq(S) /\ ctl \in Seq(S)
  <2>1. /\ Do("end", root) \in S /\ Do("deleteBottom", Null) \in S /\ Do("purge", Null) \in S
        /\ Do("dropBehavior", Null) \in S /\ Do("initBehavior", Null) \in S
        /\ ctl \in Seq(Frame) /\ Frame \subseteq S
    BY DEF TypeOK
  <2> HIDE DEF S
  <2>2. ctl \in Seq(S)
    BY <2>1
  <2>3. pre \in Seq(S)
    BY <2>1
  <2>4. mid \in Seq(S)
    BY <2>1
  <2>5. then \in Seq(S)
    <3>1. <<>> \in Seq(S) /\ <<Do("initBehavior", Null)>> \in Seq(S)
      BY <2>1
    <3>. QED
      BY ONLY <1>2, <3>1
  <2>. QED
    BY <2>2, <2>3, <2>4, <2>5
<1>4. /\ ClearCall(Do("end", root)) /\ ClearCall(Do("deleteBottom", Null)) /\ ClearCall(Do("purge", Null))
      /\ ClearCall(Do("dropBehavior", Null)) /\ ClearCall(Do("initBehavior", Null))
  BY MakeClear, PointersNow
<1>5. CallsClearIn(pre, created, pend)
  BY <1>4 DEF CallsClearIn, ClearCall
<1>6. CallsClearIn(mid, created, pend)
  BY <1>4 DEF CallsClearIn, ClearCall
<1>7. CallsClearIn(then, created, pend)
  BY <1>4 DEF CallsClearIn, ClearCall
<1>8. CallsClearIn(ctl, created, pend)
  BY DEF WaitingAside
<1> HIDE DEF pre, mid, S
<1>9. CallsClearIn(pre \o mid \o then \o ctl, created, pend)
  <2>1. pre \o mid \in Seq(S) /\ CallsClearIn(pre \o mid, created, pend)
    BY <1>3, <1>5, <1>6, CallsClearPushed, ConcatProperties
  <2>2. pre \o mid \o then \in Seq(S) /\ CallsClearIn(pre \o mid \o then, created, pend)
    BY <1>3, <1>7, <2>1, CallsClearPushed, ConcatProperties
  <2>. QED
    BY <1>3, <1>8, <2>2, CallsClearPushed
<1>. QED
  BY <1>1, <1>2, <1>9, AsideControl

\* An event stores a new action or has one destroyed.
LEMMA EventAside ==
  ASSUME TypeOK, WaitingAside, NEW a \in Ids, NEW type \in EventTypes, NEW prio \in Priorities,
         Event(a, type, prio)
  PROVE  WaitingAside'
<1> DEFINE creates == type \in {"CHANGE_TO", "SUSPEND_FOR"}
<1> DEFINE new == IF creates THEN NewAction ELSE Null
<1> DEFINE accepted == Accepts(prio, pend[a].prio)
<1> DEFINE unused == IF accepted THEN pend[a].act ELSE new
<1>1. /\ UNCHANGED <<links, started, root>>
      /\ created' = IF creates THEN NewAction ELSE created
      /\ pend' = IF accepted
                 THEN [pend EXCEPT ![a] = [type |-> type, act |-> new, prio |-> prio]]
                 ELSE pend
      /\ ctl' = IF unused = Null THEN ctl ELSE <<Do("delete", unused)>> \o ctl
  BY DEF Event, flags, owner
<1>2. created \in Nat /\ pend \in [Ids -> EventDesiredResult] /\ WaitOnceIn(created, pend)
  BY DEF TypeOK, WaitingAside
<1>3. \A v \in Ids : pend[v].act \in Nat
  BY FieldTyped, BoundPositive DEF IdOrNull
<1>4. (new = Null /\ created' = created) \/ (new = created + 1 /\ created' = created + 1)
  BY <1>1 DEF NewAction
<1>5. /\ \A v \in Ids : v # a => pend'[v].act = pend[v].act
      /\ pend'[a].act = pend[a].act \/ pend'[a].act = new
  BY <1>1, <1>2
<1> HIDE DEF new, accepted, unused
<1>6. PendStep(created, pend, created', pend')
  BY <1>4, <1>5 DEF PendStep
<1>7. WaitOnceIn(created', pend')
  BY <1>2, <1>3, <1>4, <1>5 DEF WaitOnceIn
<1>8. CallsClearIn(ctl', created', pend')
  <2>1. CallsClearIn(ctl, created', pend')
    <3> SUFFICES ASSUME NEW i \in 1..Len(ctl) PROVE CallClear(ctl[i], created', pend')
      BY DEF CallsClearIn
    <3>1. ctl[i] \in Frame /\ CallClear(ctl[i], created, pend)
      BY DEF TypeOK, WaitingAside, CallsClearIn
    <3>. QED
      BY <1>2, <1>6, <3>1, CallStays
  <2>2. CASE ctl' = ctl
    BY <2>1, <2>2
  <2>3. CASE ctl' = <<Do("delete", unused)>> \o ctl
    <3> DEFINE d == Do("delete", unused)
    <3> DEFINE S == Frame \cup {d}
    <3>1. <<d>> \in Seq(S) /\ ctl \in Seq(S)
      BY DEF TypeOK
    <3>2. CallClear(d, created', pend')
      BY DoIsClear DEF DeleteOps
    <3>3. CallsClearIn(<<d>>, created', pend')
      BY <3>2 DEF CallsClearIn
    <3> HIDE DEF d, S
    <3>4. CallsClearIn(<<d>> \o ctl, created', pend')
      BY <2>1, <3>1, <3>3, CallsClearPushed
    <3>. QED
      BY <2>3, <3>4 DEF d
  <2>. QED
    BY <1>1, <2>2, <2>3
<1>9. ClearIn(root', created', pend')
  <2>1. root \in IdOrNull /\ Clear(root)
    BY PointersNow DEF TypeOK
  <2>. QED
    BY <1>1, <1>6, <2>1, ClearKept
<1>. QED
  BY <1>1, <1>6, <1>7, <1>8, <1>9, AsidePend

\* At the start nothing waits.
LEMMA InitAside == Init => WaitingAside
<1> SUFFICES ASSUME Init PROVE WaitingAside
  OBVIOUS
<1>1. /\ created = 1 /\ root = 1 /\ ctl = <<>> /\ pend = [u \in Ids |-> NoPending]
      /\ parent = [u \in Ids |-> Null] /\ child = [u \in Ids |-> Null]
      /\ buried = [u \in Ids |-> Null] /\ covering = [u \in Ids |-> Null]
      /\ started = [u \in Ids |-> FALSE]
  BY DEF Init
<1>2. \A u \in Ids : pend[u].act = Null
  BY <1>1 DEF NoPending
<1>3. CallsClearIn(ctl, created, pend)
  BY <1>1 DEF CallsClearIn
<1>4. ClearIn(root, created, pend)
  BY <1>1, <1>2 DEF ClearIn
<1>5. \A f : f = [u \in Ids |-> Null] => PointersClearIn(f, created, pend)
  BY DEF PointersClearIn, ClearIn
<1>6. WaitingIsolatedIn(created, pend, parent, child, buried, covering, started)
  BY <1>1 DEF WaitingIsolatedIn, IsolatedIn
<1>7. WaitOnceIn(created, pend)
  BY <1>1, <1>2 DEF WaitOnceIn
<1>. QED
  BY <1>1, <1>3, <1>4, <1>5, <1>6, <1>7 DEF WaitingAside

\* Every step keeps the waiting actions aside.
LEMMA NextAside == TypeOK /\ WaitingAside /\ [Next]_vars => WaitingAside'
<1> SUFFICES ASSUME TypeOK, WaitingAside, [Next]_vars PROVE WaitingAside'
  OBVIOUS
<1>1. CASE Engine
  BY <1>1, InvokeUpdateAside, CallbacksAside, ApplyAside, StartAside, InitialAside, EndAside,
     SuspendAside, ResumeAside, ReturnAside, DeleteAside, FreeAside, ObjectsAside,
     InitBehaviorAside DEF Engine
<1>2. CASE World
  BY <1>2, UpdateAside, ResetAside, EventAside DEF World
<1>3. CASE UNCHANGED vars
  BY <1>3 DEF vars, WaitingAside
<1>. QED
  BY <1>1, <1>2, <1>3 DEF Next

-----------------------------------------------------------------------------
\* No callback of an ending is in progress.
QuietIn(ct) == \A i \in 1..Len(ct) : ct[i].op # "onEnd"

\* Then nothing is disturbed and there is nothing to count.
LEMMA QuietEnough ==
  ASSUME NEW ct, QuietIn(ct)
  PROVE  /\ \A pa, ch, bu, co : UndisturbedIn(ct, pa, ch, bu, co)
         /\ \A st, ch, bu : CountedIn(ct, st, ch, bu)
BY DEF QuietIn, UndisturbedIn, CountedIn

\* A call that no ending makes shows that none is in progress.
LEMMA QuietUnder ==
  ASSUME TypeOK, EndingUndisturbed, ctl # <<>>, Top.op \notin EndOps \cup DeleteOps
  PROVE  QuietIn(ctl)
<1> SUFFICES ASSUME NEW i \in 1..Len(ctl), ctl[i].op = "onEnd" PROVE FALSE
  BY DEF QuietIn
<1>1. ctl \in Seq(Frame) /\ ctl[1] = Top
  BY DEF TypeOK, Top
<1>2. i # 1
  BY <1>1 DEF EndOps
<1>3. 1 \in 1..(i-1)
  BY <1>1, <1>2
<1>4. LightIn(ctl[1], parent, child, buried, covering)
  BY <1>3 DEF EndingUndisturbed, UndisturbedIn
<1>. QED
  BY <1>1, <1>4 DEF LightIn, DiscardIn

\* Calls that replace the one on top.
LEMMA QuietReplaced ==
  ASSUME NEW s \in Seq(Frame), s # <<>>, QuietIn(s), NEW X, NEW fs \in Seq(X),
         \A i \in 1..Len(fs) : fs[i].op # "onEnd", NEW t, t = fs \o Tail(s)
  PROVE  QuietIn(t)
<1> DEFINE S == Frame \cup X
<1>1. s \in Seq(S) /\ fs \in Seq(S)
  OBVIOUS
<1> HIDE DEF S
<1> SUFFICES ASSUME NEW i \in 1..Len(t) PROVE t[i].op # "onEnd"
  BY DEF QuietIn
<1>2. Len(fs) \in Nat /\ i \in Nat /\ Len(s) \in Nat
  BY <1>1
<1>3. CASE i <= Len(fs)
  <2>1. i \in 1..Len(fs) /\ t[i] = fs[i]
    BY <1>1, <1>3, Replaced
  <2>. QED
    BY <2>1
<1>4. CASE i > Len(fs)
  <2> DEFINE j == i - Len(fs) + 1
  <2>1. j \in 2..Len(s) /\ t[i] = s[j]
    BY <1>1, <1>4, Replaced
  <2>2. j \in 1..Len(s)
    BY <1>2, <2>1
  <2>. QED
    BY <2>1, <2>2 DEF QuietIn
<1>. QED
  BY <1>2, <1>3, <1>4

\* A few of them.
LEMMA QuietBecomes ==
  ASSUME TypeOK, ctl # <<>>, QuietIn(ctl)
  PROVE  /\ Becomes(<<>>) => QuietIn(ctl')
         /\ \A x : Becomes(<<x>>) /\ x.op # "onEnd" => QuietIn(ctl')
         /\ \A x, y : Becomes(<<x, y>>) /\ x.op # "onEnd" /\ y.op # "onEnd" => QuietIn(ctl')
         /\ \A x, y, z : Becomes(<<x, y, z>>) /\ x.op # "onEnd" /\ y.op # "onEnd" /\ z.op # "onEnd"
                           => QuietIn(ctl')
<1>1. ctl \in Seq(Frame)
  BY DEF TypeOK
<1>2. ASSUME NEW X, NEW fs \in Seq(X), Becomes(fs), \A i \in 1..Len(fs) : fs[i].op # "onEnd"
      PROVE  QuietIn(ctl')
  BY <1>1, <1>2, QuietReplaced DEF Becomes
<1>3. ASSUME Becomes(<<>>) PROVE QuietIn(ctl')
  <2>1. <<>> \in Seq(Frame) /\ \A i \in 1..Len(<<>>) : <<>>[i].op # "onEnd"
    OBVIOUS
  <2>. QED
    BY <1>2, <1>3, <2>1
<1>4. ASSUME NEW x, Becomes(<<x>>), x.op # "onEnd" PROVE QuietIn(ctl')
  <2>1. \A i \in 1..Len(<<x>>) : <<x>>[i].op # "onEnd"
    BY <1>4, FewCalls
  <2>. QED
    BY <1>2, <1>4, <2>1, FewCalls
<1>5. ASSUME NEW x, NEW y, Becomes(<<x, y>>), x.op # "onEnd", y.op # "onEnd" PROVE QuietIn(ctl')
  <2>1. \A i \in 1..Len(<<x, y>>) : <<x, y>>[i].op # "onEnd"
    BY <1>5, FewCalls
  <2>. QED
    BY <1>2, <1>5, <2>1, FewCalls
<1>6. ASSUME NEW x, NEW y, NEW z, Becomes(<<x, y, z>>), x.op # "onEnd", y.op # "onEnd", z.op # "onEnd"
      PROVE  QuietIn(ctl')
  <2>1. \A i \in 1..Len(<<x, y, z>>) : <<x, y, z>>[i].op # "onEnd"
    BY <1>6, FewCalls
  <2>. QED
    BY <1>2, <1>6, <2>1, FewCalls
<1>7. \A x : Becomes(<<x>>) /\ x.op # "onEnd" => QuietIn(ctl')
  BY <1>4
<1>8. \A x, y : Becomes(<<x, y>>) /\ x.op # "onEnd" /\ y.op # "onEnd" => QuietIn(ctl')
  BY <1>5
<1>9. \A x, y, z : Becomes(<<x, y, z>>) /\ x.op # "onEnd" /\ y.op # "onEnd" /\ z.op # "onEnd"
                     => QuietIn(ctl')
  BY <1>6
<1>. QED
  BY ONLY <1>3, <1>7, <1>8, <1>9

\* What a call is called.
LEMMA OpOf ==
  /\ \A op, a, b, d : Call(op, a, b, d).op = op
  /\ \A op, a : Do(op, a).op = op
  /\ \A a, r : Apply(a, r).op = "apply"
BY DEF Call, Do, Apply

\* The steps that are no part of an ending, and make none.
OtherSteps ==
  \/ InvokeUpdate \/ OnUpdate
  \/ ApplyContinue \/ ApplyChangeTo \/ ApplySuspendFor \/ ApplyDone \/ FinishDone
  \/ StartChanged \/ StartInterrupting \/ InitialContainedAction \/ OnStart
  \/ InvokeOnSuspend \/ OnSuspend \/ DoneSuspended \/ InvokeOnResume \/ OnResume
  \/ Return \/ Purge \/ DeleteBottom \/ DropBehavior \/ InitBehavior

\* They run when no callback of an ending is in progress.
LEMMA OtherStepsQuiet ==
  ASSUME TypeOK, EndingUndisturbed, OtherSteps
  PROVE  ctl # <<>> /\ QuietIn(ctl)
<1>1. \E op \in {"update", "onUpdate", "apply", "finish", "change", "interrupt", "initial", "onStart",
                 "suspend", "onSuspend", "doneSuspended", "resume", "onResume", "ret", "purge",
                 "deleteBottom", "dropBehavior", "initBehavior"} : Running(op)
  BY DEF OtherSteps, InvokeUpdate, OnUpdate, ApplyContinue, ApplyChangeTo, ApplySuspendFor, ApplyDone,
     FinishDone, StartChanged, StartInterrupting, InitialContainedAction, OnStart, InvokeOnSuspend,
     OnSuspend, DoneSuspended, InvokeOnResume, OnResume, Return, Purge, DeleteBottom, DropBehavior,
     InitBehavior
<1>2. ctl # <<>> /\ Top.op \notin EndOps \cup DeleteOps
  BY <1>1 DEF Running, EndOps, DeleteOps
<1>. QED
  BY <1>2, QuietUnder

\* And they leave it so.
LEMMA OtherStepsStayQuiet ==
  ASSUME TypeOK, ctl # <<>>, QuietIn(ctl), OtherSteps
  PROVE  QuietIn(ctl')
<1> USE QuietBecomes, OpOf
<1>1. CASE InvokeUpdate
  <2>1. \/ Becomes(<<Apply(Top.a, Done)>>)
        \/ Becomes(<<Apply(Top.a, Result("CHANGE_TO", Top.a))>>)
        \/ \E u : Becomes(<<Apply(Top.a, Result(pend[u].type, pend[u].act))>>)
        \/ Becomes(<<Do("onUpdate", Top.a)>>)
        \/ Becomes(<<Do("update", child[Top.a]), Do("setChild", Top.a), Do("onUpdate", Top.a)>>)
    BY <1>1 DEF InvokeUpdate
  <2>2. ASSUME NEW u, Becomes(<<Apply(Top.a, Result(pend[u].type, pend[u].act))>>)
        PROVE  QuietIn(ctl')
    BY <2>2
  <2>3. CASE Becomes(<<Do("update", child[Top.a]), Do("setChild", Top.a), Do("onUpdate", Top.a)>>)
    BY <2>3
  <2>4. CASE Becomes(<<Do("onUpdate", Top.a)>>)
    BY <2>4
  <2>5. CASE Becomes(<<Apply(Top.a, Done)>>) \/ Becomes(<<Apply(Top.a, Result("CHANGE_TO", Top.a))>>)
    BY <2>5
  <2>. QED
    BY ONLY <2>1, <2>2, <2>3, <2>4, <2>5
<1>2. CASE OnUpdate \/ OnStart \/ OnResume
  <2>1. PICK r \in CallbackResults : Becomes(<<Apply(Top.a, r[1])>>)
    BY <1>2 DEF OnUpdate, OnStart, OnResume
  <2>. QED
    BY <2>1
<1>3. CASE ApplyContinue
  BY <1>3 DEF ApplyContinue
<1>4. CASE ApplyChangeTo
  BY <1>4 DEF ApplyChangeTo, EndThenStart
<1>5. CASE ApplySuspendFor
  BY <1>5 DEF ApplySuspendFor
<1>6. CASE ApplyDone
  BY <1>6 DEF ApplyDone
<1>7. CASE FinishDone
  <2>1. Becomes(<<Do("ret", Null)>>) \/ Becomes(<<Call("resume", Top.b, Null, Top.a)>>)
    BY <1>7 DEF FinishDone
  <2>. QED
    BY <2>1
<1>8. CASE StartChanged \/ StartInterrupting
  <2>1. \E n, prior, drop : Becomes(<<Call("initial", n, prior, drop)>>)
    BY <1>8 DEF StartChanged, StartInterrupting, InvokeOnStart
  <2>. QED
    BY <2>1
<1>9. CASE InitialContainedAction
  <2> DEFINE f == Call("onStart", Top.a, Top.b, Top.drop)
  <2>1. \/ Becomes(<<f>>)
        \/ Becomes(<<Apply(NewAction, Result("CHANGE_TO", NewAction)), Do("setChild", Top.a), f>>)
    BY <1>9 DEF InitialContainedAction
  <2>. QED
    BY <2>1
<1>10. CASE InvokeOnSuspend
  <2> DEFINE f == Call("onSuspend", Top.a, Top.b, Null)
  <2>1. \/ Becomes(<<f>>)
        \/ Becomes(<<Call("suspend", child[Top.a], Top.b, Null), Do("setChild", Top.a), f>>)
    BY <1>10 DEF InvokeOnSuspend
  <2>. QED
    BY <2>1
<1>11. CASE OnSuspend
  BY <1>11 DEF OnSuspend
<1>12. CASE DoneSuspended
  BY <1>12 DEF DoneSuspended
<1>13. CASE InvokeOnResume
  <2> DEFINE f == Call("onResume", Top.a, Null, Top.drop)
  <2>1. \/ Becomes(<<Apply(Top.a, Continue)>>)
        \/ Becomes(<<f>>)
        \/ Becomes(<<Do("resume", child[Top.a]), Do("setChild", Top.a), f>>)
    BY <1>13 DEF InvokeOnResume
  <2>. QED
    BY <2>1
<1>14. CASE Return
  <2>1. /\ ctl \in Seq(Frame) /\ Len(ctl) > 1
        /\ \/ ctl' = <<>> \o Tail(Tail(ctl))
           \/ ctl' = <<Do("purge", Null)>> \o Tail(Tail(ctl))
           \/ ctl' = <<Call("interrupt", ctl[2].a, Top.a, Null)>> \o Tail(Tail(ctl))
    BY <1>14 DEF Return, TypeOK
  <2>2. Tail(ctl) \in Seq(Frame) /\ Tail(ctl) # <<>> /\ QuietIn(Tail(ctl))
    <3>1. Tail(ctl) \in Seq(Frame) /\ Tail(ctl) # <<>>
          /\ \A i \in 1..Len(Tail(ctl)) : i + 1 \in 1..Len(ctl) /\ Tail(ctl)[i] = ctl[i + 1]
      BY <2>1, TailLong
    <3>2. QuietIn(Tail(ctl))
      BY <3>1 DEF QuietIn
    <3>. QED
      BY <3>1, <3>2
  <2>3. CASE ctl' = <<>> \o Tail(Tail(ctl))
    <3>1. <<>> \in Seq(Frame) /\ \A i \in 1..Len(<<>>) : <<>>[i].op # "onEnd"
      OBVIOUS
    <3>. QED
      BY <2>2, <2>3, <3>1, QuietReplaced
  <2>4. ASSUME NEW x, x.op # "onEnd", ctl' = <<x>> \o Tail(Tail(ctl)) PROVE QuietIn(ctl')
    <3>1. <<x>> \in Seq({x}) /\ \A i \in 1..Len(<<x>>) : <<x>>[i].op # "onEnd"
      BY <2>4, FewCalls
    <3>. QED
      BY <2>2, <2>4, <3>1, QuietReplaced
  <2>5. Do("purge", Null).op # "onEnd" /\ Call("interrupt", ctl[2].a, Top.a, Null).op # "onEnd"
    OBVIOUS
  <2>. QED
    BY ONLY <2>1, <2>3, <2>4, <2>5
<1>15. CASE Purge
  <2>1. Becomes(<<>>) \/ Becomes(<<Do("delete", Head(dead)), Do("purge", Null)>>)
    BY <1>15 DEF Purge
  <2>. QED
    BY <2>1
<1>16. CASE DeleteBottom
  <2>1. Becomes(<<>>) \/ \E b : Becomes(<<Do("delete", b)>>)
    BY <1>16 DEF DeleteBottom
  <2>. QED
    BY <2>1
<1>17. CASE DropBehavior \/ InitBehavior
  BY <1>17 DEF DropBehavior, InitBehavior
<1>. QED
  BY <1>1, <1>2, <1>3, <1>4, <1>5, <1>6, <1>7, <1>8, <1>9, <1>10, <1>11, <1>12, <1>13, <1>14,
     <1>15, <1>16, <1>17 DEF OtherSteps

\* So nothing is disturbed, and nothing to count.
LEMMA OtherStepsEnd ==
  ASSUME TypeOK, EndingUndisturbed, OtherSteps
  PROVE  EndingUndisturbed' /\ ContentsCounted'
<1>1. QuietIn(ctl')
  BY OtherStepsQuiet, OtherStepsStayQuiet
<1>. QED
  BY <1>1, QuietEnough DEF EndingUndisturbed, ContentsCounted

\* Nor when the game calls in, which happens between two updates: the bot is
\* not reset from inside a callback.
LEMMA WorldEnds ==
  ASSUME Resets # "anytime", Update \/ Reset \/ DestroyIntention
  PROVE  EndingUndisturbed' /\ ContentsCounted'
<1>1. CASE Update
  <2>1. ctl' = <<Do("update", root), Do("setRoot", Null)>>
    BY <1>1 DEF Update
  <2>2. \A i \in 1..Len(ctl') : ctl'[i].op # "onEnd"
    BY <2>1, OpOf
  <2>. QED
    BY <2>2, QuietEnough DEF QuietIn, EndingUndisturbed, ContentsCounted
<1>2. CASE Reset \/ DestroyIntention
  <2> DEFINE S == {Do("end", root), Do("deleteBottom", Null), Do("purge", Null),
                   Do("dropBehavior", Null), Do("initBehavior", Null)}
  <2> DEFINE pre == IF me /\ root # Null THEN <<Do("end", root)>> ELSE <<>>
  <2> DEFINE mid == <<Do("deleteBottom", Null), Do("purge", Null), Do("dropBehavior", Null)>>
  <2>1. ctl = <<>>
    BY <1>2 DEF Reset, DestroyIntention, BetweenCallsOr
  <2>2. PICK then \in {<<>>, <<Do("initBehavior", Null)>>} : ctl' = pre \o mid \o then \o ctl
    BY <1>2 DEF Reset, DestroyIntention, DestroyBehavior
  <2>3. /\ Do("end", root) \in S /\ Do("deleteBottom", Null) \in S /\ Do("purge", Null) \in S
        /\ Do("dropBehavior", Null) \in S /\ Do("initBehavior", Null) \in S
    OBVIOUS
  <2>4. \A f \in S : f.op # "onEnd"
    BY OpOf
  <2> HIDE DEF S
  <2>5. pre \in Seq(S) /\ mid \in Seq(S)
    BY <2>3
  <2>6. then \in Seq(S)
    <3>1. <<>> \in Seq(S) /\ <<Do("initBehavior", Null)>> \in Seq(S)
      BY <2>3
    <3>. QED
      BY ONLY <2>2, <3>1
  <2> HIDE DEF pre, mid
  <2>7. ctl' \in Seq(S)
    <3>1. ctl \in Seq(S)
      BY <2>1
    <3>2. pre \o mid \in Seq(S)
      BY <2>5, ConcatProperties
    <3>3. pre \o mid \o then \in Seq(S)
      BY <2>6, <3>2, ConcatProperties
    <3>4. pre \o mid \o then \o ctl \in Seq(S)
      BY <3>1, <3>3, ConcatProperties
    <3>. QED
      BY <2>2, <3>4
  <2>8. \A i \in 1..Len(ctl') : ctl'[i].op # "onEnd"
    BY <2>4, <2>7
  <2>. QED
    BY <2>8, QuietEnough DEF QuietIn, EndingUndisturbed, ContentsCounted
<1>. QED
  BY <1>1, <1>2

\* The calls that replace the one on top may run inside endings.
LEMMA UndisturbedReplaced ==
  ASSUME NEW pa, NEW ch, NEW bu, NEW co,
         NEW s \in Seq(Frame), s # <<>>, UndisturbedIn(s, pa, ch, bu, co),
         NEW X, NEW fs \in Seq(X), \A i \in 1..Len(fs) : LightIn(fs[i], pa, ch, bu, co),
         NEW t, t = fs \o Tail(s)
  PROVE  UndisturbedIn(t, pa, ch, bu, co)
<1> DEFINE S == Frame \cup X
<1>1. s \in Seq(S) /\ fs \in Seq(S)
  OBVIOUS
<1> HIDE DEF S
<1> DEFINE n == Len(fs)
<1>2. n \in Nat /\ Len(s) \in Nat /\ Len(t) \in Nat
  BY <1>1, Replaced
<1>3. \A i \in 1..Len(fs) : i \in 1..Len(t) /\ t[i] = fs[i]
  BY <1>1, Replaced
<1>4. \A i \in 1..Len(t) : i > Len(fs) =>
        i - Len(fs) + 1 \in 2..Len(s) /\ t[i] = s[i - Len(fs) + 1]
  BY <1>1, Replaced
<1> HIDE DEF n
<1> SUFFICES ASSUME NEW i \in 1..Len(t), t[i].op = "onEnd", NEW j \in 1..(i-1)
             PROVE  LightIn(t[j], pa, ch, bu, co)
  BY DEF UndisturbedIn
<1>5. CASE j <= n
  <2>1. j \in 1..Len(fs) /\ t[j] = fs[j]
    BY <1>2, <1>3, <1>5 DEF n
  <2>. QED
    BY <2>1
<1>6. CASE j > n
  <2> DEFINE k == i - n + 1
  <2> DEFINE m == j - n + 1
  <2>1. k \in 2..Len(s) /\ t[i] = s[k]
    BY <1>2, <1>4, <1>6 DEF n
  <2>2. j \in 1..Len(t)
    BY <1>2
  <2>3. m \in 2..Len(s) /\ t[j] = s[m]
    BY <1>4, <1>6, <2>2 DEF n
  <2>4. k \in 1..Len(s) /\ m \in 1..(k-1)
    BY <1>2, <2>1, <2>3
  <2>. QED
    BY <2>1, <2>3, <2>4 DEF UndisturbedIn
<1>. QED
  BY <1>2, <1>5, <1>6

\* The calls fs make up for the one on top, s[1]: what it was about to end
\* they end, and the endings among them are counted.
MakesUp(s, fs, st, ch, bu) ==
  /\ \A c \in Ids : st[c] /\ EndingIn(s[1], c, bu) => \E j \in 1..Len(fs) : EndingIn(fs[j], c, bu)
  /\ CountedIn(fs, st, ch, bu)

\* What a frame's action contains are actions.
LEMMA StackInIds ==
  ASSUME NEW ch \in [Ids -> IdOrNull], NEW bu \in [Ids -> IdOrNull], NEW a \in Ids,
         NEW c \in StackIn(ch, bu, a)
  PROVE  c \in Ids
<1>1. ch[a] # Null /\ ch[a] \in Ids
  BY BoundPositive DEF StackIn, IdOrNull, Ids
<1>2. Walk(bu, ch[a]) \in [0..MaxActions -> IdOrNull]
  BY <1>1, Ranges, WalkUnfolds
<1>3. c = ch[a] \/ (c # Null /\ c \in IdOrNull)
  BY <1>1, <1>2, BoundPositive DEF StackIn, BelowIn
<1>. QED
  BY <1>1, <1>3, Ranges, BoundPositive DEF IdOrNull, Ids

\* Whatever was counted still is.
LEMMA CountedReplaced ==
  ASSUME NEW ch \in [Ids -> IdOrNull], NEW bu \in [Ids -> IdOrNull],
         NEW st, NEW st2, \A c \in Ids : st2[c] => st[c],
         NEW s \in Seq(Frame), s # <<>>, CountedIn(s, st, ch, bu),
         NEW X, NEW fs \in Seq(X), MakesUp(s, fs, st2, ch, bu),
         NEW t, t = fs \o Tail(s)
  PROVE  CountedIn(t, st2, ch, bu)
<1> DEFINE S == Frame \cup X
<1>1. s \in Seq(S) /\ fs \in Seq(S)
  OBVIOUS
<1> HIDE DEF S
<1> DEFINE n == Len(fs)
<1>2. n \in Nat /\ Len(s) \in Nat /\ Len(t) \in Nat /\ Len(t) = n + Len(s) - 1
  BY <1>1, Replaced
<1>3. \A i \in 1..Len(fs) : i \in 1..Len(t) /\ t[i] = fs[i]
  BY <1>1, Replaced
<1>4. \A i \in 1..Len(t) : i > Len(fs) =>
        i - Len(fs) + 1 \in 2..Len(s) /\ t[i] = s[i - Len(fs) + 1]
  BY <1>1, Replaced
<1> HIDE DEF n
<1> SUFFICES ASSUME NEW i \in 1..Len(t), t[i].op = "onEnd",
                    NEW c \in StackIn(ch, bu, t[i].a), st2[c]
             PROVE  \E j \in 1..(i-1) : EndingIn(t[j], c, bu)
  BY DEF CountedIn
<1>5. CASE i <= n
  <2>1. i \in 1..Len(fs) /\ t[i] = fs[i]
    BY <1>2, <1>3, <1>5 DEF n
  <2>2. PICK j \in 1..(i-1) : EndingIn(fs[j], c, bu)
    BY <2>1 DEF MakesUp, CountedIn
  <2>3. j \in 1..Len(fs)
    BY <1>2, <1>5 DEF n
  <2>. QED
    BY <1>3, <2>2, <2>3
<1>6. CASE i > n
  <2> DEFINE k == i - n + 1
  <2>1. k \in 2..Len(s) /\ t[i] = s[k]
    BY <1>4, <1>6 DEF n
  <2>2. k \in 1..Len(s) /\ s[k] \in Frame /\ s[k].op = "onEnd"
    BY <1>2, <2>1
  <2>3. c \in Ids
    <3>1. s[k].a \in Ids
      BY <2>2, Ranges, BoundPositive DEF Frame, ActionOps, Callbacks, IdOrNull, Ids
    <3>. QED
      BY <2>1, <3>1, StackInIds
  <2>4. PICK j \in 1..(k-1) : EndingIn(s[j], c, bu)
    BY <2>1, <2>2, <2>3 DEF CountedIn
  <2>5. CASE j = 1
    <3>1. PICK m \in 1..Len(fs) : EndingIn(fs[m], c, bu)
      BY <2>3, <2>4, <2>5 DEF MakesUp
    <3>2. m \in 1..(i-1) /\ t[m] = fs[m]
      BY <1>2, <1>3, <1>6 DEF n
    <3>. QED
      BY <3>1, <3>2
  <2>6. CASE j # 1
    <3> DEFINE m == j + n - 1
    <3>1. m \in 1..Len(t) /\ m > n /\ m - n + 1 = j /\ m \in 1..(i-1)
      BY <1>2, <2>1, <2>6
    <3>2. t[m] = s[j]
      BY <1>4, <3>1 DEF n
    <3>. QED
      BY <2>4, <3>1, <3>2
  <2>. QED
    BY <2>5, <2>6
<1>. QED
  BY <1>2, <1>5, <1>6

\* Both for the calls of this model.
LEMMA EndsReplaced ==
  ASSUME TypeOK, EndingUndisturbed, ContentsCounted, ctl # <<>>, UNCHANGED links,
         \A c \in Ids : started'[c] => started[c],
         NEW X, NEW fs \in Seq(X), Becomes(fs),
         \A i \in 1..Len(fs) : LightIn(fs[i], parent, child, buried, covering),
         MakesUp(ctl, fs, started', child, buried)
  PROVE  EndingUndisturbed' /\ ContentsCounted'
<1>1. ctl \in Seq(Frame) /\ child \in [Ids -> IdOrNull] /\ buried \in [Ids -> IdOrNull]
  BY DEF TypeOK
<1>2. parent' = parent /\ child' = child /\ buried' = buried /\ covering' = covering
  BY DEF links
<1>3. ctl' = fs \o Tail(ctl)
  BY DEF Becomes
<1>4. UndisturbedIn(ctl', parent, child, buried, covering)
  BY <1>1, <1>3, UndisturbedReplaced DEF EndingUndisturbed
<1>5. CountedIn(ctl', started', child, buried)
  BY <1>1, <1>3, CountedReplaced DEF ContentsCounted
<1>. QED
  BY <1>2, <1>4, <1>5 DEF EndingUndisturbed, ContentsCounted

\* Nothing is below no action.
LEMMA BelowNull ==
  ASSUME NEW bu \in [Ids -> IdOrNull]
  PROVE  BelowIn(bu, Null) = {}
<1>1. \A k \in 0..MaxActions : Walk(bu, Null)[k] \in {Null}
  <2>1. Null \in IdOrNull /\ \A x \in Ids : x \in {Null} => bu[x] \in {Null}
    BY BoundPositive DEF IdOrNull, Ids
  <2>. QED
    BY <2>1, WalkStays
<1>. QED
  BY <1>1, BoundPositive DEF BelowIn

\* Below an action are the one it covers and those below that.
LEMMA BelowUnfolds ==
  ASSUME NEW bu \in [Ids -> IdOrNull], NEW x \in Ids, NEW c \in BelowIn(bu, x)
  PROVE  c \in {bu[x]} \cup BelowIn(bu, bu[x])
<1>1. PICK k \in 1..MaxActions : c = Walk(bu, x)[k]
  BY DEF BelowIn
<1>2. c # Null
  BY DEF BelowIn
<1>3. k - 1 \in 0..MaxActions /\ (k - 1) + 1 = k /\ (k - 1) + 1 <= MaxActions
  BY BoundPositive
<1>4. c = Walk(bu, bu[x])[k - 1]
  BY <1>1, <1>3, WalkShift
<1>5. CASE k = 1
  <2>1. bu[x] \in IdOrNull /\ 0 \in 0..MaxActions
    BY BoundPositive
  <2>2. Walk(bu, bu[x]) = [i \in 0..MaxActions |-> WalkStep(bu, bu[x], Walk(bu, bu[x]), i)]
    BY <2>1, WalkUnfolds
  <2> DEFINE w == Walk(bu, bu[x])
  <2> HIDE DEF w
  <2>3. w = [i \in 0..MaxActions |-> WalkStep(bu, bu[x], w, i)]
    BY <2>2 DEF w
  <2>4. w[0] = WalkStep(bu, bu[x], w, 0)
    BY <2>1, <2>3
  <2>5. w[0] = bu[x]
    BY <2>4 DEF WalkStep
  <2>6. k - 1 = 0
    BY <1>5
  <2>. QED
    BY <1>4, <2>5, <2>6 DEF w
<1>6. CASE k # 1
  <2>1. k - 1 \in 1..MaxActions
    BY <1>6, BoundPositive
  <2>. QED
    BY <1>2, <1>4, <2>1 DEF BelowIn
<1>. QED
  BY <1>5, <1>6

\* Up to two calls in place of the one on top.
LEMMA FewMakeUp ==
  ASSUME NEW s, NEW st, NEW ch, NEW bu
  PROVE  /\ (\A c \in Ids : ~(st[c] /\ EndingIn(s[1], c, bu))) => MakesUp(s, <<>>, st, ch, bu)
         /\ \A x : x.op # "onEnd" /\ (\A c \in Ids : st[c] /\ EndingIn(s[1], c, bu) => EndingIn(x, c, bu))
                     => MakesUp(s, <<x>>, st, ch, bu)
         /\ \A x, y : (/\ x.op # "onEnd"
                       /\ \A c \in Ids : st[c] /\ EndingIn(s[1], c, bu) =>
                            EndingIn(x, c, bu) \/ EndingIn(y, c, bu)
                       /\ y.op = "onEnd" => \A c \in StackIn(ch, bu, y.a) : st[c] => EndingIn(x, c, bu))
                     => MakesUp(s, <<x, y>>, st, ch, bu)
<1>1. (\A c \in Ids : ~(st[c] /\ EndingIn(s[1], c, bu))) => MakesUp(s, <<>>, st, ch, bu)
  BY DEF MakesUp, CountedIn
<1>2. ASSUME NEW x, x.op # "onEnd", \A c \in Ids : st[c] /\ EndingIn(s[1], c, bu) => EndingIn(x, c, bu)
      PROVE  MakesUp(s, <<x>>, st, ch, bu)
  <2>1. 1..Len(<<x>>) = {1} /\ <<x>>[1] = x
    BY FewCalls
  <2>. QED
    BY <1>2, <2>1 DEF MakesUp, CountedIn
<1>3. ASSUME NEW x, NEW y, x.op # "onEnd",
             \A c \in Ids : st[c] /\ EndingIn(s[1], c, bu) => EndingIn(x, c, bu) \/ EndingIn(y, c, bu),
             y.op = "onEnd" => \A c \in StackIn(ch, bu, y.a) : st[c] => EndingIn(x, c, bu)
      PROVE  MakesUp(s, <<x, y>>, st, ch, bu)
  <2> DEFINE fs == <<x, y>>
  <2>1. 1..Len(fs) = {1, 2} /\ fs[1] = x /\ fs[2] = y
    BY FewCalls
  <2> HIDE DEF fs
  <2>2. 1 \in 1..(2-1)
    OBVIOUS
  <2>3. CountedIn(fs, st, ch, bu)
    BY <1>3, <2>1, <2>2 DEF CountedIn
  <2>4. \A c \in Ids : st[c] /\ EndingIn(s[1], c, bu) => \E j \in 1..Len(fs) : EndingIn(fs[j], c, bu)
    BY <1>3, <2>1
  <2>. QED
    BY <2>3, <2>4 DEF MakesUp, fs
<1>4. \A x : x.op # "onEnd" /\ (\A c \in Ids : st[c] /\ EndingIn(s[1], c, bu) => EndingIn(x, c, bu))
                     => MakesUp(s, <<x>>, st, ch, bu)
  BY <1>2
<1>5. \A x, y : (/\ x.op # "onEnd"
                 /\ \A c \in Ids : st[c] /\ EndingIn(s[1], c, bu) =>
                      EndingIn(x, c, bu) \/ EndingIn(y, c, bu)
                 /\ y.op = "onEnd" => \A c \in StackIn(ch, bu, y.a) : st[c] => EndingIn(x, c, bu))
                     => MakesUp(s, <<x, y>>, st, ch, bu)
  BY <1>3
<1>. QED
  BY ONLY <1>1, <1>4, <1>5

\* Up to two calls that may run inside endings.
LEMMA EndsFew ==
  ASSUME TypeOK, EndingUndisturbed, ContentsCounted, ctl # <<>>, UNCHANGED links,
         \A c \in Ids : started'[c] => started[c]
  PROVE  /\ Becomes(<<>>) /\ MakesUp(ctl, <<>>, started', child, buried)
              => EndingUndisturbed' /\ ContentsCounted'
         /\ \A x : (/\ Becomes(<<x>>) /\ MakesUp(ctl, <<x>>, started', child, buried)
                    /\ LightIn(x, parent, child, buried, covering))
              => EndingUndisturbed' /\ ContentsCounted'
         /\ \A x, y : (/\ Becomes(<<x, y>>) /\ MakesUp(ctl, <<x, y>>, started', child, buried)
                       /\ LightIn(x, parent, child, buried, covering)
                       /\ LightIn(y, parent, child, buried, covering))
              => EndingUndisturbed' /\ ContentsCounted'
<1>1. ASSUME Becomes(<<>>), MakesUp(ctl, <<>>, started', child, buried)
      PROVE  EndingUndisturbed' /\ ContentsCounted'
  <2>1. <<>> \in Seq(Frame) /\ \A i \in 1..Len(<<>>) : LightIn(<<>>[i], parent, child, buried, covering)
    OBVIOUS
  <2>. QED
    BY <1>1, <2>1, EndsReplaced
<1>2. ASSUME NEW x, Becomes(<<x>>), MakesUp(ctl, <<x>>, started', child, buried),
             LightIn(x, parent, child, buried, covering)
      PROVE  EndingUndisturbed' /\ ContentsCounted'
  <2>1. \A i \in 1..Len(<<x>>) : LightIn(<<x>>[i], parent, child, buried, covering)
    BY <1>2, FewCalls
  <2>. QED
    BY <1>2, <2>1, FewCalls, EndsReplaced
<1>3. ASSUME NEW x, NEW y, Becomes(<<x, y>>), MakesUp(ctl, <<x, y>>, started', child, buried),
             LightIn(x, parent, child, buried, covering), LightIn(y, parent, child, buried, covering)
      PROVE  EndingUndisturbed' /\ ContentsCounted'
  <2>1. \A i \in 1..Len(<<x, y>>) : LightIn(<<x, y>>[i], parent, child, buried, covering)
    BY <1>3, FewCalls
  <2>. QED
    BY <1>3, <2>1, FewCalls, EndsReplaced
<1>4. \A x : (/\ Becomes(<<x>>) /\ MakesUp(ctl, <<x>>, started', child, buried)
              /\ LightIn(x, parent, child, buried, covering))
              => EndingUndisturbed' /\ ContentsCounted'
  BY <1>2
<1>5. \A x, y : (/\ Becomes(<<x, y>>) /\ MakesUp(ctl, <<x, y>>, started', child, buried)
                 /\ LightIn(x, parent, child, buried, covering)
                 /\ LightIn(y, parent, child, buried, covering))
              => EndingUndisturbed' /\ ContentsCounted'
  BY <1>3
<1>. QED
  BY ONLY <1>1, <1>4, <1>5

\* The calls of an ending may run inside another.
LEMMA EndsLight ==
  ASSUME NEW op \in EndOps, NEW a, NEW pa, NEW ch, NEW bu, NEW co
  PROVE  LightIn(Do(op, a), pa, ch, bu, co)
BY OpOf DEF LightIn

\* The steps of an ending.
LEMMA EndSteps ==
  ASSUME TypeOK, EndingUndisturbed, ContentsCounted, InvokeOnEnd \/ EndChild \/ OnEnd
  PROVE  EndingUndisturbed' /\ ContentsCounted'
<1> DEFINE a == Top.a
<1>1. /\ ctl # <<>> /\ UNCHANGED links /\ ctl \in Seq(Frame) /\ ctl[1] = Top
      /\ child \in [Ids -> IdOrNull] /\ buried \in [Ids -> IdOrNull] /\ started \in [Ids -> BOOLEAN]
  BY DEF InvokeOnEnd, EndChild, OnEnd, Running, TypeOK, Top
<1>2. Top.op # "endChild" => a \in Ids
  BY CallInProgress DEF InvokeOnEnd, EndChild, OnEnd, Running, ActionOps, Callbacks
<1>3. a \in IdOrNull
  BY <1>1, CallInProgress DEF InvokeOnEnd, EndChild, OnEnd, Running
<1>4. /\ "end" \in EndOps /\ "endChild" \in EndOps /\ "onEnd" \in EndOps
      /\ \A op \in EndOps : \A x : LightIn(Do(op, x), parent, child, buried, covering)
  BY EndsLight DEF EndOps
<1>5. CASE InvokeOnEnd
  <2>1. Top.op = "end" /\ a \in Ids
    BY <1>2, <1>5 DEF InvokeOnEnd, Running
  <2>2. \A c : EndingIn(ctl[1], c, buried) => c = a
    BY <1>1, <2>1 DEF EndingIn
  <2>3. CASE ~started[a]
    <3>1. Becomes(<<>>) /\ started' = started
      BY <1>5, <2>3 DEF InvokeOnEnd
    <3>2. MakesUp(ctl, <<>>, started', child, buried)
      BY <2>2, <2>3, <3>1, FewMakeUp
    <3>. QED
      BY <1>1, <3>1, <3>2, EndsFew
  <2>4. CASE started[a]
    <3> DEFINE x == Do("endChild", child[a])
    <3> DEFINE y == Do("onEnd", a)
    <3>1. started' = [started EXCEPT ![a] = FALSE] /\ Becomes(<<x, y>>)
      BY <1>5, <2>4 DEF InvokeOnEnd, EndChildrenFirst
    <3>2. ~started'[a] /\ \A c \in Ids : started'[c] => started[c]
      BY <1>1, <2>1, <3>1
    <3>3. x.op = "endChild" /\ x.a = child[a] /\ y.op = "onEnd" /\ y.a = a
      BY DEF Do, Call
    <3>4. LightIn(x, parent, child, buried, covering) /\ LightIn(y, parent, child, buried, covering)
      BY <1>4
    <3> HIDE DEF x, y, a
    <3>5. \A c \in StackIn(child, buried, y.a) : EndingIn(x, c, buried)
      BY <3>3 DEF StackIn, EndingIn
    <3>6. \A c \in Ids : ~(started'[c] /\ EndingIn(ctl[1], c, buried))
      BY <2>2, <3>2
    <3>7. x.op # "onEnd"
      BY <3>3
    <3>8. MakesUp(ctl, <<x, y>>, started', child, buried)
      BY <3>5, <3>6, <3>7, FewMakeUp
    <3>. QED
      BY <1>1, <3>1, <3>2, <3>4, <3>8, EndsFew
  <2>. QED
    BY <2>3, <2>4
<1>6. CASE EndChild
  <2>1. Top.op = "endChild" /\ started' = started
    BY <1>6 DEF EndChild, Running, flags
  <2>2. \A c : EndingIn(ctl[1], c, buried) => c \in {a} \cup BelowIn(buried, a)
    BY <1>1, <2>1 DEF EndingIn
  <2>3. CASE a = Null
    <3>1. Becomes(<<>>)
      BY <1>6, <2>3 DEF EndChild
    <3>2. Null \notin Ids
      BY DEF Ids
    <3>3. MakesUp(ctl, <<>>, started', child, buried)
      BY <1>1, <2>2, <2>3, <3>2, BelowNull, FewMakeUp
    <3>. QED
      BY <1>1, <2>1, <3>1, <3>3, EndsFew
  <2>4. CASE a # Null
    <3> DEFINE x == Do("end", a)
    <3> DEFINE y == Do("endChild", buried[a])
    <3>1. Becomes(<<x, y>>)
      BY <1>6, <2>4 DEF EndChild
    <3>2. a \in Ids
      BY <1>3, <2>4, BoundPositive DEF IdOrNull, Ids
    <3>3. x.op = "end" /\ x.a = a /\ y.op = "endChild" /\ y.a = buried[a]
      BY DEF Do, Call
    <3>4. LightIn(x, parent, child, buried, covering) /\ LightIn(y, parent, child, buried, covering)
      BY <1>4
    <3> HIDE DEF x, y, a
    <3>5. \A c : EndingIn(ctl[1], c, buried) => EndingIn(x, c, buried) \/ EndingIn(y, c, buried)
      BY <1>1, <2>2, <3>2, <3>3, BelowUnfolds DEF EndingIn
    <3>6. x.op # "onEnd" /\ y.op # "onEnd"
      BY <3>3
    <3>7. MakesUp(ctl, <<x, y>>, started', child, buried)
      BY <3>5, <3>6, FewMakeUp
    <3>. QED
      BY <1>1, <2>1, <3>1, <3>4, <3>7, EndsFew
  <2>. QED
    BY <2>3, <2>4
<1>7. CASE OnEnd
  <2>1. Top.op = "onEnd" /\ started' = started
    BY <1>7 DEF OnEnd, Running, flags
  <2>2. \A c : ~EndingIn(ctl[1], c, buried)
    BY <1>1, <2>1 DEF EndingIn
  <2> DEFINE x == Do("end", covering[a])
  <2>3. Becomes(<<>>) \/ Becomes(<<x>>)
    BY <1>7 DEF OnEnd
  <2>4. x.op # "onEnd" /\ LightIn(x, parent, child, buried, covering)
    BY <1>4, OpOf
  <2> HIDE DEF x
  <2>5. MakesUp(ctl, <<>>, started', child, buried) /\ MakesUp(ctl, <<x>>, started', child, buried)
    BY <2>2, <2>4, FewMakeUp
  <2>. QED
    BY <1>1, <2>1, <2>3, <2>4, <2>5, EndsFew
<1>. QED
  BY <1>5, <1>6, <1>7

\* Steps of a destructor, when no callback of an ending is in progress.
LEMMA DeleteQuiet ==
  ASSUME TypeOK, ctl # <<>>, QuietIn(ctl),
         DeleteAction \/ DeleteChild \/ Unlink \/ Release \/ Free
  PROVE  QuietIn(ctl')
<1> USE QuietBecomes, OpOf
<1>1. CASE DeleteAction
  BY <1>1 DEF DeleteAction
<1>2. CASE DeleteChild
  <2>1. Becomes(<<>>) \/ Becomes(<<Do("delete", Top.a), Do("deleteChild", buried[Top.a])>>)
    BY <1>2 DEF DeleteChild
  <2>. QED
    BY <2>1
<1>3. CASE Unlink
  <2>1. Becomes(<<Do("release", Top.a)>>) \/ \E n : Becomes(<<Do("delete", n), Do("release", Top.a)>>)
    BY <1>3 DEF Unlink
  <2>2. ASSUME NEW n, Becomes(<<Do("delete", n), Do("release", Top.a)>>) PROVE QuietIn(ctl')
    BY <2>2
  <2>. QED
    BY <2>1, <2>2
<1>4. CASE Release
  <2>1. \/ Becomes(<<Do("free", Top.a)>>)
        \/ Becomes(<<Do("delete", pend[Top.a].act), Do("free", Top.a)>>)
    BY <1>4, ConcatFew DEF Release
  <2>. QED
    BY <2>1
<1>5. CASE Free
  BY <1>5 DEF Free
<1>. QED
  BY <1>1, <1>2, <1>3, <1>4, <1>5

\* A destructor that runs inside an ending is that of an action that nothing
\* leads to.
LEMMA DeleteInside ==
  ASSUME TypeOK, EndingUndisturbed, ~QuietIn(ctl), Top.op \in DeleteOps, ctl # <<>>
  PROVE  Top.a = Null \/ IsolatedIn(Top.a, parent, child, buried, covering)
<1>1. PICK i \in 1..Len(ctl) : ctl[i].op = "onEnd"
  BY DEF QuietIn
<1>2. ctl \in Seq(Frame) /\ ctl[1] = Top
  BY DEF TypeOK, Top
<1>3. i # 1
  BY <1>1, <1>2 DEF DeleteOps
<1>4. 1 \in 1..(i-1)
  BY <1>2, <1>3
<1>5. LightIn(Top, parent, child, buried, covering)
  BY <1>1, <1>2, <1>4 DEF EndingUndisturbed, UndisturbedIn
<1>6. Top.op \notin EndOps
  BY DEF EndOps, DeleteOps
<1>. QED
  BY <1>5, <1>6 DEF LightIn, DiscardIn

\* Calls that destroy such an action may run inside endings.
LEMMA DiscardLight ==
  ASSUME NEW op \in DeleteOps, NEW a, NEW pa, NEW ch, NEW bu, NEW co,
         a = Null \/ IsolatedIn(a, pa, ch, bu, co)
  PROVE  LightIn(Do(op, a), pa, ch, bu, co)
<1>1. Do(op, a).op = op /\ Do(op, a).a = a
  BY DEF Do, Call
<1>. QED
  BY <1>1 DEF LightIn, DiscardIn

\* The action that waits in an event result is one.
LEMMA WaitingIsolated ==
  ASSUME TypeOK, WaitingAside, NEW a \in Ids
  PROVE  pend[a].act = Null \/ IsolatedIn(pend[a].act, parent, child, buried, covering)
<1>1. SUFFICES ASSUME pend[a].act # Null
               PROVE  IsolatedIn(pend[a].act, parent, child, buried, covering)
  OBVIOUS
<1>2. pend[a].act \in Ids
  BY <1>1, FieldTyped, BoundPositive DEF IdOrNull, Ids
<1>3. ~ClearIn(pend[a].act, created, pend)
  BY <1>1 DEF ClearIn
<1>. QED
  BY <1>2, <1>3 DEF WaitingAside, WaitingIsolatedIn

\* The steps of a destructor.
LEMMA DeleteSteps ==
  ASSUME TypeOK, WaitingAside, EndingUndisturbed, ContentsCounted,
         DeleteAction \/ DeleteChild \/ Unlink \/ Release \/ Free
  PROVE  EndingUndisturbed' /\ ContentsCounted'
<1> DEFINE a == Top.a
<1>1. /\ ctl # <<>> /\ ctl \in Seq(Frame) /\ ctl[1] = Top /\ Top.op \in DeleteOps
      /\ parent \in [Ids -> IdOrNull] /\ covering \in [Ids -> IdOrNull]
      /\ child \in [Ids -> IdOrNull] /\ buried \in [Ids -> IdOrNull] /\ started \in [Ids -> BOOLEAN]
  BY DEF DeleteAction, DeleteChild, Unlink, Release, Free, Running, TypeOK, Top, DeleteOps
<1>2. CASE QuietIn(ctl)
  <2>1. QuietIn(ctl')
    BY <1>1, <1>2, DeleteQuiet
  <2>. QED
    BY <2>1, QuietEnough DEF EndingUndisturbed, ContentsCounted
<1>3. CASE ~QuietIn(ctl)
  <2>1. a = Null \/ IsolatedIn(a, parent, child, buried, covering)
    BY <1>1, <1>3, DeleteInside
  <2>2. a \in IdOrNull /\ (Top.op # "deleteChild" => a \in Ids)
    BY <1>1, CallInProgress
    DEF DeleteAction, DeleteChild, Unlink, Release, Free, Running, ActionOps, DeleteOps
  <2>3. Null \notin Ids /\ \A n \in IdOrNull : n \in Ids \/ n = Null
    BY BoundPositive DEF Ids, IdOrNull
  <2>4. \A c : ~EndingIn(ctl[1], c, buried)
    BY <1>1 DEF EndingIn, DeleteOps
  <2>5. /\ MakesUp(ctl, <<>>, started', child, buried)
        /\ \A x : x.op # "onEnd" => MakesUp(ctl, <<x>>, started', child, buried)
        /\ \A x, y : x.op # "onEnd" /\ y.op # "onEnd" => MakesUp(ctl, <<x, y>>, started', child, buried)
    BY <2>4, FewMakeUp
  <2>6. \A op \in DeleteOps : \A n : n = Null \/ IsolatedIn(n, parent, child, buried, covering)
           => LightIn(Do(op, n), parent, child, buried, covering) /\ Do(op, n).op # "onEnd"
    BY DiscardLight, OpOf DEF DeleteOps
  <2>7. /\ "delete" \in DeleteOps /\ "deleteChild" \in DeleteOps /\ "unlink" \in DeleteOps
        /\ "release" \in DeleteOps /\ "free" \in DeleteOps
    BY DEF DeleteOps
  <2> HIDE DEF a
  <2>8. CASE DeleteAction
    <3>1. a \in Ids /\ parent[a] = Null /\ child[a] = Null
      BY <2>1, <2>2, <2>3, <2>8 DEF DeleteAction, Running, IsolatedIn
    <3>2. UNCHANGED <<links, started>> /\ Becomes(<<Do("deleteChild", Null), Do("unlink", a)>>)
      BY <2>8, <3>1 DEF DeleteAction, links, flags, a
    <3>. QED
      BY <1>1, <2>1, <2>5, <2>6, <2>7, <3>2, EndsFew
  <2>9. CASE DeleteChild
    <3>1. UNCHANGED <<links, started>>
      BY <2>9 DEF DeleteChild, flags
    <3>2. CASE a = Null
      <4>1. Becomes(<<>>)
        BY <2>9, <3>2 DEF DeleteChild, a
      <4>. QED
        BY <1>1, <2>5, <3>1, <4>1, EndsFew
    <3>3. CASE a # Null
      <4>1. buried[a] = Null
        BY <2>1, <3>3 DEF IsolatedIn
      <4>2. Becomes(<<Do("delete", a), Do("deleteChild", Null)>>)
        BY <2>9, <3>3, <4>1 DEF DeleteChild, a
      <4>. QED
        BY <1>1, <2>1, <2>5, <2>6, <2>7, <3>1, <4>2, EndsFew
    <3>. QED
      BY <3>2, <3>3
  <2>10. CASE Unlink
    <3>1. a \in Ids /\ buried[a] = Null /\ covering[a] = Null
      BY <2>1, <2>2, <2>3, <2>10 DEF Unlink, Running, IsolatedIn
    <3>2. UNCHANGED <<links, started>> /\ Becomes(<<Do("release", a)>>)
      BY <2>10, <3>1 DEF Unlink, Uncover, links, flags, a
    <3>. QED
      BY <1>1, <2>1, <2>5, <2>6, <2>7, <3>2, EndsFew
  <2>11. CASE Release
    <3>1. a \in Ids
      BY <2>2, <2>11 DEF Release, Running
    <3>2. UNCHANGED <<links, started>>
      BY <2>11 DEF Release, flags
    <3>3. \/ Becomes(<<Do("free", a)>>)
          \/ Becomes(<<Do("delete", pend[a].act), Do("free", a)>>)
      BY <2>11, ConcatFew DEF Release, a
    <3>4. pend[a].act = Null \/ IsolatedIn(pend[a].act, parent, child, buried, covering)
      BY <3>1, WaitingIsolated
    <3>. QED
      BY <1>1, <2>1, <2>5, <2>6, <2>7, <3>2, <3>3, <3>4, EndsFew
  <2>12. CASE Free
    <3>1. a \in Ids
      BY <2>2, <2>12 DEF Free, Running
    <3>2. parent[a] = Null /\ child[a] = Null /\ buried[a] = Null /\ covering[a] = Null
      BY <2>1, <2>3, <3>1 DEF IsolatedIn
    <3>3. /\ parent' = [parent EXCEPT ![a] = Null] /\ child' = [child EXCEPT ![a] = Null]
          /\ buried' = [buried EXCEPT ![a] = Null] /\ covering' = [covering EXCEPT ![a] = Null]
          /\ started' = [started EXCEPT ![a] = FALSE] /\ Becomes(<<>>)
      BY <2>12 DEF Free, a
    <3>4. UNCHANGED links
      BY <1>1, <3>1, <3>2, <3>3 DEF links
    <3>5. \A c \in Ids : started'[c] => started[c]
      BY <1>1, <3>1, <3>3
    <3>. QED
      BY <1>1, <2>5, <3>3, <3>4, <3>5, EndsFew
  <2>. QED
    BY <2>8, <2>9, <2>10, <2>11, <2>12
<1>. QED
  BY <1>2, <1>3

\* A call pushed on top of endings.
LEMMA EndsPushed ==
  ASSUME NEW pa, NEW ch, NEW bu, NEW co, NEW st,
         NEW s \in Seq(Frame), UndisturbedIn(s, pa, ch, bu, co), CountedIn(s, st, ch, bu),
         NEW f, f.op # "onEnd", LightIn(f, pa, ch, bu, co),
         NEW t, t = <<f>> \o s
  PROVE  UndisturbedIn(t, pa, ch, bu, co) /\ CountedIn(t, st, ch, bu)
<1> DEFINE S == Frame \cup {f}
<1>1. s \in Seq(S) /\ f \in S
  OBVIOUS
<1> HIDE DEF S
<1>2. t \in Seq(S) /\ Len(t) = Len(s) + 1 /\ Len(s) \in Nat
  BY <1>1
<1>3. t[1] = f
  BY <1>1
<1>4. \A i \in 1..Len(t) : i # 1 => i - 1 \in 1..Len(s) /\ t[i] = s[i - 1]
  BY <1>1
<1>5. UndisturbedIn(t, pa, ch, bu, co)
  <2> SUFFICES ASSUME NEW i \in 1..Len(t), t[i].op = "onEnd", NEW j \in 1..(i-1)
               PROVE  LightIn(t[j], pa, ch, bu, co)
    BY DEF UndisturbedIn
  <2>1. i # 1 /\ i - 1 \in 1..Len(s) /\ t[i] = s[i - 1]
    BY <1>3, <1>4
  <2>2. CASE j = 1
    BY <1>3, <2>2
  <2>3. CASE j # 1
    <3>1. j \in 1..Len(t) /\ j - 1 \in 1..((i - 1) - 1)
      BY <1>2, <2>3
    <3>2. t[j] = s[j - 1]
      BY <1>4, <2>3, <3>1
    <3>. QED
      BY <2>1, <3>1, <3>2 DEF UndisturbedIn
  <2>. QED
    BY <2>2, <2>3
<1>6. CountedIn(t, st, ch, bu)
  <2> SUFFICES ASSUME NEW i \in 1..Len(t), t[i].op = "onEnd", NEW c \in StackIn(ch, bu, t[i].a), st[c]
               PROVE  \E j \in 1..(i-1) : EndingIn(t[j], c, bu)
    BY DEF CountedIn
  <2>1. i # 1 /\ i - 1 \in 1..Len(s) /\ t[i] = s[i - 1]
    BY <1>3, <1>4
  <2>2. PICK j \in 1..((i - 1) - 1) : EndingIn(s[j], c, bu)
    BY <2>1 DEF CountedIn
  <2>3. j + 1 \in 1..Len(t) /\ j + 1 # 1 /\ (j + 1) - 1 = j /\ j + 1 \in 1..(i-1)
    BY <1>2
  <2>4. t[j + 1] = s[j]
    BY <1>4, <2>3
  <2>. QED
    BY <2>2, <2>3, <2>4
<1>. QED
  BY <1>5, <1>6

\* An event destroys only an action that nothing leads to.
LEMMA EventEnds ==
  ASSUME TypeOK, WaitingAside, EndingUndisturbed, ContentsCounted,
         NEW a \in Ids, NEW type \in EventTypes, NEW prio \in Priorities, Event(a, type, prio)
  PROVE  EndingUndisturbed' /\ ContentsCounted'
<1> DEFINE creates == type \in {"CHANGE_TO", "SUSPEND_FOR"}
<1> DEFINE new == IF creates THEN NewAction ELSE Null
<1> DEFINE unused == IF Accepts(prio, pend[a].prio) THEN pend[a].act ELSE new
<1>1. /\ parent' = parent /\ child' = child /\ buried' = buried /\ covering' = covering
      /\ started' = started
      /\ creates => CanCreate
      /\ ctl' = IF unused = Null THEN ctl ELSE <<Do("delete", unused)>> \o ctl
  BY DEF Event, links, flags
<1>2. new = Null \/ IsolatedIn(new, parent, child, buried, covering)
  <2> SUFFICES ASSUME creates PROVE IsolatedIn(NewAction, parent, child, buried, covering)
    OBVIOUS
  <2>1. created \in Nat /\ created < MaxActions
    BY <1>1 DEF TypeOK, CanCreate
  <2>2. NewAction \in Ids /\ ~ClearIn(NewAction, created, pend)
    BY <2>1, BoundPositive DEF NewAction, Ids, ClearIn
  <2>. QED
    BY <2>2 DEF WaitingAside, WaitingIsolatedIn
<1>3. unused = Null \/ IsolatedIn(unused, parent, child, buried, covering)
  BY <1>2, WaitingIsolated
<1> HIDE DEF unused, new
<1>4. CASE unused = Null
  BY <1>1, <1>4 DEF EndingUndisturbed, ContentsCounted
<1>5. CASE unused # Null
  <2> DEFINE f == Do("delete", unused)
  <2>1. f.op # "onEnd" /\ LightIn(f, parent, child, buried, covering)
    BY <1>3, OpOf, DiscardLight DEF DeleteOps
  <2>2. ctl' = <<f>> \o ctl /\ ctl \in Seq(Frame)
    BY <1>1, <1>5 DEF TypeOK
  <2> HIDE DEF f
  <2>3. UndisturbedIn(ctl', parent, child, buried, covering) /\ CountedIn(ctl', started, child, buried)
    BY <2>1, <2>2, EndsPushed DEF EndingUndisturbed, ContentsCounted
  <2>. QED
    BY <1>1, <2>3 DEF EndingUndisturbed, ContentsCounted
<1>. QED
  BY <1>4, <1>5

\* At the start no call is in progress.
LEMMA InitEnds == Init => EndInv
<1> SUFFICES ASSUME Init PROVE EndInv
  OBVIOUS
<1>1. TypeOK /\ WaitingAside
  BY InitTyped, InitAside
<1>2. QuietIn(ctl)
  BY DEF Init, QuietIn
<1>. QED
  BY <1>1, <1>2, QuietEnough DEF EndInv, EndingUndisturbed, ContentsCounted

\* Every step keeps the count.
LEMMA NextEnds ==
  ASSUME Resets # "anytime", EndInv, [Next]_vars
  PROVE  EndInv'
<1>1. TypeOK /\ WaitingAside /\ EndingUndisturbed /\ ContentsCounted
  BY DEF EndInv
<1>2. TypeOK' /\ WaitingAside'
  BY <1>1, NextTyped, NextAside
<1>3. EndingUndisturbed' /\ ContentsCounted'
  <2>1. CASE OtherSteps
    BY <1>1, <2>1, OtherStepsEnd
  <2>2. CASE InvokeOnEnd \/ EndChild \/ OnEnd
    BY <1>1, <2>2, EndSteps
  <2>3. CASE DeleteAction \/ DeleteChild \/ Unlink \/ Release \/ Free
    BY <1>1, <2>3, DeleteSteps
  <2>4. CASE Update \/ Reset \/ DestroyIntention
    BY <2>4, WorldEnds
  <2>5. CASE \E a \in Ids, type \in EventTypes, prio \in Priorities : Event(a, type, prio)
    BY <1>1, <2>5, EventEnds
  <2>6. CASE UNCHANGED vars
    BY <1>1, <2>6 DEF vars, EndingUndisturbed, ContentsCounted
  <2>. QED
    BY <2>1, <2>2, <2>3, <2>4, <2>5, <2>6 DEF Next, Engine, World, OtherSteps
<1>. QED
  BY <1>2, <1>3 DEF EndInv

\* When an action's OnEnd runs, every action it contains has ended, whatever
\* events arrive from inside the callbacks: InvokeOnEnd ends the contained
\* stack before it calls OnEnd, and what the events destroy meanwhile is only
\* what no pointer leads to.  The bot is not reset inside a callback.
THEOREM ChildrenAlwaysEndFirst ==
  ASSUME Resets # "anytime"
  PROVE  Spec => []ChildrenEndFirst
<1>1. Init => EndInv
  BY InitEnds
<1>2. EndInv /\ [Next]_vars => EndInv'
  BY NextEnds
<1>3. EndInv => ChildrenEndFirst
  BY CountedGivesEnd
<1>. QED
  BY <1>1, <1>2, <1>3, PTL DEF Spec
=============================================================================
