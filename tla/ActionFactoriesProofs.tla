----------------------- MODULE ActionFactoriesProofs -----------------------
(***************************************************************************)
(* Proofs about module ActionFactories, for any number of factories, bots  *)
(* and actions, any nesting of calls, and every plugin whose attachBot     *)
(* callback does no more than create actions, declare factories and raise  *)
(* events (Survivable).                                                    *)
(*                                                                         *)
(* The invariant says where an action can be and what a call on the stack  *)
(* may rely on.  StackInv: the frames refer to bots and factories in the   *)
(* state their call needs, lie in an order the code can produce, and no    *)
(* bot is being reset, started or freed twice.  RetireInv: while a factory *)
(* is being retired, a bot that still has one of its actions is in the     *)
(* snapshot or about to be reset, and no call below holds one.  OwnInv:    *)
(* the four places where actions are owned do not overlap and make up the  *)
(* live ones.  Budget: each mindless bot has an address for its action.    *)
(***************************************************************************)
EXTENDS MCActionFactories, FiniteSetTheorems, SequenceTheorems, TLAPS

\* The frames of the call stack, innermost first.
Place == 1..Len(ctl)

\* The four places of an action: a behaviour, a call, an event result, a plugin.
Housed(a) == \E b \in Bots : a \in inside[b]
Held(a) == \E k \in Place : a \in ctl[k].as
Wanted(a) == \E x \in Actions : pend[x] = a

Starting == {"init", "initialAction"}
Retiring == {"resetUsers", "drain"}

\* A frame refers to what its call needs.
FitAt(k) ==
  /\ ctl[k].op \in {"attachBot", "construct"} => ctl[k].b \in Bots /\ bot[ctl[k].b] = "entity"
  /\ ctl[k].op \in {"reset", "endReset"} \cup Starting =>
       ctl[k].b \in Bots /\ bot[ctl[k].b] = "intention"
  /\ ctl[k].op = "free" => ctl[k].b \in Bots /\ bot[ctl[k].b] = "removing"
  /\ ctl[k].op = "onEnd" => ctl[k].b \in Bots
  /\ ctl[k].op \in Retiring => ctl[k].f \in Factories /\ factory[ctl[k].f] = "destroying"
  /\ ctl[k].op = "construct" => ctl[k].f \in Factories /\ factory[ctl[k].f] = "alive"
  /\ ctl[k].as # {} => ctl[k].op \in {"onEnd", "initialAction"}
  /\ ctl[k].bs # {} => ctl[k].op = "resetUsers"

\* Calls that nothing is called from.
OnTop(k) ==
  /\ ctl[k].op \in {"reset", "drain", "attachBot"} => k = 1
  /\ ctl[k].op = "construct" => k = 1 \/ (k = 2 /\ ctl[1].op = "attachBot")

FramesFit == \A k \in Place : FitAt(k) /\ OnTop(k)

\* The caller of frame k works on the same bot.
Below(k, ops) == k + 1 \in Place /\ ctl[k + 1].b = ctl[k].b /\ ctl[k + 1].op \in ops

\* Destructions run inside a reset or a removal; a start that is no reset's is on
\* top of whatever resets bots.
Nested ==
  \A k \in Place :
    /\ ctl[k].op = "onEnd" => Below(k, {"init", "free"})
    /\ ctl[k].op \in Starting /\ resetting[ctl[k].b] => Below(k, {"endReset"})
    /\ ctl[k].op \in Starting /\ ~resetting[ctl[k].b] =>
         /\ ctl[k].op = "init" => k = 1
         /\ \A j \in Place : j < k =>
              /\ ctl[k].b \notin ctl[j].bs
              /\ ~(ctl[j].op = "reset" /\ ctl[j].b = ctl[k].b)

\* No two calls do the same to one bot or factory.
Single ==
  \A j, k \in Place :
    /\ ctl[j].op = "free" /\ ctl[k].op = "free" /\ ctl[j].b = ctl[k].b => j = k
    /\ ctl[j].op = "endReset" /\ ctl[k].op = "endReset" /\ ctl[j].b = ctl[k].b => j = k
    /\ ctl[j].op \in Starting /\ ctl[k].op \in Starting /\ ctl[j].b = ctl[k].b => j = k
    /\ ctl[j].op \in Retiring /\ ctl[k].op \in Retiring /\ ctl[j].f = ctl[k].f => j = k

\* m_bResetting is set as long as its reset is on the stack.
Resets ==
  \A b \in Bots :
    /\ resetting[b] => \E k \in Place : ctl[k].op = "endReset" /\ ctl[k].b = b
    /\ \A k \in Place : ctl[k].op = "endReset" /\ ctl[k].b = b => resetting[b]

\* Only bots with a behaviour have actions; bots that start have none yet.
Minded ==
  /\ \A b \in Bots : inside[b] # {} => behavior[b] /\ bot[b] = "intention"
  /\ \A k \in Place : ctl[k].op \in Starting => inside[ctl[k].b] = {}
  /\ \A b \in Bots : resetting[b] /\ inside[b] # {} =>
       Len(ctl) > 0 /\ ctl[1].op = "endReset" /\ ctl[1].b = b

\* The action being set up is of the bot's initial factory.
Started ==
  \A k \in Place : ctl[k].op = "initialAction" =>
    ctl[k].as # {} /\ \A a \in ctl[k].as : made[a] = initial[ctl[k].b]

\* SeveredAtOnce.
Severed ==
  /\ \A c \in Classes : declared[c] # None => factory[declared[c]] = "alive"
  /\ \A b \in Intentions : initial[b] # None => factory[initial[b]] = "alive"

\* While a factory is being retired, its actions are with bots that will be reset,
\* with calls above, loose or pending.
Retired ==
  \A k \in Place : ctl[k].op \in Retiring =>
    /\ \A b \in Bots : \A a \in inside[b] : made[a] = ctl[k].f =>
         b \in ctl[k].bs \/ (ctl[1].op = "reset" /\ ctl[1].b = b)
    /\ \A j \in Place : \A a \in ctl[j].as : made[a] = ctl[k].f => j < k

\* No two owners of one kind.
Apart ==
  /\ \A b, c \in Bots : \A a \in inside[b] : a \in inside[c] => b = c
  /\ \A j, k \in Place : \A a \in ctl[j].as : a \in ctl[k].as => j = k
  /\ \A x, y \in Actions : pend[x] # None /\ pend[x] = pend[y] => x = y

\* An action is live when it has an owner, of one kind only.
OwnedAt(a) ==
  /\ a \in live <=> Housed(a) \/ Held(a) \/ Wanted(a) \/ a \in loose
  /\ ~(Housed(a) /\ Held(a)) /\ ~(Housed(a) /\ Wanted(a)) /\ ~(Housed(a) /\ a \in loose)
  /\ ~(Held(a) /\ Wanted(a)) /\ ~(Held(a) /\ a \in loose) /\ ~(Wanted(a) /\ a \in loose)
  /\ pend[a] # None => Housed(a) \/ Held(a)

Owned == \A a \in Actions : OwnedAt(a)

\* Every bot without an action can be given one.
Budget == Cardinality(live) + Cardinality(Mindless) < Cardinality(Actions)

StackInv == FramesFit /\ Nested /\ Single /\ Resets
OwnInv == Apart /\ Owned
RetireInv == Minded /\ Started /\ Severed /\ Retired /\ FactoryOutlivesActions

IInv == TypeOK /\ StackInv /\ RetireInv /\ OwnInv /\ Budget
-----------------------------------------------------------------------------
\* The same frame but for the calls it may still make.
Same(fr, gr) ==
  fr.op = gr.op /\ fr.b = gr.b /\ fr.f = gr.f /\ fr.as = gr.as /\ fr.bs = gr.bs

\* The place k of the stack t is the place i of the stack s, m new frames above it
\* and p frames gone.
Comes(s, t, k, i, m, p) ==
  /\ i \in 1..Len(s) /\ i > p /\ k = i + m - p
  /\ Same(t[k], s[i])
  /\ i + 1 \in 1..Len(s) => k + 1 \in 1..Len(t) /\ Same(t[k + 1], s[i + 1])

\* The stack t is s with m new frames in the place of the p innermost.
Rests(s, t, m, p) ==
  /\ t \in Seq(Frame)
  /\ Len(t) = Len(s) + m - p
  /\ \A k \in 1..Len(t) : k > m => \E i \in 1..Len(s) : Comes(s, t, k, i, m, p)
  /\ \A i \in 1..Len(s) : i > p => \E k \in 1..Len(t) : Comes(s, t, k, i, m, p)

\* frames put on a stack
LEMMA Stacked ==
  ASSUME NEW s \in Seq(Frame), NEW fs \in Seq(Frame)
  PROVE  /\ fs \o s \in Seq(Frame)
         /\ Len(fs \o s) = Len(fs) + Len(s)
         /\ \A k \in 1..Len(fs) : (fs \o s)[k] = fs[k]
         /\ \A k \in 1..Len(fs \o s) : k > Len(fs) => (fs \o s)[k] = s[k - Len(fs)]
OBVIOUS

\* The stack below a call is the caller's, its frames the same but for the calls left.
LEMMA CallerFrames ==
  ASSUME TypeOK, ctl # <<>> => Top.n > 0
  PROVE  /\ Caller \in Seq(Frame) /\ Len(Caller) = Len(ctl)
         /\ \A k \in 1..Len(ctl) : Same(Caller[k], ctl[k])
<1>1. CASE ctl = <<>>
  BY <1>1 DEF Caller
<1>2. CASE ctl # <<>>
  <2> DEFINE top == [Top EXCEPT !.n = @ - 1]
  <2>1. /\ ctl \in Seq(Frame) /\ Len(ctl) > 0 /\ Top = ctl[1] /\ Top \in Frame /\ Top.n > 0
        /\ Tail(ctl) \in Seq(Frame) /\ Len(Tail(ctl)) = Len(ctl) - 1
        /\ \A k \in 1..Len(Tail(ctl)) : Tail(ctl)[k] = ctl[k + 1]
    BY <1>2 DEF TypeOK, Top
  <2>2. top \in Frame /\ Same(top, ctl[1])
    <3>1. Top \in Frame /\ Top.n > 0 /\ Top = ctl[1]
      BY <2>1
    <3> QED BY ONLY <3>1 DEF Frame, Same
  <2>3. Caller = <<top>> \o Tail(ctl)
    BY <1>2 DEF Caller
  <2> HIDE DEF top
  <2>4. <<top>> \in Seq(Frame) /\ Len(<<top>>) = 1 /\ <<top>>[1] = top
    BY <2>2
  <2>5. /\ Caller \in Seq(Frame) /\ Len(Caller) = Len(ctl) /\ Caller[1] = top
        /\ \A k \in 1..Len(Caller) : k > 1 => Caller[k] = Tail(ctl)[k - 1]
    BY <2>1, <2>3, <2>4, Stacked
  <2>6. \A k \in 1..Len(ctl) : k > 1 => Caller[k] = ctl[k]
    BY <2>1, <2>5
  <2> QED BY <2>1, <2>2, <2>5, <2>6 DEF Same
<1> QED BY <1>1, <1>2

\* Frames fs on a stack that differs from s in the calls left at most.
LEMMA Called ==
  ASSUME NEW s \in Seq(Frame), NEW c \in Seq(Frame), NEW fs \in Seq(Frame),
         Len(c) = Len(s), \A k \in 1..Len(s) : Same(c[k], s[k])
  PROVE  Rests(s, fs \o c, Len(fs), 0) /\ \A k \in 1..Len(fs) : (fs \o c)[k] = fs[k]
<1> DEFINE m == Len(fs)  t == fs \o c
<1>1. t \in Seq(Frame) /\ Len(t) = Len(s) + m /\ Len(s) \in Nat /\ m \in Nat
  <2>1. fs \o c \in Seq(Frame) /\ Len(fs \o c) = m + Len(c)
    BY Stacked
  <2> QED BY <2>1
<1>2. /\ \A k \in 1..m : t[k] = fs[k]
      /\ \A k \in 1..Len(t) : k > m => t[k] = c[k - m]
  BY Stacked
<1> HIDE DEF m, t
<1>4. \A i \in 1..Len(s) : i + m \in 1..Len(t) /\ i + m > m /\ (i + m) - m = i
  BY <1>1
<1>3. \A i \in 1..Len(s) : t[i + m] = c[i]
  BY <1>2, <1>4
<1>5. \A i \in 1..Len(s) : Same(t[i + m], s[i])
  BY <1>3
<1>6. \A i \in 1..Len(s) : Comes(s, t, i + m, i, m, 0)
  <2> SUFFICES ASSUME NEW i \in 1..Len(s) PROVE Comes(s, t, i + m, i, m, 0)
    OBVIOUS
  <2>1. i + 1 \in 1..Len(s) => (i + m) + 1 \in 1..Len(t) /\ (i + m) + 1 = (i + 1) + m
    BY <1>1
  <2>2. i + 1 \in 1..Len(s) => Same(t[(i + m) + 1], s[i + 1])
    BY <1>5, <2>1
  <2>3. i > 0 /\ i + m = i + m - 0
    BY <1>1
  <2>4. Same(t[i + m], s[i])
    BY <1>5
  <2>5. i + 1 \in 1..Len(s) => (i + m) + 1 \in 1..Len(t) /\ Same(t[(i + m) + 1], s[i + 1])
    BY <2>1, <2>2
  <2> HIDE DEF m
  <2> QED BY <2>3, <2>4, <2>5 DEF Comes
<1>7. \A k \in 1..Len(t) : k > m => \E i \in 1..Len(s) : k = i + m
  BY <1>1
<1> QED BY <1>1, <1>2, <1>4, <1>6, <1>7 DEF Rests, m, t

\* Frames fs in the place of the innermost frame of s.
LEMMA Became ==
  ASSUME NEW s \in Seq(Frame), NEW fs \in Seq(Frame), s # <<>>
  PROVE  /\ Rests(s, fs \o Tail(s), Len(fs), 1)
         /\ \A k \in 1..Len(fs) : (fs \o Tail(s))[k] = fs[k]
<1> DEFINE m == Len(fs)  c == Tail(s)  t == fs \o c
<1>1. c \in Seq(Frame) /\ Len(c) = Len(s) - 1 /\ \A k \in 1..Len(c) : c[k] = s[k + 1]
  OBVIOUS
<1> HIDE DEF c
<1>2. t \in Seq(Frame) /\ Len(t) = Len(s) + m - 1 /\ Len(s) \in Nat /\ m \in Nat
  <2>1. fs \o c \in Seq(Frame) /\ Len(fs \o c) = m + Len(c)
    BY <1>1, Stacked
  <2> QED BY <1>1, <2>1
<1>3. /\ \A k \in 1..m : t[k] = fs[k]
      /\ \A k \in 1..Len(t) : k > m => t[k] = c[k - m]
  BY <1>1, Stacked
<1> HIDE DEF m, t
<1>4. \A i \in 1..Len(s) : i > 1 => /\ i - 1 \in 1..Len(c) /\ i + m - 1 \in 1..Len(t)
                                    /\ i + m - 1 > m /\ (i + m - 1) - m = i - 1
                                    /\ (i - 1) + 1 = i
  BY <1>1, <1>2
<1>5. \A i \in 1..Len(s) : i > 1 => t[i + m - 1] = s[i]
  <2>1. \A i \in 1..Len(s) : i > 1 => t[i + m - 1] = c[i - 1]
    BY <1>3, <1>4
  <2>2. \A i \in 1..Len(s) : i > 1 => c[i - 1] = s[i]
    BY <1>1, <1>4
  <2> QED BY <2>1, <2>2
<1>6. \A i \in 1..Len(s) : i > 1 => Comes(s, t, i + m - 1, i, m, 1)
  <2> SUFFICES ASSUME NEW i \in 1..Len(s), i > 1 PROVE Comes(s, t, i + m - 1, i, m, 1)
    OBVIOUS
  <2>1. i + 1 \in 1..Len(s) =>
          (i + m - 1) + 1 \in 1..Len(t) /\ (i + m - 1) + 1 = (i + 1) + m - 1 /\ i + 1 > 1
    BY <1>2
  <2>2. i + 1 \in 1..Len(s) => t[(i + m - 1) + 1] = s[i + 1]
    BY <1>5, <2>1
  <2>3. Same(t[i + m - 1], s[i])
    BY <1>5 DEF Same
  <2>4. i + 1 \in 1..Len(s) =>
          (i + m - 1) + 1 \in 1..Len(t) /\ Same(t[(i + m - 1) + 1], s[i + 1])
    BY <2>1, <2>2 DEF Same
  <2> QED BY <2>3, <2>4 DEF Comes
<1>7. \A k \in 1..Len(t) : k > m => \E i \in 1..Len(s) : i > 1 /\ k = i + m - 1
  BY <1>2
<1> QED BY <1>2, <1>3, <1>4, <1>6, <1>7 DEF Rests, m, c, t

\* One frame as a sequence.
LEMMA Frames1 ==
  ASSUME NEW x \in Frame
  PROVE  <<x>> \in Seq(Frame) /\ Len(<<x>>) = 1 /\ <<x>>[1] = x
OBVIOUS
\* Two frames as a sequence.
LEMMA Frames2 ==
  ASSUME NEW x \in Frame, NEW y \in Frame
  PROVE  /\ <<x, y>> \in Seq(Frame) /\ Len(<<x, y>>) = 2
         /\ <<x, y>>[1] = x /\ <<x, y>>[2] = y
OBVIOUS
\* No frame as a sequence.
LEMMA Frames0 == <<>> \in Seq(Frame) /\ Len(<<>>) = 0
OBVIOUS

\* The calls.
Ops == Callbacks \cup {"reset", "init", "endReset", "construct", "free", "resetUsers", "drain"}

\* Do makes a frame that refers to no actions and no bots.
LEMMA DoFrame ==
  ASSUME NEW op, op \in Ops,
         NEW b, b \in Bots \cup {None}, NEW f, f \in Factories \cup {None}
  PROVE  /\ Do(op, b, f) \in Frame /\ Do(op, b, f).op = op /\ Do(op, b, f).b = b
         /\ Do(op, b, f).f = f /\ Do(op, b, f).as = {} /\ Do(op, b, f).bs = {}
BY ConstantsOK DEF Do, Frame, Ops

\* A callback that makes a call is on top; the heavy calls come from initialAction and onEnd only.
LEMMA CallersCalls ==
  ASSUME TypeOK, CallsBack \subseteq Survivable, NEW call,
         ctl # <<>> => <<Top.op, call>> \in CallsBack
  PROVE  /\ Len(ctl) > 0 => ctl[1].op \in Callbacks
         /\ Len(ctl) > 0 /\ call \in {"spawn", "remove", "reset", "close"} =>
              ctl[1].op \in {"initialAction", "onEnd"}
<1>1. ctl \in Seq(Frame) /\ (Len(ctl) > 0 => ctl # <<>> /\ Top = ctl[1])
  BY DEF TypeOK, Top
<1>2. Len(ctl) > 0 => <<ctl[1].op, call>> \in Survivable
  BY <1>1
<1> QED BY <1>2 DEF Survivable, Callbacks

\* A call from plugin code leaves every frame where it was, under the new ones.
LEMMA CallsRest ==
  ASSUME TypeOK, ctl # <<>> => Top.n > 0
  PROVE  \A fs \in Seq(Frame) : ctl' = fs \o Caller =>
           Rests(ctl, ctl', Len(fs), 0) /\ \A k \in 1..Len(fs) : ctl'[k] = fs[k]
<1>1. /\ Caller \in Seq(Frame) /\ Len(Caller) = Len(ctl)
      /\ \A k \in 1..Len(ctl) : Same(Caller[k], ctl[k])
  BY CallerFrames
<1>2. ctl \in Seq(Frame)
  BY DEF TypeOK
<1> QED BY <1>1, <1>2, Called

\* An engine step replaces the innermost frame and leaves the others.
LEMMA BecomesRest ==
  ASSUME TypeOK, ctl # <<>>
  PROVE  \A fs \in Seq(Frame) : ctl' = fs \o Tail(ctl) =>
           Rests(ctl, ctl', Len(fs), 1) /\ \A k \in 1..Len(fs) : ctl'[k] = fs[k]
BY Became DEF TypeOK


\* What frame i of the stack speaks of is left alone.
Unmoved(i) ==
  /\ ctl[i].op \in {"attachBot", "construct", "reset", "endReset", "free"} \cup Starting =>
       bot'[ctl[i].b] = bot[ctl[i].b]
  /\ ctl[i].op \in {"construct"} \cup Retiring => factory'[ctl[i].f] = factory[ctl[i].f]
  /\ ctl[i].op \in Starting => resetting'[ctl[i].b] = resetting[ctl[i].b]

\* Nested at k, seen from the frames below m.
NestedAt(k, m, d) ==
  /\ ctl[k].op = "onEnd" => Below(k, {"init", "free"})
  /\ ctl[k].op \in Starting /\ resetting[ctl[k].b] => Below(k, {"endReset"})
  /\ ctl[k].op \in Starting /\ ~resetting[ctl[k].b] =>
       /\ ctl[k].op = "init" => k = 1 + d
       /\ \A j \in Place : m < j /\ j < k =>
            ctl[k].b \notin ctl[j].bs /\ ~(ctl[j].op = "reset" /\ ctl[j].b = ctl[k].b)

\* Single at j and k.
SingleAt(j, k) ==
  /\ ctl[j].op = "free" /\ ctl[k].op = "free" /\ ctl[j].b = ctl[k].b => j = k
  /\ ctl[j].op = "endReset" /\ ctl[k].op = "endReset" /\ ctl[j].b = ctl[k].b => j = k
  /\ ctl[j].op \in Starting /\ ctl[k].op \in Starting /\ ctl[j].b = ctl[k].b => j = k
  /\ ctl[j].op \in Retiring /\ ctl[k].op \in Retiring /\ ctl[j].f = ctl[k].f => j = k

\* The frames below the new ones keep what StackInv says of them.
LEMMA OldFrames ==
  ASSUME StackInv, NEW m \in Nat, NEW p \in Nat, Rests(ctl, ctl', m, p),
         \A i \in Place : i > p => Unmoved(i)
  PROVE  /\ \A k \in Place' : k > m =>
              /\ FitAt(k)' /\ NestedAt(k, m, m - p)'
              /\ \E i \in Place : i > p /\ k = i + m - p /\ Same(ctl'[k], ctl[i]) /\ OnTop(i)
         /\ \A j, k \in Place' : j > m /\ k > m => SingleAt(j, k)'
<1>1. ASSUME NEW k \in Place', k > m
      PROVE  /\ FitAt(k)' /\ NestedAt(k, m, m - p)'
             /\ \E i \in Place : i > p /\ k = i + m - p /\ Same(ctl'[k], ctl[i]) /\ OnTop(i)
  <2>1. PICK i \in Place : Comes(ctl, ctl', k, i, m, p)
    BY <1>1 DEF Rests, Place
  <2>2. /\ Same(ctl'[k], ctl[i]) /\ i > p /\ k = i + m - p
        /\ i + 1 \in Place => k + 1 \in Place' /\ Same(ctl'[k + 1], ctl[i + 1])
    BY <2>1 DEF Comes, Place
  <2>3. FitAt(i) /\ OnTop(i) /\ Unmoved(i)
    BY <2>2 DEF StackInv, FramesFit
  <2>4. FitAt(k)'
    BY <2>2, <2>3 DEF FitAt, Unmoved, Same
  <2>5. ctl'[k].op = "onEnd" => Below(k, {"init", "free"})'
    BY <2>2 DEF StackInv, Nested, Below, Same
  <2>6. ctl'[k].op \in Starting => resetting'[ctl'[k].b] = resetting[ctl[i].b]
    BY <2>2, <2>3 DEF Same, Unmoved
  <2>7. ctl'[k].op \in Starting /\ resetting'[ctl'[k].b] => Below(k, {"endReset"})'
    BY <2>2, <2>6 DEF StackInv, Nested, Below, Same
  <2>8. ASSUME ctl'[k].op \in Starting, ~resetting'[ctl'[k].b]
        PROVE  /\ ctl'[k].op = "init" => k = 1 + (m - p)
               /\ \A j \in Place' : m < j /\ j < k =>
                    ctl'[k].b \notin ctl'[j].bs /\ ~(ctl'[j].op = "reset" /\ ctl'[j].b = ctl'[k].b)
    <3>1. /\ ctl[i].op = "init" => i = 1
          /\ \A j \in Place : j < i => /\ ctl[i].b \notin ctl[j].bs
                                       /\ ~(ctl[j].op = "reset" /\ ctl[j].b = ctl[i].b)
      BY <2>2, <2>6, <2>8 DEF StackInv, Nested, Same
    <3>2. ASSUME NEW j \in Place', m < j, j < k
          PROVE  ctl'[k].b \notin ctl'[j].bs /\ ~(ctl'[j].op = "reset" /\ ctl'[j].b = ctl'[k].b)
      <4>1. PICK h \in Place : Comes(ctl, ctl', j, h, m, p)
        BY <3>2 DEF Rests, Place
      <4>2. h < i /\ Same(ctl'[j], ctl[h])
        BY <2>2, <3>2, <4>1 DEF Comes, Place
      <4> QED BY <2>2, <3>1, <4>2 DEF Same
    <3>3. ctl'[k].op = "init" => k = 1 + (m - p)
      BY <2>2, <3>1 DEF Same
    <3> QED BY <3>2, <3>3
  <2>9. NestedAt(k, m, m - p)'
    BY <2>5, <2>7, <2>8 DEF NestedAt
  <2> QED BY <2>2, <2>3, <2>4, <2>9
<1>2. ASSUME NEW j \in Place', NEW k \in Place', j > m, k > m
      PROVE  SingleAt(j, k)'
  <2>1. PICK h \in Place : Comes(ctl, ctl', j, h, m, p)
    BY <1>2 DEF Rests, Place
  <2>2. PICK i \in Place : Comes(ctl, ctl', k, i, m, p)
    BY <1>2 DEF Rests, Place
  <2>3. Same(ctl'[j], ctl[h]) /\ Same(ctl'[k], ctl[i]) /\ (h = i => j = k)
    BY <2>1, <2>2 DEF Comes
  <2> QED BY <2>3 DEF StackInv, Single, Same, SingleAt
<1> QED BY <1>1, <1>2

\* The end of a reset stays where it was unless it goes, and is what it was.
LEMMA OldResets ==
  ASSUME Resets, NEW m \in Nat, NEW p \in Nat, Rests(ctl, ctl', m, p), NEW b \in Bots
  PROVE  /\ (\E i \in Place : i > p /\ ctl[i].op = "endReset" /\ ctl[i].b = b)
              => \E k \in Place' : ctl'[k].op = "endReset" /\ ctl'[k].b = b
         /\ \A k \in Place' : k > m /\ ctl'[k].op = "endReset" /\ ctl'[k].b = b => resetting[b]
<1>1. ASSUME NEW i \in Place, i > p, ctl[i].op = "endReset", ctl[i].b = b
      PROVE  \E k \in Place' : ctl'[k].op = "endReset" /\ ctl'[k].b = b
  <2>1. PICK k \in Place' : Comes(ctl, ctl', k, i, m, p)
    BY <1>1 DEF Rests, Place
  <2> QED BY <1>1, <2>1 DEF Comes, Same
<1>2. ASSUME NEW k \in Place', k > m, ctl'[k].op = "endReset", ctl'[k].b = b
      PROVE  resetting[b]
  <2>1. PICK i \in Place : Comes(ctl, ctl', k, i, m, p)
    BY <1>2 DEF Rests, Place
  <2> QED BY <1>2, <2>1 DEF Comes, Same, Resets
<1> QED BY <1>1, <1>2

\* A step that changes no frame, bot, factory or reset keeps StackInv.
LEMMA SameStack ==
  ASSUME StackInv, Rests(ctl, ctl', 0, 0), UNCHANGED <<bot, factory, resetting>>
  PROVE  StackInv'
<1>1. \A i \in Place : Unmoved(i)
  BY DEF Unmoved
<1>2. /\ \A k \in Place' : k > 0 =>
              /\ FitAt(k)' /\ NestedAt(k, 0, 0 - 0)'
              /\ \E i \in Place : i > 0 /\ k = i + 0 - 0 /\ Same(ctl'[k], ctl[i]) /\ OnTop(i)
      /\ \A j, k \in Place' : j > 0 /\ k > 0 => SingleAt(j, k)'
  BY <1>1, OldFrames
<1>3. \A k \in Place' : k > 0 /\ (k > 1 => 1 \in Place') /\ k \in Int
  BY DEF Place
<1>4. \A k \in Place' : Same(ctl'[k], ctl[k]) /\ OnTop(k)
  BY <1>2, <1>3 DEF Place
<1>5. FramesFit'
  BY <1>2, <1>3, <1>4 DEF FramesFit, OnTop, Same
<1>6. Nested'
  BY <1>2, <1>3 DEF Nested, NestedAt
<1>7. Single'
  BY <1>2, <1>3 DEF Single, SingleAt
<1>8. Resets'
  BY <1>3, OldResets DEF StackInv, Resets, Place
<1> QED BY <1>5, <1>6, <1>7, <1>8 DEF StackInv

\* A call that returns keeps StackInv; the end of a reset clears its flag.
LEMMA PoppedStack ==
  ASSUME StackInv, Rests(ctl, ctl', 0, 1), Len(ctl) > 0,
         \A i \in Place : i > 1 => Unmoved(i),
         \A b \in Bots : IF ctl[1].op = "endReset" /\ ctl[1].b = b THEN ~resetting'[b]
                         ELSE resetting'[b] = resetting[b]
  PROVE  StackInv'
<1>2. /\ \A k \in Place' : k > 0 =>
              /\ FitAt(k)' /\ NestedAt(k, 0, 0 - 1)'
              /\ \E i \in Place : i > 1 /\ k = i + 0 - 1 /\ Same(ctl'[k], ctl[i]) /\ OnTop(i)
      /\ \A j, k \in Place' : j > 0 /\ k > 0 => SingleAt(j, k)'
  BY OldFrames
<1>3. \A k \in Place' : k > 0 /\ k \in Int
  BY DEF Place
<1>4. \A k \in Place' : \E i \in Place : i > 1 /\ k = i - 1 /\ Same(ctl'[k], ctl[i]) /\ OnTop(i)
  BY <1>2, <1>3 DEF Place
<1>5. FramesFit'
  BY <1>2, <1>3, <1>4 DEF FramesFit, OnTop, Same
<1>6. Nested'
  BY <1>2, <1>3 DEF Nested, NestedAt
<1>7. Single'
  BY <1>2, <1>3 DEF Single, SingleAt
<1>8. Resets'
  <2> SUFFICES ASSUME NEW b \in Bots
               PROVE  /\ resetting'[b] => \E k \in Place' : ctl'[k].op = "endReset" /\ ctl'[k].b = b
                      /\ \A k \in Place' : ctl'[k].op = "endReset" /\ ctl'[k].b = b => resetting'[b]
    BY DEF Resets
  <2>1. ASSUME resetting'[b]
        PROVE  \E i \in Place : i > 1 /\ ctl[i].op = "endReset" /\ ctl[i].b = b
    <3>1. resetting[b] /\ ~(ctl[1].op = "endReset" /\ ctl[1].b = b)
      BY <2>1
    <3>2. PICK i \in Place : ctl[i].op = "endReset" /\ ctl[i].b = b
      BY <3>1 DEF StackInv, Resets
    <3>3. i # 1
      BY <3>1, <3>2
    <3> QED BY <3>2, <3>3 DEF Place
  <2>2. ASSUME NEW k \in Place', ctl'[k].op = "endReset", ctl'[k].b = b
        PROVE  resetting'[b]
    <3>1. PICK i \in Place : i > 1 /\ Same(ctl'[k], ctl[i])
      BY <1>4
    <3>2. ctl[i].op = "endReset" /\ ctl[i].b = b /\ resetting[b]
      BY <2>2, <3>1 DEF Same, StackInv, Resets
    <3>3. ~(ctl[1].op = "endReset" /\ ctl[1].b = b)
      BY <3>1, <3>2 DEF StackInv, Single, Place
    <3> QED BY <3>2, <3>3
  <2> QED BY <2>1, <2>2, OldResets DEF StackInv
<1> QED BY <1>5, <1>6, <1>7, <1>8 DEF StackInv

\* Two frames that must not both be on the stack.
Clash(fr, gr) ==
  \/ fr.op = "free" /\ gr.op = "free" /\ fr.b = gr.b
  \/ fr.op = "endReset" /\ gr.op = "endReset" /\ fr.b = gr.b
  \/ fr.op \in Starting /\ gr.op \in Starting /\ fr.b = gr.b
  \/ fr.op \in Retiring /\ gr.op \in Retiring /\ fr.f = gr.f

\* A frame that may lie below the top.
Quiet(i) ==
  /\ ctl[i].op \notin {"reset", "drain", "attachBot", "construct"}
  /\ ctl[i].op = "init" => resetting[ctl[i].b]

\* Whatever lies below the innermost call is waiting for it, in a place that allows that.
LEMMA QuietBelow ==
  ASSUME StackInv, ctl[1].op # "attachBot"
  PROVE  \A i \in Place : i > 1 => Quiet(i)
<1> SUFFICES ASSUME NEW i \in Place, i > 1 PROVE Quiet(i)
  OBVIOUS
<1>1. OnTop(i)
  BY DEF StackInv, FramesFit
<1>2. ctl[i].op = "init" => resetting[ctl[i].b]
  BY DEF StackInv, Nested, Starting, Place
<1> QED BY <1>1, <1>2 DEF OnTop, Quiet, Place

\* New frames that fit, do not clash with old ones and announce their resets keep StackInv.
LEMMA PushedStack ==
  ASSUME StackInv, NEW m \in Nat, NEW p \in Nat, Rests(ctl, ctl', m, p),
         \A i \in Place : i > p => Unmoved(i) /\ Quiet(i),
         \A k \in Place' : k <= m => FitAt(k)' /\ OnTop(k)' /\ NestedAt(k, 0, 0)',
         \A j, k \in Place' : j <= m /\ k <= m => SingleAt(j, k)',
         \A k \in Place' : k <= m => \A i \in Place : i > p => ~Clash(ctl'[k], ctl[i]),
         \A k \in Place' : k <= m => \A i \in Place : i > p =>
           (ctl[i].op \in Starting /\ ~resetting[ctl[i].b] =>
             ctl[i].b \notin ctl'[k].bs /\ ~(ctl'[k].op = "reset" /\ ctl'[k].b = ctl[i].b)),
         \A i \in Place : i <= p => ctl[i].op # "endReset",
         \A b \in Bots : resetting'[b] <=>
           \/ resetting[b]
           \/ \E k \in Place' : k <= m /\ ctl'[k].op = "endReset" /\ ctl'[k].b = b
  PROVE  StackInv'
<1>1. /\ \A k \in Place' : k > m =>
              /\ FitAt(k)' /\ NestedAt(k, m, m - p)'
              /\ \E i \in Place : i > p /\ k = i + m - p /\ Same(ctl'[k], ctl[i]) /\ OnTop(i)
      /\ \A j, k \in Place' : j > m /\ k > m => SingleAt(j, k)'
  BY OldFrames
<1>2. \A k \in Place' : k \in Int /\ ~(k <= m /\ k > m) /\ (k <= m \/ k > m)
  BY DEF Place
<1>3. \A k \in Place' : k > m => OnTop(k)'
  BY <1>1 DEF Quiet, Same, OnTop
<1>4. FramesFit'
  BY <1>1, <1>2, <1>3 DEF FramesFit
<1>5. ASSUME NEW k \in Place', k > m
      PROVE  NestedAt(k, 0, 0)'
  <2>1. PICK i \in Place : i > p /\ k = i + m - p /\ Same(ctl'[k], ctl[i])
    BY <1>1, <1>5
  <2>2. ctl'[k].op \in Starting => resetting'[ctl'[k].b] = resetting[ctl[i].b]
    BY <2>1 DEF Same, Unmoved
  <2>3. NestedAt(k, m, m - p)'
    BY <1>1, <1>5
  <2>4. ASSUME ctl'[k].op \in Starting, ~resetting'[ctl'[k].b], NEW j \in Place', j < k
        PROVE  ctl'[k].b \notin ctl'[j].bs /\ ~(ctl'[j].op = "reset" /\ ctl'[j].b = ctl'[k].b)
    <3>1. CASE j > m
      BY <2>3, <2>4, <3>1 DEF NestedAt
    <3>2. CASE j <= m
      BY <2>1, <2>2, <2>4, <3>2 DEF Same
    <3> QED BY <1>2, <3>1, <3>2
  <2>5. ctl'[k].op = "init" => resetting'[ctl'[k].b]
    BY <2>1, <2>2 DEF Quiet, Same, Starting
  <2> QED BY <2>3, <2>4, <2>5 DEF NestedAt
<1>6. Nested'
  <2>1. \A k \in Place' : NestedAt(k, 0, 0)'
    BY <1>2, <1>5
  <2>2. \A k \in Place' : 0 < k
    BY DEF Place
  <2> QED BY <2>1, <2>2 DEF Nested, NestedAt
<1>7. ASSUME NEW j \in Place', NEW k \in Place', j <= m, k > m
      PROVE  ~Clash(ctl'[j], ctl'[k])
  <2>1. PICK i \in Place : i > p /\ Same(ctl'[k], ctl[i])
    BY <1>1, <1>7
  <2>2. ~Clash(ctl'[j], ctl[i])
    BY <1>7, <2>1
  <2> QED BY <2>1, <2>2 DEF Clash, Same
<1>8. \A j, k \in Place' : SingleAt(j, k)'
  <2> SUFFICES ASSUME NEW j \in Place', NEW k \in Place' PROVE SingleAt(j, k)'
    OBVIOUS
  <2>1. CASE j > m /\ k > m
    BY <1>1, <2>1
  <2>2. CASE j <= m /\ k <= m
    BY <2>2
  <2>3. CASE j <= m /\ k > m
    BY <1>7, <2>3 DEF SingleAt, Clash
  <2>4. CASE j > m /\ k <= m
    <3>1. ~Clash(ctl'[k], ctl'[j])
      BY <1>7, <2>4
    <3> QED BY <3>1 DEF SingleAt, Clash
  <2> QED BY <1>2, <2>1, <2>2, <2>3, <2>4
<1>9. Single'
  BY <1>8 DEF Single, SingleAt
<1>10. Resets'
  <2> SUFFICES ASSUME NEW b \in Bots
               PROVE  /\ resetting'[b] => \E k \in Place' : ctl'[k].op = "endReset" /\ ctl'[k].b = b
                      /\ \A k \in Place' : ctl'[k].op = "endReset" /\ ctl'[k].b = b => resetting'[b]
    BY DEF Resets
  <2>1. ASSUME resetting[b]
        PROVE  \E i \in Place : i > p /\ ctl[i].op = "endReset" /\ ctl[i].b = b
    <3>1. PICK i \in Place : ctl[i].op = "endReset" /\ ctl[i].b = b
      BY <2>1 DEF StackInv, Resets
    <3> QED BY <3>1 DEF Place
  <2>2. \A k \in Place' : k > m /\ ctl'[k].op = "endReset" /\ ctl'[k].b = b => resetting[b]
    BY OldResets DEF StackInv
  <2> QED BY <1>2, <2>1, <2>2, OldResets DEF StackInv
<1> QED BY <1>4, <1>6, <1>9, <1>10 DEF StackInv

\* the new address
LEMMA ActionsFinite ==
  /\ IsFiniteSet(Actions) /\ None \notin Actions
  /\ Cardinality(Actions) \in Nat
  /\ \A S : S \subseteq Actions => IsFiniteSet(S) /\ Cardinality(S) \in Nat
  /\ \A S : S \subseteq Bots => IsFiniteSet(S) /\ Cardinality(S) \in Nat
<1>1. MaxLoose + Cardinality(Bots) + 1 \in Nat
  BY ConstantsOK, FS_CardinalityType
<1> DEFINE n == MaxLoose + Cardinality(Bots) + 1
<1>2. IsFiniteSet(1..n)
  BY <1>1, FS_Interval
<1>3. IsFiniteSet(Actions) /\ None \notin Actions
  BY <1>1, <1>2 DEF Actions, None
<1> QED BY <1>3, ConstantsOK, FS_CardinalityType, FS_Subset

\* While not all addresses are taken, Fresh is a free one.
LEMMA FreshIsFree ==
  ASSUME Cardinality(live) < Cardinality(Actions)
  PROVE  Fresh \in Actions /\ Fresh \notin live
<1>1. \E a \in Actions : a \notin live
  <2> SUFFICES ASSUME Actions \subseteq live PROVE FALSE
    OBVIOUS
  <2>1. live = Actions
    BY DEF live
  <2> QED BY <2>1, ActionsFinite
<1> QED BY <1>1 DEF Fresh

\* Fewer actions and no more mindless bots keep the budget.
LEMMA BudgetShrinks ==
  ASSUME Budget, live' \subseteq live, Mindless' \subseteq Mindless
  PROVE  Budget'
<1>1. live \subseteq Actions /\ Mindless \subseteq Bots
  BY DEF live, Mindless
<1>2. /\ IsFiniteSet(live) /\ IsFiniteSet(Mindless)
      /\ Cardinality(live) \in Nat /\ Cardinality(Mindless) \in Nat
      /\ Cardinality(Actions) \in Nat
  BY <1>1, ActionsFinite
<1>3. Cardinality(live') <= Cardinality(live) /\ Cardinality(live') \in Nat
  BY <1>2, FS_Subset, FS_CardinalityType
<1>4. Cardinality(Mindless') <= Cardinality(Mindless) /\ Cardinality(Mindless') \in Nat
  BY <1>2, FS_Subset, FS_CardinalityType
<1> QED BY <1>2, <1>3, <1>4 DEF Budget, Actions

\* pointwise
LEMMA FramesAre ==
  ASSUME TypeOK
  PROVE  /\ ctl \in Seq(Frame) /\ DOMAIN ctl = Place
         /\ \A k \in Place : ctl[k].as \subseteq Actions /\ ctl[k].bs \subseteq Bots
         /\ \A a : a \in InHand <=> Held(a)
         /\ \A b : b \in Busy <=> b # None /\ \E k \in Place : ctl[k].b = b
         /\ \A b \in Bots : b \in Mindless <=>
              inside[b] = {} /\ \A k \in Place : ctl[k].b = b => ctl[k].as = {}
<1>1. ctl \in Seq(Frame) /\ DOMAIN ctl = Place
  BY DEF TypeOK, Place
<1>2. \A a : a \in InHand <=> Held(a)
  BY <1>1 DEF InHand, Frames, Held
<1>3. \A b : b \in Busy <=> b # None /\ \E k \in Place : ctl[k].b = b
  BY <1>1 DEF Busy, Frames
<1>4. \A b \in Bots : b \in Mindless <=>
        inside[b] = {} /\ \A k \in Place : ctl[k].b = b => ctl[k].as = {}
  BY <1>1 DEF Mindless, Frames
<1>5. \A k \in Place : ctl[k].as \subseteq Actions /\ ctl[k].bs \subseteq Bots
  <2>1. \A k \in Place : ctl[k] \in Frame
    BY <1>1
  <2> QED BY <2>1 DEF Frame
<1> QED BY <1>1, <1>2, <1>3, <1>4, <1>5

\* FramesAre for the next state.
LEMMA NextFramesAre ==
  ASSUME ctl' \in Seq(Frame)
  PROVE  /\ DOMAIN ctl' = Place'
         /\ \A k \in Place' : ctl'[k].as \subseteq Actions
         /\ \A a : a \in InHand' <=> Held(a)'
         /\ \A b \in Bots : b \in Mindless' <=>
              inside'[b] = {} /\ \A k \in Place' : ctl'[k].b = b => ctl'[k].as = {}
<1>1. DOMAIN ctl' = Place'
  BY DEF Place
<1>2. \A a : a \in InHand' <=> Held(a)'
  BY <1>1 DEF InHand, Frames, Held
<1>4. \A b \in Bots : b \in Mindless' <=>
        inside'[b] = {} /\ \A k \in Place' : ctl'[k].b = b => ctl'[k].as = {}
  BY <1>1 DEF Mindless, Frames
<1>5. \A k \in Place' : ctl'[k].as \subseteq Actions
  <2>1. \A k \in Place' : ctl'[k] \in Frame
    BY <1>1
  <2> QED BY <2>1 DEF Frame
<1> QED BY <1>1, <1>2, <1>4, <1>5

\* where the frames of the next stack come from
LEMMA Places ==
  ASSUME NEW m \in Nat, NEW p \in Nat, Rests(ctl, ctl', m, p)
  PROVE  /\ \A k \in Place' : k > m =>
              \E i \in Place : i > p /\ k = i + m - p /\ Same(ctl'[k], ctl[i])
         /\ \A i \in Place : i > p =>
              \E k \in Place' : k > m /\ k = i + m - p /\ Same(ctl'[k], ctl[i])
<1>1. ASSUME NEW k \in Place', k > m
      PROVE  \E i \in Place : i > p /\ k = i + m - p /\ Same(ctl'[k], ctl[i])
  <2>1. PICK i \in Place : Comes(ctl, ctl', k, i, m, p)
    BY <1>1 DEF Rests, Place
  <2> QED BY <2>1 DEF Comes
<1>2. ASSUME NEW i \in Place, i > p
      PROVE  \E k \in Place' : k > m /\ k = i + m - p /\ Same(ctl'[k], ctl[i])
  <2>1. PICK k \in Place' : Comes(ctl, ctl', k, i, m, p)
    BY <1>2 DEF Rests, Place
  <2> QED BY <2>1 DEF Comes, Place
<1> QED BY <1>1, <1>2

\* No frame added or gone: every action is held as before.
LEMMA SamePlaces ==
  ASSUME Rests(ctl, ctl', 0, 0)
  PROVE  /\ Place' = Place /\ \A k \in Place : Same(ctl'[k], ctl[k])
         /\ \A a : Held(a)' <=> Held(a)
<1>1. Place' = Place
  BY DEF Rests, Place
<1>2. ASSUME NEW k \in Place PROVE Same(ctl'[k], ctl[k])
  <2>1. \E i \in Place : i > 0 /\ k = i + 0 - 0 /\ Same(ctl'[k], ctl[i])
    BY <1>1, Places DEF Place
  <2> QED BY <2>1 DEF Place
<1>3. \A a : Held(a)' <=> Held(a)
  BY <1>1, <1>2 DEF Held, Same
<1> QED BY <1>1, <1>2, <1>3

\* A step that leaves the stack and all but actions alone: what is to be shown.
LEMMA QuietStep ==
  ASSUME IInv, Rests(ctl, ctl', 0, 0), UNCHANGED <<factory, bot, initial, behavior, resetting, inside>>,
         \A a \in Actions : made'[a] # made[a] => ~Held(a) /\ (made'[a] # None => ~Housed(a)),
         \A a \in Actions : made'[a] # made[a] /\ made'[a] # None => factory[made'[a]] = "alive"
  PROVE  StackInv' /\ Minded' /\ Started' /\ Retired' /\ FactoryOutlivesActions'
<1>1. TypeOK /\ StackInv /\ Minded /\ Started /\ Retired /\ FactoryOutlivesActions
  BY DEF IInv, RetireInv
<1>2. StackInv'
  BY <1>1, SameStack
<1>3. Place' = Place /\ \A k \in Place : Same(ctl'[k], ctl[k])
  BY SamePlaces
<1>4. Minded'
  <2>1. \A k \in Place' : ctl'[k].op \in Starting => inside'[ctl'[k].b] = {}
    BY <1>1, <1>3 DEF Minded, Same
  <2>2. Len(ctl) > 0 => 1 \in Place /\ Len(ctl') > 0
    BY <1>1 DEF Rests, Place, TypeOK
  <2>3. \A b \in Bots : resetting'[b] /\ inside'[b] # {} =>
          Len(ctl') > 0 /\ ctl'[1].op = "endReset" /\ ctl'[1].b = b
    BY <1>1, <1>3, <2>2 DEF Minded, Same
  <2> QED BY <1>1, <2>1, <2>3 DEF Minded
<1>5. \A k \in Place : \A a \in ctl[k].as : a \in Actions /\ made'[a] = made[a]
  BY <1>1, FramesAre DEF Held
<1>6. Started'
  BY <1>1, <1>3, <1>5 DEF Started, Same
<1>7. \A b \in Bots : \A a \in inside[b] : a \in Actions /\ (made'[a] = made[a] \/ made'[a] = None)
  BY <1>1 DEF TypeOK, Housed
<1>8. Retired'
  BY <1>1, <1>3, <1>5, <1>7, ConstantsOK DEF Retired, Same, StackInv, FramesFit, FitAt, Place
<1>9. FactoryOutlivesActions'
  BY <1>1 DEF FactoryOutlivesActions, live
<1> QED BY <1>2, <1>4, <1>6, <1>8, <1>9

\* Create keeps the invariant.
LEMMA CreateKeeps ==
  ASSUME IInv, NEW f \in Factories, Create(f)
  PROVE  IInv'
<1>1. TypeOK /\ OwnInv /\ Severed /\ ctl \in Seq(Frame) /\ Len(<<>>) = 0 /\ <<>> \in Seq(Frame)
  BY DEF IInv, RetireInv, TypeOK
<1>2. /\ ctl # <<>> => Top.n > 0
      /\ factory[f] = "alive"
      /\ Cardinality(live) + Cardinality(Mindless) < Cardinality(Actions) - 1
      /\ made' = [made EXCEPT ![Fresh] = f]
      /\ loose' = loose \cup {Fresh}
      /\ ctl' = <<>> \o Caller
      /\ UNCHANGED <<factory, declared, bot, initial, behavior, resetting, inside, pend>>
  BY DEF Create, PluginCode, Calls, minds
<1>3. /\ live \subseteq Actions /\ Mindless \subseteq Bots
      /\ Cardinality(live) \in Nat /\ Cardinality(Mindless) \in Nat /\ Cardinality(Actions) \in Nat
      /\ IsFiniteSet(live) /\ None \notin Actions
  BY ActionsFinite DEF live, Mindless
<1>4. Fresh \in Actions /\ Fresh \notin live
  BY <1>2, <1>3, FreshIsFree
<1> DEFINE new == Fresh
<1> HIDE DEF new
<1>5. new \in Actions /\ made' = [made EXCEPT ![new] = f] /\ loose' = loose \cup {new} /\ made[new] = None
  BY <1>2, <1>4 DEF new, live
<1>6. Rests(ctl, ctl', 0, 0)
  BY <1>1, <1>2, CallsRest
<1>7. ~Housed(new) /\ ~Held(new) /\ ~Wanted(new) /\ new \notin loose
  BY <1>1, <1>5 DEF OwnInv, Owned, OwnedAt, live
<1>8. StackInv' /\ Minded' /\ Started' /\ Retired' /\ FactoryOutlivesActions'
  BY <1>1, <1>2, <1>5, <1>6, <1>7, QuietStep, ConstantsOK DEF TypeOK
<1>9. live' = live \cup {new}
  BY <1>1, <1>5, ConstantsOK DEF live, TypeOK
<1>10. OwnInv'
  <2>1. \A a : /\ Housed(a)' <=> Housed(a)
               /\ Held(a)' <=> Held(a)
               /\ Wanted(a)' <=> Wanted(a)
    BY <1>2, <1>6, SamePlaces DEF Housed, Wanted
  <2>2. Owned'
    BY <1>1, <1>2, <1>5, <1>7, <1>9, <2>1 DEF OwnInv, Owned, OwnedAt
  <2>3. Apart'
    BY <1>1, <1>2, <1>6, SamePlaces DEF OwnInv, Apart, Same
  <2> QED BY <2>2, <2>3 DEF OwnInv
<1>11. Budget'
  <2>1. Mindless' = Mindless
    <3>1. ctl' \in Seq(Frame)
      BY <1>6 DEF Rests
    <3>2. \A b \in Bots : b \in Mindless' <=> b \in Mindless
      BY <1>1, <1>2, <1>6, <3>1, FramesAre, NextFramesAre, SamePlaces DEF Same
    <3> QED BY <3>2 DEF Mindless
  <2>2. Cardinality(live') = Cardinality(live) + 1
    BY <1>3, <1>9, FS_AddElement, <1>5 DEF live
  <2>3. Actions' = Actions
    BY DEF Actions
  <2> QED BY <1>2, <1>3, <2>1, <2>2 DEF Budget, Actions
<1>12. TypeOK'
  BY <1>1, <1>2, <1>5, <1>6 DEF TypeOK, Rests
<1>13. Severed'
  BY <1>1, <1>2 DEF Severed, Intentions
<1> QED BY <1>8, <1>10, <1>11, <1>12, <1>13 DEF IInv, RetireInv

\* An unchanged stack rests on itself.
LEMMA StackAlone ==
  ASSUME TypeOK, UNCHANGED ctl
  PROVE  Rests(ctl, ctl', 0, 0)
<1>1. ctl \in Seq(Frame) /\ Len(ctl) \in Nat
  BY DEF TypeOK
<1>2. \A k \in 1..Len(ctl) : Comes(ctl, ctl, k, k, 0, 0)
  BY <1>1 DEF Comes, Same
<1> QED BY <1>1, <1>2 DEF Rests

\* A call that returns at once leaves the frames alone.
LEMMA CallAlone ==
  ASSUME TypeOK, ctl # <<>> => Top.n > 0, ctl' = <<>> \o Caller
  PROVE  Rests(ctl, ctl', 0, 0)
<1>1. Len(<<>>) = 0 /\ <<>> \in Seq(Frame)
  OBVIOUS
<1> QED BY <1>1, CallsRest

\* The same frames and behaviours: the same mindless bots.
LEMMA SameMindless ==
  ASSUME TypeOK, Rests(ctl, ctl', 0, 0), UNCHANGED inside
  PROVE  Mindless' = Mindless
<1>1. ctl' \in Seq(Frame)
  BY DEF Rests
<1>2. \A b \in Bots : b \in Mindless' <=> b \in Mindless
  BY <1>1, FramesAre, NextFramesAre, SamePlaces DEF Same
<1> QED BY <1>2 DEF Mindless

\* What Destroyed does to actions that no pending result refers to: they and their own pending results go.
LEMMA DestroyedFacts ==
  ASSUME TypeOK, OwnInv, NEW as \in SUBSET Actions, as \subseteq live,
         \A a \in as : ~Wanted(a), Destroyed(as)
  PROVE  /\ as \subseteq Dead(as) /\ Dead(as) \subseteq live
         /\ \A a \in Dead(as) : a \in as \/ Wanted(a)
         /\ \A a \in Dead(as) : a \in as \/ \E x \in as : pend[x] = a
         /\ loose' = loose \ Dead(as) /\ live' = live \ Dead(as)
         /\ made' \in [Actions -> Factories \cup {None}]
         /\ pend' \in [Actions -> Actions \cup {None}]
         /\ \A a \in Actions : made'[a] = IF a \in Dead(as) THEN None ELSE made[a]
         /\ \A a \in Actions : pend'[a] = IF a \in Dead(as) THEN None ELSE pend[a]
         /\ \A a \in Actions : Wanted(a)' <=> Wanted(a) /\ a \notin Dead(as)
<1>1. /\ made \in [Actions -> Factories \cup {None}] /\ pend \in [Actions -> Actions \cup {None}]
      /\ None \notin Actions
  BY ActionsFinite DEF TypeOK
<1>2. \A a : a \in Dead(as) <=> a \in as \/ (a # None /\ \E x \in as : pend[x] = a)
  BY DEF Dead, Pending
<1>3. \A a \in Dead(as) : a \in Actions /\ (a \in as \/ Wanted(a))
  <2> SUFFICES ASSUME NEW a \in Dead(as) PROVE a \in Actions /\ (a \in as \/ Wanted(a))
    OBVIOUS
  <2>1. CASE a \in as
    BY <2>1
  <2>2. CASE a # None /\ \E x \in as : pend[x] = a
    <3>1. PICK x \in Actions : pend[x] = a
      BY <2>2
    <3> QED BY <1>1, <2>2, <3>1 DEF Wanted
  <2> QED BY <1>2, <2>1, <2>2
<1>4. as \subseteq Dead(as) /\ Dead(as) \subseteq live
  BY <1>2, <1>3 DEF OwnInv, Owned, OwnedAt
<1>5. \A x \in Actions : pend[x] \in Dead(as) => x \in Dead(as)
  <2> SUFFICES ASSUME NEW x \in Actions, pend[x] \in Dead(as) PROVE x \in as
    BY <1>2
  <2>1. pend[x] \notin as
    BY DEF Wanted
  <2>2. PICK y \in as : pend[y] = pend[x] /\ pend[x] # None
    BY <1>2, <2>1
  <2> QED BY <2>2 DEF OwnInv, Apart
<1>6. /\ loose' = loose \ Dead(as)
      /\ made' = [a \in Actions |-> IF a \in Dead(as) THEN None ELSE made[a]]
      /\ pend' = [a \in Actions |->
           IF \/ a \in Dead(as)
              \/ pend[a] \in Dead(as) /\ factory[made[pend[a]]] = "destroying"
           THEN None ELSE pend[a]]
  BY DEF Destroyed
<1>7. \A a \in Actions : made'[a] = IF a \in Dead(as) THEN None ELSE made[a]
  BY <1>6
<1>8. \A a \in Actions : pend'[a] = IF a \in Dead(as) THEN None ELSE pend[a]
  BY <1>5, <1>6
<1>9. /\ made' \in [Actions -> Factories \cup {None}]
      /\ pend' \in [Actions -> Actions \cup {None}]
  BY <1>1, <1>6
<1>10. live' = live \ Dead(as)
  BY <1>7 DEF live
<1>11. \A a \in Actions : Wanted(a)' <=> Wanted(a) /\ a \notin Dead(as)
  <2> SUFFICES ASSUME NEW a \in Actions PROVE Wanted(a)' <=> Wanted(a) /\ a \notin Dead(as)
    OBVIOUS
  <2>1. ASSUME Wanted(a)' PROVE Wanted(a) /\ a \notin Dead(as)
    BY <1>1, <1>5, <1>8, <2>1 DEF Wanted
  <2>2. ASSUME NEW x \in Actions, pend[x] = a, a \notin Dead(as) PROVE pend'[x] = a
    <3>1. x \notin as
      BY <1>1, <1>2, <2>2
    <3>2. x \notin Dead(as)
      <4>1. ASSUME Wanted(x) PROVE FALSE
        BY <1>1, <2>2, <4>1 DEF OwnInv, Owned, OwnedAt
      <4> QED BY <1>3, <3>1, <4>1
    <3> QED BY <1>8, <2>2, <3>2
  <2> QED BY <2>1, <2>2 DEF Wanted
<1> QED BY <1>2, <1>3, <1>4, <1>6, <1>7, <1>8, <1>9, <1>10, <1>11

\* Declare keeps the invariant.
LEMMA DeclareKeeps ==
  ASSUME IInv, NEW c \in Classes, NEW f \in Factories \cup {None}, Declare(c, f)
  PROVE  IInv'
<1>1. TypeOK /\ OwnInv /\ Severed /\ Budget
  BY DEF IInv, RetireInv
<1>2. /\ ctl # <<>> => Top.n > 0
      /\ f # None => factory[f] = "alive"
      /\ declared' = [declared EXCEPT ![c] = f]
      /\ ctl' = <<>> \o Caller
      /\ UNCHANGED <<factory, bot, initial, behavior, resetting, inside, made, loose, pend>>
  BY DEF Declare, PluginCode, Calls, minds, pool
<1>3. Rests(ctl, ctl', 0, 0)
  BY <1>1, <1>2, CallAlone
<1>4. StackInv' /\ Minded' /\ Started' /\ Retired' /\ FactoryOutlivesActions'
  BY <1>2, <1>3, QuietStep
<1>5. live' = live
  BY <1>2 DEF live
<1>6. OwnInv'
  <2>1. Owned'
    BY <1>1, <1>2, <1>3, <1>5, SamePlaces DEF OwnInv, Owned, OwnedAt, Housed, Wanted
  <2>2. Apart'
    BY <1>1, <1>2, <1>3, SamePlaces DEF OwnInv, Apart, Same
  <2> QED BY <2>1, <2>2 DEF OwnInv
<1>7. Budget'
  BY <1>1, <1>2, <1>3, <1>5, SameMindless, BudgetShrinks
<1>8. TypeOK'
  BY <1>1, <1>2, <1>3 DEF TypeOK, Rests
<1>9. Severed'
  BY <1>1, <1>2 DEF Severed, Intentions, TypeOK
<1> QED BY <1>4, <1>6, <1>7, <1>8, <1>9 DEF IInv, RetireInv

\* the deletion of a loose action
LEMMA LooseGoes ==
  ASSUME IInv, Rests(ctl, ctl', 0, 0), NEW a \in loose, Destroyed({a}),
         UNCHANGED <<factory, declared, bot, initial, behavior, resetting, inside>>
  PROVE  IInv'
<1>1. TypeOK /\ OwnInv /\ Severed /\ Budget /\ a \in Actions
  BY DEF IInv, RetireInv, TypeOK
<1>2. ~Wanted(a) /\ ~Housed(a) /\ ~Held(a) /\ a \in live /\ pend[a] = None
  BY <1>1 DEF OwnInv, Owned, OwnedAt
<1>3. Dead({a}) = {a}
  BY <1>2 DEF Dead, Pending
<1>4. /\ loose' = loose \ {a} /\ live' = live \ {a}
      /\ made' \in [Actions -> Factories \cup {None}]
      /\ pend' \in [Actions -> Actions \cup {None}]
      /\ \A x \in Actions : made'[x] = IF x \in {a} THEN None ELSE made[x]
      /\ \A x \in Actions : pend'[x] = IF x \in {a} THEN None ELSE pend[x]
      /\ \A x \in Actions : Wanted(x)' <=> Wanted(x) /\ x \notin {a}
  BY <1>1, <1>2, <1>3, DestroyedFacts
<1>5. StackInv' /\ Minded' /\ Started' /\ Retired' /\ FactoryOutlivesActions'
  BY <1>1, <1>2, <1>4, QuietStep
<1>6. OwnInv'
  <2>1. \A x : (Housed(x)' <=> Housed(x)) /\ (Held(x)' <=> Held(x))
    BY SamePlaces DEF Housed
  <2>2. Owned'
    BY <1>1, <1>2, <1>4, <2>1 DEF OwnInv, Owned, OwnedAt
  <2>3. Apart'
    BY <1>1, <1>4, SamePlaces DEF OwnInv, Apart, Same
  <2> QED BY <2>2, <2>3 DEF OwnInv
<1>7. Budget'
  BY <1>1, <1>4, SameMindless, BudgetShrinks
<1>8. TypeOK'
  BY <1>1, <1>4 DEF TypeOK, Rests
<1>9. Severed'
  BY <1>1 DEF Severed, Intentions
<1> QED BY <1>5, <1>6, <1>7, <1>8, <1>9 DEF IInv, RetireInv

\* DestroyLoose keeps the invariant.
LEMMA DestroyLooseKeeps ==
  ASSUME IInv, NEW a \in loose, DestroyLoose(a)
  PROVE  IInv'
<1>1. Rests(ctl, ctl', 0, 0)
  BY StackAlone DEF IInv, DestroyLoose
<1> QED BY <1>1, LooseGoes DEF DestroyLoose, minds

\* EventRefused keeps the invariant.
LEMMA EventRefusedKeeps ==
  ASSUME IInv, NEW b \in Bots, NEW x \in inside[b], NEW a \in loose, EventRefused(b, x, a)
  PROVE  IInv'
<1>1. Rests(ctl, ctl', 0, 0)
  BY CallAlone DEF IInv, EventRefused, Calls, PluginCode
<1> QED BY <1>1, LooseGoes DEF EventRefused, minds

\* Event keeps the invariant: the result it replaces goes, the loose action takes its place.
LEMMA EventKeeps ==
  ASSUME IInv, NEW b \in Bots, NEW x \in inside[b], NEW a \in loose, Event(b, x, a)
  PROVE  IInv'
<1>1. TypeOK /\ OwnInv /\ Severed /\ Budget /\ a \in Actions /\ x \in Actions /\ None \notin Actions
  BY ActionsFinite DEF IInv, RetireInv, TypeOK
<1>2. /\ ctl # <<>> => Top.n > 0
      /\ made' = [c \in Actions |-> IF c \in Pending({x}) THEN None ELSE made[c]]
      /\ pend' = [pend EXCEPT ![x] = a]
      /\ loose' = loose \ {a}
      /\ ctl' = <<>> \o Caller
      /\ UNCHANGED <<factory, declared, bot, initial, behavior, resetting, inside>>
  BY DEF Event, PluginCode, Calls, minds
<1>3. Rests(ctl, ctl', 0, 0)
  BY <1>1, <1>2, CallAlone
<1>4. ~Wanted(a) /\ ~Housed(a) /\ ~Held(a) /\ a \in live /\ pend[a] = None
  BY <1>1 DEF OwnInv, Owned, OwnedAt
<1>5. Housed(x) /\ ~Wanted(x) /\ ~Held(x) /\ x \notin loose /\ x \in live /\ x # a
  BY <1>1 DEF OwnInv, Owned, OwnedAt, Housed
<1>6. \A c \in Actions : c \in Pending({x}) <=> c = pend[x]
  BY <1>1 DEF Pending
<1>7. \A c \in Actions : c = pend[x] => Wanted(c) /\ ~Housed(c) /\ ~Held(c) /\ c \notin loose /\ pend[c] = None
  BY <1>1 DEF OwnInv, Owned, OwnedAt, Wanted
<1>8. \A c \in Actions : made'[c] = IF c = pend[x] THEN None ELSE made[c]
  BY <1>2, <1>6
<1>9. StackInv' /\ Minded' /\ Started' /\ Retired' /\ FactoryOutlivesActions'
  BY <1>1, <1>2, <1>3, <1>7, <1>8, QuietStep
<1>10. \A c : c \in live' <=> c \in live /\ c # pend[x]
  BY <1>8 DEF live
<1>11. \A c \in Actions : pend'[c] = IF c = x THEN a ELSE pend[c]
  BY <1>1, <1>2 DEF TypeOK
<1>12. \A c \in Actions : Wanted(c)' <=> (Wanted(c) /\ c # pend[x]) \/ c = a
  <2> SUFFICES ASSUME NEW c \in Actions
               PROVE  Wanted(c)' <=> (Wanted(c) /\ c # pend[x]) \/ c = a
    OBVIOUS
  <2>1. c = pend[x] /\ c # a => ~\E y \in Actions : pend'[y] = c
    BY <1>1, <1>11 DEF OwnInv, Apart
  <2>2. c # pend[x] /\ c # a => (Wanted(c) <=> \E y \in Actions : pend'[y] = c)
    BY <1>11 DEF Wanted
  <2>3. pend'[x] = a
    BY <1>1, <1>11
  <2> QED BY <1>1, <2>1, <2>2, <2>3 DEF Wanted
<1>13. OwnInv'
  <2>1. \A c : (Housed(c)' <=> Housed(c)) /\ (Held(c)' <=> Held(c))
    BY <1>2, <1>3, SamePlaces DEF Housed
  <2>2. Owned'
    <3> SUFFICES ASSUME NEW c \in Actions PROVE OwnedAt(c)'
      BY DEF Owned
    <3>1. OwnedAt(c)
      BY <1>1 DEF OwnInv, Owned
    <3>2. c \in loose' <=> c \in loose /\ c # a
      BY <1>2
    <3>3. c \in live' <=> c \in live /\ c # pend[x]
      BY <1>10
    <3> QED BY <1>4, <1>5, <1>7, <1>11, <1>12, <2>1, <3>1, <3>2, <3>3 DEF OwnedAt
  <2>3. Apart'
    <3>1. \A y, z \in Actions : pend'[y] # None /\ pend'[y] = pend'[z] => y = z
      <4>1. \A y \in Actions : pend[y] # a
        BY <1>4 DEF Wanted
      <4> QED BY <1>1, <1>11, <4>1 DEF OwnInv, Apart
    <3> QED BY <1>1, <1>2, <1>3, <3>1, SamePlaces DEF OwnInv, Apart, Same
  <2> QED BY <2>2, <2>3 DEF OwnInv
<1>14. Budget'
  BY <1>1, <1>2, <1>3, <1>10, SameMindless, BudgetShrinks
<1>15. TypeOK'
  <2>1. made' \in [Actions -> Factories \cup {None}]
    BY <1>1, <1>2 DEF TypeOK
  <2>2. pend' \in [Actions -> Actions \cup {None}]
    BY <1>1, <1>2 DEF TypeOK
  <2> QED BY <1>1, <1>2, <1>3, <2>1, <2>2 DEF TypeOK, Rests
<1>16. Severed'
  BY <1>1, <1>2 DEF Severed, Intentions
<1> QED BY <1>9, <1>13, <1>14, <1>15, <1>16 DEF IInv, RetireInv

\* between engine calls
LEMMA Idle ==
  ASSUME IInv, ctl = <<>>, UNCHANGED <<factory, declared, bot, initial, behavior, resetting, ctl>>
  PROVE  /\ Place = {} /\ Place' = {} /\ StackInv' /\ Started' /\ Retired' /\ Severed'
         /\ \A a : ~Held(a) /\ ~Held(a)'
         /\ \A b \in Bots : ~resetting[b]
<1>1. Place = {} /\ Place' = {}
  BY DEF Place
<1>2. Rests(ctl, ctl', 0, 0)
  BY StackAlone DEF IInv
<1>3. StackInv'
  BY <1>2, SameStack DEF IInv
<1>4. Started' /\ Retired' /\ \A a : ~Held(a) /\ ~Held(a)'
  BY <1>1 DEF Started, Retired, Held
<1>5. Severed'
  BY DEF IInv, RetireInv, Severed, Intentions
<1>6. \A b \in Bots : ~resetting[b]
  BY <1>1 DEF IInv, StackInv, Resets
<1> QED BY <1>1, <1>3, <1>4, <1>5, <1>6

\* an action joins a behaviour
LEMMA Joins ==
  ASSUME IInv, ctl = <<>>, NEW b \in Bots, behavior[b], bot[b] = "intention",
         NEW a \in Actions, inside' = [inside EXCEPT ![b] = @ \cup {a}],
         UNCHANGED <<factory, declared, bot, initial, behavior, resetting, made, ctl>>
  PROVE  /\ StackInv' /\ RetireInv' /\ Budget'
         /\ \A c \in Actions : Housed(c)' <=> Housed(c) \/ c = a
         /\ ~Housed(a) => \A c, d \in Bots : \A x \in inside'[c] : x \in inside'[d] => c = d
         /\ inside' \in [Bots -> SUBSET Actions]
<1>1. /\ Place = {} /\ Place' = {} /\ StackInv' /\ Started' /\ Retired' /\ Severed'
      /\ \A c \in Bots : ~resetting[c]
  BY Idle
<1>2. TypeOK /\ Minded /\ FactoryOutlivesActions /\ Budget /\ Apart
  BY DEF IInv, RetireInv, OwnInv
<1>3. /\ inside' \in [Bots -> SUBSET Actions]
      /\ \A c \in Bots : inside'[c] = IF c = b THEN inside[c] \cup {a} ELSE inside[c]
  BY <1>2 DEF TypeOK
<1>4. Minded'
  BY <1>1, <1>2, <1>3 DEF Minded
<1>5. FactoryOutlivesActions' /\ live' = live
  BY <1>2 DEF FactoryOutlivesActions, live
<1>6. Budget'
  <2>1. Mindless' \subseteq Mindless
    BY <1>3 DEF Mindless, Frames
  <2> QED BY <1>2, <1>5, <2>1, BudgetShrinks
<1>7. \A c \in Actions : Housed(c)' <=> Housed(c) \/ c = a
  BY <1>3 DEF Housed
<1>8. ~Housed(a) => \A c, d \in Bots : \A x \in inside'[c] : x \in inside'[d] => c = d
  BY <1>2, <1>3 DEF Apart, Housed
<1> QED BY <1>1, <1>3, <1>4, <1>5, <1>6, <1>7, <1>8 DEF RetireInv

\* StartPending keeps the invariant.
LEMMA StartPendingKeeps ==
  ASSUME IInv, NEW b \in Bots, NEW x \in inside[b], StartPending(b, x)
  PROVE  IInv'
<1> DEFINE a == pend[x]
<1>1. TypeOK /\ OwnInv /\ None \notin Actions /\ x \in Actions /\ bot[b] = "intention"
  BY ActionsFinite DEF IInv, RetireInv, Minded, TypeOK
<1>2. /\ ctl = <<>> /\ behavior[b] /\ a # None
      /\ inside' = [inside EXCEPT ![b] = @ \cup {a}]
      /\ pend' = [pend EXCEPT ![x] = None]
      /\ UNCHANGED <<factory, declared, bot, initial, behavior, resetting, made, loose, ctl>>
  BY DEF StartPending, minds, pool
<1>3. a \in Actions /\ Wanted(a)
  BY <1>1, <1>2 DEF TypeOK, Wanted
<1>4. ~Housed(a) /\ ~Held(a) /\ a \notin loose /\ a \in live /\ pend[a] = None
  BY <1>1, <1>3 DEF OwnInv, Owned, OwnedAt
<1>5. \A c \in Actions : pend'[c] = IF c = x THEN None ELSE pend[c]
  BY <1>1, <1>2 DEF TypeOK
<1>6. \A c \in Actions : Wanted(c)' <=> Wanted(c) /\ c # a
  BY <1>1, <1>5 DEF Wanted, OwnInv, Apart
<1> HIDE DEF a
<1>7. /\ StackInv' /\ RetireInv' /\ Budget'
      /\ \A c \in Actions : Housed(c)' <=> Housed(c) \/ c = a
      /\ \A c, d \in Bots : \A y \in inside'[c] : y \in inside'[d] => c = d
      /\ inside' \in [Bots -> SUBSET Actions]
  BY <1>1, <1>2, <1>3, <1>4, Joins
<1>8. OwnInv'
  <2>1. live' = live /\ \A c : Held(c)' <=> Held(c)
    BY <1>2 DEF live, Held, Place
  <2>2. Owned'
    BY <1>1, <1>2, <1>3, <1>4, <1>5, <1>6, <1>7, <2>1 DEF OwnInv, Owned, OwnedAt
  <2>3. Apart'
    BY <1>1, <1>2, <1>5, <1>7 DEF OwnInv, Apart, Place
  <2> QED BY <2>2, <2>3 DEF OwnInv
<1>9. TypeOK'
  BY <1>1, <1>2, <1>7 DEF TypeOK
<1> QED BY <1>7, <1>8, <1>9 DEF IInv

\* StartLoose keeps the invariant.
LEMMA StartLooseKeeps ==
  ASSUME IInv, NEW b \in Bots, NEW a \in loose, StartLoose(b, a)
  PROVE  IInv'
<1>1. TypeOK /\ OwnInv /\ a \in Actions
  BY DEF IInv, TypeOK
<1>2. /\ ctl = <<>> /\ behavior[b] /\ bot[b] = "intention"
      /\ inside' = [inside EXCEPT ![b] = @ \cup {a}]
      /\ loose' = loose \ {a}
      /\ UNCHANGED <<factory, declared, bot, initial, behavior, resetting, made, pend, ctl>>
  BY DEF StartLoose, minds, IInv, RetireInv, Minded
<1>4. ~Housed(a) /\ ~Held(a) /\ ~Wanted(a) /\ a \in live /\ pend[a] = None
  BY <1>1 DEF OwnInv, Owned, OwnedAt
<1>7. /\ StackInv' /\ RetireInv' /\ Budget'
      /\ \A c \in Actions : Housed(c)' <=> Housed(c) \/ c = a
      /\ \A c, d \in Bots : \A y \in inside'[c] : y \in inside'[d] => c = d
      /\ inside' \in [Bots -> SUBSET Actions]
  BY <1>1, <1>2, <1>4, Joins
<1>8. OwnInv'
  <2>1. /\ live' = live /\ \A c : (Held(c)' <=> Held(c)) /\ (Wanted(c)' <=> Wanted(c))
    BY <1>2 DEF live, Held, Place, Wanted
  <2>2. Owned'
    BY <1>1, <1>2, <1>4, <1>7, <2>1 DEF OwnInv, Owned, OwnedAt
  <2>3. Apart'
    BY <1>1, <1>2, <1>7 DEF OwnInv, Apart, Place
  <2> QED BY <2>2, <2>3 DEF OwnInv
<1>9. TypeOK'
  BY <1>1, <1>2, <1>7 DEF TypeOK
<1> QED BY <1>7, <1>8, <1>9 DEF IInv

\* As many actions go as bots are left without any.
LEMMA BudgetTrades ==
  ASSUME Budget, live' \subseteq live, NEW a \in live, a \notin live',
         NEW b, Mindless' \subseteq Mindless \cup {b}
  PROVE  Budget'
<1>1. live \subseteq Actions /\ Mindless \subseteq Bots
  BY DEF live, Mindless
<1>2. /\ IsFiniteSet(live) /\ IsFiniteSet(Mindless)
      /\ Cardinality(live) \in Nat /\ Cardinality(Mindless) \in Nat
      /\ Cardinality(Actions) \in Nat
  BY <1>1, ActionsFinite
<1>3. /\ IsFiniteSet(live \ {a}) /\ Cardinality(live \ {a}) = Cardinality(live) - 1
  BY <1>2, FS_RemoveElement
<1>4. Cardinality(live') <= Cardinality(live) - 1 /\ Cardinality(live') \in Nat
  <2>1. live' \subseteq live \ {a}
    OBVIOUS
  <2> QED BY <1>3, <2>1, FS_Subset, FS_CardinalityType
<1>5. IsFiniteSet(Mindless \cup {b}) /\ Cardinality(Mindless \cup {b}) <= Cardinality(Mindless) + 1
      /\ Cardinality(Mindless \cup {b}) \in Nat
  <2>1. /\ IsFiniteSet(Mindless \cup {b})
        /\ Cardinality(Mindless \cup {b}) = IF b \in Mindless THEN Cardinality(Mindless)
                                           ELSE Cardinality(Mindless) + 1
    BY <1>2, FS_AddElement
  <2> QED BY <1>2, <2>1
<1>6. Cardinality(Mindless') <= Cardinality(Mindless) + 1 /\ Cardinality(Mindless') \in Nat
  BY <1>5, FS_Subset, FS_CardinalityType
<1> QED BY <1>2, <1>4, <1>6 DEF Budget, Actions

\* Finish keeps the invariant.
LEMMA FinishKeeps ==
  ASSUME IInv, NEW b \in Bots, NEW as \in SUBSET inside[b], Finish(b, as)
  PROVE  IInv'
<1>1. TypeOK /\ OwnInv /\ Minded /\ FactoryOutlivesActions /\ Budget /\ as \in SUBSET Actions
  BY DEF IInv, RetireInv, TypeOK
<1>2. /\ ctl = <<>> /\ as # {} /\ Destroyed(as)
      /\ inside' = [inside EXCEPT ![b] = @ \ as]
      /\ UNCHANGED <<factory, declared, bot, initial, behavior, resetting, ctl>>
  BY DEF Finish, minds
<1>3. \A a \in as : Housed(a) /\ ~Wanted(a) /\ ~Held(a) /\ a \notin loose /\ a \in live
  BY <1>1 DEF OwnInv, Owned, OwnedAt, Housed
<1> DEFINE gone == Dead(as)
<1>4. /\ as \subseteq gone /\ gone \subseteq live
      /\ \A a \in gone : a \in as \/ Wanted(a)
      /\ \A a \in gone : a \in as \/ \E x \in as : pend[x] = a
      /\ loose' = loose \ gone /\ live' = live \ gone
      /\ made' \in [Actions -> Factories \cup {None}]
      /\ pend' \in [Actions -> Actions \cup {None}]
      /\ \A a \in Actions : made'[a] = IF a \in gone THEN None ELSE made[a]
      /\ \A a \in Actions : pend'[a] = IF a \in gone THEN None ELSE pend[a]
      /\ \A a \in Actions : Wanted(a)' <=> Wanted(a) /\ a \notin gone
  BY <1>1, <1>2, <1>3, DestroyedFacts
<1> HIDE DEF gone
<1>5. /\ Place = {} /\ Place' = {} /\ StackInv' /\ Started' /\ Retired' /\ Severed'
      /\ \A c \in Bots : ~resetting[c]
      /\ \A a : ~Held(a) /\ ~Held(a)'
  BY <1>2, Idle
<1>6. /\ inside' \in [Bots -> SUBSET Actions]
      /\ \A c \in Bots : inside'[c] = IF c = b THEN inside[c] \ as ELSE inside[c]
  BY <1>1, <1>2 DEF TypeOK
<1>7. Minded'
  BY <1>1, <1>2, <1>5, <1>6 DEF Minded
<1>8. FactoryOutlivesActions'
  BY <1>1, <1>2, <1>4 DEF FactoryOutlivesActions, live
<1>9. \A a \in Actions : Housed(a)' <=> Housed(a) /\ a \notin as
  <2>1. \A a \in as : \A c \in Bots : a \in inside[c] => c = b
    BY <1>1 DEF OwnInv, Apart
  <2> QED BY <1>6, <2>1 DEF Housed
<1>10. OwnInv'
  <2>1. Owned'
    <3> SUFFICES ASSUME NEW a \in Actions PROVE OwnedAt(a)'
      BY DEF Owned
    <3>1. OwnedAt(a) /\ (a \in loose' <=> a \in loose /\ a \notin gone) /\ (a \in live' <=> a \in live /\ a \notin gone)
      BY <1>1, <1>4 DEF OwnInv, Owned
    <3>2. Wanted(a) /\ ~Held(a) => ~Housed(a)
      BY <3>1 DEF OwnedAt
    <3>3. pend'[a] # None => Housed(a)'
      BY <1>4, <1>5, <1>9, <3>1 DEF OwnedAt
    <3> QED BY <1>3, <1>4, <1>5, <1>9, <3>1, <3>3 DEF OwnedAt
  <2>2. Apart'
    <3>1. \A c, d \in Bots : \A a \in inside'[c] : a \in inside'[d] => c = d
      BY <1>1, <1>6 DEF OwnInv, Apart
    <3>2. \A x, y \in Actions : pend'[x] # None /\ pend'[x] = pend'[y] => x = y
      BY <1>1, <1>4 DEF OwnInv, Apart
    <3> QED BY <1>5, <3>1, <3>2 DEF Apart
  <2> QED BY <2>1, <2>2 DEF OwnInv
<1>11. Budget'
  <2>1. PICK a \in as : TRUE
    BY <1>2
  <2>2. a \in live /\ a \notin live' /\ live' \subseteq live
    BY <1>3, <1>4
  <2>3. Mindless' \subseteq Mindless \cup {b}
    <3>1. Frames' = Frames
      BY <1>2 DEF Frames
    <3>2. \A c \in Bots : c # b => inside'[c] = inside[c]
      BY <1>6
    <3> QED BY <3>1, <3>2 DEF Mindless
  <2> QED BY <1>1, <2>2, <2>3, BudgetTrades
<1>12. TypeOK'
  BY <1>1, <1>2, <1>4, <1>6 DEF TypeOK
<1> QED BY <1>5, <1>7, <1>8, <1>10, <1>11, <1>12 DEF IInv, RetireInv

\* The innermost frame.
LEMMA TopFrame ==
  ASSUME TypeOK, ctl # <<>>
  PROVE  /\ Top = ctl[1] /\ 1 \in Place /\ Len(ctl) > 0 /\ Len(ctl) \in Nat /\ ctl[1] \in Frame
         /\ Top.as \subseteq Actions
<1>1. Top = ctl[1] /\ 1 \in Place /\ Len(ctl) > 0 /\ Len(ctl) \in Nat /\ ctl[1] \in Frame
  BY DEF TypeOK, Top, Place
<1> QED BY <1>1 DEF Frame

\* a frame returns
LEMMA Pops ==
  ASSUME TypeOK, ctl # <<>>, Becomes(<<>>)
  PROVE  Rests(ctl, ctl', 0, 1)
<1>1. Len(<<>>) = 0 /\ <<>> \in Seq(Frame)
  OBVIOUS
<1> QED BY <1>1, BecomesRest DEF Becomes

\* The frames after a return, and the actions they hold.
LEMMA PoppedPlaces ==
  ASSUME IInv, ctl # <<>>, Rests(ctl, ctl', 0, 1)
  PROVE  /\ \A k \in Place' : k + 1 \in Place /\ k + 1 > 1 /\ Same(ctl'[k], ctl[k + 1])
         /\ \A a : Held(a)' <=> \E i \in Place : i > 1 /\ a \in ctl[i].as
         /\ \A a : Held(a)' <=> Held(a) /\ a \notin ctl[1].as
         /\ \A j, k \in Place' : \A a \in ctl'[j].as : a \in ctl'[k].as => j = k
<1>1. ASSUME NEW k \in Place'
      PROVE  k + 1 \in Place /\ k + 1 > 1 /\ Same(ctl'[k], ctl[k + 1])
  <2>1. k > 0 /\ k \in Int
    BY DEF Place
  <2>2. PICK i \in Place : i > 1 /\ k = i + 0 - 1 /\ Same(ctl'[k], ctl[i])
    BY <2>1, Places
  <2>3. i = k + 1
    BY <2>1, <2>2 DEF Place
  <2> QED BY <2>2, <2>3
<1>2. \A i \in Place : i > 1 => \E k \in Place' : Same(ctl'[k], ctl[i])
  BY Places
<1>3. \A a : Held(a)' <=> \E i \in Place : i > 1 /\ a \in ctl[i].as
  BY <1>1, <1>2 DEF Held, Same
<1>4. /\ \A i, k \in Place : \A a \in ctl[i].as : a \in ctl[k].as => i = k
      /\ 1 \in Place
  BY TopFrame DEF IInv, OwnInv, Apart
<1>5. \A i \in Place : i > 1 \/ i = 1
  BY DEF Place
<1>6. \A a : Held(a)' <=> Held(a) /\ a \notin ctl[1].as
  <2>1. \A i \in Place : i > 1 => i # 1
    BY DEF Place
  <2>2. \A a : (\E i \in Place : i > 1 /\ a \in ctl[i].as) => Held(a) /\ a \notin ctl[1].as
    BY <1>4, <2>1 DEF Held
  <2>3. \A a : Held(a) /\ a \notin ctl[1].as => \E i \in Place : i > 1 /\ a \in ctl[i].as
    BY <1>5 DEF Held
  <2> QED BY <1>3, <2>2, <2>3
<1>7. ASSUME NEW j \in Place', NEW k \in Place', NEW a \in ctl'[j].as, a \in ctl'[k].as
      PROVE  j = k
  <2>1. j + 1 = k + 1
    BY <1>1, <1>4, <1>7 DEF Same
  <2> QED BY <2>1 DEF Place
<1> QED BY <1>1, <1>3, <1>6, <1>7

\* A return that at most deletes actions no call holds keeps the stack and the retirements.
LEMMA PopQuiet ==
  ASSUME IInv, ctl # <<>>, Rests(ctl, ctl', 0, 1), ctl[1].op # "endReset",
         ctl[1].op = "reset" => resetting[ctl[1].b],
         UNCHANGED <<factory, declared, bot, initial, resetting, inside>>,
         \A b \in Bots : inside[b] # {} => behavior'[b],
         \A a \in Actions : made'[a] # made[a] => made'[a] = None /\ ~Held(a)'
  PROVE  StackInv' /\ RetireInv' /\ live' \subseteq live
<1>1. TypeOK /\ StackInv /\ Minded /\ Started /\ Retired /\ FactoryOutlivesActions /\ Severed
  BY DEF IInv, RetireInv
<1>2. 1 \in Place /\ Len(ctl) > 0
  BY <1>1, TopFrame
<1>3. StackInv'
  BY <1>1, <1>2, PoppedStack DEF Unmoved
<1>4. /\ \A k \in Place' : k + 1 \in Place /\ k + 1 > 1 /\ Same(ctl'[k], ctl[k + 1])
      /\ \A k \in Place' : \A a \in ctl'[k].as : Held(a)'
  BY PoppedPlaces DEF Held
<1>5. \A b \in Bots : ~(resetting[b] /\ inside[b] # {})
  BY <1>1 DEF Minded
<1>6. Minded'
  BY <1>1, <1>4, <1>5 DEF Minded, Same
<1>7. ctl' \in Seq(Frame) /\ \A k \in Place' : ctl'[k].as \subseteq Actions
  BY NextFramesAre DEF Rests
<1>8. \A k \in Place' : \A a \in ctl'[k].as : a \in Actions /\ made'[a] = made[a]
  BY <1>4, <1>7
<1>9. Started'
  BY <1>1, <1>4, <1>8 DEF Started, Same
<1>10. Severed'
  BY <1>1 DEF Severed, Intentions
<1>11. FactoryOutlivesActions' /\ live' \subseteq live
  BY <1>1 DEF FactoryOutlivesActions, live
<1>12. Retired'
  <2> SUFFICES ASSUME NEW k \in Place', ctl'[k].op \in Retiring
               PROVE  /\ \A b \in Bots : \A a \in inside[b] : made'[a] = ctl'[k].f => b \in ctl'[k].bs
                      /\ \A j \in Place' : \A a \in ctl'[j].as : made'[a] = ctl'[k].f => j < k
    BY DEF Retired
  <2>1. k + 1 \in Place /\ Same(ctl'[k], ctl[k + 1]) /\ ctl[k + 1].op \in Retiring /\ ctl'[k].f # None
    BY <1>1, <1>4, ConstantsOK DEF Same, StackInv, FramesFit, FitAt
  <2>2. ASSUME NEW b \in Bots, NEW a \in inside[b], made'[a] = ctl'[k].f
        PROVE  b \in ctl'[k].bs
    <3>1. made[a] = ctl[k + 1].f
      BY <1>1, <2>1, <2>2 DEF Same, TypeOK
    <3>2. b \in ctl[k + 1].bs \/ (ctl[1].op = "reset" /\ ctl[1].b = b)
      BY <1>1, <2>1, <3>1 DEF Retired
    <3> QED BY <1>5, <2>1, <3>2 DEF Same
  <2>3. ASSUME NEW j \in Place', NEW a \in ctl'[j].as, made'[a] = ctl'[k].f
        PROVE  j < k
    <3>1. j + 1 \in Place /\ a \in ctl[j + 1].as /\ made[a] = ctl[k + 1].f
      BY <1>4, <1>8, <2>1, <2>3 DEF Same
    <3>2. j + 1 < k + 1
      BY <1>1, <2>1, <3>1 DEF Retired
    <3> QED BY <3>2 DEF Place
  <2> QED BY <2>2, <2>3
<1> QED BY <1>3, <1>6, <1>9, <1>10, <1>11, <1>12 DEF RetireInv

\* Nothing that is held by the frame that returns.
LEMMA PopNothing ==
  ASSUME IInv, ctl # <<>>, Rests(ctl, ctl', 0, 1), ctl[1].as = {}, 
         UNCHANGED <<inside, made, pend, loose>>
  PROVE  OwnInv' /\ Budget'
<1>1. TypeOK /\ OwnInv /\ Budget
  BY DEF IInv
<1>2. /\ \A a : Held(a)' <=> Held(a)
      /\ \A j, k \in Place' : \A a \in ctl'[j].as : a \in ctl'[k].as => j = k
  BY PoppedPlaces
<1>3. live' = live /\ \A a : (Housed(a)' <=> Housed(a)) /\ (Wanted(a)' <=> Wanted(a))
  BY DEF live, Housed, Wanted
<1>4. OwnInv'
  BY <1>1, <1>2, <1>3 DEF OwnInv, Owned, OwnedAt, Apart
<1>5. Mindless' \subseteq Mindless
  <2>1. ctl' \in Seq(Frame)
    BY DEF Rests
  <2>2. ASSUME NEW b \in Bots, b \in Mindless' PROVE b \in Mindless
    <3>1. \A i \in Place : i > 1 => \E k \in Place' : Same(ctl'[k], ctl[i])
      BY Places
    <3>2. \A i \in Place : i > 1 /\ ctl[i].b = b => ctl[i].as = {}
      BY <2>1, <2>2, <3>1, NextFramesAre DEF Same
    <3>3. \A i \in Place : i > 1 \/ i = 1
      BY DEF Place
    <3> QED BY <1>1, <2>1, <2>2, <3>2, <3>3, FramesAre, NextFramesAre
  <2> QED BY <2>2 DEF Mindless
<1> QED BY <1>1, <1>3, <1>4, <1>5, BudgetShrinks

\* Return keeps the invariant.
LEMMA ReturnKeeps ==
  ASSUME IInv, Return
  PROVE  IInv'
<1>1. /\ TypeOK /\ ctl # <<>> /\ Top.op = "attachBot" /\ Becomes(<<>>)
      /\ UNCHANGED <<factory, declared, bot, initial, behavior, resetting, inside, made, loose, pend>>
  BY DEF Return, Running, IInv, minds, pool
<1>2. Rests(ctl, ctl', 0, 1) /\ ctl[1].op = "attachBot" /\ 1 \in Place
  BY <1>1, Pops, TopFrame
<1>3. ctl[1].as = {}
  BY <1>2 DEF IInv, StackInv, FramesFit, FitAt
<1>4. OwnInv' /\ Budget'
  BY <1>1, <1>2, <1>3, PopNothing
<1>5. StackInv' /\ RetireInv'
  BY <1>1, <1>2, PopQuiet DEF IInv, RetireInv, Minded
<1>6. TypeOK'
  BY <1>1, <1>2 DEF TypeOK, Rests
<1> QED BY <1>4, <1>5, <1>6 DEF IInv

\* DeleteBehavior keeps the invariant.
LEMMA DeleteBehaviorKeeps ==
  ASSUME IInv, DeleteBehavior
  PROVE  IInv'
<1> DEFINE as == Top.as
<1>1. /\ TypeOK /\ OwnInv /\ Budget /\ ctl # <<>> /\ Top.op = "onEnd"
      /\ Becomes(<<>>) /\ Destroyed(as)
      /\ UNCHANGED <<factory, declared, bot, initial, behavior, resetting, inside>>
  BY DEF DeleteBehavior, Running, IInv, minds
<1>2. /\ Rests(ctl, ctl', 0, 1) /\ ctl[1].op = "onEnd" /\ 1 \in Place
      /\ as = ctl[1].as /\ as \in SUBSET Actions
  BY <1>1, Pops, TopFrame
<1> DEFINE gone == Dead(as)
<1> HIDE DEF as
<1>3. \A a \in as : Held(a) /\ ~Wanted(a) /\ ~Housed(a) /\ a \notin loose /\ a \in live
  BY <1>1, <1>2 DEF OwnInv, Owned, OwnedAt, Held
<1>4. /\ as \subseteq gone /\ gone \subseteq live
      /\ \A a \in gone : a \in as \/ Wanted(a)
      /\ \A a \in gone : a \in as \/ \E x \in as : pend[x] = a
      /\ loose' = loose \ gone /\ live' = live \ gone
      /\ made' \in [Actions -> Factories \cup {None}]
      /\ pend' \in [Actions -> Actions \cup {None}]
      /\ \A a \in Actions : made'[a] = IF a \in gone THEN None ELSE made[a]
      /\ \A a \in Actions : pend'[a] = IF a \in gone THEN None ELSE pend[a]
      /\ \A a \in Actions : Wanted(a)' <=> Wanted(a) /\ a \notin gone
  BY <1>1, <1>2, <1>3, DestroyedFacts
<1> HIDE DEF gone
<1>5. /\ \A a : Held(a)' <=> Held(a) /\ a \notin as
      /\ \A j, k \in Place' : \A a \in ctl'[j].as : a \in ctl'[k].as => j = k
  BY <1>1, <1>2, PoppedPlaces
<1>6. \A a : Housed(a)' <=> Housed(a)
  BY <1>1 DEF Housed
<1>7. \A a \in gone : ~Housed(a) /\ ~Held(a)' /\ a \in Actions
  BY <1>1, <1>3, <1>4, <1>5 DEF OwnInv, Owned, OwnedAt, live
<1>8. StackInv' /\ RetireInv'
  BY <1>1, <1>2, <1>4, <1>7, PopQuiet DEF IInv, RetireInv, Minded
<1>9. OwnInv'
  <2>1. Owned'
    <3> SUFFICES ASSUME NEW a \in Actions PROVE OwnedAt(a)'
      BY DEF Owned
    <3>1. OwnedAt(a) /\ (a \in loose' <=> a \in loose /\ a \notin gone) /\ (a \in live' <=> a \in live /\ a \notin gone)
      BY <1>1, <1>4 DEF OwnInv, Owned
    <3>2. pend'[a] # None => Housed(a)' \/ Held(a)'
      BY <1>4, <1>5, <1>6, <3>1 DEF OwnedAt
    <3> QED BY <1>3, <1>4, <1>5, <1>6, <1>7, <3>1, <3>2 DEF OwnedAt
  <2>2. Apart'
    <3>2. \A x, y \in Actions : pend'[x] # None /\ pend'[x] = pend'[y] => x = y
      BY <1>1, <1>4 DEF OwnInv, Apart
    <3> QED BY <1>1, <1>5, <3>2 DEF OwnInv, Apart
  <2> QED BY <2>1, <2>2 DEF OwnInv
<1>10. Budget'
  <2>1. Mindless' \subseteq Mindless \cup {ctl[1].b} /\ (as = {} => Mindless' \subseteq Mindless)
    <3>1. ctl' \in Seq(Frame)
      BY <1>2 DEF Rests
    <3>2. ASSUME NEW b \in Bots, b \in Mindless', b # ctl[1].b \/ as = {} PROVE b \in Mindless
      <4>1. \A i \in Place : i > 1 => \E k \in Place' : Same(ctl'[k], ctl[i])
        BY <1>2, Places
      <4>2. \A i \in Place : i > 1 /\ ctl[i].b = b => ctl[i].as = {}
        BY <3>1, <3>2, <4>1, NextFramesAre DEF Same
      <4>3. \A i \in Place : i > 1 \/ i = 1
        BY DEF Place
      <4>4. inside[b] = {}
        BY <1>1, <3>1, <3>2, NextFramesAre
      <4> QED BY <1>1, <1>2, <3>2, <4>2, <4>3, <4>4, FramesAre
    <3> QED BY <3>2 DEF Mindless
  <2>2. live' \subseteq live /\ \A a \in as : a \in live /\ a \notin live'
    BY <1>3, <1>4
  <2>3. CASE as = {}
    BY <1>1, <2>1, <2>2, <2>3, BudgetShrinks
  <2>4. CASE as # {}
    <3>1. PICK a \in as : TRUE
      BY <2>4
    <3> QED BY <1>1, <2>1, <2>2, <3>1, BudgetTrades
  <2> QED BY <2>3, <2>4
<1>11. TypeOK'
  BY <1>1, <1>2, <1>4 DEF TypeOK, Rests
<1> QED BY <1>8, <1>9, <1>10, <1>11 DEF IInv

\* A return that gives bots only actions of living factories keeps what retirements rely on.
LEMMA PopRetire ==
  ASSUME IInv, ctl # <<>>, Rests(ctl, ctl', 0, 1),
         \A i \in Place : i > 1 /\ ctl[i].op = "initialAction" =>
           initial'[ctl[i].b] = initial[ctl[i].b],
         \A a \in Actions : made'[a] # made[a] => made'[a] = None /\ ~Held(a)',
         \A b \in Bots : \A a \in inside'[b] :
           /\ a \in Actions
           /\ \/ a \in inside[b] /\ ~(ctl[1].op = "reset" /\ ctl[1].b = b)
              \/ factory[made[a]] = "alive"
  PROVE  Started' /\ Retired'
<1>1. TypeOK /\ StackInv /\ Started /\ Retired
  BY DEF IInv, RetireInv
<1>4. /\ \A k \in Place' : k + 1 \in Place /\ k + 1 > 1 /\ Same(ctl'[k], ctl[k + 1])
      /\ \A k \in Place' : \A a \in ctl'[k].as : Held(a)'
  BY PoppedPlaces DEF Held
<1>7. ctl' \in Seq(Frame) /\ \A k \in Place' : ctl'[k].as \subseteq Actions
  BY NextFramesAre DEF Rests
<1>8. \A k \in Place' : \A a \in ctl'[k].as : a \in Actions /\ made'[a] = made[a]
  BY <1>4, <1>7
<1>9. Started'
  BY <1>1, <1>4, <1>8 DEF Started, Same
<1>12. Retired'
  <2> SUFFICES ASSUME NEW k \in Place', ctl'[k].op \in Retiring
               PROVE  /\ \A b \in Bots : \A a \in inside'[b] : made'[a] = ctl'[k].f => b \in ctl'[k].bs
                      /\ \A j \in Place' : \A a \in ctl'[j].as : made'[a] = ctl'[k].f => j < k
    BY DEF Retired
  <2>1. /\ k + 1 \in Place /\ Same(ctl'[k], ctl[k + 1]) /\ ctl[k + 1].op \in Retiring
        /\ ctl'[k].f # None /\ factory[ctl'[k].f] = "destroying"
    BY <1>1, <1>4, ConstantsOK DEF Same, StackInv, FramesFit, FitAt
  <2>2. ASSUME NEW b \in Bots, NEW a \in inside'[b], made'[a] = ctl'[k].f
        PROVE  b \in ctl'[k].bs
    <3>1. made[a] = ctl[k + 1].f /\ factory[made[a]] = "destroying"
      BY <1>1, <2>1, <2>2 DEF Same, TypeOK
    <3>2. a \in inside[b] /\ ~(ctl[1].op = "reset" /\ ctl[1].b = b)
      BY <3>1
    <3>3. b \in ctl[k + 1].bs
      BY <1>1, <2>1, <3>1, <3>2 DEF Retired
    <3> QED BY <2>1, <3>3 DEF Same
  <2>3. ASSUME NEW j \in Place', NEW a \in ctl'[j].as, made'[a] = ctl'[k].f
        PROVE  j < k
    <3>1. j + 1 \in Place /\ a \in ctl[j + 1].as /\ made[a] = ctl[k + 1].f
      BY <1>4, <1>8, <2>1, <2>3 DEF Same
    <3>2. j + 1 < k + 1
      BY <1>1, <2>1, <3>1 DEF Retired
    <3> QED BY <3>2 DEF Place
  <2> QED BY <2>2, <2>3
<1> QED BY <1>9, <1>12

\* ResetEnd keeps the invariant.
LEMMA ResetEndKeeps ==
  ASSUME IInv, ResetEnd
  PROVE  IInv'
<1> DEFINE b == ctl[1].b
<1>1. /\ TypeOK /\ StackInv /\ Minded /\ Severed /\ FactoryOutlivesActions
      /\ ctl # <<>> /\ Top.op = "endReset" /\ Becomes(<<>>)
      /\ resetting' = [resetting EXCEPT ![Top.b] = FALSE]
      /\ UNCHANGED <<factory, declared, bot, initial, behavior, inside, made, loose, pend>>
  BY DEF ResetEnd, Running, IInv, RetireInv, pool
<1>2. Rests(ctl, ctl', 0, 1) /\ Top = ctl[1] /\ ctl[1].op = "endReset" /\ 1 \in Place /\ Len(ctl) > 0
  BY <1>1, Pops, TopFrame
<1>3. ctl[1].as = {} /\ b \in Bots /\ resetting[b]
  BY <1>1, <1>2 DEF StackInv, FramesFit, FitAt, Resets
<1>4. OwnInv' /\ Budget'
  BY <1>1, <1>2, <1>3, PopNothing
<1>5. \A c \in Bots : resetting'[c] = IF c = b THEN FALSE ELSE resetting[c]
  BY <1>1, <1>2 DEF TypeOK
<1>6. \A i \in Place : i > 1 => Unmoved(i)
  <2> SUFFICES ASSUME NEW i \in Place, i > 1, ctl[i].op \in Starting
               PROVE  resetting'[ctl[i].b] = resetting[ctl[i].b]
    BY <1>1 DEF Unmoved
  <2>1. ctl[i].b \in Bots
    BY <1>1 DEF StackInv, FramesFit, FitAt
  <2>2. ASSUME ctl[i].b = b PROVE FALSE
    <3>1. i + 1 \in Place /\ ctl[i + 1].b = b /\ ctl[i + 1].op = "endReset"
      BY <1>1, <1>3, <2>2 DEF StackInv, Nested, Below
    <3>2. i + 1 = 1
      BY <1>1, <1>2, <3>1 DEF StackInv, Single
    <3> QED BY <3>2 DEF Place
  <2> QED BY <1>5, <2>1, <2>2
<1>7. StackInv'
  BY <1>1, <1>2, <1>5, <1>6, PoppedStack
<1>8. Started' /\ Retired'
  BY <1>1, <1>2, PopRetire DEF TypeOK
<1>9. Minded'
  <2>1. \A c \in Bots : ~(resetting'[c] /\ inside'[c] # {})
    BY <1>1, <1>2, <1>5 DEF Minded
  <2>2. \A k \in Place' : k + 1 \in Place /\ Same(ctl'[k], ctl[k + 1])
    BY <1>1, <1>2, PoppedPlaces
  <2> QED BY <1>1, <2>1, <2>2 DEF Minded, Same
<1>10. Severed' /\ FactoryOutlivesActions'
  BY <1>1 DEF Severed, Intentions, FactoryOutlivesActions, live
<1>11. TypeOK'
  BY <1>1, <1>2 DEF TypeOK, Rests
<1> QED BY <1>4, <1>7, <1>8, <1>9, <1>10, <1>11 DEF IInv, RetireInv

\* Free keeps the invariant.
LEMMA FreeKeeps ==
  ASSUME IInv, Free
  PROVE  IInv'
<1> DEFINE b == ctl[1].b
<1>1. /\ TypeOK /\ StackInv /\ Minded /\ Severed /\ FactoryOutlivesActions
      /\ ctl # <<>> /\ Top.op = "free" /\ Becomes(<<>>)
      /\ bot' = [bot EXCEPT ![Top.b] = "none"]
      /\ initial' = [initial EXCEPT ![Top.b] = None]
      /\ UNCHANGED <<factory, declared, behavior, resetting, inside, made, loose, pend>>
  BY DEF Free, Running, IInv, RetireInv, pool
<1>2. Rests(ctl, ctl', 0, 1) /\ Top = ctl[1] /\ ctl[1].op = "free" /\ 1 \in Place /\ Len(ctl) > 0
  BY <1>1, Pops, TopFrame
<1>3. ctl[1].as = {} /\ b \in Bots /\ bot[b] = "removing"
  BY <1>1, <1>2 DEF StackInv, FramesFit, FitAt
<1>4. OwnInv' /\ Budget'
  BY <1>1, <1>2, <1>3, PopNothing
<1>5. \A c \in Bots : /\ bot'[c] = IF c = b THEN "none" ELSE bot[c]
                      /\ initial'[c] = IF c = b THEN None ELSE initial[c]
  BY <1>1, <1>2 DEF TypeOK
<1>6. \A i \in Place : i > 1 => Unmoved(i)
  <2> SUFFICES ASSUME NEW i \in Place, i > 1,
                      ctl[i].op \in {"attachBot", "construct", "reset", "endReset", "free"} \cup Starting
               PROVE  bot'[ctl[i].b] = bot[ctl[i].b]
    BY <1>1 DEF Unmoved
  <2>1. FitAt(i)
    BY <1>1 DEF StackInv, FramesFit
  <2>2. ctl[i].b \in Bots /\ (ctl[i].b = b => ctl[i].op = "free")
    BY <1>3, <2>1 DEF FitAt
  <2>3. ctl[i].b # b
    BY <1>1, <1>2, <2>2 DEF StackInv, Single, Place
  <2> QED BY <1>5, <2>2, <2>3
<1>7. StackInv'
  BY <1>1, <1>2, <1>6, PoppedStack
<1>8. Started' /\ Retired'
  <2>1. \A i \in Place : ctl[i].op = "initialAction" => initial'[ctl[i].b] = initial[ctl[i].b]
    BY <1>1, <1>3, <1>5 DEF StackInv, FramesFit, FitAt, Starting
  <2> QED BY <1>1, <1>2, <2>1, PopRetire DEF TypeOK
<1>9. Minded'
  <2>1. \A c \in Bots : inside'[c] # {} => behavior'[c] /\ bot'[c] = "intention"
    BY <1>1, <1>3, <1>5 DEF Minded
  <2>2. \A c \in Bots : ~(resetting'[c] /\ inside'[c] # {})
    BY <1>1, <1>2 DEF Minded
  <2>3. \A k \in Place' : k + 1 \in Place /\ Same(ctl'[k], ctl[k + 1])
    BY <1>1, <1>2, PoppedPlaces
  <2> QED BY <1>1, <2>1, <2>2, <2>3 DEF Minded, Same
<1>10. Severed' /\ FactoryOutlivesActions'
  BY <1>1, <1>5 DEF Severed, Intentions, FactoryOutlivesActions, live
<1>11. TypeOK'
  BY <1>1, <1>2 DEF TypeOK, Rests
<1> QED BY <1>4, <1>7, <1>8, <1>9, <1>10, <1>11 DEF IInv, RetireInv

\* Adopt keeps the invariant: the actions of the call become the bot's.
LEMMA AdoptKeeps ==
  ASSUME IInv, Adopt
  PROVE  IInv'
<1> DEFINE b == ctl[1].b
           as == ctl[1].as
<1>1. /\ TypeOK /\ StackInv /\ Minded /\ Started /\ Severed /\ FactoryOutlivesActions /\ OwnInv /\ Budget
      /\ ctl # <<>> /\ Top.op = "initialAction" /\ Becomes(<<>>)
      /\ behavior' = [behavior EXCEPT ![Top.b] = TRUE]
      /\ inside' = [inside EXCEPT ![Top.b] = Top.as]
      /\ UNCHANGED <<factory, declared, bot, initial, resetting, made, loose, pend>>
  BY DEF Adopt, Running, IInv, RetireInv, pool
<1>2. /\ Rests(ctl, ctl', 0, 1) /\ Top = ctl[1] /\ ctl[1].op = "initialAction"
      /\ 1 \in Place /\ Len(ctl) > 0 /\ as \subseteq Actions
  BY <1>1, Pops, TopFrame
<1>3. b \in Bots /\ bot[b] = "intention" /\ inside[b] = {} /\ as # {}
  BY <1>1, <1>2 DEF StackInv, FramesFit, FitAt, Starting, Minded, Started
<1>4. \A a \in as : /\ Held(a) /\ ~Housed(a) /\ ~Wanted(a) /\ a \notin loose
                    /\ made[a] # None /\ factory[made[a]] = "alive"
  <2>1. \A a \in as : Held(a) /\ ~Housed(a) /\ ~Wanted(a) /\ a \notin loose /\ a \in live
    BY <1>1, <1>2 DEF OwnInv, Owned, OwnedAt, Held
  <2>2. \A a \in as : made[a] = initial[b] /\ made[a] # None
    BY <1>1, <1>2, <2>1 DEF Started, live
  <2>3. \A a \in as : factory[made[a]] = "alive"
    BY <1>1, <1>3, <2>2 DEF Severed, Intentions
  <2> QED BY <2>1, <2>2, <2>3
<1>5. /\ inside' \in [Bots -> SUBSET Actions] /\ behavior' \in [Bots -> BOOLEAN]
      /\ \A c \in Bots : inside'[c] = IF c = b THEN as ELSE inside[c]
      /\ \A c \in Bots : behavior'[c] = IF c = b THEN TRUE ELSE behavior[c]
  BY <1>1, <1>2, <1>3 DEF TypeOK
<1>6. /\ \A a : Held(a)' <=> Held(a) /\ a \notin as
      /\ \A j, k \in Place' : \A a \in ctl'[j].as : a \in ctl'[k].as => j = k
      /\ \A k \in Place' : k + 1 \in Place /\ k + 1 > 1 /\ Same(ctl'[k], ctl[k + 1])
  BY <1>1, <1>2, PoppedPlaces
<1>7. StackInv'
  BY <1>1, <1>2, PoppedStack DEF Unmoved
<1>8. Started' /\ Retired'
  <2>1. \A c \in Bots : \A a \in inside'[c] :
           /\ a \in Actions
           /\ \/ a \in inside[c] /\ ~(ctl[1].op = "reset" /\ ctl[1].b = c)
              \/ factory[made[a]] = "alive"
    BY <1>2, <1>4, <1>5
  <2> QED BY <1>1, <1>2, <2>1, PopRetire
<1>9. Minded'
  <2>1. \A c \in Bots : inside'[c] # {} => behavior'[c] /\ bot'[c] = "intention"
    BY <1>1, <1>3, <1>5 DEF Minded
  <2>2. ASSUME NEW k \in Place', ctl'[k].op \in Starting PROVE inside'[ctl'[k].b] = {}
    <3>1. ctl[k + 1].op \in Starting /\ k + 1 \in Place /\ k + 1 # 1 /\ ctl[k + 1].b = ctl'[k].b
      BY <1>6, <2>2 DEF Same, Place
    <3>2. ctl'[k].b # b /\ ctl'[k].b \in Bots
      BY <1>1, <1>2, <3>1 DEF StackInv, Single, Starting, FramesFit, FitAt
    <3> QED BY <1>1, <1>5, <3>1, <3>2 DEF Minded
  <2>3. ASSUME NEW c \in Bots, resetting'[c], inside'[c] # {}
        PROVE  Len(ctl') > 0 /\ ctl'[1].op = "endReset" /\ ctl'[1].b = c
    <3>1. c = b
      BY <1>1, <1>2, <1>5, <2>3 DEF Minded
    <3>2. 2 \in Place /\ ctl[2].op = "endReset" /\ ctl[2].b = b
      BY <1>1, <1>2, <2>3, <3>1 DEF StackInv, Nested, Below, Starting
    <3>3. 1 \in Place' /\ Len(ctl') > 0
      BY <1>2, <3>2 DEF Rests, Place
    <3>4. Same(ctl'[1], ctl[2])
      BY <1>6, <3>3
    <3> QED BY <3>1, <3>2, <3>3, <3>4 DEF Same
  <2> QED BY <2>1, <2>2, <2>3 DEF Minded
<1>10. Severed' /\ FactoryOutlivesActions'
  BY <1>1 DEF Severed, Intentions, FactoryOutlivesActions, live
<1>11. OwnInv'
  <2>1. \A a : Housed(a)' <=> Housed(a) \/ a \in as
    BY <1>3, <1>5 DEF Housed
  <2>2. live' = live /\ \A a : Wanted(a)' <=> Wanted(a)
    BY <1>1 DEF live, Wanted
  <2>3. Owned'
    <3> SUFFICES ASSUME NEW a \in Actions PROVE OwnedAt(a)'
      BY DEF Owned
    <3>1. OwnedAt(a)
      BY <1>1 DEF OwnInv, Owned
    <3> QED BY <1>1, <1>4, <1>6, <2>1, <2>2, <3>1 DEF OwnedAt
  <2>4. Apart'
    <3>1. \A c, d \in Bots : \A a \in inside'[c] : a \in inside'[d] => c = d
      BY <1>1, <1>4, <1>5 DEF OwnInv, Apart, Housed
    <3> QED BY <1>1, <1>6, <3>1 DEF OwnInv, Apart
  <2> QED BY <2>3, <2>4 DEF OwnInv
<1>12. Budget'
  <2>1. live' = live
    BY <1>1 DEF live
  <2>2. ASSUME NEW c \in Bots, c \in Mindless' PROVE c \in Mindless
    <3>1. ctl' \in Seq(Frame)
      BY <1>2 DEF Rests
    <3>2. \A i \in Place : i > 1 => \E k \in Place' : Same(ctl'[k], ctl[i])
      BY <1>2, Places
    <3>3. \A i \in Place : i > 1 /\ ctl[i].b = c => ctl[i].as = {}
      BY <2>2, <3>1, <3>2, NextFramesAre DEF Same
    <3>4. \A i \in Place : i > 1 \/ i = 1
      BY DEF Place
    <3>5. inside'[c] = {} /\ c # b /\ inside[c] = {}
      BY <1>3, <1>5, <2>2, <3>1, NextFramesAre
    <3> QED BY <1>1, <3>3, <3>4, <3>5, FramesAre
  <2>3. Mindless' \subseteq Mindless
    BY <2>2 DEF Mindless
  <2> QED BY <1>1, <2>1, <2>3, BudgetShrinks
<1>13. TypeOK'
  BY <1>1, <1>2, <1>5 DEF TypeOK, Rests
<1> QED BY <1>7, <1>8, <1>9, <1>10, <1>11, <1>12, <1>13 DEF IInv, RetireInv

\* Started and Retired at k.
StartedAt(k) ==
  ctl[k].op = "initialAction" =>
    ctl[k].as # {} /\ \A a \in ctl[k].as : made[a] = initial[ctl[k].b]

RetiredAt(k) ==
  ctl[k].op \in Retiring =>
    /\ \A b \in Bots : \A a \in inside[b] : made[a] = ctl[k].f =>
         b \in ctl[k].bs \/ (ctl[1].op = "reset" /\ ctl[1].b = b)
    /\ \A j \in Place : \A a \in ctl[j].as : made[a] = ctl[k].f => j < k

\* What a step that puts frames on the stack keeps of the others.
LEMMA PushRetire ==
  ASSUME IInv, NEW m \in Nat, NEW p \in Nat, Rests(ctl, ctl', m, p),
         \A i \in Place : i > p /\ ctl[i].op = "initialAction" =>
           initial'[ctl[i].b] = initial[ctl[i].b],
         \A a \in Actions : Held(a) => made'[a] = made[a],
         \A b \in Bots : \A a \in inside'[b] :
           /\ a \in inside[b] /\ made'[a] = made[a]
           /\ 1 \in Place /\ ctl[1].op = "reset" /\ ctl[1].b = b => ctl'[1].op = "reset" /\ ctl'[1].b = b
  PROVE  \A k \in Place' : k > m => StartedAt(k)' /\ RetiredAt(k)'
<1> SUFFICES ASSUME NEW k \in Place', k > m PROVE StartedAt(k)' /\ RetiredAt(k)'
  OBVIOUS
<1>1. TypeOK /\ Started /\ Retired
  BY DEF IInv, RetireInv
<1>2. PICK i \in Place : i > p /\ k = i + m - p /\ Same(ctl'[k], ctl[i])
  BY Places
<1>8. 1 \in Place
  BY DEF Place
<1>3. \A j \in Place : \A a \in ctl[j].as : made'[a] = made[a]
  BY <1>1, FramesAre DEF Held
<1>4. StartedAt(k)'
  <2>1. ASSUME ctl'[k].op = "initialAction"
        PROVE  ctl'[k].as # {} /\ \A a \in ctl'[k].as : made'[a] = initial'[ctl'[k].b]
    <3>1. ctl[i].op = "initialAction" /\ ctl'[k].as = ctl[i].as /\ ctl'[k].b = ctl[i].b
      BY <1>2, <2>1 DEF Same
    <3>2. initial'[ctl[i].b] = initial[ctl[i].b]
      BY <1>2, <3>1
    <3> QED BY <1>1, <1>3, <3>1, <3>2 DEF Started
  <2> QED BY <2>1 DEF StartedAt
<1>5. ASSUME ctl'[k].op \in Retiring, NEW b \in Bots, NEW a \in inside'[b], made'[a] = ctl'[k].f
      PROVE  b \in ctl'[k].bs \/ (ctl'[1].op = "reset" /\ ctl'[1].b = b)
  BY <1>1, <1>2, <1>5, <1>8 DEF Retired, Same
<1>6. ASSUME ctl'[k].op \in Retiring, NEW j \in Place', NEW a \in ctl'[j].as, made'[a] = ctl'[k].f
      PROVE  j < k
  <2>1. CASE j > m
    <3>1. PICK h \in Place : h > p /\ j = h + m - p /\ Same(ctl'[j], ctl[h])
      BY <2>1, Places
    <3>2. a \in ctl[h].as /\ made[a] = ctl[i].f /\ ctl[i].op \in Retiring
      BY <1>2, <1>3, <1>6, <3>1 DEF Same
    <3>3. h < i
      BY <1>1, <3>2 DEF Retired
    <3> QED BY <1>2, <3>1, <3>3 DEF Place
  <2>2. CASE j <= m
    BY <2>2 DEF Place
  <2> QED BY <2>1, <2>2 DEF Place
<1>7. RetiredAt(k)'
  BY <1>5, <1>6 DEF RetiredAt
<1> QED BY <1>4, <1>7

\* New frames for bots without behaviour keep Minded.
LEMMA PushMinded ==
  ASSUME IInv, NEW m \in Nat, NEW p \in Nat, Rests(ctl, ctl', m, p),
         ctl # <<>> => ctl[1].op # "endReset",
         \A b \in Bots : inside'[b] \subseteq inside[b],
         \A b \in Bots : inside'[b] # {} => /\ behavior'[b] = behavior[b] /\ bot'[b] = bot[b]
                                            /\ resetting'[b] => resetting[b],
         \A k \in Place' : k <= m /\ ctl'[k].op \in Starting => inside'[ctl'[k].b] = {}
  PROVE  Minded'
<1>1. TypeOK /\ Minded /\ StackInv
  BY DEF IInv, RetireInv
<1>2. \A b \in Bots : inside'[b] # {} => behavior'[b] /\ bot'[b] = "intention"
  BY <1>1 DEF Minded
<1>3. \A b \in Bots : ~(resetting[b] /\ inside[b] # {})
  <2>1. CASE ctl = <<>>
    BY <1>1, <2>1 DEF StackInv, Resets, Place
  <2>2. CASE ctl # <<>>
    BY <1>1, <2>2 DEF Minded
  <2> QED BY <2>1, <2>2
<1>4. \A b \in Bots : ~(resetting'[b] /\ inside'[b] # {})
  BY <1>3
<1>5. ASSUME NEW k \in Place', ctl'[k].op \in Starting
      PROVE  inside'[ctl'[k].b] = {}
  <2>1. CASE k <= m
    BY <1>5, <2>1
  <2>2. CASE k > m
    <3>1. PICK i \in Place : Same(ctl'[k], ctl[i])
      BY <2>2, Places
    <3>2. ctl[i].op \in Starting /\ ctl[i].b = ctl'[k].b /\ ctl[i].b \in Bots
      BY <1>1, <1>5, <3>1 DEF Same, StackInv, FramesFit, FitAt
    <3> QED BY <1>1, <3>2 DEF Minded
  <2> QED BY <2>1, <2>2 DEF Place
<1> QED BY <1>2, <1>4, <1>5 DEF Minded

\* Nothing changes hands.
LEMMA PushNothing ==
  ASSUME IInv, NEW m \in Nat, NEW p \in Nat, Rests(ctl, ctl', m, p),
         \A i \in Place : i <= p => ctl[i].as = {},
         \A k \in Place' : k <= m => ctl'[k].as = {},
         UNCHANGED <<inside, made, pend, loose>>
  PROVE  OwnInv' /\ Budget'
<1>1. TypeOK /\ OwnInv /\ Budget
  BY DEF IInv
<1>2. \A k \in Place' : ctl'[k].as # {} =>
        \E i \in Place : i > p /\ k = i + m - p /\ Same(ctl'[k], ctl[i])
  <2> SUFFICES ASSUME NEW k \in Place', ctl'[k].as # {}
               PROVE  \E i \in Place : i > p /\ k = i + m - p /\ Same(ctl'[k], ctl[i])
    OBVIOUS
  <2>1. k > m
    BY DEF Place
  <2> QED BY <2>1, Places
<1>3. \A i \in Place : ctl[i].as # {} => \E k \in Place' : Same(ctl'[k], ctl[i])
  <2> SUFFICES ASSUME NEW i \in Place, ctl[i].as # {} PROVE \E k \in Place' : Same(ctl'[k], ctl[i])
    OBVIOUS
  <2>1. i > p
    BY DEF Place
  <2> QED BY <2>1, Places
<1>4. \A a : Held(a)' <=> Held(a)
  BY <1>2, <1>3 DEF Held, Same
<1>5. \A j, k \in Place' : \A a \in ctl'[j].as : a \in ctl'[k].as => j = k
  <2> SUFFICES ASSUME NEW j \in Place', NEW k \in Place', NEW a \in ctl'[j].as, a \in ctl'[k].as
               PROVE  j = k
    OBVIOUS
  <2>1. PICK h \in Place : j = h + m - p /\ Same(ctl'[j], ctl[h])
    BY <1>2
  <2>2. PICK i \in Place : k = i + m - p /\ Same(ctl'[k], ctl[i])
    BY <1>2
  <2>3. h = i
    BY <1>1, <2>1, <2>2 DEF OwnInv, Apart, Same
  <2> QED BY <2>1, <2>2, <2>3
<1>6. live' = live /\ \A a : (Housed(a)' <=> Housed(a)) /\ (Wanted(a)' <=> Wanted(a))
  BY DEF live, Housed, Wanted
<1>7. OwnInv'
  BY <1>1, <1>4, <1>5, <1>6 DEF OwnInv, Owned, OwnedAt, Apart
<1>8. Mindless' \subseteq Mindless
  <2>1. ctl' \in Seq(Frame)
    BY DEF Rests
  <2>2. ASSUME NEW b \in Bots, b \in Mindless' PROVE b \in Mindless
    <3>1. \A i \in Place : ctl[i].b = b => ctl[i].as = {}
      BY <1>3, <2>1, <2>2, NextFramesAre DEF Same
    <3> QED BY <1>1, <2>1, <2>2, <3>1, FramesAre, NextFramesAre
  <2> QED BY <2>2 DEF Mindless
<1> QED BY <1>1, <1>6, <1>7, <1>8, BudgetShrinks

\* An engine step that leaves one frame in the place of its own.
LEMMA OneFrame ==
  ASSUME TypeOK, ctl # <<>>, NEW x \in Frame, Becomes(<<x>>)
  PROVE  /\ Rests(ctl, ctl', 1, 1) /\ Place' = Place /\ ctl'[1] = x
         /\ \A k \in Place' : k <= 1 => k = 1
<1>1. <<x>> \in Seq(Frame) /\ Len(<<x>>) = 1 /\ <<x>>[1] = x
  BY Frames1
<1>2. /\ Rests(ctl, ctl', Len(<<x>>), 1)
      /\ \A k \in 1..Len(<<x>>) : ctl'[k] = <<x>>[k]
  BY <1>1, BecomesRest DEF Becomes
<1>3. Rests(ctl, ctl', 1, 1) /\ ctl'[1] = x
  BY <1>1, <1>2
<1>4. Place' = Place
  BY <1>3 DEF Rests, Place, TypeOK
<1> QED BY <1>3, <1>4 DEF Place

\* the frames under one that was replaced
LEMMA SameBelow ==
  ASSUME Rests(ctl, ctl', 1, 1)
  PROVE  \A k \in Place' : k > 1 => k \in Place /\ Same(ctl'[k], ctl[k])
<1> SUFFICES ASSUME NEW k \in Place', k > 1 PROVE k \in Place /\ Same(ctl'[k], ctl[k])
  OBVIOUS
<1>1. PICK i \in Place : i > 1 /\ k = i + 1 - 1 /\ Same(ctl'[k], ctl[i])
  BY Places
<1>2. k = i
  BY <1>1 DEF Place
<1> QED BY <1>1, <1>2

\* Construct keeps the invariant.
LEMMA ConstructKeeps ==
  ASSUME IInv, Construct
  PROVE  IInv'
<1> DEFINE b == ctl[1].b
           x == Do("init", b, None)
<1>1. /\ TypeOK /\ StackInv /\ Minded /\ Severed /\ FactoryOutlivesActions
      /\ ctl # <<>> /\ Top.op = "construct" /\ Becomes(<<Do("init", Top.b, None)>>)
      /\ bot' = [bot EXCEPT ![Top.b] = "intention"]
      /\ initial' = [initial EXCEPT ![Top.b] = Top.f]
      /\ UNCHANGED <<factory, declared, behavior, resetting, inside, made, loose, pend>>
  BY DEF Construct, Running, IInv, RetireInv, pool
<1>2. Top = ctl[1] /\ ctl[1].op = "construct" /\ 1 \in Place
  BY <1>1, TopFrame
<1>3. /\ ctl[1].as = {} /\ b \in Bots /\ bot[b] = "entity"
      /\ ctl[1].f \in Factories /\ factory[ctl[1].f] = "alive"
  BY <1>1, <1>2 DEF StackInv, FramesFit, FitAt
<1>4. x \in Frame /\ x.op = "init" /\ x.b = b /\ x.as = {} /\ x.bs = {}
  <2>1. "init" \in Ops /\ b \in Bots \cup {None} /\ None \in Factories \cup {None}
    BY <1>3 DEF Ops
  <2> HIDE DEF b
  <2> QED BY <2>1, DoFrame
<1> HIDE DEF x
<1>5. /\ Rests(ctl, ctl', 1, 1) /\ Place' = Place /\ ctl'[1] = x
      /\ \A k \in Place' : k <= 1 => k = 1
  BY <1>1, <1>2, <1>4, OneFrame DEF x
<1>6. \A c \in Bots : /\ bot'[c] = IF c = b THEN "intention" ELSE bot[c]
                      /\ initial'[c] = IF c = b THEN ctl[1].f ELSE initial[c]
  BY <1>1, <1>2 DEF TypeOK
<1>7. \A i \in Place : i > 1 => Quiet(i)
  BY <1>1, <1>2, QuietBelow
<1>8. \A i \in Place : i > 1 =>
        (ctl[i].op \in {"reset", "endReset", "free"} \cup Starting => ctl[i].b \in Bots /\ ctl[i].b # b)
  BY <1>1, <1>3 DEF StackInv, FramesFit, FitAt
<1>9. \A i \in Place : i > 1 => Unmoved(i)
  BY <1>1, <1>6, <1>7, <1>8 DEF Unmoved, Quiet
<1>10. StackInv'
  <2>1. \A k \in Place' : k <= 1 => FitAt(k)' /\ OnTop(k)'
    BY <1>3, <1>4, <1>5, <1>6 DEF FitAt, OnTop, Starting, Retiring
  <2>2. ~resetting[b]
    <3>1. \A i \in Place : ctl[i].op = "endReset" => ctl[i].b # b
      BY <1>1, <1>3 DEF StackInv, FramesFit, FitAt
    <3> QED BY <1>1, <1>3, <3>1 DEF StackInv, Resets
  <2>3. \A k \in Place' : k <= 1 => NestedAt(k, 0, 0)'
    BY <1>1, <1>4, <1>5, <2>2 DEF NestedAt, Starting, Place
  <2>4. \A j, k \in Place' : j <= 1 /\ k <= 1 => SingleAt(j, k)'
    BY <1>5 DEF SingleAt
  <2>5. \A k \in Place' : k <= 1 => \A i \in Place : i > 1 => ~Clash(ctl'[k], ctl[i])
    BY <1>4, <1>5, <1>8 DEF Clash, Retiring, Starting
  <2>6. \A k \in Place' : k <= 1 => \A i \in Place : i > 1 =>
           (ctl[i].op \in Starting /\ ~resetting[ctl[i].b] =>
             ctl[i].b \notin ctl'[k].bs /\ ~(ctl'[k].op = "reset" /\ ctl'[k].b = ctl[i].b))
    BY <1>4, <1>5
  <2>7. \A i \in Place : i <= 1 => ctl[i].op # "endReset"
    BY <1>2 DEF Place
  <2>8. \A c \in Bots : resetting'[c] <=>
           \/ resetting[c]
           \/ \E k \in Place' : k <= 1 /\ ctl'[k].op = "endReset" /\ ctl'[k].b = c
    BY <1>1, <1>4, <1>5
  <2> QED BY <1>1, <1>5, <1>7, <1>9, <2>1, <2>3, <2>4, <2>5, <2>6, <2>7, <2>8, PushedStack
<1>11. OwnInv' /\ Budget'
  <2>1. \A i \in Place : i <= 1 => ctl[i].as = {}
    BY <1>3 DEF Place
  <2> QED BY <1>1, <1>4, <1>5, <2>1, PushNothing
<1>12. Minded'
  <2>1. inside[b] = {}
    BY <1>1, <1>3 DEF Minded
  <2> QED BY <1>1, <1>2, <1>3, <1>4, <1>5, <1>6, <2>1, PushMinded
<1>13. \A k \in Place' : StartedAt(k)' /\ RetiredAt(k)'
  <2>1. \A i \in Place : i > 1 /\ ctl[i].op = "initialAction" => initial'[ctl[i].b] = initial[ctl[i].b]
    BY <1>6, <1>8 DEF Starting
  <2>2. \A c \in Bots : \A a \in inside'[c] :
           /\ a \in inside[c] /\ made'[a] = made[a]
           /\ ctl[1].op = "reset" /\ ctl[1].b = c => ctl'[1].op = "reset" /\ ctl'[1].b = c
    BY <1>1, <1>2
  <2>3. \A k \in Place' : k > 1 => StartedAt(k)' /\ RetiredAt(k)'
    BY <1>1, <1>5, <2>1, <2>2, PushRetire
  <2>4. StartedAt(1)' /\ RetiredAt(1)'
    BY <1>4, <1>5 DEF StartedAt, RetiredAt, Retiring
  <2> QED BY <2>3, <2>4 DEF Place
<1>14. Started' /\ Retired'
  BY <1>13 DEF StartedAt, RetiredAt, Started, Retired
<1>15. Severed' /\ FactoryOutlivesActions'
  BY <1>1, <1>3, <1>6 DEF Severed, Intentions, FactoryOutlivesActions, live
<1>16. TypeOK'
  BY <1>1, <1>2, <1>3, <1>5 DEF TypeOK, Rests
<1> QED BY <1>10, <1>11, <1>12, <1>14, <1>15, <1>16 DEF IInv, RetireInv

\* InitBehavior without a factory to ask keeps the invariant.
LEMMA InitBehaviorNone ==
  ASSUME IInv, ctl # <<>>, Top.op = "init", Becomes(<<>>),
         behavior' \in [Bots -> BOOLEAN],
         \A b \in Bots : b # Top.b => behavior'[b] = behavior[b],
         UNCHANGED <<factory, declared, bot, initial, resetting, inside, made, loose, pend>>
  PROVE  IInv'
<1>1. TypeOK /\ StackInv /\ Minded
  BY DEF IInv, RetireInv
<1>2. Rests(ctl, ctl', 0, 1) /\ Top = ctl[1] /\ ctl[1].op = "init" /\ 1 \in Place
  BY <1>1, Pops, TopFrame
<1>3. ctl[1].as = {} /\ inside[ctl[1].b] = {}
  BY <1>1, <1>2 DEF StackInv, FramesFit, FitAt, Minded, Starting
<1>4. OwnInv' /\ Budget'
  BY <1>1, <1>2, <1>3, PopNothing
<1>5. \A b \in Bots : inside[b] # {} => behavior'[b]
  BY <1>1, <1>2, <1>3 DEF Minded
<1>6. StackInv' /\ RetireInv'
  BY <1>2, <1>5, PopQuiet
<1>7. TypeOK'
  BY <1>1, <1>2 DEF TypeOK, Rests
<1> QED BY <1>4, <1>6, <1>7 DEF IInv

\* InitBehavior that creates the initial action keeps the invariant; the budget has an address for it.
LEMMA InitBehaviorCreates ==
  ASSUME IInv, ctl # <<>>, Top.op = "init", initial[Top.b] # None,
         factory[initial[Top.b]] # "destroying",
         made' = [made EXCEPT ![Fresh] = initial[Top.b]],
         Becomes(<<[Do("initialAction", Top.b, None) EXCEPT !.as = {Fresh}]>>),
         UNCHANGED <<factory, declared, bot, initial, behavior, resetting, inside, pend, loose>>
  PROVE  IInv'
<1> DEFINE b == ctl[1].b
           new == Fresh
           x == [Do("initialAction", b, None) EXCEPT !.as = {new}]
<1>1. TypeOK /\ StackInv /\ Minded /\ Severed /\ FactoryOutlivesActions /\ OwnInv /\ Budget
  BY DEF IInv, RetireInv
<1>2. Top = ctl[1] /\ ctl[1].op = "init" /\ 1 \in Place
  BY <1>1, TopFrame
<1>3. ctl[1].as = {} /\ b \in Bots /\ bot[b] = "intention" /\ inside[b] = {}
  BY <1>1, <1>2 DEF StackInv, FramesFit, FitAt, Starting, Minded
<1>4. initial[b] \in Factories /\ factory[initial[b]] = "alive"
  BY <1>1, <1>2, <1>3 DEF TypeOK, Severed, Intentions
<1>5. /\ live \subseteq Actions /\ Mindless \subseteq Bots
      /\ Cardinality(live) \in Nat /\ Cardinality(Mindless) \in Nat /\ Cardinality(Actions) \in Nat
      /\ IsFiniteSet(live) /\ IsFiniteSet(Mindless) /\ None \notin Actions
  BY ActionsFinite DEF live, Mindless
<1>6. new \in Actions /\ new \notin live
  BY <1>1, <1>5, FreshIsFree DEF Budget
<1>7. x \in Frame /\ x.op = "initialAction" /\ x.b = b /\ x.as = {new} /\ x.bs = {}
  <2> DEFINE d == Do("initialAction", b, None)
  <2>1. "initialAction" \in Ops /\ b \in Bots \cup {None} /\ None \in Factories \cup {None}
    BY <1>3 DEF Ops, Callbacks
  <2> HIDE DEF b
  <2>2. d \in Frame /\ d.op = "initialAction" /\ d.b = b /\ d.as = {} /\ d.bs = {}
    BY <2>1, DoFrame
  <2> HIDE DEF d, new
  <2> QED BY <1>6, <2>2 DEF Frame, d
<1>8. Becomes(<<x>>) /\ made' = [made EXCEPT ![new] = initial[b]]
  BY <1>2
<1> HIDE DEF x, new
<1>9. /\ Rests(ctl, ctl', 1, 1) /\ Place' = Place /\ ctl'[1] = x
      /\ \A k \in Place' : k <= 1 => k = 1
  BY <1>1, <1>7, <1>8, OneFrame DEF x
<1>10. \A i \in Place : i > 1 => Quiet(i) /\ Unmoved(i)
  BY <1>1, <1>2, QuietBelow DEF Unmoved
<1>11. \A i \in Place : i > 1 /\ ctl[i].op \in Starting => ctl[i].b # b
  BY <1>1, <1>2 DEF StackInv, Single, Starting, Place
<1>12. StackInv'
  <2>1. \A k \in Place' : k <= 1 => FitAt(k)' /\ OnTop(k)'
    BY <1>3, <1>7, <1>9 DEF FitAt, OnTop, Starting, Retiring
  <2>2. NestedAt(1, 0, 0)'
    <3>1. ASSUME resetting[b] PROVE Below(1, {"endReset"})'
      <4>1. 2 \in Place /\ ctl[2].op = "endReset" /\ ctl[2].b = b
        BY <1>1, <1>2, <3>1 DEF StackInv, Nested, Below, Starting
      <4>2. Same(ctl'[2], ctl[2])
        BY <1>9, <4>1, SameBelow
      <4> QED BY <1>7, <1>9, <4>1, <4>2 DEF Below, Same
    <3>2. ~\E j \in Place' : j < 1
      BY DEF Place
    <3> QED BY <1>7, <1>9, <3>1, <3>2 DEF NestedAt
  <2>3. \A k \in Place' : k <= 1 => NestedAt(k, 0, 0)'
    BY <1>9, <2>2
  <2>4. \A j, k \in Place' : j <= 1 /\ k <= 1 => SingleAt(j, k)'
    BY <1>9 DEF SingleAt
  <2>5. \A k \in Place' : k <= 1 => \A i \in Place : i > 1 => ~Clash(ctl'[k], ctl[i])
    BY <1>7, <1>9, <1>11 DEF Clash, Retiring
  <2>6. \A k \in Place' : k <= 1 => \A i \in Place : i > 1 =>
           (ctl[i].op \in Starting /\ ~resetting[ctl[i].b] =>
             ctl[i].b \notin ctl'[k].bs /\ ~(ctl'[k].op = "reset" /\ ctl'[k].b = ctl[i].b))
    BY <1>7, <1>9
  <2>7. \A i \in Place : i <= 1 => ctl[i].op # "endReset"
    BY <1>2 DEF Place
  <2>8. \A c \in Bots : resetting'[c] <=>
           \/ resetting[c]
           \/ \E k \in Place' : k <= 1 /\ ctl'[k].op = "endReset" /\ ctl'[k].b = c
    BY <1>7, <1>9
  <2> QED BY <1>1, <1>9, <1>10, <2>1, <2>3, <2>4, <2>5, <2>6, <2>7, <2>8, PushedStack
<1>13. Minded'
  BY <1>2, <1>3, <1>7, <1>9, PushMinded
<1>14. /\ ~Housed(new) /\ ~Held(new) /\ ~Wanted(new) /\ new \notin loose /\ pend[new] = None
       /\ made[new] = None
  BY <1>1, <1>6 DEF OwnInv, Owned, OwnedAt, live
<1>15. \A a \in Actions : made'[a] = IF a = new THEN initial[b] ELSE made[a]
  BY <1>1, <1>6, <1>8 DEF TypeOK
<1>16. \A k \in Place' : StartedAt(k)' /\ RetiredAt(k)'
  <2>2. \A c \in Bots : \A a \in inside'[c] :
           /\ a \in inside[c] /\ made'[a] = made[a]
           /\ ctl[1].op = "reset" /\ ctl[1].b = c => ctl'[1].op = "reset" /\ ctl'[1].b = c
    BY <1>1, <1>2, <1>14, <1>15 DEF Housed, TypeOK
  <2>3. \A k \in Place' : k > 1 => StartedAt(k)' /\ RetiredAt(k)'
    BY <1>9, <1>14, <1>15, <2>2, PushRetire, SMTT(30)
  <2>4. StartedAt(1)' /\ RetiredAt(1)'
    BY <1>6, <1>7, <1>9, <1>15 DEF StartedAt, RetiredAt, Retiring
  <2> QED BY <2>3, <2>4 DEF Place
<1>17. Started' /\ Retired'
  BY <1>16 DEF StartedAt, RetiredAt, Started, Retired
<1>18. Severed'
  BY <1>1 DEF Severed, Intentions
<1>19. live' = live \cup {new}
  BY <1>4, <1>6, <1>15, ConstantsOK DEF live
<1>20. FactoryOutlivesActions'
  BY <1>1, <1>4, <1>15, <1>19 DEF FactoryOutlivesActions, live
<1>21. /\ \A k \in Place' : k > 1 => k \in Place /\ Same(ctl'[k], ctl[k])
       /\ \A k \in Place : k = 1 \/ k > 1
  BY <1>9, SameBelow DEF Place
<1>22. \A a : Held(a)' <=> Held(a) \/ a = new
  BY <1>2, <1>3, <1>7, <1>9, <1>21 DEF Held, Same
<1>23. OwnInv'
  <2>1. \A a : (Housed(a)' <=> Housed(a)) /\ (Wanted(a)' <=> Wanted(a))
    BY DEF Housed, Wanted
  <2>2. Owned'
    BY <1>1, <1>14, <1>19, <1>22, <2>1 DEF OwnInv, Owned, OwnedAt
  <2>3. \A j, k \in Place' : \A a \in ctl'[j].as : a \in ctl'[k].as => j = k
    <3> SUFFICES ASSUME NEW j \in Place', NEW k \in Place', NEW a \in ctl'[j].as, a \in ctl'[k].as
                 PROVE  j = k
      OBVIOUS
    <3>1. CASE a = new
      <4>1. \A i \in Place' : i > 1 => new \notin ctl'[i].as
        BY <1>14, <1>21 DEF Held, Same
      <4> QED BY <1>9, <1>21, <3>1, <4>1
    <3>2. CASE a # new
      <4>1. j > 1 /\ k > 1
        BY <1>7, <1>9, <1>21, <3>2
      <4> QED BY <1>1, <1>21, <4>1 DEF Same, OwnInv, Apart
    <3> QED BY <3>1, <3>2
  <2> QED BY <1>1, <2>2, <2>3 DEF OwnInv, Apart
<1>24. Budget'
  <2>1. b \in Mindless
    <3>1. ASSUME NEW k \in Place, ctl[k].b = b, ctl[k].as # {} PROVE FALSE
      <4>1. k > 1 /\ ctl[k].op \in {"onEnd", "initialAction"}
        BY <1>1, <1>3, <1>21, <3>1 DEF StackInv, FramesFit, FitAt
      <4>2. ctl[k].op = "onEnd"
        BY <1>11, <3>1, <4>1 DEF Starting
      <4>3. k + 1 \in Place /\ ctl[k + 1].b = b /\ ctl[k + 1].op \in {"init", "free"} /\ k + 1 > 1
        BY <1>1, <3>1, <4>2 DEF StackInv, Nested, Below, Place
      <4>4. ctl[k + 1].op = "free"
        BY <1>11, <4>3 DEF Starting
      <4> QED BY <1>1, <1>3, <4>3, <4>4 DEF StackInv, FramesFit, FitAt
    <3> QED BY <1>1, <1>3, <3>1, FramesAre
  <2>2. Mindless' \subseteq Mindless \ {b}
    <3>1. ctl' \in Seq(Frame)
      BY <1>9 DEF Rests
    <3>2. b \notin Mindless'
      BY <1>2, <1>3, <1>7, <1>9, <3>1, NextFramesAre
    <3>3. ASSUME NEW c \in Bots, c \in Mindless' PROVE c \in Mindless
      <4>1. \A k \in Place : ctl[k].b = c => ctl[k].as = {}
        BY <1>3, <1>9, <1>21, <3>1, <3>3, NextFramesAre DEF Same
      <4> QED BY <1>1, <3>1, <3>3, <4>1, FramesAre, NextFramesAre
    <3> QED BY <3>2, <3>3 DEF Mindless
  <2>3. Cardinality(live') = Cardinality(live) + 1
    BY <1>5, <1>6, <1>19, FS_AddElement
  <2>4. Cardinality(Mindless \ {b}) = Cardinality(Mindless) - 1 /\ IsFiniteSet(Mindless \ {b})
    BY <1>5, <2>1, FS_RemoveElement
  <2>5. Cardinality(Mindless') <= Cardinality(Mindless) - 1 /\ Cardinality(Mindless') \in Nat
    BY <2>2, <2>4, FS_Subset, FS_CardinalityType
  <2> QED BY <1>1, <1>5, <2>3, <2>5 DEF Budget, Actions
<1>25. TypeOK'
  BY <1>1, <1>4, <1>6, <1>8, <1>9 DEF TypeOK, Rests
<1> QED BY <1>12, <1>13, <1>17, <1>18, <1>20, <1>23, <1>24, <1>25 DEF IInv, RetireInv

\* InitBehavior keeps the invariant.
LEMMA InitBehaviorKeeps ==
  ASSUME IInv, InitBehavior
  PROVE  IInv'
<1> DEFINE b == Top.b
           f == initial[b]
<1>1. /\ ctl # <<>> /\ Top.op = "init" /\ TypeOK
      /\ UNCHANGED <<factory, declared, bot, initial, resetting, inside, pend, loose>>
  BY DEF InitBehavior, Running, IInv
<1>2. CASE f = None /\ behavior' = [behavior EXCEPT ![b] = FALSE] /\ Becomes(<<>>) /\ UNCHANGED made
  <2>1. behavior' \in [Bots -> BOOLEAN] /\ \A c \in Bots : c # b => behavior'[c] = behavior[c]
    BY <1>1, <1>2 DEF TypeOK
  <2> QED BY <1>1, <1>2, <2>1, InitBehaviorNone
<1>3. CASE f # None /\ factory[f] = "destroying" /\ Becomes(<<>>) /\ UNCHANGED <<behavior, made>>
  <2>1. behavior' \in [Bots -> BOOLEAN] /\ \A c \in Bots : c # b => behavior'[c] = behavior[c]
    BY <1>1, <1>3 DEF TypeOK
  <2> QED BY <1>1, <1>3, <2>1, InitBehaviorNone
<1>4. CASE /\ f # None /\ factory[f] # "destroying"
           /\ made' = [made EXCEPT ![Fresh] = f]
           /\ Becomes(<<[Do("initialAction", b, None) EXCEPT !.as = {Fresh}]>>)
           /\ UNCHANGED behavior
  BY <1>1, <1>4, InitBehaviorCreates
<1> QED BY <1>2, <1>3, <1>4 DEF InitBehavior

\* UsersReset keeps the invariant: no bot uses the factory any more.
LEMMA UsersResetKeeps ==
  ASSUME IInv, UsersReset
  PROVE  IInv'
<1> DEFINE x == Do("drain", None, ctl[1].f)
<1>1. /\ TypeOK /\ StackInv /\ Minded /\ Retired /\ Severed /\ FactoryOutlivesActions
      /\ ctl # <<>> /\ Top.op = "resetUsers" /\ Top.bs = {} /\ Becomes(<<Do("drain", None, Top.f)>>)
      /\ UNCHANGED <<factory, declared, bot, initial, behavior, resetting, inside, made, loose, pend>>
  BY DEF UsersReset, Running, IInv, RetireInv, minds, pool
<1>2. Top = ctl[1] /\ ctl[1].op = "resetUsers" /\ ctl[1].bs = {} /\ 1 \in Place
  BY <1>1, TopFrame
<1>3. ctl[1].as = {} /\ ctl[1].f \in Factories /\ factory[ctl[1].f] = "destroying"
  BY <1>1, <1>2 DEF StackInv, FramesFit, FitAt, Retiring
<1>4. x \in Frame /\ x.op = "drain" /\ x.f = ctl[1].f /\ x.as = {} /\ x.bs = {}
  <2> DEFINE f == ctl[1].f
  <2>1. "drain" \in Ops /\ None \in Bots \cup {None} /\ f \in Factories \cup {None}
    BY <1>3 DEF Ops
  <2> HIDE DEF f
  <2>2. Do("drain", None, f) \in Frame /\ Do("drain", None, f).op = "drain"
        /\ Do("drain", None, f).f = f /\ Do("drain", None, f).as = {} /\ Do("drain", None, f).bs = {}
    BY <2>1, DoFrame
  <2> QED BY <2>2 DEF f
<1> HIDE DEF x
<1>5. /\ Rests(ctl, ctl', 1, 1) /\ Place' = Place /\ ctl'[1] = x
      /\ \A k \in Place' : k <= 1 => k = 1
  BY <1>1, <1>2, <1>4, OneFrame DEF x
<1>6. \A i \in Place : i > 1 => Quiet(i) /\ Unmoved(i)
  BY <1>1, <1>2, QuietBelow DEF Unmoved
<1>7. StackInv'
  <2>1. \A k \in Place' : k <= 1 => FitAt(k)' /\ OnTop(k)' /\ NestedAt(k, 0, 0)'
    BY <1>1, <1>3, <1>4, <1>5 DEF FitAt, OnTop, NestedAt, Starting, Retiring
  <2>2. \A j, k \in Place' : j <= 1 /\ k <= 1 => SingleAt(j, k)'
    BY <1>5 DEF SingleAt
  <2>3. \A i \in Place : i > 1 => ~(ctl[i].op \in Retiring /\ ctl[i].f = ctl[1].f)
    BY <1>1, <1>2 DEF StackInv, Single, Retiring, Place
  <2>4. \A k \in Place' : k <= 1 => \A i \in Place : i > 1 => ~Clash(ctl'[k], ctl[i])
    BY <1>4, <1>5, <2>3 DEF Clash, Retiring, Starting
  <2>5. \A k \in Place' : k <= 1 => \A i \in Place : i > 1 =>
           (ctl[i].op \in Starting /\ ~resetting[ctl[i].b] =>
             ctl[i].b \notin ctl'[k].bs /\ ~(ctl'[k].op = "reset" /\ ctl'[k].b = ctl[i].b))
    BY <1>4, <1>5
  <2>6. \A i \in Place : i <= 1 => ctl[i].op # "endReset"
    BY <1>2 DEF Place
  <2>7. \A c \in Bots : resetting'[c] <=>
           \/ resetting[c]
           \/ \E k \in Place' : k <= 1 /\ ctl'[k].op = "endReset" /\ ctl'[k].b = c
    BY <1>1, <1>4, <1>5
  <2> QED BY <1>1, <1>5, <1>6, <2>1, <2>2, <2>4, <2>5, <2>6, <2>7, PushedStack
<1>8. OwnInv' /\ Budget'
  <2>1. \A i \in Place : i <= 1 => ctl[i].as = {}
    BY <1>3 DEF Place
  <2> QED BY <1>1, <1>4, <1>5, <2>1, PushNothing
<1>9. Minded'
  <2>1. \A k \in Place' : k <= 1 /\ ctl'[k].op \in Starting => inside'[ctl'[k].b] = {}
    BY <1>4, <1>5 DEF Starting
  <2> QED BY <1>1, <1>2, <1>5, <2>1, PushMinded
<1>10. \A k \in Place' : StartedAt(k)' /\ RetiredAt(k)'
  <2>1. \A c \in Bots : \A a \in inside'[c] :
           /\ a \in inside[c] /\ made'[a] = made[a]
           /\ 1 \in Place /\ ctl[1].op = "reset" /\ ctl[1].b = c => ctl'[1].op = "reset" /\ ctl'[1].b = c
    BY <1>1, <1>2
  <2>2. \A k \in Place' : k > 1 => StartedAt(k)' /\ RetiredAt(k)'
    BY <1>1, <1>5, <2>1, PushRetire
  <2>3. \A b \in Bots : \A a \in inside[b] : made[a] # ctl[1].f
    BY <1>1, <1>2 DEF Retired, Retiring
  <2>4. \A j \in Place' : \A a \in ctl'[j].as : made[a] # ctl[1].f
    <3>1. \A j \in Place : \A a \in ctl[j].as : made[a] # ctl[1].f
      BY <1>1, <1>2 DEF Retired, Retiring, Place
    <3> QED BY <1>4, <1>5, <3>1, SameBelow DEF Same, Place
  <2>5. StartedAt(1)' /\ RetiredAt(1)'
    BY <1>1, <1>4, <1>5, <2>3, <2>4 DEF StartedAt, RetiredAt
  <2> QED BY <2>2, <2>5 DEF Place
<1>11. Started' /\ Retired'
  BY <1>10 DEF StartedAt, RetiredAt, Started, Retired
<1>12. Severed' /\ FactoryOutlivesActions'
  BY <1>1 DEF Severed, Intentions, FactoryOutlivesActions, live
<1>13. TypeOK'
  BY <1>1, <1>5 DEF TypeOK, Rests
<1> QED BY <1>7, <1>8, <1>9, <1>11, <1>12, <1>13 DEF IInv, RetireInv

\* An engine step that leaves two frames in the place of its own.
LEMMA TwoFrames ==
  ASSUME TypeOK, ctl # <<>>, NEW x \in Frame, NEW y \in Frame, Becomes(<<x, y>>)
  PROVE  /\ Rests(ctl, ctl', 2, 1) /\ ctl'[1] = x /\ ctl'[2] = y
         /\ 1 \in Place' /\ 2 \in Place' /\ \A k \in Place' : k <= 2 => k = 1 \/ k = 2
<1>1. <<x, y>> \in Seq(Frame) /\ Len(<<x, y>>) = 2 /\ <<x, y>>[1] = x /\ <<x, y>>[2] = y
  BY Frames2
<1>2. /\ Rests(ctl, ctl', Len(<<x, y>>), 1)
      /\ \A k \in 1..Len(<<x, y>>) : ctl'[k] = <<x, y>>[k]
  BY <1>1, BecomesRest DEF Becomes
<1>3. Rests(ctl, ctl', 2, 1) /\ ctl'[1] = x /\ ctl'[2] = y
  BY <1>1, <1>2
<1>4. Len(ctl) \in Nat /\ Len(ctl) > 0
  BY TopFrame
<1>5. 1 \in Place' /\ 2 \in Place'
  BY <1>3, <1>4 DEF Rests, Place
<1> QED BY <1>3, <1>5 DEF Place

\* ResetUser of a bot that is gone keeps the invariant.
LEMMA ResetUserPasses ==
  ASSUME IInv, ctl # <<>>, Top.op = "resetUsers", NEW b \in Top.bs, b \notin Intentions,
         Becomes(<<[Top EXCEPT !.bs = @ \ {b}]>>),
         UNCHANGED <<factory, declared, bot, initial, behavior, resetting, inside, made, loose, pend>>
  PROVE  IInv'
<1> DEFINE x == [Top EXCEPT !.bs = @ \ {b}]
<1>1. TypeOK /\ StackInv /\ Minded /\ Retired /\ Severed /\ FactoryOutlivesActions
  BY DEF IInv, RetireInv
<1>2. Top = ctl[1] /\ ctl[1].op = "resetUsers" /\ 1 \in Place /\ Top \in Frame /\ ctl[1].bs \subseteq Bots
  BY <1>1, TopFrame, FramesAre
<1>3. ctl[1].as = {} /\ ctl[1].f \in Factories /\ factory[ctl[1].f] = "destroying"
  BY <1>1, <1>2 DEF StackInv, FramesFit, FitAt, Retiring
<1>4. /\ x \in Frame /\ x.op = "resetUsers" /\ x.f = ctl[1].f /\ x.as = {}
      /\ x.bs = ctl[1].bs \ {b}
  BY <1>2, <1>3 DEF Frame
<1> HIDE DEF x
<1>5. /\ Rests(ctl, ctl', 1, 1) /\ Place' = Place /\ ctl'[1] = x
      /\ \A k \in Place' : k <= 1 => k = 1
  BY <1>1, <1>2, <1>4, OneFrame DEF x
<1>6. \A i \in Place : i > 1 => Quiet(i) /\ Unmoved(i)
  BY <1>1, <1>2, QuietBelow DEF Unmoved
<1>7. StackInv'
  <2>1. \A k \in Place' : k <= 1 => FitAt(k)' /\ OnTop(k)' /\ NestedAt(k, 0, 0)'
    BY <1>1, <1>3, <1>4, <1>5 DEF FitAt, OnTop, NestedAt, Starting, Retiring
  <2>2. \A j, k \in Place' : j <= 1 /\ k <= 1 => SingleAt(j, k)'
    BY <1>5 DEF SingleAt
  <2>3. \A i \in Place : i > 1 => ~(ctl[i].op \in Retiring /\ ctl[i].f = ctl[1].f)
    BY <1>1, <1>2 DEF StackInv, Single, Retiring, Place
  <2>4. \A k \in Place' : k <= 1 => \A i \in Place : i > 1 => ~Clash(ctl'[k], ctl[i])
    BY <1>4, <1>5, <2>3 DEF Clash, Retiring, Starting
  <2>5. \A k \in Place' : k <= 1 => \A i \in Place : i > 1 =>
           (ctl[i].op \in Starting /\ ~resetting[ctl[i].b] =>
             ctl[i].b \notin ctl'[k].bs /\ ~(ctl'[k].op = "reset" /\ ctl'[k].b = ctl[i].b))
    BY <1>1, <1>2, <1>4, <1>5 DEF StackInv, Nested, Place
  <2>6. \A i \in Place : i <= 1 => ctl[i].op # "endReset"
    BY <1>2 DEF Place
  <2>7. \A c \in Bots : resetting'[c] <=>
           \/ resetting[c]
           \/ \E k \in Place' : k <= 1 /\ ctl'[k].op = "endReset" /\ ctl'[k].b = c
    BY <1>1, <1>4, <1>5
  <2> QED BY <1>1, <1>5, <1>6, <2>1, <2>2, <2>4, <2>5, <2>6, <2>7, PushedStack
<1>8. OwnInv' /\ Budget'
  <2>1. \A i \in Place : i <= 1 => ctl[i].as = {}
    BY <1>3 DEF Place
  <2> QED BY <1>1, <1>4, <1>5, <2>1, PushNothing
<1>9. Minded'
  <2>1. \A k \in Place' : k <= 1 /\ ctl'[k].op \in Starting => inside'[ctl'[k].b] = {}
    BY <1>4, <1>5 DEF Starting
  <2> QED BY <1>1, <1>2, <1>5, <2>1, PushMinded
<1>10. \A k \in Place' : StartedAt(k)' /\ RetiredAt(k)'
  <2>1. \A c \in Bots : \A a \in inside'[c] :
           /\ a \in inside[c] /\ made'[a] = made[a]
           /\ 1 \in Place /\ ctl[1].op = "reset" /\ ctl[1].b = c => ctl'[1].op = "reset" /\ ctl'[1].b = c
    BY <1>1, <1>2
  <2>2. \A k \in Place' : k > 1 => StartedAt(k)' /\ RetiredAt(k)'
    BY <1>1, <1>5, <2>1, PushRetire
  <2>3. \A c \in Bots : \A a \in inside[c] : made[a] = ctl[1].f => c \in ctl[1].bs \ {b}
    BY <1>1, <1>2 DEF Retired, Retiring, Minded, Intentions
  <2>4. \A j \in Place' : \A a \in ctl'[j].as : made[a] # ctl[1].f
    <3>1. \A j \in Place : \A a \in ctl[j].as : made[a] # ctl[1].f
      BY <1>1, <1>2 DEF Retired, Retiring, Place
    <3> QED BY <1>4, <1>5, <3>1, SameBelow DEF Same, Place
  <2>5. StartedAt(1)' /\ RetiredAt(1)'
    BY <1>1, <1>4, <1>5, <2>3, <2>4 DEF StartedAt, RetiredAt
  <2> QED BY <2>2, <2>5 DEF Place
<1>11. Started' /\ Retired'
  BY <1>10 DEF StartedAt, RetiredAt, Started, Retired
<1>12. Severed' /\ FactoryOutlivesActions'
  BY <1>1 DEF Severed, Intentions, FactoryOutlivesActions, live
<1>13. TypeOK'
  BY <1>1, <1>5 DEF TypeOK, Rests
<1> QED BY <1>7, <1>8, <1>9, <1>11, <1>12, <1>13 DEF IInv, RetireInv

\* ResetUser of a bot that is still there keeps the invariant.
LEMMA ResetUserResets ==
  ASSUME IInv, ctl # <<>>, Top.op = "resetUsers", NEW b \in Top.bs, b \in Intentions,
         Becomes(<<Do("reset", b, None), [Top EXCEPT !.bs = @ \ {b}]>>),
         UNCHANGED <<factory, declared, bot, initial, behavior, resetting, inside, made, loose, pend>>
  PROVE  IInv'
<1> DEFINE x == Do("reset", b, None)
           y == [Top EXCEPT !.bs = @ \ {b}]
<1>1. TypeOK /\ StackInv /\ Minded /\ Retired /\ Severed /\ FactoryOutlivesActions
      /\ b \in Bots /\ bot[b] = "intention"
  BY DEF IInv, RetireInv, Intentions
<1>2. Top = ctl[1] /\ ctl[1].op = "resetUsers" /\ 1 \in Place /\ Top \in Frame /\ ctl[1].bs \subseteq Bots
  BY <1>1, TopFrame, FramesAre
<1>3. ctl[1].as = {} /\ ctl[1].f \in Factories /\ factory[ctl[1].f] = "destroying"
  BY <1>1, <1>2 DEF StackInv, FramesFit, FitAt, Retiring
<1>4. /\ y \in Frame /\ y.op = "resetUsers" /\ y.f = ctl[1].f /\ y.as = {}
      /\ y.bs = ctl[1].bs \ {b}
  BY <1>2, <1>3 DEF Frame
<1>5. x \in Frame /\ x.op = "reset" /\ x.b = b /\ x.as = {} /\ x.bs = {}
  <2>1. "reset" \in Ops /\ b \in Bots \cup {None} /\ None \in Factories \cup {None}
    BY <1>1 DEF Ops
  <2> QED BY <2>1, DoFrame
<1> HIDE DEF x, y
<1>6. /\ Rests(ctl, ctl', 2, 1) /\ ctl'[1] = x /\ ctl'[2] = y
      /\ 1 \in Place' /\ 2 \in Place' /\ \A k \in Place' : k <= 2 => k = 1 \/ k = 2
  BY <1>1, <1>4, <1>5, TwoFrames DEF x, y
<1>7. \A i \in Place : i > 1 => Quiet(i) /\ Unmoved(i)
  BY <1>1, <1>2, QuietBelow DEF Unmoved
<1>8. StackInv'
  <2>1. FitAt(1)' /\ OnTop(1)' /\ NestedAt(1, 0, 0)'
    BY <1>1, <1>5, <1>6 DEF FitAt, OnTop, NestedAt, Starting, Retiring
  <2>2. FitAt(2)' /\ OnTop(2)' /\ NestedAt(2, 0, 0)'
    BY <1>1, <1>3, <1>4, <1>6 DEF FitAt, OnTop, NestedAt, Starting, Retiring
  <2>3. \A k \in Place' : k <= 2 => FitAt(k)' /\ OnTop(k)' /\ NestedAt(k, 0, 0)'
    BY <1>6, <2>1, <2>2
  <2>4. \A j, k \in Place' : j <= 2 /\ k <= 2 => SingleAt(j, k)'
    BY <1>4, <1>5, <1>6 DEF SingleAt, Starting, Retiring
  <2>5. \A i \in Place : i > 1 => ~(ctl[i].op \in Retiring /\ ctl[i].f = ctl[1].f)
    BY <1>1, <1>2 DEF StackInv, Single, Retiring, Place
  <2>6. \A k \in Place' : k <= 2 => \A i \in Place : i > 1 => ~Clash(ctl'[k], ctl[i])
    BY <1>4, <1>5, <1>6, <2>5 DEF Clash, Retiring, Starting
  <2>7. \A i \in Place : i > 1 =>
           (ctl[i].op \in Starting /\ ~resetting[ctl[i].b] => ctl[i].b \notin ctl[1].bs)
    BY <1>1, <1>2 DEF StackInv, Nested, Place
  <2>8. \A k \in Place' : k <= 2 => \A i \in Place : i > 1 =>
           (ctl[i].op \in Starting /\ ~resetting[ctl[i].b] =>
             ctl[i].b \notin ctl'[k].bs /\ ~(ctl'[k].op = "reset" /\ ctl'[k].b = ctl[i].b))
    BY <1>2, <1>4, <1>5, <1>6, <2>7
  <2>9. \A i \in Place : i <= 1 => ctl[i].op # "endReset"
    BY <1>2 DEF Place
  <2>10. \A c \in Bots : resetting'[c] <=>
           \/ resetting[c]
           \/ \E k \in Place' : k <= 2 /\ ctl'[k].op = "endReset" /\ ctl'[k].b = c
    BY <1>4, <1>5, <1>6
  <2> QED BY <1>1, <1>6, <1>7, <2>3, <2>4, <2>6, <2>8, <2>9, <2>10, PushedStack
<1>9. OwnInv' /\ Budget'
  <2>1. \A i \in Place : i <= 1 => ctl[i].as = {}
    BY <1>3 DEF Place
  <2>2. \A k \in Place' : k <= 2 => ctl'[k].as = {}
    BY <1>4, <1>5, <1>6
  <2> QED BY <1>6, <2>1, <2>2, PushNothing
<1>10. Minded'
  <2>1. \A k \in Place' : k <= 2 /\ ctl'[k].op \in Starting => inside'[ctl'[k].b] = {}
    BY <1>4, <1>5, <1>6 DEF Starting
  <2> QED BY <1>2, <1>6, <2>1, PushMinded
<1>11. \A k \in Place' : StartedAt(k)' /\ RetiredAt(k)'
  <2>1. \A c \in Bots : \A a \in inside'[c] :
           /\ a \in inside[c] /\ made'[a] = made[a]
           /\ 1 \in Place /\ ctl[1].op = "reset" /\ ctl[1].b = c => ctl'[1].op = "reset" /\ ctl'[1].b = c
    BY <1>2
  <2>2. \A k \in Place' : k > 2 => StartedAt(k)' /\ RetiredAt(k)'
    BY <1>6, <2>1, PushRetire
  <2>3. \A c \in Bots : \A a \in inside[c] : made[a] = ctl[1].f => c \in ctl[1].bs
    BY <1>1, <1>2 DEF Retired, Retiring
  <2>4. \A j \in Place' : \A a \in ctl'[j].as : made[a] # ctl[1].f
    <3>1. \A j \in Place : \A a \in ctl[j].as : made[a] # ctl[1].f
      BY <1>1, <1>2 DEF Retired, Retiring, Place
    <3>2. \A j \in Place' : j > 2 => \E i \in Place : Same(ctl'[j], ctl[i])
      BY <1>6, Places
    <3> QED BY <1>4, <1>5, <1>6, <3>1, <3>2 DEF Same, Place
  <2>5. StartedAt(2)' /\ RetiredAt(2)'
    BY <1>4, <1>5, <1>6, <2>3, <2>4 DEF StartedAt, RetiredAt
  <2>6. StartedAt(1)' /\ RetiredAt(1)'
    BY <1>5, <1>6 DEF StartedAt, RetiredAt, Retiring
  <2>7. \A k \in Place' : k = 1 \/ k = 2 \/ k > 2
    BY DEF Place
  <2> QED BY <2>2, <2>5, <2>6, <2>7
<1>12. Started' /\ Retired'
  BY <1>11 DEF StartedAt, RetiredAt, Started, Retired
<1>13. Severed' /\ FactoryOutlivesActions'
  BY <1>1 DEF Severed, Intentions, FactoryOutlivesActions, live
<1>14. TypeOK'
  BY <1>1, <1>6 DEF TypeOK, Rests
<1> QED BY <1>8, <1>9, <1>10, <1>12, <1>13, <1>14 DEF IInv, RetireInv

\* ResetUser keeps the invariant.
LEMMA ResetUserKeeps ==
  ASSUME IInv, NEW b \in Bots, ResetUser(b)
  PROVE  IInv'
<1> DEFINE rest == [Top EXCEPT !.bs = @ \ {b}]
<1>1. /\ ctl # <<>> /\ Top.op = "resetUsers" /\ b \in Top.bs
      /\ Becomes(IF b \in Intentions THEN <<Do("reset", b, None), rest>> ELSE <<rest>>)
      /\ UNCHANGED <<factory, declared, bot, initial, behavior, resetting, inside, made, loose, pend>>
  BY DEF ResetUser, Running, minds, pool
<1>2. CASE b \in Intentions
  BY <1>1, <1>2, ResetUserResets
<1>3. CASE b \notin Intentions
  BY <1>1, <1>3, ResetUserPasses
<1> QED BY <1>2, <1>3

\* A callback may be suspended: what lies below it and itself.
LEMMA CallerQuiet ==
  ASSUME TypeOK, StackInv, CallsBack \subseteq Survivable,
         NEW call \in {"spawn", "remove", "reset", "close"}, PluginCode(call)
  PROVE  /\ ctl # <<>> => Top.n > 0
         /\ \A i \in Place : Quiet(i)
         /\ 1 \in Place => ctl[1].op \in {"initialAction", "onEnd"}
         /\ ctl # <<>> => ctl[1].op \in {"initialAction", "onEnd"}
<1>1. ctl # <<>> => <<Top.op, call>> \in CallsBack /\ Top.n > 0
  BY DEF PluginCode
<1>2. Len(ctl) > 0 => ctl[1].op \in {"initialAction", "onEnd"}
  BY <1>1, CallersCalls
<1>3. (1 \in Place => Len(ctl) > 0) /\ (ctl # <<>> => Len(ctl) > 0)
  BY DEF Place, TypeOK
<1>4. ASSUME NEW i \in Place PROVE Quiet(i)
  <2>1. 1 \in Place /\ (i = 1 \/ i > 1)
    BY DEF Place
  <2>2. ctl[1].op \in {"initialAction", "onEnd"}
    BY <1>2, <1>3, <2>1
  <2>3. CASE i = 1
    BY <2>2, <2>3 DEF Quiet
  <2>4. CASE i > 1
    BY <2>2, <2>4, QuietBelow
  <2> QED BY <2>1, <2>3, <2>4
<1> QED BY <1>1, <1>2, <1>3, <1>4

\* A call from plugin code that puts one frame on the stack.
LEMMA OneCall ==
  ASSUME TypeOK, ctl # <<>> => Top.n > 0, NEW x \in Frame, Calls(<<x>>)
  PROVE  /\ Rests(ctl, ctl', 1, 0) /\ ctl'[1] = x
         /\ 1 \in Place' /\ \A k \in Place' : k <= 1 => k = 1
<1>1. <<x>> \in Seq(Frame) /\ Len(<<x>>) = 1 /\ <<x>>[1] = x
  BY Frames1
<1>2. \A gs \in Seq(Frame) : ctl' = gs \o Caller =>
        Rests(ctl, ctl', Len(gs), 0) /\ \A k \in 1..Len(gs) : ctl'[k] = gs[k]
  BY CallsRest
<1>3. /\ Rests(ctl, ctl', Len(<<x>>), 0)
      /\ \A k \in 1..Len(<<x>>) : ctl'[k] = <<x>>[k]
  BY <1>1, <1>2 DEF Calls
<1>4. Rests(ctl, ctl', 1, 0) /\ ctl'[1] = x
  BY <1>1, <1>3
<1>5. Len(ctl) \in Nat
  BY DEF TypeOK
<1>6. 1 \in Place'
  BY <1>4, <1>5 DEF Rests, Place
<1> QED BY <1>4, <1>6 DEF Place

\* A call from plugin code that puts two frames on the stack.
LEMMA TwoCalls ==
  ASSUME TypeOK, ctl # <<>> => Top.n > 0, NEW x \in Frame, NEW y \in Frame, Calls(<<x, y>>)
  PROVE  /\ Rests(ctl, ctl', 2, 0) /\ ctl'[1] = x /\ ctl'[2] = y
         /\ 1 \in Place' /\ 2 \in Place' /\ \A k \in Place' : k <= 2 => k = 1 \/ k = 2
<1>1. <<x, y>> \in Seq(Frame) /\ Len(<<x, y>>) = 2 /\ <<x, y>>[1] = x /\ <<x, y>>[2] = y
  BY Frames2
<1>2. \A gs \in Seq(Frame) : ctl' = gs \o Caller =>
        Rests(ctl, ctl', Len(gs), 0) /\ \A k \in 1..Len(gs) : ctl'[k] = gs[k]
  BY CallsRest
<1>3. /\ Rests(ctl, ctl', Len(<<x, y>>), 0)
      /\ \A k \in 1..Len(<<x, y>>) : ctl'[k] = <<x, y>>[k]
  BY <1>1, <1>2 DEF Calls
<1>4. Rests(ctl, ctl', 2, 0) /\ ctl'[1] = x /\ ctl'[2] = y
  BY <1>1, <1>3
<1>5. Len(ctl) \in Nat
  BY DEF TypeOK
<1>6. 1 \in Place' /\ 2 \in Place'
  BY <1>4, <1>5 DEF Rests, Place
<1> QED BY <1>4, <1>6 DEF Place

\* Reset keeps the invariant.
LEMMA ResetKeeps ==
  ASSUME IInv, CallsBack \subseteq Survivable, NEW b \in Bots, Reset(b)
  PROVE  IInv'
<1> DEFINE x == Do("reset", b, None)
<1>1. /\ TypeOK /\ StackInv /\ Minded /\ Severed /\ FactoryOutlivesActions
      /\ PluginCode("reset") /\ bot[b] = "intention" /\ (b \in Busy => resetting[b])
      /\ Calls(<<Do("reset", b, None)>>)
      /\ UNCHANGED <<factory, declared, bot, initial, behavior, resetting, inside, made, loose, pend>>
  BY DEF Reset, IInv, RetireInv, minds, pool, Intentions
<1>2. /\ ctl # <<>> => Top.n > 0
      /\ \A i \in Place : Quiet(i)
      /\ 1 \in Place => ctl[1].op \in {"initialAction", "onEnd"}
      /\ ctl # <<>> => ctl[1].op \in {"initialAction", "onEnd"}
  BY <1>1, CallerQuiet
<1>3. x \in Frame /\ x.op = "reset" /\ x.b = b /\ x.as = {} /\ x.bs = {}
  <2>1. "reset" \in Ops /\ b \in Bots \cup {None} /\ None \in Factories \cup {None}
    BY DEF Ops
  <2> QED BY <2>1, DoFrame
<1> HIDE DEF x
<1>4. /\ Rests(ctl, ctl', 1, 0) /\ ctl'[1] = x
      /\ 1 \in Place' /\ \A k \in Place' : k <= 1 => k = 1
  BY <1>1, <1>2, <1>3, OneCall DEF x
<1>5. \A i \in Place : i > 0
  BY DEF Place
<1>6. StackInv'
  <2>1. \A i \in Place : i > 0 => Unmoved(i) /\ Quiet(i)
    BY <1>1, <1>2 DEF Unmoved
  <2>2. \A k \in Place' : k <= 1 => FitAt(k)' /\ OnTop(k)' /\ NestedAt(k, 0, 0)'
    BY <1>1, <1>3, <1>4 DEF FitAt, OnTop, NestedAt, Starting, Retiring
  <2>3. \A j, k \in Place' : j <= 1 /\ k <= 1 => SingleAt(j, k)'
    BY <1>4 DEF SingleAt
  <2>4. \A k \in Place' : k <= 1 => \A i \in Place : i > 0 => ~Clash(ctl'[k], ctl[i])
    BY <1>3, <1>4 DEF Clash, Retiring, Starting
  <2>5. \A i \in Place : ctl[i].b = b => resetting[b]
    BY <1>1, FramesAre, ConstantsOK
  <2>6. \A k \in Place' : k <= 1 => \A i \in Place : i > 0 =>
           (ctl[i].op \in Starting /\ ~resetting[ctl[i].b] =>
             ctl[i].b \notin ctl'[k].bs /\ ~(ctl'[k].op = "reset" /\ ctl'[k].b = ctl[i].b))
    BY <1>3, <1>4, <2>5
  <2>7. \A i \in Place : i <= 0 => ctl[i].op # "endReset"
    BY DEF Place
  <2>8. \A c \in Bots : resetting'[c] <=>
           \/ resetting[c]
           \/ \E k \in Place' : k <= 1 /\ ctl'[k].op = "endReset" /\ ctl'[k].b = c
    BY <1>1, <1>3, <1>4
  <2> QED BY <1>1, <1>4, <2>1, <2>2, <2>3, <2>4, <2>6, <2>7, <2>8, PushedStack
<1>7. OwnInv' /\ Budget'
  <2>1. \A i \in Place : i <= 0 => ctl[i].as = {}
    BY DEF Place
  <2>2. \A k \in Place' : k <= 1 => ctl'[k].as = {}
    BY <1>3, <1>4
  <2> QED BY <1>1, <1>4, <2>1, <2>2, PushNothing
<1>8. Minded'
  <2>1. \A k \in Place' : k <= 1 /\ ctl'[k].op \in Starting => inside'[ctl'[k].b] = {}
    BY <1>3, <1>4 DEF Starting
  <2>2. ctl # <<>> => ctl[1].op # "endReset"
    BY <1>2
  <2> QED BY <1>1, <1>4, <2>1, <2>2, PushMinded
<1>9. \A k \in Place' : StartedAt(k)' /\ RetiredAt(k)'
  <2>1. \A c \in Bots : \A a \in inside'[c] :
           /\ a \in inside[c] /\ made'[a] = made[a]
           /\ 1 \in Place /\ ctl[1].op = "reset" /\ ctl[1].b = c => ctl'[1].op = "reset" /\ ctl'[1].b = c
    BY <1>1, <1>2
  <2>2. \A k \in Place' : k > 1 => StartedAt(k)' /\ RetiredAt(k)'
    BY <1>1, <1>4, <2>1, PushRetire
  <2>3. StartedAt(1)' /\ RetiredAt(1)'
    BY <1>3, <1>4 DEF StartedAt, RetiredAt, Retiring
  <2> QED BY <2>2, <2>3 DEF Place
<1>10. Started' /\ Retired'
  BY <1>9 DEF StartedAt, RetiredAt, Started, Retired
<1>11. Severed' /\ FactoryOutlivesActions'
  BY <1>1 DEF Severed, Intentions, FactoryOutlivesActions, live
<1>12. TypeOK'
  BY <1>1, <1>4 DEF TypeOK, Rests
<1> QED BY <1>6, <1>7, <1>8, <1>10, <1>11, <1>12 DEF IInv, RetireInv

\* Spawn keeps the invariant.
LEMMA SpawnKeeps ==
  ASSUME IInv, CallsBack \subseteq Survivable, NEW b \in Bots, NEW c \in Classes, Spawn(b, c)
  PROVE  IInv'
<1> DEFINE f == declared[c]
           x == Do("attachBot", b, None)
           y == Do("construct", b, f)
<1>1. /\ TypeOK /\ StackInv /\ Minded /\ Severed /\ FactoryOutlivesActions
      /\ PluginCode("spawn") /\ bot[b] = "none" /\ f # None
      /\ bot' = [bot EXCEPT ![b] = "entity"]
      /\ Calls(<<x, y>>)
      /\ UNCHANGED <<factory, declared, initial, behavior, resetting, inside, made, loose, pend>>
  BY DEF Spawn, IInv, RetireInv, pool
<1>2. /\ ctl # <<>> => Top.n > 0
      /\ \A i \in Place : Quiet(i)
      /\ 1 \in Place => ctl[1].op \in {"initialAction", "onEnd"}
      /\ ctl # <<>> => ctl[1].op \in {"initialAction", "onEnd"}
  BY <1>1, CallerQuiet
<1>3. f \in Factories /\ factory[f] = "alive"
  BY <1>1 DEF TypeOK, Severed
<1>4. /\ x \in Frame /\ x.op = "attachBot" /\ x.b = b /\ x.as = {} /\ x.bs = {}
      /\ y \in Frame /\ y.op = "construct" /\ y.b = b /\ y.f = f /\ y.as = {} /\ y.bs = {}
  <2>1. "attachBot" \in Ops /\ "construct" \in Ops /\ b \in Bots \cup {None}
        /\ None \in Factories \cup {None} /\ f \in Factories \cup {None}
    BY <1>3 DEF Ops, Callbacks
  <2> HIDE DEF f
  <2> QED BY <2>1, DoFrame
<1> HIDE DEF f, x, y
<1>5. /\ Rests(ctl, ctl', 2, 0) /\ ctl'[1] = x /\ ctl'[2] = y
      /\ 1 \in Place' /\ 2 \in Place' /\ \A k \in Place' : k <= 2 => k = 1 \/ k = 2
  BY <1>1, <1>2, <1>4, TwoCalls
<1>6. \A d \in Bots : bot'[d] = IF d = b THEN "entity" ELSE bot[d]
  BY <1>1 DEF TypeOK
<1>7. \A i \in Place : ctl[i].op \in {"attachBot", "construct", "reset", "endReset", "free"} \cup Starting =>
        ctl[i].b \in Bots /\ ctl[i].b # b
  BY <1>1 DEF StackInv, FramesFit, FitAt
<1>8. StackInv'
  <2>1. \A i \in Place : i > 0 => Unmoved(i) /\ Quiet(i)
    BY <1>1, <1>2, <1>6, <1>7 DEF Unmoved
  <2>2. FitAt(1)' /\ OnTop(1)' /\ NestedAt(1, 0, 0)'
    BY <1>1, <1>4, <1>5, <1>6 DEF FitAt, OnTop, NestedAt, Starting, Retiring
  <2>3. FitAt(2)' /\ OnTop(2)' /\ NestedAt(2, 0, 0)'
    BY <1>1, <1>3, <1>4, <1>5, <1>6 DEF FitAt, OnTop, NestedAt, Starting, Retiring
  <2>4. \A k \in Place' : k <= 2 => FitAt(k)' /\ OnTop(k)' /\ NestedAt(k, 0, 0)'
    BY <1>5, <2>2, <2>3
  <2>5. \A j, k \in Place' : j <= 2 /\ k <= 2 => SingleAt(j, k)'
    BY <1>4, <1>5 DEF SingleAt, Starting, Retiring
  <2>6. \A k \in Place' : k <= 2 => \A i \in Place : i > 0 => ~Clash(ctl'[k], ctl[i])
    BY <1>4, <1>5 DEF Clash, Retiring, Starting
  <2>7. \A k \in Place' : k <= 2 => \A i \in Place : i > 0 =>
           (ctl[i].op \in Starting /\ ~resetting[ctl[i].b] =>
             ctl[i].b \notin ctl'[k].bs /\ ~(ctl'[k].op = "reset" /\ ctl'[k].b = ctl[i].b))
    BY <1>4, <1>5
  <2>8. \A i \in Place : i <= 0 => ctl[i].op # "endReset"
    BY DEF Place
  <2>9. \A d \in Bots : resetting'[d] <=>
           \/ resetting[d]
           \/ \E k \in Place' : k <= 2 /\ ctl'[k].op = "endReset" /\ ctl'[k].b = d
    BY <1>1, <1>4, <1>5
  <2> QED BY <1>1, <1>5, <2>1, <2>4, <2>5, <2>6, <2>7, <2>8, <2>9, PushedStack
<1>9. OwnInv' /\ Budget'
  <2>1. \A i \in Place : i <= 0 => ctl[i].as = {}
    BY DEF Place
  <2>2. \A k \in Place' : k <= 2 => ctl'[k].as = {}
    BY <1>4, <1>5
  <2> QED BY <1>1, <1>5, <2>1, <2>2, PushNothing
<1>10. Minded'
  <2>1. \A k \in Place' : k <= 2 /\ ctl'[k].op \in Starting => inside'[ctl'[k].b] = {}
    BY <1>4, <1>5 DEF Starting
  <2>2. ctl # <<>> => ctl[1].op # "endReset"
    BY <1>2
  <2>3. inside[b] = {}
    BY <1>1 DEF Minded
  <2> QED BY <1>1, <1>5, <1>6, <2>1, <2>2, <2>3, PushMinded
<1>11. \A k \in Place' : StartedAt(k)' /\ RetiredAt(k)'
  <2>1. \A d \in Bots : \A a \in inside'[d] :
           /\ a \in inside[d] /\ made'[a] = made[a]
           /\ 1 \in Place /\ ctl[1].op = "reset" /\ ctl[1].b = d => ctl'[1].op = "reset" /\ ctl'[1].b = d
    BY <1>1, <1>2
  <2>2. \A k \in Place' : k > 2 => StartedAt(k)' /\ RetiredAt(k)'
    BY <1>1, <1>5, <2>1, PushRetire
  <2>3. StartedAt(1)' /\ RetiredAt(1)' /\ StartedAt(2)' /\ RetiredAt(2)'
    BY <1>4, <1>5 DEF StartedAt, RetiredAt, Retiring
  <2>4. \A k \in Place' : k = 1 \/ k = 2 \/ k > 2
    BY DEF Place
  <2> QED BY <2>2, <2>3, <2>4
<1>12. Started' /\ Retired'
  BY <1>11 DEF StartedAt, RetiredAt, Started, Retired
<1>13. Severed' /\ FactoryOutlivesActions'
  BY <1>1, <1>6 DEF Severed, Intentions, FactoryOutlivesActions, live
<1>14. TypeOK'
  BY <1>1, <1>5 DEF TypeOK, Rests
<1> QED BY <1>8, <1>9, <1>10, <1>12, <1>13, <1>14 DEF IInv, RetireInv

\* Three frames as a sequence.
LEMMA Frames3 ==
  ASSUME NEW x \in Frame, NEW y \in Frame, NEW z \in Frame
  PROVE  /\ <<x, y, z>> \in Seq(Frame) /\ Len(<<x, y, z>>) = 3
         /\ <<x, y, z>>[1] = x /\ <<x, y, z>>[2] = y /\ <<x, y, z>>[3] = z
OBVIOUS

\* An engine step that leaves three frames in the place of its own.
LEMMA ThreeFrames ==
  ASSUME TypeOK, ctl # <<>>, NEW x \in Frame, NEW y \in Frame, NEW z \in Frame, Becomes(<<x, y, z>>)
  PROVE  /\ Rests(ctl, ctl', 3, 1) /\ ctl'[1] = x /\ ctl'[2] = y /\ ctl'[3] = z
         /\ 1 \in Place' /\ 2 \in Place' /\ 3 \in Place'
         /\ \A k \in Place' : k <= 3 => k = 1 \/ k = 2 \/ k = 3
<1>1. /\ <<x, y, z>> \in Seq(Frame) /\ Len(<<x, y, z>>) = 3
      /\ <<x, y, z>>[1] = x /\ <<x, y, z>>[2] = y /\ <<x, y, z>>[3] = z
  BY Frames3
<1>2. /\ Rests(ctl, ctl', Len(<<x, y, z>>), 1)
      /\ \A k \in 1..Len(<<x, y, z>>) : ctl'[k] = <<x, y, z>>[k]
  BY <1>1, BecomesRest DEF Becomes
<1>3. Rests(ctl, ctl', 3, 1) /\ ctl'[1] = x /\ ctl'[2] = y /\ ctl'[3] = z
  BY <1>1, <1>2
<1>4. Len(ctl) \in Nat /\ Len(ctl) > 0
  BY TopFrame
<1>5. 1 \in Place' /\ 2 \in Place' /\ 3 \in Place'
  BY <1>3, <1>4 DEF Rests, Place
<1> QED BY <1>3, <1>5 DEF Place

\* A behaviour hands its actions to the call that deletes it.
LEMMA MovesOver ==
  ASSUME IInv, NEW m \in Nat, NEW p \in Nat, Rests(ctl, ctl', m, p), NEW b \in Bots,
         1 \in Place', 1 <= m, ctl'[1].as = inside[b], ctl'[1].b = b,
         \A i \in Place : i <= p => ctl[i].as = {},
         \A k \in Place' : k <= m /\ k # 1 => ctl'[k].as = {},
         inside' = [inside EXCEPT ![b] = {}],
         UNCHANGED <<made, pend, loose>>
  PROVE  OwnInv' /\ Budget'
<1>1. TypeOK /\ OwnInv /\ Budget
  BY DEF IInv
<1>2. \A k \in Place' : ctl'[k].as # {} /\ k # 1 =>
        \E i \in Place : i > p /\ k = i + m - p /\ Same(ctl'[k], ctl[i])
  <2> SUFFICES ASSUME NEW k \in Place', ctl'[k].as # {}, k # 1
               PROVE  \E i \in Place : i > p /\ k = i + m - p /\ Same(ctl'[k], ctl[i])
    OBVIOUS
  <2>1. k > m
    BY DEF Place
  <2> QED BY <2>1, Places
<1>3. \A i \in Place : ctl[i].as # {} => \E k \in Place' : k # 1 /\ Same(ctl'[k], ctl[i])
  <2> SUFFICES ASSUME NEW i \in Place, ctl[i].as # {}
               PROVE  \E k \in Place' : k # 1 /\ Same(ctl'[k], ctl[i])
    OBVIOUS
  <2>1. i > p
    BY DEF Place
  <2>2. PICK k \in Place' : k > m /\ k = i + m - p /\ Same(ctl'[k], ctl[i])
    BY <2>1, Places
  <2>3. k # 1
    BY <2>2
  <2> QED BY <2>2, <2>3
<1>4. \A a : Held(a)' <=> Held(a) \/ a \in inside[b]
  <2>1. \A a : Held(a)' => Held(a) \/ a \in inside[b]
    BY <1>2 DEF Held, Same
  <2>2. \A a : Held(a) => Held(a)'
    BY <1>3 DEF Held, Same
  <2>3. \A a \in inside[b] : Held(a)'
    BY DEF Held
  <2> QED BY <2>1, <2>2, <2>3
<1>5. \A c \in Bots : inside'[c] = IF c = b THEN {} ELSE inside[c]
  BY <1>1 DEF TypeOK
<1>6. \A a : Housed(a)' <=> Housed(a) /\ a \notin inside[b]
  <2>1. \A c \in Bots : \A a \in inside[c] : a \in inside[b] => c = b
    BY <1>1 DEF OwnInv, Apart
  <2> QED BY <1>5, <2>1 DEF Housed
<1>7. \A a \in inside[b] : Housed(a) /\ ~Held(a)
  BY <1>1 DEF OwnInv, Owned, OwnedAt, Housed, TypeOK
<1>8. \A j, k \in Place' : \A a \in ctl'[j].as : a \in ctl'[k].as => j = k
  <2> SUFFICES ASSUME NEW j \in Place', NEW k \in Place', NEW a \in ctl'[j].as, a \in ctl'[k].as
               PROVE  j = k
    OBVIOUS
  <2>1. CASE a \in inside[b]
    <3>1. j = 1
      BY <1>2, <1>7, <2>1 DEF Held, Same
    <3>2. k = 1
      BY <1>2, <1>7, <2>1 DEF Held, Same
    <3> QED BY <3>1, <3>2
  <2>2. CASE a \notin inside[b]
    <3>1. PICK h \in Place : j = h + m - p /\ Same(ctl'[j], ctl[h])
      BY <1>2, <2>2
    <3>2. PICK i \in Place : k = i + m - p /\ Same(ctl'[k], ctl[i])
      BY <1>2, <2>2
    <3>3. h = i
      BY <1>1, <3>1, <3>2 DEF OwnInv, Apart, Same
    <3> QED BY <3>1, <3>2, <3>3
  <2> QED BY <2>1, <2>2
<1>9. live' = live /\ \A a : Wanted(a)' <=> Wanted(a)
  BY DEF live, Wanted
<1>10. OwnInv'
  <2>1. Owned'
    <3> SUFFICES ASSUME NEW a \in Actions PROVE OwnedAt(a)'
      BY DEF Owned
    <3>1. OwnedAt(a)
      BY <1>1 DEF OwnInv, Owned
    <3> QED BY <1>4, <1>6, <1>7, <1>9, <3>1 DEF OwnedAt
  <2>2. \A c, d \in Bots : \A a \in inside'[c] : a \in inside'[d] => c = d
    BY <1>1, <1>5 DEF OwnInv, Apart
  <2> QED BY <1>1, <1>8, <2>1, <2>2 DEF OwnInv, Apart
<1>11. Mindless' \subseteq Mindless
  <2>1. ctl' \in Seq(Frame)
    BY DEF Rests
  <2>2. ASSUME NEW c \in Bots, c \in Mindless' PROVE c \in Mindless
    <3>1. \A i \in Place : ctl[i].b = c => ctl[i].as = {}
      BY <1>3, <2>1, <2>2, NextFramesAre DEF Same
    <3>2. inside'[c] = {} /\ (c = b => inside[b] = {})
      BY <2>1, <2>2, NextFramesAre
    <3>3. inside[c] = {}
      BY <1>5, <3>2
    <3> QED BY <1>1, <3>1, <3>3, FramesAre
  <2> QED BY <2>2 DEF Mindless
<1> QED BY <1>1, <1>9, <1>10, <1>11, BudgetShrinks

\* A reset inside a reset keeps the invariant: it returns at once.
LEMMA ResetBeginRefused ==
  ASSUME IInv, ctl # <<>>, Top.op = "reset", resetting[Top.b], Becomes(<<>>),
         UNCHANGED <<factory, declared, bot, initial, behavior, resetting, inside, made, loose, pend>>
  PROVE  IInv'
<1>1. TypeOK /\ StackInv /\ Minded
  BY DEF IInv, RetireInv
<1>2. Rests(ctl, ctl', 0, 1) /\ Top = ctl[1] /\ ctl[1].op = "reset" /\ 1 \in Place
  BY <1>1, Pops, TopFrame
<1>3. ctl[1].as = {}
  BY <1>1, <1>2 DEF StackInv, FramesFit, FitAt
<1>4. OwnInv' /\ Budget'
  BY <1>2, <1>3, PopNothing
<1>5. StackInv' /\ RetireInv'
  BY <1>1, <1>2, PopQuiet DEF Minded
<1>6. TypeOK'
  BY <1>1, <1>2 DEF TypeOK, Rests
<1> QED BY <1>4, <1>5, <1>6 DEF IInv

\* The reset of a bot begins, m frames in the place of its own.
LEMMA ResetBegins ==
  ASSUME IInv, ctl # <<>>, ctl[1].op = "reset", ~resetting[ctl[1].b],
         NEW m \in Nat, Rests(ctl, ctl', m, 1),
         \A k \in Place' : k <= m => FitAt(k)' /\ OnTop(k)' /\ NestedAt(k, 0, 0)',
         \A j, k \in Place' : j <= m /\ k <= m => SingleAt(j, k)',
         \A k \in Place' : k <= m => ctl'[k].b = ctl[1].b /\ ctl'[k].bs = {},
         \A k \in Place' : k <= m => ctl'[k].op \in {"onEnd", "init", "endReset"},
         \E k \in Place' : k <= m /\ ctl'[k].op = "endReset",
         behavior' = [behavior EXCEPT ![ctl[1].b] = FALSE],
         inside' = [inside EXCEPT ![ctl[1].b] = {}],
         resetting' = [resetting EXCEPT ![ctl[1].b] = TRUE],
         UNCHANGED <<factory, declared, bot, initial, made, loose, pend>>
  PROVE  TypeOK' /\ StackInv' /\ RetireInv'
<1> DEFINE b == ctl[1].b
<1>1. TypeOK /\ StackInv /\ Minded /\ Severed /\ FactoryOutlivesActions
  BY DEF IInv, RetireInv
<1>2. 1 \in Place
  BY <1>1, TopFrame
<1>3. b \in Bots
  BY <1>1, <1>2 DEF StackInv, FramesFit, FitAt
<1>4. \A c \in Bots : /\ behavior'[c] = IF c = b THEN FALSE ELSE behavior[c]
                      /\ inside'[c] = IF c = b THEN {} ELSE inside[c]
                      /\ resetting'[c] = IF c = b THEN TRUE ELSE resetting[c]
  BY <1>1, <1>3 DEF TypeOK
<1>5. \A i \in Place : i > 1 /\ ctl[i].op \in Starting => ctl[i].b \in Bots /\ ctl[i].b # b
  BY <1>1, <1>2 DEF StackInv, Nested, FramesFit, FitAt, Place
<1>6. \A i \in Place : i > 1 => Quiet(i) /\ Unmoved(i)
  BY <1>1, <1>2, <1>4, <1>5, QuietBelow DEF Unmoved
<1>7. \A i \in Place : ctl[i].op = "endReset" => ctl[i].b # b
  BY <1>1, <1>3 DEF StackInv, Resets
<1>8. StackInv'
  <2>1. \A k \in Place' : k <= m => \A i \in Place : i > 1 => ~Clash(ctl'[k], ctl[i])
    BY <1>5, <1>7 DEF Clash, Retiring, Starting
  <2>2. \A k \in Place' : k <= m => \A i \in Place : i > 1 =>
           (ctl[i].op \in Starting /\ ~resetting[ctl[i].b] =>
             ctl[i].b \notin ctl'[k].bs /\ ~(ctl'[k].op = "reset" /\ ctl'[k].b = ctl[i].b))
    OBVIOUS
  <2>3. \A i \in Place : i <= 1 => ctl[i].op # "endReset"
    BY <1>2 DEF Place
  <2>4. \A c \in Bots : resetting'[c] <=>
           \/ resetting[c]
           \/ \E k \in Place' : k <= m /\ ctl'[k].op = "endReset" /\ ctl'[k].b = c
    <3>1. \E k \in Place' : k <= m /\ ctl'[k].op = "endReset" /\ ctl'[k].b = b
      OBVIOUS
    <3>2. \A k \in Place' : k <= m => ctl'[k].b = b
      OBVIOUS
    <3> HIDE DEF b
    <3> QED BY ONLY <1>4, <3>1, <3>2
  <2> QED BY <1>1, <1>6, <2>1, <2>2, <2>3, <2>4, PushedStack
<1>9. Minded'
  <2>1. \A k \in Place' : k <= m /\ ctl'[k].op \in Starting => inside'[ctl'[k].b] = {}
    <3>1. inside'[b] = {}
      BY <1>3, <1>4
    <3>2. \A k \in Place' : k <= m => ctl'[k].b = b
      OBVIOUS
    <3> HIDE DEF b
    <3> QED BY ONLY <3>1, <3>2
  <2>2. \A c \in Bots : inside'[c] \subseteq inside[c]
    BY <1>4
  <2>3. \A c \in Bots : inside'[c] # {} => /\ behavior'[c] = behavior[c] /\ bot'[c] = bot[c]
                                           /\ resetting'[c] => resetting[c]
    BY <1>4
  <2> QED BY <2>1, <2>2, <2>3, PushMinded
<1>10. \A k \in Place' : StartedAt(k)' /\ RetiredAt(k)'
  <2>1. \A c \in Bots : \A a \in inside'[c] :
           /\ a \in inside[c] /\ made'[a] = made[a]
           /\ 1 \in Place /\ ctl[1].op = "reset" /\ ctl[1].b = c => ctl'[1].op = "reset" /\ ctl'[1].b = c
    <3>1. \A c \in Bots : \A a \in inside'[c] : c # b /\ a \in inside[c]
      <4> HIDE DEF b
      <4> QED BY ONLY <1>4
    <3>2. made' = made
      OBVIOUS
    <3> QED BY ONLY <3>1, <3>2
  <2>2. \A k \in Place' : k > m => StartedAt(k)' /\ RetiredAt(k)'
    BY <2>1, PushRetire
  <2>3. \A k \in Place' : k <= m => StartedAt(k)' /\ RetiredAt(k)'
    BY DEF StartedAt, RetiredAt, Retiring
  <2>4. \A k \in Place' : k <= m \/ k > m
    BY DEF Place
  <2> QED BY <2>2, <2>3, <2>4
<1>11. Started' /\ Retired'
  BY <1>10 DEF StartedAt, RetiredAt, Started, Retired
<1>12. Severed' /\ FactoryOutlivesActions'
  BY <1>1 DEF Severed, Intentions, FactoryOutlivesActions, live
<1>13. TypeOK'
  BY <1>1 DEF TypeOK, Rests
<1> QED BY <1>8, <1>9, <1>11, <1>12, <1>13 DEF RetireInv

\* The frames of resets and removals.
LEMMA ResetFrames ==
  ASSUME NEW b \in Bots
  PROVE  /\ Do("init", b, None) \in Frame /\ Do("init", b, None).op = "init"
         /\ Do("init", b, None).b = b /\ Do("init", b, None).as = {} /\ Do("init", b, None).bs = {}
         /\ Do("endReset", b, None) \in Frame /\ Do("endReset", b, None).op = "endReset"
         /\ Do("endReset", b, None).b = b /\ Do("endReset", b, None).as = {} /\ Do("endReset", b, None).bs = {}
         /\ Do("free", b, None) \in Frame /\ Do("free", b, None).op = "free"
         /\ Do("free", b, None).b = b /\ Do("free", b, None).as = {} /\ Do("free", b, None).bs = {}
         /\ Do("onEnd", b, None) \in Frame /\ Do("onEnd", b, None).op = "onEnd"
         /\ Do("onEnd", b, None).b = b /\ Do("onEnd", b, None).as = {} /\ Do("onEnd", b, None).bs = {}
<1>1. /\ "init" \in Ops /\ "endReset" \in Ops /\ "free" \in Ops /\ "onEnd" \in Ops
      /\ b \in Bots \cup {None} /\ None \in Factories \cup {None}
  BY DEF Ops, Callbacks
<1> QED BY <1>1, DoFrame

\* Nothing to end: the bot has no behaviour.
LEMMA ResetBeginsEmpty ==
  ASSUME IInv, ctl # <<>>, Top.op = "reset", ~resetting[Top.b], ~behavior[Top.b],
         resetting' = [resetting EXCEPT ![Top.b] = TRUE], LettingGo(Top.b),
         Becomes(<<Do("init", Top.b, None), Do("endReset", Top.b, None)>>),
         UNCHANGED <<factory, declared, bot, initial, made, loose, pend>>
  PROVE  IInv'
<1> DEFINE b == ctl[1].b
           x == Do("init", b, None)
           y == Do("endReset", b, None)
<1>1. TypeOK /\ StackInv /\ Minded
  BY DEF IInv, RetireInv
<1>2. Top = ctl[1] /\ ctl[1].op = "reset" /\ 1 \in Place
  BY <1>1, TopFrame
<1>3. b \in Bots /\ bot[b] = "intention" /\ ctl[1].as = {} /\ ~behavior[b] /\ inside[b] = {}
  BY <1>1, <1>2 DEF StackInv, FramesFit, FitAt, Minded
<1>4. /\ x \in Frame /\ x.op = "init" /\ x.b = b /\ x.as = {} /\ x.bs = {}
      /\ y \in Frame /\ y.op = "endReset" /\ y.b = b /\ y.as = {} /\ y.bs = {}
  <2> HIDE DEF b
  <2> QED BY <1>3, ResetFrames
<1>5. Becomes(<<x, y>>)
  BY <1>2
<1> HIDE DEF x, y
<1>6. /\ Rests(ctl, ctl', 2, 1) /\ ctl'[1] = x /\ ctl'[2] = y
      /\ 1 \in Place' /\ 2 \in Place' /\ \A k \in Place' : k <= 2 => k = 1 \/ k = 2
  BY <1>1, <1>4, <1>5, TwoFrames
<1>7. /\ behavior' = [behavior EXCEPT ![b] = FALSE] /\ inside' = [inside EXCEPT ![b] = {}]
      /\ resetting' = [resetting EXCEPT ![b] = TRUE] /\ resetting'[b]
  BY <1>1, <1>2, <1>3 DEF LettingGo, TypeOK
<1>8. TypeOK' /\ StackInv' /\ RetireInv'
  <2>1. FitAt(1)' /\ OnTop(1)' /\ NestedAt(1, 0, 0)'
    BY <1>3, <1>4, <1>6, <1>7 DEF FitAt, OnTop, NestedAt, Starting, Retiring, Below
  <2>2. FitAt(2)' /\ OnTop(2)' /\ NestedAt(2, 0, 0)'
    BY <1>3, <1>4, <1>6 DEF FitAt, OnTop, NestedAt, Starting, Retiring
  <2>3. \A k \in Place' : k <= 2 => FitAt(k)' /\ OnTop(k)' /\ NestedAt(k, 0, 0)'
    BY <1>6, <2>1, <2>2
  <2>4. \A j, k \in Place' : j <= 2 /\ k <= 2 => SingleAt(j, k)'
    BY <1>4, <1>6 DEF SingleAt, Starting, Retiring
  <2>5. \A k \in Place' : k <= 2 => ctl'[k].b = ctl[1].b /\ ctl'[k].bs = {}
    BY <1>4, <1>6
  <2>6. \A k \in Place' : k <= 2 => ctl'[k].op \in {"onEnd", "init", "endReset"}
    BY <1>4, <1>6
  <2>7. \E k \in Place' : k <= 2 /\ ctl'[k].op = "endReset"
    BY <1>4, <1>6
  <2>8. ~resetting[ctl[1].b]
    BY <1>2
  <2> QED BY <1>2, <1>6, <1>7, <2>3, <2>4, <2>5, <2>6, <2>7, <2>8, ResetBegins
<1>9. OwnInv' /\ Budget'
  <2>1. \A i \in Place : i <= 1 => ctl[i].as = {}
    BY <1>3 DEF Place
  <2>2. \A k \in Place' : k <= 2 => ctl'[k].as = {}
    BY <1>4, <1>6
  <2>3. inside' = inside
    BY <1>1, <1>3, <1>7 DEF TypeOK
  <2> QED BY <1>6, <2>1, <2>2, <2>3, PushNothing
<1> QED BY <1>8, <1>9 DEF IInv

\* A reset that ends a behaviour keeps the invariant: the call holds its actions now.
LEMMA ResetBeginsEnding ==
  ASSUME IInv, ctl # <<>>, Top.op = "reset", ~resetting[Top.b], behavior[Top.b],
         resetting' = [resetting EXCEPT ![Top.b] = TRUE], LettingGo(Top.b),
         Becomes(<<[Do("onEnd", Top.b, None) EXCEPT !.as = inside[Top.b]],
                   Do("init", Top.b, None), Do("endReset", Top.b, None)>>),
         UNCHANGED <<factory, declared, bot, initial, made, loose, pend>>
  PROVE  IInv'
<1> DEFINE b == ctl[1].b
           d == Do("onEnd", b, None)
           w == [d EXCEPT !.as = inside[b]]
           x == Do("init", b, None)
           y == Do("endReset", b, None)
<1>1. TypeOK /\ StackInv /\ Minded
  BY DEF IInv, RetireInv
<1>2. Top = ctl[1] /\ ctl[1].op = "reset" /\ 1 \in Place
  BY <1>1, TopFrame
<1>3. b \in Bots /\ bot[b] = "intention" /\ ctl[1].as = {} /\ inside[b] \in SUBSET Actions
  BY <1>1, <1>2 DEF StackInv, FramesFit, FitAt, TypeOK
<1>4. /\ x \in Frame /\ x.op = "init" /\ x.b = b /\ x.as = {} /\ x.bs = {}
      /\ y \in Frame /\ y.op = "endReset" /\ y.b = b /\ y.as = {} /\ y.bs = {}
      /\ d \in Frame /\ d.op = "onEnd" /\ d.b = b /\ d.bs = {}
  <2> HIDE DEF b
  <2> QED BY <1>3, ResetFrames
<1>5. Becomes(<<w, x, y>>)
  BY <1>2
<1> HIDE DEF d, x, y
<1>6. w \in Frame /\ w.op = "onEnd" /\ w.b = b /\ w.as = inside[b] /\ w.bs = {}
  <2> HIDE DEF b
  <2> QED BY <1>3, <1>4 DEF Frame
<1> HIDE DEF w
<1>7. /\ Rests(ctl, ctl', 3, 1) /\ ctl'[1] = w /\ ctl'[2] = x /\ ctl'[3] = y
      /\ 1 \in Place' /\ 2 \in Place' /\ 3 \in Place'
      /\ \A k \in Place' : k <= 3 => k = 1 \/ k = 2 \/ k = 3
  BY <1>1, <1>4, <1>5, <1>6, ThreeFrames
<1>8. /\ behavior' = [behavior EXCEPT ![b] = FALSE] /\ inside' = [inside EXCEPT ![b] = {}]
      /\ resetting' = [resetting EXCEPT ![b] = TRUE] /\ resetting'[b]
  BY <1>1, <1>2, <1>3 DEF LettingGo, TypeOK
<1>9. TypeOK' /\ StackInv' /\ RetireInv'
  <2>1. FitAt(1)' /\ OnTop(1)' /\ NestedAt(1, 0, 0)'
    BY <1>3, <1>4, <1>6, <1>7 DEF FitAt, OnTop, NestedAt, Starting, Retiring, Below
  <2>2. FitAt(2)' /\ OnTop(2)' /\ NestedAt(2, 0, 0)'
    BY <1>3, <1>4, <1>7, <1>8 DEF FitAt, OnTop, NestedAt, Starting, Retiring, Below
  <2>3. FitAt(3)' /\ OnTop(3)' /\ NestedAt(3, 0, 0)'
    BY <1>3, <1>4, <1>7 DEF FitAt, OnTop, NestedAt, Starting, Retiring
  <2>4. \A k \in Place' : k <= 3 => FitAt(k)' /\ OnTop(k)' /\ NestedAt(k, 0, 0)'
    BY <1>7, <2>1, <2>2, <2>3
  <2>5. \A j, k \in Place' : j <= 3 /\ k <= 3 => SingleAt(j, k)'
    BY <1>4, <1>6, <1>7 DEF SingleAt, Starting, Retiring
  <2>6. \A k \in Place' : k <= 3 => ctl'[k].b = ctl[1].b /\ ctl'[k].bs = {}
    BY <1>4, <1>6, <1>7
  <2>7. \A k \in Place' : k <= 3 => ctl'[k].op \in {"onEnd", "init", "endReset"}
    BY <1>4, <1>6, <1>7
  <2>8. \E k \in Place' : k <= 3 /\ ctl'[k].op = "endReset"
    BY <1>4, <1>7
  <2>9. ~resetting[ctl[1].b]
    BY <1>2
  <2> QED BY <1>2, <1>7, <1>8, <2>4, <2>5, <2>6, <2>7, <2>8, <2>9, ResetBegins
<1>10. OwnInv' /\ Budget'
  <2>1. \A i \in Place : i <= 1 => ctl[i].as = {}
    BY <1>3 DEF Place
  <2>2. \A k \in Place' : k <= 3 /\ k # 1 => ctl'[k].as = {}
    BY <1>4, <1>7
  <2>3. ctl'[1].as = inside[b] /\ ctl'[1].b = b
    BY <1>6, <1>7
  <2>4. IInv /\ UNCHANGED <<made, pend, loose>> /\ 1 <= 3 /\ 3 \in Nat /\ 1 \in Nat
    OBVIOUS
  <2>5. b \in Bots /\ Rests(ctl, ctl', 3, 1) /\ 1 \in Place' /\ inside' = [inside EXCEPT ![b] = {}]
    BY <1>3, <1>7, <1>8
  <2> HIDE DEF b
  <2> QED BY ONLY <2>1, <2>2, <2>3, <2>4, <2>5, MovesOver
<1> QED BY <1>9, <1>10 DEF IInv

\* What Ending puts on the stack.
LEMMA Endings ==
  ASSUME NEW x \in Frame, NEW y \in Frame, NEW z \in Frame
  PROVE  /\ <<x>> \o <<y, z>> = <<x, y, z>> /\ <<>> \o <<y, z>> = <<y, z>>
         /\ <<x>> \o <<y>> = <<x, y>> /\ <<>> \o <<y>> = <<y>>
<1>1. <<x>> \o <<y, z>> = <<x, y, z>>
  <2>1. <<x>> \in Seq(Frame) /\ <<y, z>> \in Seq(Frame) /\ <<x, y, z>> \in Seq(Frame)
        /\ Len(<<x>>) = 1 /\ Len(<<y, z>>) = 2 /\ Len(<<x, y, z>>) = 3
    OBVIOUS
  <2>2. /\ <<x>> \o <<y, z>> \in Seq(Frame) /\ Len(<<x>> \o <<y, z>>) = 3
    BY <2>1
  <2>3. \A k \in 1..3 : (<<x>> \o <<y, z>>)[k] = <<x, y, z>>[k]
    OBVIOUS
  <2> QED BY <2>1, <2>2, <2>3, SeqEqual
<1>2. <<>> \o <<y, z>> = <<y, z>>
  OBVIOUS
<1>3. <<x>> \o <<y>> = <<x, y>>
  <2>1. <<x>> \in Seq(Frame) /\ <<y>> \in Seq(Frame) /\ <<x, y>> \in Seq(Frame)
        /\ Len(<<x>>) = 1 /\ Len(<<y>>) = 1 /\ Len(<<x, y>>) = 2
    OBVIOUS
  <2>2. /\ <<x>> \o <<y>> \in Seq(Frame) /\ Len(<<x>> \o <<y>>) = 2
    BY <2>1
  <2>3. \A k \in 1..2 : (<<x>> \o <<y>>)[k] = <<x, y>>[k]
    OBVIOUS
  <2> QED BY <2>1, <2>2, <2>3, SeqEqual
<1>4. <<>> \o <<y>> = <<y>>
  OBVIOUS
<1> QED BY <1>1, <1>2, <1>3, <1>4

\* ResetBegin keeps the invariant.
LEMMA ResetBeginKeeps ==
  ASSUME IInv, ResetBegin
  PROVE  IInv'
<1> DEFINE b == Top.b
           w == [Do("onEnd", b, None) EXCEPT !.as = inside[b]]
           x == Do("init", b, None)
           y == Do("endReset", b, None)
<1>1. /\ ctl # <<>> /\ Top.op = "reset"
      /\ UNCHANGED <<factory, declared, bot, initial, made, loose, pend>>
  BY DEF ResetBegin, Running, pool
<1>2. CASE resetting[b]
  <2>1. Becomes(<<>>) /\ UNCHANGED <<behavior, resetting, inside>>
    BY <1>2 DEF ResetBegin
  <2> QED BY <1>1, <1>2, <2>1, ResetBeginRefused
<1>3. CASE ~resetting[b]
  <2>1. /\ resetting' = [resetting EXCEPT ![b] = TRUE] /\ LettingGo(b)
        /\ Becomes(Ending(b) \o <<x, y>>)
    BY <1>3 DEF ResetBegin
  <2>2. b \in Bots /\ x \in Frame /\ y \in Frame
    <3>1. TypeOK /\ StackInv
      BY DEF IInv
    <3>2. Top = ctl[1] /\ 1 \in Place
      BY <1>1, <3>1, TopFrame
    <3>3. b \in Bots
      BY <1>1, <3>1, <3>2 DEF StackInv, FramesFit, FitAt
    <3> HIDE DEF b
    <3> QED BY <3>3, ResetFrames
  <2>3. CASE behavior[b]
    <3>1. Do("onEnd", b, None) \in Frame /\ inside[b] \in SUBSET Actions
      <4> HIDE DEF b
      <4> QED BY <2>2, ResetFrames DEF IInv, TypeOK
    <3>2. w \in Frame
      <4> HIDE DEF b
      <4> QED BY <3>1 DEF Frame
    <3>3. Ending(b) = <<w>>
      BY <2>3 DEF Ending
    <3>4. <<w>> \o <<x, y>> = <<w, x, y>>
      <4> HIDE DEF w, x, y
      <4> QED BY <2>2, <3>2, Endings
    <3>5. Becomes(<<w, x, y>>)
      BY <2>1, <3>3, <3>4
    <3> QED BY <1>1, <1>3, <2>1, <2>3, <3>5, ResetBeginsEnding
  <2>4. CASE ~behavior[b]
    <3>1. Ending(b) = <<>>
      BY <2>4 DEF Ending
    <3>2. <<>> \o <<x, y>> = <<x, y>>
      <4> HIDE DEF x, y
      <4> QED BY <2>2, Endings
    <3>3. Becomes(<<x, y>>)
      BY <2>1, <3>1, <3>2
    <3> QED BY <1>1, <1>3, <2>1, <2>4, <3>3, ResetBeginsEmpty
  <2> QED BY <2>3, <2>4
<1> QED BY <1>2, <1>3

\* A bot goes: m frames on top of the caller.
LEMMA Removes ==
  ASSUME IInv, CallsBack \subseteq Survivable, PluginCode("remove"),
         NEW b \in Bots, bot[b] = "intention", b \notin Busy,
         NEW m \in Nat, Rests(ctl, ctl', m, 0),
         \A k \in Place' : k <= m => FitAt(k)' /\ OnTop(k)' /\ NestedAt(k, 0, 0)',
         \A j, k \in Place' : j <= m /\ k <= m => SingleAt(j, k)',
         \A k \in Place' : k <= m => ctl'[k].b = b /\ ctl'[k].bs = {},
         \A k \in Place' : k <= m => ctl'[k].op \in {"onEnd", "free"},
         bot' = [bot EXCEPT ![b] = "removing"], LettingGo(b),
         UNCHANGED <<factory, declared, initial, resetting, made, loose, pend>>
  PROVE  TypeOK' /\ StackInv' /\ RetireInv'
<1>1. TypeOK /\ StackInv /\ Minded /\ Severed /\ FactoryOutlivesActions
  BY DEF IInv, RetireInv
<1>2. /\ \A i \in Place : Quiet(i)
      /\ 1 \in Place => ctl[1].op \in {"initialAction", "onEnd"}
      /\ ctl # <<>> => ctl[1].op \in {"initialAction", "onEnd"}
  BY <1>1, CallerQuiet
<1>3. \A i \in Place : ctl[i].b # b
  BY <1>1, FramesAre, ConstantsOK
<1>4. \A c \in Bots : /\ behavior'[c] = IF c = b THEN FALSE ELSE behavior[c]
                      /\ inside'[c] = IF c = b THEN {} ELSE inside[c]
                      /\ bot'[c] = IF c = b THEN "removing" ELSE bot[c]
  BY <1>1 DEF TypeOK, LettingGo
<1>5. /\ behavior' \in [Bots -> BOOLEAN] /\ inside' \in [Bots -> SUBSET Actions]
      /\ bot' \in [Bots -> {"none", "entity", "intention", "removing"}]
  BY <1>1 DEF TypeOK, LettingGo
<1>6. \A i \in Place : i > 0 => Quiet(i) /\ Unmoved(i)
  <2>1. \A i \in Place : ctl[i].op \in {"attachBot", "construct", "reset", "endReset", "free"} \cup Starting =>
          ctl[i].b \in Bots
    BY <1>1 DEF StackInv, FramesFit, FitAt
  <2> QED BY <1>2, <1>3, <1>4, <2>1 DEF Unmoved
<1>7. StackInv'
  <2>1. \A k \in Place' : k <= m => \A i \in Place : i > 0 => ~Clash(ctl'[k], ctl[i])
    BY <1>3 DEF Clash, Retiring, Starting
  <2>2. \A k \in Place' : k <= m => \A i \in Place : i > 0 =>
           (ctl[i].op \in Starting /\ ~resetting[ctl[i].b] =>
             ctl[i].b \notin ctl'[k].bs /\ ~(ctl'[k].op = "reset" /\ ctl'[k].b = ctl[i].b))
    OBVIOUS
  <2>3. \A i \in Place : i <= 0 => ctl[i].op # "endReset"
    BY DEF Place
  <2>4. \A c \in Bots : resetting'[c] <=>
           \/ resetting[c]
           \/ \E k \in Place' : k <= m /\ ctl'[k].op = "endReset" /\ ctl'[k].b = c
    OBVIOUS
  <2> QED BY <1>1, <1>6, <2>1, <2>2, <2>3, <2>4, PushedStack
<1>8. Minded'
  <2>1. \A k \in Place' : k <= m /\ ctl'[k].op \in Starting => inside'[ctl'[k].b] = {}
    BY DEF Starting
  <2>2. \A c \in Bots : inside'[c] \subseteq inside[c]
    BY <1>4
  <2>3. \A c \in Bots : inside'[c] # {} => /\ behavior'[c] = behavior[c] /\ bot'[c] = bot[c]
                                           /\ resetting'[c] => resetting[c]
    BY <1>4
  <2>4. ctl # <<>> => ctl[1].op # "endReset"
    BY <1>2
  <2> QED BY <2>1, <2>2, <2>3, <2>4, PushMinded
<1>9. \A k \in Place' : StartedAt(k)' /\ RetiredAt(k)'
  <2>1. \A c \in Bots : \A a \in inside'[c] :
           /\ a \in inside[c] /\ made'[a] = made[a]
           /\ 1 \in Place /\ ctl[1].op = "reset" /\ ctl[1].b = c => ctl'[1].op = "reset" /\ ctl'[1].b = c
    BY <1>2, <1>4
  <2>2. \A k \in Place' : k > m => StartedAt(k)' /\ RetiredAt(k)'
    BY <2>1, PushRetire
  <2>3. \A k \in Place' : k <= m => StartedAt(k)' /\ RetiredAt(k)'
    BY DEF StartedAt, RetiredAt, Retiring
  <2>4. \A k \in Place' : k <= m \/ k > m
    BY DEF Place
  <2> QED BY <2>2, <2>3, <2>4
<1>10. Started' /\ Retired'
  BY <1>9 DEF StartedAt, RetiredAt, Started, Retired
<1>11. Severed' /\ FactoryOutlivesActions'
  BY <1>1, <1>4 DEF Severed, Intentions, FactoryOutlivesActions, live
<1>12. TypeOK'
  BY <1>1, <1>5 DEF TypeOK, Rests
<1> QED BY <1>7, <1>8, <1>10, <1>11, <1>12 DEF RetireInv

\* Remove keeps the invariant.
LEMMA RemoveKeeps ==
  ASSUME IInv, CallsBack \subseteq Survivable, NEW b \in Bots, Remove(b)
  PROVE  IInv'
<1> DEFINE d == Do("onEnd", b, None)
           w == [d EXCEPT !.as = inside[b]]
           y == Do("free", b, None)
<1>1. /\ TypeOK /\ StackInv /\ Minded
      /\ PluginCode("remove") /\ bot[b] = "intention" /\ b \notin Busy
      /\ bot' = [bot EXCEPT ![b] = "removing"] /\ LettingGo(b)
      /\ Calls(Ending(b) \o <<y>>)
      /\ UNCHANGED <<factory, declared, initial, resetting, made, loose, pend>>
  BY DEF Remove, IInv, RetireInv, Intentions, pool
<1>2. ctl # <<>> => Top.n > 0
  BY <1>1 DEF PluginCode
<1>3. /\ y \in Frame /\ y.op = "free" /\ y.b = b /\ y.as = {} /\ y.bs = {}
      /\ d \in Frame /\ d.op = "onEnd" /\ d.b = b /\ d.bs = {} /\ inside[b] \in SUBSET Actions
  BY <1>1, ResetFrames DEF TypeOK
<1> HIDE DEF d, y
<1>4. w \in Frame /\ w.op = "onEnd" /\ w.b = b /\ w.as = inside[b] /\ w.bs = {}
  BY <1>3 DEF Frame
<1>5. /\ inside' = [inside EXCEPT ![b] = {}] /\ bot'[b] = "removing"
  BY <1>1 DEF LettingGo, TypeOK
<1>6. CASE behavior[b]
  <2>1. Calls(<<w, y>>)
    <3>1. Ending(b) = <<w>>
      BY <1>6 DEF Ending, d
    <3>2. <<w>> \o <<y>> = <<w, y>>
      <4> HIDE DEF w
      <4> QED BY <1>3, <1>4, Endings
    <3> QED BY <1>1, <3>1, <3>2
  <2> HIDE DEF w
  <2>2. /\ Rests(ctl, ctl', 2, 0) /\ ctl'[1] = w /\ ctl'[2] = y
        /\ 1 \in Place' /\ 2 \in Place' /\ \A k \in Place' : k <= 2 => k = 1 \/ k = 2
    BY <1>1, <1>2, <1>3, <1>4, <2>1, TwoCalls
  <2>3. TypeOK' /\ StackInv' /\ RetireInv'
    <3>1. FitAt(1)' /\ OnTop(1)' /\ NestedAt(1, 0, 0)'
      BY <1>3, <1>4, <2>2 DEF FitAt, OnTop, NestedAt, Starting, Retiring, Below
    <3>2. FitAt(2)' /\ OnTop(2)' /\ NestedAt(2, 0, 0)'
      BY <1>3, <1>5, <2>2 DEF FitAt, OnTop, NestedAt, Starting, Retiring
    <3>3. \A k \in Place' : k <= 2 => FitAt(k)' /\ OnTop(k)' /\ NestedAt(k, 0, 0)'
      BY <2>2, <3>1, <3>2
    <3>4. \A j, k \in Place' : j <= 2 /\ k <= 2 => SingleAt(j, k)'
      BY <1>3, <1>4, <2>2 DEF SingleAt, Starting, Retiring
    <3>5. \A k \in Place' : k <= 2 => ctl'[k].b = b /\ ctl'[k].bs = {}
      BY <1>3, <1>4, <2>2
    <3>6. \A k \in Place' : k <= 2 => ctl'[k].op \in {"onEnd", "free"}
      BY <1>3, <1>4, <2>2
    <3> QED BY <1>1, <2>2, <3>3, <3>4, <3>5, <3>6, Removes
  <2>4. OwnInv' /\ Budget'
    <3>1. \A i \in Place : i <= 0 => ctl[i].as = {}
      BY DEF Place
    <3>2. \A k \in Place' : k <= 2 /\ k # 1 => ctl'[k].as = {}
      BY <1>3, <2>2
    <3>3. ctl'[1].as = inside[b] /\ ctl'[1].b = b
      BY <1>4, <2>2
    <3>4. IInv /\ UNCHANGED <<made, pend, loose>> /\ 1 <= 2 /\ 2 \in Nat /\ 0 \in Nat
      BY <1>1
    <3>5. b \in Bots /\ Rests(ctl, ctl', 2, 0) /\ 1 \in Place' /\ inside' = [inside EXCEPT ![b] = {}]
      BY <1>5, <2>2
    <3> QED BY ONLY <3>1, <3>2, <3>3, <3>4, <3>5, MovesOver
  <2> QED BY <2>3, <2>4 DEF IInv
<1>7. CASE ~behavior[b]
  <2>1. Calls(<<y>>)
    <3>1. Ending(b) = <<>>
      BY <1>7 DEF Ending
    <3>2. <<>> \o <<y>> = <<y>>
      BY <1>3, Endings
    <3> QED BY <1>1, <3>1, <3>2
  <2>2. /\ Rests(ctl, ctl', 1, 0) /\ ctl'[1] = y
        /\ 1 \in Place' /\ \A k \in Place' : k <= 1 => k = 1
    BY <1>1, <1>2, <1>3, <2>1, OneCall
  <2>3. TypeOK' /\ StackInv' /\ RetireInv'
    <3>1. \A k \in Place' : k <= 1 => FitAt(k)' /\ OnTop(k)' /\ NestedAt(k, 0, 0)'
      BY <1>3, <1>5, <2>2 DEF FitAt, OnTop, NestedAt, Starting, Retiring
    <3>2. \A j, k \in Place' : j <= 1 /\ k <= 1 => SingleAt(j, k)'
      BY <2>2 DEF SingleAt
    <3>3. \A k \in Place' : k <= 1 => ctl'[k].b = b /\ ctl'[k].bs = {}
      BY <1>3, <2>2
    <3>4. \A k \in Place' : k <= 1 => ctl'[k].op \in {"onEnd", "free"}
      BY <1>3, <2>2
    <3> QED BY <1>1, <2>2, <3>1, <3>2, <3>3, <3>4, Removes
  <2>4. OwnInv' /\ Budget'
    <3>1. \A i \in Place : i <= 0 => ctl[i].as = {}
      BY DEF Place
    <3>2. \A k \in Place' : k <= 1 => ctl'[k].as = {}
      BY <1>3, <2>2
    <3>3. inside' = inside
      BY <1>1, <1>5, <1>7 DEF TypeOK, Minded
    <3> QED BY <1>1, <2>2, <3>1, <3>2, <3>3, PushNothing
  <2> QED BY <2>3, <2>4 DEF IInv
<1> QED BY <1>6, <1>7

\* Close keeps the invariant: the snapshot has every bot that uses the factory.
LEMMA CloseKeeps ==
  ASSUME IInv, CallsBack \subseteq Survivable, NEW f \in Factories, Close(f)
  PROVE  IInv'
<1> DEFINE users == {b \in Intentions : UsesActionFactory(b, f)}
           d == Do("resetUsers", None, f)
           x == [d EXCEPT !.bs = users]
<1>1. /\ TypeOK /\ StackInv /\ Minded /\ Started /\ Severed /\ FactoryOutlivesActions
      /\ PluginCode("close") /\ factory[f] = "alive" /\ ~Exposed(f)
      /\ factory' = [factory EXCEPT ![f] = "destroying"]
      /\ declared' = [c \in Classes |-> IF declared[c] = f THEN None ELSE declared[c]]
      /\ initial' = [b \in Bots |->
           IF b \in Intentions /\ initial[b] = f THEN None ELSE initial[b]]
      /\ Calls(<<x>>)
      /\ UNCHANGED <<bot, behavior, resetting, inside, made, loose, pend>>
  BY DEF Close, IInv, RetireInv, pool
<1>2. /\ ctl # <<>> => Top.n > 0
      /\ \A i \in Place : Quiet(i)
      /\ 1 \in Place => ctl[1].op \in {"initialAction", "onEnd"}
      /\ ctl # <<>> => ctl[1].op \in {"initialAction", "onEnd"}
  BY <1>1, CallerQuiet
<1>3. users \subseteq Bots
  BY DEF Intentions
<1>4. d \in Frame /\ d.op = "resetUsers" /\ d.f = f /\ d.as = {}
  <2>1. "resetUsers" \in Ops /\ None \in Bots \cup {None} /\ f \in Factories \cup {None}
    BY DEF Ops
  <2> QED BY <2>1, DoFrame
<1> HIDE DEF d, users
<1>5. x \in Frame /\ x.op = "resetUsers" /\ x.f = f /\ x.as = {} /\ x.bs = users
  BY <1>3, <1>4 DEF Frame
<1> HIDE DEF x
<1>6. /\ Rests(ctl, ctl', 1, 0) /\ ctl'[1] = x
      /\ 1 \in Place' /\ \A k \in Place' : k <= 1 => k = 1
  BY <1>1, <1>2, <1>5, OneCall
<1>7. /\ \A g \in Factories : factory'[g] = IF g = f THEN "destroying" ELSE factory[g]
      /\ \A b \in Bots : b \in users <=> bot[b] = "intention" /\ UsesActionFactory(b, f)
  BY <1>1 DEF TypeOK, users, Intentions
<1>8. \A a : Held(a) => made[a] # f
  BY <1>1, FramesAre DEF Exposed
<1>9. \A i \in Place : ctl[i].op = "initialAction" => /\ initial[ctl[i].b] # f /\ ctl[i].b \in Bots
                                                      /\ inside[ctl[i].b] = {}
  <2> SUFFICES ASSUME NEW i \in Place, ctl[i].op = "initialAction"
               PROVE  initial[ctl[i].b] # f /\ ctl[i].b \in Bots /\ inside[ctl[i].b] = {}
    OBVIOUS
  <2>1. ctl[i].b \in Bots /\ inside[ctl[i].b] = {}
    BY <1>1 DEF StackInv, FramesFit, FitAt, Minded, Starting
  <2>2. PICK a \in ctl[i].as : made[a] = initial[ctl[i].b]
    BY <1>1 DEF Started
  <2> QED BY <1>8, <2>1, <2>2 DEF Held
<1>10. \A i \in Place : i > 0 => Quiet(i) /\ Unmoved(i)
  <2>1. \A i \in Place : ctl[i].op \in Retiring => ctl[i].f \in Factories /\ ctl[i].f # f
    BY <1>1 DEF StackInv, FramesFit, FitAt
  <2>2. \A i \in Place : ctl[i].op # "construct"
    BY <1>2 DEF Quiet
  <2> QED BY <1>1, <1>2, <1>7, <2>1, <2>2 DEF Unmoved
<1>11. StackInv'
  <2>1. \A k \in Place' : k <= 1 => FitAt(k)' /\ OnTop(k)' /\ NestedAt(k, 0, 0)'
    BY <1>5, <1>6, <1>7 DEF FitAt, OnTop, NestedAt, Starting, Retiring
  <2>2. \A j, k \in Place' : j <= 1 /\ k <= 1 => SingleAt(j, k)'
    BY <1>6 DEF SingleAt
  <2>3. \A i \in Place : ctl[i].op \in Retiring => ctl[i].f # f
    BY <1>1 DEF StackInv, FramesFit, FitAt
  <2>4. \A k \in Place' : k <= 1 => \A i \in Place : i > 0 => ~Clash(ctl'[k], ctl[i])
    BY <1>5, <1>6, <2>3 DEF Clash, Retiring, Starting
  <2>5. \A i \in Place : ctl[i].op \in Starting /\ ~resetting[ctl[i].b] => ctl[i].b \notin users
    <3> SUFFICES ASSUME NEW i \in Place, ctl[i].op \in Starting, ~resetting[ctl[i].b]
                 PROVE  ctl[i].b \notin users
      OBVIOUS
    <3>1. ctl[i].op = "initialAction"
      BY <1>2 DEF Quiet, Starting
    <3>2. ctl[i].b \in Bots /\ initial[ctl[i].b] # f /\ inside[ctl[i].b] = {}
      BY <1>9, <3>1
    <3>3. \A b \in Bots : inside[b] = {} => ~IsUsedBy(f, b)
      BY DEF IsUsedBy, Pending
    <3>4. \A b \in Bots : initial[b] # f /\ inside[b] = {} => ~UsesActionFactory(b, f)
      BY <3>3 DEF UsesActionFactory
    <3> QED BY <1>7, <3>2, <3>4
  <2>6. \A k \in Place' : k <= 1 => \A i \in Place : i > 0 =>
           (ctl[i].op \in Starting /\ ~resetting[ctl[i].b] =>
             ctl[i].b \notin ctl'[k].bs /\ ~(ctl'[k].op = "reset" /\ ctl'[k].b = ctl[i].b))
    BY <1>5, <1>6, <2>5
  <2>7. \A i \in Place : i <= 0 => ctl[i].op # "endReset"
    BY DEF Place
  <2>8. \A c \in Bots : resetting'[c] <=>
           \/ resetting[c]
           \/ \E k \in Place' : k <= 1 /\ ctl'[k].op = "endReset" /\ ctl'[k].b = c
    BY <1>1, <1>5, <1>6
  <2> QED BY <1>1, <1>6, <1>10, <2>1, <2>2, <2>4, <2>6, <2>7, <2>8, PushedStack
<1>12. OwnInv' /\ Budget'
  <2>1. \A i \in Place : i <= 0 => ctl[i].as = {}
    BY DEF Place
  <2>2. \A k \in Place' : k <= 1 => ctl'[k].as = {}
    BY <1>5, <1>6
  <2> QED BY <1>1, <1>6, <2>1, <2>2, PushNothing
<1>13. Minded'
  <2>1. \A k \in Place' : k <= 1 /\ ctl'[k].op \in Starting => inside'[ctl'[k].b] = {}
    BY <1>5, <1>6 DEF Starting
  <2>2. ctl # <<>> => ctl[1].op # "endReset"
    BY <1>2
  <2> QED BY <1>1, <1>6, <2>1, <2>2, PushMinded
<1>14. \A k \in Place' : StartedAt(k)' /\ RetiredAt(k)'
  <2>1. \A c \in Bots : \A a \in inside'[c] :
           /\ a \in inside[c] /\ made'[a] = made[a]
           /\ 1 \in Place /\ ctl[1].op = "reset" /\ ctl[1].b = c => ctl'[1].op = "reset" /\ ctl'[1].b = c
    BY <1>1, <1>2
  <2>2. \A i \in Place : ctl[i].op = "initialAction" => initial'[ctl[i].b] = initial[ctl[i].b]
    BY <1>1, <1>9
  <2>3. \A k \in Place' : k > 1 => StartedAt(k)' /\ RetiredAt(k)'
    BY <1>1, <1>6, <2>1, <2>2, PushRetire
  <2>4. \A b \in Bots : \A a \in inside[b] : made[a] = f => b \in users
    <3>1. \A b \in Bots : \A a \in inside[b] : made[a] = f => IsUsedBy(f, b) /\ bot[b] = "intention"
      BY <1>1 DEF IsUsedBy, Minded
    <3> QED BY <1>7, <3>1 DEF UsesActionFactory
  <2>5. \A j \in Place' : \A a \in ctl'[j].as : made[a] # f
    <3>1. \A j \in Place' : j > 1 => \E i \in Place : Same(ctl'[j], ctl[i])
      BY <1>6, Places
    <3>2. \A j \in Place' : j = 1 \/ j > 1
      BY DEF Place
    <3> QED BY <1>5, <1>6, <1>8, <3>1, <3>2 DEF Same, Held
  <2>6. StartedAt(1)' /\ RetiredAt(1)'
    BY <1>1, <1>5, <1>6, <2>4, <2>5 DEF StartedAt, RetiredAt
  <2> QED BY <2>3, <2>6 DEF Place
<1>15. Started' /\ Retired'
  BY <1>14 DEF StartedAt, RetiredAt, Started, Retired
<1>16. Severed'
  <2>1. \A c \in Classes : declared'[c] # None => factory'[declared'[c]] = "alive"
    BY <1>1, <1>7 DEF Severed, TypeOK
  <2>2. \A b \in Intentions' : initial'[b] # None => factory'[initial'[b]] = "alive"
    BY <1>1, <1>7 DEF Severed, Intentions, TypeOK
  <2> QED BY <2>1, <2>2 DEF Severed
<1>17. FactoryOutlivesActions'
  BY <1>1, <1>7 DEF FactoryOutlivesActions, live, TypeOK
<1>18. TypeOK'
  <2>1. factory' \in [Factories -> {"alive", "destroying", "gone"}]
    BY <1>1 DEF TypeOK
  <2>2. declared' \in [Classes -> Factories \cup {None}]
    BY <1>1 DEF TypeOK
  <2>3. initial' \in [Bots -> Factories \cup {None}]
    BY <1>1 DEF TypeOK
  <2> QED BY <1>1, <1>6, <2>1, <2>2, <2>3 DEF TypeOK, Rests
<1> QED BY <1>11, <1>12, <1>13, <1>15, <1>16, <1>17, <1>18 DEF IInv, RetireInv

\* The actions of a retired factory that are left are loose or pending results.
LEMMA Leftovers ==
  ASSUME IInv, ctl # <<>>, Top.op = "drain", NEW as \in SUBSET Actions,
         as = {a \in Actions : made[a] = Top.f}, Destroyed(as)
  PROVE  /\ \A a \in as : ~Housed(a) /\ ~Held(a) /\ a \in live
         /\ loose' = loose \ as /\ live' = live \ as
         /\ made' \in [Actions -> Factories \cup {None}]
         /\ pend' \in [Actions -> Actions \cup {None}]
         /\ \A a \in Actions : made'[a] = IF a \in as THEN None ELSE made[a]
         /\ \A x \in Actions : pend'[x] = IF x \in as \/ pend[x] \in as THEN None ELSE pend[x]
         /\ \A x \in as : pend[x] = None
         /\ \A a \in Actions : Wanted(a)' <=> Wanted(a) /\ a \notin as
<1>1. TypeOK /\ StackInv /\ Retired /\ OwnInv /\ None \notin Actions
  BY ActionsFinite DEF IInv, RetireInv
<1>2. Top = ctl[1] /\ ctl[1].op = "drain" /\ 1 \in Place
  BY <1>1, TopFrame
<1>3. ctl[1].bs = {} /\ ctl[1].f \in Factories /\ factory[ctl[1].f] = "destroying"
  BY <1>1, <1>2 DEF StackInv, FramesFit, FitAt, Retiring
<1>4. \A b \in Bots : \A a \in inside[b] : made[a] # ctl[1].f
  BY <1>1, <1>2, <1>3 DEF Retired, Retiring
<1>5. \A j \in Place : \A a \in ctl[j].as : made[a] # ctl[1].f
  BY <1>1, <1>2 DEF Retired, Retiring, Place
<1>6. \A a \in as : a \in Actions /\ ~Housed(a) /\ ~Held(a) /\ a \in live /\ pend[a] = None
  <2> SUFFICES ASSUME NEW a \in as
               PROVE  ~Housed(a) /\ ~Held(a) /\ a \in live /\ pend[a] = None
    OBVIOUS
  <2>1. a \in Actions /\ made[a] = ctl[1].f /\ made[a] # None
    BY <1>2, <1>3, ConstantsOK
  <2>2. ~Housed(a) /\ ~Held(a) /\ a \in live
    BY <1>4, <1>5, <2>1 DEF Housed, Held, live
  <2> QED BY <1>1, <2>1, <2>2 DEF OwnInv, Owned, OwnedAt
<1>7. Dead(as) = as
  BY <1>6 DEF Dead, Pending
<1>8. /\ loose' = loose \ as
      /\ made' = [a \in Actions |-> IF a \in as THEN None ELSE made[a]]
      /\ pend' = [a \in Actions |->
           IF \/ a \in as
              \/ pend[a] \in as /\ factory[made[pend[a]]] = "destroying"
           THEN None ELSE pend[a]]
  BY <1>7 DEF Destroyed
<1>9. \A a \in as : factory[made[a]] = "destroying"
  BY <1>2, <1>3
<1>10. \A x \in Actions : pend'[x] = IF x \in as \/ pend[x] \in as THEN None ELSE pend[x]
  BY <1>8, <1>9
<1>11. /\ made' \in [Actions -> Factories \cup {None}]
       /\ pend' \in [Actions -> Actions \cup {None}]
  BY <1>1, <1>8 DEF TypeOK
<1>12. \A a \in Actions : made'[a] = IF a \in as THEN None ELSE made[a]
  BY <1>8
<1>13. live' = live \ as
  BY <1>12 DEF live
<1>14. \A a \in Actions : Wanted(a)' <=> Wanted(a) /\ a \notin as
  BY <1>1, <1>6, <1>10 DEF Wanted
<1> QED BY <1>6, <1>8, <1>10, <1>11, <1>12, <1>13, <1>14

\* Drain keeps the invariant.
LEMMA DrainKeeps ==
  ASSUME IInv, Drain
  PROVE  IInv'
<1> DEFINE as == {a \in Actions : made[a] = Top.f}
           f == ctl[1].f
<1>1. /\ TypeOK /\ StackInv /\ Minded /\ Severed /\ FactoryOutlivesActions /\ OwnInv /\ Budget
      /\ ctl # <<>> /\ Top.op = "drain" /\ Becomes(<<>>) /\ Destroyed(as)
      /\ factory' = [factory EXCEPT ![Top.f] = "gone"]
      /\ UNCHANGED <<declared, bot, initial, behavior, resetting, inside>>
  BY DEF Drain, Running, IInv, RetireInv, minds
<1>2. /\ Rests(ctl, ctl', 0, 1) /\ Top = ctl[1] /\ ctl[1].op = "drain" /\ 1 \in Place /\ Len(ctl) > 0
      /\ as \in SUBSET Actions
  BY <1>1, Pops, TopFrame
<1>3. ctl[1].as = {} /\ f \in Factories /\ factory[f] = "destroying"
  BY <1>1, <1>2 DEF StackInv, FramesFit, FitAt, Retiring
<1>4. \A a \in live' : a \in Actions /\ made[a] # f
  <2>1. live' = live \ as
    BY <1>1, <1>2, Leftovers
  <2> QED BY <1>2, <2>1 DEF live
<1>5. /\ \A a \in as : ~Housed(a) /\ ~Held(a) /\ a \in live
      /\ loose' = loose \ as /\ live' = live \ as
      /\ made' \in [Actions -> Factories \cup {None}]
      /\ pend' \in [Actions -> Actions \cup {None}]
      /\ \A a \in Actions : made'[a] = IF a \in as THEN None ELSE made[a]
      /\ \A x \in Actions : pend'[x] = IF x \in as \/ pend[x] \in as THEN None ELSE pend[x]
      /\ \A x \in as : pend[x] = None
      /\ \A a \in Actions : Wanted(a)' <=> Wanted(a) /\ a \notin as
  BY <1>1, <1>2, Leftovers
<1> HIDE DEF as
<1>6. \A g \in Factories : factory'[g] = IF g = f THEN "gone" ELSE factory[g]
  BY <1>1, <1>2, <1>3 DEF TypeOK
<1>7. /\ \A a : Held(a)' <=> Held(a)
      /\ \A j, k \in Place' : \A a \in ctl'[j].as : a \in ctl'[k].as => j = k
      /\ \A k \in Place' : k + 1 \in Place /\ k + 1 > 1 /\ Same(ctl'[k], ctl[k + 1])
  BY <1>1, <1>2, <1>3, PoppedPlaces
<1>8. StackInv'
  <2>1. \A i \in Place : i > 1 => Quiet(i)
    BY <1>1, <1>2, QuietBelow
  <2>2. \A i \in Place : i > 1 /\ ctl[i].op \in Retiring => ctl[i].f \in Factories /\ ctl[i].f # f
    BY <1>1, <1>2 DEF StackInv, Single, FramesFit, FitAt, Retiring, Place
  <2>3. \A i \in Place : i > 1 => Unmoved(i)
    BY <1>1, <1>6, <2>1, <2>2 DEF Unmoved, Quiet
  <2> QED BY <1>1, <1>2, <2>3, PoppedStack
<1>9. Started' /\ Retired'
  <2>1. \A a \in Actions : made'[a] # made[a] => made'[a] = None /\ ~Held(a)'
    BY <1>5, <1>7
  <2>2. \A b \in Bots : \A a \in inside'[b] :
           /\ a \in Actions
           /\ \/ a \in inside[b] /\ ~(ctl[1].op = "reset" /\ ctl[1].b = b)
              \/ factory[made[a]] = "alive"
    BY <1>1, <1>2 DEF TypeOK
  <2> QED BY <1>1, <1>2, <2>1, <2>2, PopRetire
<1>10. Minded'
  <2>1. \A c \in Bots : ~(resetting'[c] /\ inside'[c] # {})
    BY <1>1, <1>2 DEF Minded
  <2> QED BY <1>1, <1>7, <2>1 DEF Minded, Same
<1>11. Severed' /\ FactoryOutlivesActions'
  <2>1. \A c \in Classes : declared'[c] # None => factory'[declared'[c]] = "alive"
    BY <1>1, <1>3, <1>6 DEF Severed, TypeOK
  <2>2. \A b \in Intentions' : initial'[b] # None => factory'[initial'[b]] = "alive"
    BY <1>1, <1>3, <1>6 DEF Severed, Intentions, TypeOK
  <2>3. ASSUME NEW a \in live' PROVE factory'[made'[a]] # "gone"
    <3>1. a \in live /\ a \in Actions /\ made'[a] = made[a] /\ made[a] # f
      BY <1>4, <1>5
    <3>2. made[a] \in Factories /\ factory[made[a]] # "gone"
      BY <1>1, <3>1 DEF FactoryOutlivesActions, live, TypeOK
    <3> QED BY <1>6, <3>1, <3>2
  <2> QED BY <2>1, <2>2, <2>3 DEF Severed, FactoryOutlivesActions
<1>12. OwnInv'
  <2>1. \A a : Housed(a)' <=> Housed(a)
    BY <1>1 DEF Housed
  <2>2. Owned'
    <3> SUFFICES ASSUME NEW a \in Actions PROVE OwnedAt(a)'
      BY DEF Owned
    <3>1. OwnedAt(a) /\ (a \in loose' <=> a \in loose /\ a \notin as) /\ (a \in live' <=> a \in live /\ a \notin as)
      BY <1>1, <1>5 DEF OwnInv, Owned
    <3>2. pend'[a] # None => pend[a] # None
      BY <1>5
    <3> QED BY <1>5, <1>7, <2>1, <3>1, <3>2 DEF OwnedAt
  <2>3. \A x, y \in Actions : pend'[x] # None /\ pend'[x] = pend'[y] => x = y
    BY <1>1, <1>5 DEF OwnInv, Apart
  <2> QED BY <1>1, <1>7, <2>2, <2>3 DEF OwnInv, Apart
<1>13. Budget'
  <2>1. ctl' \in Seq(Frame)
    BY <1>2 DEF Rests
  <2>2. ASSUME NEW c \in Bots, c \in Mindless' PROVE c \in Mindless
    <3>1. \A i \in Place : i > 1 => \E k \in Place' : Same(ctl'[k], ctl[i])
      BY <1>2, Places
    <3>2. \A i \in Place : i > 1 /\ ctl[i].b = c => ctl[i].as = {}
      BY <2>1, <2>2, <3>1, NextFramesAre DEF Same
    <3>3. \A i \in Place : i > 1 \/ i = 1
      BY DEF Place
    <3>4. inside[c] = {}
      BY <1>1, <2>1, <2>2, NextFramesAre
    <3> QED BY <1>1, <1>3, <3>2, <3>3, <3>4, FramesAre
  <2>3. Mindless' \subseteq Mindless
    BY <2>2 DEF Mindless
  <2> QED BY <1>1, <1>5, <2>3, BudgetShrinks
<1>14. TypeOK'
  <2>1. factory' \in [Factories -> {"alive", "destroying", "gone"}]
    BY <1>1 DEF TypeOK
  <2> QED BY <1>1, <1>2, <1>5, <2>1 DEF TypeOK, Rests
<1> QED BY <1>8, <1>9, <1>10, <1>11, <1>12, <1>13, <1>14 DEF IInv, RetireInv

\* The invariant holds at first.
LEMMA InitHolds ==
  ASSUME Init
  PROVE  IInv
<1>1. Place = {} /\ ctl = <<>>
  BY DEF Init, Place
<1>2. TypeOK
  BY <1>1 DEF Init, TypeOK
<1>3. StackInv
  BY <1>1 DEF Init, StackInv, FramesFit, Nested, Single, Resets
<1>4. live = {} /\ Mindless \subseteq Bots
  BY DEF Init, live, Mindless
<1>5. RetireInv
  BY <1>1, <1>4 DEF Init, RetireInv, Minded, Started, Severed, Retired, FactoryOutlivesActions, Intentions
<1>6. OwnInv
  <2>1. \A a \in Actions : ~Housed(a) /\ ~Held(a) /\ ~Wanted(a) /\ a \notin loose /\ pend[a] = None
    BY <1>1, ActionsFinite DEF Init, Housed, Held, Wanted
  <2>2. Owned
    BY <1>4, <2>1 DEF Owned, OwnedAt
  <2>3. Apart
    BY <1>1 DEF Init, Apart
  <2> QED BY <2>2, <2>3 DEF OwnInv
<1>7. Budget
  <2>1. Cardinality(live) = 0
    BY <1>4, FS_EmptySet
  <2>2. /\ IsFiniteSet(Bots) /\ Cardinality(Bots) \in Nat /\ Cardinality(Mindless) \in Nat
        /\ Cardinality(Mindless) <= Cardinality(Bots)
    BY <1>4, ConstantsOK, FS_Subset, FS_CardinalityType
  <2>3. MaxLoose \in Nat
    BY ConstantsOK
  <2>4. Cardinality(Actions) = MaxLoose + Cardinality(Bots) + 1
    BY <2>2, <2>3, FS_Interval DEF Actions
  <2> QED BY <2>1, <2>2, <2>3, <2>4 DEF Budget, Actions
<1> QED BY <1>2, <1>3, <1>5, <1>6, <1>7 DEF IInv

\* A step of no variable keeps the invariant.
LEMMA StutterKeeps ==
  ASSUME IInv, UNCHANGED vars
  PROVE  IInv'
<1>1. UNCHANGED <<factory, declared, bot, initial, behavior, resetting, inside, made, pend, loose, ctl>>
  BY DEF vars
<1>2. TypeOK /\ StackInv /\ RetireInv /\ OwnInv /\ Budget
  BY DEF IInv
<1>3. /\ Rests(ctl, ctl', 0, 0) /\ Place' = Place /\ live' = live
  BY <1>1, <1>2, StackAlone DEF Place, live
<1>4. StackInv'
  BY <1>1, <1>2, <1>3, SameStack
<1>5. OwnInv'
  BY <1>1, <1>2, <1>3 DEF OwnInv, Apart, Owned, OwnedAt, Housed, Held, Wanted
<1>6. RetireInv'
  BY <1>1, <1>2, <1>3 DEF RetireInv, Minded, Started, Severed, Retired, FactoryOutlivesActions, Intentions
<1>7. Budget'
  BY <1>1, <1>2, <1>3, SameMindless, BudgetShrinks
<1>8. TypeOK'
  BY <1>1, <1>2 DEF TypeOK
<1> QED BY <1>4, <1>5, <1>6, <1>7, <1>8 DEF IInv

\* Every step keeps the invariant.
LEMMA NextKeeps ==
  ASSUME CallsBack \subseteq Survivable, IInv, [Next]_vars
  PROVE  IInv'
<1>1. CASE UNCHANGED vars
  BY <1>1, StutterKeeps
<1>2. CASE Engine
  BY <1>2, ConstructKeeps, InitBehaviorKeeps, AdoptKeeps, DeleteBehaviorKeeps, ResetBeginKeeps,
     ResetEndKeeps, FreeKeeps, UsersResetKeeps, DrainKeeps, ReturnKeeps, ResetUserKeeps DEF Engine
<1>3. CASE Plugin
  BY <1>3, CreateKeeps, CloseKeeps, DestroyLooseKeeps, DeclareKeeps, SpawnKeeps, ResetKeeps,
     RemoveKeeps, EventKeeps, EventRefusedKeeps DEF Plugin
<1>4. CASE Update
  BY <1>4, StartPendingKeeps, StartLooseKeeps, FinishKeeps DEF Update
<1> QED BY <1>1, <1>2, <1>3, <1>4 DEF Next

\* The invariant has nothing dangle: owners and frames refer to what is live.
LEMMA NothingLeftDangling ==
  ASSUME IInv
  PROVE  NothingDangles
<1>1. TypeOK /\ StackInv /\ OwnInv /\ FactoryOutlivesActions /\ None \notin Actions
  BY ActionsFinite DEF IInv, RetireInv
<1>2. \A a \in Actions : Housed(a) \/ Held(a) \/ Wanted(a) => a \in live
  BY <1>1 DEF OwnInv, Owned, OwnedAt
<1>3. \A a : a \in UNION {inside[b] : b \in Bots} => a \in live
  BY <1>1, <1>2 DEF Housed, TypeOK
<1>4. \A a : a \in InHand => a \in live
  <2>1. \A a : Held(a) => a \in Actions
    BY <1>1, FramesAre DEF Held
  <2> QED BY <1>1, <1>2, <2>1, FramesAre
<1>5. \A a : a \in Pending(live) => a \in live
  BY <1>1, <1>2 DEF Pending, Wanted, TypeOK, live
<1>6. ActionsLive
  <2>1. UNION {inside[b] : b \in Bots} \subseteq live
    BY <1>3
  <2>2. InHand \subseteq live /\ Pending(live) \subseteq live
    BY <1>4, <1>5
  <2>3. (UNION {inside[b] : b \in Bots}) \cup InHand \cup Pending(live) \subseteq live
    BY <2>1, <2>2
  <2> QED BY <2>3 DEF ActionsLive
<1>7. ResetsReachBots
  <2>1. \A k \in Place : ctl[k].op \in {"reset", "init", "endReset"} => bot[ctl[k].b] = "intention"
    BY <1>1 DEF StackInv, FramesFit, FitAt, Starting
  <2>2. Frames = {ctl[k] : k \in Place}
    BY <1>1, FramesAre DEF Frames
  <2> QED BY <2>1, <2>2 DEF ResetsReachBots
<1> QED BY <1>1, <1>6, <1>7 DEF NothingDangles

\* The cardinality of a set with at most one element.
LEMMA AtMostOne ==
  ASSUME NEW S, \A x, y \in S : x = y
  PROVE  Cardinality(S) = IF S = {} THEN 0 ELSE 1
<1>1. CASE S = {}
  BY <1>1, FS_EmptySet
<1>2. CASE S # {}
  <2>1. PICK x \in S : S = {x}
    BY <1>2
  <2> QED BY <1>2, <2>1, FS_Singleton
<1> QED BY <1>1, <1>2

\* The invariant gives every action one owner.
LEMMA OwnersAreOne ==
  ASSUME IInv
  PROVE  OneOwner
<1> SUFFICES ASSUME NEW a \in live
             PROVE  Cardinality({b \in Bots : a \in inside[b]}) + Cardinality({x \in live : pend[x] = a})
                      + Cardinality({k \in DOMAIN ctl : a \in ctl[k].as})
                      + (IF a \in loose THEN 1 ELSE 0) = 1
  BY DEF OneOwner
<1> DEFINE B == {b \in Bots : a \in inside[b]}
           X == {x \in live : pend[x] = a}
           K == {k \in DOMAIN ctl : a \in ctl[k].as}
<1>1. TypeOK /\ Apart /\ Owned /\ a \in Actions /\ None \notin Actions /\ DOMAIN ctl = Place
  BY ActionsFinite, FramesAre DEF IInv, OwnInv, live
<1>2. OwnedAt(a)
  BY <1>1 DEF Owned
<1>3. \A b, c \in B : b = c
  BY <1>1 DEF Apart
<1>4. \A j, k \in K : j = k
  BY <1>1 DEF Apart
<1>5. \A x, y \in X : x = y
  BY <1>1 DEF Apart, live
<1>6. B # {} <=> Housed(a)
  BY DEF Housed
<1>7. K # {} <=> Held(a)
  BY <1>1 DEF Held
<1>8. X # {} <=> Wanted(a)
  <2>1. \A x \in Actions : pend[x] = a => x \in live
    BY <1>1 DEF Owned, OwnedAt
  <2> QED BY <2>1 DEF Wanted, live
<1> HIDE DEF B, X, K
<1>9. /\ Cardinality(B) = IF Housed(a) THEN 1 ELSE 0
      /\ Cardinality(X) = IF Wanted(a) THEN 1 ELSE 0
      /\ Cardinality(K) = IF Held(a) THEN 1 ELSE 0
  BY <1>3, <1>4, <1>5, <1>6, <1>7, <1>8, AtMostOne
<1>10. /\ Housed(a) \/ Held(a) \/ Wanted(a) \/ a \in loose
       /\ ~(Housed(a) /\ Held(a)) /\ ~(Housed(a) /\ Wanted(a)) /\ ~(Housed(a) /\ a \in loose)
       /\ ~(Held(a) /\ Wanted(a)) /\ ~(Held(a) /\ a \in loose) /\ ~(Wanted(a) /\ a \in loose)
  BY <1>2 DEF OwnedAt
<1>11. Cardinality(B) + Cardinality(X) + Cardinality(K) + (IF a \in loose THEN 1 ELSE 0) = 1
  BY <1>9, <1>10
<1> QED BY <1>11 DEF B, X, K

\* The invariant holds in every reachable state.
LEMMA IInvHolds ==
  ASSUME CallsBack \subseteq Survivable
  PROVE  Spec => []IInv
<1>1. Init => IInv
  BY InitHolds
<1>2. IInv /\ [Next]_vars => IInv'
  BY NextKeeps
<1> QED BY <1>1, <1>2, PTL DEF Spec

\* Every variable keeps its type.
THEOREM TypesHold ==
  ASSUME CallsBack \subseteq Survivable
  PROVE  Spec => []TypeOK
<1>1. IInv => TypeOK
  BY DEF IInv
<1> QED BY <1>1, IInvHolds, PTL

\* However resets, removals, spawns and retirements nest, no behaviour, pending result or call ever refers to a deleted action, no reset to a deleted intention, no action to a deleted factory.
THEOREM NothingEverDangles ==
  ASSUME CallsBack \subseteq Survivable
  PROVE  Spec => []NothingDangles
<1>1. IInv => NothingDangles
  BY NothingLeftDangling
<1> QED BY <1>1, IInvHolds, PTL

\* Every action always has exactly one owner that will delete it.
THEOREM AlwaysOneOwner ==
  ASSUME CallsBack \subseteq Survivable
  PROVE  Spec => []OneOwner
<1>1. IInv => OneOwner
  BY OwnersAreOne
<1> QED BY <1>1, IInvHolds, PTL

\* A factory whose destructor has begun is never declared for a class nor asked by an intention.
THEOREM SeveredEver ==
  ASSUME CallsBack \subseteq Survivable
  PROVE  Spec => []SeveredAtOnce
<1>1. IInv => SeveredAtOnce
  BY DEF IInv, RetireInv, Severed, SeveredAtOnce
<1> QED BY <1>1, IInvHolds, PTL

=============================================================================
