----------------------- MODULE ClientEntitiesProofs ---------------------------
(*****************************************************************************)
(* Proofs about the client entity manager, for any number of addresses,      *)
(* entity indexes, handles and listeners, any depth of calls, and whatever   *)
(* callbacks do (create, delete and listen).  First the inductive invariant  *)
(* and that every step keeps what it says of records and calls; then that    *)
(* every step keeps what it says of durable references and of what plugins   *)
(* were told; and the theorems: what the manager keeps of entities always    *)
(* agrees, callbacks find the record they are about, durable references      *)
(* never revive, and plugins hear of each entity in order and in pairs.      *)
(*****************************************************************************)
EXTENDS ClientEntities, SequenceTheorems, FiniteSetTheorems, WellFoundedInduction, TLAPS

(***************************************************************************)
(* std::remove.                                                            *)
(***************************************************************************)

Less == {p \in Nat \X Nat : p[1] < p[2]}

\* The relation that the library's theorem on well-founded relations takes.
LEMMA LessWellFounded == IsWellFoundedOn(Less, Nat)
<1>1. OpToRel(<, Nat) = Less
  BY Zenon DEF OpToRel, Less
<1> QED BY <1>1, NatLessThanWellFounded, Zenon

\* A set of natural numbers has a least one.
LEMMA LeastNumber ==
  ASSUME NEW S \in SUBSET Nat, S # {}
  PROVE  \E x \in S : \A y \in S : x <= y
<1>1. PICK x \in S : \A y \in S : ~(<<y, x>> \in Less)
  BY LessWellFounded, WFMin
<1>2. ASSUME NEW y \in S PROVE x <= y
  <2>1. <<y, x>> \in Nat \X Nat /\ ~(<<y, x>>[1] < <<y, x>>[2])
    BY <1>1 DEF Less
  <2> QED BY <2>1
<1> QED BY <1>2

\* The recursion of Remaining up to the position n.
Rest(s, x, n, f) ==
  f = [k \in 0..n |-> IF k = 0 THEN <<>>
                      ELSE IF s[k] = x THEN f[k-1] ELSE Append(f[k-1], s[k])]

\* The recursion has a solution up to every position.
LEMMA RestExists ==
  ASSUME NEW s, NEW x, NEW n \in Nat
  PROVE  \E f : Rest(s, x, n, f)
<1> DEFINE Bad == {k \in Nat : ~ \E f : Rest(s, x, k, f)}
<1>1. SUFFICES Bad = {}
  BY DEF Bad
<1>2. SUFFICES ASSUME Bad # {} PROVE FALSE
  OBVIOUS
<1>3. PICK m \in Bad : \A k \in Bad : m <= k
  <2>1. Bad \in SUBSET Nat
    OBVIOUS
  <2> HIDE DEF Bad
  <2> QED BY <1>2, <2>1, LeastNumber
<1>4. m # 0
  <2> DEFINE f == [k \in 0..0 |-> <<>>]
  <2>1. Rest(s, x, 0, f)
    BY DEF Rest
  <2> QED BY <2>1 DEF Bad
<1>5. m \in Nat /\ m - 1 \in Nat /\ m - 1 \notin Bad
  <2>1. m \in Nat /\ m - 1 \in Nat /\ ~(m <= m - 1)
    BY <1>4
  <2> HIDE DEF Bad
  <2> QED BY <1>3, <2>1
<1>6. PICK g : Rest(s, x, m - 1, g)
  BY <1>5
<1> DEFINE last == IF s[m] = x THEN g[m-1] ELSE Append(g[m-1], s[m])
           f == [k \in 0..m |-> IF k = m THEN last ELSE g[k]]
<1>7. \A k \in 0..m : k # m => k \in 0..(m-1)
  BY <1>5
<1>8. \A k \in 0..m : f[k] = IF k = 0 THEN <<>>
                      ELSE IF s[k] = x THEN f[k-1] ELSE Append(f[k-1], s[k])
  <2> TAKE k \in 0..m
  <2>1. CASE k = m
    <3>1. f[k] = last /\ k # 0 /\ k - 1 \in 0..m /\ k - 1 # m /\ f[k-1] = g[m-1]
      BY <1>4, <1>5, <2>1
    <3> QED BY <2>1, <3>1
  <2>2. CASE k # m
    <3>1. k \in 0..(m-1) /\ f[k] = g[k]
      BY <1>7, <2>2
    <3>2. g[k] = IF k = 0 THEN <<>>
                 ELSE IF s[k] = x THEN g[k-1] ELSE Append(g[k-1], s[k])
      BY <1>6, <3>1 DEF Rest
    <3>3. k # 0 => k - 1 \in 0..m /\ k - 1 # m /\ f[k-1] = g[k-1]
      BY <1>5, <3>1
    <3> HIDE DEF f
    <3> QED BY <3>1, <3>2, <3>3
  <2> QED BY <2>1, <2>2
<1>9. f = [k \in 0..m |-> f[k]]
  OBVIOUS
<1>10. Rest(s, x, m, f)
  <2> HIDE DEF f
  <2> QED BY <1>8, <1>9 DEF Rest
<1> HIDE DEF f
<1> QED BY <1>10 DEF Bad

\* What std::remove leaves: a sequence of the same kind, of all the other elements,
\* none of them twice if none was.
LEMMA RemainingIs ==
  ASSUME NEW S, NEW s \in Seq(S), NEW x
  PROVE  /\ Remaining(s, x) \in Seq(S)
         /\ \A y : (\E k \in 1..Len(Remaining(s, x)) : Remaining(s, x)[k] = y)
                     <=> y # x /\ \E k \in 1..Len(s) : s[k] = y
         /\ (\A j, k \in 1..Len(s) : s[j] = s[k] => j = k) =>
              \A j, k \in 1..Len(Remaining(s, x)) : Remaining(s, x)[j] = Remaining(s, x)[k] => j = k
<1> DEFINE n == Len(s)
<1>1. n \in Nat
  OBVIOUS
<1> DEFINE f == CHOOSE g : Rest(s, x, n, g)
<1>2. Rest(s, x, n, f)
  <2>1. \E g : Rest(s, x, n, g)
    BY <1>1, RestExists
  <2> QED BY <2>1
<1>3. Remaining(s, x) = f[n]
  BY DEF Remaining, Rest
<1> HIDE DEF f
<1>4. \A k \in 0..n : f[k] = IF k = 0 THEN <<>>
                      ELSE IF s[k] = x THEN f[k-1] ELSE Append(f[k-1], s[k])
  BY <1>2 DEF Rest
<1> DEFINE Good(k) ==
      /\ f[k] \in Seq(S)
      /\ \A y : (\E j \in 1..Len(f[k]) : f[k][j] = y) <=> y # x /\ \E j \in 1..k : s[j] = y
      /\ (\A i, j \in 1..n : s[i] = s[j] => i = j) =>
           \A i, j \in 1..Len(f[k]) : f[k][i] = f[k][j] => i = j
<1> DEFINE Bad == {k \in 0..n : ~Good(k)}
<1>5. Good(0)
  <2>1. f[0] = <<>>
    BY <1>1, <1>4
  <2> QED BY <2>1
<1>6. \A k \in 1..n : Good(k-1) => Good(k)
  <2> SUFFICES ASSUME NEW k \in 1..n, Good(k-1) PROVE Good(k)
    OBVIOUS
  <2>1. k \in 0..n /\ k # 0 /\ k \in Nat /\ k - 1 \in Nat /\ s[k] \in S
    BY <1>1
  <2>2. \A j \in 1..k : j = k \/ j \in 1..(k-1)
    BY <2>1
  <2>2a. \A j \in 1..(k-1) : j \in 1..k
    BY <2>1
  <2>3. CASE s[k] = x
    <3>1. f[k] = f[k-1]
      BY <1>4, <2>1, <2>3
    <3>2. \A y : y # x => ((\E j \in 1..k : s[j] = y) <=> \E j \in 1..(k-1) : s[j] = y)
      BY <2>1, <2>2, <2>2a, <2>3
    <3> QED BY <3>1, <3>2
  <2>4. CASE s[k] # x
    <3> DEFINE p == f[k-1]  q == f[k]
    <3>1. q = Append(p, s[k]) /\ p \in Seq(S)
      BY <1>4, <2>1, <2>4
    <3>2. /\ q \in Seq(S) /\ Len(q) = Len(p) + 1 /\ Len(p) \in Nat
          /\ q[Len(q)] = s[k] /\ \A j \in 1..Len(p) : q[j] = p[j]
      <4> HIDE DEF p, q
      <4> QED BY <2>1, <3>1
    <3>3. \A j \in 1..Len(q) : j = Len(q) \/ j \in 1..Len(p)
      <4> HIDE DEF p, q
      <4> QED BY <3>2
    <3>4. \A j \in 1..Len(p) : j \in 1..Len(q) /\ j # Len(q)
      <4> HIDE DEF p, q
      <4> QED BY <3>2
    <3>5. \A y : (\E j \in 1..Len(p) : p[j] = y) <=> y # x /\ \E j \in 1..(k-1) : s[j] = y
      OBVIOUS
    <3>6. (\A i, j \in 1..n : s[i] = s[j] => i = j) =>
            \A i, j \in 1..Len(p) : p[i] = p[j] => i = j
      OBVIOUS
    <3>7. Len(q) \in 1..Len(q)
      <4> HIDE DEF p, q
      <4> QED BY <3>2
    <3> HIDE DEF p, q, Good
    <3>8. \A y : (\E j \in 1..Len(q) : q[j] = y) <=> y = s[k] \/ \E j \in 1..Len(p) : p[j] = y
      BY <3>2, <3>3, <3>4, <3>7
    <3>9. \A y : (\E j \in 1..k : s[j] = y) <=> y = s[k] \/ \E j \in 1..(k-1) : s[j] = y
      BY <2>1, <2>2, <2>2a
    <3>10. \A y : (\E j \in 1..Len(q) : q[j] = y) <=> y # x /\ \E j \in 1..k : s[j] = y
      BY <2>4, <3>5, <3>8, <3>9
    <3>11. ASSUME \A i, j \in 1..n : s[i] = s[j] => i = j, NEW i \in 1..Len(q), NEW j \in 1..Len(q), q[i] = q[j]
           PROVE  i = j
      <4>1. \A l \in 1..(k-1) : s[l] # s[k]
        <5>1. \A l \in 1..(k-1) : l \in 1..n /\ l # k
          BY <1>1, <2>1
        <5> QED BY <3>11, <5>1, <2>1
      <4>2. \A l \in 1..Len(p) : p[l] # s[k]
        BY <3>5, <4>1
      <4> QED BY <3>2, <3>3, <3>6, <3>11, <4>2
    <3> QED BY <3>2, <3>10, <3>11 DEF Good, q
  <2> QED BY <2>3, <2>4
<1> HIDE DEF Good
<1>7. Bad = {}
  <2> SUFFICES ASSUME Bad # {} PROVE FALSE
    OBVIOUS
  <2>1. Bad \in SUBSET Nat
    BY <1>1
  <2>2. PICK m \in Bad : \A k \in Bad : m <= k
    <3> HIDE DEF Bad
    <3> QED BY <2>1, LeastNumber
  <2>3. m # 0 /\ m \in 0..n /\ ~Good(m)
    BY <1>5, <2>2
  <2>4. m \in 1..n /\ m - 1 \in 0..n /\ ~(m <= m - 1)
    BY <1>1, <2>3
  <2>5. Good(m-1)
    BY <2>2, <2>4
  <2> QED BY <1>6, <2>3, <2>4, <2>5
<1>8. Good(n)
  BY <1>1, <1>7
<1> QED BY <1>3, <1>8 DEF Good

-----------------------------------------------------------------------------
(***************************************************************************)
(* Types.                                                                  *)
(***************************************************************************)

\* A token and a sidecar block are only used up by an entity.
Bounded == nextToken <= used + 1 /\ blocks <= used

\* Calls about one entity.
OfEntity == Ops \ {"flush", "purge", "purged", "stop"}
TopFit == ctl # <<>> /\ Top.op \in OfEntity => Top.a \in Addresses

Events == {"seeded", "constructed", "created", "removed", "destroyed"}
Slot == [a : Addresses \cup {None}, sidecar : 0..MaxHandles, h : 0..MaxHandles]

\* Do makes a frame.
LEMMA DoFrame ==
  ASSUME NEW op \in Ops, NEW a \in Addresses \cup {None}, NEW h \in 0..MaxHandles
  PROVE  /\ Do(op, a, h) \in Frame
         /\ Do(op, a, h).op = op /\ Do(op, a, h).a = a /\ Do(op, a, h).h = h
         /\ Do(op, a, h).t = 0 /\ Do(op, a, h).ls = <<>> /\ Do(op, a, h).q = <<>>
<1>1. 0 \in 0..MaxHandles /\ <<>> \in Seq(Listeners) /\ <<>> \in Seq(Addresses \X (0..MaxHandles))
  BY ConstantsOK
<1> QED BY <1>1 DEF Do, Frame, None

\* Frames that also hold listeners, a queue or a token.
LEMMA OtherFrames ==
  ASSUME NEW op \in Ops, NEW a \in Addresses, NEW h \in 0..MaxHandles
  PROVE  /\ \A ls \in Seq(Listeners) :
              /\ Each(op, a, h, ls) \in Frame /\ Each(op, a, h, ls).op = op
              /\ Each(op, a, h, ls).a = a /\ Each(op, a, h, ls).h = h /\ Each(op, a, h, ls).t = 0
         /\ \A t \in Handles :
              LET fr == [Do(op, a, h) EXCEPT !.t = t] IN
              fr \in Frame /\ fr.op = op /\ fr.a = a /\ fr.h = h /\ fr.t = t
<1>1. Do(op, a, h) \in Frame /\ Do(op, a, h).op = op /\ Do(op, a, h).a = a /\ Do(op, a, h).h = h
      /\ Do(op, a, h).t = 0
  BY DoFrame
<1>2. \A t \in Handles : t \in 0..MaxHandles
  BY ConstantsOK DEF Handles
<1> QED BY <1>1, <1>2 DEF Each, Frame

\* A frame that holds a queue.
LEMMA QueueFrame ==
  ASSUME NEW op \in Ops, NEW q \in Seq(Addresses \X (0..MaxHandles))
  PROVE  /\ Queue(op, q) \in Frame /\ Queue(op, q).op = op /\ Queue(op, q).q = q
         /\ Queue(op, q).t = 0 /\ Queue(op, q).a = None
<1>1. Do(op, None, None) \in Frame /\ Do(op, None, None).op = op /\ Do(op, None, None).t = 0
      /\ Do(op, None, None).a = None
  BY DoFrame, ConstantsOK DEF None
<1> QED BY <1>1 DEF Queue, Frame

\* The innermost frame and what is below it.
LEMMA TopFrame ==
  ASSUME TypeOK, ctl # <<>>
  PROVE  /\ ctl \in Seq(Frame) /\ Len(ctl) \in Nat /\ 1 \in 1..Len(ctl) /\ Top = ctl[1]
         /\ Top \in Frame /\ Tail(ctl) \in Seq(Frame)
         /\ Top.op \in Ops /\ Top.a \in Addresses \cup {None} /\ Top.h \in 0..MaxHandles
         /\ Top.ls \in Seq(Listeners) /\ Top.q \in Seq(Addresses \X (0..MaxHandles))
         /\ Top.t \in 0..MaxHandles
<1>1. /\ ctl \in Seq(Frame) /\ Len(ctl) \in Nat /\ 1 \in 1..Len(ctl) /\ Top = ctl[1]
      /\ Top \in Frame /\ Tail(ctl) \in Seq(Frame)
  BY DEF TypeOK, Top
<1> QED BY <1>1 DEF Frame

\* A record that is there.
LEMMA RecordTyped ==
  ASSUME TypeOK, NEW a, Tracked(a), a \in Addresses
  PROVE  /\ entities[a] \in Record /\ entities[a].handle \in Handles /\ entities[a].token \in Handles
         /\ entities[a].index \in Indexes \cup {None} /\ entities[a].sidecar \in 0..MaxHandles
BY DEF TypeOK, Tracked, Record

\* The last element of a sequence, and the others.
LEMMA LastOf ==
  ASSUME NEW S, NEW s \in Seq(S), s # <<>>
  PROVE  /\ Len(s) \in 1..Len(s) /\ s[Len(s)] \in S
         /\ SubSeq(s, 1, Len(s) - 1) \in Seq(S)
         /\ Len(SubSeq(s, 1, Len(s) - 1)) = Len(s) - 1
         /\ \A k \in 1..(Len(s) - 1) : SubSeq(s, 1, Len(s) - 1)[k] = s[k]
<1>1. Len(s) \in Nat /\ Len(s) # 0
  OBVIOUS
<1>2. Len(s) \in 1..Len(s) /\ s[Len(s)] \in S
  BY <1>1
<1>3. 1 \in 1..(Len(s) + 1) /\ Len(s) - 1 \in (1 - 1)..Len(s) /\ (Len(s) - 1) - 1 + 1 = Len(s) - 1
  BY <1>1
<1> DEFINE m == Len(s) - 1
<1>4. /\ SubSeq(s, 1, m) \in Seq(S) /\ Len(SubSeq(s, 1, m)) = m - 1 + 1
      /\ \A k \in 1..(m - 1 + 1) : SubSeq(s, 1, m)[k] = s[1 + k - 1]
  <2> HIDE DEF m
  <2> QED BY <1>3, SubSeqProperties DEF m
<1>5. \A k \in 1..m : 1 + k - 1 = k
  OBVIOUS
<1> QED BY <1>2, <1>3, <1>4, <1>5

\* Frames on a stack.
LEMMA Stacked ==
  ASSUME NEW s \in Seq(Frame), NEW fs \in Seq(Frame)
  PROVE  fs \o s \in Seq(Frame)
OBVIOUS

\* The frames of a deletion.
LEMMA DeletionFrames ==
  ASSUME NEW a \in Addresses
  PROVE  /\ Do("cleanup", a, None) \in Frame /\ Do("deleted", a, None) \in Frame
         /\ Do("freeMemory", a, None) \in Frame
         /\ Deletion(a) \in Seq(Frame)
<1>0. /\ None \in 0..MaxHandles /\ a \in Addresses \cup {None}
      /\ "cleanup" \in Ops /\ "deleted" \in Ops /\ "freeMemory" \in Ops
  BY ConstantsOK DEF Ops, None
<1>1. /\ Do("cleanup", a, None) \in Frame /\ Do("deleted", a, None) \in Frame
      /\ Do("freeMemory", a, None) \in Frame
  BY <1>0, DoFrame
<1> QED BY <1>1 DEF Deletion

\* The frames of a destruction.
LEMMA DestructionFrames ==
  ASSUME NEW a \in Addresses, NEW h \in 0..MaxHandles
  PROVE  /\ Do("cleanup", a, None) \in Frame /\ Do("notifyDestroyed", a, h) \in Frame
         /\ Do("erase", a, h) \in Frame
         /\ Destruction(a, h) \in Seq(Frame)
<1>0. /\ None \in 0..MaxHandles /\ a \in Addresses \cup {None}
      /\ "cleanup" \in Ops /\ "notifyDestroyed" \in Ops /\ "erase" \in Ops
  BY ConstantsOK DEF Ops, None
<1>1. /\ Do("cleanup", a, None) \in Frame /\ Do("notifyDestroyed", a, h) \in Frame
      /\ Do("erase", a, h) \in Frame
  BY <1>0, DoFrame
<1> QED BY <1>1 DEF Destruction, Notice

\* Steps that change nothing but pending creations, listeners and the stack.
LEMMA QuietTyped ==
  ASSUME TypeOK, ctl' \in Seq(Frame), pending' \in Seq(Addresses \X Handles),
         listeners' \in Seq(Listeners), UNCHANGED <<engine, registry, sidecars, modes, told>>
  PROVE  TypeOK'
BY DEF TypeOK, engine, registry, sidecars, modes

\* Steps that change a record, what was told and the stack.
LEMMA RecordStepTyped ==
  ASSUME TypeOK, ctl' \in Seq(Frame),
         entities' \in [Addresses -> Record \cup {NoRecord}],
         told' \in [Handles -> Seq(Events)],
         UNCHANGED <<engine, tokens, nextToken, order, pending, listeners, sidecars, modes>>
  PROVE  TypeOK'
BY DEF TypeOK, engine, sidecars, modes, Events

\* Telling plugins of an event keeps the history a history.
LEMMA TellsTyped ==
  ASSUME TypeOK, NEW h, NEW event \in Events, Tells(h, event)
  PROVE  told' \in [Handles -> Seq(Events)]
<1>1. told \in [Handles -> Seq(Events)]
  BY DEF TypeOK, Events
<1>2. \A k \in Handles : Append(told[k], event) \in Seq(Events)
  BY <1>1
<1> QED BY <1>1, <1>2 DEF Tells

\* Marking a record keeps it a record.
LEMMA Marked ==
  ASSUME NEW r \in Record
  PROVE  /\ [r EXCEPT !.postConstructed = TRUE] \in Record
         /\ [r EXCEPT !.createdNotified = TRUE] \in Record
         /\ [r EXCEPT !.deleting = TRUE] \in Record
         /\ [r EXCEPT !.removeNotified = TRUE] \in Record
         /\ [r EXCEPT !.slotted = FALSE, !.runtime = FALSE, !.sidecar = None] \in Record
<1>1. None \in 0..MaxHandles
  BY ConstantsOK DEF None
<1> QED BY <1>1 DEF Record

\* The second half of the create function of a custom class.
LEMMA AttachRuntimeTyped ==
  ASSUME TypeOK, TopFit, AttachRuntime
  PROVE  TypeOK'
<1>1. ctl # <<>> /\ Top.op = "attach" /\ Top.a \in Addresses
  BY DEF AttachRuntime, Running, TopFit, OfEntity, Ops
<1>2. Tail(ctl) \in Seq(Frame) /\ Top.h \in 0..MaxHandles
  BY <1>1, TopFrame
<1> DEFINE a == Top.a
<1>3. CASE Attachable(a)
  <2>1. /\ entities' = [entities EXCEPT ![a].postConstructed = TRUE]
        /\ Tells(Top.h, "constructed")
        /\ ctl' = <<Do("constructed", a, Top.h),
                    [Do("return", a, Top.h) EXCEPT !.t = entities[a].token]>> \o Tail(ctl)
        /\ UNCHANGED <<engine, tokens, nextToken, order, pending, listeners, sidecars, modes>>
    BY <1>3 DEF AttachRuntime, Becomes
  <2>2. entities[a] \in Record /\ entities[a].token \in Handles
    BY <1>1, <1>3, RecordTyped DEF Attachable
  <2>3. <<Do("constructed", a, Top.h),
          [Do("return", a, Top.h) EXCEPT !.t = entities[a].token]>> \in Seq(Frame)
    <3>1. Do("constructed", a, Top.h) \in Frame
      BY <1>1, <1>2, DoFrame DEF Ops, Callbacks
    <3>2. [Do("return", a, Top.h) EXCEPT !.t = entities[a].token] \in Frame
      <4>1. "return" \in Ops
        BY DEF Ops
      <4> QED BY <4>1, <1>1, <1>2, <2>2, OtherFrames
    <3> QED BY <3>1, <3>2
  <2>4. entities' \in [Addresses -> Record \cup {NoRecord}]
    <3>1. [entities[a] EXCEPT !.postConstructed = TRUE] \in Record
      BY <2>2, Marked
    <3> QED BY <1>1, <2>1, <3>1 DEF TypeOK
  <2>5. told' \in [Handles -> Seq(Events)]
    BY <2>1, TellsTyped DEF Events
  <2>6. ctl' \in Seq(Frame)
    BY <1>2, <2>1, <2>3, Stacked
  <2> QED BY <2>1, <2>4, <2>5, <2>6, RecordStepTyped
<1>4. CASE ~Attachable(a)
  <2>1. /\ ctl' = Deletion(a) \o Tail(ctl) /\ UNCHANGED <<entities, told>>
        /\ UNCHANGED <<engine, tokens, nextToken, order, pending, listeners, sidecars, modes>>
    BY <1>4 DEF AttachRuntime, Becomes
  <2>2. ctl' \in Seq(Frame)
    BY <1>1, <1>2, <2>1, DeletionFrames, Stacked
  <2> QED BY <2>1, <2>2, RecordStepTyped DEF TypeOK, Events
<1> QED BY <1>3, <1>4

\* NotifyCreated.
LEMMA NotifyCreatedTyped ==
  ASSUME TypeOK, TopFit, NotifyCreated
  PROVE  TypeOK'
<1>1. ctl # <<>> /\ Top.op = "notify" /\ Top.a \in Addresses
  BY DEF NotifyCreated, Running, TopFit, OfEntity, Ops
<1>2. Tail(ctl) \in Seq(Frame) /\ Top.h \in 0..MaxHandles
  BY <1>1, TopFrame
<1> DEFINE a == Top.a
<1>3. CASE available /\ IsCurrent(a, Top.h) /\ ~entities[a].deleting /\ ~entities[a].createdNotified
  <2>1. /\ entities' = [entities EXCEPT ![a].createdNotified = TRUE]
        /\ Tells(Top.h, "created")
        /\ ctl' = <<Do("forwardCreated", a, Top.h), Do("createdAll", a, Top.h)>> \o Tail(ctl)
        /\ UNCHANGED <<engine, tokens, nextToken, order, pending, listeners, sidecars, modes>>
    BY <1>3 DEF NotifyCreated, Becomes
  <2>2. entities[a] \in Record
    BY <1>1, <1>3, RecordTyped DEF IsCurrent
  <2>3. <<Do("forwardCreated", a, Top.h), Do("createdAll", a, Top.h)>> \in Seq(Frame)
    <3>1. Do("forwardCreated", a, Top.h) \in Frame /\ Do("createdAll", a, Top.h) \in Frame
      BY <1>1, <1>2, DoFrame DEF Ops, Callbacks
    <3> QED BY <3>1
  <2>4. entities' \in [Addresses -> Record \cup {NoRecord}]
    <3>1. [entities[a] EXCEPT !.createdNotified = TRUE] \in Record
      BY <2>2, Marked
    <3> QED BY <1>1, <2>1, <3>1 DEF TypeOK
  <2>5. told' \in [Handles -> Seq(Events)]
    BY <2>1, TellsTyped DEF Events
  <2>6. ctl' \in Seq(Frame)
    BY <1>2, <2>1, <2>3, Stacked
  <2> QED BY <2>1, <2>4, <2>5, <2>6, RecordStepTyped
<1>4. CASE ~(available /\ IsCurrent(a, Top.h) /\ ~entities[a].deleting /\ ~entities[a].createdNotified)
  <2>1. /\ ctl' = <<>> \o Tail(ctl) /\ UNCHANGED <<entities, told>>
        /\ UNCHANGED <<engine, tokens, nextToken, order, pending, listeners, sidecars, modes>>
    BY <1>4 DEF NotifyCreated, Becomes
  <2>2. ctl' \in Seq(Frame)
    BY <1>2, <2>1, Stacked
  <2> QED BY <2>1, <2>2, RecordStepTyped DEF TypeOK, Events
<1> QED BY <1>3, <1>4

\* OnEntityDeleted.
LEMMA OnEntityDeletedTyped ==
  ASSUME TypeOK, TopFit, OnEntityDeleted
  PROVE  TypeOK'
<1>1. ctl # <<>> /\ Top.a \in Addresses
  BY DEF OnEntityDeleted, Running, TopFit, OfEntity, Ops, Callbacks
<1>2. Tail(ctl) \in Seq(Frame)
  BY <1>1, TopFrame
<1> DEFINE a == Top.a  h == entities[a].handle
<1>3. /\ UNCHANGED <<engine, tokens, nextToken, order, pending, listeners, sidecars, modes, told>>
      /\ \/ ctl' = <<>> \o Tail(ctl) /\ UNCHANGED entities
         \/ /\ Tracked(a) /\ entities' = [entities EXCEPT ![a].deleting = TRUE]
            /\ ctl' = Destruction(a, h) \o Tail(ctl)
  BY DEF OnEntityDeleted, Becomes
<1>4. CASE ctl' = <<>> \o Tail(ctl) /\ UNCHANGED entities
  <2>1. ctl' \in Seq(Frame)
    BY <1>2, <1>4, Stacked
  <2> QED BY <1>3, <1>4, <2>1, RecordStepTyped DEF TypeOK, Events
<1>5. CASE /\ Tracked(a) /\ entities' = [entities EXCEPT ![a].deleting = TRUE]
           /\ ctl' = Destruction(a, h) \o Tail(ctl)
  <2>1. entities[a] \in Record /\ h \in Handles
    BY <1>1, <1>5, RecordTyped
  <2>2. h \in 0..MaxHandles
    BY <2>1 DEF Handles
  <2>3. ctl' \in Seq(Frame)
    BY <1>1, <1>2, <1>5, <2>2, DestructionFrames, Stacked
  <2>4. [entities[a] EXCEPT !.deleting = TRUE] \in Record
    BY <2>1, Marked
  <2>5. entities' \in [Addresses -> Record \cup {NoRecord}]
    BY <1>1, <1>5, <2>4 DEF TypeOK
  <2> QED BY <1>3, <2>3, <2>5, RecordStepTyped DEF TypeOK, Events
<1> QED BY <1>3, <1>4, <1>5

\* CleanupRuntime.
LEMMA CleanupRuntimeTyped ==
  ASSUME TypeOK, TopFit, CleanupRuntime
  PROVE  TypeOK'
<1>1. ctl # <<>> /\ Top.a \in Addresses
  BY DEF CleanupRuntime, Running, TopFit, OfEntity, Ops, Callbacks
<1>2. Tail(ctl) \in Seq(Frame)
  BY <1>1, TopFrame
<1> DEFINE a == Top.a  h == entities[a].handle
           tells == entities[a].runtime /\ entities[a].postConstructed
<1>3. UNCHANGED <<engine, tokens, nextToken, order, pending, listeners, sidecars, modes>>
  BY DEF CleanupRuntime
<1>4. CASE ~Tracked(a) \/ entities[a].removeNotified
  <2>1. ctl' = <<>> \o Tail(ctl) /\ UNCHANGED <<entities, told>>
    BY <1>4 DEF CleanupRuntime, Becomes
  <2>2. ctl' \in Seq(Frame)
    BY <1>2, <2>1, Stacked
  <2> QED BY <1>3, <2>1, <2>2, RecordStepTyped DEF TypeOK, Events
<1>5. CASE Tracked(a) /\ ~entities[a].removeNotified
  <2>1. /\ entities' = [entities EXCEPT ![a].removeNotified = TRUE]
        /\ IF tells THEN Tells(h, "removed") ELSE UNCHANGED told
        /\ ctl' = ((IF tells THEN <<Do("removed", a, h)>> ELSE <<>>) \o <<Do("cleanedUp", a, h)>>)
                    \o Tail(ctl)
    BY <1>5 DEF CleanupRuntime, Becomes
  <2>2. entities[a] \in Record /\ h \in Handles
    BY <1>1, <1>5, RecordTyped
  <2>3. h \in 0..MaxHandles
    BY <2>2 DEF Handles
  <2>4. Do("removed", a, h) \in Frame /\ Do("cleanedUp", a, h) \in Frame
    <3>1. "removed" \in Ops /\ "cleanedUp" \in Ops
      BY DEF Ops, Callbacks
    <3> QED BY <1>1, <2>3, <3>1, DoFrame
  <2>5. ((IF tells THEN <<Do("removed", a, h)>> ELSE <<>>) \o <<Do("cleanedUp", a, h)>>) \in Seq(Frame)
    BY <2>4
  <2>6. ctl' \in Seq(Frame)
    BY <1>2, <2>1, <2>5, Stacked
  <2>7. [entities[a] EXCEPT !.removeNotified = TRUE] \in Record
    BY <2>2, Marked
  <2>8. entities' \in [Addresses -> Record \cup {NoRecord}]
    BY <1>1, <2>1, <2>7 DEF TypeOK
  <2>9. told' \in [Handles -> Seq(Events)]
    BY <2>1, TellsTyped DEF Events, TypeOK
  <2> QED BY <1>3, <2>6, <2>8, <2>9, RecordStepTyped
<1> QED BY <1>4, <1>5

\* The second half of CleanupRuntime.
LEMMA CleanedUpTyped ==
  ASSUME TypeOK, TopFit, CleanedUp,
         IsCurrent(Top.a, Top.h) /\ entities[Top.a].runtime => entities[Top.a].sidecar # None
  PROVE  TypeOK'
<1>1. ctl # <<>> /\ Top.a \in Addresses
  BY DEF CleanedUp, Running, TopFit, OfEntity, Ops, Callbacks
<1>2. Tail(ctl) \in Seq(Frame)
  BY <1>1, TopFrame
<1> DEFINE a == Top.a
<1>3. /\ UNCHANGED <<engine, tokens, nextToken, order, pending, listeners, blocks, modes, told>>
      /\ ctl' = <<>> \o Tail(ctl)
  BY DEF CleanedUp, Becomes
<1>4. ctl' \in Seq(Frame)
  BY <1>2, <1>3, Stacked
<1>5. CASE ~IsCurrent(a, Top.h)
  <2>1. UNCHANGED <<entities, slots, free>>
    BY <1>5 DEF CleanedUp
  <2> QED BY <1>3, <1>4, <2>1 DEF TypeOK, engine, modes
<1>6. CASE IsCurrent(a, Top.h)
  <2>1. /\ slots' = SlotsCleared(a) /\ free' = Released(a)
        /\ entities' = [entities EXCEPT ![a].slotted = FALSE, ![a].runtime = FALSE,
                                        ![a].sidecar = None]
    BY <1>6 DEF CleanedUp
  <2>2. entities[a] \in Record
    BY <1>1, <1>6, RecordTyped DEF IsCurrent
  <2>3. entities' \in [Addresses -> Record \cup {NoRecord}]
    <3>1. [entities[a] EXCEPT !.slotted = FALSE, !.runtime = FALSE, !.sidecar = None] \in Record
      BY <2>2, Marked
    <3> QED BY <1>1, <2>1, <3>1 DEF TypeOK
  <2>4. slots' \in [Indexes -> Slot]
    <3>1. NoSlot \in Slot
      BY ConstantsOK DEF NoSlot, Slot, None
    <3> QED BY <2>1, <3>1 DEF SlotsCleared, TypeOK, Slot
  <2>5. free' \in Seq(1..MaxHandles)
    <3>1. entities[a].sidecar \in 0..MaxHandles
      BY <2>2 DEF Record
    <3>2. entities[a].runtime => entities[a].sidecar \in 1..MaxHandles
      BY <1>6, <3>1, ConstantsOK DEF None
    <3>3. free \in Seq(1..MaxHandles)
      BY DEF TypeOK
    <3>4. \A c \in 1..MaxHandles : Append(free, c) \in Seq(1..MaxHandles)
      BY <3>3
    <3> QED BY <2>1, <3>2, <3>3, <3>4 DEF Released
  <2> QED BY <1>3, <1>4, <2>3, <2>4, <2>5 DEF TypeOK, engine, modes, Slot
<1> QED BY <1>5, <1>6

\* NotifyDestroyed.
LEMMA NotifyDestroyedTyped ==
  ASSUME TypeOK, TopFit, NotifyDestroyed
  PROVE  TypeOK'
<1>1. ctl # <<>> /\ Top.a \in Addresses
  BY DEF NotifyDestroyed, Running, TopFit, OfEntity, Ops, Callbacks
<1>2. Tail(ctl) \in Seq(Frame) /\ Top.h \in 0..MaxHandles
  BY <1>1, TopFrame
<1>3. /\ UNCHANGED <<engine, registry, pending, listeners, sidecars, modes>>
      /\ Tells(Top.h, "destroyed")
      /\ ctl' = <<Do("forwardDestroyed", Top.a, Top.h), Do("destroyedAll", Top.a, Top.h)>> \o Tail(ctl)
  BY DEF NotifyDestroyed, Becomes
<1>4. Do("forwardDestroyed", Top.a, Top.h) \in Frame /\ Do("destroyedAll", Top.a, Top.h) \in Frame
  <2>1. "forwardDestroyed" \in Ops /\ "destroyedAll" \in Ops
    BY DEF Ops, Callbacks
  <2> QED BY <1>1, <1>2, <2>1, DoFrame
<1>5. <<Do("forwardDestroyed", Top.a, Top.h), Do("destroyedAll", Top.a, Top.h)>> \in Seq(Frame)
  BY <1>4
<1>6. ctl' \in Seq(Frame)
  BY <1>2, <1>3, <1>5, Stacked
<1>7. told' \in [Handles -> Seq(Events)]
  BY <1>3, TellsTyped DEF Events
<1> QED BY <1>3, <1>6, <1>7, RecordStepTyped DEF TypeOK, registry

\* Steps of callbacks, listeners, updates and purges that leave records alone.
LEMMA QuietStepsTyped ==
  ASSUME TypeOK, TopFit,
         \/ CreateReturns \/ CallbackReturns \/ CreatedListeners \/ TellCreated \/ Flush
         \/ DestroyedListeners \/ TellDestroyed \/ Purge
  PROVE  TypeOK'
<1>1. ctl # <<>>
  BY DEF CreateReturns, CallbackReturns, CreatedListeners, TellCreated, Flush,
         DestroyedListeners, TellDestroyed, Purge, Running
<1>2. /\ Tail(ctl) \in Seq(Frame) /\ Top \in Frame /\ Top.h \in 0..MaxHandles
      /\ Top.ls \in Seq(Listeners) /\ Top.q \in Seq(Addresses \X (0..MaxHandles))
      /\ listeners \in Seq(Listeners) /\ pending \in Seq(Addresses \X Handles)
  BY <1>1, TopFrame DEF TypeOK
<1>3. UNCHANGED <<engine, registry, pending, listeners, sidecars, modes, told>>
  BY DEF CreateReturns, CallbackReturns, CreatedListeners, TellCreated, Flush,
         DestroyedListeners, TellDestroyed, Purge
<1>4. CASE ctl' = <<>> \o Tail(ctl)
  <2>1. ctl' \in Seq(Frame)
    BY <1>2, <1>4, Stacked
  <2> QED BY <1>2, <1>3, <2>1, QuietTyped
<1>5. ASSUME NEW fs \in Seq(Frame), ctl' = fs \o Tail(ctl) PROVE TypeOK'
  <2>1. ctl' \in Seq(Frame)
    BY <1>2, <1>5, Stacked
  <2> QED BY <1>2, <1>3, <2>1, QuietTyped
<1>6. CASE CreateReturns \/ CallbackReturns
  BY <1>4, <1>6 DEF CreateReturns, CallbackReturns, Becomes
<1>7. CASE CreatedListeners \/ DestroyedListeners
  <2>1. Top.a \in Addresses /\ "createdEach" \in Ops /\ "destroyedEach" \in Ops
    BY <1>1, <1>7 DEF CreatedListeners, DestroyedListeners, Running, TopFit, OfEntity, Ops, Callbacks
  <2>2. /\ Each("createdEach", Top.a, Top.h, listeners) \in Frame
        /\ Each("destroyedEach", Top.a, Top.h, listeners) \in Frame
    BY <1>2, <2>1, OtherFrames
  <2>3. /\ <<Each("createdEach", Top.a, Top.h, listeners)>> \in Seq(Frame)
        /\ <<Each("destroyedEach", Top.a, Top.h, listeners)>> \in Seq(Frame)
    BY <2>2
  <2> QED BY <1>5, <1>7, <2>3 DEF CreatedListeners, DestroyedListeners, Becomes
<1>8. CASE TellCreated \/ TellDestroyed
  <2>1. Top.a \in Addresses /\ "listenerCreated" \in Ops /\ "listenerDestroyed" \in Ops
    BY <1>1, <1>8 DEF TellCreated, TellDestroyed, Running, TopFit, OfEntity, Ops, Callbacks
  <2>2. /\ Do("listenerCreated", Top.a, Top.h) \in Frame
        /\ Do("listenerDestroyed", Top.a, Top.h) \in Frame
    BY <1>2, <2>1, DoFrame
  <2>3. Top.ls # <<>> => [Top EXCEPT !.ls = Tail(@)] \in Frame
    <3>1. Top.ls # <<>> => Tail(Top.ls) \in Seq(Listeners)
      BY <1>2
    <3>2. [Top EXCEPT !.ls = Tail(@)] = [Top EXCEPT !.ls = Tail(Top.ls)]
      BY <1>2 DEF Frame
    <3>3. \A fr \in Frame, ls \in Seq(Listeners) : [fr EXCEPT !.ls = ls] \in Frame
      BY DEF Frame
    <3> QED BY <1>2, <3>1, <3>2, <3>3
  <2> DEFINE some(op) == (IF Registered(Head(Top.ls)) THEN <<Do(op, Top.a, Top.h)>> ELSE <<>>)
                           \o <<[Top EXCEPT !.ls = Tail(@)]>>
  <2>4. Top.ls # <<>> => some("listenerCreated") \in Seq(Frame) /\ some("listenerDestroyed") \in Seq(Frame)
    BY <2>2, <2>3
  <2>5. \/ ctl' = <<>> \o Tail(ctl)
        \/ Top.ls # <<>> /\ ctl' = some("listenerCreated") \o Tail(ctl)
        \/ Top.ls # <<>> /\ ctl' = some("listenerDestroyed") \o Tail(ctl)
    BY <1>8 DEF TellCreated, TellDestroyed, Becomes
  <2> HIDE DEF some
  <2> QED BY <1>4, <1>5, <2>4, <2>5
<1>9. CASE Flush \/ Purge
  <2>1. Top.q # <<>> => Tail(Top.q) \in Seq(Addresses \X (0..MaxHandles))
                        /\ Head(Top.q) \in Addresses \X (0..MaxHandles)
    BY <1>2
  <2>2. "notify" \in Ops /\ "flush" \in Ops /\ "deleted" \in Ops /\ "purge" \in Ops /\ None \in 0..MaxHandles
    BY ConstantsOK DEF Ops, None
  <2>3. Top.q # <<>> =>
          /\ Do("notify", Head(Top.q)[1], Head(Top.q)[2]) \in Frame
          /\ Do("deleted", Head(Top.q)[1], None) \in Frame
          /\ Queue("flush", Tail(Top.q)) \in Frame /\ Queue("purge", Tail(Top.q)) \in Frame
    <3> SUFFICES ASSUME Top.q # <<>>
                 PROVE /\ Do("notify", Head(Top.q)[1], Head(Top.q)[2]) \in Frame
                       /\ Do("deleted", Head(Top.q)[1], None) \in Frame
                       /\ Queue("flush", Tail(Top.q)) \in Frame /\ Queue("purge", Tail(Top.q)) \in Frame
      OBVIOUS
    <3> DEFINE b == Head(Top.q)[1]  h == Head(Top.q)[2]
    <3>1. b \in Addresses \cup {None} /\ h \in 0..MaxHandles
      BY <2>1
    <3> HIDE DEF b, h
    <3>2. Do("notify", b, h) \in Frame
      BY <2>2, <3>1, DoFrame
    <3>3. Do("deleted", b, None) \in Frame
      BY <2>2, <3>1, DoFrame
    <3>4. Queue("flush", Tail(Top.q)) \in Frame /\ Queue("purge", Tail(Top.q)) \in Frame
      BY <2>1, <2>2, QueueFrame
    <3> QED BY <3>2, <3>3, <3>4 DEF b, h
  <2>4. Top.q # <<>> =>
          /\ <<Do("notify", Head(Top.q)[1], Head(Top.q)[2]), Queue("flush", Tail(Top.q))>> \in Seq(Frame)
          /\ <<Do("deleted", Head(Top.q)[1], None), Queue("purge", Tail(Top.q))>> \in Seq(Frame)
    BY <2>3
  <2> QED BY <1>4, <1>5, <1>9, <2>4 DEF Flush, Purge, Becomes
<1> QED BY <1>6, <1>7, <1>8, <1>9

\* What the world does without a new entity, and the other steps of the manager.
LEMMA WorldStepsTyped ==
  ASSUME TypeOK,
         \/ \E a \in Addresses : DeleteEntity(a)
         \/ FlushPendingCreates \/ PurgeEntities \/ Shutdown
         \/ \E l \in Listeners : AddClientEntityListener(l) \/ RemoveClientEntityListener(l)
  PROVE  TypeOK'
<1>1. ctl \in Seq(Frame) /\ pending \in Seq(Addresses \X Handles) /\ listeners \in Seq(Listeners)
      /\ order \in Seq(Addresses)
  BY DEF TypeOK
<1>2. ASSUME NEW a \in Addresses, DeleteEntity(a) PROVE TypeOK'
  <2>1. ctl' = Deletion(a) \o ctl
        /\ UNCHANGED <<engine, registry, pending, listeners, sidecars, modes, told>>
    BY <1>2 DEF DeleteEntity, Calls
  <2>2. ctl' \in Seq(Frame)
    BY <1>1, <2>1, DeletionFrames, Stacked
  <2> QED BY <1>1, <2>1, <2>2, QuietTyped
<1>3. ASSUME FlushPendingCreates PROVE TypeOK'
  <2>1. /\ pending' = <<>> /\ ctl' = <<Queue("flush", pending)>> \o ctl
        /\ UNCHANGED <<engine, registry, listeners, sidecars, modes, told>>
    BY <1>3 DEF FlushPendingCreates, Calls
  <2>2. pending \in Seq(Addresses \X (0..MaxHandles))
    <3>1. Addresses \X Handles \subseteq Addresses \X (0..MaxHandles)
      BY ConstantsOK DEF Handles
    <3> QED BY <1>1, <3>1
  <2>3. <<Queue("flush", pending)>> \in Seq(Frame)
    <3>1. Queue("flush", pending) \in Frame
      <4>1. "flush" \in Ops
        BY DEF Ops
      <4> QED BY <2>2, <4>1, QueueFrame
    <3> QED BY <3>1
  <2>4. ctl' \in Seq(Frame) /\ pending' \in Seq(Addresses \X Handles)
    <3>1. ctl' \in Seq(Frame)
      BY <1>1, <2>1, <2>3, Stacked
    <3> QED BY <2>1, <3>1
  <2> QED BY <1>1, <2>1, <2>4, QuietTyped
<1>4. PurgeFrames \in Seq(Frame) /\ PurgeFrames \o <<Do("stop", None, None)>> \in Seq(Frame)
  <2>1. "purge" \in Ops /\ "purged" \in Ops /\ "stop" \in Ops /\ None \in 0..MaxHandles
    BY ConstantsOK DEF Ops, None
  <2>2. Do("purged", None, None) \in Frame /\ Do("stop", None, None) \in Frame
    BY <2>1, DoFrame
  <2>3. [k \in DOMAIN order |-> <<order[k], None>>] \in Seq(Addresses \X (0..MaxHandles))
    <3>1. DOMAIN order = 1..Len(order) /\ Len(order) \in Nat /\ \A k \in 1..Len(order) : order[k] \in Addresses
      BY <1>1
    <3> QED BY <2>1, <3>1
  <2>4. Queue("purge", [k \in DOMAIN order |-> <<order[k], None>>]) \in Frame
    BY <2>1, <2>3, QueueFrame
  <2>5. PurgeFrames \in Seq(Frame)
    BY <2>2, <2>4 DEF PurgeFrames
  <2> QED BY <2>2, <2>5
<1>5. ASSUME PurgeEntities \/ Shutdown PROVE TypeOK'
  <2>1. /\ pending' = <<>> /\ purging' = TRUE
        /\ UNCHANGED <<engine, registry, listeners, sidecars, available, published, told>>
        /\ \/ ctl' = PurgeFrames \o ctl
           \/ ctl' = (PurgeFrames \o <<Do("stop", None, None)>>) \o ctl
    BY <1>5 DEF PurgeEntities, Shutdown, Calls
  <2>2. ctl' \in Seq(Frame)
    BY <1>1, <1>4, <2>1, Stacked
  <2> QED BY <2>1, <2>2 DEF TypeOK, engine, registry, sidecars
<1>6. ASSUME NEW l \in Listeners, AddClientEntityListener(l) \/ RemoveClientEntityListener(l)
      PROVE TypeOK'
  <2>1. /\ listeners' = Append(listeners, l) \/ listeners' = Remaining(listeners, l)
        /\ UNCHANGED <<engine, registry, pending, sidecars, modes, told, ctl>>
    BY <1>6 DEF AddClientEntityListener, RemoveClientEntityListener
  <2>2. listeners' \in Seq(Listeners)
    <3>1. Remaining(listeners, l) \in Seq(Listeners)
      BY <1>1, RemainingIs
    <3>2. Append(listeners, l) \in Seq(Listeners)
      BY <1>1
    <3> QED BY <2>1, <3>1, <3>2
  <2> QED BY <1>1, <2>1, <2>2, QuietTyped
<1> QED BY <1>2, <1>3, <1>5, <1>6

\* The last steps of a destruction, a purge and an unload.
LEMMA LastStepsTyped ==
  ASSUME TypeOK, TopFit, Erase \/ FreeMemory \/ Purged \/ Stop
  PROVE  TypeOK'
<1>1. ctl # <<>> /\ (Erase \/ FreeMemory => Top.a \in Addresses)
  BY DEF Erase, FreeMemory, Purged, Stop, Running, TopFit, OfEntity, Ops, Callbacks
<1>2. Tail(ctl) \in Seq(Frame)
  BY <1>1, TopFrame
<1>3. ctl' = <<>> \o Tail(ctl)
  BY DEF Erase, FreeMemory, Purged, Stop, Becomes
<1>4. ctl' \in Seq(Frame)
  BY <1>2, <1>3, Stacked
<1>5. CASE Erase
  <2>1. /\ \/ /\ order' = Remaining(order, Top.a)
              /\ tokens' = [tokens EXCEPT ![entities[Top.a].token] = None]
              /\ entities' = [entities EXCEPT ![Top.a] = NoRecord]
           \/ UNCHANGED <<order, tokens, entities>>
        /\ UNCHANGED <<engine, nextToken, pending, listeners, sidecars, modes, told>>
    BY <1>5 DEF Erase, Without
  <2>2. order' \in Seq(Addresses)
    <3>1. order \in Seq(Addresses)
      BY DEF TypeOK
    <3> QED BY <2>1, <3>1, RemainingIs
  <2>3. tokens' \in [Handles -> Addresses \cup {None}] /\ entities' \in [Addresses -> Record \cup {NoRecord}]
    BY <2>1 DEF TypeOK
  <2> QED BY <1>4, <2>1, <2>2, <2>3 DEF TypeOK, engine, sidecars, modes
<1>6. CASE FreeMemory
  <2>1. None \in 0..MaxHandles
    BY ConstantsOK DEF None
  <2>2. /\ live' = [live EXCEPT ![Top.a] = None] /\ at' = [at EXCEPT ![Top.a] = None]
        /\ UNCHANGED <<used, registry, pending, listeners, sidecars, modes, told>>
    BY <1>6 DEF FreeMemory
  <2>3. live' \in [Addresses -> 0..MaxHandles] /\ at' \in [Addresses -> Indexes \cup {None}]
    BY <2>1, <2>2 DEF TypeOK
  <2> QED BY <1>4, <2>2, <2>3 DEF TypeOK, registry, sidecars, modes
<1>7. CASE Purged
  <2>1. NoSlot \in Slot
    BY ConstantsOK DEF NoSlot, Slot, None
  <2>2. /\ order' = <<>> /\ entities' = [a \in Addresses |-> NoRecord]
        /\ tokens' = [t \in Handles |-> None] /\ slots' = [i \in Indexes |-> NoSlot]
        /\ purging' = FALSE
        /\ UNCHANGED <<engine, nextToken, pending, listeners, blocks, free, available, published, told>>
    BY <1>7 DEF Purged
  <2>3. slots' \in [Indexes -> Slot]
    BY <2>1, <2>2
  <2>4. /\ entities' \in [Addresses -> Record \cup {NoRecord}]
        /\ tokens' \in [Handles -> Addresses \cup {None}]
        /\ order' \in Seq(Addresses)
    BY <2>2
  <2> QED BY <1>4, <2>2, <2>3, <2>4 DEF TypeOK, engine, Slot
<1>8. CASE Stop
  <2>1. /\ available' = FALSE /\ listeners' = <<>>
        /\ UNCHANGED <<engine, registry, pending, sidecars, purging, published, told>>
    BY <1>8 DEF Stop
  <2>2. listeners' \in Seq(Listeners)
    BY <2>1
  <2> QED BY <1>4, <2>1, <2>2 DEF TypeOK, engine, registry, sidecars
<1> QED BY <1>5, <1>6, <1>7, <1>8

\* A new entity and its record.
LEMMA ConstructTyped ==
  ASSUME TypeOK, Bounded, NEW a \in Addresses, NEW i \in Indexes \cup {None},
         NEW custom \in BOOLEAN, NEW hooked \in BOOLEAN, NEW networked \in BOOLEAN,
         custom => i \in Indexes, NEW after \in Seq(Frame),
         Construct(a, i, custom, hooked, networked, after)
  PROVE  TypeOK' /\ Bounded'
<1> DEFINE h == used + 1  attached == custom /\ hooked  tracks == available /\ ~purging
<1>1. /\ h \in Handles
      /\ live' = [live EXCEPT ![a] = h] /\ at' = [at EXCEPT ![a] = i] /\ used' = h
      /\ IF tracks THEN Track(a, h, i, custom, hooked) ELSE UNCHANGED <<registry, sidecars>>
      /\ pending' = IF tracks /\ networked THEN Append(pending, <<a, h>>) ELSE pending
      /\ ctl' = ((IF tracks /\ ~networked THEN <<Do("notify", a, h)>> ELSE <<>>) \o after) \o ctl
      /\ UNCHANGED <<listeners, modes, told>>
  BY DEF Construct, Calls
<1>2. used \in 0..MaxHandles /\ used \in Nat /\ MaxHandles \in Nat /\ nextToken \in Nat /\ blocks \in Nat
      /\ h \in 0..MaxHandles /\ h = used + 1
  BY <1>1, ConstantsOK DEF TypeOK, Handles
<1>3. live' \in [Addresses -> 0..MaxHandles] /\ at' \in [Addresses -> Indexes \cup {None}] /\ used' \in 0..MaxHandles
  <2> HIDE DEF h
  <2> QED BY <1>1, <1>2 DEF TypeOK
<1>4. ctl' \in Seq(Frame)
  <2>1. Do("notify", a, h) \in Frame
    <3>1. "notify" \in Ops
      BY DEF Ops
    <3> HIDE DEF h
    <3> QED BY <1>2, <3>1, DoFrame
  <2>2. ((IF tracks /\ ~networked THEN <<Do("notify", a, h)>> ELSE <<>>) \o after) \in Seq(Frame)
    BY <2>1
  <2>3. ctl \in Seq(Frame)
    BY DEF TypeOK
  <2> HIDE DEF h
  <2> QED BY <1>1, <2>2, <2>3, Stacked
<1>5. pending' \in Seq(Addresses \X Handles)
  <2> HIDE DEF h
  <2> QED BY <1>1 DEF TypeOK
<1>6. CASE ~tracks
  <2> HIDE DEF h
  <2>1. UNCHANGED <<registry, sidecars>>
    BY <1>1, <1>6
  <2> QED BY <1>1, <1>2, <1>3, <1>4, <1>5, <2>1, SMTT(30) DEF TypeOK, Bounded, registry, sidecars, modes
<1>7. CASE tracks
  <2>1. Track(a, h, i, custom, hooked)
    BY <1>1, <1>7
  <2> DEFINE s == IF attached THEN Acquired ELSE None
             r == [NewRecord(h, i) EXCEPT
                     !.runtime = attached, !.slotted = attached, !.removeNotified = custom /\ ~hooked,
                     !.sidecar = s]
  <2>2. /\ entities' = [entities EXCEPT ![a] = r]
        /\ tokens' = [tokens EXCEPT ![r.token] = a]
        /\ nextToken' = nextToken + 1
        /\ order' = Append(order, a)
    BY <2>1 DEF Track
  <2>3. nextToken \in Handles /\ nextToken <= h
    BY <1>1, <1>2 DEF Bounded, TypeOK, Handles
  <2>4. free = <<>> => blocks + 1 \in 1..MaxHandles /\ blocks + 1 <= h
    BY <1>1, <1>2 DEF Bounded, Handles
  <2>5. Acquired \in 1..MaxHandles
    <3>1. free \in Seq(1..MaxHandles)
      BY DEF TypeOK
    <3>2. free # <<>> => free[Len(free)] \in 1..MaxHandles
      BY <3>1, LastOf
    <3> QED BY <2>4, <3>2 DEF Acquired
  <2>6. s \in 0..MaxHandles
    BY <2>5, ConstantsOK DEF None
  <2>7. r \in Record /\ r.token = nextToken
    <3> HIDE DEF s, h
    <3> QED BY <1>1, <2>3, <2>6 DEF NewRecord, Record, TokenOfNext
  <2>8. /\ blocks' \in 0..MaxHandles /\ blocks' <= h /\ free' \in Seq(1..MaxHandles)
        /\ slots' \in [Indexes -> Slot]
    <3>1. free \in Seq(1..MaxHandles) /\ slots \in [Indexes -> Slot] /\ blocks \in 0..MaxHandles /\ blocks <= used
      BY DEF TypeOK, Slot, Bounded
    <3>2. free # <<>> => SubSeq(free, 1, Len(free) - 1) \in Seq(1..MaxHandles)
      BY <3>1, LastOf
    <3>3. free = <<>> => <<blocks + 1>> \in Seq(1..MaxHandles)
      BY <2>4
    <3>7. free = <<>> => blocks + 1 \in 0..MaxHandles
      BY <2>4
    <3>8. blocks <= h
      BY <1>2, <3>1
    <3>4. CASE attached
      <4>1. /\ slots' = [slots EXCEPT ![i] = [a |-> a, sidecar |-> Acquired, h |-> h]]
            /\ blocks' = IF free = <<>> THEN blocks + 1 ELSE blocks
            /\ free' = IF free = <<>> THEN free ELSE SubSeq(free, 1, Len(free) - 1)
        BY <2>1, <3>4 DEF Track, AfterAcquire
      <4>2. [a |-> a, sidecar |-> Acquired, h |-> h] \in Slot
        <5> HIDE DEF h
        <5> QED BY <1>2, <2>5 DEF Slot
      <4>3. slots' \in [Indexes -> Slot]
        <5>1. i \in Indexes
          BY <3>4
        <5> DEFINE x == [a |-> a, sidecar |-> Acquired, h |-> h]
        <5>2. slots' = [slots EXCEPT ![i] = x] /\ x \in Slot
          BY <4>1, <4>2
        <5> HIDE DEF x
        <5> QED BY <3>1, <5>1, <5>2
      <4>4. blocks' \in 0..MaxHandles /\ blocks' <= h
        <5> HIDE DEF h
        <5> QED BY <2>4, <3>1, <3>7, <3>8, <4>1
      <4>5. free' \in Seq(1..MaxHandles)
        BY <3>1, <3>2, <4>1
      <4> QED BY <4>3, <4>4, <4>5
    <3>5. CASE ~attached /\ custom
      <4>1. /\ slots' = [slots EXCEPT ![i] = NoSlot]
            /\ blocks' = IF free = <<>> THEN blocks + 1 ELSE blocks
            /\ free' = IF free = <<>> THEN <<blocks + 1>> ELSE free
        BY <2>1, <3>5 DEF Track
      <4>2. NoSlot \in Slot
        BY ConstantsOK DEF NoSlot, Slot, None
      <4>3. slots' \in [Indexes -> Slot]
        BY <3>1, <4>1, <4>2
      <4>4. blocks' \in 0..MaxHandles /\ blocks' <= h
        <5> HIDE DEF h
        <5> QED BY <2>4, <3>1, <3>7, <3>8, <4>1
      <4>5. free' \in Seq(1..MaxHandles)
        BY <3>1, <3>3, <4>1
      <4> QED BY <4>3, <4>4, <4>5
    <3>6. CASE ~attached /\ ~custom
      <4>1. UNCHANGED sidecars
        BY <2>1, <3>6 DEF Track
      <4> QED BY <1>2, <3>1, <4>1 DEF sidecars
    <3> QED BY <3>4, <3>5, <3>6
  <2>9. /\ entities' \in [Addresses -> Record \cup {NoRecord}]
        /\ tokens' \in [Handles -> Addresses \cup {None}]
        /\ order' \in Seq(Addresses)
    <3> HIDE DEF r
    <3>1. r.token \in Handles
      BY <2>3, <2>7
    <3>2. entities' \in [Addresses -> Record \cup {NoRecord}]
      BY <2>2, <2>7 DEF TypeOK
    <3>3. tokens' \in [Handles -> Addresses \cup {None}]
      BY <2>2, <3>1 DEF TypeOK
    <3>4. order' \in Seq(Addresses)
      BY <2>2 DEF TypeOK
    <3> QED BY <3>2, <3>3, <3>4
  <2>10. nextToken' \in 1..(MaxHandles + 1) /\ nextToken' <= used' + 1
    <3> HIDE DEF r
    <3> QED BY <1>1, <1>2, <2>2, <2>3 DEF Handles
  <2>11. blocks' <= used'
    <3> HIDE DEF r
    <3> QED BY <1>1, <2>8
  <2> HIDE DEF r, h, s
  <2> QED BY <1>1, <1>3, <1>4, <1>5, <2>8, <2>9, <2>10, <2>11 DEF TypeOK, Bounded, modes, Slot
<1> QED BY <1>6, <1>7

-----------------------------------------------------------------------------
(***************************************************************************)
(* The order of calls.  What was called is above its caller; the calls     *)
(* that free an entity, drop its record or give back its sidecar are on    *)
(* the stack once.                                                         *)
(***************************************************************************)
Telling == {"notifyDestroyed", "destroyedAll", "destroyedEach"}
Unique == {"freeMemory", "erase", "cleanedUp"}

\* The stack s has a call of this kind about the entity at a.
Has(s, op, a) == \E k \in 1..Len(s) : s[k].op = op /\ s[k].a = a

\* The call under k is one of these, about the same entity.
Below(s, k, ops) == k + 1 \in 1..Len(s) /\ s[k + 1].op \in ops /\ s[k + 1].a = s[k].a
BelowSame(s, k, ops) == Below(s, k, ops) /\ s[k + 1].h = s[k].h
BelowIs(s, k, op) == k + 1 \in 1..Len(s) /\ s[k + 1].op = op

NestedAt(s, k) ==
  LET op == s[k].op IN
  /\ op \in {"cleanup", "cleanedUp"} =>
       \/ Below(s, k, {"deleted"}) /\ Below(s, k + 1, {"freeMemory"})
       \/ Below(s, k, {"notifyDestroyed", "erase"})
  /\ op = "removed" => BelowSame(s, k, {"cleanedUp"})
  /\ op = "forwardDestroyed" => BelowSame(s, k, {"destroyedAll"})
  /\ op = "listenerDestroyed" => BelowSame(s, k, {"destroyedEach"})
  /\ op \in Telling => BelowSame(s, k, {"erase"})
  /\ op \in {"deleted", "erase"} => Below(s, k, {"freeMemory"}) \/ BelowIs(s, k, "purge")
  /\ op = "purge" => BelowIs(s, k, "purged")
  /\ op = "purged" => k = Len(s) \/ BelowIs(s, k, "stop")
  /\ op = "stop" => k = Len(s)
  /\ BelowIs(s, k, "stop") => op = "purged"
  /\ op = "attach" => k = 1
Nested(s) == \A k \in 1..Len(s) : NestedAt(s, k)

Alike(fr, gr) == fr.op = gr.op /\ fr.a = gr.a
Single(s) ==
  \A j, k \in 1..Len(s) : s[j].op \in Unique /\ Alike(s[j], s[k]) => j = k
-----------------------------------------------------------------------------
(***************************************************************************)
(* The invariant.                                                          *)
(***************************************************************************)
Place == 1..Len(ctl)
On(op, a) == Has(ctl, op, a)

\* Calls about a record, none of which goes on without it.
RecordOps ==
  {"removed", "cleanedUp", "forwardDestroyed", "listenerDestroyed", "erase"} \cup Telling

\* What a call relies on.
FrameFit(fr) ==
  /\ fr.op \in OfEntity => fr.a \in Addresses
  /\ fr.t < nextToken
  /\ fr.op \in RecordOps => IsCurrent(fr.a, fr.h)
  /\ fr.op = "erase" => entities[fr.a].deleting
  /\ fr.op = "cleanedUp" => entities[fr.a].removeNotified
  /\ fr.op = "removed" => entities[fr.a].runtime
  /\ fr.op = "freeMemory" => live[fr.a] # None
  /\ fr.op = "return" /\ Tracked(fr.a) /\ entities[fr.a].token = fr.t =>
       entities[fr.a].handle = fr.h
FramesFit == \A k \in Place : FrameFit(ctl[k])

\* The entity that a create function goes on with is new.
AttachFit ==
  Running("attach") =>
    /\ live[Top.a] = Top.h /\ Top.h # None /\ ~Deleting(Top.a)
    /\ IsCurrent(Top.a, Top.h) => ~entities[Top.a].postConstructed

\* Memory is freed when the record is gone, or will go with the purge.
FreedAt(k) ==
  ctl[k].op = "freeMemory" /\ Tracked(ctl[k].a) =>
    \/ k > 1 /\ ctl[k - 1].op \in {"deleted", "erase"} /\ ctl[k - 1].a = ctl[k].a
    \/ purging /\ entities[ctl[k].a].deleting
Freed == \A k \in Place : FreedAt(k)

Purges ==
  /\ purging <=> \E k \in Place : ctl[k].op = "purged"
  /\ ~available => \A a \in Addresses : ~Tracked(a)
  /\ ~purging /\ (\E k \in Place : ctl[k].op = "stop") => \A a \in Addresses : ~Tracked(a)

\* The purge has still to come to an entity.
Queued(a) ==
  \E k \in Place : ctl[k].op = "purge" /\ \E n \in 1..Len(ctl[k].q) : ctl[k].q[n][1] = a
Waits(a) == Queued(a) \/ On("deleted", a)

RecordFit(a) ==
  LET r == entities[a] IN
  /\ r.handle <= used /\ r.token < nextToken
  /\ r.runtime <=> r.sidecar # None
  /\ r.slotted => r.runtime /\ r.index \in Indexes
  /\ r.deleting => On("erase", a)
  /\ r.deleting /\ ~r.removeNotified => Running("cleanup") /\ Top.a = a
  /\ r.runtime /\ r.removeNotified => On("cleanedUp", a)
  /\ live[a] # r.handle => purging /\ r.deleting
  /\ purging /\ ~r.deleting => Waits(a)
RecordsFit == \A a \in Addresses : Tracked(a) => RecordFit(a)

HandlesFit ==
  /\ \A a, b \in Addresses :
       Tracked(a) /\ Tracked(b) /\ entities[a].handle = entities[b].handle => a = b
  /\ \A a \in Addresses : live[a] <= used

\* A slot in use is that of the record under its entity's address.
SlotFit(i) ==
  LET s == slots[i] IN
  /\ s.h <= used
  /\ s.h = None => s.sidecar = None
  /\ s.a # None /\ s.h # None /\ live[s.a] = s.h =>
       /\ IsCurrent(s.a, s.h)
       /\ entities[s.a].slotted /\ entities[s.a].index = i /\ entities[s.a].sidecar = s.sidecar
SlotsFit == \A i \in Indexes : SlotFit(i)

Listed ==
  /\ \A t \in Handles : tokens[t] # None => Tracked(tokens[t]) /\ entities[tokens[t]].token = t
  /\ \A a \in Addresses : Tracked(a) =>
       /\ tokens[entities[a].token] = a
       /\ \E k \in 1..Len(order) : order[k] = a
  /\ \A k \in 1..Len(order) : Tracked(order[k])
  /\ \A j, k \in 1..Len(order) : order[j] = order[k] => j = k

Owned == {a \in Addresses : Tracked(a) /\ entities[a].sidecar # None}
Pooled ==
  /\ IsFiniteSet(Owned)
  /\ Cardinality(Owned) + Len(free) = blocks
  /\ \A b \in Nat : b \in 1..blocks <=> \/ \E a \in Owned : entities[a].sidecar = b
                                        \/ \E k \in 1..Len(free) : free[k] = b

StackInv == Nested(ctl) /\ Single(ctl) /\ FramesFit /\ AttachFit /\ Freed /\ Purges
RecordInv == RecordsFit /\ HandlesFit /\ SlotsFit /\ Listed /\ Pooled
CoreInv == TypeOK /\ Bounded /\ StackInv /\ RecordInv

\* What plugins have heard of the entity of a record, and will hear.
ToldOf(a) ==
  LET r == entities[a]  h == entities[a].handle IN
  /\ Said(h, "constructed") <=> r.postConstructed
  /\ Said(h, "created") \/ Said(h, "seeded") <=> r.createdNotified
  /\ Said(h, "removed") <=> r.removeNotified /\ r.postConstructed
  /\ r.postConstructed /\ ~r.removeNotified => r.runtime
  /\ Said(h, "destroyed") => r.deleting /\ ~On("notifyDestroyed", a)
  /\ r.deleting /\ r.createdNotified => Said(h, "destroyed") \/ On("notifyDestroyed", a)
  /\ On("notifyDestroyed", a) => r.createdNotified
\* ... and have heard when it is gone.
Ended(h) ==
  /\ Said(h, "constructed") => Said(h, "removed")
  /\ Said(h, "created") \/ Said(h, "seeded") => Said(h, "destroyed")
HeardInOrder(h) ==
  /\ \A j, k \in 1..Len(told[h]) : told[h][j] = told[h][k] => j = k
  /\ Before(h, "constructed", "removed")
  /\ Said(h, "seeded") \/ Before(h, "created", "destroyed")
ToldFit ==
  /\ \A a \in Addresses : Tracked(a) => ToldOf(a)
  /\ \A h \in Handles : HeardInOrder(h)
  /\ \A h \in Handles : h > used => told[h] = <<>>
  /\ \A h \in Handles : (\A a \in Addresses : ~IsCurrent(a, h)) => Ended(h)

IInv == CoreInv /\ ToldFit

-----------------------------------------------------------------------------
(***************************************************************************)
(* Steps of the stack.                                                     *)
(***************************************************************************)

\* The place k of the stack t is the place i of the stack s, m new frames above it
\* and p frames gone.
Comes(s, t, k, i, m, p) ==
  /\ i \in 1..Len(s) /\ i > p /\ k \in 1..Len(t) /\ k > m /\ k = i + m - p
  /\ t[k] = s[i]
  /\ i + 1 \in 1..Len(s) <=> k + 1 \in 1..Len(t)
  /\ i + 1 \in 1..Len(s) => t[k + 1] = s[i + 1]
  /\ (i + 1) + 1 \in 1..Len(s) <=> (k + 1) + 1 \in 1..Len(t)
  /\ (i + 1) + 1 \in 1..Len(s) => t[(k + 1) + 1] = s[(i + 1) + 1]
  /\ i > p + 1 => k - 1 \in 1..Len(t) /\ k > 1 /\ i > 1 /\ t[k - 1] = s[i - 1]
  /\ i = Len(s) <=> k = Len(t)

\* The stack t is s with m new frames in the place of the p innermost.
Rests(s, t, m, p) ==
  /\ Len(t) = Len(s) + m - p /\ m \in 0..Len(t)
  /\ \A k \in 1..Len(t) : k > m => \E i \in 1..Len(s) : Comes(s, t, k, i, m, p)
  /\ \A i \in 1..Len(s) : i > p => \E k \in 1..Len(t) : Comes(s, t, k, i, m, p)

\* A stack whose frames below the first m are those of s below the first p.
LEMMA RestsBy ==
  ASSUME NEW s \in Seq(Frame), NEW t \in Seq(Frame), NEW m \in Nat, NEW p \in Nat,
         p <= Len(s), Len(t) = Len(s) + m - p,
         \A i \in 1..Len(s) : i > p => t[i + m - p] = s[i]
  PROVE  Rests(s, t, m, p)
<1>1. Len(s) \in Nat /\ Len(t) \in Nat /\ m \in 0..Len(t)
  OBVIOUS
<1>2. \A i \in 1..Len(s) : i > p => Comes(s, t, i + m - p, i, m, p)
  <2> SUFFICES ASSUME NEW i \in 1..Len(s), i > p PROVE Comes(s, t, i + m - p, i, m, p)
    OBVIOUS
  <2> DEFINE k == i + m - p
  <2>1. k \in 1..Len(t) /\ k > m /\ t[k] = s[i] /\ k \in Nat
    BY <1>1
  <2>2. i + 1 \in 1..Len(s) <=> k + 1 \in 1..Len(t)
    BY <1>1
  <2>3. i + 1 \in 1..Len(s) => t[k + 1] = s[i + 1]
    <3>1. i + 1 \in 1..Len(s) => i + 1 > p /\ (i + 1) + m - p = k + 1
      BY <1>1
    <3> QED BY <3>1
  <2>4. (i + 1) + 1 \in 1..Len(s) <=> (k + 1) + 1 \in 1..Len(t)
    BY <1>1
  <2>5. (i + 1) + 1 \in 1..Len(s) => t[(k + 1) + 1] = s[(i + 1) + 1]
    <3>1. (i + 1) + 1 \in 1..Len(s) => (i + 1) + 1 > p /\ ((i + 1) + 1) + m - p = (k + 1) + 1
      BY <1>1
    <3> QED BY <3>1
  <2>6. i > p + 1 => k - 1 \in 1..Len(t) /\ k > 1 /\ i > 1 /\ t[k - 1] = s[i - 1]
    <3>1. i > p + 1 => i - 1 \in 1..Len(s) /\ i - 1 > p /\ (i - 1) + m - p = k - 1
      BY <1>1
    <3>2. i > p + 1 => k - 1 \in 1..Len(t) /\ k > 1 /\ i > 1
      BY <1>1
    <3> QED BY <3>1, <3>2
  <2>7. i = Len(s) <=> k = Len(t)
    BY <1>1, SMTT(30)
  <2> HIDE DEF k
  <2>8. k = i + m - p
    BY DEF k
  <2>9. Comes(s, t, k, i, m, p)
    BY <2>1, <2>2, <2>3, <2>4, <2>5, <2>6, <2>7, <2>8 DEF Comes
  <2> QED BY <2>9 DEF k
<1>3. \A k \in 1..Len(t) : k > m => \E i \in 1..Len(s) : i > p /\ k = i + m - p
  <2> TAKE k \in 1..Len(t)
  <2>1. k > m => k - m + p \in 1..Len(s) /\ k - m + p > p /\ k = (k - m + p) + m - p
    BY <1>1
  <2> QED BY <2>1
<1>4. \A i \in 1..Len(s) : i > p => i + m - p \in 1..Len(t)
  BY <1>1
<1> QED BY <1>1, <1>2, <1>3, <1>4 DEF Rests

\* Frames fs on the stack.
LEMMA CallsRests ==
  ASSUME NEW s \in Seq(Frame), NEW fs \in Seq(Frame)
  PROVE  Rests(s, fs \o s, Len(fs), 0) /\ \A k \in 1..Len(fs) : (fs \o s)[k] = fs[k]
<1> DEFINE t == fs \o s  m == Len(fs)
<1>1. t \in Seq(Frame) /\ Len(t) = Len(s) + m - 0 /\ m \in Nat /\ 0 \in Nat /\ 0 <= Len(s)
  OBVIOUS
<1>2. \A i \in 1..Len(s) : i > 0 => t[i + m - 0] = s[i]
  <2> TAKE i \in 1..Len(s)
  <2>1. i + m - 0 \in 1..Len(t) /\ i + m - 0 > m /\ (i + m - 0) - m = i
    BY <1>1
  <2> QED BY <2>1
<1>3. \A k \in 1..Len(fs) : (fs \o s)[k] = fs[k]
  OBVIOUS
<1> HIDE DEF t, m
<1>4. Rests(s, t, m, 0)
  BY <1>1, <1>2, RestsBy
<1> QED BY <1>3, <1>4 DEF t, m

\* Frames on frames.
LEMMA Concat ==
  ASSUME NEW fs \in Seq(Frame), NEW c \in Seq(Frame)
  PROVE  /\ fs \o c \in Seq(Frame) /\ Len(fs \o c) = Len(fs) + Len(c)
         /\ Len(fs) \in Nat /\ Len(c) \in Nat
         /\ \A k \in 1..Len(fs) : (fs \o c)[k] = fs[k]
         /\ \A k \in 1..Len(fs \o c) : k > Len(fs) => (fs \o c)[k] = c[k - Len(fs)]
OBVIOUS

\* Frames fs in the place of the innermost one.
LEMMA BecomesRests ==
  ASSUME NEW s \in Seq(Frame), NEW fs \in Seq(Frame), s # <<>>
  PROVE  Rests(s, fs \o Tail(s), Len(fs), 1) /\ \A k \in 1..Len(fs) : (fs \o Tail(s))[k] = fs[k]
<1> DEFINE c == Tail(s)  t == fs \o c  m == Len(fs)
<1>0. c \in Seq(Frame) /\ Len(c) = Len(s) - 1 /\ (\A k \in 1..Len(c) : c[k] = s[k + 1]) /\ Len(s) \in Nat
      /\ Len(s) > 0
  OBVIOUS
<1> HIDE DEF c
<1>1. t \in Seq(Frame) /\ Len(t) = Len(s) + m - 1 /\ m \in Nat /\ 1 \in Nat /\ 1 <= Len(s)
  <2>1. fs \o c \in Seq(Frame) /\ Len(fs \o c) = Len(fs) + Len(c) /\ Len(fs) \in Nat
    BY <1>0, Concat
  <2> QED BY <1>0, <2>1
<1>2. \A i \in 1..Len(s) : i > 1 => t[i + m - 1] = s[i]
  <2> TAKE i \in 1..Len(s)
  <2>1. i > 1 => /\ i + m - 1 \in 1..Len(t) /\ i + m - 1 > m /\ (i + m - 1) - m = i - 1
                 /\ i - 1 \in 1..Len(c) /\ (i - 1) + 1 = i
    BY <1>0, <1>1
  <2>2. i > 1 => t[i + m - 1] = c[i - 1]
    BY <1>0, <2>1
  <2> QED BY <1>0, <2>1, <2>2
<1>3. \A k \in 1..Len(fs) : (fs \o c)[k] = fs[k]
  BY <1>0
<1> HIDE DEF t, m
<1>4. Rests(s, t, m, 1)
  BY <1>1, <1>2, RestsBy
<1> QED BY <1>3, <1>4 DEF t, m, c

\* Nesting is kept by a step that puts nested frames on top.
LEMMA NestedKept ==
  ASSUME NEW s \in Seq(Frame), NEW t \in Seq(Frame), NEW m \in Nat, NEW p \in {0, 1},
         Rests(s, t, m, p), Nested(s), \A k \in 1..m : NestedAt(t, k),
         p = 0 /\ Len(s) > 0 => s[1].op # "attach"
  PROVE  Nested(t)
<1> SUFFICES ASSUME NEW k \in 1..Len(t), k > m PROVE NestedAt(t, k)
  BY DEF Nested, Rests
<1>1. PICK i \in 1..Len(s) : Comes(s, t, k, i, m, p)
  BY DEF Rests
<1>2. NestedAt(s, i) /\ s[i].op # "attach"
  <2>1. NestedAt(s, i)
    BY DEF Nested
  <2>2. i = 1 => p = 0 /\ Len(s) > 0
    BY <1>1 DEF Comes
  <2> QED BY <2>1, <2>2 DEF NestedAt
<1>3. /\ t[k] = s[i]
      /\ i + 1 \in 1..Len(s) <=> k + 1 \in 1..Len(t)
      /\ i + 1 \in 1..Len(s) => t[k + 1] = s[i + 1]
      /\ (i + 1) + 1 \in 1..Len(s) <=> (k + 1) + 1 \in 1..Len(t)
      /\ (i + 1) + 1 \in 1..Len(s) => t[(k + 1) + 1] = s[(i + 1) + 1]
      /\ i = Len(s) <=> k = Len(t)
  BY <1>1 DEF Comes
<1>4. \A ops : Below(s, i, ops) <=> Below(t, k, ops)
  BY <1>3 DEF Below
<1>5. \A ops : BelowSame(s, i, ops) <=> BelowSame(t, k, ops)
  BY <1>3, <1>4 DEF BelowSame, Below
<1>6. \A op : BelowIs(s, i, op) <=> BelowIs(t, k, op)
  BY <1>3 DEF BelowIs
<1>7. \A ops : Below(s, i, {"deleted"}) /\ Below(s, i + 1, ops) => Below(t, k + 1, ops)
  BY <1>3 DEF Below
<1> QED BY <1>2, <1>3, <1>4, <1>5, <1>6, <1>7 DEF NestedAt

\* No call is twice on the stack after a step that puts on it none that is there.
LEMMA SingleKept ==
  ASSUME NEW s \in Seq(Frame), NEW t \in Seq(Frame), NEW m \in Nat, NEW p \in {0, 1},
         Rests(s, t, m, p), Single(s),
         \A j, k \in 1..m : t[j].op \in Unique /\ Alike(t[j], t[k]) => j = k,
         \A k \in 1..m, i \in 1..Len(s) : i > p /\ t[k].op \in Unique => ~Alike(t[k], s[i])
  PROVE  Single(t)
<1> SUFFICES ASSUME NEW j \in 1..Len(t), NEW k \in 1..Len(t), t[j].op \in Unique, Alike(t[j], t[k])
             PROVE  j = k
  BY DEF Single
<1>1. ASSUME NEW l \in 1..Len(t), l > m
      PROVE  \E i \in 1..Len(s) : i > p /\ t[l] = s[i] /\ l = i + m - p
  BY <1>1 DEF Rests, Comes
<1>2. CASE j > m /\ k > m
  <2>1. PICK i \in 1..Len(s) : i > p /\ t[j] = s[i] /\ j = i + m - p
    BY <1>1, <1>2
  <2>2. PICK l \in 1..Len(s) : l > p /\ t[k] = s[l] /\ k = l + m - p
    BY <1>1, <1>2
  <2>3. i = l
    BY <2>1, <2>2 DEF Single
  <2> QED BY <2>1, <2>2, <2>3
<1>3. CASE j <= m /\ k <= m
  BY <1>3
<1>4. CASE j <= m /\ k > m
  <2>1. PICK i \in 1..Len(s) : i > p /\ t[k] = s[i] /\ k = i + m - p
    BY <1>1, <1>4
  <2> QED BY <1>4, <2>1
<1>5. CASE j > m /\ k <= m
  <2>1. PICK i \in 1..Len(s) : i > p /\ t[j] = s[i] /\ j = i + m - p
    BY <1>1, <1>5
  <2> QED BY <1>5, <2>1 DEF Alike
<1> QED BY <1>2, <1>3, <1>4, <1>5

\* Calls that are there stay, but for the innermost, and others are new.
LEMMA HasKept ==
  ASSUME NEW s \in Seq(Frame), NEW t \in Seq(Frame), NEW m \in Nat, NEW p \in {0, 1},
         Rests(s, t, m, p), NEW op, NEW a
  PROVE  /\ Has(s, op, a) /\ (p = 1 => ~(s[1].op = op /\ s[1].a = a)) => Has(t, op, a)
         /\ Has(t, op, a) => Has(s, op, a) \/ \E k \in 1..m : t[k].op = op /\ t[k].a = a
<1>1. \A i \in 1..Len(s) : i > p => \E k \in 1..Len(t) : t[k] = s[i]
  BY DEF Rests, Comes
<1>2. \A k \in 1..Len(t) : k > m => \E i \in 1..Len(s) : t[k] = s[i]
  BY DEF Rests, Comes
<1>3. \A i \in 1..Len(s) : i > p \/ (p = 1 /\ i = 1)
  OBVIOUS
<1>4. \A k \in 1..Len(t) : k > m \/ k \in 1..m
  OBVIOUS
<1> QED BY <1>1, <1>2, <1>3, <1>4 DEF Has

\* Two frames, one frame, none.
LEMMA FewFrames ==
  /\ <<>> \in Seq(Frame) /\ Len(<<>>) = 0
  /\ \A x \in Frame : <<x>> \in Seq(Frame) /\ Len(<<x>>) = 1 /\ <<x>>[1] = x
  /\ \A x, y \in Frame : /\ <<x, y>> \in Seq(Frame) /\ Len(<<x, y>>) = 2
                         /\ <<x, y>>[1] = x /\ <<x, y>>[2] = y
  /\ \A x, y, z \in Frame : /\ <<x, y, z>> \in Seq(Frame) /\ Len(<<x, y, z>>) = 3
                            /\ <<x, y, z>>[1] = x /\ <<x, y, z>>[2] = y /\ <<x, y, z>>[3] = z
OBVIOUS

\* Nothing but the end of a purge is below a purge.
LEMMA PurgeLow ==
  ASSUME NEW s \in Seq(Frame), Nested(s), NEW k \in 1..Len(s), s[k].op = "purge",
         NEW j \in 1..Len(s), j > k
  PROVE  s[j].op \in {"purged", "stop"}
<1>1. k + 1 \in 1..Len(s) /\ s[k + 1].op = "purged"
  BY DEF Nested, NestedAt, BelowIs
<1>2. k + 1 = Len(s) \/ ((k + 1) + 1 \in 1..Len(s) /\ s[(k + 1) + 1].op = "stop")
  BY <1>1 DEF Nested, NestedAt, BelowIs
<1>3. (k + 1) + 1 \in 1..Len(s) /\ s[(k + 1) + 1].op = "stop" => (k + 1) + 1 = Len(s)
  BY DEF Nested, NestedAt
<1>4. j = k + 1 \/ (k + 1 # Len(s) /\ j = (k + 1) + 1) \/ (j > (k + 1) + 1)
  OBVIOUS
<1>5. ~(j > Len(s))
  OBVIOUS
<1> QED BY <1>1, <1>2, <1>3, <1>4, <1>5

\* Each call about a record waits for the one that drops the record, or for the deletion of its entity.
LEMMA Chain ==
  ASSUME NEW s \in Seq(Frame), Nested(s), NEW k \in 1..Len(s),
         s[k].op \in RecordOps \cup {"cleanup"}
  PROVE  \/ \E j \in 1..Len(s) : j >= k /\ s[j].op = "erase" /\ s[j].a = s[k].a
         \/ \E j \in 1..Len(s) : /\ j >= k /\ s[j].op = "deleted" /\ s[j].a = s[k].a
                                 /\ j > 1 /\ Below(s, j, {"freeMemory"})
<1> DEFINE Good(i) ==
      \/ \E j \in 1..Len(s) : j >= i /\ s[j].op = "erase" /\ s[j].a = s[i].a
      \/ \E j \in 1..Len(s) : /\ j >= i /\ s[j].op = "deleted" /\ s[j].a = s[i].a
                              /\ j > 1 /\ Below(s, j, {"freeMemory"})
<1>0. \A i \in 1..Len(s) : i + 1 \in 1..Len(s) /\ s[i + 1].a = s[i].a /\ Good(i + 1) => Good(i)
  OBVIOUS
<1>1. \A i \in 1..Len(s) : s[i].op = "erase" => Good(i)
  OBVIOUS
<1>2. \A i \in 1..Len(s) : Below(s, i, {"erase"}) => Good(i)
  BY <1>0, <1>1 DEF Below
<1>3. \A i \in 1..Len(s) : s[i].op \in Telling => Good(i)
  BY <1>2 DEF Nested, NestedAt, BelowSame, Telling
<1>4. \A i \in 1..Len(s) : s[i].op \in {"cleanup", "cleanedUp"} => Good(i)
  <2> SUFFICES ASSUME NEW i \in 1..Len(s), s[i].op \in {"cleanup", "cleanedUp"} PROVE Good(i)
    OBVIOUS
  <2>1. \/ Below(s, i, {"deleted"}) /\ Below(s, i + 1, {"freeMemory"})
        \/ Below(s, i, {"notifyDestroyed", "erase"})
    BY DEF Nested, NestedAt
  <2>2. CASE Below(s, i, {"deleted"}) /\ Below(s, i + 1, {"freeMemory"})
    <3>1. i + 1 \in 1..Len(s) /\ i + 1 >= i /\ s[i + 1].op = "deleted" /\ s[i + 1].a = s[i].a /\ i + 1 > 1
      BY <2>2 DEF Below
    <3> QED BY <2>2, <3>1
  <2>3. CASE Below(s, i, {"notifyDestroyed", "erase"})
    <3>1. i + 1 \in 1..Len(s) /\ s[i + 1].a = s[i].a /\ s[i + 1].op \in {"notifyDestroyed", "erase"}
      BY <2>3 DEF Below
    <3>2. Good(i + 1)
      BY <1>1, <1>3, <3>1 DEF Telling
    <3> QED BY <1>0, <3>1, <3>2
  <2> QED BY <2>1, <2>2, <2>3
<1>5. \A i \in 1..Len(s) : s[i].op \in {"removed", "forwardDestroyed", "listenerDestroyed"} => Good(i)
  <2> SUFFICES ASSUME NEW i \in 1..Len(s), s[i].op \in {"removed", "forwardDestroyed", "listenerDestroyed"}
               PROVE  Good(i)
    OBVIOUS
  <2>1. i + 1 \in 1..Len(s) /\ s[i + 1].a = s[i].a /\ s[i + 1].op \in {"cleanedUp", "destroyedAll", "destroyedEach"}
    BY DEF Nested, NestedAt, BelowSame, Below
  <2>2. Good(i + 1)
    BY <1>3, <1>4, <2>1 DEF Telling
  <2> QED BY <1>0, <2>1, <2>2
<1> HIDE DEF Good
<1>6. Good(k)
  BY <1>1, <1>3, <1>4, <1>5 DEF RecordOps
<1> QED BY <1>6 DEF Good

\* While a record is being dropped no other call is about it.
LEMMA DroppedLast ==
  ASSUME NEW s \in Seq(Frame), Nested(s), Single(s), Len(s) > 0, s[1].op = "erase",
         NEW k \in 1..Len(s), k # 1, s[k].a = s[1].a
  PROVE  s[k].op \notin RecordOps \cup {"cleanup"}
<1> SUFFICES ASSUME s[k].op \in RecordOps \cup {"cleanup"} PROVE FALSE
  OBVIOUS
<1>0. 1 \in 1..Len(s) /\ k > 1
  OBVIOUS
<1>1. CASE \E j \in 1..Len(s) : j >= k /\ s[j].op = "erase" /\ s[j].a = s[k].a
  BY <1>0, <1>1 DEF Single, Alike, Unique
<1>2. CASE \E j \in 1..Len(s) : /\ j >= k /\ s[j].op = "deleted" /\ s[j].a = s[k].a
                                /\ j > 1 /\ Below(s, j, {"freeMemory"})
  <2>1. PICK j \in 1..Len(s) : /\ j >= k /\ s[j].op = "deleted" /\ s[j].a = s[k].a
                               /\ j > 1 /\ Below(s, j, {"freeMemory"})
    BY <1>2
  <2>2. j + 1 \in 1..Len(s) /\ s[j + 1].op = "freeMemory" /\ s[j + 1].a = s[1].a /\ j + 1 > 2
    BY <2>1 DEF Below
  <2>3. Below(s, 1, {"freeMemory"}) \/ BelowIs(s, 1, "purge")
    BY <1>0 DEF Nested, NestedAt
  <2>4. CASE Below(s, 1, {"freeMemory"})
    <3>1. 1 + 1 \in 1..Len(s) /\ s[1 + 1].op = "freeMemory" /\ s[1 + 1].a = s[1].a
      BY <2>4 DEF Below
    <3>2. 1 + 1 = j + 1
      BY <2>2, <3>1 DEF Single, Alike, Unique
    <3> QED BY <2>1, <3>2
  <2>5. CASE BelowIs(s, 1, "purge")
    <3>1. 1 + 1 \in 1..Len(s) /\ s[1 + 1].op = "purge"
      BY <2>5 DEF BelowIs
    <3>2. s[j + 1].op \in {"purged", "stop"}
      BY <2>2, <3>1, PurgeLow
    <3> QED BY <2>2, <3>2
  <2> QED BY <2>3, <2>4, <2>5
<1> QED BY <1>1, <1>2, Chain

-----------------------------------------------------------------------------
(***************************************************************************)
(* Steps that leave records, sidecars and entities alone.                  *)
(***************************************************************************)

\* The record keeps all but what plugins were told.
SameCore(a) ==
  /\ entities'[a] # NoRecord <=> entities[a] # NoRecord
  /\ entities'[a].handle = entities[a].handle /\ entities'[a].index = entities[a].index
  /\ entities'[a].token = entities[a].token /\ entities'[a].deleting = entities[a].deleting
  /\ entities'[a].runtime = entities[a].runtime /\ entities'[a].sidecar = entities[a].sidecar
  /\ entities'[a].slotted = entities[a].slotted
  /\ entities'[a].removeNotified = entities[a].removeNotified

\* The record keeps what the registry and the slots know of it.
SameEntry(a) ==
  /\ Tracked(a)' <=> Tracked(a)
  /\ entities'[a].handle = entities[a].handle /\ entities'[a].index = entities[a].index
  /\ entities'[a].token = entities[a].token
  /\ entities'[a].sidecar = entities[a].sidecar /\ entities'[a].slotted = entities[a].slotted

\* A record that keeps more keeps that.
LEMMA SameIsSame ==
  ASSUME NEW a, SameCore(a)
  PROVE  SameEntry(a)
BY DEF SameCore, SameEntry, Tracked

\* The registry and the sidecars agree as before.
LEMMA RegistryKept ==
  ASSUME TypeOK, Bounded, HandlesFit, SlotsFit, Listed, Pooled, \A a \in Addresses : SameEntry(a),
         UNCHANGED <<live, used, tokens, nextToken, order, sidecars>>
  PROVE  Bounded' /\ HandlesFit' /\ SlotsFit' /\ Listed' /\ Pooled'
<1>1. /\ live' = live /\ used' = used /\ tokens' = tokens /\ nextToken' = nextToken /\ order' = order
      /\ slots' = slots /\ blocks' = blocks /\ free' = free
  BY DEF sidecars
<1>2. \A a \in Addresses :
        /\ Tracked(a)' <=> Tracked(a)
        /\ entities'[a].handle = entities[a].handle /\ entities'[a].index = entities[a].index
        /\ entities'[a].token = entities[a].token
        /\ entities'[a].sidecar = entities[a].sidecar /\ entities'[a].slotted = entities[a].slotted
  BY DEF SameEntry
<1>3. Bounded'
  BY <1>1 DEF Bounded
<1>4. HandlesFit'
  BY <1>1, <1>2 DEF HandlesFit
<1>5. SlotsFit'
  <2> SUFFICES ASSUME NEW i \in Indexes PROVE SlotFit(i)'
    BY DEF SlotsFit
  <2>1. SlotFit(i) /\ slots[i].a \in Addresses \cup {None}
    BY DEF SlotsFit, TypeOK
  <2> QED BY <1>1, <1>2, <2>1 DEF SlotFit, IsCurrent
<1>6. Listed'
  <2>1. order \in Seq(Addresses) /\ tokens \in [Handles -> Addresses \cup {None}]
    BY DEF TypeOK
  <2>2. /\ \A t \in Handles : tokens[t] # None => Tracked(tokens[t]) /\ entities[tokens[t]].token = t
        /\ \A a \in Addresses : Tracked(a) =>
             /\ tokens[entities[a].token] = a
             /\ \E k \in 1..Len(order) : order[k] = a
        /\ \A k \in 1..Len(order) : Tracked(order[k])
        /\ \A j, k \in 1..Len(order) : order[j] = order[k] => j = k
    BY DEF Listed
  <2>3. \A t \in Handles : tokens'[t] # None => Tracked(tokens[t])' /\ entities'[tokens'[t]].token = t
    BY <1>1, <1>2, <2>1, <2>2
  <2>4. \A a \in Addresses : Tracked(a)' =>
             /\ tokens'[entities'[a].token] = a
             /\ \E k \in 1..Len(order') : order'[k] = a
    BY <1>1, <1>2, <2>2
  <2>5. \A k \in 1..Len(order') : Tracked(order[k])'
    <3>1. \A k \in 1..Len(order) : order[k] \in Addresses
      BY <2>1
    <3> QED BY <1>1, <1>2, <2>2, <3>1 DEF Tracked
  <2> QED BY <1>1, <2>2, <2>3, <2>4, <2>5 DEF Listed, Tracked
<1>7. Pooled'
  <2>1. Owned' = Owned
    BY <1>2 DEF Owned
  <2>2. \A a \in Owned : entities'[a].sidecar = entities[a].sidecar
    BY <1>2 DEF Owned
  <2> QED BY <1>1, <2>1, <2>2 DEF Pooled
<1> QED BY <1>3, <1>4, <1>5, <1>6, <1>7

\* What calls rely on is still so.
LEMMA FitKept ==
  ASSUME \A a \in Addresses : SameCore(a), nextToken' = nextToken, live' = live
  PROVE  \A fr \in Frame : FrameFit(fr) => FrameFit(fr)'
<1> SUFFICES ASSUME NEW fr \in Frame, FrameFit(fr) PROVE FrameFit(fr)'
  OBVIOUS
<1>1. fr.op \in RecordOps \cup {"return"} => fr.a \in Addresses
  BY DEF FrameFit, RecordOps, Telling, OfEntity, Ops, Callbacks
<1>2. fr.op \in RecordOps \cup {"return"} => SameCore(fr.a)
  BY <1>1
<1>3. "erase" \in RecordOps /\ "cleanedUp" \in RecordOps /\ "removed" \in RecordOps
  BY DEF RecordOps
<1> QED BY <1>2, <1>3 DEF FrameFit, IsCurrent, Tracked, SameCore

\* A step that leaves records, sidecars and entities alone keeps the invariant,
\* if the calls it ends and makes leave the stack in order.
LEMMA CoreKept ==
  ASSUME CoreInv, TypeOK', \A a \in Addresses : SameCore(a),
         UNCHANGED <<live, used, tokens, nextToken, order, sidecars, modes>>,
         NEW m \in Nat, NEW p \in {0, 1}, Rests(ctl, ctl', m, p), Nested(ctl'), Single(ctl'), Freed',
         p = 0 /\ Len(ctl) > 0 => ctl[1].op \in Callbacks,
         p = 1 => /\ ctl # <<>>
                  /\ Top.op \notin {"erase", "cleanedUp", "purged", "stop"}
                  /\ Top.op = "cleanup" /\ Tracked(Top.a) => entities[Top.a].removeNotified,
         \A k \in 1..m : ctl'[k].op \notin {"attach", "purged", "stop"} /\ FrameFit(ctl'[k]),
         \A a \in Addresses : Tracked(a) /\ ~entities[a].deleting /\ Waits(a) => Waits(a)'
  PROVE  CoreInv'
<1>1. /\ TypeOK /\ Bounded /\ Nested(ctl) /\ Single(ctl) /\ FramesFit /\ AttachFit /\ Freed /\ Purges
      /\ RecordsFit /\ HandlesFit /\ SlotsFit /\ Listed /\ Pooled
  BY DEF CoreInv, StackInv, RecordInv
<1>2. Bounded' /\ HandlesFit' /\ SlotsFit' /\ Listed' /\ Pooled'
  BY <1>1, SameIsSame, RegistryKept
<1>3. ctl \in Seq(Frame) /\ ctl' \in Seq(Frame) /\ Len(ctl) \in Nat /\ (p = 1 => Len(ctl) > 0 /\ Top = ctl[1])
  BY <1>1 DEF TypeOK, Top
<1>4. FramesFit'
  <2> SUFFICES ASSUME NEW k \in 1..Len(ctl') PROVE FrameFit(ctl[k])'
    BY DEF FramesFit, Place
  <2>1. ctl'[k] \in Frame
    BY <1>3
  <2>2. FrameFit(ctl'[k])
    <3>1. CASE k <= m
      BY <3>1
    <3>2. CASE k > m
      <4>1. PICK i \in 1..Len(ctl) : ctl'[k] = ctl[i]
        <5>1. \A j \in 1..Len(ctl') : j > m => \E i \in 1..Len(ctl) : Comes(ctl, ctl', j, i, m, p)
          BY Zenon DEF Rests
        <5>2. k > m
          BY <3>2
        <5>3. PICK i \in 1..Len(ctl) : Comes(ctl, ctl', k, i, m, p)
          BY ONLY <5>1, <5>2, k \in 1..Len(ctl'), Zenon
        <5> QED BY <5>3, Zenon DEF Comes
      <4> QED BY <1>1, <4>1 DEF FramesFit, Place
    <3> QED BY <3>1, <3>2
  <2>3. \A fr \in Frame : FrameFit(fr) => FrameFit(fr)'
    BY FitKept
  <2>4. PICK fr \in Frame : fr = ctl'[k]
    BY <2>1
  <2>5. FrameFit(fr)'
    BY <2>2, <2>3, <2>4
  <2> QED BY <2>4, <2>5 DEF FrameFit, IsCurrent, Tracked
<1>5. AttachFit'
  <2> SUFFICES ASSUME Running("attach")' PROVE FALSE
    BY DEF AttachFit
  <2>1. 1 \in 1..Len(ctl') /\ ctl'[1].op = "attach"
    BY <1>3 DEF Running, Top
  <2>2. m = 0
    BY <2>1
  <2>3. PICK i \in 1..Len(ctl) : i > p /\ ctl'[1] = ctl[i]
    BY <2>1, <2>2 DEF Rests, Comes
  <2>4. i = 1
    BY <1>1, <2>1, <2>3 DEF Nested, NestedAt
  <2>5. p = 0
    BY <2>3, <2>4
  <2> QED BY <2>1, <2>3, <2>4, <2>5 DEF Callbacks
<1>6. Purges'
  <2>1. ASSUME NEW op \in {"purged", "stop"}
        PROVE  (\E k \in 1..Len(ctl') : ctl'[k].op = op) <=> (\E k \in 1..Len(ctl) : ctl[k].op = op)
    <3>1. ASSUME NEW k \in 1..Len(ctl'), ctl'[k].op = op PROVE \E i \in 1..Len(ctl) : ctl[i].op = op
      <4>1. k > m
        BY <2>1, <3>1
      <4>2. PICK i \in 1..Len(ctl) : ctl'[k] = ctl[i]
        BY <4>1 DEF Rests, Comes
      <4> QED BY <3>1, <4>2
    <3>2. ASSUME NEW k \in 1..Len(ctl), ctl[k].op = op PROVE \E i \in 1..Len(ctl') : ctl'[i].op = op
      <4>1. k > p
        BY <1>3, <2>1, <3>2
      <4> QED BY <3>2, <4>1 DEF Rests, Comes
    <3> QED BY <3>1, <3>2
  <2>2. purging' = purging /\ available' = available /\ \A a \in Addresses : Tracked(a)' <=> Tracked(a)
    BY DEF SameCore, Tracked, modes
  <2> QED BY <1>1, <2>1, <2>2 DEF Purges, Place
<1>7. RecordsFit'
  <2> SUFFICES ASSUME NEW a \in Addresses, Tracked(a)' PROVE RecordFit(a)'
    BY DEF RecordsFit
  <2>1. /\ Tracked(a) /\ RecordFit(a)
        /\ live' = live /\ used' = used /\ nextToken' = nextToken /\ purging' = purging
    BY <1>1 DEF SameCore, Tracked, RecordsFit, modes
  <2>2. ~(entities[a].deleting /\ ~entities[a].removeNotified)
    <3> SUFFICES ASSUME entities[a].deleting /\ ~entities[a].removeNotified PROVE FALSE
      OBVIOUS
    <3>1. ctl # <<>> /\ Top.op = "cleanup" /\ Top.a = a
      BY <2>1 DEF RecordFit, Running
    <3>2. Len(ctl) > 0 /\ Top = ctl[1]
      BY <1>3, <3>1 DEF Top
    <3> QED BY <2>1, <3>1, <3>2 DEF Callbacks
  <2>3. On("erase", a) => On("erase", a)'
    <3>1. Has(ctl, "erase", a) => Has(ctl', "erase", a)
      BY <1>3, HasKept
    <3> QED BY <3>1 DEF On
  <2>4. On("cleanedUp", a) => On("cleanedUp", a)'
    <3>1. Has(ctl, "cleanedUp", a) => Has(ctl', "cleanedUp", a)
      BY <1>3, HasKept
    <3> QED BY <3>1 DEF On
  <2>5. SameCore(a)
    OBVIOUS
  <2>6. ~entities[a].deleting /\ Waits(a) => Waits(a)'
    BY <2>1
  <2> QED BY <2>1, <2>2, <2>3, <2>4, <2>5, <2>6 DEF RecordFit, SameCore
<1> QED BY <1>2, <1>4, <1>5, <1>6, <1>7 DEF CoreInv, StackInv, RecordInv

\* What is below the innermost frame is below its replacement.
LEMMA UnderTop ==
  ASSUME NEW s \in Seq(Frame), NEW t \in Seq(Frame), NEW m \in Nat, Rests(s, t, m, 1), Len(s) > 0
  PROVE  /\ 1 + 1 \in 1..Len(s) <=> m + 1 \in 1..Len(t)
         /\ 1 + 1 \in 1..Len(s) => t[m + 1] = s[1 + 1]
         /\ (1 + 1) + 1 \in 1..Len(s) <=> (m + 1) + 1 \in 1..Len(t)
         /\ (1 + 1) + 1 \in 1..Len(s) => t[(m + 1) + 1] = s[(1 + 1) + 1]
         /\ Len(s) = 1 <=> Len(t) = m
<1>1. Len(t) = Len(s) + m - 1 /\ Len(s) \in Nat /\ Len(t) \in Nat
  BY DEF Rests
<1>2. \A i \in 1..Len(s) : i > 1 => \E k \in 1..Len(t) : k = i + m - 1 /\ t[k] = s[i]
  BY DEF Rests, Comes
<1>3. 1 + 1 \in 1..Len(s) => t[m + 1] = s[1 + 1]
  <2>1. 1 + 1 > 1 /\ (1 + 1) + m - 1 = m + 1
    OBVIOUS
  <2> QED BY <1>2, <2>1
<1>4. (1 + 1) + 1 \in 1..Len(s) => t[(m + 1) + 1] = s[(1 + 1) + 1]
  <2>1. (1 + 1) + 1 > 1 /\ ((1 + 1) + 1) + m - 1 = (m + 1) + 1
    OBVIOUS
  <2> QED BY <1>2, <2>1
<1>5. 1 + 1 \in 1..Len(s) <=> m + 1 \in 1..Len(t)
  BY <1>1
<1>6. (1 + 1) + 1 \in 1..Len(s) <=> (m + 1) + 1 \in 1..Len(t)
  BY <1>1
<1>7. Len(s) = 1 <=> Len(t) = m
  <2>1. \A i, k \in Nat : k = i + m - 1 => (i = 1 <=> k = m)
    OBVIOUS
  <2> QED BY <1>1, <2>1
<1> QED BY <1>3, <1>4, <1>5, <1>6, <1>7

\* Memory is freed as before.
LEMMA FreedStays ==
  ASSUME TypeOK, FramesFit, Freed, TypeOK', purging' = purging,
         \A a \in Addresses : Tracked(a)' /\ On("freeMemory", a) =>
           Tracked(a) /\ (entities[a].deleting => entities'[a].deleting),
         NEW m \in Nat, NEW p \in {0, 1}, Rests(ctl, ctl', m, p),
         p = 1 => ctl # <<>> /\ Top.op \notin {"deleted", "erase"},
         \A k \in 1..m : ctl'[k].op = "freeMemory" =>
           k > 1 /\ ctl'[k - 1].op = "deleted" /\ ctl'[k - 1].a = ctl'[k].a
  PROVE  Freed'
<1> SUFFICES ASSUME NEW k \in 1..Len(ctl'), ctl'[k].op = "freeMemory", Tracked(ctl[k].a)' PROVE FreedAt(k)'
  BY DEF Freed, FreedAt, Place
<1>1. CASE k <= m
  BY <1>1 DEF FreedAt
<1>2. CASE k > m
  <2>1. PICK i \in 1..Len(ctl) : Comes(ctl, ctl', k, i, m, p)
    BY <1>2 DEF Rests
  <2>2. ctl'[k] = ctl[i] /\ i > p
    BY <2>1 DEF Comes
  <2>3. ctl[i].a \in Addresses
    BY <2>2 DEF FramesFit, FrameFit, Place, OfEntity, Ops
  <2>4. Tracked(ctl[i].a) /\ (entities[ctl[i].a].deleting => entities'[ctl[i].a].deleting)
    BY <2>2, <2>3 DEF Tracked, On, Has
  <2>5. \/ i > 1 /\ ctl[i - 1].op \in {"deleted", "erase"} /\ ctl[i - 1].a = ctl[i].a
        \/ purging /\ entities[ctl[i].a].deleting
    BY <2>2, <2>4 DEF Freed, FreedAt, Place
  <2>6. CASE i > 1 /\ ctl[i - 1].op \in {"deleted", "erase"} /\ ctl[i - 1].a = ctl[i].a
    <3>1. i > p + 1
      <4>1. p = 1 => i - 1 # 1
        BY <2>6, TopFrame
      <4> QED BY <2>2, <2>6, <4>1
    <3>2. k > 1 /\ ctl'[k - 1] = ctl[i - 1]
      BY <2>1, <3>1 DEF Comes
    <3> QED BY <2>2, <2>6, <3>2 DEF FreedAt
  <2>7. CASE purging /\ entities[ctl[i].a].deleting
    BY <2>2, <2>4, <2>7 DEF FreedAt
  <2> QED BY <2>5, <2>6, <2>7
<1> QED BY <1>1, <1>2

\* Memory is freed as before when records keep all but what plugins were told.
LEMMA FreedKept ==
  ASSUME TypeOK, FramesFit, Freed, TypeOK', \A a \in Addresses : SameCore(a), purging' = purging,
         NEW m \in Nat, NEW p \in {0, 1}, Rests(ctl, ctl', m, p),
         p = 1 => ctl # <<>> /\ Top.op \notin {"deleted", "erase"},
         \A k \in 1..m : ctl'[k].op = "freeMemory" =>
           k > 1 /\ ctl'[k - 1].op = "deleted" /\ ctl'[k - 1].a = ctl'[k].a
  PROVE  Freed'
<1>1. \A a \in Addresses : Tracked(a)' => Tracked(a) /\ (entities[a].deleting => entities'[a].deleting)
  BY DEF SameCore, Tracked
<1> QED BY <1>1, FreedStays

\* Entities go on waiting for the purge.
LEMMA WaitsKept ==
  ASSUME TypeOK, NEW m \in Nat, NEW p \in {0, 1}, Rests(ctl, ctl', m, p),
         p = 1 => ctl # <<>> /\ Top.op \notin {"deleted", "purge"}
  PROVE  \A a : Waits(a) => Waits(a)'
<1> SUFFICES ASSUME NEW a, Waits(a) PROVE Waits(a)'
  OBVIOUS
<1>1. ASSUME NEW i \in 1..Len(ctl), ctl[i].op \in {"deleted", "purge"}
      PROVE  \E k \in 1..Len(ctl') : ctl'[k] = ctl[i]
  <2>1. i > p
    BY <1>1, TopFrame
  <2> QED BY <2>1 DEF Rests, Comes
<1>2. CASE Queued(a)
  <2>1. PICK i \in 1..Len(ctl) : ctl[i].op = "purge" /\ \E n \in 1..Len(ctl[i].q) : ctl[i].q[n][1] = a
    BY <1>2 DEF Queued, Place
  <2>2. PICK k \in 1..Len(ctl') : ctl'[k] = ctl[i]
    BY <1>1, <2>1
  <2>3. ctl'[k].op = "purge" /\ \E n \in 1..Len(ctl'[k].q) : ctl'[k].q[n][1] = a
    BY <2>1, <2>2
  <2> QED BY <2>3 DEF Waits, Queued, Place
<1>3. CASE On("deleted", a)
  <2>1. PICK i \in 1..Len(ctl) : ctl[i].op = "deleted" /\ ctl[i].a = a
    BY <1>3 DEF On, Has
  <2>2. PICK k \in 1..Len(ctl') : ctl'[k] = ctl[i]
    BY <1>1, <2>1
  <2> QED BY <2>1, <2>2 DEF Waits, On, Has
<1> QED BY <1>2, <1>3 DEF Waits

\* Calls that neither delete nor purge.
Plain == Ops \ (Unique \cup {"deleted", "purge", "cleanup", "purged", "stop", "attach"})

\* The usual step: such calls end or are made.
LEMMA PlainStep ==
  ASSUME CoreInv, TypeOK', \A a \in Addresses : SameCore(a),
         UNCHANGED <<live, used, tokens, nextToken, order, sidecars, modes>>,
         NEW m \in Nat, NEW p \in {0, 1}, Rests(ctl, ctl', m, p),
         p = 0 /\ Len(ctl) > 0 => ctl[1].op \in Callbacks,
         p = 1 => ctl # <<>> /\ Top.op \in Plain \cup {"attach"},
         \A k \in 1..m : NestedAt(ctl', k) /\ ctl'[k].op \in Plain /\ FrameFit(ctl'[k])
  PROVE  CoreInv'
<1>1. TypeOK /\ Nested(ctl) /\ Single(ctl) /\ FramesFit /\ Freed
  BY DEF CoreInv, StackInv
<1>2. ctl \in Seq(Frame) /\ ctl' \in Seq(Frame) /\ (p = 1 => Len(ctl) > 0 /\ Top = ctl[1])
  BY <1>1 DEF TypeOK, Top
<1>3. \A k \in 1..m : ctl'[k].op \notin Unique \cup {"deleted", "purge", "purged", "stop", "attach"}
  BY DEF Plain
<1>4. Nested(ctl')
  <2>1. p = 0 /\ Len(ctl) > 0 => ctl[1].op # "attach"
    BY DEF Callbacks
  <2> QED BY <1>1, <1>2, <2>1, NestedKept
<1>5. Single(ctl')
  BY <1>1, <1>2, <1>3, SingleKept
<1>6. Freed'
  <2>1. purging' = purging
    BY DEF modes
  <2>2. p = 1 => ctl # <<>> /\ Top.op \notin {"deleted", "erase"}
    BY DEF Plain, Unique
  <2>3. \A k \in 1..m : ctl'[k].op # "freeMemory"
    BY <1>3 DEF Unique
  <2> QED BY <1>1, <2>1, <2>2, <2>3, FreedKept
<1>7. \A a : Waits(a) => Waits(a)'
  <2>1. p = 1 => ctl # <<>> /\ Top.op \notin {"deleted", "purge"}
    BY DEF Plain
  <2> QED BY <1>1, <2>1, WaitsKept
<1>8. p = 1 => /\ ctl # <<>>
               /\ Top.op \notin {"erase", "cleanedUp", "purged", "stop"}
               /\ Top.op = "cleanup" /\ Tracked(Top.a) => entities[Top.a].removeNotified
  BY DEF Plain, Unique
<1>9. \A k \in 1..m : ctl'[k].op \notin {"attach", "purged", "stop"} /\ FrameFit(ctl'[k])
  BY <1>3
<1> QED BY <1>4, <1>5, <1>6, <1>7, <1>8, <1>9, CoreKept

-----------------------------------------------------------------------------
(*****************************************************************************)
(* Steps that leave the records alone, deletions, and the marks on a         *)
(* record.                                                                   *)
(*****************************************************************************)

\* What the invariant says of the innermost frame.
LEMMA TopIs ==
  ASSUME CoreInv, ctl # <<>>
  PROVE  /\ ctl \in Seq(Frame) /\ Len(ctl) \in Nat /\ Len(ctl) > 0 /\ 1 \in 1..Len(ctl) /\ Top = ctl[1]
         /\ Top \in Frame /\ Tail(ctl) \in Seq(Frame)
         /\ FrameFit(Top) /\ NestedAt(ctl, 1) /\ TopFit /\ nextToken \in Nat /\ nextToken > 0
<1>1. TypeOK /\ FramesFit /\ Nested(ctl)
  BY DEF CoreInv, StackInv
<1>2. /\ ctl \in Seq(Frame) /\ Len(ctl) \in Nat /\ 1 \in 1..Len(ctl) /\ Top = ctl[1]
      /\ Top \in Frame /\ Tail(ctl) \in Seq(Frame)
  BY <1>1, TopFrame
<1>3. FrameFit(Top) /\ NestedAt(ctl, 1)
  BY <1>1, <1>2 DEF FramesFit, Place, Nested
<1>4. TopFit
  BY <1>3 DEF TopFit, FrameFit
<1>5. nextToken \in Nat /\ nextToken > 0
  BY <1>1, ConstantsOK DEF TypeOK
<1> QED BY <1>2, <1>3, <1>4, <1>5

\* Plain calls that need no particular caller.
Loose == Plain \ ({"removed", "forwardDestroyed", "listenerDestroyed"} \cup Telling)

\* The new frames fs, the last of which takes the place of fr, are in order at k.
InOrder(fs, k, fr) ==
  \/ fs[k].op \in Loose
  \/ /\ k < Len(fs) /\ fs[k + 1].a = fs[k].a /\ fs[k + 1].h = fs[k].h
     /\ \/ fs[k].op = "forwardDestroyed" /\ fs[k + 1].op = "destroyedAll"
        \/ fs[k].op = "listenerDestroyed" /\ fs[k + 1].op = "destroyedEach"
  \/ /\ k = Len(fs) /\ fs[k].op \in Telling /\ fr.op \in Telling
     /\ fs[k].a = fr.a /\ fs[k].h = fr.h

\* Plain calls in the place of a plain call.
LEMMA PlainBecomes ==
  ASSUME CoreInv, TypeOK', \A a \in Addresses : SameCore(a),
         UNCHANGED <<live, used, tokens, nextToken, order, sidecars, modes>>,
         ctl # <<>>, Top.op \in Plain \cup {"attach"},
         NEW fs \in Seq(Frame), ctl' = fs \o Tail(ctl),
         \A k \in 1..Len(fs) : fs[k].op \in Plain /\ FrameFit(fs[k]) /\ InOrder(fs, k, Top)
  PROVE  CoreInv'
<1> DEFINE m == Len(fs)
<1>1. /\ ctl \in Seq(Frame) /\ Len(ctl) \in Nat /\ Len(ctl) > 0 /\ 1 \in 1..Len(ctl) /\ Top = ctl[1]
      /\ NestedAt(ctl, 1)
  BY TopIs
<1>2. PICK t \in Seq(Frame) : t = ctl'
  BY DEF TypeOK
<1>3. m \in Nat /\ Rests(ctl, t, m, 1) /\ \A k \in 1..m : t[k] = fs[k]
  BY <1>1, <1>2, BecomesRests
<1> HIDE DEF m
<1>4. /\ 1 + 1 \in 1..Len(ctl) <=> m + 1 \in 1..Len(t)
      /\ 1 + 1 \in 1..Len(ctl) => t[m + 1] = ctl[1 + 1]
      /\ Len(t) \in Nat /\ m <= Len(t)
  <2>1. /\ 1 + 1 \in 1..Len(ctl) <=> m + 1 \in 1..Len(t)
        /\ 1 + 1 \in 1..Len(ctl) => t[m + 1] = ctl[1 + 1]
    BY <1>1, <1>3, UnderTop
  <2> QED BY <1>3, <2>1 DEF Rests
<1>5. ~BelowIs(ctl, 1, "stop")
  BY <1>1 DEF NestedAt, Plain
<1>6. ASSUME NEW k \in 1..m PROVE NestedAt(t, k)
  <2>1. t[k] = fs[k] /\ fs[k].op \in Plain /\ InOrder(fs, k, Top)
    BY <1>3 DEF m
  <2>2. ~BelowIs(t, k, "stop")
    <3>1. CASE k = m
      BY <1>4, <1>5, <3>1 DEF BelowIs
    <3>2. CASE k # m
      <4>1. k + 1 \in 1..m /\ t[k + 1] = fs[k + 1] /\ fs[k + 1].op \in Plain
        BY <1>3, <3>2 DEF m
      <4> QED BY <4>1 DEF BelowIs, Plain
    <3> QED BY <3>1, <3>2
  <2>3. CASE fs[k].op \in Loose
    BY <2>1, <2>2, <2>3 DEF Loose, Plain, NestedAt, Unique
  <2>4. CASE /\ k < Len(fs) /\ fs[k + 1].a = fs[k].a /\ fs[k + 1].h = fs[k].h
             /\ \/ fs[k].op = "forwardDestroyed" /\ fs[k + 1].op = "destroyedAll"
                \/ fs[k].op = "listenerDestroyed" /\ fs[k + 1].op = "destroyedEach"
    <3>1. k + 1 \in 1..m /\ t[k + 1] = fs[k + 1] /\ k + 1 \in 1..Len(t)
      BY <1>3, <1>4, <2>4, SMTT(30) DEF m
    <3> QED BY <2>1, <2>2, <2>4, <3>1 DEF NestedAt, BelowSame, Below, Telling
  <2>5. CASE /\ k = Len(fs) /\ fs[k].op \in Telling /\ Top.op \in Telling
             /\ fs[k].a = Top.a /\ fs[k].h = Top.h
    <3>1. BelowSame(ctl, 1, {"erase"})
      BY <1>1, <2>5 DEF NestedAt
    <3>2. BelowSame(t, k, {"erase"})
      BY <1>1, <1>4, <2>1, <2>5, <3>1 DEF BelowSame, Below, m
    <3> QED BY <2>1, <2>2, <2>5, <3>2 DEF NestedAt, Telling
  <2> QED BY <2>1, <2>3, <2>4, <2>5 DEF InOrder
<1>7. \A k \in 1..m : NestedAt(ctl', k) /\ ctl'[k].op \in Plain /\ FrameFit(ctl'[k])
  BY <1>2, <1>3, <1>6 DEF m
<1>8. Rests(ctl, ctl', m, 1)
  BY <1>2, <1>3
<1>9. PICK p \in {0, 1} : p = 1
  OBVIOUS
<1>10. Rests(ctl, ctl', m, p) /\ (p = 0 /\ Len(ctl) > 0 => ctl[1].op \in Callbacks) /\ m \in Nat
  BY <1>3, <1>8, <1>9
<1>11. p = 1 => ctl # <<>> /\ Top.op \in Plain \cup {"attach"}
  OBVIOUS
<1> QED BY <1>7, <1>10, <1>11, PlainStep

\* Steps that change no entity keep all records.
LEMMA SameAll ==
  ASSUME entities' = entities
  PROVE  \A a \in Addresses : SameCore(a)
BY DEF SameCore

\* A loose call relies on nothing but its entity.
LEMMA LooseFit ==
  ASSUME CoreInv, ctl # <<>>, NEW fr \in Frame, fr.op \in Loose, fr.op # "return",
         fr.op \in OfEntity => fr.a \in Addresses, fr.t = 0
  PROVE  FrameFit(fr)
<1>1. fr.t < nextToken
  BY TopIs
<1> QED BY <1>1 DEF FrameFit, Loose, Plain, RecordOps, Unique

\* A plain call returns.
LEMMA PlainReturns ==
  ASSUME CoreInv, TypeOK', \A a \in Addresses : SameCore(a),
         UNCHANGED <<live, used, tokens, nextToken, order, sidecars, modes>>,
         ctl # <<>>, Top.op \in Plain \cup {"attach"}, ctl' = <<>> \o Tail(ctl)
  PROVE  CoreInv'
<1>1. PICK fs \in Seq(Frame) : fs = <<>> /\ Len(fs) = 0
  <2>1. <<>> \in Seq(Frame) /\ Len(<<>>) = 0
    OBVIOUS
  <2> QED BY <2>1
<1>2. \A k \in 1..Len(fs) : fs[k].op \in Plain /\ FrameFit(fs[k]) /\ InOrder(fs, k, Top)
  BY <1>1
<1>3. ctl' = fs \o Tail(ctl)
  BY <1>1
<1> QED BY <1>2, <1>3, PlainBecomes

\* Calls that return, tell the next listener or announce the next creation.
LEMMA QuietStepsKeep ==
  ASSUME CoreInv,
         \/ CreateReturns \/ CallbackReturns \/ CreatedListeners \/ TellCreated \/ Flush
         \/ DestroyedListeners \/ TellDestroyed
  PROVE  CoreInv'
<1>1. ctl # <<>> /\ Top.op \in Plain
  BY DEF CreateReturns, CallbackReturns, CreatedListeners, TellCreated, Flush,
         DestroyedListeners, TellDestroyed, Running, Plain, Ops, Callbacks, Unique
<1>2. TypeOK'
  BY <1>1, TopIs, QuietStepsTyped DEF CoreInv
<1>3. UNCHANGED <<entities, live, used, tokens, nextToken, order, sidecars, modes>>
  BY DEF CreateReturns, CallbackReturns, CreatedListeners, TellCreated, Flush,
         DestroyedListeners, TellDestroyed, engine, registry
<1>4. \A a \in Addresses : SameCore(a)
  BY <1>3, SameAll
<1>5. /\ Top \in Frame /\ FrameFit(Top) /\ NestedAt(ctl, 1) /\ Top = ctl[1]
      /\ Top.op \in Ops /\ Top.h \in 0..MaxHandles /\ Top.ls \in Seq(Listeners)
      /\ Top.q \in Seq(Addresses \X (0..MaxHandles)) /\ listeners \in Seq(Listeners)
  BY <1>1, TopIs, TopFrame DEF CoreInv, TypeOK
<1>6. CASE ctl' = <<>> \o Tail(ctl)
  BY <1>1, <1>2, <1>3, <1>4, <1>6, PlainReturns
<1>7. CASE CreatedListeners \/ DestroyedListeners
  <2>1. PICK op \in {"createdEach", "destroyedEach"} :
          /\ ctl' = <<Each(op, Top.a, Top.h, listeners)>> \o Tail(ctl)
          /\ op = "createdEach" => Top.op = "createdAll"
          /\ op = "destroyedEach" => Top.op = "destroyedAll"
    BY <1>7 DEF CreatedListeners, DestroyedListeners, Becomes, Running
  <2>2. Top.a \in Addresses
    BY <1>5, <2>1 DEF FrameFit, OfEntity, Ops
  <2>3. op \in Ops
    BY <2>1 DEF Ops
  <2>4. PICK fr \in Frame : /\ fr = Each(op, Top.a, Top.h, listeners) /\ fr.op = op /\ fr.a = Top.a
                            /\ fr.h = Top.h /\ fr.t = 0
    BY <1>5, <2>2, <2>3, OtherFrames
  <2>5. <<fr>> \in Seq(Frame) /\ Len(<<fr>>) = 1 /\ <<fr>>[1] = fr
    BY <2>4
  <2>6. FrameFit(fr)
    <3>1. CASE op = "createdEach"
      <4>1. fr.op \in Loose
        BY <2>4, <3>1 DEF Loose, Plain, Ops, Unique, Telling
      <4> QED BY <1>1, <2>2, <2>4, <3>1, <4>1, LooseFit
    <3>2. CASE op = "destroyedEach"
      BY <1>1, <1>5, <2>1, <2>2, <2>4, <3>2, TopIs DEF FrameFit, RecordOps, Telling
    <3> QED BY <3>1, <3>2
  <2>7. fr.op \in Plain /\ InOrder(<<fr>>, 1, Top)
    BY <2>1, <2>4, <2>5 DEF InOrder, Loose, Plain, Telling, Ops, Unique
  <2>8. \A k \in 1..Len(<<fr>>) : <<fr>>[k].op \in Plain /\ FrameFit(<<fr>>[k]) /\ InOrder(<<fr>>, k, Top)
    BY <2>5, <2>6, <2>7
  <2>9. ctl' = <<fr>> \o Tail(ctl)
    BY <2>1, <2>4
  <2> QED BY <1>1, <1>2, <1>3, <1>4, <2>5, <2>8, <2>9, PlainBecomes
<1>8. CASE (TellCreated \/ TellDestroyed) /\ ctl' # <<>> \o Tail(ctl)
  <2>1. PICK op \in {"listenerCreated", "listenerDestroyed"} :
          /\ op = "listenerCreated" => Top.op = "createdEach"
          /\ op = "listenerDestroyed" => Top.op = "destroyedEach"
          /\ Top.ls # <<>>
          /\ ctl' = ((IF Registered(Head(Top.ls)) THEN <<Do(op, Top.a, Top.h)>> ELSE <<>>)
                  \o <<[Top EXCEPT !.ls = Tail(@)]>>) \o Tail(ctl)
    BY <1>8 DEF TellCreated, TellDestroyed, Becomes, Running
  <2>2. Top.a \in Addresses
    BY <1>5, <2>1 DEF FrameFit, OfEntity, Ops, Callbacks
  <2>3. op \in Ops
    BY <2>1 DEF Ops, Callbacks
  <2>4. PICK fr \in Frame : /\ fr = Do(op, Top.a, Top.h) /\ fr.op = op /\ fr.a = Top.a
                            /\ fr.h = Top.h /\ fr.t = 0
    BY <1>5, <2>2, <2>3, DoFrame
  <2>5. PICK gr \in Frame : /\ gr = [Top EXCEPT !.ls = Tail(@)] /\ gr.op = Top.op /\ gr.a = Top.a
                            /\ gr.h = Top.h /\ gr.t = Top.t
    <3>1. PICK ls \in Seq(Listeners) : ls = Tail(Top.ls)
      <4>1. Tail(Top.ls) \in Seq(Listeners)
        BY <1>5, <2>1
      <4> QED BY <4>1
    <3>2. [Top EXCEPT !.ls = ls] \in Frame
      BY <1>5 DEF Frame
    <3>3. PICK gr \in Frame : gr = [Top EXCEPT !.ls = ls]
      BY <3>2
    <3>4. gr.op = Top.op /\ gr.a = Top.a /\ gr.h = Top.h /\ gr.t = Top.t
      BY <1>5, <3>3 DEF Frame
    <3> QED BY <3>1, <3>3, <3>4
  <2>6. FrameFit(gr)
    BY <1>5, <2>5, <2>1 DEF FrameFit
  <2>7. FrameFit(fr)
    <3>1. CASE op = "listenerCreated"
      <4>1. fr.op \in Loose
        BY <2>4, <3>1 DEF Loose, Plain, Ops, Callbacks, Unique, Telling
      <4> QED BY <1>1, <2>2, <2>4, <3>1, <4>1, LooseFit
    <3>2. CASE op = "listenerDestroyed"
      BY <1>1, <1>5, <2>1, <2>2, <2>4, <3>2, TopIs DEF FrameFit, RecordOps, Telling
    <3> QED BY <3>1, <3>2
  <2>8. gr.op \in Plain /\ fr.op \in Plain
    BY <2>1, <2>4, <2>5 DEF Plain, Ops, Callbacks, Unique
  <2>9. CASE Registered(Head(Top.ls))
    <3>1. PICK fs \in Seq(Frame) : /\ fs = <<fr>> \o <<gr>> /\ Len(fs) = 2
                                   /\ fs[1] = fr /\ fs[2] = gr
      <4>1. /\ <<fr>> \in Seq(Frame) /\ <<gr>> \in Seq(Frame) /\ Len(<<fr>>) = 1 /\ Len(<<gr>>) = 1
            /\ <<fr>>[1] = fr /\ <<gr>>[1] = gr
        BY FewFrames
      <4>2. PICK x \in Seq(Frame), y \in Seq(Frame) :
              x = <<fr>> /\ y = <<gr>> /\ Len(x) = 1 /\ Len(y) = 1 /\ x[1] = fr /\ y[1] = gr
        BY <4>1
      <4>3. x \o y \in Seq(Frame) /\ Len(x \o y) = 2 /\ (x \o y)[1] = fr /\ (x \o y)[2] = gr
        BY <4>2
      <4> QED BY <4>2, <4>3
    <3>2. ctl' = fs \o Tail(ctl)
      BY <2>1, <2>4, <2>5, <2>9, <3>1
    <3>3. InOrder(fs, 1, Top)
      <4>1. op = "listenerCreated" => fr.op \in Loose
        BY <2>4 DEF Loose, Plain, Telling, Ops, Callbacks, Unique
      <4>2. 1 < Len(fs) /\ 1 + 1 = 2
        BY <3>1
      <4>3. fs[1 + 1] = gr
        BY <3>1, <4>2
      <4>4. fr.a = gr.a /\ fr.h = gr.h
        BY <2>4, <2>5
      <4>5. CASE op = "listenerCreated"
        BY <3>1, <4>1, <4>5 DEF InOrder
      <4>6. CASE op = "listenerDestroyed"
        <5>1. fs[1].op = "listenerDestroyed" /\ fs[1 + 1].op = "destroyedEach"
          BY <2>1, <2>4, <2>5, <3>1, <4>3, <4>6
        <5> QED BY <3>1, <4>2, <4>3, <4>4, <5>1 DEF InOrder
      <4> QED BY <2>1, <4>5, <4>6
    <3>4. InOrder(fs, 2, Top)
      <4>1. op = "listenerCreated" => gr.op \in Loose
        BY <2>1, <2>5 DEF Loose, Plain, Telling, Ops, Callbacks, Unique
      <4> QED BY <2>1, <2>5, <3>1, <4>1 DEF InOrder, Telling
    <3>5. \A k \in 1..Len(fs) : fs[k].op \in Plain /\ FrameFit(fs[k]) /\ InOrder(fs, k, Top)
      <4>1. \A k \in 1..Len(fs) : k = 1 \/ k = 2
        BY <3>1
      <4> QED BY <2>6, <2>7, <2>8, <3>1, <3>3, <3>4, <4>1
    <3> QED BY <1>1, <1>2, <1>3, <1>4, <3>1, <3>2, <3>5, PlainBecomes
  <2>10. CASE ~Registered(Head(Top.ls))
    <3>1. <<gr>> \in Seq(Frame) /\ Len(<<gr>>) = 1 /\ <<gr>>[1] = gr /\ <<>> \o <<gr>> = <<gr>>
      BY <2>5, FewFrames
    <3>2. ctl' = <<gr>> \o Tail(ctl)
      BY <2>1, <2>5, <2>10, <3>1
    <3>3. InOrder(<<gr>>, 1, Top)
      <4>1. op = "listenerCreated" => gr.op \in Loose
        BY <2>1, <2>5 DEF Loose, Plain, Telling, Ops, Callbacks, Unique
      <4> QED BY <2>1, <2>5, <3>1, <4>1 DEF InOrder, Telling
    <3>4. \A k \in 1..Len(<<gr>>) : <<gr>>[k].op \in Plain /\ FrameFit(<<gr>>[k]) /\ InOrder(<<gr>>, k, Top)
      BY <2>6, <2>8, <3>1, <3>3
    <3> QED BY <1>1, <1>2, <1>3, <1>4, <3>1, <3>2, <3>4, PlainBecomes
  <2> QED BY <2>9, <2>10
<1>9. CASE Flush /\ ctl' # <<>> \o Tail(ctl)
  <2>1. Top.op = "flush" /\ Top.q # <<>>
        /\ ctl' = <<Do("notify", Head(Top.q)[1], Head(Top.q)[2]), Queue("flush", Tail(Top.q))>> \o Tail(ctl)
    BY <1>9 DEF Flush, Becomes, Running
  <2>2. Head(Top.q)[1] \in Addresses /\ Head(Top.q)[2] \in 0..MaxHandles
        /\ Tail(Top.q) \in Seq(Addresses \X (0..MaxHandles))
    BY <1>5, <2>1
  <2>3. "notify" \in Ops /\ "flush" \in Ops
    BY DEF Ops
  <2>4. PICK fr \in Frame : /\ fr = Do("notify", Head(Top.q)[1], Head(Top.q)[2]) /\ fr.op = "notify"
                            /\ fr.a \in Addresses /\ fr.t = 0
    BY <2>2, <2>3, DoFrame
  <2>5. PICK gr \in Frame : gr = Queue("flush", Tail(Top.q)) /\ gr.op = "flush" /\ gr.t = 0
    <3>1. PICK q \in Seq(Addresses \X (0..MaxHandles)) : q = Tail(Top.q)
      BY <2>2
    <3>2. Queue("flush", q) \in Frame /\ Queue("flush", q).op = "flush" /\ Queue("flush", q).t = 0
      BY <2>3, QueueFrame
    <3> QED BY <3>1, <3>2
  <2>6. fr.op \in Loose /\ gr.op \in Loose /\ fr.op \in Plain /\ gr.op \in Plain
    BY <2>4, <2>5 DEF Loose, Plain, Telling, Ops, Unique
  <2>7. FrameFit(fr) /\ FrameFit(gr)
    BY <1>1, <2>4, <2>5, <2>6, LooseFit DEF OfEntity
  <2>8. /\ <<fr, gr>> \in Seq(Frame) /\ Len(<<fr, gr>>) = 2 /\ <<fr, gr>>[1] = fr /\ <<fr, gr>>[2] = gr
    BY <2>4, <2>5
  <2>9. \A k \in 1..Len(<<fr, gr>>) : <<fr, gr>>[k].op \in Plain /\ FrameFit(<<fr, gr>>[k]) /\ InOrder(<<fr, gr>>, k, Top)
    <3>1. \A k \in 1..Len(<<fr, gr>>) : k = 1 \/ k = 2
      BY <2>8
    <3> QED BY <2>6, <2>7, <2>8, <3>1 DEF InOrder
  <2>10. ctl' = <<fr, gr>> \o Tail(ctl)
    BY <2>1, <2>4, <2>5
  <2> QED BY <1>1, <1>2, <1>3, <1>4, <2>8, <2>9, <2>10, PlainBecomes
<1> QED BY <1>6, <1>7, <1>8, <1>9 DEF CreateReturns, CallbackReturns, CreatedListeners,
           DestroyedListeners, TellCreated, TellDestroyed, Flush, Becomes

\* Two plain calls in the place of a plain call.
LEMMA PairBecomes ==
  ASSUME CoreInv, TypeOK', \A a \in Addresses : SameCore(a),
         UNCHANGED <<live, used, tokens, nextToken, order, sidecars, modes>>,
         ctl # <<>>, Top.op \in Plain \cup {"attach"},
         NEW fr \in Frame, NEW gr \in Frame, ctl' = <<fr, gr>> \o Tail(ctl),
         fr.op \in Plain, gr.op \in Plain, FrameFit(fr), FrameFit(gr),
         \/ fr.op \in Loose /\ gr.op \in Loose
         \/ /\ fr.op = "forwardDestroyed" /\ gr.op = "destroyedAll" /\ Top.op \in Telling
            /\ fr.a = Top.a /\ gr.a = Top.a /\ fr.h = Top.h /\ gr.h = Top.h
  PROVE  CoreInv'
<1>1. PICK fs \in Seq(Frame) : fs = <<fr, gr>> /\ Len(fs) = 2 /\ fs[1] = fr /\ fs[2] = gr
  <2>1. <<fr, gr>> \in Seq(Frame) /\ Len(<<fr, gr>>) = 2 /\ <<fr, gr>>[1] = fr /\ <<fr, gr>>[2] = gr
    BY FewFrames
  <2> QED BY <2>1
<1>2. InOrder(fs, 1, Top) /\ InOrder(fs, 2, Top)
  <2>1. CASE fr.op \in Loose /\ gr.op \in Loose
    BY <1>1, <2>1 DEF InOrder
  <2>2. CASE /\ fr.op = "forwardDestroyed" /\ gr.op = "destroyedAll" /\ Top.op \in Telling
             /\ fr.a = Top.a /\ gr.a = Top.a /\ fr.h = Top.h /\ gr.h = Top.h
    <3>1. 1 < Len(fs) /\ fs[1 + 1] = gr
      BY <1>1
    <3>2. InOrder(fs, 1, Top)
      BY <1>1, <2>2, <3>1 DEF InOrder
    <3>3. InOrder(fs, 2, Top)
      BY <1>1, <2>2 DEF InOrder, Telling
    <3> QED BY <3>2, <3>3
  <2> QED BY <2>1, <2>2
<1>3. \A k \in 1..Len(fs) : fs[k].op \in Plain /\ FrameFit(fs[k]) /\ InOrder(fs, k, Top)
  <2>1. \A k \in 1..Len(fs) : k = 1 \/ k = 2
    BY <1>1
  <2> QED BY <1>1, <1>2, <2>1
<1>4. ctl' = fs \o Tail(ctl)
  BY <1>1
<1> QED BY <1>3, <1>4, PlainBecomes

\* Marking a record as told of keeps all that the core invariant is about.
LEMMA SameMarked ==
  ASSUME TypeOK, NEW a \in Addresses, Tracked(a),
         \/ entities' = [entities EXCEPT ![a].postConstructed = TRUE]
         \/ entities' = [entities EXCEPT ![a].createdNotified = TRUE]
  PROVE  \A b \in Addresses : SameCore(b)
<1> SUFFICES ASSUME NEW b \in Addresses PROVE SameCore(b)
  OBVIOUS
<1>1. entities \in [Addresses -> Record \cup {NoRecord}]
  BY DEF TypeOK
<1>2. CASE b # a
  <2>1. entities'[b] = entities[b]
    BY <1>1, <1>2
  <2> QED BY <2>1 DEF SameCore
<1>3. CASE b = a
  <2>1. entities[a] \in Record /\ entities[a].handle \in Handles
    BY RecordTyped
  <2>2. PICK r : r = entities'[a]
    OBVIOUS
  <2>3. \/ r = [entities[a] EXCEPT !.postConstructed = TRUE]
        \/ r = [entities[a] EXCEPT !.createdNotified = TRUE]
    BY <1>1, <2>2
  <2>4. r \in Record
    BY <2>1, <2>3, Marked
  <2>5. \A x \in Record : x # NoRecord
    <3>1. \A x \in Record : x.handle # None
      BY DEF Record, Handles, None
    <3> QED BY <3>1 DEF NoRecord
  <2>6. /\ r.handle = entities[a].handle /\ r.index = entities[a].index
        /\ r.token = entities[a].token /\ r.deleting = entities[a].deleting
        /\ r.runtime = entities[a].runtime /\ r.sidecar = entities[a].sidecar
        /\ r.slotted = entities[a].slotted /\ r.removeNotified = entities[a].removeNotified
    BY <2>1, <2>3 DEF Record
  <2> QED BY <1>3, <2>1, <2>2, <2>4, <2>5, <2>6 DEF SameCore
<1> QED BY <1>2, <1>3

\* NotifyDestroyed.
LEMMA NotifyDestroyedKeeps ==
  ASSUME CoreInv, NotifyDestroyed
  PROVE  CoreInv'
<1>1. /\ ctl # <<>> /\ Top.op = "notifyDestroyed"
      /\ ctl' = <<Do("forwardDestroyed", Top.a, Top.h), Do("destroyedAll", Top.a, Top.h)>> \o Tail(ctl)
      /\ UNCHANGED <<entities, live, used, tokens, nextToken, order, sidecars, modes>>
  BY DEF NotifyDestroyed, Running, Becomes, engine, registry
<1>2. TypeOK'
  BY <1>1, TopIs, NotifyDestroyedTyped DEF CoreInv
<1>3. \A a \in Addresses : SameCore(a)
  BY <1>1, SameAll
<1>4. FrameFit(Top) /\ Top.a \in Addresses /\ Top.h \in 0..MaxHandles /\ IsCurrent(Top.a, Top.h) /\ nextToken > 0
  <2>1. FrameFit(Top) /\ Top.h \in 0..MaxHandles /\ nextToken > 0
    BY <1>1, TopIs, TopFrame DEF CoreInv
  <2> QED BY <1>1, <2>1 DEF FrameFit, OfEntity, Ops, RecordOps, Telling
<1>5. "forwardDestroyed" \in Ops /\ "destroyedAll" \in Ops
  BY DEF Ops, Callbacks
<1>6. PICK fr \in Frame : /\ fr = Do("forwardDestroyed", Top.a, Top.h) /\ fr.op = "forwardDestroyed"
                          /\ fr.a = Top.a /\ fr.h = Top.h /\ fr.t = 0
  BY <1>4, <1>5, DoFrame
<1>7. PICK gr \in Frame : /\ gr = Do("destroyedAll", Top.a, Top.h) /\ gr.op = "destroyedAll"
                          /\ gr.a = Top.a /\ gr.h = Top.h /\ gr.t = 0
  BY <1>4, <1>5, DoFrame
<1>8. FrameFit(fr) /\ FrameFit(gr)
  BY <1>4, <1>6, <1>7 DEF FrameFit
<1>9. fr.op \in Plain /\ gr.op \in Plain /\ Top.op \in Plain /\ Top.op \in Telling
  BY <1>1, <1>6, <1>7 DEF Plain, Ops, Callbacks, Unique, Telling
<1>10. ctl' = <<fr, gr>> \o Tail(ctl)
  BY <1>1, <1>6, <1>7
<1> QED BY <1>1, <1>2, <1>3, <1>6, <1>7, <1>8, <1>9, <1>10, PairBecomes

\* NotifyCreated.
LEMMA NotifyCreatedKeeps ==
  ASSUME CoreInv, NotifyCreated
  PROVE  CoreInv'
<1>1. /\ ctl # <<>> /\ Top.op = "notify" /\ Top.op \in Plain
      /\ UNCHANGED <<live, used, tokens, nextToken, order, sidecars, modes>>
  BY DEF NotifyCreated, Running, engine, registry, Plain, Ops, Unique
<1>2. TypeOK'
  BY <1>1, TopIs, NotifyCreatedTyped DEF CoreInv
<1>3. CASE entities' = entities /\ ctl' = <<>> \o Tail(ctl)
  BY <1>1, <1>2, <1>3, SameAll, PlainReturns
<1>4. CASE /\ IsCurrent(Top.a, Top.h)
           /\ entities' = [entities EXCEPT ![Top.a].createdNotified = TRUE]
           /\ ctl' = <<Do("forwardCreated", Top.a, Top.h), Do("createdAll", Top.a, Top.h)>> \o Tail(ctl)
  <2>1. Top.a \in Addresses /\ Top.h \in 0..MaxHandles
    BY <1>1, TopIs, TopFrame DEF CoreInv, FrameFit, OfEntity, Ops
  <2>2. \A a \in Addresses : SameCore(a)
    BY <1>4, <2>1, SameMarked DEF CoreInv, IsCurrent
  <2>5. "forwardCreated" \in Ops /\ "createdAll" \in Ops
    BY DEF Ops, Callbacks
  <2>6. PICK fr \in Frame : /\ fr = Do("forwardCreated", Top.a, Top.h) /\ fr.op = "forwardCreated"
                            /\ fr.a = Top.a /\ fr.h = Top.h /\ fr.t = 0
    BY <2>1, <2>5, DoFrame
  <2>7. PICK gr \in Frame : /\ gr = Do("createdAll", Top.a, Top.h) /\ gr.op = "createdAll"
                            /\ gr.a = Top.a /\ gr.h = Top.h /\ gr.t = 0
    BY <2>1, <2>5, DoFrame
  <2>8. fr.op \in Plain /\ gr.op \in Plain /\ fr.op \in Loose /\ gr.op \in Loose
    BY <2>6, <2>7 DEF Loose, Plain, Ops, Callbacks, Unique, Telling
  <2>9. FrameFit(fr) /\ FrameFit(gr)
    BY <1>1, <2>1, <2>6, <2>7, <2>8, LooseFit
  <2>10. ctl' = <<fr, gr>> \o Tail(ctl)
    BY <1>4, <2>6, <2>7
  <2> QED BY <1>1, <1>2, <2>2, <2>8, <2>9, <2>10, PairBecomes
<1> QED BY <1>3, <1>4 DEF NotifyCreated, Becomes

\* The frames of a deletion, one by one.
LEMMA DeletionIs ==
  ASSUME NEW a \in Addresses
  PROVE  \E fs \in Seq(Frame), n \in {1, 2} :
           /\ fs = Deletion(a) /\ Len(fs) = n + 1
           /\ fs[n].op = "deleted" /\ fs[n + 1].op = "freeMemory"
           /\ n = 2 => fs[1].op = "cleanup"
           /\ \A k \in 1..(n + 1) : fs[k].a = a /\ fs[k].t = 0
<1>0. /\ None \in 0..MaxHandles /\ a \in Addresses \cup {None}
      /\ "cleanup" \in Ops /\ "deleted" \in Ops /\ "freeMemory" \in Ops
  BY ConstantsOK DEF Ops, None
<1>1. PICK x \in Frame : x = Do("cleanup", a, None) /\ x.op = "cleanup" /\ x.a = a /\ x.t = 0
  BY <1>0, DoFrame
<1>2. PICK y \in Frame : y = Do("deleted", a, None) /\ y.op = "deleted" /\ y.a = a /\ y.t = 0
  BY <1>0, DoFrame
<1>3. PICK z \in Frame : z = Do("freeMemory", a, None) /\ z.op = "freeMemory" /\ z.a = a /\ z.t = 0
  BY <1>0, DoFrame
<1>4. CASE Tracked(a) /\ entities[a].runtime
  <2>1. Deletion(a) = <<x>> \o <<y, z>>
    BY <1>1, <1>2, <1>3, <1>4 DEF Deletion
  <2>2. PICK fs \in Seq(Frame) : fs = <<x>> \o <<y, z>> /\ Len(fs) = 3 /\ fs[1] = x /\ fs[2] = y /\ fs[3] = z
    <3>1. PICK c \in Seq(Frame), d \in Seq(Frame) :
            c = <<x>> /\ d = <<y, z>> /\ Len(c) = 1 /\ c[1] = x /\ Len(d) = 2 /\ d[1] = y /\ d[2] = z
      <4>1. <<y, z>> \in Seq(Frame) /\ Len(<<y, z>>) = 2 /\ <<y, z>>[1] = y /\ <<y, z>>[2] = z
        BY FewFrames
      <4>2. <<x>> \in Seq(Frame) /\ Len(<<x>>) = 1 /\ <<x>>[1] = x
        BY FewFrames
      <4> QED BY <4>1, <4>2
    <3>2. c \o d \in Seq(Frame) /\ Len(c \o d) = 3 /\ (c \o d)[1] = x /\ (c \o d)[2] = y /\ (c \o d)[3] = z
      BY <3>1
    <3> QED BY <3>1, <3>2
  <2>3. PICK n \in {1, 2} : n = 2
    OBVIOUS
  <2>4. n + 1 = 3 /\ \A k \in 1..(n + 1) : k = 1 \/ k = 2 \/ k = 3
    BY <2>3
  <2>5. /\ fs = Deletion(a) /\ Len(fs) = n + 1 /\ fs[n].op = "deleted" /\ fs[n + 1].op = "freeMemory"
        /\ n = 2 => fs[1].op = "cleanup"
        /\ \A k \in 1..(n + 1) : fs[k].a = a /\ fs[k].t = 0
    BY <1>1, <1>2, <1>3, <2>1, <2>2, <2>3, <2>4
  <2> QED BY <2>5
<1>5. CASE ~(Tracked(a) /\ entities[a].runtime)
  <2>1. Deletion(a) = <<>> \o <<y, z>>
    BY <1>2, <1>3, <1>5 DEF Deletion
  <2>2. PICK fs \in Seq(Frame) : fs = <<>> \o <<y, z>> /\ Len(fs) = 2 /\ fs[1] = y /\ fs[2] = z
    <3>1. PICK d \in Seq(Frame) : d = <<y, z>> /\ Len(d) = 2 /\ d[1] = y /\ d[2] = z
      <4>1. <<y, z>> \in Seq(Frame) /\ Len(<<y, z>>) = 2 /\ <<y, z>>[1] = y /\ <<y, z>>[2] = z
        BY FewFrames
      <4> QED BY <4>1
    <3>2. <<>> \o d = d
      BY <3>1
    <3> QED BY <3>1, <3>2
  <2>3. PICK n \in {1, 2} : n = 1
    OBVIOUS
  <2>4. n + 1 = 2 /\ n # 2 /\ \A k \in 1..(n + 1) : k = 1 \/ k = 2
    BY <2>3
  <2>5. /\ fs = Deletion(a) /\ Len(fs) = n + 1 /\ fs[n].op = "deleted" /\ fs[n + 1].op = "freeMemory"
        /\ n = 2 => fs[1].op = "cleanup"
        /\ \A k \in 1..(n + 1) : fs[k].a = a /\ fs[k].t = 0
    BY <1>2, <1>3, <2>1, <2>2, <2>3, <2>4
  <2> QED BY <2>5
<1> QED BY <1>4, <1>5

\* The frame under the new ones.
LEMMA UnderNew ==
  ASSUME NEW s \in Seq(Frame), NEW t \in Seq(Frame), NEW m \in Nat, NEW p \in {0, 1}, Rests(s, t, m, p),
         m + 1 \in 1..Len(t)
  PROVE  p + 1 \in 1..Len(s) /\ t[m + 1] = s[p + 1]
<1>1. PICK i \in 1..Len(s) : m + 1 = i + m - p /\ t[m + 1] = s[i]
  <2>1. PICK k \in 1..Len(t) : k = m + 1 /\ k > m
    OBVIOUS
  <2>2. PICK i \in 1..Len(s) : Comes(s, t, k, i, m, p)
    BY <2>1 DEF Rests
  <2> QED BY <2>1, <2>2 DEF Comes
<1>2. i = p + 1
  BY <1>1
<1> QED BY <1>1, <1>2

\* No call is twice on the stack after a step that calls none of those.
LEMMA SingleSame ==
  ASSUME NEW s \in Seq(Frame), NEW t \in Seq(Frame), NEW m \in Nat, NEW p \in {0, 1},
         Rests(s, t, m, p), Single(s), \A k \in 1..m : t[k].op \notin Unique
  PROVE  Single(t)
<1>1. \A j, k \in 1..m : t[j].op \in Unique /\ Alike(t[j], t[k]) => j = k
  OBVIOUS
<1>2. \A k \in 1..m, i \in 1..Len(s) : i > p /\ t[k].op \in Unique => ~Alike(t[k], s[i])
  OBVIOUS
<1> QED BY <1>1, <1>2, SingleKept

\* A deletion is called.
LEMMA DeletionKeeps ==
  ASSUME CoreInv, TypeOK', entities' = entities,
         UNCHANGED <<live, used, tokens, nextToken, order, sidecars, modes>>,
         NEW a \in Addresses, live[a] # None, ~Deleting(a), NEW p \in {0, 1},
         p = 0 => ctl' = Deletion(a) \o ctl /\ (ctl # <<>> => Top.op \in Callbacks),
         p = 1 => ctl' = Deletion(a) \o Tail(ctl) /\ ctl # <<>> /\ Top.op = "attach"
  PROVE  CoreInv'
<1>0. /\ TypeOK /\ Nested(ctl) /\ Single(ctl) /\ FramesFit /\ Freed
  BY DEF CoreInv, StackInv
<1>0a. /\ ctl \in Seq(Frame) /\ ctl' \in Seq(Frame) /\ nextToken \in Nat /\ nextToken > 0
  BY <1>0, ConstantsOK DEF TypeOK
<1>1. /\ TypeOK /\ Nested(ctl) /\ Single(ctl) /\ FramesFit /\ Freed
      /\ ctl \in Seq(Frame) /\ ctl' \in Seq(Frame) /\ nextToken \in Nat /\ nextToken > 0
  BY <1>0, <1>0a
<1>2. PICK fs \in Seq(Frame), n \in {1, 2} :
           /\ fs = Deletion(a) /\ Len(fs) = n + 1
           /\ fs[n].op = "deleted" /\ fs[n + 1].op = "freeMemory"
           /\ n = 2 => fs[1].op = "cleanup"
           /\ \A k \in 1..(n + 1) : fs[k].a = a /\ fs[k].t = 0
  BY DeletionIs
<1>3. PICK t \in Seq(Frame) : t = ctl'
  BY <1>1
<1>4. PICK m \in Nat : m = n + 1
  OBVIOUS
<1>5. Rests(ctl, t, m, p) /\ \A k \in 1..m : t[k] = fs[k]
  <2>1. CASE p = 0
    <3>1. Rests(ctl, fs \o ctl, Len(fs), 0) /\ \A k \in 1..Len(fs) : (fs \o ctl)[k] = fs[k]
      BY <1>1, CallsRests
    <3> QED BY <1>2, <1>3, <1>4, <2>1, <3>1
  <2>2. CASE p = 1
    <3>1. Rests(ctl, fs \o Tail(ctl), Len(fs), 1) /\ \A k \in 1..Len(fs) : (fs \o Tail(ctl))[k] = fs[k]
      BY <1>1, <2>2, BecomesRests
    <3> QED BY <1>2, <1>3, <1>4, <2>2, <3>1
  <2> QED BY <2>1, <2>2
<1>6. Len(ctl) > 0 => ctl # <<>> /\ Top = ctl[1] /\ NestedAt(ctl, 1)
  BY TopIs
<1>6a. ctl # <<>> => Len(ctl) > 0
  BY TopIs
<1>7. Len(t) \in Nat /\ m <= Len(t)
  BY <1>5 DEF Rests
<1>8. /\ t[n].op = "deleted" /\ t[n + 1].op = "freeMemory" /\ (n = 2 => t[1].op = "cleanup")
      /\ \A k \in 1..m : t[k].a = a /\ t[k].t = 0
  BY <1>2, <1>4, <1>5
<1>9. ~BelowIs(t, m, "stop")
  <2> SUFFICES ASSUME BelowIs(t, m, "stop") PROVE FALSE
    OBVIOUS
  <2>1. m + 1 \in 1..Len(t) /\ t[m + 1].op = "stop"
    BY DEF BelowIs
  <2>2. p + 1 \in 1..Len(ctl) /\ ctl[p + 1].op = "stop"
    BY <1>1, <1>5, <2>1, UnderNew
  <2>3. CASE p = 0
    BY <1>6, <2>2, <2>3 DEF Callbacks
  <2>4. CASE p = 1
    <3>1. BelowIs(ctl, 1, "stop")
      BY <2>2, <2>4 DEF BelowIs
    <3> QED BY <1>6, <2>4, <3>1, TopIs DEF NestedAt
  <2> QED BY <2>3, <2>4
<1>10. \A k \in 1..m : k = n + 1 \/ k = n \/ (n = 2 /\ k = 1)
  BY <1>4
<1>11. Nested(t)
  <2>1. NestedAt(t, n + 1)
    BY <1>4, <1>8, <1>9 DEF NestedAt, Telling
  <2>2. Below(t, n, {"freeMemory"}) /\ ~BelowIs(t, n, "stop")
    BY <1>4, <1>7, <1>8 DEF Below, BelowIs
  <2>3. NestedAt(t, n)
    BY <1>4, <1>8, <2>2 DEF NestedAt, Telling
  <2>4. ASSUME n = 2 PROVE NestedAt(t, 1)
    <3>1. n = 1 + 1 /\ n \in 1..Len(t) /\ 1 \in 1..m /\ n \in 1..m
      BY <1>4, <1>7, <2>4
    <3>2. Below(t, 1, {"deleted"}) /\ ~BelowIs(t, 1, "stop")
      BY <1>8, <3>1 DEF Below, BelowIs
    <3> QED BY <1>8, <2>2, <2>4, <3>1, <3>2 DEF NestedAt, Telling
  <2>5. \A k \in 1..m : NestedAt(t, k)
    BY <1>10, <2>1, <2>3, <2>4
  <2>6. p = 0 /\ Len(ctl) > 0 => ctl[1].op # "attach"
    BY <1>6 DEF Callbacks
  <2> QED BY <1>1, <1>5, <2>5, <2>6, NestedKept
<1>12. Single(t)
  <2>1. \A k \in 1..m : t[k].op \in Unique => k = n + 1
    BY <1>8, <1>10 DEF Unique
  <2>2. \A k \in 1..m, i \in 1..Len(ctl) : i > p /\ t[k].op \in Unique => ~Alike(t[k], ctl[i])
    <3>1. \A i \in 1..Len(ctl) : ~(ctl[i].op = "freeMemory" /\ ctl[i].a = a)
      BY <1>1 DEF Deleting
    <3> QED BY <1>8, <2>1, <3>1 DEF Alike
  <2>3. \A j, k \in 1..m : t[j].op \in Unique /\ Alike(t[j], t[k]) => j = k
    BY <2>1 DEF Alike
  <2>4. ctl \in Seq(Frame) /\ t \in Seq(Frame) /\ m \in Nat /\ p \in {0, 1} /\ Rests(ctl, t, m, p) /\ Single(ctl)
    BY <1>1, <1>5
  <2> QED BY ONLY <2>2, <2>3, <2>4, SingleKept
<1>13. \A b \in Addresses : SameCore(b)
  BY SameAll
<1>14. Rests(ctl, ctl', m, p)
  BY <1>3, <1>5
<1>15. Freed'
  <2>1. \A k \in 1..m : t[k].op = "freeMemory" => k > 1 /\ t[k - 1].op = "deleted" /\ t[k - 1].a = t[k].a
    <3>1. (n + 1) - 1 = n /\ n + 1 > 1 /\ n \in 1..m /\ n + 1 \in 1..m
      BY <1>4
    <3> QED BY <1>8, <1>10, <3>1
  <2>2. \A k \in 1..m : ctl'[k].op = "freeMemory" =>
           k > 1 /\ ctl'[k - 1].op = "deleted" /\ ctl'[k - 1].a = ctl'[k].a
    BY <1>3, <2>1
  <2>3. purging' = purging /\ (p = 1 => ctl # <<>> /\ Top.op \notin {"deleted", "erase"})
    BY DEF modes
  <2> QED BY <1>1, <1>13, <1>14, <2>2, <2>3, FreedKept
<1>16. \A b : Waits(b) => Waits(b)'
  <2>1. p = 1 => ctl # <<>> /\ Top.op \notin {"deleted", "purge"}
    OBVIOUS
  <2> QED BY <1>1, <1>14, <2>1, WaitsKept
<1>17. \A k \in 1..m : ctl'[k].op \notin {"attach", "purged", "stop"} /\ FrameFit(ctl'[k])
  <2>1. \A k \in 1..m : t[k].op \in {"cleanup", "deleted", "freeMemory"}
    BY <1>8, <1>10
  <2>2. \A k \in 1..m : FrameFit(t[k])
    BY <1>1, <1>8, <2>1 DEF FrameFit, RecordOps, Telling
  <2> QED BY <1>3, <2>1, <2>2
<1>18. Nested(ctl') /\ Single(ctl')
  BY <1>3, <1>11, <1>12
<1>19. p = 0 /\ Len(ctl) > 0 => ctl[1].op \in Callbacks
  BY <1>6
<1>20. p = 1 => /\ ctl # <<>>
                /\ Top.op \notin {"erase", "cleanedUp", "purged", "stop"}
                /\ Top.op = "cleanup" /\ Tracked(Top.a) => entities[Top.a].removeNotified
  OBVIOUS
<1> QED BY <1>13, <1>14, <1>15, <1>16, <1>17, <1>18, <1>19, <1>20, CoreKept

\* AttachRuntime.
LEMMA AttachRuntimeKeeps ==
  ASSUME CoreInv, AttachRuntime
  PROVE  CoreInv'
<1>1. /\ ctl # <<>> /\ Top.op = "attach" /\ Top.op \in Plain \cup {"attach"} /\ Running("attach")
      /\ UNCHANGED <<live, used, tokens, nextToken, order, sidecars, modes>>
  BY DEF AttachRuntime, Running, engine
<1>2. TypeOK' /\ TypeOK
  BY <1>1, TopIs, AttachRuntimeTyped DEF CoreInv
<1>3. /\ Top.a \in Addresses /\ Top.h \in 0..MaxHandles /\ live[Top.a] = Top.h /\ ~Deleting(Top.a)
      /\ nextToken > 0 /\ live[Top.a] # None
  <2>1. FrameFit(Top) /\ AttachFit /\ nextToken > 0 /\ Top.h \in 0..MaxHandles
    BY <1>1, TopIs, TopFrame DEF CoreInv, StackInv
  <2> QED BY <1>1, <2>1 DEF FrameFit, OfEntity, Ops, AttachFit
<1>4. CASE Attachable(Top.a)
  <2>1. /\ entities' = [entities EXCEPT ![Top.a].postConstructed = TRUE]
        /\ ctl' = <<Do("constructed", Top.a, Top.h),
                    [Do("return", Top.a, Top.h) EXCEPT !.t = entities[Top.a].token]>> \o Tail(ctl)
    BY <1>4 DEF AttachRuntime, Becomes
  <2>2. Tracked(Top.a) /\ ~entities[Top.a].deleting
    BY <1>4 DEF Attachable
  <2>3. \A a \in Addresses : SameCore(a)
    BY <1>2, <1>3, <2>1, <2>2, SameMarked
  <2>4. RecordFit(Top.a) /\ entities[Top.a].token \in Handles
    BY <1>2, <1>3, <2>2, RecordTyped DEF CoreInv, RecordInv, RecordsFit
  <2>5. entities[Top.a].handle = Top.h /\ entities[Top.a].token < nextToken
    BY <1>3, <2>2, <2>4 DEF RecordFit
  <2>6. "constructed" \in Ops /\ "return" \in Ops
    BY DEF Ops, Callbacks
  <2>7. PICK fr \in Frame : /\ fr = Do("constructed", Top.a, Top.h) /\ fr.op = "constructed"
                            /\ fr.a = Top.a /\ fr.h = Top.h /\ fr.t = 0
    BY <1>3, <2>6, DoFrame
  <2>8. PICK gr \in Frame : /\ gr = [Do("return", Top.a, Top.h) EXCEPT !.t = entities[Top.a].token]
                            /\ gr.op = "return" /\ gr.a = Top.a /\ gr.h = Top.h
                            /\ gr.t = entities[Top.a].token
    <3>1. PICK x \in Handles : x = entities[Top.a].token
      BY <2>4
    <3>2. PICK gr : gr = [Do("return", Top.a, Top.h) EXCEPT !.t = x]
      OBVIOUS
    <3>3. gr \in Frame /\ gr.op = "return" /\ gr.a = Top.a /\ gr.h = Top.h /\ gr.t = x
      BY <1>3, <2>6, <3>2, OtherFrames
    <3> QED BY <3>1, <3>2, <3>3
  <2>9. fr.op \in Plain /\ gr.op \in Plain /\ fr.op \in Loose /\ gr.op \in Loose
    BY <2>7, <2>8 DEF Loose, Plain, Ops, Callbacks, Unique, Telling
  <2>10. FrameFit(fr)
    BY <1>1, <1>3, <2>7, <2>9, LooseFit
  <2>11. FrameFit(gr)
    BY <1>3, <2>5, <2>8 DEF FrameFit, RecordOps, Telling
  <2>12. ctl' = <<fr, gr>> \o Tail(ctl)
    BY <2>1, <2>7, <2>8
  <2> QED BY <1>1, <1>2, <2>3, <2>9, <2>10, <2>11, <2>12, PairBecomes
<1>5. CASE ~Attachable(Top.a)
  <2>1. ctl' = Deletion(Top.a) \o Tail(ctl) /\ entities' = entities
    BY <1>5 DEF AttachRuntime, Becomes
  <2>2. PICK p \in {0, 1} : p = 1
    OBVIOUS
  <2>3. PICK a \in Addresses : a = Top.a
    BY <1>3
  <2>4. ~Deleting(a) /\ live[a] # None
    BY <1>3, <2>3
  <2>5. p = 1 => ctl' = Deletion(a) \o Tail(ctl) /\ ctl # <<>> /\ Top.op = "attach"
    BY <1>1, <2>1, <2>3
  <2>6. p = 0 => ctl' = Deletion(a) \o ctl /\ (ctl # <<>> => Top.op \in Callbacks)
    BY <2>2
  <2> QED BY <1>1, <1>2, <2>1, <2>4, <2>5, <2>6, DeletionKeeps
<1> QED BY <1>4, <1>5

\* Plugins and the engine run when nothing else does, or in a callback.
LEMMA CallsInCallbacks ==
  ASSUME NEW call, MayCall(call)
  PROVE  ctl # <<>> => Top.op \in Callbacks
BY ConstantsOK DEF MayCall

\* The deletion of an entity.
LEMMA DeleteEntityKeeps ==
  ASSUME CoreInv, NEW a \in Addresses, DeleteEntity(a)
  PROVE  CoreInv'
<1>1. /\ MayCall("delete") /\ live[a] # None /\ ~Deleting(a) /\ ctl' = Deletion(a) \o ctl /\ entities' = entities
      /\ UNCHANGED <<live, used, tokens, nextToken, order, sidecars, modes>>
  BY DEF DeleteEntity, Calls, engine, registry
<1>2. TypeOK'
  BY WorldStepsTyped DEF CoreInv
<1>3. PICK p \in {0, 1} : p = 0
  OBVIOUS
<1>4. p = 0 => ctl' = Deletion(a) \o ctl /\ (ctl # <<>> => Top.op \in Callbacks)
  BY <1>1, CallsInCallbacks
<1>5. p = 1 => ctl' = Deletion(a) \o Tail(ctl) /\ ctl # <<>> /\ Top.op = "attach"
  BY <1>3
<1> QED BY <1>1, <1>2, <1>4, <1>5, DeletionKeeps

\* FlushPendingCreates.
LEMMA FlushPendingCreatesKeeps ==
  ASSUME CoreInv, FlushPendingCreates
  PROVE  CoreInv'
<1>1. /\ ctl = <<>> /\ ctl' = <<Queue("flush", pending)>> \o ctl /\ entities' = entities
      /\ UNCHANGED <<live, used, tokens, nextToken, order, sidecars, modes>>
  BY DEF FlushPendingCreates, Calls, engine, registry
<1>2. TypeOK' /\ TypeOK
  BY WorldStepsTyped DEF CoreInv
<1>3. PICK fr \in Frame : fr = Queue("flush", pending) /\ fr.op = "flush" /\ fr.t = 0
  <2>1. PICK q \in Seq(Addresses \X (0..MaxHandles)) : q = pending
    <3>1. pending \in Seq(Addresses \X Handles)
      BY <1>2 DEF TypeOK
    <3>2. Handles \subseteq 0..MaxHandles
      BY DEF Handles
    <3>3. pending \in Seq(Addresses \X (0..MaxHandles))
      <4>1. /\ \A k \in 1..Len(pending) : pending[k] \in Addresses \X Handles
            /\ pending = [k \in 1..Len(pending) |-> pending[k]] /\ Len(pending) \in Nat
        BY <3>1
      <4>2. \A k \in 1..Len(pending) : pending[k] \in Addresses \X (0..MaxHandles)
        BY <3>2, <4>1
      <4> QED BY <4>1, <4>2, SeqDef
    <3> QED BY <3>3
  <2>2. "flush" \in Ops
    BY DEF Ops
  <2>3. Queue("flush", q) \in Frame /\ Queue("flush", q).op = "flush" /\ Queue("flush", q).t = 0
    BY <2>2, QueueFrame
  <2> QED BY <2>1, <2>3
<1>4. PICK fs \in Seq(Frame) : fs = <<fr>> /\ Len(fs) = 1 /\ fs[1] = fr
  <2>1. <<fr>> \in Seq(Frame) /\ Len(<<fr>>) = 1 /\ <<fr>>[1] = fr
    BY FewFrames
  <2> QED BY <2>1
<1>5. ctl \in Seq(Frame) /\ Len(ctl) = 0 /\ nextToken > 0
  BY <1>1, <1>2, ConstantsOK DEF TypeOK
<1>6. Rests(ctl, fs \o ctl, Len(fs), 0) /\ \A k \in 1..Len(fs) : (fs \o ctl)[k] = fs[k]
  BY <1>5, CallsRests
<1>7. PICK t \in Seq(Frame) : t = ctl'
  BY <1>2 DEF TypeOK
<1>8. Rests(ctl, t, 1, 0) /\ t[1] = fr /\ Len(t) = 1
  <2>1. t = fs \o ctl
    BY <1>1, <1>3, <1>4, <1>7
  <2>2. Rests(ctl, t, 1, 0) /\ t[1] = fr
    BY <1>4, <1>6, <2>1
  <2> QED BY <1>5, <2>2 DEF Rests
<1>9. PICK m \in Nat : m = 1
  OBVIOUS
<1>10. PICK p \in {0, 1} : p = 0
  OBVIOUS
<1>11. FrameFit(fr)
  BY <1>3, <1>5 DEF FrameFit, RecordOps, Telling, OfEntity
<1>12. NestedAt(t, 1)
  BY <1>3, <1>8 DEF NestedAt, Telling, BelowIs
<1>13. \A k \in 1..m : NestedAt(ctl', k) /\ ctl'[k].op \in Plain /\ FrameFit(ctl'[k])
  <2>1. \A k \in 1..m : k = 1
    BY <1>9
  <2>2. fr.op \in Plain
    BY <1>3 DEF Plain, Ops, Unique
  <2> QED BY <1>7, <1>8, <1>11, <1>12, <2>1, <2>2
<1>14. Rests(ctl, ctl', m, p)
  BY <1>7, <1>8, <1>9, <1>10
<1>15. \A a \in Addresses : SameCore(a)
  BY <1>1, SameAll
<1>16. /\ p = 0 /\ Len(ctl) > 0 => ctl[1].op \in Callbacks
       /\ p = 1 => ctl # <<>> /\ Top.op \in Plain \cup {"attach"}
  BY <1>5, <1>10
<1> QED BY <1>1, <1>2, <1>13, <1>14, <1>15, <1>16, PlainStep

\* Nothing that the core invariant is about changes.
LEMMA CoreUnchanged ==
  ASSUME CoreInv, TypeOK',
         UNCHANGED <<entities, live, used, tokens, nextToken, order, sidecars, modes, ctl>>
  PROVE  CoreInv'
BY SMTT(90) DEF CoreInv, StackInv, RecordInv, Bounded, FramesFit, FrameFit, Place, AttachFit, Running, Top,
       Deleting, IsCurrent, Tracked, Freed, FreedAt, Purges, RecordsFit, RecordFit, On, Waits, Queued,
       HandlesFit, SlotsFit, SlotFit, Listed, Pooled, Owned, sidecars, modes

\* A call that returns is gone, and all others stay.
LEMMA PopKeeps ==
  ASSUME CoreInv, TypeOK', entities' = entities,
         UNCHANGED <<live, used, tokens, nextToken, order, sidecars, modes>>,
         ctl # <<>>, ctl' = <<>> \o Tail(ctl),
         Top.op \notin {"erase", "cleanedUp", "purged", "stop"},
         Top.op = "cleanup" /\ Tracked(Top.a) => entities[Top.a].removeNotified,
         Top.op = "deleted" => Freed',
         \A a \in Addresses : Tracked(a) /\ ~entities[a].deleting /\ Waits(a) => Waits(a)'
  PROVE  CoreInv'
<1>1. /\ TypeOK /\ Nested(ctl) /\ Single(ctl) /\ FramesFit /\ Freed
  BY DEF CoreInv, StackInv
<1>2. ctl \in Seq(Frame) /\ ctl' \in Seq(Frame) /\ Len(ctl) > 0
  BY <1>1, TopIs DEF TypeOK
<1>3. PICK fs \in Seq(Frame) : fs = <<>> /\ Len(fs) = 0
  <2>1. <<>> \in Seq(Frame) /\ Len(<<>>) = 0
    OBVIOUS
  <2> QED BY <2>1
<1>4. PICK m \in Nat : m = 0
  OBVIOUS
<1>5. PICK p \in {0, 1} : p = 1
  OBVIOUS
<1>6. Rests(ctl, ctl', m, p)
  <2>1. Rests(ctl, fs \o Tail(ctl), Len(fs), 1)
    BY <1>2, BecomesRests
  <2>2. ctl' = fs \o Tail(ctl)
    BY <1>3
  <2> QED BY <1>3, <1>4, <1>5, <2>1, <2>2
<1>7. \A k : k \notin 1..m
  BY <1>4
<1>8. PICK t \in Seq(Frame) : t = ctl'
  BY <1>2
<1>9. Nested(t)
  <2>1. Rests(ctl, t, m, p) /\ \A k \in 1..m : NestedAt(t, k)
    BY <1>6, <1>7, <1>8
  <2>2. p = 0 /\ Len(ctl) > 0 => ctl[1].op # "attach"
    BY <1>5
  <2> QED BY <1>1, <1>2, <2>1, <2>2, NestedKept
<1>10. Single(t)
  <2>1. Rests(ctl, t, m, p)
    BY <1>6, <1>8
  <2>2. \A k \in 1..m : t[k].op \notin Unique
    BY <1>7
  <2> QED BY <1>1, <1>2, <2>1, <2>2, SingleSame
<1>11. \A b \in Addresses : SameCore(b)
  BY SameAll
<1>12. Freed'
  <2>1. CASE Top.op = "deleted"
    BY <2>1
  <2>2. CASE Top.op # "deleted"
    <3>1. /\ purging' = purging /\ (p = 1 => ctl # <<>> /\ Top.op \notin {"deleted", "erase"})
          /\ \A k \in 1..m : ctl'[k].op = "freeMemory" =>
               k > 1 /\ ctl'[k - 1].op = "deleted" /\ ctl'[k - 1].a = ctl'[k].a
      BY <1>7, <2>2 DEF modes
    <3> QED BY <1>1, <1>6, <1>11, <3>1, FreedKept
  <2> QED BY <2>1, <2>2
<1>13. Nested(ctl') /\ Single(ctl')
  BY <1>8, <1>9, <1>10
<1>14. p = 0 /\ Len(ctl) > 0 => ctl[1].op \in Callbacks
  BY <1>5
<1>15. \A k \in 1..m : ctl'[k].op \notin {"attach", "purged", "stop"} /\ FrameFit(ctl'[k])
  BY <1>7
<1> QED BY <1>6, <1>11, <1>12, <1>13, <1>14, <1>15, CoreKept

\* An entity waits as before when a call returns that is none of those it waits for.
LEMMA PopWaits ==
  ASSUME TypeOK, ctl # <<>>, ctl' = <<>> \o Tail(ctl), NEW a, Waits(a),
         ~(Top.op = "deleted" /\ Top.a = a), Top.op = "purge" => Top.q = <<>>
  PROVE  Waits(a)'
<1>1. ctl' = Tail(ctl) /\ ctl \in Seq(Frame) /\ Len(ctl) \in Nat /\ Len(ctl) > 0 /\ Top = ctl[1]
  BY TopFrame
<1>2. Len(ctl') = Len(ctl) - 1 /\ \A k \in 1..Len(ctl) : k # 1 => k - 1 \in 1..Len(ctl') /\ ctl'[k - 1] = ctl[k]
  BY <1>1
<1>3. CASE Queued(a)
  <2>1. PICK i \in 1..Len(ctl) : ctl[i].op = "purge" /\ \E n \in 1..Len(ctl[i].q) : ctl[i].q[n][1] = a
    BY <1>3 DEF Queued, Place
  <2>2. i # 1
    <3>1. Len(<<>>) = 0
      OBVIOUS
    <3> QED BY <1>1, <2>1, <3>1
  <2>3. PICK k \in 1..Len(ctl') : ctl'[k] = ctl[i]
    BY <1>2, <2>2
  <2>4. ctl'[k].op = "purge" /\ \E n \in 1..Len(ctl'[k].q) : ctl'[k].q[n][1] = a
    BY <2>1, <2>3
  <2> QED BY <2>4 DEF Waits, Queued, Place
<1>4. CASE On("deleted", a)
  <2>1. PICK i \in 1..Len(ctl) : ctl[i].op = "deleted" /\ ctl[i].a = a
    BY <1>4 DEF On, Has
  <2>2. i # 1
    BY <1>1, <2>1
  <2>3. PICK k \in 1..Len(ctl') : ctl'[k] = ctl[i]
    BY <1>2, <2>2
  <2> QED BY <2>1, <2>3 DEF Waits, On, Has
<1> QED BY <1>3, <1>4 DEF Waits

\* CleanupRuntime of an entity that has been cleaned up.
LEMMA CleanupDone ==
  ASSUME CoreInv, CleanupRuntime, ~Tracked(Top.a) \/ entities[Top.a].removeNotified
  PROVE  CoreInv'
<1>1. /\ ctl # <<>> /\ Top.op = "cleanup" /\ ctl' = <<>> \o Tail(ctl) /\ entities' = entities
      /\ UNCHANGED <<live, used, tokens, nextToken, order, sidecars, modes>>
  BY DEF CleanupRuntime, Running, Becomes, engine
<1>2. TypeOK' /\ TypeOK
  BY <1>1, TopIs, CleanupRuntimeTyped DEF CoreInv
<1>3. \A a \in Addresses : Waits(a) => Waits(a)'
  BY <1>1, <1>2, PopWaits
<1> QED BY <1>1, <1>2, <1>3, PopKeeps

\* OnEntityDeleted of an entity that has no record, or is being dropped.
LEMMA DeletedBefore ==
  ASSUME CoreInv, OnEntityDeleted, ~available \/ ~Tracked(Top.a) \/ entities[Top.a].deleting
  PROVE  CoreInv'
<1>1. /\ ctl # <<>> /\ Top.op = "deleted" /\ ctl' = <<>> \o Tail(ctl) /\ entities' = entities
      /\ UNCHANGED <<live, used, tokens, nextToken, order, sidecars, modes>>
  BY DEF OnEntityDeleted, Running, Becomes, engine
<1>2. TypeOK' /\ TypeOK /\ TopFit
  BY <1>1, TopIs, OnEntityDeletedTyped DEF CoreInv
<1>3. /\ Nested(ctl) /\ Single(ctl) /\ FramesFit /\ Freed /\ Purges /\ RecordsFit
  BY DEF CoreInv, StackInv, RecordInv
<1>4. Top.a \in Addresses
  BY <1>1, <1>2 DEF TopFit, OfEntity, Ops
<1>5. \A a \in Addresses : Tracked(a) /\ ~entities[a].deleting /\ Waits(a) => Waits(a)'
  <2>1. \A a \in Addresses : Tracked(a) /\ ~entities[a].deleting => a # Top.a
    BY <1>3, <1>4 DEF Purges
  <2> QED BY <1>1, <1>2, <2>1, PopWaits
<1>6. ctl \in Seq(Frame) /\ Len(ctl) \in Nat /\ Len(ctl) > 0 /\ Top = ctl[1]
  BY <1>1, TopIs
<1>7. /\ Len(ctl') = Len(ctl) - 1 /\ \A k \in 1..Len(ctl') : k + 1 \in 1..Len(ctl) /\ ctl'[k] = ctl[k + 1]
  <2>1. ctl' = Tail(ctl)
    BY <1>1, <1>6
  <2> QED BY <1>6, <2>1
<1>8. Freed'
  <2> SUFFICES ASSUME NEW k \in 1..Len(ctl'), ctl'[k].op = "freeMemory", Tracked(ctl[k].a)' PROVE FreedAt(k)'
    BY DEF Freed, FreedAt, Place
  <2>1. PICK i \in 1..Len(ctl) : i = k + 1 /\ ctl'[k] = ctl[i]
    BY <1>7
  <2>2. PICK a : a = ctl[i].a /\ a = ctl'[k].a
    BY <2>1
  <2>3. Tracked(a) /\ ctl[i].op = "freeMemory" /\ a \in Addresses
    BY <1>1, <1>3, <2>1, <2>2 DEF Tracked, FramesFit, Place, FrameFit, OfEntity, Ops
  <2>4. \/ i > 1 /\ ctl[i - 1].op \in {"deleted", "erase"} /\ ctl[i - 1].a = a
        \/ purging /\ entities[a].deleting
    BY <1>3, <2>2, <2>3 DEF Freed, FreedAt, Place
  <2>5. CASE purging /\ entities[a].deleting
    <3>1. purging' /\ entities'[a].deleting
      BY <1>1, <2>5 DEF modes
    <3> QED BY <2>2, <3>1 DEF FreedAt
  <2>6. CASE i > 2 /\ ctl[i - 1].op \in {"deleted", "erase"} /\ ctl[i - 1].a = a
    <3>1. k > 1 /\ k - 1 \in 1..Len(ctl') /\ ctl'[k - 1] = ctl[i - 1]
      <4>1. k > 1 /\ k - 1 \in 1..Len(ctl') /\ (k - 1) + 1 = i - 1
        BY <1>6, <1>7, <2>1, <2>6
      <4> QED BY <1>7, <4>1
    <3> QED BY <2>2, <2>6, <3>1 DEF FreedAt
  <2>7. CASE i = 2 /\ ctl[i - 1].op \in {"deleted", "erase"} /\ ctl[i - 1].a = a
    <3>1. a = Top.a
      BY <1>6, <2>7
    <3>2. entities[a].deleting
      BY <1>3, <2>3, <3>1 DEF Purges
    <3>3. PICK j \in 1..Len(ctl) : ctl[j].op = "erase" /\ ctl[j].a = a
      BY <1>3, <2>3, <3>2 DEF RecordsFit, RecordFit, On, Has
    <3>4. Below(ctl, j, {"freeMemory"}) \/ BelowIs(ctl, j, "purge")
      BY <1>3, <3>3 DEF Nested, NestedAt
    <3>5. CASE Below(ctl, j, {"freeMemory"})
      <4>1. j + 1 \in 1..Len(ctl) /\ ctl[j + 1].op = "freeMemory" /\ ctl[j + 1].a = a
        BY <3>3, <3>5 DEF Below
      <4>2. j + 1 = 2
        BY <1>3, <2>2, <2>3, <2>7, <4>1 DEF Single, Alike, Unique
      <4>3. j = 1
        BY <4>2
      <4> QED BY <1>1, <1>6, <3>3, <4>3
    <3>6. CASE BelowIs(ctl, j, "purge")
      <4>1. j + 1 \in 1..Len(ctl) /\ ctl[j + 1].op = "purge"
        BY <3>6 DEF BelowIs
      <4>2. BelowIs(ctl, j + 1, "purged")
        BY <1>3, <4>1 DEF Nested, NestedAt
      <4>3. purging
        BY <1>3, <4>2 DEF BelowIs, Purges, Place
      <4> QED BY <2>5, <3>2, <4>3
    <3> QED BY <3>4, <3>5, <3>6
  <2>8. i > 1 => i > 2 \/ i = 2
    OBVIOUS
  <2> QED BY <2>4, <2>5, <2>6, <2>7, <2>8
<1> QED BY <1>1, <1>2, <1>5, <1>8, PopKeeps

\* The purge comes to the next entity.
LEMMA PurgeKeeps ==
  ASSUME CoreInv, Purge
  PROVE  CoreInv'
<1>1. /\ ctl # <<>> /\ Top.op = "purge" /\ entities' = entities
      /\ UNCHANGED <<live, used, tokens, nextToken, order, sidecars, modes>>
  BY DEF Purge, Running, engine, registry
<1>2. TypeOK' /\ TypeOK
  BY <1>1, TopIs, QuietStepsTyped DEF CoreInv
<1>3. CASE Top.q = <<>>
  <2>1. ctl' = <<>> \o Tail(ctl)
    BY <1>3 DEF Purge, Becomes
  <2>2. \A a \in Addresses : Waits(a) => Waits(a)'
    BY <1>1, <1>2, <1>3, <2>1, PopWaits
  <2> QED BY <1>1, <1>2, <2>1, <2>2, PopKeeps
<1>4. CASE Top.q # <<>>
  <2>1. ctl' = <<Do("deleted", Head(Top.q)[1], None), Queue("purge", Tail(Top.q))>> \o Tail(ctl)
    BY <1>4 DEF Purge, Becomes
  <2>2. PICK q \in Seq(Addresses \X (0..MaxHandles)) : q = Top.q /\ Len(q) \in Nat /\ Len(q) > 0
    BY <1>1, <1>2, <1>4, TopFrame
  <2>3. PICK b \in Addresses : b = Head(Top.q)[1] /\ b = q[1][1]
    BY <2>2
  <2>4. PICK r \in Seq(Addresses \X (0..MaxHandles)) :
          /\ r = Tail(Top.q)
          /\ \A n \in 1..Len(q) : n # 1 => n - 1 \in 1..Len(r) /\ r[n - 1] = q[n]
    <3>1. Tail(q) \in Seq(Addresses \X (0..MaxHandles)) /\ Len(Tail(q)) = Len(q) - 1
      BY <2>2
    <3>2. \A n \in 1..Len(q) : n # 1 => n - 1 \in 1..Len(Tail(q)) /\ Tail(q)[n - 1] = q[n]
      BY <2>2
    <3> QED BY <2>2, <3>1, <3>2
  <2>5. "deleted" \in Ops /\ "purge" \in Ops /\ None \in 0..MaxHandles
    BY ConstantsOK DEF Ops, None
  <2>6. PICK fr \in Frame : fr = Do("deleted", Head(Top.q)[1], None) /\ fr.op = "deleted" /\ fr.a = b /\ fr.t = 0
    <3>1. Do("deleted", b, None) \in Frame /\ Do("deleted", b, None).op = "deleted"
          /\ Do("deleted", b, None).a = b /\ Do("deleted", b, None).t = 0
      BY <2>5, DoFrame
    <3> QED BY <2>3, <3>1
  <2>7. PICK gr \in Frame : gr = Queue("purge", Tail(Top.q)) /\ gr.op = "purge" /\ gr.q = r /\ gr.t = 0
    <3>1. Queue("purge", r) \in Frame /\ Queue("purge", r).op = "purge" /\ Queue("purge", r).q = r
          /\ Queue("purge", r).t = 0
      BY <2>5, QueueFrame
    <3> QED BY <2>4, <3>1
  <2>8. PICK fs \in Seq(Frame) : fs = <<fr, gr>> /\ Len(fs) = 2 /\ fs[1] = fr /\ fs[2] = gr
    <3>1. <<fr, gr>> \in Seq(Frame) /\ Len(<<fr, gr>>) = 2 /\ <<fr, gr>>[1] = fr /\ <<fr, gr>>[2] = gr
      BY FewFrames
    <3> QED BY <3>1
  <2>9. /\ ctl \in Seq(Frame) /\ Len(ctl) \in Nat /\ Len(ctl) > 0 /\ Top = ctl[1] /\ NestedAt(ctl, 1)
        /\ Nested(ctl) /\ Single(ctl) /\ FramesFit /\ Freed /\ nextToken > 0 /\ 1 \in 1..Len(ctl)
    BY <1>1, TopIs DEF CoreInv, StackInv
  <2>10. PICK t \in Seq(Frame) : t = ctl'
    BY <1>2 DEF TypeOK
  <2>11. Rests(ctl, t, 2, 1) /\ t[1] = fr /\ t[2] = gr
    <3>1. Rests(ctl, fs \o Tail(ctl), Len(fs), 1) /\ \A k \in 1..Len(fs) : (fs \o Tail(ctl))[k] = fs[k]
      BY <1>1, <2>9, BecomesRests
    <3>2. t = fs \o Tail(ctl)
      BY <2>1, <2>6, <2>7, <2>8, <2>10
    <3> QED BY <2>8, <3>1, <3>2
  <2>12. PICK m \in Nat : m = 2
    OBVIOUS
  <2>13. PICK p \in {0, 1} : p = 1
    OBVIOUS
  <2>14. Rests(ctl, t, m, p) /\ \A k \in 1..m : k = 1 \/ k = 2
    BY <2>11, <2>12, <2>13
  <2>15. BelowIs(t, 2, "purged")
    <3>1. 1 + 1 \in 1..Len(ctl) /\ ctl[1 + 1].op = "purged"
      BY <1>1, <2>9 DEF NestedAt, BelowIs
    <3>2. m + 1 \in 1..Len(t) /\ t[m + 1] = ctl[1 + 1]
      <4>1. Rests(ctl, t, m, 1)
        BY <2>11, <2>12
      <4> QED BY <2>9, <3>1, <4>1, UnderTop
    <3> QED BY <2>12, <3>1, <3>2 DEF BelowIs
  <2>16. Len(t) \in Nat /\ Len(t) >= 2
    BY <2>11 DEF Rests
  <2>17. NestedAt(t, 1) /\ NestedAt(t, 2)
    <3>1. BelowIs(t, 1, "purge") /\ ~BelowIs(t, 1, "stop")
      BY <2>7, <2>11, <2>16 DEF BelowIs
    <3>2. ~BelowIs(t, 2, "stop")
      BY <2>15 DEF BelowIs
    <3>3. NestedAt(t, 1)
      BY <2>6, <2>11, <3>1 DEF NestedAt, Telling
    <3>4. NestedAt(t, 2)
      BY <2>7, <2>11, <2>15, <3>2 DEF NestedAt, Telling
    <3> QED BY <3>3, <3>4
  <2>18. Nested(t)
    <3>1. \A k \in 1..m : NestedAt(t, k)
      BY <2>14, <2>17
    <3>2. p = 0 /\ Len(ctl) > 0 => ctl[1].op # "attach"
      BY <2>13
    <3> QED BY <2>9, <2>14, <3>1, <3>2, NestedKept
  <2>19. Single(t)
    <3>1. \A k \in 1..m : t[k].op \notin Unique
      BY <2>6, <2>7, <2>11, <2>14 DEF Unique
    <3> QED BY <2>9, <2>14, <3>1, SingleSame
  <2>20. \A a \in Addresses : SameCore(a)
    BY <1>1, SameAll
  <2>21. Rests(ctl, ctl', m, p) /\ Nested(ctl') /\ Single(ctl')
    BY <2>10, <2>14, <2>18, <2>19
  <2>22. Freed'
    <3>1. \A k \in 1..m : ctl'[k].op = "freeMemory" =>
               k > 1 /\ ctl'[k - 1].op = "deleted" /\ ctl'[k - 1].a = ctl'[k].a
      BY <2>6, <2>7, <2>10, <2>11, <2>14
    <3>2. purging' = purging /\ (p = 1 => ctl # <<>> /\ Top.op \notin {"deleted", "erase"})
      BY <1>1 DEF modes
    <3> QED BY <1>2, <2>9, <2>20, <2>21, <3>1, <3>2, FreedKept
  <2>23. \A k \in 1..m : ctl'[k].op \notin {"attach", "purged", "stop"} /\ FrameFit(ctl'[k])
    <3>1. FrameFit(fr) /\ FrameFit(gr)
      BY <2>6, <2>7, <2>9 DEF FrameFit, RecordOps, Telling, OfEntity
    <3> QED BY <2>6, <2>7, <2>10, <2>11, <2>14, <3>1
  <2>24. \A a \in Addresses : Tracked(a) /\ ~entities[a].deleting /\ Waits(a) => Waits(a)'
    <3> SUFFICES ASSUME NEW a \in Addresses, Waits(a) PROVE Waits(a)'
      OBVIOUS
    <3>0. 1 \in 1..Len(t) /\ 2 \in 1..Len(t)
      BY <2>16
    <3>1. ASSUME NEW i \in 1..Len(ctl), i # 1 PROVE \E k \in 1..Len(ctl') : ctl'[k] = ctl[i]
      <4>1. i > p
        BY <2>13, <3>1
      <4> QED BY <2>21, <4>1 DEF Rests, Comes
    <3>2. CASE On("deleted", a)
      <4>1. PICK i \in 1..Len(ctl) : ctl[i].op = "deleted" /\ ctl[i].a = a
        BY <3>2 DEF On, Has
      <4>2. PICK k \in 1..Len(ctl') : ctl'[k] = ctl[i]
        BY <1>1, <2>9, <3>1, <4>1
      <4> QED BY <4>1, <4>2 DEF Waits, On, Has
    <3>3. CASE Queued(a)
      <4>1. PICK i \in 1..Len(ctl) : ctl[i].op = "purge" /\ \E n \in 1..Len(ctl[i].q) : ctl[i].q[n][1] = a
        BY <3>3 DEF Queued, Place
      <4>2. CASE i # 1
        <5>1. PICK k \in 1..Len(ctl') : ctl'[k] = ctl[i]
          BY <3>1, <4>2
        <5>2. ctl'[k].op = "purge" /\ \E n \in 1..Len(ctl'[k].q) : ctl'[k].q[n][1] = a
          BY <4>1, <5>1
        <5> QED BY <5>2 DEF Waits, Queued, Place
      <4>3. CASE i = 1
        <5>1. PICK n \in 1..Len(q) : q[n][1] = a
          BY <2>2, <2>9, <4>1, <4>3
        <5>2. CASE n = 1
          <6>1. ctl'[1].op = "deleted" /\ ctl'[1].a = a /\ 1 \in 1..Len(ctl')
            BY <2>3, <2>6, <2>10, <2>11, <3>0, <5>1, <5>2
          <6> QED BY <6>1 DEF Waits, On, Has
        <5>3. CASE n # 1
          <6>1. n - 1 \in 1..Len(r) /\ r[n - 1][1] = a
            BY <2>4, <5>1, <5>3
          <6>2. ctl'[2].op = "purge" /\ ctl'[2].q = r /\ 2 \in 1..Len(ctl')
            BY <2>7, <2>10, <2>11, <3>0
          <6>3. ctl'[2].op = "purge" /\ \E l \in 1..Len(ctl'[2].q) : ctl'[2].q[l][1] = a
            BY <6>1, <6>2
          <6> QED BY <6>2, <6>3 DEF Waits, Queued, Place
        <5> QED BY <5>2, <5>3
      <4> QED BY <4>2, <4>3
    <3> QED BY <3>2, <3>3 DEF Waits
  <2>25. p = 0 /\ Len(ctl) > 0 => ctl[1].op \in Callbacks
    BY <2>13
  <2>26. p = 1 => /\ ctl # <<>>
                  /\ Top.op \notin {"erase", "cleanedUp", "purged", "stop"}
                  /\ Top.op = "cleanup" /\ Tracked(Top.a) => entities[Top.a].removeNotified
    BY <1>1
  <2> QED BY <1>1, <1>2, <2>20, <2>21, <2>22, <2>23, <2>24, <2>25, <2>26, CoreKept
<1> QED BY <1>3, <1>4

\* A step of the destruction of one entity: its record changes, and calls take the place of the
\* innermost one.
LEMMA RecordStepKeeps ==
  ASSUME CoreInv, TypeOK', NEW a \in Addresses,
         \A b \in Addresses : SameEntry(b) /\ (b # a => SameCore(b)),
         entities'[a].runtime = entities[a].runtime,
         entities[a].deleting => entities'[a].deleting,
         entities[a].removeNotified => entities'[a].removeNotified,
         UNCHANGED <<live, used, tokens, nextToken, order, sidecars, modes>>,
         ctl # <<>>, Top.op \in {"deleted", "cleanup"}, Top.a = a,
         NEW fs \in Seq(Frame), ctl' = fs \o Tail(ctl), Len(fs) > 0,
         Nested(ctl'), Single(ctl'), Freed',
         \A k \in 1..Len(fs) : fs[k].op \notin {"attach", "purged", "stop"} /\ FrameFit(fs[k])',
         Tracked(a) => RecordFit(a)'
  PROVE  CoreInv'
<1>1. /\ TypeOK /\ Bounded /\ Nested(ctl) /\ Single(ctl) /\ FramesFit /\ Freed /\ Purges
      /\ RecordsFit /\ HandlesFit /\ SlotsFit /\ Listed /\ Pooled
  BY DEF CoreInv, StackInv, RecordInv
<1>2. Bounded' /\ HandlesFit' /\ SlotsFit' /\ Listed' /\ Pooled'
  BY <1>1, RegistryKept
<1>3. /\ ctl \in Seq(Frame) /\ ctl' \in Seq(Frame) /\ Len(ctl) \in Nat /\ Len(ctl) > 0 /\ Top = ctl[1]
      /\ 1 \in 1..Len(ctl)
  BY <1>1, TopIs DEF TypeOK
<1>4. PICK m \in Nat : m = Len(fs)
  OBVIOUS
<1>5. PICK t \in Seq(Frame) : t = ctl'
  BY <1>3
<1>6. Rests(ctl, t, m, 1) /\ \A k \in 1..m : t[k] = fs[k]
  <2>1. Rests(ctl, fs \o Tail(ctl), Len(fs), 1) /\ \A k \in 1..Len(fs) : (fs \o Tail(ctl))[k] = fs[k]
    BY <1>3, BecomesRests
  <2> QED BY <1>4, <1>5, <2>1
<1>7. m > 0 /\ Len(t) \in Nat /\ m <= Len(t) /\ \A k \in 1..m : k \in 1..Len(t)
  BY <1>4, <1>6 DEF Rests
<1>8. /\ live' = live /\ used' = used /\ nextToken' = nextToken /\ purging' = purging
      /\ available' = available /\ \A b \in Addresses : Tracked(b)' <=> Tracked(b)
  BY DEF SameEntry, modes
<1>9. FramesFit'
  <2> SUFFICES ASSUME NEW k \in 1..Len(t) PROVE FrameFit(t[k])'
    BY <1>5 DEF FramesFit, Place
  <2>1. CASE k <= m
    <3>1. k \in 1..Len(fs) /\ t[k] = fs[k]
      BY <1>4, <1>6, <2>1
    <3> QED BY <3>1
  <2>2. CASE k > m
    <3>1. PICK i \in 1..Len(ctl) : t[k] = ctl[i]
      BY <1>6, <2>2 DEF Rests, Comes
    <3>2. PICK fr \in Frame : fr = t[k] /\ FrameFit(fr)
      BY <1>1, <3>1 DEF FramesFit, Place
    <3>3. fr.op \in RecordOps \cup {"return"} => fr.a \in Addresses
      BY <3>2 DEF FrameFit, RecordOps, Telling, OfEntity, Ops, Callbacks
    <3>4. fr.a \in Addresses => /\ SameEntry(fr.a) /\ entities'[fr.a].runtime = entities[fr.a].runtime
                                /\ entities[fr.a].deleting => entities'[fr.a].deleting
                                /\ entities[fr.a].removeNotified => entities'[fr.a].removeNotified
      BY DEF SameCore
    <3>5. "erase" \in RecordOps /\ "cleanedUp" \in RecordOps /\ "removed" \in RecordOps
      BY DEF RecordOps
    <3>6. FrameFit(fr)'
      BY <1>8, <3>2, <3>3, <3>4, <3>5 DEF FrameFit, IsCurrent, SameEntry
    <3> QED BY <3>2, <3>6
  <2> QED BY <2>1, <2>2
<1>10. AttachFit'
  <2>1. t[1].op # "attach" /\ 1 \in 1..Len(t)
    BY <1>4, <1>6, <1>7
  <2> QED BY <1>3, <1>5, <2>1 DEF AttachFit, Running, Top
<1>11. Purges'
  <2>1. ASSUME NEW op \in {"purged", "stop"}
        PROVE  (\E k \in 1..Len(t) : t[k].op = op) <=> (\E k \in 1..Len(ctl) : ctl[k].op = op)
    <3>1. ASSUME NEW k \in 1..Len(t), t[k].op = op PROVE \E i \in 1..Len(ctl) : ctl[i].op = op
      <4>1. k > m
        BY <1>4, <1>6, <2>1, <3>1
      <4>2. PICK i \in 1..Len(ctl) : t[k] = ctl[i]
        BY <1>6, <4>1 DEF Rests, Comes
      <4> QED BY <3>1, <4>2
    <3>2. ASSUME NEW k \in 1..Len(ctl), ctl[k].op = op PROVE \E i \in 1..Len(t) : t[i].op = op
      <4>1. k > 1
        BY <1>3, <2>1, <3>2
      <4> QED BY <1>6, <3>2, <4>1 DEF Rests, Comes
    <3> QED BY <3>1, <3>2
  <2> QED BY <1>1, <1>5, <1>8, <2>1 DEF Purges, Place
<1>12. RecordsFit'
  <2> SUFFICES ASSUME NEW b \in Addresses, Tracked(b)', b # a PROVE RecordFit(b)'
    BY <1>8 DEF RecordsFit
  <2>1. Tracked(b) /\ RecordFit(b) /\ SameCore(b)
    BY <1>1, <1>8 DEF RecordsFit
  <2>2. ~(entities[b].deleting /\ ~entities[b].removeNotified)
    BY <2>1 DEF RecordFit
  <2>3. ASSUME NEW op, Has(ctl, op, b) PROVE Has(t, op, b)
    <3>1. PICK i \in 1..Len(ctl) : ctl[i].op = op /\ ctl[i].a = b
      BY <2>3 DEF Has
    <3>2. i > 1
      BY <1>3, <3>1
    <3>3. PICK k \in 1..Len(t) : t[k] = ctl[i]
      BY <1>6, <3>2 DEF Rests, Comes
    <3> QED BY <3>1, <3>3 DEF Has
  <2>4. (On("erase", b) => On("erase", b)') /\ (On("cleanedUp", b) => On("cleanedUp", b)')
    BY <1>5, <2>3 DEF On
  <2>5. Waits(b) => Waits(b)'
    <3>1. On("deleted", b) => On("deleted", b)'
      BY <1>5, <2>3 DEF On
    <3>2. Queued(b) => Queued(b)'
      <4> SUFFICES ASSUME Queued(b) PROVE Queued(b)'
        OBVIOUS
      <4>1. PICK i \in 1..Len(ctl) : ctl[i].op = "purge" /\ \E n \in 1..Len(ctl[i].q) : ctl[i].q[n][1] = b
        BY DEF Queued, Place
      <4>2. i > 1
        BY <1>3, <4>1
      <4>3. PICK k \in 1..Len(t) : t[k] = ctl[i]
        BY <1>6, <4>2 DEF Rests, Comes
      <4>4. t[k].op = "purge" /\ \E n \in 1..Len(t[k].q) : t[k].q[n][1] = b
        BY <4>1, <4>3
      <4> QED BY <1>5, <4>4 DEF Queued, Place
    <3> QED BY <3>1, <3>2 DEF Waits
  <2> QED BY <1>8, <2>1, <2>2, <2>4, <2>5 DEF RecordFit, SameCore
<1> QED BY <1>2, <1>9, <1>10, <1>11, <1>12 DEF CoreInv, StackInv, RecordInv

\* A record with one more mark.
LEMMA MarkedEntry ==
  ASSUME TypeOK, NEW a \in Addresses, Tracked(a),
         \/ entities' = [entities EXCEPT ![a].deleting = TRUE]
         \/ entities' = [entities EXCEPT ![a].removeNotified = TRUE]
  PROVE  /\ \A b \in Addresses : SameEntry(b) /\ (b # a => SameCore(b))
         /\ entities'[a].runtime = entities[a].runtime
         /\ Tracked(a)'
         /\ entities' = [entities EXCEPT ![a].deleting = TRUE] =>
              entities'[a].deleting /\ entities'[a].removeNotified = entities[a].removeNotified
         /\ entities' = [entities EXCEPT ![a].removeNotified = TRUE] =>
              entities'[a].removeNotified /\ entities'[a].deleting = entities[a].deleting
<1>1. entities \in [Addresses -> Record \cup {NoRecord}] /\ entities[a] \in Record
  BY RecordTyped DEF TypeOK
<1>2. \A b \in Addresses : b # a => entities'[b] = entities[b]
  BY <1>1
<1>3. \A b \in Addresses : b # a => SameCore(b) /\ SameEntry(b)
  BY <1>2 DEF SameCore, SameEntry, Tracked
<1>4. PICK r : r = entities'[a]
  OBVIOUS
<1>5. /\ \/ r = [entities[a] EXCEPT !.deleting = TRUE]
         \/ r = [entities[a] EXCEPT !.removeNotified = TRUE]
      /\ entities' = [entities EXCEPT ![a].deleting = TRUE] => r = [entities[a] EXCEPT !.deleting = TRUE]
      /\ entities' = [entities EXCEPT ![a].removeNotified = TRUE] => r = [entities[a] EXCEPT !.removeNotified = TRUE]
  BY <1>1, <1>4
<1>6. r \in Record
  BY <1>1, <1>5, Marked
<1>7. \A x \in Record : x # NoRecord
  <2>1. \A x \in Record : x.handle # None
    BY DEF Record, Handles, None
  <2> QED BY <2>1 DEF NoRecord
<1>8. /\ r.handle = entities[a].handle /\ r.index = entities[a].index
      /\ r.token = entities[a].token /\ r.runtime = entities[a].runtime
      /\ r.sidecar = entities[a].sidecar /\ r.slotted = entities[a].slotted
  BY <1>1, <1>5 DEF Record
<1>9. /\ r = [entities[a] EXCEPT !.deleting = TRUE] =>
           r.deleting /\ r.removeNotified = entities[a].removeNotified
      /\ r = [entities[a] EXCEPT !.removeNotified = TRUE] =>
           r.removeNotified /\ r.deleting = entities[a].deleting
  BY <1>1 DEF Record
<1>10. SameEntry(a) /\ Tracked(a)'
  BY <1>4, <1>6, <1>7, <1>8 DEF SameEntry, Tracked
<1> QED BY <1>3, <1>4, <1>5, <1>8, <1>9, <1>10

\* The frames of a destruction, one by one.
LEMMA DestructionIs ==
  ASSUME NEW a \in Addresses, NEW h \in 0..MaxHandles
  PROVE  \E fs \in Seq(Frame), n \in {1, 2} :
           /\ fs = Destruction(a, h) /\ Len(fs) = n + 1
           /\ fs[1].op = "cleanup" /\ fs[n + 1].op = "erase"
           /\ n = 2 <=> entities[a].createdNotified
           /\ n = 2 => fs[2].op = "notifyDestroyed" /\ fs[2].h = h
           /\ fs[n + 1].h = h
           /\ \A k \in 1..(n + 1) : fs[k].a = a /\ fs[k].t = 0
<1>0. /\ None \in 0..MaxHandles /\ a \in Addresses \cup {None}
      /\ "cleanup" \in Ops /\ "notifyDestroyed" \in Ops /\ "erase" \in Ops
  BY ConstantsOK DEF Ops, None
<1>1. PICK x \in Frame : x = Do("cleanup", a, None) /\ x.op = "cleanup" /\ x.a = a /\ x.t = 0
  BY <1>0, DoFrame
<1>2. PICK y \in Frame : /\ y = Do("notifyDestroyed", a, h) /\ y.op = "notifyDestroyed" /\ y.a = a
                         /\ y.h = h /\ y.t = 0
  BY <1>0, DoFrame
<1>3. PICK z \in Frame : z = Do("erase", a, h) /\ z.op = "erase" /\ z.a = a /\ z.h = h /\ z.t = 0
  BY <1>0, DoFrame
<1>4. CASE entities[a].createdNotified
  <2>1. Destruction(a, h) = <<x>> \o <<y>> \o <<z>>
    BY <1>1, <1>2, <1>3, <1>4 DEF Destruction, Notice
  <2>2. PICK fs \in Seq(Frame) : /\ fs = <<x>> \o <<y>> \o <<z>> /\ Len(fs) = 3
                                 /\ fs[1] = x /\ fs[2] = y /\ fs[3] = z
    <3>1. PICK b \in Seq(Frame), c \in Seq(Frame), d \in Seq(Frame) :
            /\ b = <<x>> /\ c = <<y>> /\ d = <<z>> /\ Len(b) = 1 /\ Len(c) = 1 /\ Len(d) = 1
            /\ b[1] = x /\ c[1] = y /\ d[1] = z
      <4>1. /\ <<x>> \in Seq(Frame) /\ Len(<<x>>) = 1 /\ <<x>>[1] = x
            /\ <<y>> \in Seq(Frame) /\ Len(<<y>>) = 1 /\ <<y>>[1] = y
            /\ <<z>> \in Seq(Frame) /\ Len(<<z>>) = 1 /\ <<z>>[1] = z
        BY FewFrames
      <4> QED BY <4>1
    <3>2. b \o c \in Seq(Frame) /\ Len(b \o c) = 2 /\ (b \o c)[1] = x /\ (b \o c)[2] = y
      BY <3>1
    <3>3. PICK e \in Seq(Frame) : e = b \o c /\ Len(e) = 2 /\ e[1] = x /\ e[2] = y
      BY <3>2
    <3>4. e \o d \in Seq(Frame) /\ Len(e \o d) = 3 /\ (e \o d)[1] = x /\ (e \o d)[2] = y /\ (e \o d)[3] = z
      BY <3>1, <3>3
    <3> QED BY <3>1, <3>3, <3>4
  <2>3. PICK n \in {1, 2} : n = 2
    OBVIOUS
  <2>4. n + 1 = 3 /\ \A k \in 1..(n + 1) : k = 1 \/ k = 2 \/ k = 3
    BY <2>3
  <2>5. /\ fs = Destruction(a, h) /\ Len(fs) = n + 1
        /\ fs[1].op = "cleanup" /\ fs[n + 1].op = "erase"
        /\ n = 2 <=> entities[a].createdNotified
        /\ n = 2 => fs[2].op = "notifyDestroyed" /\ fs[2].h = h
        /\ fs[n + 1].h = h
        /\ \A k \in 1..(n + 1) : fs[k].a = a /\ fs[k].t = 0
    BY <1>1, <1>2, <1>3, <1>4, <2>1, <2>2, <2>3, <2>4
  <2> QED BY <2>5
<1>5. CASE ~entities[a].createdNotified
  <2>1. Destruction(a, h) = <<x>> \o <<>> \o <<z>>
    BY <1>1, <1>3, <1>5 DEF Destruction, Notice
  <2>2. PICK fs \in Seq(Frame) : fs = <<x>> \o <<>> \o <<z>> /\ Len(fs) = 2 /\ fs[1] = x /\ fs[2] = z
    <3>1. PICK b \in Seq(Frame), d \in Seq(Frame) :
            b = <<x>> /\ d = <<z>> /\ Len(b) = 1 /\ Len(d) = 1 /\ b[1] = x /\ d[1] = z
      <4>1. /\ <<x>> \in Seq(Frame) /\ Len(<<x>>) = 1 /\ <<x>>[1] = x
            /\ <<z>> \in Seq(Frame) /\ Len(<<z>>) = 1 /\ <<z>>[1] = z
        BY FewFrames
      <4> QED BY <4>1
    <3>2. b \o <<>> = b
      BY <3>1
    <3>3. b \o d \in Seq(Frame) /\ Len(b \o d) = 2 /\ (b \o d)[1] = x /\ (b \o d)[2] = z
      BY <3>1
    <3> QED BY <3>1, <3>2, <3>3
  <2>3. PICK n \in {1, 2} : n = 1
    OBVIOUS
  <2>4. n + 1 = 2 /\ n # 2 /\ \A k \in 1..(n + 1) : k = 1 \/ k = 2
    BY <2>3
  <2>5. /\ fs = Destruction(a, h) /\ Len(fs) = n + 1
        /\ fs[1].op = "cleanup" /\ fs[n + 1].op = "erase"
        /\ n = 2 <=> entities[a].createdNotified
        /\ n = 2 => fs[2].op = "notifyDestroyed" /\ fs[2].h = h
        /\ fs[n + 1].h = h
        /\ \A k \in 1..(n + 1) : fs[k].a = a /\ fs[k].t = 0
    BY <1>1, <1>3, <1>5, <2>1, <2>2, <2>3, <2>4
  <2> QED BY <2>5
<1> QED BY <1>4, <1>5

\* OnEntityDeleted of an entity that has a record.
LEMMA DeletedNow ==
  ASSUME CoreInv, OnEntityDeleted, available, Tracked(Top.a), ~entities[Top.a].deleting
  PROVE  CoreInv'
<1>1. /\ ctl # <<>> /\ Top.op = "deleted"
      /\ UNCHANGED <<live, used, tokens, nextToken, order, sidecars, modes>>
      /\ entities' = [entities EXCEPT ![Top.a].deleting = TRUE]
      /\ ctl' = Destruction(Top.a, entities[Top.a].handle) \o Tail(ctl)
  BY DEF OnEntityDeleted, Running, Becomes, engine
<1>2. TypeOK' /\ TypeOK /\ TopFit
  BY <1>1, TopIs, OnEntityDeletedTyped DEF CoreInv
<1>3. /\ Nested(ctl) /\ Single(ctl) /\ FramesFit /\ Freed /\ Purges /\ RecordsFit
  BY DEF CoreInv, StackInv, RecordInv
<1>4. PICK a \in Addresses : a = Top.a /\ Tracked(a) /\ ~entities[a].deleting
  BY <1>1, <1>2 DEF TopFit, OfEntity, Ops
<1>5. PICK h \in 0..MaxHandles : h = entities[a].handle
  <2>1. entities[a].handle \in Handles
    BY <1>2, <1>4, RecordTyped
  <2> QED BY <2>1 DEF Handles
<1>6. /\ ctl \in Seq(Frame) /\ Len(ctl) \in Nat /\ Len(ctl) > 0 /\ Top = ctl[1] /\ 1 \in 1..Len(ctl)
      /\ NestedAt(ctl, 1) /\ nextToken > 0
  BY <1>1, TopIs
<1>7. PICK fs \in Seq(Frame), n \in {1, 2} :
           /\ fs = Destruction(a, h) /\ Len(fs) = n + 1
           /\ fs[1].op = "cleanup" /\ fs[n + 1].op = "erase"
           /\ n = 2 <=> entities[a].createdNotified
           /\ n = 2 => fs[2].op = "notifyDestroyed" /\ fs[2].h = h
           /\ fs[n + 1].h = h
           /\ \A k \in 1..(n + 1) : fs[k].a = a /\ fs[k].t = 0
  BY DestructionIs
<1>8. PICK t \in Seq(Frame) : t = ctl'
  BY <1>2 DEF TypeOK
<1>9. PICK m \in Nat : m = n + 1
  OBVIOUS
<1>10. ctl' = fs \o Tail(ctl) /\ Rests(ctl, t, m, 1) /\ \A k \in 1..m : t[k] = fs[k]
  <2>1. Rests(ctl, fs \o Tail(ctl), Len(fs), 1) /\ \A k \in 1..Len(fs) : (fs \o Tail(ctl))[k] = fs[k]
    BY <1>6, BecomesRests
  <2>2. ctl' = fs \o Tail(ctl)
    BY <1>1, <1>4, <1>5, <1>7
  <2> QED BY <1>7, <1>8, <1>9, <2>1, <2>2
<1>11. Len(t) \in Nat /\ m <= Len(t) /\ \A k \in 1..m : k \in 1..Len(t)
  BY <1>10 DEF Rests
<1>12. /\ t[1].op = "cleanup" /\ t[n + 1].op = "erase" /\ t[n + 1].h = h
       /\ n = 2 => t[2].op = "notifyDestroyed" /\ t[2].h = h
       /\ \A k \in 1..m : t[k].a = a /\ t[k].t = 0
  BY <1>7, <1>9, <1>10
<1>13. \A k \in 1..m : k = n + 1 \/ k = 1 \/ (n = 2 /\ k = 2)
  BY <1>9
<1>14. /\ \A b \in Addresses : SameEntry(b) /\ (b # a => SameCore(b))
       /\ entities'[a].runtime = entities[a].runtime /\ Tracked(a)'
       /\ entities'[a].deleting /\ entities'[a].removeNotified = entities[a].removeNotified
  BY <1>1, <1>2, <1>4, MarkedEntry
<1>15. Nested(t)
  <2>1. NestedAt(t, n + 1)
    <3>1. Below(ctl, 1, {"freeMemory"}) \/ BelowIs(ctl, 1, "purge")
      BY <1>1, <1>6 DEF NestedAt
    <3>2. 1 + 1 \in 1..Len(ctl)
      BY <3>1 DEF Below, BelowIs
    <3>3. m + 1 \in 1..Len(t) /\ t[m + 1] = ctl[1 + 1]
      BY <1>6, <1>10, <3>2, UnderTop
    <3>4. Below(t, m, {"freeMemory"}) \/ BelowIs(t, m, "purge")
      <4>1. t[m].a = ctl[1].a
        <5>1. m \in 1..m
          BY <1>9
        <5> QED BY <1>4, <1>6, <1>12, <5>1
      <4>2. CASE Below(ctl, 1, {"freeMemory"})
        BY <3>3, <4>1, <4>2 DEF Below
      <4>3. CASE BelowIs(ctl, 1, "purge")
        BY <3>3, <4>3 DEF BelowIs
      <4> QED BY <3>1, <4>2, <4>3
    <3>5. ~BelowIs(t, m, "stop")
      BY <3>4 DEF Below, BelowIs
    <3> QED BY <1>9, <1>12, <3>4, <3>5 DEF NestedAt, Telling
  <2>2. NestedAt(t, 1)
    <3>1. 1 + 1 \in 1..Len(t) /\ t[1 + 1].op \in {"notifyDestroyed", "erase"} /\ t[1 + 1].a = t[1].a
      <4>1. 1 + 1 \in 1..m /\ 1 \in 1..m /\ (n = 1 => 1 + 1 = n + 1) /\ (n = 2 => 1 + 1 = 2)
        BY <1>9
      <4>2. t[1 + 1].op \in {"notifyDestroyed", "erase"}
        BY <1>12, <4>1
      <4> QED BY <1>11, <1>12, <4>1, <4>2
    <3>2. Below(t, 1, {"notifyDestroyed", "erase"}) /\ ~BelowIs(t, 1, "stop")
      BY <3>1 DEF Below, BelowIs
    <3> QED BY <1>12, <3>2 DEF NestedAt, Telling
  <2>3. ASSUME n = 2 PROVE NestedAt(t, 2)
    <3>1. 2 + 1 \in 1..m /\ 2 \in 1..m /\ 2 + 1 = n + 1
      BY <1>9, <2>3
    <3>2. 2 + 1 \in 1..Len(t) /\ t[2 + 1].op = "erase" /\ t[2 + 1].a = t[2].a /\ t[2 + 1].h = t[2].h
      BY <1>11, <1>12, <2>3, <3>1
    <3>3. BelowSame(t, 2, {"erase"}) /\ ~BelowIs(t, 2, "stop")
      BY <3>2 DEF BelowSame, Below, BelowIs
    <3> QED BY <1>12, <2>3, <3>3 DEF NestedAt, Telling
  <2>4. \A k \in 1..m : NestedAt(t, k)
    BY <1>13, <2>1, <2>2, <2>3
  <2>5. PICK p \in {0, 1} : p = 1
    OBVIOUS
  <2>6. Rests(ctl, t, m, p) /\ (p = 0 /\ Len(ctl) > 0 => ctl[1].op # "attach")
    BY <1>10, <2>5
  <2> QED BY <1>3, <1>6, <2>4, <2>6, NestedKept
<1>16. Single(t)
  <2>1. \A i \in 1..Len(ctl) : ~(ctl[i].op = "erase" /\ ctl[i].a = a)
    BY <1>3, <1>4 DEF FramesFit, Place, FrameFit
  <2>2. \A k \in 1..m : t[k].op \in Unique => k = n + 1
    BY <1>12, <1>13 DEF Unique
  <2>3. \A j, k \in 1..m : t[j].op \in Unique /\ Alike(t[j], t[k]) => j = k
    BY <2>2 DEF Alike
  <2>4. PICK p \in {0, 1} : p = 1
    OBVIOUS
  <2>5. \A k \in 1..m, i \in 1..Len(ctl) : i > p /\ t[k].op \in Unique => ~Alike(t[k], ctl[i])
    BY <1>12, <2>1, <2>2 DEF Alike
  <2>6. Rests(ctl, t, m, p) /\ Single(ctl) /\ ctl \in Seq(Frame) /\ t \in Seq(Frame) /\ m \in Nat /\ p \in {0, 1}
    BY <1>3, <1>6, <1>10, <2>4
  <2> QED BY ONLY <2>3, <2>5, <2>6, SingleKept
<1>17. Freed'
  <2> SUFFICES ASSUME NEW k \in 1..Len(t), t[k].op = "freeMemory", Tracked(t[k].a)' PROVE FreedAt(k)'
    BY <1>8 DEF Freed, FreedAt, Place, Tracked
  <2>1. k > m
    <3>1. \A l \in 1..m : t[l].op # "freeMemory"
      BY <1>12, <1>13
    <3> QED BY <3>1
  <2>2. PICK i \in 1..Len(ctl) : Comes(ctl, t, k, i, m, 1)
    BY <1>10, <2>1 DEF Rests
  <2>3. t[k] = ctl[i] /\ i > 1 /\ k = i + m - 1
    BY <2>2 DEF Comes
  <2>4. PICK b : b = t[k].a /\ b = ctl[i].a
    BY <2>3
  <2>5. b \in Addresses /\ ctl[i].op = "freeMemory"
    BY <1>3, <2>3, <2>4 DEF FramesFit, FrameFit, Place, OfEntity, Ops
  <2>6. Tracked(b) /\ (entities[b].deleting => entities'[b].deleting)
    BY <1>14, <2>4, <2>5 DEF SameEntry, SameCore
  <2>7. \/ i > 1 /\ ctl[i - 1].op \in {"deleted", "erase"} /\ ctl[i - 1].a = b
        \/ purging /\ entities[b].deleting
    BY <1>3, <2>4, <2>5, <2>6 DEF Freed, FreedAt, Place
  <2>8. CASE purging /\ entities[b].deleting
    <3>1. purging' /\ entities'[b].deleting
      BY <1>1, <2>6, <2>8 DEF modes
    <3> QED BY <1>8, <2>4, <3>1 DEF FreedAt
  <2>9. CASE i = 2 /\ ctl[i - 1].a = b
    <3>1. b = a
      BY <1>4, <1>6, <2>9
    <3>2. k - 1 = n + 1 /\ k > 1 /\ n + 1 \in 1..m
      BY <1>9, <2>3, <2>9
    <3>3. t[k - 1].op = "erase" /\ t[k - 1].a = a
      BY <1>12, <3>2
    <3> QED BY <1>8, <2>4, <3>1, <3>2, <3>3 DEF FreedAt
  <2>10. CASE i > 2 /\ ctl[i - 1].op \in {"deleted", "erase"} /\ ctl[i - 1].a = b
    <3>1. k > 1 /\ t[k - 1] = ctl[i - 1]
      <4>1. i > 1 + 1
        BY <2>10
      <4> QED BY <2>2, <4>1 DEF Comes
    <3> QED BY <1>8, <2>4, <2>10, <3>1 DEF FreedAt
  <2>11. i = 2 \/ i > 2
    BY <2>3
  <2> QED BY <2>7, <2>8, <2>9, <2>10, <2>11
<1>18. \A k \in 1..Len(fs) : fs[k].op \notin {"attach", "purged", "stop"} /\ FrameFit(fs[k])'
  <2> SUFFICES ASSUME NEW k \in 1..Len(fs) PROVE fs[k].op \notin {"attach", "purged", "stop"} /\ FrameFit(fs[k])'
    OBVIOUS
  <2>1. k \in 1..m /\ fs[k].a = a /\ fs[k].t = 0
    BY <1>7, <1>9
  <2>2. \/ fs[k].op = "cleanup" \/ (fs[k].op = "erase" /\ fs[k].h = h) \/ (fs[k].op = "notifyDestroyed" /\ fs[k].h = h)
    BY <1>7, <1>13, <2>1
  <2>3. IsCurrent(a, h)' /\ entities'[a].deleting /\ nextToken' > 0
    BY <1>1, <1>5, <1>6, <1>14 DEF SameEntry, IsCurrent
  <2>4. FrameFit(fs[k])'
    BY <2>1, <2>2, <2>3 DEF FrameFit, RecordOps, Telling
  <2> QED BY <2>2, <2>4
<1>19. RecordFit(a)'
  <2>1. RecordFit(a) /\ SameEntry(a)
    BY <1>3, <1>4, <1>14 DEF RecordsFit
  <2>2. /\ live' = live /\ used' = used /\ nextToken' = nextToken /\ purging' = purging
    BY <1>1 DEF modes
  <2>3. live[a] = entities[a].handle
    BY <1>4, <2>1 DEF RecordFit
  <2>4. On("erase", a)'
    <3>1. n + 1 \in 1..m
      BY <1>9
    <3>2. n + 1 \in 1..Len(t) /\ t[n + 1].op = "erase" /\ t[n + 1].a = a
      BY <1>11, <1>12, <3>1
    <3> QED BY <1>8, <3>2 DEF On, Has
  <2>5. Running("cleanup")' /\ Top.a' = a
    <3>1. 1 \in 1..m
      BY <1>9
    <3>2. t # <<>> /\ Head(t) = t[1] /\ t[1].op = "cleanup" /\ t[1].a = a
      BY <1>11, <1>12, <3>1
    <3> QED BY <1>8, <3>2 DEF Running, Top
  <2>6. On("cleanedUp", a) => On("cleanedUp", a)'
    <3> SUFFICES ASSUME On("cleanedUp", a) PROVE On("cleanedUp", a)'
      OBVIOUS
    <3>1. PICK i \in 1..Len(ctl) : ctl[i].op = "cleanedUp" /\ ctl[i].a = a
      BY DEF On, Has
    <3>2. i > 1
      BY <1>1, <1>6, <3>1
    <3>3. PICK k \in 1..Len(t) : t[k] = ctl[i]
      BY <1>10, <3>2 DEF Rests, Comes
    <3> QED BY <1>8, <3>1, <3>3 DEF On, Has
  <2> QED BY <1>14, <2>1, <2>2, <2>3, <2>4, <2>5, <2>6 DEF RecordFit, SameEntry
<1>20. Nested(ctl') /\ Single(ctl') /\ Len(fs) > 0
  BY <1>7, <1>8, <1>15, <1>16
<1> QED BY <1>1, <1>2, <1>4, <1>10, <1>14, <1>17, <1>18, <1>19, <1>20, RecordStepKeeps

\* What CleanupRuntime calls and comes to.
Ending(a, h, tells) == (IF tells THEN <<Do("removed", a, h)>> ELSE <<>>) \o <<Do("cleanedUp", a, h)>>

\* ... one by one.
LEMMA CleanupIs ==
  ASSUME NEW a \in Addresses, NEW h \in 0..MaxHandles, NEW tells \in BOOLEAN
  PROVE  \E fs \in Seq(Frame), m \in {1, 2} :
           /\ fs = Ending(a, h, tells)
           /\ Len(fs) = m /\ fs[m].op = "cleanedUp"
           /\ m = 2 => tells /\ fs[1].op = "removed"
           /\ \A k \in 1..m : fs[k].a = a /\ fs[k].h = h /\ fs[k].t = 0
<1>0. a \in Addresses \cup {None} /\ "removed" \in Ops /\ "cleanedUp" \in Ops
  BY DEF Ops, Callbacks
<1>1. PICK x \in Frame : /\ x = Do("removed", a, h) /\ x.op = "removed" /\ x.a = a
                         /\ x.h = h /\ x.t = 0
  BY <1>0, DoFrame
<1>2. PICK y \in Frame : /\ y = Do("cleanedUp", a, h) /\ y.op = "cleanedUp" /\ y.a = a
                         /\ y.h = h /\ y.t = 0
  BY <1>0, DoFrame
<1>3. PICK c \in Seq(Frame), d \in Seq(Frame) :
        c = <<x>> /\ d = <<y>> /\ Len(c) = 1 /\ Len(d) = 1 /\ c[1] = x /\ d[1] = y
  <2>1. /\ <<x>> \in Seq(Frame) /\ Len(<<x>>) = 1 /\ <<x>>[1] = x
        /\ <<y>> \in Seq(Frame) /\ Len(<<y>>) = 1 /\ <<y>>[1] = y
    BY FewFrames
  <2> QED BY <2>1
<1>4. c \o d \in Seq(Frame) /\ Len(c \o d) = 2 /\ (c \o d)[1] = x /\ (c \o d)[2] = y /\ <<>> \o d = d
  BY <1>3
<1>5. CASE tells
  <2>1. PICK fs \in Seq(Frame) : fs = c \o d /\ Len(fs) = 2 /\ fs[1] = x /\ fs[2] = y
    BY <1>4
  <2>2. PICK m \in {1, 2} : m = 2
    OBVIOUS
  <2>3. \A k \in 1..m : k = 1 \/ k = 2
    BY <2>2
  <2>4. /\ fs = Ending(a, h, tells)
        /\ Len(fs) = m /\ fs[m].op = "cleanedUp"
        /\ m = 2 => tells /\ fs[1].op = "removed"
        /\ \A k \in 1..m : fs[k].a = a /\ fs[k].h = h /\ fs[k].t = 0
    BY <1>1, <1>2, <1>3, <1>5, <2>1, <2>2, <2>3 DEF Ending
  <2> QED BY <2>4
<1>6. CASE ~tells
  <2>1. PICK fs \in Seq(Frame) : fs = <<>> \o d /\ Len(fs) = 1 /\ fs[1] = y
    BY <1>3, <1>4
  <2>2. PICK m \in {1, 2} : m = 1
    OBVIOUS
  <2>3. m # 2 /\ \A k \in 1..m : k = 1
    BY <2>2
  <2>4. /\ fs = Ending(a, h, tells)
        /\ Len(fs) = m /\ fs[m].op = "cleanedUp"
        /\ m = 2 => tells /\ fs[1].op = "removed"
        /\ \A k \in 1..m : fs[k].a = a /\ fs[k].h = h /\ fs[k].t = 0
    BY <1>2, <1>3, <1>6, <2>1, <2>2, <2>3 DEF Ending
  <2> QED BY <2>4
<1> QED BY <1>5, <1>6

\* CleanupRuntime of an entity whose record has its runtime.
LEMMA CleanupNow ==
  ASSUME CoreInv, CleanupRuntime, Tracked(Top.a), ~entities[Top.a].removeNotified
  PROVE  CoreInv'
<1> DEFINE says == entities[Top.a].runtime /\ entities[Top.a].postConstructed
<1>1. /\ ctl # <<>> /\ Top.op = "cleanup"
      /\ UNCHANGED <<live, used, tokens, nextToken, order, sidecars, modes>>
      /\ entities' = [entities EXCEPT ![Top.a].removeNotified = TRUE]
      /\ ctl' = ((IF says THEN <<Do("removed", Top.a, entities[Top.a].handle)>> ELSE <<>>)
                   \o <<Do("cleanedUp", Top.a, entities[Top.a].handle)>>) \o Tail(ctl)
  BY DEF CleanupRuntime, Running, Becomes, engine
<1>2. TypeOK' /\ TypeOK /\ TopFit
  BY <1>1, TopIs, CleanupRuntimeTyped DEF CoreInv
<1>3. /\ Nested(ctl) /\ Single(ctl) /\ FramesFit /\ Freed /\ Purges /\ RecordsFit
  BY DEF CoreInv, StackInv, RecordInv
<1>4. PICK a \in Addresses : a = Top.a /\ Tracked(a) /\ ~entities[a].removeNotified
  BY <1>1, <1>2 DEF TopFit, OfEntity, Ops
<1>5. PICK h \in 0..MaxHandles : h = entities[a].handle
  <2>1. entities[a].handle \in Handles
    BY <1>2, <1>4, RecordTyped
  <2> QED BY <2>1 DEF Handles
<1>6. /\ ctl \in Seq(Frame) /\ Len(ctl) \in Nat /\ Len(ctl) > 0 /\ Top = ctl[1] /\ 1 \in 1..Len(ctl)
      /\ NestedAt(ctl, 1) /\ nextToken > 0
  BY <1>1, TopIs
<1>7. PICK tl \in BOOLEAN : tl = says
  <2>1. entities[a] \in Record
    BY <1>2, <1>4, RecordTyped
  <2> QED BY <1>4, <2>1 DEF Record
<1>7a. tl => entities[a].runtime
  BY <1>4, <1>7
<1> HIDE DEF says
<1>8. PICK fs \in Seq(Frame), n \in {1, 2} :
           /\ fs = Ending(a, h, tl)
           /\ Len(fs) = n /\ fs[n].op = "cleanedUp"
           /\ n = 2 => tl /\ fs[1].op = "removed"
           /\ \A k \in 1..n : fs[k].a = a /\ fs[k].h = h /\ fs[k].t = 0
  BY CleanupIs
<1>9. PICK t \in Seq(Frame) : t = ctl'
  BY <1>2 DEF TypeOK
<1>10. PICK m \in Nat : m = n
  OBVIOUS
<1>11. ctl' = fs \o Tail(ctl) /\ Rests(ctl, t, m, 1) /\ \A k \in 1..m : t[k] = fs[k]
  <2>1. Rests(ctl, fs \o Tail(ctl), Len(fs), 1) /\ \A k \in 1..Len(fs) : (fs \o Tail(ctl))[k] = fs[k]
    BY <1>6, BecomesRests
  <2>2. ctl' = fs \o Tail(ctl)
    BY <1>1, <1>4, <1>5, <1>7, <1>8 DEF Ending, says
  <2> QED BY <1>8, <1>9, <1>10, <2>1, <2>2
<1>12. Len(t) \in Nat /\ m <= Len(t) /\ (\A k \in 1..m : k \in 1..Len(t)) /\ m \in 1..m /\ 1 \in 1..m
  BY <1>10, <1>11 DEF Rests
<1>13. /\ t[m].op = "cleanedUp" /\ (m = 2 => t[1].op = "removed")
       /\ \A k \in 1..m : t[k].a = a /\ t[k].h = h /\ t[k].t = 0
  BY <1>8, <1>10, <1>11, <1>12
<1>14. \A k \in 1..m : k = m \/ (m = 2 /\ k = 1)
  BY <1>10
<1>15. /\ \A b \in Addresses : SameEntry(b) /\ (b # a => SameCore(b))
       /\ entities'[a].runtime = entities[a].runtime /\ Tracked(a)'
       /\ entities'[a].removeNotified /\ entities'[a].deleting = entities[a].deleting
  BY <1>1, <1>2, <1>4, MarkedEntry
<1>16. Nested(t)
  <2>1. NestedAt(t, m)
    <3>0. /\ 1 + 1 \in 1..Len(ctl) <=> m + 1 \in 1..Len(t)
          /\ 1 + 1 \in 1..Len(ctl) => t[m + 1] = ctl[1 + 1]
          /\ (1 + 1) + 1 \in 1..Len(ctl) <=> (m + 1) + 1 \in 1..Len(t)
          /\ (1 + 1) + 1 \in 1..Len(ctl) => t[(m + 1) + 1] = ctl[(1 + 1) + 1]
      BY <1>6, <1>11, UnderTop
    <3>1. \/ Below(ctl, 1, {"deleted"}) /\ Below(ctl, 1 + 1, {"freeMemory"})
          \/ Below(ctl, 1, {"notifyDestroyed", "erase"})
      BY <1>1, <1>6 DEF NestedAt
    <3>2. t[m].a = ctl[1].a
      BY <1>4, <1>6, <1>12, <1>13
    <3>3. \/ Below(t, m, {"deleted"}) /\ Below(t, m + 1, {"freeMemory"})
          \/ Below(t, m, {"notifyDestroyed", "erase"})
      <4>1. CASE Below(ctl, 1, {"deleted"}) /\ Below(ctl, 1 + 1, {"freeMemory"})
        BY <3>0, <3>2, <4>1 DEF Below
      <4>2. CASE Below(ctl, 1, {"notifyDestroyed", "erase"})
        BY <3>0, <3>2, <4>2 DEF Below
      <4> QED BY <3>1, <4>1, <4>2
    <3>4. ~BelowIs(t, m, "stop")
      BY <3>3 DEF Below, BelowIs
    <3> QED BY <1>13, <3>3, <3>4 DEF NestedAt, Telling
  <2>2. ASSUME m = 2 PROVE NestedAt(t, 1)
    <3>1. 1 + 1 = m /\ 1 + 1 \in 1..Len(t)
      BY <1>12, <2>2
    <3>2. t[1 + 1].op = "cleanedUp" /\ t[1 + 1].a = t[1].a /\ t[1 + 1].h = t[1].h
      BY <1>12, <1>13, <3>1
    <3>3. BelowSame(t, 1, {"cleanedUp"}) /\ ~BelowIs(t, 1, "stop")
      BY <3>1, <3>2 DEF BelowSame, Below, BelowIs
    <3> QED BY <1>13, <2>2, <3>3 DEF NestedAt, Telling
  <2>3. \A k \in 1..m : NestedAt(t, k)
    BY <1>14, <2>1, <2>2
  <2>4. PICK p \in {0, 1} : p = 1
    OBVIOUS
  <2>5. Rests(ctl, t, m, p) /\ (p = 0 /\ Len(ctl) > 0 => ctl[1].op # "attach")
    BY <1>11, <2>4
  <2> QED BY <1>3, <1>6, <2>3, <2>5, NestedKept
<1>17. Single(t)
  <2>1. \A i \in 1..Len(ctl) : ~(ctl[i].op = "cleanedUp" /\ ctl[i].a = a)
    BY <1>3, <1>4 DEF FramesFit, Place, FrameFit
  <2>2. \A k \in 1..m : t[k].op \in Unique => k = m
    BY <1>13, <1>14 DEF Unique
  <2>3. \A j, k \in 1..m : t[j].op \in Unique /\ Alike(t[j], t[k]) => j = k
    BY <2>2 DEF Alike
  <2>4. PICK p \in {0, 1} : p = 1
    OBVIOUS
  <2>5. \A k \in 1..m, i \in 1..Len(ctl) : i > p /\ t[k].op \in Unique => ~Alike(t[k], ctl[i])
    BY <1>13, <2>1, <2>2 DEF Alike
  <2>6. Rests(ctl, t, m, p) /\ Single(ctl) /\ ctl \in Seq(Frame) /\ t \in Seq(Frame) /\ m \in Nat /\ p \in {0, 1}
    BY <1>3, <1>6, <1>11, <2>4
  <2> QED BY ONLY <2>3, <2>5, <2>6, SingleKept, SMTT(30)
<1>18. Freed'
  <2>1. \A b \in Addresses : Tracked(b)' => Tracked(b) /\ (entities[b].deleting => entities'[b].deleting)
    BY <1>15 DEF SameEntry, SameCore
  <2>2. PICK p \in {0, 1} : p = 1
    OBVIOUS
  <2>3. Rests(ctl, ctl', m, p) /\ purging' = purging
    BY <1>1, <1>9, <1>11, <2>2 DEF modes
  <2>4. \A k \in 1..m : ctl'[k].op # "freeMemory"
    BY <1>9, <1>13, <1>14
  <2>5. p = 1 => ctl # <<>> /\ Top.op \notin {"deleted", "erase"}
    BY <1>1
  <2> QED BY <1>2, <1>3, <2>1, <2>3, <2>4, <2>5, FreedStays
<1>19. \A k \in 1..Len(fs) : fs[k].op \notin {"attach", "purged", "stop"} /\ FrameFit(fs[k])'
  <2> SUFFICES ASSUME NEW k \in 1..Len(fs) PROVE fs[k].op \notin {"attach", "purged", "stop"} /\ FrameFit(fs[k])'
    OBVIOUS
  <2>1. k \in 1..m /\ fs[k].a = a /\ fs[k].h = h /\ fs[k].t = 0
    BY <1>8, <1>10
  <2>2. fs[k].op = "cleanedUp" \/ (fs[k].op = "removed" /\ tl)
    BY <1>8, <1>10, <1>14, <2>1
  <2>3. IsCurrent(a, h)' /\ entities'[a].removeNotified /\ nextToken' > 0 /\ (tl => entities'[a].runtime)
    BY <1>1, <1>5, <1>6, <1>7a, <1>15 DEF SameEntry, IsCurrent
  <2>4. FrameFit(fs[k])'
    BY <2>1, <2>2, <2>3 DEF FrameFit, RecordOps, Telling
  <2> QED BY <2>2, <2>4
<1>20. RecordFit(a)'
  <2>1. RecordFit(a) /\ SameEntry(a)
    BY <1>3, <1>4, <1>15 DEF RecordsFit
  <2>2. /\ live' = live /\ used' = used /\ nextToken' = nextToken /\ purging' = purging
    BY <1>1 DEF modes
  <2>3. On("cleanedUp", a)'
    <3>1. m \in 1..Len(t) /\ t[m].op = "cleanedUp" /\ t[m].a = a
      BY <1>12, <1>13
    <3> QED BY <1>9, <3>1 DEF On, Has
  <2>4. ASSUME NEW i \in 1..Len(ctl), ctl[i].op # "cleanup" PROVE \E k \in 1..Len(t) : t[k] = ctl[i]
    <3>1. i > 1
      BY <1>1, <1>6, <2>4
    <3> QED BY <1>11, <3>1 DEF Rests, Comes
  <2>5. On("erase", a) => On("erase", a)'
    <3> SUFFICES ASSUME On("erase", a) PROVE On("erase", a)'
      OBVIOUS
    <3>1. PICK i \in 1..Len(ctl) : ctl[i].op = "erase" /\ ctl[i].a = a
      BY DEF On, Has
    <3>2. PICK k \in 1..Len(t) : t[k] = ctl[i]
      BY <2>4, <3>1
    <3> QED BY <1>9, <3>1, <3>2 DEF On, Has
  <2>6. Waits(a) => Waits(a)'
    <3>1. PICK p \in {0, 1} : p = 1
      OBVIOUS
    <3>2. Rests(ctl, ctl', m, p)
      BY <1>9, <1>11, <3>1
    <3>3. p = 1 => ctl # <<>> /\ Top.op \notin {"deleted", "purge"}
      BY <1>1
    <3> QED BY <1>2, <3>2, <3>3, WaitsKept
  <2> QED BY <1>15, <2>1, <2>2, <2>3, <2>5, <2>6 DEF RecordFit, SameEntry
<1>21. Nested(ctl') /\ Single(ctl') /\ Len(fs) > 0
  BY <1>8, <1>9, <1>16, <1>17
<1> QED BY <1>1, <1>2, <1>4, <1>11, <1>15, <1>18, <1>19, <1>20, <1>21, RecordStepKeeps

-----------------------------------------------------------------------------
(*****************************************************************************)
(* Calls that return: the release of a sidecar, the end of a record and of   *)
(* a purge.                                                                  *)
(*****************************************************************************)

\* When the innermost call returns the others are there, in the same order.
LEMMA Popped ==
  ASSUME CoreInv, TypeOK', ctl # <<>>, ctl' = <<>> \o Tail(ctl)
  PROVE  /\ Nested(ctl') /\ Single(ctl') /\ AttachFit'
         /\ ctl' \in Seq(Frame) /\ Len(ctl) \in Nat /\ Len(ctl) > 0 /\ Len(ctl') = Len(ctl) - 1
         /\ \A k \in 1..Len(ctl') : k + 1 \in 1..Len(ctl) /\ ctl'[k] = ctl[k + 1]
         /\ \A k \in 1..Len(ctl) : k # 1 => k - 1 \in 1..Len(ctl') /\ ctl'[k - 1] = ctl[k]
<1>1. /\ TypeOK /\ Nested(ctl) /\ Single(ctl)
  BY DEF CoreInv, StackInv
<1>2. ctl \in Seq(Frame) /\ ctl' \in Seq(Frame) /\ Len(ctl) \in Nat /\ Len(ctl) > 0
  BY <1>1, TopIs DEF TypeOK
<1>3. ctl' = Tail(ctl)
  BY <1>2
<1>4. /\ Len(ctl') = Len(ctl) - 1
      /\ \A k \in 1..Len(ctl') : k + 1 \in 1..Len(ctl) /\ ctl'[k] = ctl[k + 1]
      /\ \A k \in 1..Len(ctl) : k # 1 => k - 1 \in 1..Len(ctl') /\ ctl'[k - 1] = ctl[k]
  BY <1>2, <1>3
<1>5. PICK fs \in Seq(Frame) : fs = <<>> /\ Len(fs) = 0
  <2>1. <<>> \in Seq(Frame) /\ Len(<<>>) = 0
    OBVIOUS
  <2> QED BY <2>1
<1>6. PICK m \in Nat : m = 0
  OBVIOUS
<1>7. PICK p \in {0, 1} : p = 1
  OBVIOUS
<1>8. PICK t \in Seq(Frame) : t = ctl'
  BY <1>2
<1>9. Rests(ctl, t, m, p)
  <2>1. Rests(ctl, fs \o Tail(ctl), Len(fs), 1)
    BY <1>2, BecomesRests
  <2>2. t = fs \o Tail(ctl)
    BY <1>5, <1>8
  <2> QED BY <1>5, <1>6, <1>7, <2>1, <2>2
<1>10. \A k : k \notin 1..m
  BY <1>6
<1>11. Nested(t)
  <2>1. \A k \in 1..m : NestedAt(t, k)
    BY <1>10
  <2>2. p = 0 /\ Len(ctl) > 0 => ctl[1].op # "attach"
    BY <1>7
  <2> QED BY <1>1, <1>2, <1>9, <2>1, <2>2, NestedKept
<1>12. Single(t)
  <2>1. \A k \in 1..m : t[k].op \notin Unique
    BY <1>10
  <2> QED BY <1>1, <1>2, <1>9, <2>1, SingleSame
<1>13. AttachFit'
  <2> SUFFICES ASSUME Running("attach")' PROVE FALSE
    BY DEF AttachFit
  <2>1. 1 \in 1..Len(ctl') /\ ctl'[1].op = "attach"
    BY <1>2 DEF Running, Top
  <2>2. 1 + 1 \in 1..Len(ctl) /\ ctl[1 + 1].op = "attach"
    BY <1>4, <2>1
  <2>3. NestedAt(ctl, 1 + 1)
    BY <1>1, <2>2 DEF Nested
  <2> QED BY <2>2, <2>3 DEF NestedAt
<1> QED BY <1>2, <1>4, <1>8, <1>11, <1>12, <1>13

\* A call but the innermost is still there.
LEMMA StillOn ==
  ASSUME CoreInv, TypeOK', ctl # <<>>, ctl' = <<>> \o Tail(ctl), NEW op, NEW a
  PROVE  /\ On(op, a) /\ ~(Top.op = op /\ Top.a = a) => On(op, a)'
         /\ On(op, a)' => On(op, a)
<1>1. Top = ctl[1]
  BY TopIs
<1>2. PICK t : t = ctl'
  OBVIOUS
<1>3. /\ \A k \in 1..Len(t) : k + 1 \in 1..Len(ctl) /\ t[k] = ctl[k + 1]
      /\ \A k \in 1..Len(ctl) : k # 1 => k - 1 \in 1..Len(t) /\ t[k - 1] = ctl[k]
  BY <1>2, Popped
<1>4. Has(ctl, op, a) /\ ~(Top.op = op /\ Top.a = a) => Has(t, op, a)
  BY <1>1, <1>3 DEF Has
<1>5. Has(t, op, a) => Has(ctl, op, a)
  BY <1>3 DEF Has
<1> QED BY <1>2, <1>4, <1>5 DEF On

\* Memory is freed as before when a call returns that drops no record.
LEMMA PoppedFreed ==
  ASSUME CoreInv, TypeOK', ctl # <<>>, ctl' = <<>> \o Tail(ctl), purging' = purging,
         \A a \in Addresses : Tracked(a)' => Tracked(a) /\ (entities[a].deleting => entities'[a].deleting),
         Top.op \in {"deleted", "erase"} => entities'[Top.a] = NoRecord
  PROVE  Freed'
<1>1. FramesFit /\ Freed
  BY DEF CoreInv, StackInv
<1> SUFFICES ASSUME NEW k \in 1..Len(ctl'), ctl'[k].op = "freeMemory", Tracked(ctl[k].a)' PROVE FreedAt(k)'
  BY DEF Freed, FreedAt, Place
<1>2. /\ Len(ctl) \in Nat /\ Len(ctl') = Len(ctl) - 1 /\ Top = ctl[1]
      /\ \A l \in 1..Len(ctl') : l + 1 \in 1..Len(ctl) /\ ctl'[l] = ctl[l + 1]
  BY Popped, TopIs
<1>3. PICK i \in 1..Len(ctl) : i = k + 1 /\ ctl'[k] = ctl[i]
  BY <1>2
<1>4. PICK a : a = ctl[i].a /\ a = ctl'[k].a
  BY <1>3
<1>5. a \in Addresses /\ ctl[i].op = "freeMemory"
  BY <1>1, <1>3, <1>4 DEF FramesFit, FrameFit, Place, OfEntity, Ops
<1>6. Tracked(a)' /\ Tracked(a) /\ (entities[a].deleting => entities'[a].deleting)
  BY <1>4, <1>5 DEF Tracked
<1>7. \/ i > 1 /\ ctl[i - 1].op \in {"deleted", "erase"} /\ ctl[i - 1].a = a
      \/ purging /\ entities[a].deleting
  BY <1>1, <1>4, <1>5, <1>6 DEF Freed, FreedAt, Place
<1>8. CASE purging /\ entities[a].deleting
  <2>1. purging' /\ entities'[a].deleting
    BY <1>6, <1>8
  <2> QED BY <1>4, <2>1 DEF FreedAt
<1>9. CASE i > 1 /\ ctl[i - 1].op \in {"deleted", "erase"} /\ ctl[i - 1].a = a
  <2>1. k > 1 /\ k - 1 \in 1..Len(ctl') /\ (k - 1) + 1 = i - 1
    <3>1. i # 2
      <4> SUFFICES ASSUME i = 2 PROVE FALSE
        OBVIOUS
      <4>1. Top.op \in {"deleted", "erase"} /\ Top.a = a
        BY <1>2, <1>9
      <4> QED BY <1>6, <4>1 DEF Tracked
    <3> QED BY <1>2, <1>3, <1>9, <3>1
  <2>2. ctl'[k - 1] = ctl[i - 1]
    BY <1>2, <2>1
  <2> QED BY <1>4, <1>9, <2>1, <2>2 DEF FreedAt
<1> QED BY <1>7, <1>8, <1>9

\* A record that has given its runtime, its slot and its sidecar back.
LEMMA CleanedEntry ==
  ASSUME TypeOK, NEW a \in Addresses, Tracked(a),
         entities' = [entities EXCEPT ![a].slotted = FALSE, ![a].runtime = FALSE, ![a].sidecar = None]
  PROVE  /\ \A b \in Addresses : b # a => entities'[b] = entities[b]
         /\ \A b \in Addresses : Tracked(b)' <=> Tracked(b)
         /\ entities'[a].handle = entities[a].handle /\ entities'[a].index = entities[a].index
         /\ entities'[a].token = entities[a].token /\ entities'[a].deleting = entities[a].deleting
         /\ entities'[a].removeNotified = entities[a].removeNotified
         /\ entities'[a].postConstructed = entities[a].postConstructed
         /\ entities'[a].createdNotified = entities[a].createdNotified
         /\ ~entities'[a].slotted /\ ~entities'[a].runtime /\ entities'[a].sidecar = None
<1>1. entities \in [Addresses -> Record \cup {NoRecord}] /\ entities[a] \in Record
  BY RecordTyped DEF TypeOK
<1>2. \A b \in Addresses : b # a => entities'[b] = entities[b]
  BY <1>1
<1>3. PICK r : r = entities'[a]
  OBVIOUS
<1>4. r = [entities[a] EXCEPT !.slotted = FALSE, !.runtime = FALSE, !.sidecar = None]
  BY <1>1, <1>3
<1>5. r \in Record
  BY <1>1, <1>4, Marked
<1>6. \A x \in Record : x # NoRecord
  <2>1. \A x \in Record : x.handle # None
    BY DEF Record, Handles, None
  <2> QED BY <2>1 DEF NoRecord
<1>7. /\ r.handle = entities[a].handle /\ r.index = entities[a].index
      /\ r.token = entities[a].token /\ r.deleting = entities[a].deleting
      /\ r.removeNotified = entities[a].removeNotified
      /\ r.postConstructed = entities[a].postConstructed
      /\ r.createdNotified = entities[a].createdNotified
      /\ r.slotted = FALSE /\ r.runtime = FALSE /\ r.sidecar = None
  BY <1>1, <1>4 DEF Record
<1>8. \A b \in Addresses : Tracked(b)' <=> Tracked(b)
  BY <1>2, <1>3, <1>5, <1>6 DEF Tracked
<1> QED BY <1>2, <1>3, <1>7, <1>8

\* The sidecar of a record goes to the pool.
LEMMA SidecarReleased ==
  ASSUME TypeOK, Pooled, NEW a \in Addresses, Tracked(a),
         \A b \in Addresses : b # a => entities'[b] = entities[b],
         \A b \in Addresses : Tracked(b)' <=> Tracked(b),
         entities'[a].sidecar = None, entities[a].runtime <=> entities[a].sidecar # None,
         blocks' = blocks, free' = Released(a)
  PROVE  Pooled'
<1>1. free \in Seq(1..MaxHandles) /\ Len(free) \in Nat
  BY DEF TypeOK
<1>2. CASE ~entities[a].runtime
  <2>1. free' = free /\ entities[a].sidecar = None
    BY <1>2 DEF Released
  <2>2. Owned' = Owned /\ \A b \in Owned : entities'[b].sidecar = entities[b].sidecar
    BY <2>1 DEF Owned
  <2> QED BY <2>1, <2>2 DEF Pooled
<1>3. CASE entities[a].runtime
  <2>1. PICK c : c = entities[a].sidecar /\ c # None
    BY <1>3
  <2>2. free' = Append(free, c) /\ c \in 1..MaxHandles
    <3>1. entities[a].sidecar \in 0..MaxHandles
      BY RecordTyped
    <3> QED BY <1>3, <2>1, <3>1, ConstantsOK DEF Released, None
  <2>3. PICK f : f = Append(free, c) /\ f = free'
    BY <2>2
  <2>4. Len(f) = Len(free) + 1 /\ f[Len(free) + 1] = c /\ \A k \in 1..Len(free) : f[k] = free[k]
    BY <1>1, <2>2, <2>3
  <2>5. PICK O : O = Owned /\ a \in O
    <3>1. a \in Owned
      BY <2>1 DEF Owned
    <3> QED BY <3>1
  <2>6. Owned' = O \ {a} /\ \A b \in O \ {a} : entities'[b].sidecar = entities[b].sidecar
    BY <2>5 DEF Owned
  <2>7. /\ IsFiniteSet(O) /\ Cardinality(O) + Len(free) = blocks
        /\ \A b \in Nat : b \in 1..blocks <=> \/ \E x \in O : entities[x].sidecar = b
                                              \/ \E k \in 1..Len(free) : free[k] = b
    BY <2>5 DEF Pooled
  <2>8. IsFiniteSet(O \ {a}) /\ Cardinality(O \ {a}) = Cardinality(O) - 1 /\ Cardinality(O) \in Nat
    BY <2>5, <2>7, FS_RemoveElement, FS_CardinalityType
  <2>9. Cardinality(O \ {a}) + Len(f) = blocks
    BY <1>1, <2>4, <2>7, <2>8
  <2>10. ASSUME NEW b \in Nat
         PROVE  b \in 1..blocks <=> \/ \E x \in O \ {a} : entities'[x].sidecar = b
                                    \/ \E k \in 1..Len(f) : f[k] = b
    <3>1. (\E k \in 1..Len(f) : f[k] = b) <=> (b = c \/ \E k \in 1..Len(free) : free[k] = b)
      <4>1. Len(free) + 1 \in 1..Len(f) /\ \A k \in 1..Len(f) : k \in 1..Len(free) \/ k = Len(free) + 1
        BY <1>1, <2>4
      <4>2. \A k \in 1..Len(free) : k \in 1..Len(f)
        BY <1>1, <2>4
      <4> QED BY <2>4, <4>1, <4>2
    <3>2. (\E x \in O : entities[x].sidecar = b) <=> (b = c \/ \E x \in O \ {a} : entities'[x].sidecar = b)
      BY <2>1, <2>5, <2>6
    <3> QED BY <2>7, <3>1, <3>2
  <2> QED BY <2>3, <2>6, <2>8, <2>9, <2>10, SMTT(30) DEF Pooled
<1> QED BY <1>2, <1>3

\* The slot of a record is empty when the record is cleaned up.
LEMMA SlotGone ==
  ASSUME TypeOK, SlotsFit, NEW a \in Addresses, Tracked(a),
         \A b \in Addresses : b # a => entities'[b] = entities[b],
         \A b \in Addresses : Tracked(b)' <=> Tracked(b),
         live' = live, used' = used, slots' = SlotsCleared(a)
  PROVE  SlotsFit'
<1> SUFFICES ASSUME NEW i \in Indexes PROVE SlotFit(i)'
  BY DEF SlotsFit
<1>1. slots \in [Indexes -> Slot] /\ SlotFit(i)
  BY DEF TypeOK, Slot, SlotsFit
<1>2. slots'[i] = NoSlot \/ slots'[i] = slots[i]
  BY <1>1 DEF SlotsCleared
<1>3. CASE slots'[i] = NoSlot
  <2>1. 0 <= used'
    BY DEF TypeOK
  <2> QED BY <1>3, <2>1 DEF SlotFit, NoSlot, None
<1>4. CASE slots'[i] = slots[i] /\ slots[i].a # a
  <2>1. slots[i].a \in Addresses \cup {None}
    BY <1>1 DEF Slot
  <2> QED BY <1>1, <1>4, <2>1 DEF SlotFit, IsCurrent, Tracked
<1>5. CASE slots'[i] = slots[i] /\ slots[i].a = a /\ slots'[i] # NoSlot
  <2>1. ~(slots[i].h # None /\ live[a] = slots[i].h)
    <3> SUFFICES ASSUME slots[i].h # None /\ live[a] = slots[i].h PROVE FALSE
      OBVIOUS
    <3>1. a # None
      BY ConstantsOK
    <3>2. /\ entities[a].handle = slots[i].h /\ entities[a].slotted /\ entities[a].index = i
      BY <1>1, <1>5, <3>1 DEF SlotFit, IsCurrent
    <3>3. slots' = [slots EXCEPT ![i] = NoSlot]
      BY <1>5, <3>2 DEF SlotsCleared
    <3> QED BY <1>1, <1>5, <3>3
  <2> QED BY <1>1, <1>5, <2>1 DEF SlotFit
<1> QED BY <1>2, <1>3, <1>4, <1>5

\* CleanupRuntime after the callback.
LEMMA CleanedUpKeeps ==
  ASSUME CoreInv, CleanedUp
  PROVE  CoreInv'
<1>1. /\ ctl # <<>> /\ Top.op = "cleanedUp" /\ ctl' = <<>> \o Tail(ctl)
      /\ UNCHANGED <<live, used, tokens, nextToken, order, blocks, modes>>
  BY DEF CleanedUp, Running, Becomes, engine
<1>2. /\ TypeOK /\ Bounded /\ Nested(ctl) /\ Single(ctl) /\ FramesFit /\ Freed /\ Purges
      /\ RecordsFit /\ HandlesFit /\ SlotsFit /\ Listed /\ Pooled
  BY DEF CoreInv, StackInv, RecordInv
<1>3. FrameFit(Top) /\ TopFit /\ Top = ctl[1] /\ 1 \in 1..Len(ctl)
  BY <1>1, TopIs
<1>4. PICK a \in Addresses : a = Top.a /\ Tracked(a) /\ IsCurrent(a, Top.h) /\ entities[a].removeNotified
  BY <1>1, <1>3 DEF FrameFit, IsCurrent, RecordOps, OfEntity, Ops
<1>5. RecordFit(a)
  BY <1>2, <1>4 DEF RecordsFit
<1>6. TypeOK'
  BY <1>2, <1>3, <1>4, <1>5, CleanedUpTyped DEF RecordFit
<1>7. /\ slots' = SlotsCleared(a) /\ free' = Released(a)
      /\ entities' = [entities EXCEPT ![a].slotted = FALSE, ![a].runtime = FALSE, ![a].sidecar = None]
  BY <1>4 DEF CleanedUp
<1>8. /\ \A b \in Addresses : b # a => entities'[b] = entities[b]
      /\ \A b \in Addresses : Tracked(b)' <=> Tracked(b)
      /\ entities'[a].handle = entities[a].handle /\ entities'[a].index = entities[a].index
      /\ entities'[a].token = entities[a].token /\ entities'[a].deleting = entities[a].deleting
      /\ entities'[a].removeNotified = entities[a].removeNotified
      /\ ~entities'[a].slotted /\ ~entities'[a].runtime /\ entities'[a].sidecar = None
  BY <1>2, <1>4, <1>7, CleanedEntry
<1>9. /\ live' = live /\ used' = used /\ tokens' = tokens /\ nextToken' = nextToken /\ order' = order
      /\ blocks' = blocks /\ purging' = purging /\ available' = available
  BY <1>1 DEF modes
<1>10. /\ Nested(ctl') /\ Single(ctl') /\ AttachFit'
       /\ ctl' \in Seq(Frame) /\ Len(ctl) \in Nat /\ Len(ctl) > 0 /\ Len(ctl') = Len(ctl) - 1
       /\ \A k \in 1..Len(ctl') : k + 1 \in 1..Len(ctl) /\ ctl'[k] = ctl[k + 1]
       /\ \A k \in 1..Len(ctl) : k # 1 => k - 1 \in 1..Len(ctl') /\ ctl'[k - 1] = ctl[k]
  BY <1>1, <1>6, Popped
<1>11. \A b \in Addresses : /\ entities'[b].handle = entities[b].handle /\ entities'[b].index = entities[b].index
                            /\ entities'[b].token = entities[b].token
                            /\ entities'[b].deleting = entities[b].deleting
                            /\ entities'[b].removeNotified = entities[b].removeNotified
  BY <1>8
<1>12. Bounded'
  BY <1>2, <1>9 DEF Bounded
<1>13. HandlesFit'
  BY <1>2, <1>8, <1>9, <1>11 DEF HandlesFit
<1>14. SlotsFit'
  BY <1>2, <1>4, <1>7, <1>8, <1>9, SlotGone
<1>15. Pooled'
  BY <1>2, <1>4, <1>5, <1>7, <1>8, <1>9, SidecarReleased DEF RecordFit
<1>16. Listed'
  <2>1. order \in Seq(Addresses) /\ tokens \in [Handles -> Addresses \cup {None}]
    BY <1>2 DEF TypeOK
  <2>2. \A k \in 1..Len(order) : order[k] \in Addresses
    BY <2>1
  <2> QED BY <1>2, <1>8, <1>9, <1>11, <2>1, <2>2 DEF Listed, Tracked
<1>17. FramesFit'
  <2> SUFFICES ASSUME NEW k \in 1..Len(ctl') PROVE FrameFit(ctl[k])'
    BY DEF FramesFit, Place
  <2>1. PICK i \in 1..Len(ctl) : i = k + 1 /\ ctl'[k] = ctl[i]
    BY <1>10
  <2>2. PICK fr \in Frame : fr = ctl'[k] /\ fr = ctl[i]
    BY <1>10, <2>1
  <2>3. FrameFit(fr)
    BY <1>2, <2>2 DEF FramesFit, Place
  <2>4. fr.op \in RecordOps \cup {"return"} => fr.a \in Addresses
    BY <2>3 DEF FrameFit, RecordOps, Telling, OfEntity, Ops, Callbacks
  <2>5. ~(fr.op = "removed" /\ fr.a = a)
    <3> SUFFICES ASSUME fr.op = "removed", fr.a = a PROVE FALSE
      OBVIOUS
    <3>1. BelowSame(ctl, i, {"cleanedUp"})
      BY <1>2, <2>2 DEF Nested, NestedAt
    <3>2. i + 1 \in 1..Len(ctl) /\ ctl[i + 1].op = "cleanedUp" /\ ctl[i + 1].a = a
      BY <2>2, <3>1 DEF BelowSame, Below
    <3>3. i + 1 = 1
      BY <1>1, <1>2, <1>3, <1>4, <3>2 DEF Single, Alike, Unique
    <3> QED BY <3>3
  <2>6. "erase" \in RecordOps /\ "cleanedUp" \in RecordOps /\ "removed" \in RecordOps
    BY DEF RecordOps
  <2>7. FrameFit(fr)'
    BY <1>8, <1>9, <1>11, <2>3, <2>4, <2>5, <2>6 DEF FrameFit, IsCurrent
  <2> QED BY <2>2, <2>7
<1>18. Freed'
  <2>1. \A b \in Addresses : Tracked(b)' => Tracked(b) /\ (entities[b].deleting => entities'[b].deleting)
    BY <1>8, <1>11
  <2> QED BY <1>1, <1>6, <1>9, <2>1, PoppedFreed
<1>19. Purges'
  <2>1. ASSUME NEW op \in {"purged", "stop"}
        PROVE  (\E k \in 1..Len(ctl') : ctl'[k].op = op) <=> (\E k \in 1..Len(ctl) : ctl[k].op = op)
    <3>1. ASSUME NEW k \in 1..Len(ctl'), ctl'[k].op = op PROVE \E j \in 1..Len(ctl) : ctl[j].op = op
      BY <1>10, <3>1
    <3>2. ASSUME NEW k \in 1..Len(ctl), ctl[k].op = op PROVE \E j \in 1..Len(ctl') : ctl'[j].op = op
      <4>1. k # 1
        BY <1>1, <1>3, <2>1, <3>2
      <4> QED BY <1>10, <3>2, <4>1
    <3> QED BY <3>1, <3>2
  <2> QED BY <1>2, <1>8, <1>9, <2>1 DEF Purges, Place
<1>20. RecordsFit'
  <2> SUFFICES ASSUME NEW b \in Addresses, Tracked(b)' PROVE RecordFit(b)'
    BY DEF RecordsFit
  <2>1. Tracked(b) /\ RecordFit(b)
    BY <1>2, <1>8 DEF RecordsFit
  <2>2. On("erase", b) => On("erase", b)'
    BY <1>1, <1>6, StillOn
  <2>3. b # a => (On("cleanedUp", b) => On("cleanedUp", b)')
    BY <1>1, <1>4, <1>6, StillOn
  <2>4. ~(entities[b].deleting /\ ~entities[b].removeNotified)
    BY <1>1, <2>1 DEF RecordFit, Running
  <2>5. Waits(b) => Waits(b)'
    BY <1>1, <1>2, PopWaits
  <2>6. CASE b = a
    BY <1>8, <1>9, <2>1, <2>2, <2>4, <2>5, <2>6 DEF RecordFit
  <2>7. CASE b # a
    BY <1>8, <1>9, <2>1, <2>2, <2>3, <2>4, <2>5, <2>7 DEF RecordFit
  <2> QED BY <2>6, <2>7
<1> QED BY <1>6, <1>10, <1>12, <1>13, <1>14, <1>15, <1>16, <1>17, <1>18, <1>19, <1>20 DEF CoreInv, StackInv, RecordInv

\* The registry without a record.
LEMMA Unlisted ==
  ASSUME TypeOK, Listed, NEW a \in Addresses, Tracked(a),
         order' = Remaining(order, a), tokens' = [tokens EXCEPT ![entities[a].token] = None],
         entities' = [entities EXCEPT ![a] = NoRecord]
  PROVE  Listed'
<1>1. order \in Seq(Addresses) /\ tokens \in [Handles -> Addresses \cup {None}]
      /\ entities \in [Addresses -> Record \cup {NoRecord}]
  BY DEF TypeOK
<1>2. /\ \A t \in Handles : tokens[t] # None => Tracked(tokens[t]) /\ entities[tokens[t]].token = t
      /\ \A b \in Addresses : Tracked(b) =>
           /\ tokens[entities[b].token] = b
           /\ \E k \in 1..Len(order) : order[k] = b
      /\ \A k \in 1..Len(order) : Tracked(order[k])
      /\ \A j, k \in 1..Len(order) : order[j] = order[k] => j = k
  BY DEF Listed
<1>3. PICK s : s = Remaining(order, a)
  OBVIOUS
<1>4. /\ s \in Seq(Addresses)
      /\ \A y : (\E k \in 1..Len(s) : s[k] = y) <=> y # a /\ \E k \in 1..Len(order) : order[k] = y
      /\ \A j, k \in 1..Len(s) : s[j] = s[k] => j = k
  <2>1. order \in Seq(Addresses)
    BY <1>1
  <2>2. /\ Remaining(order, a) \in Seq(Addresses)
        /\ \A y : (\E k \in 1..Len(Remaining(order, a)) : Remaining(order, a)[k] = y)
                     <=> y # a /\ \E k \in 1..Len(order) : order[k] = y
        /\ (\A j, k \in 1..Len(order) : order[j] = order[k] => j = k) =>
              \A j, k \in 1..Len(Remaining(order, a)) :
                Remaining(order, a)[j] = Remaining(order, a)[k] => j = k
    BY ONLY <2>1, RemainingIs, ZenonT(40)
  <2> QED BY <1>2, <1>3, <2>2
<1>5. /\ entities'[a] = NoRecord /\ \A b \in Addresses : b # a => entities'[b] = entities[b]
  BY <1>1
<1>6. /\ ~Tracked(a)' /\ \A b \in Addresses : Tracked(b)' <=> Tracked(b) /\ b # a
  BY <1>5 DEF Tracked
<1>7. entities[a].token \in Handles /\ tokens'[entities[a].token] = None
      /\ \A t \in Handles : t # entities[a].token => tokens'[t] = tokens[t]
  BY <1>1, RecordTyped
<1>8. ASSUME NEW t \in Handles, tokens'[t] # None PROVE tokens'[t] \in Addresses /\ tokens'[t] # a /\ tokens'[t] = tokens[t]
  <2>1. t # entities[a].token /\ tokens'[t] = tokens[t]
    BY <1>7, <1>8
  <2>2. tokens[t] \in Addresses
    BY <1>1, <1>8, <2>1
  <2>3. entities[tokens[t]].token = t
    BY <1>2, <1>8, <2>1
  <2> QED BY <2>1, <2>2, <2>3
<1>9. \A t \in Handles : tokens'[t] # None => entities'[tokens'[t]] # NoRecord /\ entities'[tokens'[t]].token = t
  BY <1>2, <1>5, <1>8 DEF Tracked
<1>10. \A b \in Addresses : Tracked(b)' => tokens'[entities'[b].token] = b /\ \E k \in 1..Len(s) : s[k] = b
  <2> SUFFICES ASSUME NEW b \in Addresses, Tracked(b)'
               PROVE  tokens'[entities'[b].token] = b /\ \E k \in 1..Len(s) : s[k] = b
    OBVIOUS
  <2>1. Tracked(b) /\ b # a /\ entities'[b] = entities[b]
    BY <1>5, <1>6
  <2>2. entities[b].token \in Handles /\ entities[b].token # entities[a].token
    BY <1>2, <2>1, RecordTyped
  <2>3. tokens'[entities'[b].token] = b
    BY <1>2, <1>7, <2>1, <2>2
  <2>4. \E k \in 1..Len(order) : order[k] = b
    BY <1>2, <2>1
  <2>5. \E k \in 1..Len(s) : s[k] = b
    BY <1>4, <2>1, <2>4
  <2> QED BY <2>3, <2>5
<1>11. \A k \in 1..Len(s) : entities'[s[k]] # NoRecord
  <2> SUFFICES ASSUME NEW k \in 1..Len(s) PROVE entities'[s[k]] # NoRecord
    OBVIOUS
  <2>1. s[k] \in Addresses
    BY <1>4
  <2>2. s[k] # a /\ \E j \in 1..Len(order) : order[j] = s[k]
    BY <1>4
  <2> QED BY <1>2, <1>5, <2>1, <2>2 DEF Tracked
<1>12. order' = s
  BY <1>3
<1>13. /\ \A k \in 1..Len(order') : entities'[order'[k]] # NoRecord
       /\ \A j, k \in 1..Len(order') : order'[j] = order'[k] => j = k
       /\ \A b \in Addresses : Tracked(b)' => \E k \in 1..Len(order') : order'[k] = b
  BY ONLY <1>4, <1>10, <1>11, <1>12
<1>14. \A b \in Addresses : Tracked(b)' => tokens'[entities'[b].token] = b
  BY <1>10
<1> QED BY ONLY <1>9, <1>13, <1>14 DEF Listed, Tracked

\* The record goes.
LEMMA EraseKeeps ==
  ASSUME CoreInv, Erase
  PROVE  CoreInv'
<1>1. /\ ctl # <<>> /\ Top.op = "erase" /\ ctl' = <<>> \o Tail(ctl)
      /\ UNCHANGED <<live, used, nextToken, sidecars, modes>>
  BY DEF Erase, Running, Becomes, engine
<1>2. /\ TypeOK /\ Bounded /\ Nested(ctl) /\ Single(ctl) /\ FramesFit /\ Freed /\ Purges
      /\ RecordsFit /\ HandlesFit /\ SlotsFit /\ Listed /\ Pooled
  BY DEF CoreInv, StackInv, RecordInv
<1>3. FrameFit(Top) /\ TopFit /\ Top = ctl[1] /\ 1 \in 1..Len(ctl) /\ Len(ctl) > 0 /\ ctl \in Seq(Frame)
  BY <1>1, TopIs
<1>4. PICK a \in Addresses : a = Top.a /\ Tracked(a) /\ IsCurrent(a, Top.h) /\ entities[a].deleting
  BY <1>1, <1>3 DEF FrameFit, IsCurrent, RecordOps, OfEntity, Ops
<1>5. RecordFit(a)
  BY <1>2, <1>4 DEF RecordsFit
<1>6. TypeOK'
  BY <1>2, <1>3, LastStepsTyped
<1>7. /\ order' = Remaining(order, a) /\ tokens' = [tokens EXCEPT ![entities[a].token] = None]
      /\ entities' = [entities EXCEPT ![a] = NoRecord]
  BY <1>4 DEF Erase, Without
<1>8. /\ entities'[a] = NoRecord /\ ~Tracked(a)'
      /\ \A b \in Addresses : b # a => entities'[b] = entities[b]
      /\ \A b \in Addresses : Tracked(b)' <=> Tracked(b) /\ b # a
  BY <1>2, <1>7 DEF TypeOK, Tracked
<1>9. /\ live' = live /\ used' = used /\ nextToken' = nextToken /\ slots' = slots /\ free' = free
      /\ blocks' = blocks /\ purging' = purging /\ available' = available
  BY <1>1 DEF modes, sidecars
<1>10. /\ Nested(ctl') /\ Single(ctl') /\ AttachFit'
       /\ ctl' \in Seq(Frame) /\ Len(ctl) \in Nat /\ Len(ctl) > 0 /\ Len(ctl') = Len(ctl) - 1
       /\ \A k \in 1..Len(ctl') : k + 1 \in 1..Len(ctl) /\ ctl'[k] = ctl[k + 1]
       /\ \A k \in 1..Len(ctl) : k # 1 => k - 1 \in 1..Len(ctl') /\ ctl'[k - 1] = ctl[k]
  BY <1>1, <1>6, Popped
<1>11. \A k \in 1..Len(ctl) : k # 1 /\ ctl[k].a = a => ctl[k].op \notin RecordOps \cup {"cleanup"}
  BY <1>1, <1>2, <1>3, <1>4, DroppedLast
<1>12. ~entities[a].runtime /\ entities[a].sidecar = None /\ ~entities[a].slotted
  <2>1. entities[a].removeNotified
    BY <1>1, <1>4, <1>5 DEF RecordFit, Running
  <2>2. ~On("cleanedUp", a)
    BY <1>1, <1>3, <1>11 DEF On, Has, RecordOps
  <2> QED BY <1>5, <2>1, <2>2 DEF RecordFit
<1>13. Bounded'
  BY <1>2, <1>9 DEF Bounded
<1>14. HandlesFit'
  BY <1>2, <1>8, <1>9 DEF HandlesFit
<1>15. SlotsFit'
  <2> SUFFICES ASSUME NEW i \in Indexes PROVE SlotFit(i)'
    BY DEF SlotsFit
  <2>1. SlotFit(i) /\ slots[i].a \in Addresses \cup {None}
    BY <1>2 DEF SlotsFit, TypeOK
  <2> QED BY <1>8, <1>9, <1>12, <2>1 DEF SlotFit, IsCurrent
<1>16. Listed'
  BY <1>2, <1>4, <1>7, Unlisted
<1>17. Pooled'
  <2>1. Owned' = Owned /\ \A b \in Owned : entities'[b].sidecar = entities[b].sidecar
    BY <1>8, <1>12 DEF Owned
  <2> QED BY <1>2, <1>9, <2>1 DEF Pooled
<1>18. FramesFit'
  <2> SUFFICES ASSUME NEW k \in 1..Len(ctl') PROVE FrameFit(ctl[k])'
    BY DEF FramesFit, Place
  <2>1. PICK i \in 1..Len(ctl) : i = k + 1 /\ ctl'[k] = ctl[i]
    BY <1>10
  <2>2. PICK fr \in Frame : fr = ctl'[k] /\ fr = ctl[i]
    BY <1>10, <2>1
  <2>3. FrameFit(fr)
    BY <1>2, <2>2 DEF FramesFit, Place
  <2>4. fr.op \in RecordOps \cup {"return"} => fr.a \in Addresses
    BY <2>3 DEF FrameFit, RecordOps, Telling, OfEntity, Ops, Callbacks
  <2>5. i # 1 /\ (fr.op \in RecordOps => fr.a # a)
    BY <1>11, <2>1, <2>2
  <2>6. "erase" \in RecordOps /\ "cleanedUp" \in RecordOps /\ "removed" \in RecordOps
    BY DEF RecordOps
  <2>7. FrameFit(fr)'
    BY <1>8, <1>9, <2>3, <2>4, <2>5, <2>6 DEF FrameFit, IsCurrent
  <2> QED BY <2>2, <2>7
<1>19. Freed'
  <2>1. \A b \in Addresses : Tracked(b)' => Tracked(b) /\ (entities[b].deleting => entities'[b].deleting)
    BY <1>8
  <2> QED BY <1>1, <1>4, <1>6, <1>8, <1>9, <2>1, PoppedFreed
<1>20. Purges'
  <2>1. ASSUME NEW op \in {"purged", "stop"}
        PROVE  (\E k \in 1..Len(ctl') : ctl'[k].op = op) <=> (\E k \in 1..Len(ctl) : ctl[k].op = op)
    <3>1. ASSUME NEW k \in 1..Len(ctl'), ctl'[k].op = op PROVE \E j \in 1..Len(ctl) : ctl[j].op = op
      BY <1>10, <3>1
    <3>2. ASSUME NEW k \in 1..Len(ctl), ctl[k].op = op PROVE \E j \in 1..Len(ctl') : ctl'[j].op = op
      <4>1. k # 1
        BY <1>1, <1>3, <2>1, <3>2
      <4> QED BY <1>10, <3>2, <4>1
    <3> QED BY <3>1, <3>2
  <2> QED BY <1>2, <1>8, <1>9, <2>1 DEF Purges, Place
<1>21. RecordsFit'
  <2> SUFFICES ASSUME NEW b \in Addresses, Tracked(b)' PROVE RecordFit(b)'
    BY DEF RecordsFit
  <2>1. Tracked(b) /\ RecordFit(b) /\ b # a
    BY <1>2, <1>8 DEF RecordsFit
  <2>2. On("erase", b) => On("erase", b)'
    BY <1>1, <1>4, <1>6, <2>1, StillOn
  <2>3. On("cleanedUp", b) => On("cleanedUp", b)'
    BY <1>1, <1>6, StillOn
  <2>4. ~(entities[b].deleting /\ ~entities[b].removeNotified)
    BY <1>1, <2>1 DEF RecordFit, Running
  <2>5. Waits(b) => Waits(b)'
    BY <1>1, <1>2, PopWaits
  <2> QED BY <1>8, <1>9, <2>1, <2>2, <2>3, <2>4, <2>5 DEF RecordFit
<1> QED BY <1>6, <1>10, <1>13, <1>14, <1>15, <1>16, <1>17, <1>18, <1>19, <1>20, <1>21 DEF CoreInv, StackInv, RecordInv

\* The memory of an entity is free.
LEMMA FreeMemoryKeeps ==
  ASSUME CoreInv, FreeMemory
  PROVE  CoreInv'
<1>1. /\ ctl # <<>> /\ Top.op = "freeMemory" /\ ctl' = <<>> \o Tail(ctl)
      /\ live' = [live EXCEPT ![Top.a] = None]
      /\ UNCHANGED <<used, registry, sidecars, modes>>
  BY DEF FreeMemory, Running, Becomes
<1>2. /\ TypeOK /\ Bounded /\ Nested(ctl) /\ Single(ctl) /\ FramesFit /\ Freed /\ Purges
      /\ RecordsFit /\ HandlesFit /\ SlotsFit /\ Listed /\ Pooled
  BY DEF CoreInv, StackInv, RecordInv
<1>3. FrameFit(Top) /\ TopFit /\ Top = ctl[1] /\ 1 \in 1..Len(ctl)
  BY <1>1, TopIs
<1>4. PICK a \in Addresses : a = Top.a
  BY <1>1, <1>3 DEF TopFit, OfEntity, Ops
<1>5. Tracked(a) => purging /\ entities[a].deleting
  BY <1>1, <1>2, <1>3, <1>4 DEF Freed, FreedAt, Place
<1>6. TypeOK'
  BY <1>2, <1>3, LastStepsTyped
<1>7. /\ entities' = entities /\ tokens' = tokens /\ order' = order
      /\ used' = used /\ nextToken' = nextToken /\ slots' = slots /\ free' = free
      /\ blocks' = blocks /\ purging' = purging /\ available' = available
      /\ live'[a] = None /\ \A b \in Addresses : b # a => live'[b] = live[b]
  BY <1>1, <1>2, <1>4 DEF modes, sidecars, registry, TypeOK
<1>8. \A b : Tracked(b)' <=> Tracked(b)
  BY <1>7 DEF Tracked
<1>10. /\ Nested(ctl') /\ Single(ctl') /\ AttachFit'
       /\ ctl' \in Seq(Frame) /\ Len(ctl) \in Nat /\ Len(ctl) > 0 /\ Len(ctl') = Len(ctl) - 1
       /\ \A k \in 1..Len(ctl') : k + 1 \in 1..Len(ctl) /\ ctl'[k] = ctl[k + 1]
       /\ \A k \in 1..Len(ctl) : k # 1 => k - 1 \in 1..Len(ctl') /\ ctl'[k - 1] = ctl[k]
  BY <1>1, <1>6, Popped
<1>11. Bounded' /\ Listed'
  BY <1>2, <1>7, <1>8 DEF Bounded, Listed, Tracked
<1>12. HandlesFit'
  <2>1. \A b \in Addresses : live'[b] <= used
    <3>1. \A b \in Addresses : live[b] <= used
      BY <1>2 DEF HandlesFit
    <3>2. None <= used
      BY <1>2, ConstantsOK DEF TypeOK, None
    <3> QED BY <1>7, <3>1, <3>2
  <2> QED BY <1>2, <1>7, <1>8, <2>1 DEF HandlesFit
<1>13. SlotsFit'
  <2> SUFFICES ASSUME NEW i \in Indexes PROVE SlotFit(i)'
    BY DEF SlotsFit
  <2>1. SlotFit(i) /\ slots[i].a \in Addresses \cup {None}
    BY <1>2 DEF SlotsFit, TypeOK
  <2> QED BY <1>7, <1>8, <2>1 DEF SlotFit, IsCurrent
<1>14. Pooled'
  <2>1. Owned' = Owned
    BY <1>7, <1>8 DEF Owned
  <2> QED BY <1>2, <1>7, <2>1 DEF Pooled
<1>15. FramesFit'
  <2> SUFFICES ASSUME NEW k \in 1..Len(ctl') PROVE FrameFit(ctl[k])'
    BY DEF FramesFit, Place
  <2>1. PICK i \in 1..Len(ctl) : i = k + 1 /\ ctl'[k] = ctl[i]
    BY <1>10
  <2>2. PICK fr \in Frame : fr = ctl'[k] /\ fr = ctl[i]
    BY <1>10, <2>1
  <2>3. FrameFit(fr)
    BY <1>2, <2>2 DEF FramesFit, Place
  <2>4. fr.op = "freeMemory" => fr.a \in Addresses /\ fr.a # a
    <3> SUFFICES ASSUME fr.op = "freeMemory" PROVE fr.a \in Addresses /\ fr.a # a
      OBVIOUS
    <3>1. fr.a \in Addresses
      BY <2>3 DEF FrameFit, OfEntity, Ops
    <3>2. i # 1
      BY <2>1
    <3> QED BY <1>1, <1>2, <1>3, <1>4, <2>2, <3>1, <3>2 DEF Single, Alike, Unique
  <2>5. FrameFit(fr)'
    BY <1>7, <1>8, <2>3, <2>4 DEF FrameFit, IsCurrent
  <2> QED BY <2>2, <2>5
<1>16. Freed'
  <2>1. \A b \in Addresses : Tracked(b)' => Tracked(b) /\ (entities[b].deleting => entities'[b].deleting)
    BY <1>7, <1>8
  <2> QED BY <1>1, <1>6, <1>7, <2>1, PoppedFreed
<1>17. Purges'
  <2>1. ASSUME NEW op \in {"purged", "stop"}
        PROVE  (\E k \in 1..Len(ctl') : ctl'[k].op = op) <=> (\E k \in 1..Len(ctl) : ctl[k].op = op)
    <3>1. ASSUME NEW k \in 1..Len(ctl'), ctl'[k].op = op PROVE \E j \in 1..Len(ctl) : ctl[j].op = op
      BY <1>10, <3>1
    <3>2. ASSUME NEW k \in 1..Len(ctl), ctl[k].op = op PROVE \E j \in 1..Len(ctl') : ctl'[j].op = op
      <4>1. k # 1
        BY <1>1, <1>3, <2>1, <3>2
      <4> QED BY <1>10, <3>2, <4>1
    <3> QED BY <3>1, <3>2
  <2> QED BY <1>2, <1>7, <1>8, <2>1 DEF Purges, Place
<1>18. RecordsFit'
  <2> SUFFICES ASSUME NEW b \in Addresses, Tracked(b)' PROVE RecordFit(b)'
    BY DEF RecordsFit
  <2>1. Tracked(b) /\ RecordFit(b)
    BY <1>2, <1>8 DEF RecordsFit
  <2>2. On("erase", b) => On("erase", b)'
    BY <1>1, <1>6, StillOn
  <2>3. On("cleanedUp", b) => On("cleanedUp", b)'
    BY <1>1, <1>6, StillOn
  <2>4. ~(entities[b].deleting /\ ~entities[b].removeNotified)
    BY <1>1, <2>1 DEF RecordFit, Running
  <2>5. Waits(b) => Waits(b)'
    BY <1>1, <1>2, PopWaits
  <2>6. live'[b] # entities[b].handle => purging /\ entities[b].deleting
    BY <1>5, <1>7, <2>1 DEF RecordFit
  <2> QED BY <1>7, <2>1, <2>2, <2>3, <2>4, <2>5, <2>6 DEF RecordFit
<1> QED BY <1>6, <1>10, <1>11, <1>12, <1>13, <1>14, <1>15, <1>16, <1>17, <1>18 DEF CoreInv, StackInv, RecordInv

\* The end of a purge is all that is on the stack then.
LEMMA PurgedLast ==
  ASSUME CoreInv, ctl # <<>>, Top.op \in {"purged", "stop"}
  PROVE  \A k \in 1..Len(ctl) : k # 1 => Top.op = "purged" /\ k = 2 /\ Len(ctl) = 2 /\ ctl[k].op = "stop"
<1>1. Nested(ctl) /\ Top = ctl[1] /\ 1 \in 1..Len(ctl) /\ Len(ctl) \in Nat
  BY TopIs DEF CoreInv, StackInv
<1>2. Top.op = "stop" => Len(ctl) = 1
  BY <1>1 DEF Nested, NestedAt
<1>3. Top.op = "purged" => Len(ctl) = 1 \/ (1 + 1 \in 1..Len(ctl) /\ ctl[1 + 1].op = "stop")
  BY <1>1 DEF Nested, NestedAt, BelowIs
<1>4. 1 + 1 \in 1..Len(ctl) /\ ctl[1 + 1].op = "stop" => Len(ctl) = 1 + 1
  BY <1>1 DEF Nested, NestedAt
<1> QED BY <1>1, <1>2, <1>3, <1>4, SMTT(30)

\* No record is left at the end of a purge.
LEMMA NoneLeft ==
  ASSUME CoreInv, ctl # <<>>, Top.op \in {"purged", "stop"}
  PROVE  /\ \A a \in Addresses : ~Tracked(a)
         /\ purging <=> Top.op = "purged"
<1>1. /\ Purges /\ RecordsFit
  BY DEF CoreInv, StackInv, RecordInv
<1>2. Top = ctl[1] /\ 1 \in 1..Len(ctl)
  BY TopIs
<1>3. \A k \in 1..Len(ctl) : k # 1 => Top.op = "purged" /\ ctl[k].op = "stop"
  BY PurgedLast
<1>4. purging <=> Top.op = "purged"
  <2>1. Top.op = "purged" => purging
    BY <1>1, <1>2 DEF Purges, Place
  <2>2. purging => Top.op = "purged"
    BY <1>1, <1>2, <1>3 DEF Purges, Place
  <2> QED BY <2>1, <2>2
<1>5. CASE Top.op = "stop"
  BY <1>1, <1>2, <1>4, <1>5 DEF Purges, Place
<1>6. CASE Top.op = "purged"
  <2> SUFFICES ASSUME NEW a \in Addresses, Tracked(a) PROVE FALSE
    BY <1>4
  <2>1. RecordFit(a) /\ purging
    BY <1>1, <1>4, <1>6 DEF RecordsFit
  <2>2. \A k \in 1..Len(ctl) : ctl[k].op \notin {"erase", "deleted", "purge"}
    BY <1>2, <1>3, <1>6
  <2> QED BY <2>1, <2>2 DEF RecordFit, On, Has, Waits, Queued, Place
<1> QED BY <1>4, <1>5, <1>6

\* The purge is over.
LEMMA PurgedKeeps ==
  ASSUME CoreInv, Purged
  PROVE  CoreInv'
<1>1. /\ ctl # <<>> /\ Top.op = "purged" /\ ctl' = <<>> \o Tail(ctl)
      /\ order' = <<>> /\ entities' = [a \in Addresses |-> NoRecord]
      /\ tokens' = [t \in Handles |-> None] /\ slots' = [i \in Indexes |-> NoSlot]
      /\ purging' = FALSE
      /\ live' = live /\ used' = used /\ nextToken' = nextToken /\ blocks' = blocks /\ free' = free
      /\ available' = available
  BY DEF Purged, Running, Becomes, engine
<1>2. /\ TypeOK /\ Bounded /\ FramesFit /\ Purges /\ HandlesFit /\ Pooled
  BY DEF CoreInv, StackInv, RecordInv
<1>3. TopFit
  BY <1>1, TopIs
<1>4. TypeOK'
  BY <1>2, <1>3, LastStepsTyped
<1>5. \A a \in Addresses : ~Tracked(a) /\ ~Tracked(a)'
  BY <1>1, NoneLeft DEF Tracked
<1>6. /\ Nested(ctl') /\ Single(ctl') /\ AttachFit'
      /\ ctl' \in Seq(Frame) /\ Len(ctl) \in Nat /\ Len(ctl) > 0 /\ Len(ctl') = Len(ctl) - 1
      /\ \A k \in 1..Len(ctl') : k + 1 \in 1..Len(ctl) /\ ctl'[k] = ctl[k + 1]
  BY <1>1, <1>4, Popped
<1>7. \A k \in 1..Len(ctl') : ctl'[k].op = "stop"
  <2> SUFFICES ASSUME NEW k \in 1..Len(ctl') PROVE ctl'[k].op = "stop"
    OBVIOUS
  <2>1. k + 1 \in 1..Len(ctl) /\ k + 1 # 1 /\ ctl'[k] = ctl[k + 1]
    BY <1>6
  <2> QED BY <1>1, <2>1, PurgedLast
<1>8. FramesFit'
  <2> SUFFICES ASSUME NEW k \in 1..Len(ctl') PROVE FrameFit(ctl[k])'
    BY DEF FramesFit, Place
  <2>1. PICK fr \in Frame : fr = ctl'[k] /\ fr.op = "stop" /\ fr.t < nextToken
    <3>1. PICK i \in 1..Len(ctl) : ctl'[k] = ctl[i]
      BY <1>6
    <3>2. ctl'[k] \in Frame /\ ctl'[k].op = "stop" /\ ctl'[k].t < nextToken
      BY <1>2, <1>6, <1>7, <3>1 DEF FramesFit, Place, FrameFit
    <3> QED BY <3>2
  <2>2. FrameFit(fr)'
    BY <1>1, <2>1 DEF FrameFit, OfEntity, RecordOps, Telling
  <2> QED BY <2>1, <2>2
<1>9. Freed' /\ Purges'
  BY <1>1, <1>5, <1>7 DEF Freed, FreedAt, Purges, Place
<1>10. RecordsFit' /\ HandlesFit' /\ Bounded'
  BY <1>1, <1>2, <1>5 DEF RecordsFit, HandlesFit, Bounded
<1>11. SlotsFit'
  <2>1. 0 <= used'
    BY <1>4 DEF TypeOK
  <2> QED BY <1>1, <2>1 DEF SlotsFit, SlotFit, NoSlot, None
<1>12. Listed'
  <2>1. Len(order') = 0 /\ \A k : k \notin 1..Len(order')
    BY <1>1
  <2> QED BY <1>1, <1>5, <2>1 DEF Listed
<1>13. Pooled'
  <2>1. Owned = {} /\ Owned' = {}
    BY <1>5 DEF Owned
  <2> QED BY <1>1, <1>2, <2>1 DEF Pooled
<1> QED BY <1>4, <1>6, <1>8, <1>9, <1>10, <1>11, <1>12, <1>13 DEF CoreInv, StackInv, RecordInv

\* The manager stops.
LEMMA StopKeeps ==
  ASSUME CoreInv, Stop
  PROVE  CoreInv'
<1>1. /\ ctl # <<>> /\ Top.op = "stop" /\ ctl' = <<>> \o Tail(ctl) /\ available' = FALSE
      /\ UNCHANGED <<live, used, entities, tokens, nextToken, order, sidecars, purging>>
  BY DEF Stop, Running, Becomes, engine, registry
<1>2. /\ TypeOK /\ Bounded /\ FramesFit /\ Purges /\ HandlesFit /\ SlotsFit /\ Listed /\ Pooled
  BY DEF CoreInv, StackInv, RecordInv
<1>3. TopFit
  BY <1>1, TopIs
<1>4. TypeOK'
  BY <1>2, <1>3, LastStepsTyped
<1>5. /\ \A a \in Addresses : ~Tracked(a) /\ ~Tracked(a)'
      /\ ~purging
  BY <1>1, NoneLeft DEF Tracked
<1>6. /\ Nested(ctl') /\ Single(ctl') /\ AttachFit'
      /\ Len(ctl) \in Nat /\ Len(ctl) > 0 /\ Len(ctl') = Len(ctl) - 1
      /\ \A k \in 1..Len(ctl') : k + 1 \in 1..Len(ctl) /\ ctl'[k] = ctl[k + 1]
  BY <1>1, <1>4, Popped
<1>7. \A k : k \notin 1..Len(ctl')
  <2> SUFFICES ASSUME NEW k \in 1..Len(ctl') PROVE FALSE
    OBVIOUS
  <2>1. k + 1 \in 1..Len(ctl) /\ k + 1 # 1
    BY <1>6
  <2> QED BY <1>1, <2>1, PurgedLast
<1>8. FramesFit' /\ Freed' /\ Purges'
  BY <1>1, <1>5, <1>7 DEF FramesFit, Freed, Purges, Place
<1>9. RecordsFit'
  BY <1>5 DEF RecordsFit
<1>10. Bounded' /\ HandlesFit' /\ SlotsFit' /\ Listed' /\ Pooled'
  <2>1. \A a \in Addresses : SameEntry(a)
    BY <1>1 DEF SameEntry, Tracked
  <2> QED BY <1>1, <1>2, <2>1, RegistryKept
<1> QED BY <1>4, <1>6, <1>8, <1>9, <1>10 DEF CoreInv, StackInv, RecordInv

\* A call that is about no entity.
LEMMA OwnFrame ==
  ASSUME NEW op \in Ops
  PROVE  \E x \in Frame : x = Do(op, None, None) /\ x.op = op /\ x.t = 0
<1>1. None \in 0..MaxHandles
  BY ConstantsOK DEF None
<1>2. PICK a \in Addresses \cup {None} : a = None
  OBVIOUS
<1>3. PICK h \in 0..MaxHandles : h = None
  BY <1>1
<1>4. PICK x : x = Do(op, a, h)
  OBVIOUS
<1>5. x \in Frame /\ x.op = op /\ x.t = 0
  BY <1>4, DoFrame
<1>6. x = Do(op, None, None)
  BY <1>2, <1>3, <1>4
<1> QED BY <1>5, <1>6

\* The frames of a purge, one by one.
LEMMA PurgeFramesAre ==
  ASSUME TypeOK
  PROVE  \E c \in Seq(Frame) :
           /\ Len(c) = 2 /\ c[1].op = "purge" /\ c[2].op = "purged"
           /\ c = PurgeFrames /\ \A k \in 1..Len(c) : c[k].t = 0
           /\ \A n \in 1..Len(order) : n \in 1..Len(c[1].q) /\ c[1].q[n][1] = order[n]
<1>1. order \in Seq(Addresses) /\ Len(order) \in Nat /\ DOMAIN order = 1..Len(order)
  BY DEF TypeOK
<1>2. "purge" \in Ops /\ "purged" \in Ops /\ None \in 0..MaxHandles /\ None \in Addresses \cup {None}
  BY ConstantsOK DEF Ops, None
<1>3. PICK q \in Seq(Addresses \X (0..MaxHandles)) :
        /\ q = [k \in DOMAIN order |-> <<order[k], None>>]
        /\ Len(q) = Len(order) /\ \A n \in 1..Len(order) : q[n][1] = order[n]
  <2>1. [k \in DOMAIN order |-> <<order[k], None>>] \in Seq(Addresses \X (0..MaxHandles))
    <3>1. \A k \in 1..Len(order) : order[k] \in Addresses
      BY <1>1
    <3> QED BY <1>1, <1>2, <3>1
  <2>2. PICK q \in Seq(Addresses \X (0..MaxHandles)) : q = [k \in DOMAIN order |-> <<order[k], None>>]
    BY <2>1
  <2>3. DOMAIN q = 1..Len(order)
    BY <1>1, <2>2
  <2>4. Len(q) = Len(order)
    BY <1>1, <2>3
  <2>5. \A n \in 1..Len(order) : q[n] = <<order[n], None>>
    BY <1>1, <2>2
  <2>6. \A n \in 1..Len(order) : q[n][1] = order[n]
    BY <2>5
  <2> QED BY <2>2, <2>4, <2>6
<1>4. PICK x \in Frame : x = Queue("purge", q) /\ x.op = "purge" /\ x.q = q /\ x.t = 0
  <2>1. /\ Queue("purge", q) \in Frame /\ Queue("purge", q).op = "purge" /\ Queue("purge", q).q = q
        /\ Queue("purge", q).t = 0
    BY <1>2, QueueFrame
  <2> QED BY <2>1
<1>5. PICK y \in Frame : y = Do("purged", None, None) /\ y.op = "purged" /\ y.t = 0
  BY <1>2, OwnFrame
<1>6. PICK c \in Seq(Frame) : c = <<x, y>> /\ Len(c) = 2 /\ c[1] = x /\ c[2] = y
  <2>1. <<x, y>> \in Seq(Frame) /\ Len(<<x, y>>) = 2 /\ <<x, y>>[1] = x /\ <<x, y>>[2] = y
    BY FewFrames
  <2> QED BY <2>1
<1>7. c = PurgeFrames
  BY <1>3, <1>4, <1>5, <1>6 DEF PurgeFrames
<1>8. \A k \in 1..Len(c) : k = 1 \/ k = 2
  BY <1>6
<1>9. \A n \in 1..Len(order) : n \in 1..Len(c[1].q) /\ c[1].q[n][1] = order[n]
  BY <1>3, <1>4, <1>6
<1>10. \A k \in 1..Len(c) : c[k].t = 0
  BY <1>4, <1>5, <1>6, <1>8
<1> QED BY <1>4, <1>5, <1>6, <1>7, <1>9, <1>10

\* A purge is called when nothing else runs.
LEMMA PurgeBegins ==
  ASSUME CoreInv, TypeOK', ctl = <<>>, purging', available' = available, available,
         UNCHANGED <<live, used, entities, tokens, nextToken, order, sidecars>>,
         NEW n \in {2, 3}, Len(ctl') = n, ctl'[1].op = "purge", ctl'[2].op = "purged",
         n = 3 => ctl'[3].op = "stop", \A k \in 1..n : ctl'[k].t = 0,
         \A k \in 1..Len(order) : k \in 1..Len(ctl'[1].q) /\ ctl'[1].q[k][1] = order[k]
  PROVE  CoreInv'
<1>1. /\ TypeOK /\ Bounded /\ FramesFit /\ Purges /\ HandlesFit /\ SlotsFit /\ Listed /\ Pooled /\ RecordsFit
  BY DEF CoreInv, StackInv, RecordInv
<1>2. Bounded' /\ HandlesFit' /\ SlotsFit' /\ Listed' /\ Pooled'
  <2>1. \A a \in Addresses : SameEntry(a)
    BY DEF SameEntry, Tracked
  <2> QED BY <1>1, <2>1, RegistryKept
<1>3. PICK t \in Seq(Frame) : t = ctl'
  BY DEF TypeOK
<1>4. /\ Len(t) = n /\ t[1].op = "purge" /\ t[2].op = "purged" /\ (n = 3 => t[3].op = "stop")
      /\ (\A k \in 1..n : t[k].t = 0) /\ 1 \in 1..n /\ 2 \in 1..n
      /\ \A k \in 1..n : k = 1 \/ k = 2 \/ (n = 3 /\ k = 3)
  BY <1>3
<1>5. Nested(t)
  <2>1. NestedAt(t, 1)
    <3>1. 1 + 1 \in 1..Len(t) /\ t[1 + 1].op = "purged"
      BY <1>4
    <3>2. BelowIs(t, 1, "purged") /\ ~BelowIs(t, 1, "stop")
      BY <3>1 DEF BelowIs
    <3> QED BY <1>4, <3>2 DEF NestedAt, Telling
  <2>2. NestedAt(t, 2)
    <3>1. n = 3 => 2 + 1 \in 1..Len(t) /\ t[2 + 1].op = "stop"
      BY <1>4
    <3>2. 2 = Len(t) \/ BelowIs(t, 2, "stop")
      BY <1>4, <3>1 DEF BelowIs
    <3> QED BY <1>4, <3>2 DEF NestedAt, Telling
  <2>3. n = 3 => NestedAt(t, 3)
    <3>1. n = 3 => ~BelowIs(t, 3, "stop")
      BY <1>4 DEF BelowIs
    <3> QED BY <1>4, <3>1 DEF NestedAt, Telling
  <2> QED BY <1>4, <2>1, <2>2, <2>3 DEF Nested
<1>6. Single(t)
  BY <1>4 DEF Single, Unique
<1>7. \A k \in 1..Len(t) : t[k].op \in {"purge", "purged", "stop"}
  BY <1>4
<1>8. FramesFit'
  <2> SUFFICES ASSUME NEW k \in 1..Len(t) PROVE FrameFit(t[k])'
    BY <1>3 DEF FramesFit, Place
  <2>1. PICK fr \in Frame : fr = t[k] /\ fr.op \in {"purge", "purged", "stop"} /\ fr.t = 0
    BY <1>4, <1>7
  <2>2. 0 < nextToken'
    BY ConstantsOK DEF TypeOK
  <2>3. FrameFit(fr)'
    BY <2>1, <2>2 DEF FrameFit, OfEntity, RecordOps, Telling
  <2> QED BY <2>1, <2>3
<1>9. AttachFit' /\ Freed'
  <2>1. t # <<>> => Head(t) = t[1]
    OBVIOUS
  <2>2. AttachFit'
    BY <1>3, <1>4, <2>1 DEF AttachFit, Running, Top
  <2>3. Freed'
    BY <1>3, <1>7 DEF Freed, FreedAt, Place
  <2> QED BY <2>2, <2>3
<1>10. Purges'
  <2>1. \E k \in 1..Len(t) : t[k].op = "purged"
    BY <1>4
  <2> QED BY <1>3, <2>1 DEF Purges, Place
<1>11. RecordsFit'
  <2> SUFFICES ASSUME NEW a \in Addresses, Tracked(a)' PROVE RecordFit(a)'
    BY DEF RecordsFit
  <2>1. Tracked(a) /\ RecordFit(a)
    BY <1>1 DEF Tracked, RecordsFit
  <2>2. \A op : ~On(op, a)
    <3>1. \A k : k \notin 1..Len(ctl)
      OBVIOUS
    <3> QED BY <3>1 DEF On, Has
  <2>3. ~entities[a].deleting /\ ~(entities[a].runtime /\ entities[a].removeNotified)
    BY <2>1, <2>2 DEF RecordFit
  <2>4. live[a] = entities[a].handle
    BY <2>1, <2>3 DEF RecordFit
  <2>5. Waits(a)'
    <3>1. PICK k \in 1..Len(order) : order[k] = a
      BY <1>1, <2>1 DEF Listed
    <3>2. k \in 1..Len(t[1].q) /\ t[1].q[k][1] = a
      BY <1>3, <3>1
    <3>3. 1 \in 1..Len(t) /\ t[1].op = "purge" /\ \E l \in 1..Len(t[1].q) : t[1].q[l][1] = a
      BY <1>4, <3>2
    <3> QED BY <1>3, <3>3 DEF Waits, Queued, Place
  <2> QED BY <2>1, <2>3, <2>4, <2>5 DEF RecordFit
<1>12. Nested(ctl') /\ Single(ctl')
  BY <1>3, <1>5, <1>6
<1> QED BY <1>2, <1>8, <1>9, <1>10, <1>11, <1>12 DEF CoreInv, StackInv, RecordInv

\* PurgeEntities.
LEMMA PurgeEntitiesKeeps ==
  ASSUME CoreInv, PurgeEntities
  PROVE  CoreInv'
<1>1. /\ ctl = <<>> /\ available /\ available' = available /\ purging' = TRUE /\ ctl' = PurgeFrames \o <<>>
      /\ UNCHANGED <<live, used, entities, tokens, nextToken, order, sidecars>>
  BY DEF PurgeEntities, Calls, engine, registry
<1>2. TypeOK' /\ TypeOK
  BY WorldStepsTyped DEF CoreInv
<1>3. PICK c \in Seq(Frame) :
           /\ Len(c) = 2 /\ c[1].op = "purge" /\ c[2].op = "purged"
           /\ c = PurgeFrames /\ \A k \in 1..Len(c) : c[k].t = 0
           /\ \A n \in 1..Len(order) : n \in 1..Len(c[1].q) /\ c[1].q[n][1] = order[n]
  BY <1>2, PurgeFramesAre
<1>4. PICK n \in {2, 3} : n = 2
  OBVIOUS
<1>5. ctl' = c
  <2>1. c \o <<>> = c
    OBVIOUS
  <2> QED BY <1>1, <1>3, <2>1
<1>6. /\ Len(ctl') = n /\ ctl'[1].op = "purge" /\ ctl'[2].op = "purged"
      /\ n = 3 => ctl'[3].op = "stop"
      /\ \A k \in 1..n : ctl'[k].t = 0
      /\ \A k \in 1..Len(order) : k \in 1..Len(ctl'[1].q) /\ ctl'[1].q[k][1] = order[k]
  BY <1>3, <1>4, <1>5
<1> QED BY <1>1, <1>2, <1>6, PurgeBegins

\* Shutdown.
LEMMA ShutdownKeeps ==
  ASSUME CoreInv, Shutdown
  PROVE  CoreInv'
<1>1. /\ ctl = <<>> /\ available /\ available' = available /\ purging' = TRUE
      /\ ctl' = (PurgeFrames \o <<Do("stop", None, None)>>) \o <<>>
      /\ UNCHANGED <<live, used, entities, tokens, nextToken, order, sidecars>>
  BY DEF Shutdown, Calls, engine, registry
<1>2. TypeOK' /\ TypeOK
  BY WorldStepsTyped DEF CoreInv
<1>3. PICK c \in Seq(Frame) :
           /\ Len(c) = 2 /\ c[1].op = "purge" /\ c[2].op = "purged"
           /\ c = PurgeFrames /\ \A k \in 1..Len(c) : c[k].t = 0
           /\ \A n \in 1..Len(order) : n \in 1..Len(c[1].q) /\ c[1].q[n][1] = order[n]
  BY <1>2, PurgeFramesAre
<1>4. PICK n \in {2, 3} : n = 3
  OBVIOUS
<1>5. PICK z \in Frame : z = Do("stop", None, None) /\ z.op = "stop" /\ z.t = 0
  <2>1. "stop" \in Ops
    BY DEF Ops
  <2> QED BY <2>1, OwnFrame
<1>6. PICK d \in Seq(Frame) : d = <<z>> /\ Len(d) = 1 /\ d[1] = z
  <2>1. <<z>> \in Seq(Frame) /\ Len(<<z>>) = 1 /\ <<z>>[1] = z
    BY FewFrames
  <2> QED BY <2>1
<1>7. PICK t \in Seq(Frame) : t = c \o d /\ Len(t) = 3 /\ t[1] = c[1] /\ t[2] = c[2] /\ t[3] = z
  <2>0. c \in Seq(Frame) /\ d \in Seq(Frame) /\ Len(c) = 2 /\ Len(d) = 1 /\ d[1] = z
    BY <1>3, <1>6
  <2>1. c \o d \in Seq(Frame) /\ Len(c \o d) = 3 /\ (c \o d)[1] = c[1] /\ (c \o d)[2] = c[2] /\ (c \o d)[3] = z
    <3>1. PICK x \in Frame : x = c[1]
      BY <2>0
    <3>2. PICK y \in Frame : y = c[2]
      BY <2>0, SMTT(30)
    <3>3. c \o d \in Seq(Frame) /\ Len(c \o d) = 3 /\ (c \o d)[1] = x /\ (c \o d)[2] = y /\ (c \o d)[3] = z
      <4>1. c \o d \in Seq(Frame)
        BY <2>0
      <4>2. Len(c \o d) = 3
        <5>1. Len(c \o d) = Len(c) + Len(d)
          BY <2>0, ConcatProperties
        <5> QED BY <2>0, <5>1
      <4>0. \A k \in 1..Len(c) + Len(d) : (c \o d)[k] = IF k <= Len(c) THEN c[k] ELSE d[k - Len(c)]
        BY <2>0, ConcatProperties
      <4>3. (c \o d)[1] = x
        <5>1. 1 \in 1..(2 + 1) /\ 1 <= 2
          OBVIOUS
        <5> QED BY <2>0, <3>1, <4>0, <5>1
      <4>4. (c \o d)[2] = y
        <5>1. 2 \in 1..(2 + 1) /\ 2 <= 2
          OBVIOUS
        <5> QED BY <2>0, <3>2, <4>0, <5>1
      <4>5. (c \o d)[3] = z
        <5>1. 3 \in 1..(2 + 1) /\ ~(3 <= 2) /\ 3 - 2 = 1
          OBVIOUS
        <5> QED BY <2>0, <4>0, <5>1
      <4> QED BY <4>1, <4>2, <4>3, <4>4, <4>5
    <3> QED BY <3>1, <3>2, <3>3
  <2> QED BY <2>1
<1>8. ctl' = t
  <2>1. t \o <<>> = t
    OBVIOUS
  <2>2. PurgeFrames \o <<Do("stop", None, None)>> = c \o d
    BY <1>3, <1>5, <1>6
  <2> QED BY <1>1, <1>7, <2>1, <2>2
<1>9. \A k \in 1..n : t[k].t = 0
  <2>1. \A k \in 1..n : k = 1 \/ k = 2 \/ k = 3
    BY <1>4
  <2>2. 1 \in 1..Len(c) /\ 2 \in 1..Len(c)
    BY <1>3
  <2> QED BY <1>3, <1>5, <1>7, <2>1, <2>2
<1>10. /\ Len(ctl') = n /\ ctl'[1].op = "purge" /\ ctl'[2].op = "purged"
       /\ n = 3 => ctl'[3].op = "stop"
       /\ \A k \in 1..n : ctl'[k].t = 0
       /\ \A k \in 1..Len(order) : k \in 1..Len(ctl'[1].q) /\ ctl'[1].q[k][1] = order[k]
  BY <1>3, <1>4, <1>5, <1>7, <1>8, <1>9, SMTT(30)
<1> QED BY <1>1, <1>2, <1>10, PurgeBegins

-----------------------------------------------------------------------------
(*****************************************************************************)
(* Creation: the record of a new entity, and the calls about it.             *)
(*****************************************************************************)

\* The record of a new entity, and what else its construction changes.
LEMMA NewEntry ==
  ASSUME TypeOK, NEW a \in Addresses, NEW h \in Handles, h = used + 1, NEW i \in Indexes \cup {None},
         NEW custom \in BOOLEAN, NEW hooked \in BOOLEAN, TypeOK', Bounded, Track(a, h, i, custom, hooked)
  PROVE  /\ \A b \in Addresses : b # a => entities'[b] = entities[b]
         /\ Tracked(a)' /\ entities'[a].handle = h /\ entities'[a].index = i
         /\ entities'[a].token = nextToken /\ ~entities'[a].deleting
         /\ entities'[a].runtime <=> (custom /\ hooked)
         /\ entities'[a].slotted <=> (custom /\ hooked)
         /\ ~entities'[a].createdNotified /\ ~entities'[a].postConstructed
         /\ entities'[a].removeNotified <=> (custom /\ ~hooked)
         /\ entities'[a].sidecar = IF custom /\ hooked THEN Acquired ELSE None
         /\ Acquired \in 1..MaxHandles
         /\ nextToken \in Handles /\ nextToken' = nextToken + 1
         /\ tokens'[nextToken] = a /\ \A t \in Handles : t # nextToken => tokens'[t] = tokens[t]
         /\ order' = Append(order, a)
<1> DEFINE attached == custom /\ hooked
           s == IF attached THEN Acquired ELSE None
           r == [NewRecord(h, i) EXCEPT
                   !.runtime = attached, !.slotted = attached, !.removeNotified = custom /\ ~hooked,
                   !.sidecar = s]
<1>1. /\ entities' = [entities EXCEPT ![a] = r]
      /\ tokens' = [tokens EXCEPT ![r.token] = a]
      /\ nextToken' = nextToken + 1
      /\ order' = Append(order, a)
  BY DEF Track
<1>2. nextToken \in Handles
  BY ConstantsOK DEF Bounded, TypeOK, Handles
<1>3. Acquired \in 1..MaxHandles
  <2>1. free \in Seq(1..MaxHandles) /\ blocks \in 0..MaxHandles /\ blocks <= used /\ used \in Nat
    BY ConstantsOK DEF TypeOK, Bounded
  <2>2. free # <<>> => free[Len(free)] \in 1..MaxHandles
    BY <2>1, LastOf
  <2>3. free = <<>> => blocks + 1 \in 1..MaxHandles
    <3>1. used + 1 <= MaxHandles /\ MaxHandles \in Nat /\ blocks \in Nat
      BY <2>1, ConstantsOK DEF Handles
    <3> QED BY <2>1, <3>1
  <2> QED BY <2>2, <2>3 DEF Acquired
<1>4. s \in 0..MaxHandles
  BY <1>3, ConstantsOK DEF None
<1> DEFINE unhooked == custom /\ ~hooked
<1>5. attached \in BOOLEAN /\ unhooked \in BOOLEAN
  OBVIOUS
<1>6. r = [NewRecord(h, i) EXCEPT !.runtime = attached, !.slotted = attached, !.removeNotified = unhooked,
                                  !.sidecar = s]
  OBVIOUS
<1>7. /\ r \in Record /\ r.handle = h /\ r.index = i /\ r.token = nextToken /\ r.deleting = FALSE
      /\ r.runtime = attached /\ r.slotted = attached /\ r.createdNotified = FALSE
      /\ r.postConstructed = FALSE /\ r.removeNotified = unhooked /\ r.sidecar = s
  <2> HIDE DEF s, attached, unhooked, r
  <2> QED BY <1>2, <1>4, <1>5, <1>6 DEF NewRecord, Record, TokenOfNext
<1>8. r # NoRecord
  <2>1. \A x \in Record : x.handle # None
    BY DEF Record, Handles, None
  <2> HIDE DEF r
  <2> QED BY <1>7, <2>1 DEF NoRecord
<1>9. entities \in [Addresses -> Record \cup {NoRecord}] /\ tokens \in [Handles -> Addresses \cup {None}]
  BY DEF TypeOK
<1> HIDE DEF r
<1>10. entities'[a] = r /\ \A b \in Addresses : b # a => entities'[b] = entities[b]
  BY <1>1, <1>9
<1>11. tokens'[nextToken] = a /\ \A t \in Handles : t # nextToken => tokens'[t] = tokens[t]
  BY <1>1, <1>2, <1>7, <1>9
<1>12. Tracked(a)'
  BY <1>8, <1>10 DEF Tracked
<1>13. PICK y : y = entities'[a] /\ y = r
  BY <1>10
<1>14. /\ y.handle = h /\ y.index = i /\ y.token = nextToken /\ y.deleting = FALSE
       /\ y.runtime = attached /\ y.slotted = attached /\ y.createdNotified = FALSE
       /\ y.postConstructed = FALSE /\ y.removeNotified = unhooked /\ y.sidecar = s
  BY <1>7, <1>13
<1> QED BY <1>1, <1>2, <1>3, <1>10, <1>11, <1>12, <1>13, <1>14

\* The sidecar of a new entity comes from the pool, or is new.
LEMMA SidecarTaken ==
  ASSUME TypeOK, Pooled, NEW a \in Addresses, ~Tracked(a), NEW h, NEW i,
         NEW custom \in BOOLEAN, NEW hooked \in BOOLEAN, Track(a, h, i, custom, hooked),
         \A b \in Addresses : b # a => entities'[b] = entities[b],
         Tracked(a)', entities'[a].sidecar = IF custom /\ hooked THEN Acquired ELSE None,
         Acquired \in 1..MaxHandles
  PROVE  Pooled'
<1>1. free \in Seq(1..MaxHandles) /\ Len(free) \in Nat /\ blocks \in Nat
  BY ConstantsOK DEF TypeOK
<1>2. PICK O : O = Owned
  OBVIOUS
<1>3. /\ IsFiniteSet(O) /\ Cardinality(O) + Len(free) = blocks /\ a \notin O
      /\ \A b \in Nat : b \in 1..blocks <=> \/ \E x \in O : entities[x].sidecar = b
                                            \/ \E k \in 1..Len(free) : free[k] = b
  BY <1>2 DEF Pooled, Owned
<1>4. \A b \in O : b \in Addresses /\ b # a /\ entities'[b] = entities[b]
  BY <1>2, <1>3 DEF Owned
<1>5. \A b \in Addresses : b # a => (Tracked(b)' <=> Tracked(b))
  BY DEF Tracked
<1>6. Cardinality(O) \in Nat
  BY <1>3, FS_CardinalityType
<1>7. free = <<>> => Len(free) = 0
  OBVIOUS
<1>8. CASE custom /\ hooked
  <2>1. PICK c \in 1..MaxHandles : c = Acquired /\ entities'[a].sidecar = c /\ c # None
    BY <1>8, ConstantsOK DEF None
  <2>2. PICK P : P = Owned' /\ P = O \cup {a}
    <3>1. Owned' = O \cup {a}
      BY <1>2, <1>3, <1>4, <1>5, <2>1 DEF Owned
    <3> QED BY <3>1
  <2>3. IsFiniteSet(P) /\ Cardinality(P) = Cardinality(O) + 1
    BY <1>3, <2>2, FS_AddElement
  <2>4. \A b \in Nat : (\E x \in P : entities'[x].sidecar = b) <=> b = c \/ \E x \in O : entities[x].sidecar = b
    BY <1>4, <2>1, <2>2
  <2>5. /\ blocks' = IF free = <<>> THEN blocks + 1 ELSE blocks
        /\ free' = IF free = <<>> THEN free ELSE SubSeq(free, 1, Len(free) - 1)
    BY <1>8 DEF Track, AfterAcquire
  <2>6. CASE free = <<>>
    <3>1. blocks' = blocks + 1 /\ free' = free /\ c = blocks + 1 /\ \A k : k \notin 1..Len(free)
      BY <1>7, <2>1, <2>5, <2>6 DEF Acquired
    <3>2. \A b \in Nat : b \in 1..(blocks + 1) <=> b \in 1..blocks \/ b = blocks + 1
      BY <1>1
    <3>3. \A b \in Nat : b \in 1..(blocks + 1) <=> \/ \E x \in P : entities'[x].sidecar = b
                                                   \/ \E k \in 1..Len(free) : free[k] = b
      BY <1>3, <2>4, <3>1, <3>2
    <3>4. Cardinality(P) + Len(free) = blocks + 1
      BY <1>1, <1>3, <1>6, <2>3
    <3> QED BY <2>2, <2>3, <3>1, <3>3, <3>4 DEF Pooled
  <2>7. CASE free # <<>>
    <3>1. PICK f \in Seq(1..MaxHandles) : /\ f = free' /\ Len(f) = Len(free) - 1
                                          /\ \A k \in 1..(Len(free) - 1) : f[k] = free[k]
      <4>1. /\ SubSeq(free, 1, Len(free) - 1) \in Seq(1..MaxHandles)
            /\ Len(SubSeq(free, 1, Len(free) - 1)) = Len(free) - 1
            /\ \A k \in 1..(Len(free) - 1) : SubSeq(free, 1, Len(free) - 1)[k] = free[k]
        BY <1>1, <2>7, LastOf
      <4> QED BY <2>5, <2>7, <4>1
    <3>2. blocks' = blocks /\ c = free[Len(free)] /\ Len(free) \in 1..Len(free)
      BY <1>1, <2>1, <2>5, <2>7 DEF Acquired
    <3>3. \A b \in Nat : (\E k \in 1..Len(free) : free[k] = b) <=> b = c \/ \E k \in 1..Len(f) : f[k] = b
      <4>1. \A k \in 1..Len(free) : k = Len(free) \/ k \in 1..Len(f)
        BY <1>1, <3>1
      <4>2. \A k \in 1..Len(f) : k \in 1..Len(free) /\ f[k] = free[k]
        BY <1>1, <3>1
      <4> QED BY <3>2, <4>1, <4>2
    <3>4. \A b \in Nat : b \in 1..blocks <=> \/ \E x \in P : entities'[x].sidecar = b
                                             \/ \E k \in 1..Len(f) : f[k] = b
      BY <1>3, <2>4, <3>3
    <3>5. Cardinality(P) + Len(f) = blocks
      BY <1>1, <1>3, <1>6, <2>3, <3>1
    <3> QED BY <2>2, <2>3, <3>1, <3>2, <3>4, <3>5 DEF Pooled
  <2> QED BY <2>6, <2>7
<1>9. ASSUME ~(custom /\ hooked) PROVE Owned' = O
  <2>1. entities'[a].sidecar = None
    BY <1>9
  <2> QED BY <1>2, <1>3, <1>4, <1>5, <2>1 DEF Owned
<1>10. CASE custom /\ ~hooked
  <2>1. /\ blocks' = IF free = <<>> THEN blocks + 1 ELSE blocks
        /\ free' = IF free = <<>> THEN <<blocks + 1>> ELSE free
    BY <1>10 DEF Track
  <2>2. CASE free = <<>>
    <3>1. PICK f : f = free' /\ f = <<blocks + 1>> /\ Len(f) = 1 /\ f[1] = blocks + 1
      BY <2>1, <2>2
    <3>2. blocks' = blocks + 1 /\ \A k : k \notin 1..Len(free)
      BY <1>7, <2>1, <2>2
    <3>3. \A b \in Nat : b \in 1..(blocks + 1) <=> b \in 1..blocks \/ b = blocks + 1
      BY <1>1
    <3>4. \A b \in Nat : (\E k \in 1..Len(f) : f[k] = b) <=> b = blocks + 1
      <4>1. \A k \in 1..Len(f) : k = 1
        BY <3>1
      <4>2. 1 \in 1..Len(f)
        BY <3>1
      <4> QED BY <3>1, <4>1, <4>2
    <3>5. \A b \in Nat : b \in 1..(blocks + 1) <=> \/ \E x \in O : entities'[x].sidecar = b
                                                   \/ \E k \in 1..Len(f) : f[k] = b
      BY <1>3, <1>4, <3>2, <3>3, <3>4
    <3>6. Cardinality(O) + Len(f) = blocks + 1
      BY <1>3, <1>6, <1>7, <2>2, <3>1
    <3> QED BY <1>3, <1>9, <1>10, <3>1, <3>2, <3>5, <3>6 DEF Pooled
  <2>3. CASE free # <<>>
    <3>1. free' = free /\ blocks' = blocks
      BY <2>1, <2>3
    <3>2. \A b \in Nat : b \in 1..blocks <=> \/ \E x \in O : entities'[x].sidecar = b
                                             \/ \E k \in 1..Len(free) : free[k] = b
      BY <1>3, <1>4
    <3> QED BY <1>3, <1>9, <1>10, <3>1, <3>2 DEF Pooled
  <2> QED BY <2>2, <2>3
<1>11. CASE ~custom
  <2>1. free' = free /\ blocks' = blocks
    BY <1>11 DEF Track, sidecars
  <2>2. \A b \in Nat : b \in 1..blocks <=> \/ \E x \in O : entities'[x].sidecar = b
                                           \/ \E k \in 1..Len(free) : free[k] = b
    BY <1>3, <1>4
  <2> QED BY <1>3, <1>9, <1>11, <2>1, <2>2 DEF Pooled
<1> QED BY <1>8, <1>10, <1>11

\* The registry with a new record.
LEMMA NewListed ==
  ASSUME TypeOK, Listed, RecordsFit, NEW a \in Addresses, ~Tracked(a),
         \A b \in Addresses : b # a => entities'[b] = entities[b],
         Tracked(a)', entities'[a].token = nextToken, nextToken \in Handles,
         tokens'[nextToken] = a, \A t \in Handles : t # nextToken => tokens'[t] = tokens[t],
         order' = Append(order, a)
  PROVE  Listed'
<1>1. order \in Seq(Addresses) /\ Len(order) \in Nat /\ tokens \in [Handles -> Addresses \cup {None}]
  BY DEF TypeOK
<1>2. /\ \A t \in Handles : tokens[t] # None => Tracked(tokens[t]) /\ entities[tokens[t]].token = t
      /\ \A b \in Addresses : Tracked(b) =>
           /\ tokens[entities[b].token] = b
           /\ \E k \in 1..Len(order) : order[k] = b
      /\ \A k \in 1..Len(order) : Tracked(order[k])
      /\ \A j, k \in 1..Len(order) : order[j] = order[k] => j = k
  BY DEF Listed
<1>3. PICK s : s = Append(order, a)
  OBVIOUS
<1>4. /\ Len(s) = Len(order) + 1 /\ s[Len(order) + 1] = a /\ \A k \in 1..Len(order) : s[k] = order[k]
      /\ \A k \in 1..Len(s) : k \in 1..Len(order) \/ k = Len(order) + 1
      /\ Len(order) + 1 \in 1..Len(s) /\ \A k \in 1..Len(order) : k \in 1..Len(s)
  BY <1>1, <1>3
<1>5. \A b \in Addresses : b # a => (Tracked(b)' <=> Tracked(b))
  BY DEF Tracked
<1>6. \A b \in Addresses : Tracked(b) => entities[b].token \in Handles /\ entities[b].token # nextToken
  <2> SUFFICES ASSUME NEW b \in Addresses, Tracked(b)
               PROVE  entities[b].token \in Handles /\ entities[b].token # nextToken
    OBVIOUS
  <2>1. entities[b].token < nextToken /\ entities[b].token \in Handles
    BY RecordTyped DEF RecordsFit, RecordFit
  <2> QED BY <2>1 DEF Handles
<1>7. \A t \in Handles : tokens'[t] # None => entities'[tokens'[t]] # NoRecord /\ entities'[tokens'[t]].token = t
  <2> SUFFICES ASSUME NEW t \in Handles, tokens'[t] # None, t # nextToken
               PROVE  entities'[tokens'[t]] # NoRecord /\ entities'[tokens'[t]].token = t
    BY DEF Tracked
  <2>1. tokens'[t] = tokens[t] /\ tokens[t] \in Addresses
    BY <1>1
  <2>2. Tracked(tokens[t]) /\ entities[tokens[t]].token = t /\ tokens[t] # a
    BY <1>2, <2>1
  <2> QED BY <2>1, <2>2 DEF Tracked
<1>8. \A b \in Addresses : Tracked(b)' => tokens'[entities'[b].token] = b /\ \E k \in 1..Len(s) : s[k] = b
  <2> SUFFICES ASSUME NEW b \in Addresses, Tracked(b)'
               PROVE  tokens'[entities'[b].token] = b /\ \E k \in 1..Len(s) : s[k] = b
    OBVIOUS
  <2>1. CASE b = a
    BY <1>4, <2>1
  <2>2. CASE b # a
    <3>1. Tracked(b) /\ entities'[b] = entities[b]
      BY <1>5, <2>2
    <3>2. tokens'[entities'[b].token] = b
      BY <1>2, <1>6, <3>1
    <3>3. \E k \in 1..Len(order) : order[k] = b
      BY <1>2, <3>1
    <3>4. \E k \in 1..Len(s) : s[k] = b
      BY <1>4, <3>3
    <3> QED BY <3>2, <3>4
  <2> QED BY <2>1, <2>2
<1>9. \A k \in 1..Len(order) : order[k] \in Addresses /\ order[k] # a
  BY <1>1, <1>2
<1>10. \A k \in 1..Len(s) : entities'[s[k]] # NoRecord
  <2> SUFFICES ASSUME NEW k \in 1..Len(s) PROVE entities'[s[k]] # NoRecord
    OBVIOUS
  <2>1. CASE k \in 1..Len(order)
    BY <1>2, <1>4, <1>9, <2>1 DEF Tracked
  <2>2. CASE k = Len(order) + 1
    BY <1>4, <2>2 DEF Tracked
  <2> QED BY <1>4, <2>1, <2>2
<1>11. \A j, k \in 1..Len(s) : s[j] = s[k] => j = k
  BY <1>2, <1>4, <1>9
<1> QED BY <1>3, <1>7, <1>8, <1>10, <1>11 DEF Listed, Tracked

\* What the engine and the manager do when an entity is constructed, but for the calls.
Constructed(a, h, i, custom, hooked) ==
  /\ h = used + 1 /\ live[a] = None /\ live' = [live EXCEPT ![a] = h] /\ used' = h
  /\ IF available /\ ~purging THEN Track(a, h, i, custom, hooked) ELSE UNCHANGED <<registry, sidecars>>
  /\ UNCHANGED modes
  /\ ctl # <<>> => Top.op \in Callbacks

\* What becomes of the records.
LEMMA Added ==
  ASSUME CoreInv, TypeOK', NEW a \in Addresses, NEW h \in Handles, NEW i \in Indexes \cup {None},
         NEW custom \in BOOLEAN, NEW hooked \in BOOLEAN, Constructed(a, h, i, custom, hooked)
  PROVE  /\ used \in Nat /\ h = used + 1 /\ h # None /\ used' = h /\ nextToken \in Nat /\ nextToken > 0
         /\ ctl \in Seq(Frame) /\ Len(ctl) \in Nat /\ (Len(ctl) > 0 => ctl[1].op \in Callbacks)
         /\ purging' = purging /\ available' = available
         /\ live'[a] = h /\ live[a] = None /\ \A b \in Addresses : b # a => live'[b] = live[b]
         /\ \A b \in Addresses : Tracked(b) => entities[b].handle <= used /\ entities[b].handle \in Handles
         /\ Tracked(a) => purging /\ entities[a].deleting
         /\ \A b \in Addresses : Tracked(b) => Tracked(b)' /\ entities'[b] = entities[b]
         /\ \A b \in Addresses : Tracked(b)' => Tracked(b) \/ (b = a /\ available /\ ~purging)
         /\ nextToken' \in Nat /\ nextToken' >= nextToken
         /\ ~(available /\ ~purging) =>
              entities' = entities /\ tokens' = tokens /\ nextToken' = nextToken /\ order' = order
              /\ slots' = slots /\ blocks' = blocks /\ free' = free
<1>1. /\ TypeOK /\ Bounded /\ FramesFit /\ Purges
      /\ RecordsFit
  BY DEF CoreInv, StackInv, RecordInv
<1>2. /\ h = used + 1 /\ live[a] = None /\ live' = [live EXCEPT ![a] = h] /\ used' = h
      /\ IF available /\ ~purging THEN Track(a, h, i, custom, hooked) ELSE UNCHANGED <<registry, sidecars>>
      /\ UNCHANGED modes
      /\ ctl # <<>> => Top.op \in Callbacks
  BY DEF Constructed
<1>3. MaxHandles \in Nat /\ used \in 0..MaxHandles /\ nextToken \in 1..(MaxHandles + 1) /\ ctl \in Seq(Frame)
      /\ live \in [Addresses -> 0..MaxHandles]
  BY <1>1, ConstantsOK DEF TypeOK
<1>4. used \in Nat /\ h # None /\ nextToken \in Nat /\ nextToken > 0
  BY <1>2, <1>3 DEF None
<1>5. Len(ctl) \in Nat /\ (Len(ctl) > 0 => ctl[1].op \in Callbacks)
  BY <1>2, <1>3 DEF Top
<1>6. purging' = purging /\ available' = available
  BY <1>2 DEF modes
<1>7. live'[a] = h /\ \A b \in Addresses : b # a => live'[b] = live[b]
  BY <1>2, <1>3
<1>8. \A b \in Addresses : Tracked(b) => entities[b].handle <= used /\ entities[b].handle \in Handles
  BY <1>1, RecordTyped DEF RecordsFit, RecordFit
<1>9. Tracked(a) => purging /\ entities[a].deleting
  <2>1. Tracked(a) => live[a] # entities[a].handle
    BY <1>2, <1>8 DEF Handles, None
  <2> QED BY <1>1, <2>1 DEF RecordsFit, RecordFit
<1>10. CASE ~(available /\ ~purging)
  <2>1. UNCHANGED <<registry, sidecars>>
    BY <1>2, <1>10
  <2>2. /\ entities' = entities /\ tokens' = tokens /\ nextToken' = nextToken /\ order' = order
        /\ slots' = slots /\ blocks' = blocks /\ free' = free
    BY <2>1 DEF registry, sidecars
  <2>3. \A b \in Addresses : Tracked(b)' <=> Tracked(b)
    BY <2>2 DEF Tracked
  <2> QED BY <1>2, <1>3, <1>4, <1>5, <1>6, <1>7, <1>8, <1>9, <2>2, <2>3
<1>11. CASE available /\ ~purging
  <2>1. Track(a, h, i, custom, hooked)
    BY <1>2, <1>11
  <2>2. /\ \A b \in Addresses : b # a => entities'[b] = entities[b]
        /\ nextToken' = nextToken + 1
    BY <1>1, <1>2, <2>1, NewEntry
  <2>3. ~Tracked(a)
    BY <1>9, <1>11
  <2>4. \A b \in Addresses : b # a => (Tracked(b)' <=> Tracked(b))
    BY <2>2 DEF Tracked
  <2>5. \A b \in Addresses : Tracked(b) => Tracked(b)' /\ entities'[b] = entities[b]
    BY <2>2, <2>3, <2>4
  <2>6. \A b \in Addresses : Tracked(b)' => Tracked(b) \/ (b = a /\ available /\ ~purging)
    BY <1>11, <2>4
  <2>7. nextToken' \in Nat /\ nextToken' >= nextToken
    BY <1>4, <2>2
  <2> QED BY <1>2, <1>3, <1>4, <1>5, <1>6, <1>7, <1>8, <1>9, <1>11, <2>5, <2>6, <2>7
<1> QED BY <1>10, <1>11

\* The calls of a construction.
LEMMA ConstructStack ==
  ASSUME CoreInv, TypeOK', NEW a \in Addresses, NEW h \in Handles, NEW i \in Indexes \cup {None},
         NEW custom \in BOOLEAN, NEW hooked \in BOOLEAN, Constructed(a, h, i, custom, hooked),
         NEW m \in {0, 1}, Rests(ctl, ctl', m, 0),
         m = 1 => /\ ctl'[1].op \in {"notify", "attach"}
                  /\ ctl'[1].a = a /\ ctl'[1].h = h /\ ctl'[1].t = 0
  PROVE  Nested(ctl') /\ Single(ctl') /\ FramesFit' /\ AttachFit' /\ Freed' /\ Purges'
<1>1. /\ TypeOK /\ Nested(ctl) /\ Single(ctl) /\ FramesFit /\ AttachFit /\ Freed /\ Purges /\ RecordsFit
  BY DEF CoreInv, StackInv, RecordInv
<1>2. /\ used \in Nat /\ h = used + 1 /\ h # None /\ used' = h /\ nextToken \in Nat /\ nextToken > 0
      /\ ctl \in Seq(Frame) /\ Len(ctl) \in Nat /\ (Len(ctl) > 0 => ctl[1].op \in Callbacks)
      /\ purging' = purging /\ available' = available
      /\ live'[a] = h /\ live[a] = None /\ \A b \in Addresses : b # a => live'[b] = live[b]
      /\ \A b \in Addresses : Tracked(b) => entities[b].handle <= used /\ entities[b].handle \in Handles
      /\ \A b \in Addresses : Tracked(b) => Tracked(b)' /\ entities'[b] = entities[b]
      /\ \A b \in Addresses : Tracked(b)' => Tracked(b) \/ (b = a /\ available /\ ~purging)
      /\ nextToken' \in Nat /\ nextToken' >= nextToken
  BY Added
<1>13. available /\ ~purging => entities'[a].token = nextToken /\ ~entities'[a].postConstructed
  <2> SUFFICES ASSUME available, ~purging
               PROVE  entities'[a].token = nextToken /\ ~entities'[a].postConstructed
    OBVIOUS
  <2>1. Track(a, h, i, custom, hooked) /\ h = used + 1
    BY DEF Constructed
  <2>2. Bounded
    BY DEF CoreInv
  <2> QED BY <1>1, <2>1, <2>2, NewEntry
<1>3. PICK p \in {0, 1} : p = 0
  OBVIOUS
<1>4. PICK t \in Seq(Frame) : t = ctl'
  BY DEF TypeOK
<1>5. PICK n \in Nat : n = m
  OBVIOUS
<1>6. /\ Rests(ctl, t, n, p) /\ \A k \in 1..n : k = 1 /\ m = 1
      /\ Len(t) = Len(ctl) + n /\ Len(t) \in Nat
      /\ m = 1 => 1 \in 1..Len(t) /\ t[1].op \in {"notify", "attach"} /\ t[1].a = a /\ t[1].h = h /\ t[1].t = 0
  <2>1. Rests(ctl, t, n, p)
    BY <1>3, <1>4, <1>5
  <2>2. Len(t) = Len(ctl) + n /\ Len(t) \in Nat
    BY <1>2, <1>3, <2>1 DEF Rests
  <2>3. m = 1 => 1 \in 1..Len(t)
    BY <1>2, <1>5, <2>2
  <2> QED BY <1>4, <1>5, <2>1, <2>2, <2>3
<1>7. Nested(t)
  <2>1. ASSUME m = 1 PROVE NestedAt(t, 1)
    <3>1. ~BelowIs(t, 1, "stop")
      <4> SUFFICES ASSUME BelowIs(t, 1, "stop") PROVE FALSE
        OBVIOUS
      <4>1. n + 1 \in 1..Len(t) /\ t[n + 1].op = "stop"
        BY <1>5, <2>1 DEF BelowIs
      <4>2. p + 1 \in 1..Len(ctl) /\ t[n + 1] = ctl[p + 1]
        BY <1>2, <1>6, <4>1, UnderNew
      <4> QED BY <1>2, <1>3, <4>1, <4>2 DEF Callbacks
    <3> QED BY <1>6, <2>1, <3>1 DEF NestedAt, Telling
  <2>2. \A k \in 1..n : NestedAt(t, k)
    BY <1>6, <2>1
  <2>3. p = 0 /\ Len(ctl) > 0 => ctl[1].op # "attach"
    BY <1>2 DEF Callbacks
  <2> QED BY <1>1, <1>2, <1>6, <2>2, <2>3, NestedKept
<1>8. Single(t)
  <2>1. \A k \in 1..n : t[k].op \notin Unique
    BY <1>6 DEF Unique
  <2> QED BY <1>1, <1>2, <1>6, <2>1, SingleSame
<1>9. FramesFit'
  <2> SUFFICES ASSUME NEW k \in 1..Len(t) PROVE FrameFit(t[k])'
    BY <1>4 DEF FramesFit, Place
  <2>1. CASE k <= n
    <3>1. PICK fr \in Frame : fr = t[k] /\ fr.op \in {"notify", "attach"} /\ fr.a = a /\ fr.t = 0
      BY <1>6, <2>1
    <3>2. FrameFit(fr)'
      BY <1>2, <3>1 DEF FrameFit, RecordOps, Telling
    <3> QED BY <3>1, <3>2
  <2>2. CASE k > n
    <3>1. PICK l \in 1..Len(ctl) : t[k] = ctl[l]
      BY <1>6, <2>2 DEF Rests, Comes
    <3>2. PICK fr \in Frame : fr = t[k] /\ FrameFit(fr)
      BY <1>1, <3>1 DEF FramesFit, Place
    <3>3. fr.op \in RecordOps \cup {"return", "freeMemory"} => fr.a \in Addresses
      BY <3>2 DEF FrameFit, RecordOps, Telling, OfEntity, Ops, Callbacks
    <3>10. fr.t < nextToken /\ fr.t \in Nat
      <4>1. fr.t \in 0..MaxHandles /\ MaxHandles \in Nat
        BY ConstantsOK DEF Frame
      <4>2. fr.t < nextToken
        BY <3>2 DEF FrameFit
      <4> QED BY <4>1, <4>2
    <3>4. fr.t < nextToken'
      BY <1>2, <3>10
    <3>5. fr.op \in RecordOps => IsCurrent(fr.a, fr.h) /\ IsCurrent(fr.a, fr.h)' /\ entities'[fr.a] = entities[fr.a]
      BY <1>2, <3>2, <3>3 DEF FrameFit, IsCurrent
    <3>6. fr.op = "freeMemory" => live'[fr.a] # None
      BY <1>2, <3>2, <3>3 DEF FrameFit
    <3>7. fr.op = "return" /\ Tracked(fr.a)' /\ entities'[fr.a].token = fr.t => entities'[fr.a].handle = fr.h
      <4> SUFFICES ASSUME fr.op = "return", Tracked(fr.a)', entities'[fr.a].token = fr.t
                   PROVE  entities'[fr.a].handle = fr.h
        OBVIOUS
      <4>1. CASE Tracked(fr.a)
        BY <1>2, <3>2, <3>3, <4>1 DEF FrameFit
      <4>2. CASE ~Tracked(fr.a)
        <5>1. fr.a = a /\ available /\ ~purging
          BY <1>2, <3>3, <4>2
        <5>3. entities'[a].token = nextToken
          BY <1>13, <5>1
        <5> QED BY <1>2, <3>10, <5>1, <5>3
      <4> QED BY <4>1, <4>2
    <3>8. "erase" \in RecordOps /\ "cleanedUp" \in RecordOps /\ "removed" \in RecordOps
      BY DEF RecordOps
    <3>9. FrameFit(fr)'
      BY <3>2, <3>4, <3>5, <3>6, <3>7, <3>8 DEF FrameFit
    <3> QED BY <3>2, <3>9
  <2> QED BY <2>1, <2>2, <1>5
<1>10. AttachFit'
  <2> SUFFICES ASSUME Running("attach")'
               PROVE  /\ live'[Top'.a] = Top'.h /\ Top'.h # None /\ ~Deleting(Top.a)'
                      /\ IsCurrent(Top.a, Top.h)' => ~entities'[Top'.a].postConstructed
    BY DEF AttachFit
  <2>1. t # <<>> /\ Top' = t[1] /\ t[1].op = "attach"
    BY <1>4 DEF Running, Top
  <2>2. m = 1
    <3> SUFFICES ASSUME m = 0 PROVE FALSE
      OBVIOUS
    <3>1. n + 1 \in 1..Len(t) /\ t[n + 1].op = "attach"
      BY <1>5, <2>1
    <3>2. p + 1 \in 1..Len(ctl) /\ t[n + 1] = ctl[p + 1]
      BY <1>2, <1>6, <3>1, UnderNew
    <3> QED BY <1>2, <1>3, <3>1, <3>2 DEF Callbacks
  <2>3. Top'.a = a /\ Top'.h = h
    BY <1>6, <2>1, <2>2
  <2>4. ~Deleting(Top.a)'
    <3> SUFFICES ASSUME NEW k \in 1..Len(t), t[k].op = "freeMemory", t[k].a = a PROVE FALSE
      BY <1>4, <2>3 DEF Deleting
    <3>1. k > n
      BY <1>5, <1>6
    <3>2. PICK l \in 1..Len(ctl) : t[k] = ctl[l]
      BY <1>6, <3>1 DEF Rests, Comes
    <3>3. FrameFit(ctl[l])
      BY <1>1 DEF FramesFit, Place
    <3> QED BY <1>2, <3>2, <3>3 DEF FrameFit
  <2>5. entities'[a] # NoRecord /\ entities'[a].handle = h => ~entities'[a].postConstructed
    <3> SUFFICES ASSUME entities'[a] # NoRecord, entities'[a].handle = h PROVE ~entities'[a].postConstructed
      OBVIOUS
    <3>1. ~Tracked(a)
      BY <1>2
    <3>2. available /\ ~purging
      BY <1>2, <3>1 DEF Tracked
    <3> QED BY <1>13, <3>2
  <2> QED BY <1>2, <2>3, <2>4, <2>5 DEF IsCurrent, Tracked
<1>11. Freed'
  <2>1. \A b \in Addresses : Tracked(b)' /\ On("freeMemory", b) =>
          Tracked(b) /\ (entities[b].deleting => entities'[b].deleting)
    <3> SUFFICES ASSUME NEW b \in Addresses, Tracked(b)', On("freeMemory", b)
                 PROVE  Tracked(b) /\ (entities[b].deleting => entities'[b].deleting)
      OBVIOUS
    <3>1. live[b] # None
      BY <1>1 DEF FramesFit, FrameFit, Place, On, Has
    <3>2. Tracked(b)
      BY <1>2, <3>1
    <3> QED BY <1>2, <3>2
  <2>2. Rests(ctl, ctl', n, p) /\ \A k \in 1..n : ctl'[k].op # "freeMemory"
    BY <1>4, <1>6
  <2>3. p = 1 => ctl # <<>> /\ Top.op \notin {"deleted", "erase"}
    BY <1>3
  <2> QED BY <1>1, <1>2, <2>1, <2>2, <2>3, FreedStays
<1>12. Purges'
  <2>1. (\E k \in 1..Len(t) : t[k].op = "purged") <=> (\E k \in 1..Len(ctl) : ctl[k].op = "purged")
    <3>1. ASSUME NEW k \in 1..Len(t), t[k].op = "purged" PROVE \E l \in 1..Len(ctl) : ctl[l].op = "purged"
      <4>1. k > n
        BY <1>5, <1>6, <3>1
      <4>2. PICK l \in 1..Len(ctl) : t[k] = ctl[l]
        BY <1>6, <4>1 DEF Rests, Comes
      <4> QED BY <3>1, <4>2
    <3>2. ASSUME NEW k \in 1..Len(ctl), ctl[k].op = "purged" PROVE \E l \in 1..Len(t) : t[l].op = "purged"
      <4>1. k > p
        BY <1>3
      <4>2. PICK l \in 1..Len(t) : Comes(ctl, t, l, k, n, p)
        BY <1>6, <4>1 DEF Rests
      <4> QED BY <3>2, <4>2 DEF Comes
    <3> QED BY <3>1, <3>2
  <2>2. ~available => \A b \in Addresses : ~Tracked(b)'
    BY <1>1, <1>2 DEF Purges
  <2>3. ASSUME ~purging, NEW k \in 1..Len(t), t[k].op = "stop" PROVE FALSE
    <3>1. k > n
      BY <1>5, <1>6, <2>3
    <3>2. PICK l \in 1..Len(ctl) : t[k] = ctl[l]
      BY <1>6, <3>1 DEF Rests, Comes
    <3>3. ctl[l].op = "stop" /\ l # 1
      BY <1>2, <2>3, <3>2 DEF Callbacks
    <3>4. l - 1 \in 1..Len(ctl) /\ (l - 1) + 1 = l
      BY <3>3
    <3>5. BelowIs(ctl, l - 1, "stop")
      BY <3>3, <3>4 DEF BelowIs
    <3>6. ctl[l - 1].op = "purged"
      BY <1>1, <3>4, <3>5 DEF Nested, NestedAt
    <3> QED BY <1>1, <2>3, <3>4, <3>6 DEF Purges, Place
  <2> QED BY <1>1, <1>2, <1>4, <2>1, <2>2, <2>3 DEF Purges, Place
<1> QED BY <1>4, <1>7, <1>8, <1>9, <1>10, <1>11, <1>12

\* The record of an entity that was there fits as before.
LEMMA OldRecordFits ==
  ASSUME CoreInv, TypeOK', NEW a \in Addresses, NEW h \in Handles, NEW i \in Indexes \cup {None},
         NEW custom \in BOOLEAN, NEW hooked \in BOOLEAN, Constructed(a, h, i, custom, hooked),
         NEW m \in Nat, NEW p \in {0, 1}, p = 0, Rests(ctl, ctl', m, p),
         NEW b \in Addresses, Tracked(b)
  PROVE  RecordFit(b)'
<1>1. TypeOK /\ RecordsFit
  BY DEF CoreInv, RecordInv
<1>2. /\ used \in Nat /\ used' = used + 1 /\ nextToken \in Nat
      /\ ctl \in Seq(Frame) /\ Len(ctl) \in Nat /\ (Len(ctl) > 0 => ctl[1].op \in Callbacks)
      /\ purging' = purging
      /\ \A c \in Addresses : c # a => live'[c] = live[c]
      /\ Tracked(a) => purging /\ entities[a].deleting
      /\ entities'[b] = entities[b]
      /\ nextToken' \in Nat /\ nextToken' >= nextToken
  BY Added
<1>3. PICK r \in Record : r = entities[b] /\ r = entities'[b]
  BY <1>1, <1>2, RecordTyped
<1>4. RecordFit(b)
  BY <1>1 DEF RecordsFit
<1>5. PICK t \in Seq(Frame) : t = ctl'
  BY DEF TypeOK
<1>6. \A op : On(op, b) => Has(t, op, b)
  BY <1>2, <1>5, HasKept DEF On
<1>7. r.handle <= used' /\ r.token < nextToken'
  <2>1. r.handle <= used /\ r.token < nextToken
    BY <1>3, <1>4 DEF RecordFit
  <2>2. r.handle \in Nat /\ r.token \in Nat
    BY <1>3 DEF Record, Handles
  <2> QED BY <1>2, <2>1, <2>2
<1>8. r.deleting => On("erase", b)
  BY <1>3, <1>4 DEF RecordFit
<1>9. r.deleting => r.removeNotified
  <2>1. ~Running("cleanup")
    BY <1>2 DEF Running, Top, Callbacks
  <2> QED BY <1>3, <1>4, <2>1 DEF RecordFit
<1>10. r.runtime /\ r.removeNotified => On("cleanedUp", b)
  BY <1>3, <1>4 DEF RecordFit
<1>11. live'[b] # r.handle => purging' /\ r.deleting
  <2>1. live[b] # r.handle => purging /\ r.deleting
    BY <1>3, <1>4 DEF RecordFit
  <2> QED BY <1>2, <1>3, <2>1
<1>12. purging' /\ ~r.deleting => Waits(b)'
  <2>1. purging /\ ~r.deleting => Waits(b)
    BY <1>3, <1>4 DEF RecordFit
  <2>2. p = 1 => ctl # <<>> /\ Top.op \notin {"deleted", "purge"}
    OBVIOUS
  <2>3. Waits(b) => Waits(b)'
    BY <1>1, <2>2, WaitsKept
  <2> QED BY <1>2, <2>1, <2>3
<1>13. (r.runtime <=> r.sidecar # None) /\ (r.slotted => r.runtime /\ r.index \in Indexes)
  BY <1>3, <1>4 DEF RecordFit
<1>14. \A op : Has(t, op, b) <=> On(op, b)'
  BY <1>5 DEF On
<1> QED BY <1>3, <1>6, <1>7, <1>8, <1>9, <1>10, <1>11, <1>12, <1>13, <1>14 DEF RecordFit

\* The record of the new one does.
LEMMA NewRecordFits ==
  ASSUME CoreInv, TypeOK', NEW a \in Addresses, NEW h \in Handles, NEW i \in Indexes \cup {None},
         NEW custom \in BOOLEAN, NEW hooked \in BOOLEAN, Constructed(a, h, i, custom, hooked),
         custom => i \in Indexes
  PROVE  available /\ ~purging => RecordFit(a)'
<1>1. TypeOK /\ Bounded
  BY DEF CoreInv
<1>3. /\ used' = h /\ purging' = purging /\ live'[a] = h /\ nextToken \in Nat
  BY Added
<1> SUFFICES ASSUME available /\ ~purging PROVE RecordFit(a)'
  OBVIOUS
<1>2. h = used + 1 /\ Track(a, h, i, custom, hooked)
  BY DEF Constructed
<1>4. /\ entities'[a].handle = h /\ entities'[a].index = i
      /\ entities'[a].token = nextToken /\ ~entities'[a].deleting
      /\ entities'[a].runtime <=> (custom /\ hooked)
      /\ entities'[a].slotted <=> (custom /\ hooked)
      /\ entities'[a].removeNotified <=> (custom /\ ~hooked)
      /\ entities'[a].sidecar = IF custom /\ hooked THEN Acquired ELSE None
      /\ Acquired \in 1..MaxHandles /\ nextToken' = nextToken + 1
  BY <1>1, <1>2, NewEntry
<1>5. h \in Nat /\ Acquired # None
  BY <1>4, ConstantsOK DEF Handles, None
<1>6. entities'[a].handle <= used' /\ entities'[a].token < nextToken'
  BY <1>3, <1>4, <1>5
<1>7. entities'[a].runtime <=> entities'[a].sidecar # None
  BY <1>4, <1>5
<1> QED BY <1>3, <1>4, <1>6, <1>7 DEF RecordFit

\* A slot that the new entity has not got is as safe as before.
LEMMA OldSlotFits ==
  ASSUME CoreInv, TypeOK', NEW a \in Addresses, NEW h \in Handles, NEW i \in Indexes \cup {None},
         NEW custom \in BOOLEAN, NEW hooked \in BOOLEAN, Constructed(a, h, i, custom, hooked),
         NEW j \in Indexes, slots'[j] = slots[j]
  PROVE  SlotFit(j)'
<1>1. TypeOK /\ SlotFit(j)
  BY DEF CoreInv, RecordInv, SlotsFit
<1>2. /\ used \in Nat /\ used' = used + 1 /\ h = used + 1
      /\ live'[a] = h /\ live[a] = None /\ \A b \in Addresses : b # a => live'[b] = live[b]
      /\ \A b \in Addresses : Tracked(b) => Tracked(b)' /\ entities'[b] = entities[b]
  BY Added
<1>3. PICK s \in Slot : s = slots[j] /\ s = slots'[j]
  BY <1>1 DEF TypeOK, Slot
<1>4. s.h \in 0..MaxHandles /\ s.a \in Addresses \cup {None}
  BY <1>3 DEF Slot
<1>5. s.h \in Nat /\ s.h <= used
  BY <1>1, <1>3, <1>4, ConstantsOK DEF SlotFit
<1>6. s.h <= used' /\ s.h # h
  BY <1>2, <1>5
<1>7. s.h = None => s.sidecar = None
  BY <1>1, <1>3 DEF SlotFit
<1>8. ASSUME s.a # None, s.h # None, live'[s.a] = s.h
      PROVE  /\ IsCurrent(s.a, s.h) /\ entities'[s.a] = entities[s.a]
             /\ Tracked(s.a)' /\ entities[s.a].slotted /\ entities[s.a].index = j /\ entities[s.a].sidecar = s.sidecar
  <2>1. s.a \in Addresses /\ s.a # a
    BY <1>2, <1>4, <1>6, <1>8
  <2>2. live[s.a] = s.h
    BY <1>2, <1>8, <2>1
  <2>3. /\ IsCurrent(s.a, s.h)
        /\ entities[s.a].slotted /\ entities[s.a].index = j /\ entities[s.a].sidecar = s.sidecar
    BY <1>1, <1>3, <1>8, <2>2 DEF SlotFit
  <2> QED BY <1>2, <2>1, <2>3 DEF IsCurrent
<1>9. ASSUME s.a # None, s.h # None, live'[s.a] = s.h
      PROVE  /\ IsCurrent(s.a, s.h)'
             /\ entities'[s.a].slotted /\ entities'[s.a].index = j /\ entities'[s.a].sidecar = s.sidecar
  BY <1>8, <1>9 DEF IsCurrent
<1> QED BY <1>3, <1>6, <1>7, <1>9 DEF SlotFit

\* ... and the one it has is its own.
LEMMA NewSlotFits ==
  ASSUME CoreInv, TypeOK', NEW a \in Addresses, NEW h \in Handles, NEW i \in Indexes \cup {None},
         NEW custom \in BOOLEAN, NEW hooked \in BOOLEAN, Constructed(a, h, i, custom, hooked),
         custom => i \in Indexes
  PROVE  custom /\ available /\ ~purging =>
           SlotFit(i)' /\ \A j \in Indexes : j # i => slots'[j] = slots[j]
<1>1. TypeOK /\ Bounded
  BY DEF CoreInv
<1>3. /\ used \in Nat /\ used' = h /\ h # None
  BY Added
<1>9. ASSUME Track(a, h, i, custom, hooked), h = used + 1
      PROVE  /\ Tracked(a)' /\ entities'[a].handle = h /\ entities'[a].index = i
             /\ entities'[a].slotted <=> (custom /\ hooked)
             /\ entities'[a].sidecar = IF custom /\ hooked THEN Acquired ELSE None
             /\ Acquired \in 1..MaxHandles
  BY <1>1, <1>9, NewEntry
<1> SUFFICES ASSUME custom /\ available /\ ~purging
             PROVE  SlotFit(i)' /\ \A j \in Indexes : j # i => slots'[j] = slots[j]
  OBVIOUS
<1>2. h = used + 1 /\ Track(a, h, i, custom, hooked) /\ i \in Indexes
  BY DEF Constructed
<1>4. /\ Tracked(a)' /\ entities'[a].handle = h /\ entities'[a].index = i
      /\ entities'[a].slotted <=> (custom /\ hooked)
      /\ entities'[a].sidecar = IF custom /\ hooked THEN Acquired ELSE None
      /\ Acquired \in 1..MaxHandles
  BY <1>2, <1>9
<1>5. slots \in [Indexes -> Slot]
  BY <1>1 DEF TypeOK, Slot
<1>6. h \in Nat
  BY <1>2, <1>3
<1>7. CASE hooked
  <2>1. slots' = [slots EXCEPT ![i] = [a |-> a, sidecar |-> Acquired, h |-> h]]
    BY <1>2, <1>7 DEF Track
  <2>2. PICK s : s = [a |-> a, sidecar |-> Acquired, h |-> h]
    OBVIOUS
  <2>3. s.a = a /\ s.sidecar = Acquired /\ s.h = h
    BY <2>2
  <2>4. slots'[i] = s /\ \A j \in Indexes : j # i => slots'[j] = slots[j]
    BY <1>5, <2>1, <2>2
  <2>5. s.h <= used' /\ s.h # None
    BY <1>3, <1>6, <2>3
  <2>6. /\ IsCurrent(s.a, s.h)'
        /\ entities'[s.a].slotted /\ entities'[s.a].index = i /\ entities'[s.a].sidecar = s.sidecar
    BY <1>4, <1>7, <2>3 DEF IsCurrent, Tracked
  <2> QED BY <2>4, <2>5, <2>6 DEF SlotFit
<1>8. CASE ~hooked
  <2>1. slots' = [slots EXCEPT ![i] = NoSlot]
    BY <1>2, <1>8 DEF Track
  <2>2. slots'[i] = NoSlot /\ \A j \in Indexes : j # i => slots'[j] = slots[j]
    BY <1>5, <2>1
  <2>3. PICK s : s = slots'[i] /\ s.a = None /\ s.h = None /\ s.sidecar = None
    BY <2>2 DEF NoSlot
  <2>4. s.h <= used'
    BY <1>3, <1>6, <2>3 DEF None
  <2> QED BY <2>2, <2>3, <2>4 DEF SlotFit
<1> QED BY <1>7, <1>8

\* The records, slots and sidecars after a construction.
LEMMA ConstructRecords ==
  ASSUME CoreInv, TypeOK', NEW a \in Addresses, NEW h \in Handles, NEW i \in Indexes \cup {None},
         NEW custom \in BOOLEAN, NEW hooked \in BOOLEAN, Constructed(a, h, i, custom, hooked),
         custom => i \in Indexes, NEW m \in Nat, NEW p \in {0, 1}, p = 0, Rests(ctl, ctl', m, p)
  PROVE  RecordInv'
<1>1. TypeOK /\ Bounded /\ RecordsFit /\ HandlesFit /\ SlotsFit /\ Listed /\ Pooled
  BY DEF CoreInv, RecordInv
<1>2. /\ used \in Nat /\ h = used + 1 /\ used' = h
      /\ live'[a] = h /\ live[a] = None /\ \A b \in Addresses : b # a => live'[b] = live[b]
      /\ \A b \in Addresses : Tracked(b) => entities[b].handle <= used /\ entities[b].handle \in Handles
      /\ Tracked(a) => purging /\ entities[a].deleting
      /\ \A b \in Addresses : Tracked(b) => Tracked(b)' /\ entities'[b] = entities[b]
      /\ \A b \in Addresses : Tracked(b)' => Tracked(b) \/ (b = a /\ available /\ ~purging)
      /\ ~(available /\ ~purging) =>
           entities' = entities /\ tokens' = tokens /\ nextToken' = nextToken /\ order' = order
           /\ slots' = slots /\ blocks' = blocks /\ free' = free
  BY Added
<1>3. available /\ ~purging => Track(a, h, i, custom, hooked) /\ ~Tracked(a)
  BY <1>2 DEF Constructed
<1>4. available /\ ~purging =>
         /\ \A b \in Addresses : b # a => entities'[b] = entities[b]
         /\ Tracked(a)' /\ entities'[a].handle = h
         /\ entities'[a].token = nextToken
         /\ entities'[a].sidecar = IF custom /\ hooked THEN Acquired ELSE None
         /\ Acquired \in 1..MaxHandles
         /\ nextToken \in Handles
         /\ tokens'[nextToken] = a /\ \A t \in Handles : t # nextToken => tokens'[t] = tokens[t]
         /\ order' = Append(order, a)
  <2> SUFFICES ASSUME available, ~purging
               PROVE  /\ \A b \in Addresses : b # a => entities'[b] = entities[b]
                      /\ Tracked(a)' /\ entities'[a].handle = h
                      /\ entities'[a].token = nextToken
                      /\ entities'[a].sidecar = IF custom /\ hooked THEN Acquired ELSE None
                      /\ Acquired \in 1..MaxHandles
                      /\ nextToken \in Handles
                      /\ tokens'[nextToken] = a /\ \A t \in Handles : t # nextToken => tokens'[t] = tokens[t]
                      /\ order' = Append(order, a)
    OBVIOUS
  <2>1. Track(a, h, i, custom, hooked) /\ h = used + 1
    BY <1>2, <1>3
  <2> QED BY <1>1, <2>1, NewEntry
<1>5. RecordsFit'
  <2> SUFFICES ASSUME NEW b \in Addresses, Tracked(b)' PROVE RecordFit(b)'
    BY DEF RecordsFit
  <2>1. CASE Tracked(b)
    BY <2>1, OldRecordFits
  <2>2. CASE ~Tracked(b)
    <3>1. b = a /\ available /\ ~purging
      BY <1>2, <2>2
    <3>2. RecordFit(a)'
      BY <3>1, NewRecordFits
    <3> QED BY <3>1, <3>2
  <2> QED BY <2>1, <2>2
<1>6. HandlesFit'
  <2>1. \A b \in Addresses : live'[b] <= used'
    <3> SUFFICES ASSUME NEW b \in Addresses PROVE live'[b] <= used'
      OBVIOUS
    <3>1. live[b] <= used /\ live[b] \in 0..MaxHandles
      BY <1>1 DEF HandlesFit, TypeOK
    <3>2. live[b] \in Nat
      BY <3>1, ConstantsOK
    <3> QED BY <1>2, <3>1, <3>2
  <2>2. \A b \in Addresses : Tracked(b)' =>
          IF Tracked(b) THEN entities'[b].handle = entities[b].handle /\ entities[b].handle # h
          ELSE b = a /\ entities'[b].handle = h
    <3> SUFFICES ASSUME NEW b \in Addresses, Tracked(b)'
                 PROVE  IF Tracked(b) THEN entities'[b].handle = entities[b].handle /\ entities[b].handle # h
                        ELSE b = a /\ entities'[b].handle = h
      OBVIOUS
    <3>1. CASE Tracked(b)
      <4>1. entities[b].handle <= used /\ entities[b].handle \in Nat
        BY <1>2, <3>1 DEF Handles
      <4>2. entities[b].handle # h
        BY <1>2, <4>1
      <4> QED BY <1>2, <3>1, <4>2
    <3>2. CASE ~Tracked(b)
      BY <1>2, <1>4, <3>2
    <3> QED BY <3>1, <3>2
  <2>3. ASSUME NEW b \in Addresses, NEW c \in Addresses, Tracked(b)', Tracked(c)',
               entities'[b].handle = entities'[c].handle
        PROVE  b = c
    BY <1>1, <2>2, <2>3 DEF HandlesFit
  <2> QED BY <2>1, <2>3 DEF HandlesFit
<1>7. SlotsFit'
  <2> SUFFICES ASSUME NEW j \in Indexes PROVE SlotFit(j)'
    BY DEF SlotsFit
  <2>1. CASE custom /\ available /\ ~purging
    <3>1. i \in Indexes
      BY <2>1
    <3>2. SlotFit(i)' /\ \A k \in Indexes : k # i => slots'[k] = slots[k]
      BY <2>1, <3>1, NewSlotFits, ZenonT(40)
    <3>3. CASE j = i
      BY <3>2, <3>3
    <3>4. CASE j # i
      <4>1. slots'[j] = slots[j]
        BY <3>2, <3>4
      <4> QED BY <4>1, OldSlotFits
    <3> QED BY <3>3, <3>4
  <2>2. CASE ~(custom /\ available /\ ~purging)
    <3>1. slots' = slots
      <4>1. CASE available /\ ~purging
        BY <1>3, <2>2, <4>1 DEF Track, sidecars
      <4>2. CASE ~(available /\ ~purging)
        BY <1>2, <4>2
      <4> QED BY <4>1, <4>2
    <3> QED BY <3>1, OldSlotFits
  <2> QED BY <2>1, <2>2
<1>8. Listed' /\ Pooled'
  <2>1. CASE available /\ ~purging
    <3>1. ~Tracked(a) /\ Track(a, h, i, custom, hooked)
      BY <1>3, <2>1
    <3>2. Listed'
      BY <1>1, <1>4, <2>1, <3>1, NewListed
    <3>3. Pooled'
      BY <1>1, <1>4, <2>1, <3>1, SidecarTaken
    <3> QED BY <3>2, <3>3
  <2>2. CASE ~(available /\ ~purging)
    <3>1. /\ entities' = entities /\ tokens' = tokens /\ order' = order
          /\ slots' = slots /\ blocks' = blocks /\ free' = free
      BY <1>2, <2>2
    <3>2. \A b : Tracked(b)' <=> Tracked(b)
      BY <3>1 DEF Tracked
    <3>3. Owned' = Owned
      BY <3>1, <3>2 DEF Owned
    <3>4. Listed'
      BY <1>1, <3>1, <3>2 DEF Listed, Tracked
    <3>5. Pooled'
      BY <1>1, <3>1, <3>3 DEF Pooled
    <3> QED BY <3>4, <3>5
  <2> QED BY <2>1, <2>2
<1> QED BY <1>5, <1>6, <1>7, <1>8 DEF RecordInv

\* A construction keeps the core invariant.
LEMMA ConstructedKeeps ==
  ASSUME CoreInv, TypeOK', Bounded', NEW a \in Addresses, NEW h \in Handles,
         NEW i \in Indexes \cup {None}, NEW custom \in BOOLEAN, NEW hooked \in BOOLEAN,
         Constructed(a, h, i, custom, hooked), custom => i \in Indexes,
         NEW fs \in Seq(Frame), ctl' = fs \o ctl, NEW m \in {0, 1}, Len(fs) = m,
         m = 1 => fs[1].op \in {"notify", "attach"} /\ fs[1].a = a /\ fs[1].h = h /\ fs[1].t = 0
  PROVE  CoreInv'
<1>1. ctl \in Seq(Frame)
  BY DEF CoreInv, TypeOK
<1>2. Rests(ctl, ctl', m, 0) /\ \A k \in 1..m : ctl'[k] = fs[k]
  <2>1. Rests(ctl, fs \o ctl, Len(fs), 0) /\ \A k \in 1..Len(fs) : (fs \o ctl)[k] = fs[k]
    BY <1>1, CallsRests
  <2>2. PICK t : t = ctl' /\ t = fs \o ctl
    OBVIOUS
  <2>3. Rests(ctl, t, Len(fs), 0) /\ \A k \in 1..Len(fs) : t[k] = fs[k]
    BY <2>1, <2>2
  <2> QED BY <2>2, <2>3
<1>3. m = 1 => ctl'[1].op \in {"notify", "attach"} /\ ctl'[1].a = a /\ ctl'[1].h = h /\ ctl'[1].t = 0
  <2>1. m = 1 => 1 \in 1..m
    OBVIOUS
  <2> QED BY <1>2, <2>1
<1>4. StackInv'
  <2>0. Rests(ctl, ctl', m, 0)
    BY <1>2
  <2>1. Nested(ctl') /\ Single(ctl') /\ FramesFit' /\ AttachFit' /\ Freed' /\ Purges'
    BY <2>0, <1>3, ConstructStack
  <2> QED BY <2>1 DEF StackInv
<1>5. RecordInv'
  <2>1. PICK n \in Nat : n = m
    OBVIOUS
  <2>2. PICK p \in {0, 1} : p = 0
    OBVIOUS
  <2>3. Rests(ctl, ctl', n, p)
    BY <1>2, <2>1, <2>2
  <2> QED BY <2>2, <2>3, ConstructRecords
<1> QED BY <1>4, <1>5 DEF CoreInv

\* What Construct does, with one call at most.
LEMMA ConstructKeeps ==
  ASSUME CoreInv, NEW a \in Addresses, NEW i \in Indexes \cup {None},
         NEW custom \in BOOLEAN, NEW hooked \in BOOLEAN, NEW networked \in BOOLEAN,
         custom => i \in Indexes, ctl # <<>> => Top.op \in Callbacks,
         NEW after, Construct(a, i, custom, hooked, networked, after),
         \/ after = <<>>
         \/ networked /\ after = <<Do("attach", a, used + 1)>>
  PROVE  CoreInv'
<1>1. /\ used + 1 \in Handles /\ live[a] = None /\ live' = [live EXCEPT ![a] = used + 1]
      /\ used' = used + 1 /\ UNCHANGED modes
      /\ IF available /\ ~purging THEN Track(a, used + 1, i, custom, hooked)
         ELSE UNCHANGED <<registry, sidecars>>
      /\ ctl' = ((IF available /\ ~purging /\ ~networked THEN <<Do("notify", a, used + 1)>> ELSE <<>>) \o after)
                  \o ctl
  BY DEF Construct, Calls
<1>2. PICK h \in Handles : h = used + 1
  BY <1>1
<1>3. Constructed(a, h, i, custom, hooked)
  BY <1>1, <1>2 DEF Constructed
<1>4. h \in 0..MaxHandles /\ TypeOK /\ Bounded /\ ctl \in Seq(Frame)
  BY ConstantsOK DEF Handles, CoreInv, TypeOK
<1>5. PICK x \in Frame : x = Do("notify", a, h) /\ x.op = "notify" /\ x.a = a /\ x.h = h /\ x.t = 0
  <2>1. "notify" \in Ops
    BY DEF Ops
  <2> QED BY <1>4, <2>1, DoFrame
<1>6. PICK y \in Frame : y = Do("attach", a, h) /\ y.op = "attach" /\ y.a = a /\ y.h = h /\ y.t = 0
  <2>1. "attach" \in Ops
    BY DEF Ops
  <2> QED BY <1>4, <2>1, DoFrame
<1>7. after \in Seq(Frame)
  <2>1. after = <<>> \/ after = <<y>>
    BY <1>2, <1>6
  <2>2. <<>> \in Seq(Frame) /\ <<y>> \in Seq(Frame)
    BY FewFrames
  <2> QED BY <2>1, <2>2
<1>8. TypeOK' /\ Bounded'
  BY <1>4, <1>7, ConstructTyped
<1>9. PICK before : before = IF available /\ ~purging /\ ~networked THEN <<Do("notify", a, h)>> ELSE <<>>
  OBVIOUS
<1>10. before = <<>> \/ (~networked /\ before = <<x>>)
  BY <1>5, <1>9
<1>11. after = <<>> \/ (networked /\ after = <<y>>)
  BY <1>2, <1>6
<1>12. before \o after = <<>> \/ before \o after = <<x>> \/ before \o after = <<y>>
  <2>1. <<>> \o <<>> = <<>> /\ <<x>> \o <<>> = <<x>> /\ <<>> \o <<y>> = <<y>>
    OBVIOUS
  <2>2. CASE before = <<>> /\ after = <<>>
    BY <2>1, <2>2
  <2>3. CASE before = <<x>> /\ after = <<>>
    BY <2>1, <2>3
  <2>4. CASE before = <<>> /\ after = <<y>>
    BY <2>1, <2>4
  <2> QED BY <1>10, <1>11, <2>2, <2>3, <2>4
<1>13. PICK fs \in Seq(Frame) : /\ fs = before \o after
                                /\ Len(fs) = 0 \/ (Len(fs) = 1 /\ (fs[1] = x \/ fs[1] = y))
  <2>1. PICK c : c = before \o after
    OBVIOUS
  <2>2. c = <<>> \/ c = <<x>> \/ c = <<y>>
    BY <1>12, <2>1
  <2>3. c \in Seq(Frame) /\ (Len(c) = 0 \/ (Len(c) = 1 /\ (c[1] = x \/ c[1] = y)))
    <3>1. CASE c = <<>>
      BY <3>1, FewFrames
    <3>2. CASE c = <<x>>
      BY <3>2, FewFrames
    <3>3. CASE c = <<y>>
      BY <3>3, FewFrames
    <3> QED BY <2>2, <3>1, <3>2, <3>3
  <2> QED BY <2>1, <2>3
<1>14. ctl' = fs \o ctl
  BY <1>1, <1>2, <1>9, <1>13
<1>15. PICK m \in {0, 1} : m = Len(fs)
  BY <1>13
<1>16. m = 1 => fs[1].op \in {"notify", "attach"} /\ fs[1].a = a /\ fs[1].h = h /\ fs[1].t = 0
  <2>1. m = 1 => fs[1] = x \/ fs[1] = y
    <3> SUFFICES ASSUME m = 1 PROVE fs[1] = x \/ fs[1] = y
      OBVIOUS
    <3>1. Len(fs) = 1
      BY <1>15
    <3>2. Len(fs) # 0
      BY <3>1
    <3> QED BY <1>13, <3>2
  <2> QED BY <1>5, <1>6, <2>1
<1> QED BY <1>3, <1>8, <1>14, <1>15, <1>16, ConstructedKeeps, ZenonT(40)

\* Each way to create an entity.
LEMMA CreateKeeps ==
  ASSUME CoreInv, NEW a \in Addresses,
         \/ CreateClientOnly(a)
         \/ \E i \in Indexes : CreateNetworked(a, i)
         \/ \E i \in Indexes, hooked \in BOOLEAN : CreateCustom(a, i, hooked)
  PROVE  CoreInv'
<1>1. CASE CreateClientOnly(a)
  <2>1. MayCall("create") /\ Construct(a, None, FALSE, FALSE, FALSE, <<>>)
    BY <1>1 DEF CreateClientOnly
  <2>2. ctl # <<>> => Top.op \in Callbacks
    BY <2>1, CallsInCallbacks
  <2>3. PICK i \in Indexes \cup {None}, no \in BOOLEAN : i = None /\ no = FALSE
    OBVIOUS
  <2>3a. PICK after : after = <<>>
    OBVIOUS
  <2>4. Construct(a, i, no, no, no, after)
    BY <2>1, <2>3, <2>3a
  <2> QED BY <2>2, <2>3, <2>3a, <2>4, ConstructKeeps
<1>2. CASE \E i \in Indexes : CreateNetworked(a, i)
  <2>1. PICK i \in Indexes : CreateNetworked(a, i)
    BY <1>2
  <2>2. MayCall("create") /\ Construct(a, i, FALSE, FALSE, TRUE, <<>>)
    BY <2>1 DEF CreateNetworked
  <2>3. ctl # <<>> => Top.op \in Callbacks
    BY <2>2, CallsInCallbacks
  <2>4. PICK j \in Indexes \cup {None}, no \in BOOLEAN, yes \in BOOLEAN : j = i /\ no = FALSE /\ yes = TRUE
    OBVIOUS
  <2>4a. PICK after : after = <<>>
    OBVIOUS
  <2>5. Construct(a, j, no, no, yes, after)
    BY <2>2, <2>4, <2>4a
  <2> QED BY <2>3, <2>4, <2>4a, <2>5, ConstructKeeps
<1>3. CASE \E i \in Indexes, hooked \in BOOLEAN : CreateCustom(a, i, hooked)
  <2>1. PICK i \in Indexes, hooked \in BOOLEAN : CreateCustom(a, i, hooked)
    BY <1>3
  <2>2. MayCall("create") /\ Construct(a, i, TRUE, hooked, TRUE, <<Do("attach", a, used + 1)>>)
    BY <2>1 DEF CreateCustom
  <2>3. ctl # <<>> => Top.op \in Callbacks
    BY <2>2, CallsInCallbacks
  <2>4. PICK j \in Indexes \cup {None}, yes \in BOOLEAN : j = i /\ yes = TRUE
    OBVIOUS
  <2>4a. PICK after : after = <<Do("attach", a, used + 1)>>
    OBVIOUS
  <2>5. Construct(a, j, yes, hooked, yes, after) /\ j \in Indexes
    BY <2>2, <2>4, <2>4a
  <2> QED BY <2>3, <2>4, <2>4a, <2>5, ConstructKeeps
<1> QED BY <1>1, <1>2, <1>3

\* A deletion, told of or not.
LEMMA OnEntityDeletedKeeps ==
  ASSUME CoreInv, OnEntityDeleted
  PROVE  CoreInv'
<1>1. CASE available /\ Tracked(Top.a) /\ ~entities[Top.a].deleting
  BY <1>1, DeletedNow
<1>2. CASE ~(available /\ Tracked(Top.a) /\ ~entities[Top.a].deleting)
  BY <1>2, DeletedBefore
<1> QED BY <1>1, <1>2

\* A cleanup, done before or now.
LEMMA CleanupRuntimeKeeps ==
  ASSUME CoreInv, CleanupRuntime
  PROVE  CoreInv'
<1>1. CASE Tracked(Top.a) /\ ~entities[Top.a].removeNotified
  BY <1>1, CleanupNow
<1>2. CASE ~(Tracked(Top.a) /\ ~entities[Top.a].removeNotified)
  BY <1>2, CleanupDone
<1> QED BY <1>1, <1>2

\* Listeners come and go.
LEMMA ListenersKeep ==
  ASSUME CoreInv, NEW l \in Listeners, AddClientEntityListener(l) \/ RemoveClientEntityListener(l)
  PROVE  CoreInv'
<1>1. UNCHANGED <<entities, live, used, tokens, nextToken, order, sidecars, modes, ctl>>
  BY DEF AddClientEntityListener, RemoveClientEntityListener, engine, registry
<1>2. TypeOK'
  BY WorldStepsTyped DEF CoreInv
<1> QED BY <1>1, <1>2, CoreUnchanged

\* Every step keeps the core invariant.
LEMMA CoreNext ==
  ASSUME CoreInv, [Next]_vars
  PROVE  CoreInv'
<1>1. CASE Manager
  <2>1. CASE \/ CreateReturns \/ CallbackReturns \/ CreatedListeners \/ TellCreated \/ Flush
             \/ DestroyedListeners \/ TellDestroyed
    BY <2>1, QuietStepsKeep
  <2>2. CASE AttachRuntime \/ NotifyCreated \/ NotifyDestroyed
    BY <2>2, AttachRuntimeKeeps, NotifyCreatedKeeps, NotifyDestroyedKeeps
  <2>3. CASE OnEntityDeleted \/ CleanupRuntime \/ CleanedUp
    BY <2>3, OnEntityDeletedKeeps, CleanupRuntimeKeeps, CleanedUpKeeps
  <2>4. CASE Erase \/ FreeMemory
    BY <2>4, EraseKeeps, FreeMemoryKeeps
  <2>5. CASE Purge \/ Purged \/ Stop
    BY <2>5, PurgeKeeps, PurgedKeeps, StopKeeps
  <2> QED BY <1>1, <2>1, <2>2, <2>3, <2>4, <2>5 DEF Manager
<1>2. CASE World
  <2>1. CASE \E a \in Addresses : DeleteEntity(a)
    BY <2>1, DeleteEntityKeeps
  <2>2. CASE \E a \in Addresses :
               \/ CreateClientOnly(a)
               \/ \E i \in Indexes : CreateNetworked(a, i)
               \/ \E i \in Indexes, hooked \in BOOLEAN : CreateCustom(a, i, hooked)
    BY <2>2, CreateKeeps
  <2>3. CASE \E l \in Listeners : AddClientEntityListener(l) \/ RemoveClientEntityListener(l)
    BY <2>3, ListenersKeep
  <2>4. CASE FlushPendingCreates \/ PurgeEntities \/ Shutdown
    BY <2>4, FlushPendingCreatesKeeps, PurgeEntitiesKeeps, ShutdownKeeps
  <2> QED BY <1>2, <2>1, <2>2, <2>3, <2>4 DEF World
<1>3. CASE UNCHANGED vars
  <2>1. UNCHANGED <<entities, live, used, tokens, nextToken, order, sidecars, modes, ctl>>
    BY <1>3 DEF vars, sidecars, modes
  <2>2. TypeOK'
    BY <1>3 DEF CoreInv, TypeOK, vars
  <2> QED BY <2>1, <2>2, CoreUnchanged
<1> QED BY <1>1, <1>2, <1>3 DEF Next

-----------------------------------------------------------------------------
(*****************************************************************************)
(* The first states, and what the invariant of records and calls gives.      *)
(*****************************************************************************)

\* The first state: no entity, or one that was there and is tracked silently.
Seeded(x, i) ==
  /\ live = [a \in Addresses |-> IF a = x THEN 1 ELSE None]
  /\ at = [a \in Addresses |-> IF a = x THEN i ELSE None]
  /\ used = 1 /\ nextToken = 2 /\ order = <<x>>
  /\ entities = [a \in Addresses |->
       IF a = x
       THEN [handle |-> 1, index |-> i, token |-> 1, deleting |-> FALSE,
             runtime |-> FALSE, sidecar |-> None, slotted |-> FALSE,
             createdNotified |-> TRUE, postConstructed |-> FALSE, removeNotified |-> FALSE]
       ELSE NoRecord]
  /\ tokens = [t \in Handles |-> IF t = 1 THEN x ELSE None]
  /\ told = [h \in Handles |-> IF h = 1 THEN <<"seeded">> ELSE <<>>]
Unseeded ==
  /\ live = [a \in Addresses |-> None] /\ at = [a \in Addresses |-> None]
  /\ used = 0 /\ nextToken = 1 /\ order = <<>>
  /\ entities = [a \in Addresses |-> NoRecord]
  /\ tokens = [t \in Handles |-> None]
  /\ told = [h \in Handles |-> <<>>]

\* ... and there is no other.
LEMMA FirstStates ==
  ASSUME Init
  PROVE  Unseeded \/ \E x \in Addresses, i \in Indexes \cup {None} : Seeded(x, i)
<1>1. PICK seed \in {NoSlot} \cup
         {[a |-> CHOOSE a \in Addresses : TRUE, h |-> 1, i |-> i] : i \in Indexes \cup {None}} :
       LET seeded == seed # NoSlot IN
       /\ live = [a \in Addresses |-> IF a = seed.a THEN 1 ELSE None]
       /\ at = [a \in Addresses |-> IF a = seed.a THEN seed.i ELSE None]
       /\ used = IF seeded THEN 1 ELSE 0
       /\ entities = [a \in Addresses |->
            IF a = seed.a
            THEN [handle |-> 1, index |-> seed.i, token |-> 1, deleting |-> FALSE,
                  runtime |-> FALSE, sidecar |-> None, slotted |-> FALSE,
                  createdNotified |-> TRUE, postConstructed |-> FALSE, removeNotified |-> FALSE]
            ELSE NoRecord]
       /\ tokens = [t \in Handles |-> IF seeded /\ t = 1 THEN seed.a ELSE None]
       /\ nextToken = IF seeded THEN 2 ELSE 1
       /\ order = IF seeded THEN <<seed.a>> ELSE <<>>
       /\ told = [h \in Handles |-> IF seeded /\ h = 1 THEN <<"seeded">> ELSE <<>>]
  BY DEF Init
<1>2. CASE seed = NoSlot
  <2>1. \A a \in Addresses : a # seed.a
    BY <1>2, ConstantsOK DEF NoSlot, None
  <2> QED BY <1>1, <1>2, <2>1 DEF Unseeded
<1>3. CASE seed # NoSlot
  <2>1. PICK i \in Indexes \cup {None} : seed = [a |-> CHOOSE a \in Addresses : TRUE, h |-> 1, i |-> i]
    BY <1>3
  <2>2. PICK x \in Addresses : x = CHOOSE a \in Addresses : TRUE
    BY ConstantsOK
  <2>3. seed.a = x /\ seed.i = i
    BY <2>1, <2>2
  <2>4. /\ live = [a \in Addresses |-> IF a = x THEN 1 ELSE None]
        /\ at = [a \in Addresses |-> IF a = x THEN i ELSE None]
        /\ used = 1 /\ nextToken = 2 /\ order = <<x>>
    BY <1>1, <1>3, <2>3
  <2>5. entities = [a \in Addresses |->
          IF a = x
          THEN [handle |-> 1, index |-> i, token |-> 1, deleting |-> FALSE,
                runtime |-> FALSE, sidecar |-> None, slotted |-> FALSE,
                createdNotified |-> TRUE, postConstructed |-> FALSE, removeNotified |-> FALSE]
          ELSE NoRecord]
    BY <1>1, <2>3
  <2>6. /\ tokens = [t \in Handles |-> IF t = 1 THEN x ELSE None]
        /\ told = [h \in Handles |-> IF h = 1 THEN <<"seeded">> ELSE <<>>]
    BY <1>1, <1>3, <2>3
  <2>7. Seeded(x, i)
    BY <2>4, <2>5, <2>6 DEF Seeded
  <2> QED BY <2>7
<1> QED BY <1>2, <1>3

\* Its types.
LEMMA FirstTyped ==
  ASSUME Init
  PROVE  TypeOK /\ Bounded
<1>1. /\ pending = <<>> /\ listeners = <<>> /\ ctl = <<>>
      /\ slots = [i \in Indexes |-> NoSlot] /\ blocks = 0 /\ free = <<>>
      /\ available = TRUE /\ purging = FALSE /\ published \in BOOLEAN
  BY DEF Init
<1>2. /\ MaxHandles \in Nat /\ 1 \in Handles /\ 1 \in 0..MaxHandles /\ 0 \in 0..MaxHandles
      /\ 1 \in 1..(MaxHandles + 1) /\ 2 \in 1..(MaxHandles + 1) /\ None \in 0..MaxHandles
  BY ConstantsOK DEF Handles, None
<1>3. NoSlot \in Slot
  BY <1>2 DEF NoSlot, Slot
<1>4. slots \in [Indexes -> Slot]
  BY <1>1, <1>3
<1>7. /\ pending \in Seq(Addresses \X Handles) /\ listeners \in Seq(Listeners) /\ ctl \in Seq(Frame)
      /\ free \in Seq(1..MaxHandles) /\ blocks \in 0..MaxHandles
      /\ available \in BOOLEAN /\ purging \in BOOLEAN /\ published \in BOOLEAN
  <2>1. \A S : <<>> \in Seq(S)
    BY EmptySeq
  <2>2. TRUE \in BOOLEAN /\ FALSE \in BOOLEAN
    OBVIOUS
  <2> QED BY <1>1, <1>2, <2>1, <2>2
<1> DEFINE Typed == /\ live \in [Addresses -> 0..MaxHandles] /\ at \in [Addresses -> Indexes \cup {None}]
                    /\ used \in 0..MaxHandles /\ nextToken \in 1..(MaxHandles + 1)
                    /\ entities \in [Addresses -> Record \cup {NoRecord}]
                    /\ tokens \in [Handles -> Addresses \cup {None}]
                    /\ order \in Seq(Addresses)
                    /\ told \in [Handles -> Seq({"seeded", "constructed", "created", "removed", "destroyed"})]
<1>8. Typed => TypeOK
  BY <1>4, <1>7 DEF TypeOK, Slot
<1>5. CASE Unseeded
  <2>1. /\ live \in [Addresses -> 0..MaxHandles] /\ at \in [Addresses -> Indexes \cup {None}]
        /\ used \in 0..MaxHandles /\ nextToken \in 1..(MaxHandles + 1)
        /\ entities \in [Addresses -> Record \cup {NoRecord}]
        /\ tokens \in [Handles -> Addresses \cup {None}]
        /\ order \in Seq(Addresses)
        /\ told \in [Handles -> Seq({"seeded", "constructed", "created", "removed", "destroyed"})]
    BY <1>2, <1>5 DEF Unseeded
  <2>2. nextToken <= used + 1 /\ blocks <= used
    BY <1>1, <1>5 DEF Unseeded
  <2> QED BY <1>8, <2>1, <2>2 DEF Bounded
<1>6. ASSUME NEW x \in Addresses, NEW i \in Indexes \cup {None}, Seeded(x, i)
      PROVE  TypeOK /\ Bounded
  <2> DEFINE r == [handle |-> 1, index |-> i, token |-> 1, deleting |-> FALSE,
                   runtime |-> FALSE, sidecar |-> None, slotted |-> FALSE,
                   createdNotified |-> TRUE, postConstructed |-> FALSE, removeNotified |-> FALSE]
  <2>1. r \in Record
    BY <1>2 DEF Record
  <2>2. entities = [a \in Addresses |-> IF a = x THEN r ELSE NoRecord]
    BY <1>6 DEF Seeded
  <2> HIDE DEF r
  <2>3. entities \in [Addresses -> Record \cup {NoRecord}]
    BY <2>1, <2>2
  <2>4. /\ live \in [Addresses -> 0..MaxHandles] /\ at \in [Addresses -> Indexes \cup {None}]
        /\ used \in 0..MaxHandles /\ nextToken \in 1..(MaxHandles + 1)
        /\ tokens \in [Handles -> Addresses \cup {None}]
        /\ order \in Seq(Addresses)
    BY <1>2, <1>6 DEF Seeded
  <2>5. told \in [Handles -> Seq({"seeded", "constructed", "created", "removed", "destroyed"})]
    <3>1. <<"seeded">> \in Seq(Events) /\ <<>> \in Seq(Events)
      BY DEF Events
    <3>2. told \in [Handles -> Seq(Events)]
      BY <1>6, <3>1 DEF Seeded
    <3> QED BY <3>2 DEF Events
  <2>6. nextToken <= used + 1 /\ blocks <= used
    BY <1>1, <1>6 DEF Seeded
  <2> QED BY <1>8, <2>3, <2>4, <2>5, <2>6 DEF Bounded
<1> QED BY <1>5, <1>6, FirstStates

\* The core invariant holds at first.
LEMMA CoreInit ==
  ASSUME Init
  PROVE  CoreInv
<1>1. TypeOK /\ Bounded
  BY FirstTyped
<1>2. /\ ctl = <<>> /\ Len(ctl) = 0 /\ \A k : k \notin 1..Len(ctl)
      /\ slots = [i \in Indexes |-> NoSlot] /\ blocks = 0 /\ free = <<>>
      /\ available /\ ~purging
  BY DEF Init
<1>3. StackInv
  BY <1>2 DEF StackInv, Nested, Single, FramesFit, Place, AttachFit, Running, Freed, Purges
<1>4. SlotsFit
  <2>1. used \in Nat
    BY <1>1, ConstantsOK DEF TypeOK
  <2> SUFFICES ASSUME NEW i \in Indexes PROVE SlotFit(i)
    BY DEF SlotsFit
  <2>2. PICK s : s = slots[i] /\ s.a = None /\ s.h = None /\ s.sidecar = None
    BY <1>2 DEF NoSlot
  <2>3. s.h <= used
    BY <2>1, <2>2 DEF None
  <2> QED BY <2>2, <2>3 DEF SlotFit
<1>5. ASSUME \A a \in Addresses : Tracked(a) => entities[a].sidecar = None
      PROVE  Pooled
  <2>1. Owned = {}
    BY <1>5 DEF Owned
  <2>2. PICK O : O = Owned /\ O = {} /\ IsFiniteSet(O) /\ Cardinality(O) = 0
    BY <2>1, FS_EmptySet
  <2>3. Len(free) = 0 /\ \A k : k \notin 1..Len(free)
    BY <1>2
  <2>4. \A b \in Nat : b \notin 1..0
    OBVIOUS
  <2>5. \A b \in Nat : b \in 1..blocks <=> \/ \E a \in O : entities[a].sidecar = b
                                           \/ \E k \in 1..Len(free) : free[k] = b
    BY <1>2, <2>2, <2>3, <2>4
  <2>6. Cardinality(O) + Len(free) = blocks
    BY <1>2, <2>2, <2>3
  <2> QED BY <2>2, <2>5, <2>6 DEF Pooled
<1>6. CASE Unseeded
  <2>1. /\ \A a \in Addresses : ~Tracked(a) /\ live[a] = None
        /\ \A t \in Handles : tokens[t] = None
        /\ used = 0 /\ order = <<>>
    BY <1>6 DEF Unseeded, Tracked
  <2>2. RecordsFit /\ HandlesFit
    BY <2>1 DEF RecordsFit, HandlesFit, None
  <2>3. Listed
    <3>1. \A k : k \notin 1..Len(order)
      BY <2>1
    <3> QED BY <2>1, <3>1 DEF Listed
  <2>4. Pooled
    BY <1>5, <2>1
  <2> QED BY <1>1, <1>3, <1>4, <2>2, <2>3, <2>4 DEF CoreInv, RecordInv
<1>7. ASSUME NEW x \in Addresses, NEW i \in Indexes \cup {None}, Seeded(x, i)
      PROVE  CoreInv
  <2> DEFINE r == [handle |-> 1, index |-> i, token |-> 1, deleting |-> FALSE,
                   runtime |-> FALSE, sidecar |-> None, slotted |-> FALSE,
                   createdNotified |-> TRUE, postConstructed |-> FALSE, removeNotified |-> FALSE]
  <2>1. /\ r.handle = 1 /\ r.token = 1 /\ ~r.deleting /\ ~r.runtime /\ r.sidecar = None /\ ~r.slotted
    OBVIOUS
  <2>2. entities = [a \in Addresses |-> IF a = x THEN r ELSE NoRecord]
    BY <1>7 DEF Seeded
  <2> HIDE DEF r
  <2>3. entities[x] = r /\ \A a \in Addresses : Tracked(a) => a = x
    BY <2>2 DEF Tracked
  <2>4. Tracked(x)
    BY <2>1, <2>3 DEF Tracked, NoRecord, None
  <2>5. /\ used = 1 /\ nextToken = 2 /\ live[x] = 1 /\ \A a \in Addresses : a # x => live[a] = None
    BY <1>7 DEF Seeded
  <2>6. RecordsFit
    <3>1. RecordFit(x)
      BY <1>2, <2>1, <2>3, <2>5 DEF RecordFit
    <3> QED BY <2>3, <3>1 DEF RecordsFit
  <2>7. HandlesFit
    <3>1. \A a \in Addresses : live[a] <= used
      BY <2>5 DEF None
    <3> QED BY <2>3, <3>1 DEF HandlesFit
  <2>8. Listed
    <3>1. \A t \in Handles : tokens[t] # None => t = 1 /\ tokens[t] = x
      BY <1>7 DEF Seeded
    <3>2. tokens[1] = x
      <4>1. 1 \in Handles
        BY ConstantsOK DEF Handles
      <4> QED BY <1>7, <4>1 DEF Seeded
    <3>3. PICK s : s = order /\ Len(s) = 1 /\ s[1] = x /\ 1 \in 1..Len(s) /\ \A k \in 1..Len(s) : k = 1
      <4>1. PICK s : s = <<x>>
        OBVIOUS
      <4>2. Len(s) = 1 /\ s[1] = x
        BY <4>1
      <4>3. 1 \in 1..Len(s) /\ \A k \in 1..Len(s) : k = 1
        BY <4>2
      <4> QED BY <1>7, <4>1, <4>2, <4>3 DEF Seeded
    <3>4. \A j, k \in 1..Len(s) : s[j] = s[k] => j = k
      BY <3>3
    <3>5. \A k \in 1..Len(s) : Tracked(s[k])
      BY <2>4, <3>3
    <3>6. \A a \in Addresses : Tracked(a) => tokens[entities[a].token] = a /\ \E k \in 1..Len(s) : s[k] = a
      BY <2>1, <2>3, <3>2, <3>3
    <3>7. \A t \in Handles : tokens[t] # None => Tracked(tokens[t]) /\ entities[tokens[t]].token = t
      BY <2>1, <2>3, <2>4, <3>1
    <3> QED BY <3>3, <3>4, <3>5, <3>6, <3>7 DEF Listed
  <2>9. Pooled
    BY <1>5, <2>1, <2>3
  <2> QED BY <1>1, <1>3, <1>4, <2>6, <2>7, <2>8, <2>9 DEF CoreInv, RecordInv
<1> QED BY <1>6, <1>7, FirstStates

-----------------------------------------------------------------------------
(***************************************************************************)
(* What the core invariant gives.                                          *)
(***************************************************************************)

\* Records, tokens, the order of enumeration, sidecars and slots agree.
LEMMA RecordsConsistentByCore ==
  ASSUME CoreInv
  PROVE  RecordsConsistent
<1>1. /\ TypeOK /\ RecordsFit /\ SlotsFit /\ Listed /\ Pooled
  BY DEF CoreInv, RecordInv
<1>2. RegistryAgrees
  <2>1. order \in Seq(Addresses) /\ DOMAIN order = 1..Len(order)
    BY <1>1 DEF TypeOK
  <2>2. ASSUME NEW a \in Addresses, Tracked(a)
        PROVE  Cardinality({k \in DOMAIN order : order[k] = a}) = 1
    <3>1. PICK j \in 1..Len(order) : order[j] = a
      BY <1>1, <2>2 DEF Listed
    <3>2. {k \in DOMAIN order : order[k] = a} = {j}
      BY <1>1, <2>1, <3>1 DEF Listed
    <3>3. Cardinality({j}) = 1
      BY FS_Singleton
    <3> QED BY <3>2, <3>3
  <2> QED BY <1>1, <2>1, <2>2 DEF RegistryAgrees, Listed
<1>3. SidecarsExact
  <2>1. free \in Seq(1..MaxHandles) /\ DOMAIN free = 1..Len(free) /\ blocks \in Nat
    BY <1>1, ConstantsOK DEF TypeOK
  <2>2. \A a \in Owned : entities[a].sidecar \in Nat
    <3> SUFFICES ASSUME NEW a \in Owned PROVE entities[a].sidecar \in Nat
      OBVIOUS
    <3>1. entities[a] \in Record
      BY <1>1, RecordTyped DEF Owned
    <3> QED BY <3>1, ConstantsOK DEF Record
  <2>3. {entities[a].sidecar : a \in Owned} \cup {free[k] : k \in DOMAIN free} = 1..blocks
    <3>1. \A k \in 1..Len(free) : free[k] \in Nat
      <4>1. \A k \in 1..Len(free) : free[k] \in 1..MaxHandles
        BY <2>1, ElementOfSeq
      <4>2. \A n \in 1..MaxHandles : n \in Nat
        BY ConstantsOK
      <4> QED BY <4>1, <4>2
    <3>2. \A b : b \in 1..blocks => b \in Nat
      BY <2>1
    <3>3. \A b \in Nat : b \in 1..blocks <=> \/ \E a \in Owned : entities[a].sidecar = b
                                             \/ \E k \in 1..Len(free) : free[k] = b
      BY <1>1 DEF Pooled
    <3> QED BY <2>1, <2>2, <3>1, <3>2, <3>3
  <2>4. Cardinality(Owned) + Len(free) = blocks
    BY <1>1 DEF Pooled
  <2> QED BY <2>3, <2>4 DEF SidecarsExact, Owned
<1>4. SlotsSafe
  <2> SUFFICES ASSUME NEW i \in Indexes, NEW a \in Addresses, SidecarAt(i, a) # None
               PROVE  Tracked(a) /\ entities[a].handle = live[a] /\ entities[a].sidecar = SidecarAt(i, a)
    BY DEF SlotsSafe
  <2>1. PICK s : s = slots[i]
    OBVIOUS
  <2>2. s.a = a /\ live[a] = s.h /\ SidecarAt(i, a) = s.sidecar /\ s.sidecar # None
    BY <2>1 DEF SidecarAt
  <2>3. s.h # None /\ s.a # None
    BY <1>1, <2>1, <2>2, ConstantsOK DEF SlotsFit, SlotFit
  <2>4. IsCurrent(s.a, s.h) /\ entities[s.a].sidecar = s.sidecar
    BY <1>1, <2>1, <2>2, <2>3 DEF SlotsFit, SlotFit
  <2> QED BY <2>2, <2>4 DEF IsCurrent
<1> QED BY <1>2, <1>3, <1>4 DEF RecordsConsistent

\* Callbacks find the record, and the sidecar, that they are about.
LEMMA CallbacksSeeRecordByCore ==
  ASSUME CoreInv
  PROVE  CallbacksSeeRecord
<1>1. TypeOK /\ Nested(ctl) /\ FramesFit /\ RecordsFit
  BY DEF CoreInv, StackInv, RecordInv
<1>2. ctl \in Seq(Frame) /\ DOMAIN ctl = 1..Len(ctl)
  BY <1>1 DEF TypeOK
<1>3. ASSUME NEW k \in 1..Len(ctl), ctl[k].op \in {"removed", "forwardDestroyed", "listenerDestroyed"}
      PROVE  IsCurrent(ctl[k].a, ctl[k].h) /\ (purging \/ live[ctl[k].a] = ctl[k].h)
  <2>1. FrameFit(ctl[k])
    BY <1>1 DEF FramesFit, Place
  <2>2. IsCurrent(ctl[k].a, ctl[k].h) /\ ctl[k].a \in Addresses
    BY <1>3, <2>1 DEF FrameFit, RecordOps, OfEntity, Ops, Callbacks
  <2>3. RecordFit(ctl[k].a)
    BY <1>1, <2>2 DEF RecordsFit, IsCurrent
  <2> QED BY <2>2, <2>3 DEF RecordFit, IsCurrent
<1>4. ASSUME ctl # <<>>
      PROVE  Top = ctl[1] /\ 1 \in 1..Len(ctl) /\ FrameFit(Top)
  <2>1. Top = ctl[1] /\ 1 \in 1..Len(ctl)
    BY <1>2, <1>4 DEF Top
  <2> QED BY <1>1, <2>1 DEF FramesFit, Place
<1>5. Running("removed") => entities[Top.a].sidecar # None
  <2> SUFFICES ASSUME Running("removed") PROVE entities[Top.a].sidecar # None
    OBVIOUS
  <2>1. FrameFit(Top) /\ Top.op = "removed"
    BY <1>4 DEF Running
  <2>2. Top.a \in Addresses /\ Tracked(Top.a) /\ entities[Top.a].runtime
    BY <2>1 DEF FrameFit, RecordOps, OfEntity, Ops, Callbacks, IsCurrent
  <2> QED BY <1>1, <2>2 DEF RecordsFit, RecordFit
<1>6. Running("return") /\ ReturnsEntity => live[Top.a] = Top.h
  <2> SUFFICES ASSUME Running("return"), ReturnsEntity PROVE live[Top.a] = Top.h
    OBVIOUS
  <2>1. FrameFit(Top) /\ Top.op = "return"
    BY <1>4 DEF Running
  <2>2. Tracked(Top.a) /\ entities[Top.a].token = Top.t /\ live[Top.a] = entities[Top.a].handle
    BY DEF ReturnsEntity, IsSameClientEntity, Resolve
  <2> QED BY <2>1, <2>2 DEF FrameFit
<1> QED BY <1>2, <1>3, <1>5, <1>6 DEF CallbacksSeeRecord

-----------------------------------------------------------------------------

\* In every reachable state the core invariant holds: the variables have their
\* types, tokens and slots are within their bounds, the calls on the C++ stack are
\* stacked only as the manager stacks them, each with the record, handle and
\* entity that it still relies on, and records, tokens, handles, slots and
\* sidecars name each other.
THEOREM CoreInvariant == Spec => []CoreInv
<1>1. Init => CoreInv
  BY CoreInit
<1>2. CoreInv /\ [Next]_vars => CoreInv'
  BY CoreNext
<1> QED BY <1>1, <1>2, PTL DEF Spec

\* Every variable of the manager keeps its type, the tokens of records that were
\* removed and the frames of calls that are still to return included.
THEOREM TypeCorrect == Spec => []TypeOK
<1>1. CoreInv => TypeOK
  BY DEF CoreInv
<1> QED BY <1>1, CoreInvariant, PTL

\* However callbacks create and delete entities inside those of the manager,
\* entities_, clientTokens_ and entityOrder_ describe the same entities at every
\* moment, each sidecar block belongs to one record or is in the pool once, and a
\* receive proxy finds no sidecar but that of the very entity it decodes.
THEOREM RecordsAlwaysConsistent == Spec => []RecordsConsistent
<1>1. CoreInv => RecordsConsistent
  BY RecordsConsistentByCore
<1> QED BY <1>1, CoreInvariant, PTL

\* The callbacks of a destruction find the record of the entity that goes, outside
\* a purge the entity too, and OnRemove its sidecar, whatever they create and
\* delete: OnEntityDeleted erases only after they have returned.  Create returns
\* no entity that callbacks have deleted.
THEOREM CallbacksAlwaysSeeRecord == Spec => []CallbacksSeeRecord
<1>1. CoreInv => CallbacksSeeRecord
  BY CallbacksSeeRecordByCore
<1> QED BY <1>1, CoreInvariant, PTL

-----------------------------------------------------------------------------
(*****************************************************************************)
(* Durable references.                                                       *)
(*****************************************************************************)

\* A construction is a record's beginning.
LEMMA CreateIs ==
  ASSUME CoreInv, NEW a \in Addresses,
         \/ CreateClientOnly(a)
         \/ \E i \in Indexes : CreateNetworked(a, i)
         \/ \E i \in Indexes, hooked \in BOOLEAN : CreateCustom(a, i, hooked)
  PROVE  /\ \E h \in Handles, i \in Indexes \cup {None}, custom, hooked \in BOOLEAN :
              Constructed(a, h, i, custom, hooked)
         /\ told' = told
         /\ \E x : x.op \in {"notify", "attach"} /\ (ctl' = <<>> \o ctl \/ ctl' = <<x>> \o ctl)
<1>1. ASSUME NEW i \in Indexes \cup {None}, NEW custom \in BOOLEAN, NEW hooked \in BOOLEAN,
             NEW networked \in BOOLEAN, NEW after, MayCall("create"),
             Construct(a, i, custom, hooked, networked, after),
             \/ after = <<>>
             \/ networked /\ after = <<Do("attach", a, used + 1)>>
      PROVE  /\ \E h \in Handles : Constructed(a, h, i, custom, hooked)
             /\ told' = told
             /\ \E x : x.op \in {"notify", "attach"} /\ (ctl' = <<>> \o ctl \/ ctl' = <<x>> \o ctl)
  <2>1. /\ used + 1 \in Handles /\ live[a] = None /\ live' = [live EXCEPT ![a] = used + 1]
        /\ used' = used + 1 /\ UNCHANGED modes
        /\ IF available /\ ~purging THEN Track(a, used + 1, i, custom, hooked)
           ELSE UNCHANGED <<registry, sidecars>>
        /\ told' = told
        /\ ctl' = ((IF available /\ ~purging /\ ~networked THEN <<Do("notify", a, used + 1)>> ELSE <<>>) \o after)
                    \o ctl
    BY <1>1 DEF Construct, Calls
  <2>2. ctl # <<>> => Top.op \in Callbacks
    BY <1>1, CallsInCallbacks
  <2>3. Constructed(a, used + 1, i, custom, hooked)
    BY <2>1, <2>2 DEF Constructed
  <2>4. PICK x, y : x = Do("notify", a, used + 1) /\ x.op = "notify" /\ y = Do("attach", a, used + 1) /\ y.op = "attach"
    <3>1. Do("notify", a, used + 1).op = "notify" /\ Do("attach", a, used + 1).op = "attach"
      BY DEF Do
    <3> QED BY <3>1
  <2>5. PICK before : before = IF available /\ ~purging /\ ~networked THEN <<x>> ELSE <<>>
    OBVIOUS
  <2>6. (before \o after = <<>>) \/ (before \o after = <<x>>) \/ (before \o after = <<y>>)
    <3>1. <<>> \o <<>> = <<>> /\ <<x>> \o <<>> = <<x>> /\ <<>> \o <<y>> = <<y>>
      OBVIOUS
    <3>2. before = <<>> \/ (~networked /\ before = <<x>>)
      BY <2>5
    <3>3. after = <<>> \/ (networked /\ after = <<y>>)
      BY <1>1, <2>4
    <3>4. CASE before = <<>> /\ after = <<>>
      BY <3>1, <3>4
    <3>5. CASE before = <<x>> /\ after = <<>>
      BY <3>1, <3>5
    <3>6. CASE before = <<>> /\ after = <<y>>
      BY <3>1, <3>6
    <3> QED BY <3>2, <3>3, <3>4, <3>5, <3>6
  <2>7. ctl' = (before \o after) \o ctl
    BY <2>1, <2>4, <2>5
  <2>8. \E z : z.op \in {"notify", "attach"} /\ (ctl' = <<>> \o ctl \/ ctl' = <<z>> \o ctl)
    <3>1. CASE before \o after = <<>> \/ before \o after = <<x>>
      <4>1. x.op \in {"notify", "attach"} /\ (ctl' = <<>> \o ctl \/ ctl' = <<x>> \o ctl)
        BY <2>4, <2>7, <3>1
      <4> QED BY <4>1
    <3>2. CASE before \o after = <<y>>
      <4>1. y.op \in {"notify", "attach"} /\ ctl' = <<y>> \o ctl
        BY <2>4, <2>7, <3>2
      <4> QED BY <4>1
    <3> QED BY <2>6, <3>1, <3>2
  <2> QED BY <2>1, <2>3, <2>8
<1>2. CASE CreateClientOnly(a)
  <2>1. MayCall("create") /\ Construct(a, None, FALSE, FALSE, FALSE, <<>>)
    BY <1>2 DEF CreateClientOnly
  <2>2. PICK i \in Indexes \cup {None}, no \in BOOLEAN : i = None /\ no = FALSE
    OBVIOUS
  <2>2a. PICK after : after = <<>>
    OBVIOUS
  <2>3. Construct(a, i, no, no, no, after)
    BY <2>1, <2>2, <2>2a
  <2>4. /\ \E h \in Handles : Constructed(a, h, i, no, no)
        /\ told' = told
        /\ \E x : x.op \in {"notify", "attach"} /\ (ctl' = <<>> \o ctl \/ ctl' = <<x>> \o ctl)
    BY <1>1, <2>1, <2>2, <2>2a, <2>3
  <2> QED BY <2>4
<1>3. CASE \E i \in Indexes : CreateNetworked(a, i)
  <2>1. PICK i \in Indexes : CreateNetworked(a, i)
    BY <1>3
  <2>2. MayCall("create") /\ Construct(a, i, FALSE, FALSE, TRUE, <<>>)
    BY <2>1 DEF CreateNetworked
  <2>3. PICK j \in Indexes \cup {None}, no \in BOOLEAN, yes \in BOOLEAN : j = i /\ no = FALSE /\ yes = TRUE
    OBVIOUS
  <2>3a. PICK after : after = <<>>
    OBVIOUS
  <2>4. Construct(a, j, no, no, yes, after)
    BY <2>2, <2>3, <2>3a
  <2>5. /\ \E h \in Handles : Constructed(a, h, j, no, no)
        /\ told' = told
        /\ \E x : x.op \in {"notify", "attach"} /\ (ctl' = <<>> \o ctl \/ ctl' = <<x>> \o ctl)
    BY <1>1, <2>2, <2>3, <2>3a, <2>4
  <2> QED BY <2>5
<1>4. CASE \E i \in Indexes, hooked \in BOOLEAN : CreateCustom(a, i, hooked)
  <2>1. PICK i \in Indexes, hooked \in BOOLEAN : CreateCustom(a, i, hooked)
    BY <1>4
  <2>2. MayCall("create") /\ Construct(a, i, TRUE, hooked, TRUE, <<Do("attach", a, used + 1)>>)
    BY <2>1 DEF CreateCustom
  <2>3. PICK j \in Indexes \cup {None}, yes \in BOOLEAN : j = i /\ yes = TRUE
    OBVIOUS
  <2>3a. PICK after : after = <<Do("attach", a, used + 1)>>
    OBVIOUS
  <2>4. Construct(a, j, yes, hooked, yes, after)
    BY <2>2, <2>3, <2>3a
  <2>5. /\ \E h \in Handles : Constructed(a, h, j, yes, hooked)
        /\ told' = told
        /\ \E x : x.op \in {"notify", "attach"} /\ (ctl' = <<>> \o ctl \/ ctl' = <<x>> \o ctl)
    BY <1>1, <2>2, <2>3, <2>3a, <2>4
  <2> QED BY <2>5
<1> QED BY <1>2, <1>3, <1>4

\* A record of the next state is that of the entity it was.
Older(b) ==
  Tracked(b)' =>
    Tracked(b) /\ entities'[b].handle = entities[b].handle /\ entities'[b].token = entities[b].token

\* The manager's code adds no record, and no entity.
LEMMA ManagerAddsNone ==
  ASSUME CoreInv, Manager
  PROVE  /\ \A b \in Addresses : Older(b) /\ (live'[b] = live[b] \/ live'[b] = None)
         /\ available' => available
<1>1. TypeOK /\ (ctl # <<>> => FrameFit(Top))
  BY TopIs DEF CoreInv
<1>2. ASSUME \A b \in Addresses : SameEntry(b) PROVE \A b \in Addresses : Older(b)
  BY <1>2 DEF SameEntry, Older
<1>3. ASSUME entities' = entities PROVE \A b \in Addresses : Older(b)
  BY <1>3 DEF Older, Tracked
<1>4. /\ \A b \in Addresses : live'[b] = live[b] \/ live'[b] = None
      /\ available' => available
  <2>1. CASE FreeMemory
    <3>1. live' = [live EXCEPT ![Top.a] = None] /\ live \in [Addresses -> 0..MaxHandles] /\ modes' = modes
      BY <1>1, <2>1 DEF FreeMemory, TypeOK
    <3> QED BY <3>1 DEF modes
  <2>2. CASE Purged
    BY <2>2 DEF Purged, engine
  <2>3. CASE Stop
    BY <2>3 DEF Stop, engine
  <2>4. CASE ~FreeMemory /\ ~Purged /\ ~Stop
    <3>1. live' = live /\ available' = available
      BY <2>4 DEF Manager, AttachRuntime, CreateReturns, CallbackReturns, NotifyCreated,
                  CreatedListeners, TellCreated, Flush, OnEntityDeleted, CleanupRuntime, CleanedUp,
                  NotifyDestroyed, DestroyedListeners, TellDestroyed, Erase, Purge, engine, modes
    <3> QED BY <3>1
  <2> QED BY <2>1, <2>2, <2>3, <2>4
<1>5. CASE AttachRuntime
  <2>1. \/ entities' = entities
        \/ Tracked(Top.a) /\ entities' = [entities EXCEPT ![Top.a].postConstructed = TRUE]
    BY <1>5 DEF AttachRuntime, Attachable
  <2>2. Top.a \in Addresses
    BY <1>1, <1>5 DEF AttachRuntime, Running, FrameFit, OfEntity, Ops
  <2>3. CASE Tracked(Top.a) /\ entities' = [entities EXCEPT ![Top.a].postConstructed = TRUE]
    <3>1. \A b \in Addresses : SameCore(b)
      BY <1>1, <2>2, <2>3, SameMarked
    <3> QED BY <1>2, <3>1, <1>4, SameIsSame
  <2> QED BY <1>3, <1>4, <2>1, <2>3
<1>6. CASE NotifyCreated
  <2>1. \/ entities' = entities
        \/ Tracked(Top.a) /\ entities' = [entities EXCEPT ![Top.a].createdNotified = TRUE]
    BY <1>6 DEF NotifyCreated, IsCurrent
  <2>2. Top.a \in Addresses
    BY <1>1, <1>6 DEF NotifyCreated, Running, FrameFit, OfEntity, Ops
  <2>3. CASE Tracked(Top.a) /\ entities' = [entities EXCEPT ![Top.a].createdNotified = TRUE]
    <3>1. \A b \in Addresses : SameCore(b)
      BY <1>1, <2>2, <2>3, SameMarked
    <3> QED BY <1>2, <3>1, <1>4, SameIsSame
  <2> QED BY <1>3, <1>4, <2>1, <2>3
<1>7. CASE OnEntityDeleted
  <2>1. \/ entities' = entities
        \/ Tracked(Top.a) /\ entities' = [entities EXCEPT ![Top.a].deleting = TRUE]
    BY <1>7 DEF OnEntityDeleted
  <2>2. Top.a \in Addresses
    BY <1>1, <1>7 DEF OnEntityDeleted, Running, FrameFit, OfEntity, Ops
  <2>3. CASE Tracked(Top.a) /\ entities' = [entities EXCEPT ![Top.a].deleting = TRUE]
    BY <1>1, <1>2, <1>4, <2>2, <2>3, MarkedEntry
  <2> QED BY <1>3, <1>4, <2>1, <2>3
<1>8. CASE CleanupRuntime
  <2>1. \/ entities' = entities
        \/ Tracked(Top.a) /\ entities' = [entities EXCEPT ![Top.a].removeNotified = TRUE]
    BY <1>8 DEF CleanupRuntime
  <2>2. Top.a \in Addresses
    BY <1>1, <1>8 DEF CleanupRuntime, Running, FrameFit, OfEntity, Ops
  <2>3. CASE Tracked(Top.a) /\ entities' = [entities EXCEPT ![Top.a].removeNotified = TRUE]
    BY <1>1, <1>2, <1>4, <2>2, <2>3, MarkedEntry
  <2> QED BY <1>3, <1>4, <2>1, <2>3
<1>9. CASE CleanedUp
  <2>1. \/ entities' = entities
        \/ /\ Tracked(Top.a)
           /\ entities' = [entities EXCEPT ![Top.a].slotted = FALSE, ![Top.a].runtime = FALSE,
                                           ![Top.a].sidecar = None]
    BY <1>9 DEF CleanedUp, IsCurrent
  <2>2. Top.a \in Addresses
    BY <1>1, <1>9 DEF CleanedUp, Running, FrameFit, OfEntity, Ops
  <2>3. CASE /\ Tracked(Top.a)
             /\ entities' = [entities EXCEPT ![Top.a].slotted = FALSE, ![Top.a].runtime = FALSE,
                                             ![Top.a].sidecar = None]
    <3>1. PICK a \in Addresses : a = Top.a
      BY <2>2
    <3>2. Tracked(a) /\ entities' = [entities EXCEPT ![a].slotted = FALSE, ![a].runtime = FALSE, ![a].sidecar = None]
      BY <2>3, <3>1
    <3>3. /\ \A b \in Addresses : b # a => entities'[b] = entities[b]
          /\ \A b \in Addresses : Tracked(b)' <=> Tracked(b)
          /\ entities'[a].handle = entities[a].handle /\ entities'[a].token = entities[a].token
      BY <1>1, <3>2, CleanedEntry
    <3>4. \A b \in Addresses : Older(b)
      BY <3>3 DEF Older
    <3> QED BY <1>4, <3>4
  <2> QED BY <1>3, <1>4, <2>1, <2>3
<1>10. CASE Erase
  <2>1. entities' = entities \/ entities' = [entities EXCEPT ![Top.a] = NoRecord]
    BY <1>10 DEF Erase
  <2>2. entities \in [Addresses -> Record \cup {NoRecord}]
    BY <1>1 DEF TypeOK
  <2>3. ASSUME entities' = [entities EXCEPT ![Top.a] = NoRecord], NEW b \in Addresses PROVE Older(b)
    <3>1. entities'[b] = NoRecord \/ entities'[b] = entities[b]
      BY <2>2, <2>3
    <3> QED BY <3>1 DEF Older, Tracked
  <2> QED BY <1>3, <1>4, <2>1, <2>3
<1>11. CASE Purged
  BY <1>4, <1>11 DEF Purged, Older, Tracked
<1>12. CASE \/ CreateReturns \/ CallbackReturns \/ CreatedListeners \/ TellCreated \/ Flush
            \/ NotifyDestroyed \/ DestroyedListeners \/ TellDestroyed \/ FreeMemory \/ Purge \/ Stop
  <2>1. entities' = entities
    BY <1>12 DEF CreateReturns, CallbackReturns, CreatedListeners, TellCreated, Flush,
                 NotifyDestroyed, DestroyedListeners, TellDestroyed, FreeMemory, Purge, Stop, registry
  <2> QED BY <1>3, <1>4, <2>1
<1> QED BY <1>5, <1>6, <1>7, <1>8, <1>9, <1>10, <1>11, <1>12 DEF Manager

\* A token that resolves did so before, to the same entity.
LEMMA TokensStep ==
  ASSUME CoreInv, [Next]_vars
  PROVE  \A t \in 1..(nextToken - 1) : \A a \in Resolve(t)' : a \in Resolve(t) /\ live'[a] = live[a]
<1> SUFFICES ASSUME NEW t \in 1..(nextToken - 1), NEW a \in Resolve(t)'
             PROVE  a \in Resolve(t) /\ live'[a] = live[a]
  OBVIOUS
<1>1. /\ TypeOK /\ Bounded /\ RecordsFit /\ Listed
  BY DEF CoreInv, RecordInv
<1>2. CoreInv'
  BY CoreNext
<1>3. /\ a \in Addresses /\ available' /\ Tracked(a)' /\ entities'[a].token = t
      /\ live'[a] = entities'[a].handle
  BY DEF Resolve
<1>4. entities'[a].handle # None
  <2>1. TypeOK'
    BY <1>2 DEF CoreInv
  <2>2. entities'[a] \in Record
    BY <1>3, <2>1 DEF TypeOK, Tracked
  <2> QED BY <2>2 DEF Record, Handles, None
<1>5. ASSUME available' => available, Older(a), live'[a] = live[a]
      PROVE  a \in Resolve(t) /\ live'[a] = live[a]
  <2>1. Tracked(a) /\ entities[a].token = t /\ live[a] = entities[a].handle
    BY <1>3, <1>5 DEF Older
  <2>2. tokens[t] = a
    BY <1>1, <1>3, <2>1 DEF Listed
  <2> QED BY <1>3, <1>5, <2>1, <2>2 DEF Resolve
<1>6. CASE Manager
  <2>1. Older(a) /\ (live'[a] = live[a] \/ live'[a] = None) /\ (available' => available)
    BY <1>3, <1>6, ManagerAddsNone
  <2> QED BY <1>3, <1>4, <1>5, <2>1
<1>7. ASSUME NEW x \in Addresses,
             \/ CreateClientOnly(x)
             \/ \E i \in Indexes : CreateNetworked(x, i)
             \/ \E i \in Indexes, hooked \in BOOLEAN : CreateCustom(x, i, hooked)
      PROVE  a \in Resolve(t) /\ live'[a] = live[a]
  <2>1. PICK h \in Handles, i \in Indexes \cup {None}, custom \in BOOLEAN, hooked \in BOOLEAN :
          Constructed(x, h, i, custom, hooked)
    BY <1>7, CreateIs
  <2>2. TypeOK'
    BY <1>2 DEF CoreInv
  <2>3. /\ used \in Nat /\ h = used + 1 /\ nextToken \in Nat
        /\ available' = available /\ purging' = purging
        /\ live'[x] = h /\ \A b \in Addresses : b # x => live'[b] = live[b]
        /\ \A b \in Addresses : Tracked(b) => entities[b].handle <= used /\ entities[b].handle \in Handles
        /\ \A b \in Addresses : Tracked(b) => Tracked(b)' /\ entities'[b] = entities[b]
        /\ \A b \in Addresses : Tracked(b)' => Tracked(b) \/ (b = x /\ available /\ ~purging)
    BY <2>1, <2>2, Added, ZenonT(40)
  <2>4. Tracked(a)
    <3> SUFFICES ASSUME ~Tracked(a) PROVE FALSE
      OBVIOUS
    <3>1. a = x /\ available /\ ~purging
      BY <1>3, <2>3
    <3>2. Track(x, h, i, custom, hooked) /\ h = used + 1
      BY <2>1, <3>1 DEF Constructed
    <3>3. entities'[x].token = nextToken
      BY <1>1, <2>2, <3>2, NewEntry
    <3>4. t = nextToken
      BY <1>3, <3>1, <3>3
    <3> QED BY <2>3, <3>4
  <2>5. Older(a)
    BY <1>3, <2>3, <2>4 DEF Older
  <2>6. live'[a] = live[a]
    <3>1. CASE a = x
      <4>1. entities'[a].handle <= used /\ entities'[a].handle \in Nat
        BY <1>3, <2>3, <2>4 DEF Handles
      <4>2. live'[a] = used + 1
        BY <2>3, <3>1
      <4> QED BY <1>3, <2>3, <4>1, <4>2
    <3>2. CASE a # x
      BY <1>3, <2>3, <3>2
    <3> QED BY <3>1, <3>2
  <2> QED BY <1>5, <2>3, <2>5, <2>6
<1>8. ASSUME entities' = entities, live' = live, available' = available
      PROVE  a \in Resolve(t) /\ live'[a] = live[a]
  BY <1>5, <1>8 DEF Older, Tracked
<1>9. CASE World
  <2>1. CASE \E x \in Addresses : DeleteEntity(x)
    BY <1>8, <2>1 DEF DeleteEntity, engine, registry, modes
  <2>2. CASE \E l \in Listeners : AddClientEntityListener(l) \/ RemoveClientEntityListener(l)
    BY <1>8, <2>2 DEF AddClientEntityListener, RemoveClientEntityListener, engine, registry, modes
  <2>3. CASE FlushPendingCreates \/ PurgeEntities \/ Shutdown
    BY <1>8, <2>3 DEF FlushPendingCreates, PurgeEntities, Shutdown, engine, registry, modes
  <2>4. CASE \E x \in Addresses :
               \/ CreateClientOnly(x)
               \/ \E i \in Indexes : CreateNetworked(x, i)
               \/ \E i \in Indexes, hooked \in BOOLEAN : CreateCustom(x, i, hooked)
    BY <1>7, <2>4
  <2> QED BY <1>9, <2>1, <2>2, <2>3, <2>4 DEF World
<1>10. CASE UNCHANGED vars
  BY <1>8, <1>10 DEF vars
<1> QED BY <1>6, <1>9, <1>10 DEF Next

\* A durable reference that plugins were given resolves to the entity it was made
\* for or to nothing: a token that has died names no later entity, whatever slot,
\* address or handle the later entity reuses.
THEOREM TokensNeverReviveHolds == Spec => TokensNeverRevive
<1>1. CoreInv /\ [Next]_vars =>
        \A t \in 1..(nextToken - 1) : \A a \in Resolve(t)' : a \in Resolve(t) /\ live'[a] = live[a]
  BY TokensStep
<1>2. CoreInv /\ [Next]_vars =>
        [\A t \in 1..(nextToken - 1) : \A a \in Resolve(t)' : a \in Resolve(t) /\ live'[a] = live[a]]_vars
  BY <1>1
<1>3. Init => CoreInv
  BY CoreInit
<1>4. CoreInv /\ [Next]_vars => CoreInv'
  BY CoreNext
<1> QED BY <1>2, <1>3, <1>4, PTL DEF Spec, TokensNeverRevive

-----------------------------------------------------------------------------
(*****************************************************************************)
(* Events: what is on the stack, and what was said.                          *)
(*****************************************************************************)

\* What a stack has is above, or below.
LEMMA HasOver ==
  ASSUME NEW S, NEW c \in Seq(S), NEW s \in Seq(S), NEW op, NEW a
  PROVE  Has(c \o s, op, a) <=> Has(c, op, a) \/ Has(s, op, a)
<1>1. /\ c \o s \in Seq(S) /\ Len(c \o s) = Len(c) + Len(s) /\ Len(c) \in Nat /\ Len(s) \in Nat
      /\ \A k \in 1..Len(c) : (c \o s)[k] = c[k]
      /\ \A k \in 1..Len(s) : (c \o s)[k + Len(c)] = s[k]
  <2>1. /\ \A k \in 1..Len(c \o s) : (c \o s)[k] = IF k <= Len(c) THEN c[k] ELSE s[k - Len(c)]
        /\ Len(c \o s) = Len(c) + Len(s) /\ Len(c) \in Nat /\ Len(s) \in Nat /\ c \o s \in Seq(S)
    BY ConcatProperties
  <2>2. \A k \in 1..Len(s) : k + Len(c) \in 1..Len(c \o s) /\ ~(k + Len(c) <= Len(c)) /\ (k + Len(c)) - Len(c) = k
    BY <2>1
  <2>3. \A k \in 1..Len(c) : k \in 1..Len(c \o s) /\ k <= Len(c)
    BY <2>1
  <2> QED BY <2>1, <2>2, <2>3
<1>2. ASSUME Has(c \o s, op, a) PROVE Has(c, op, a) \/ Has(s, op, a)
  <2>1. PICK k \in 1..Len(c \o s) : (c \o s)[k].op = op /\ (c \o s)[k].a = a
    BY <1>2 DEF Has
  <2>2. CASE k <= Len(c)
    BY <1>1, <2>1, <2>2 DEF Has
  <2>3. CASE k > Len(c)
    <3>1. PICK j \in 1..Len(s) : j = k - Len(c) /\ j + Len(c) = k
      BY <1>1, <2>1, <2>3
    <3> QED BY <1>1, <2>1, <3>1 DEF Has
  <2> QED BY <1>1, <2>2, <2>3
<1>3. Has(c, op, a) => Has(c \o s, op, a)
  <2>1. \A k \in 1..Len(c) : k \in 1..Len(c \o s)
    BY <1>1
  <2> QED BY <1>1, <2>1 DEF Has
<1>4. Has(s, op, a) => Has(c \o s, op, a)
  <2>1. \A k \in 1..Len(s) : k + Len(c) \in 1..Len(c \o s)
    BY <1>1
  <2> QED BY <1>1, <2>1 DEF Has
<1> QED BY <1>2, <1>3, <1>4

\* ... is the innermost call, or one under it.
LEMMA HasUnder ==
  ASSUME NEW S, NEW s \in Seq(S), s # <<>>, NEW op, NEW a
  PROVE  Has(s, op, a) <=> (Head(s).op = op /\ Head(s).a = a) \/ Has(Tail(s), op, a)
<1>1. /\ Len(s) \in Nat /\ Len(s) > 0 /\ Head(s) = s[1] /\ 1 \in 1..Len(s)
      /\ Tail(s) \in Seq(S) /\ Len(Tail(s)) = Len(s) - 1
      /\ \A k \in 1..Len(Tail(s)) : Tail(s)[k] = s[k + 1]
  OBVIOUS
<1>2. \A k \in 1..Len(Tail(s)) : k + 1 \in 1..Len(s)
  BY <1>1
<1>3. \A k \in 1..Len(s) : k = 1 \/ (k - 1 \in 1..Len(Tail(s)) /\ (k - 1) + 1 = k)
  BY <1>1
<1>4. ASSUME Has(s, op, a) PROVE (Head(s).op = op /\ Head(s).a = a) \/ Has(Tail(s), op, a)
  <2>1. PICK k \in 1..Len(s) : s[k].op = op /\ s[k].a = a
    BY <1>4 DEF Has
  <2> QED BY <1>1, <1>3, <2>1 DEF Has
<1>5. Has(Tail(s), op, a) => Has(s, op, a)
  BY <1>1, <1>2 DEF Has
<1>6. Head(s).op = op /\ Head(s).a = a => Has(s, op, a)
  BY <1>1 DEF Has
<1> QED BY <1>4, <1>5, <1>6

\* Two calls at most, of other kinds.
LEMMA FewOver ==
  ASSUME NEW s \in Seq(Frame), NEW x, NEW y, NEW c, c = <<>> \/ c = <<x>> \/ c = <<x, y>>,
         NEW op, x.op # op, y.op # op
  PROVE  \A a : Has(c \o s, op, a) <=> Has(s, op, a)
<1> DEFINE S == Frame \cup {x, y}
<1>1. s \in Seq(S)
  <2>1. /\ \A k \in 1..Len(s) : s[k] \in S
        /\ s = [k \in 1..Len(s) |-> s[k]] /\ Len(s) \in Nat
    OBVIOUS
  <2> HIDE DEF S
  <2> QED BY <2>1, SeqDef
<1>2. c \in Seq(S) /\ \A k \in 1..Len(c) : c[k].op # op
  <2>1. CASE c = <<>>
    BY <2>1
  <2>2. CASE c = <<x>>
    BY <2>2
  <2>3. CASE c = <<x, y>>
    <3>1. c \in Seq(S) /\ Len(c) = 2 /\ c[1] = x /\ c[2] = y
      BY <2>3
    <3>2. \A k \in 1..2 : k = 1 \/ k = 2
      OBVIOUS
    <3> QED BY <3>1, <3>2
  <2> QED BY <2>1, <2>2, <2>3
<1>3. \A a : ~Has(c, op, a)
  BY <1>2 DEF Has
<1> HIDE DEF S
<1> QED BY <1>1, <1>2, <1>3, HasOver

-----------------------------------------------------------------------------
(***************************************************************************)
(* What plugins hear.                                                      *)
(***************************************************************************)
Notifies(a) == On("notifyDestroyed", a)

\* A step of calls that tell of no destruction.
LEMMA QuietStack ==
  ASSUME CoreInv, NEW x, NEW y, NEW c, c = <<>> \/ c = <<x>> \/ c = <<x, y>>,
         x.op # "notifyDestroyed", y.op # "notifyDestroyed",
         \/ ctl' = c \o ctl
         \/ ctl # <<>> /\ Top.op # "notifyDestroyed" /\ ctl' = c \o Tail(ctl)
  PROVE  \A a : Notifies(a)' <=> Notifies(a)
<1>1. ctl \in Seq(Frame)
  BY DEF CoreInv, TypeOK
<1>2. PICK t : t = ctl'
  OBVIOUS
<1>3. CASE t = c \o ctl
  <2>1. \A a : Has(t, "notifyDestroyed", a) <=> Has(ctl, "notifyDestroyed", a)
    BY <1>1, <1>3, FewOver
  <2> QED BY <1>2, <2>1 DEF Notifies, On
<1>4. CASE ctl # <<>> /\ Top.op # "notifyDestroyed" /\ t = c \o Tail(ctl)
  <2>1. Tail(ctl) \in Seq(Frame)
    BY <1>1, <1>4
  <2>2. \A a : Has(t, "notifyDestroyed", a) <=> Has(Tail(ctl), "notifyDestroyed", a)
    BY <1>4, <2>1, FewOver
  <2>3. \A a : Has(ctl, "notifyDestroyed", a) <=> Has(Tail(ctl), "notifyDestroyed", a)
    BY <1>1, <1>4, HasUnder DEF Top
  <2> QED BY <1>2, <2>2, <2>3 DEF Notifies, On
<1> QED BY <1>2, <1>3, <1>4

\* The record keeps what plugins were told.
SameTold(b) ==
  /\ Tracked(b) /\ entities'[b].handle = entities[b].handle
  /\ entities'[b].postConstructed = entities[b].postConstructed
  /\ entities'[b].createdNotified = entities[b].createdNotified
  /\ entities'[b].removeNotified = entities[b].removeNotified
  /\ entities'[b].deleting = entities[b].deleting
  /\ entities'[b].runtime = entities[b].runtime \/ entities[b].removeNotified

\* ... and what was told of it stays true of it.
LEMMA ToldOfKept ==
  ASSUME NEW b \in Addresses, SameTold(b), ToldOf(b),
         told'[entities[b].handle] = told[entities[b].handle], Notifies(b)' <=> Notifies(b)
  PROVE  ToldOf(b)'
BY DEF SameTold, ToldOf, Said, Notifies

\* Nothing is told.
LEMMA HeardSame ==
  ASSUME ToldFit, told' = told, used' = used,
         \A b \in Addresses : Tracked(b)' =>
           Tracked(b) /\ entities'[b].handle = entities[b].handle /\ ToldOf(b)',
         \A b \in Addresses : Tracked(b) => Tracked(b)' \/ Ended(entities[b].handle)
  PROVE  ToldFit'
<1>1. \A b \in Addresses : Tracked(b)' => ToldOf(b)'
  OBVIOUS
<1>2. \A h \in Handles : HeardInOrder(h)'
  BY DEF ToldFit, HeardInOrder, Before, Said
<1>3. \A h \in Handles : h > used' => told'[h] = <<>>
  BY DEF ToldFit
<1>4. ASSUME NEW h \in Handles, \A a \in Addresses : ~(Tracked(a)' /\ entities'[a].handle = h)
      PROVE  Ended(h)'
  <2>1. Ended(h)
    <3>1. CASE \A a \in Addresses : ~IsCurrent(a, h)
      BY <3>1 DEF ToldFit
    <3>2. ASSUME NEW a \in Addresses, IsCurrent(a, h) PROVE Ended(h)
      <4>1. Tracked(a) /\ entities[a].handle = h
        BY <3>2 DEF IsCurrent
      <4>2. ~Tracked(a)'
        BY <1>4, <4>1
      <4> QED BY <4>1, <4>2
    <3> QED BY <3>1, <3>2
  <2> QED BY <2>1 DEF Ended, Said
<1> QED BY <1>1, <1>2, <1>3, <1>4 DEF ToldFit, IsCurrent

\* Records and calls that matter here stay.
LEMMA SilentStep ==
  ASSUME ToldFit, told' = told, used' = used, entities' = entities,
         \A a : Notifies(a)' <=> Notifies(a)
  PROVE  ToldFit'
<1>1. ASSUME NEW b \in Addresses, Tracked(b)'
      PROVE  Tracked(b) /\ entities'[b].handle = entities[b].handle /\ ToldOf(b)'
  <2>1. Tracked(b)
    BY <1>1 DEF Tracked
  <2>2. SameTold(b) /\ ToldOf(b)
    BY <2>1 DEF SameTold, ToldFit
  <2>3. ToldOf(b)'
    BY <2>2, ToldOfKept
  <2> QED BY <2>1, <2>3
<1>2. \A b \in Addresses : Tracked(b) => Tracked(b)' \/ Ended(entities[b].handle)
  BY DEF Tracked
<1> QED BY <1>1, <1>2, HeardSame

\* An event is heard after those heard before.
LEMMA SaidMore ==
  ASSUME TypeOK, NEW h \in Handles, NEW e \in Events, told' = [told EXCEPT ![h] = Append(@, e)]
  PROVE  /\ told[h] \in Seq(Events) /\ Len(told[h]) \in Nat
         /\ told'[h] = Append(told[h], e) /\ Len(told'[h]) = Len(told[h]) + 1
         /\ DOMAIN told'[h] = 1..(Len(told[h]) + 1) /\ DOMAIN told[h] = 1..Len(told[h])
         /\ told'[h][Len(told[h]) + 1] = e
         /\ \A k \in 1..Len(told[h]) : told'[h][k] = told[h][k]
         /\ \A g \in Handles : g # h => told'[g] = told[g]
         /\ \A f : Said(h, f)' <=> Said(h, f) \/ f = e
<1>1. told \in [Handles -> Seq(Events)]
  BY DEF TypeOK, Events
<1>2. PICK s \in Seq(Events) : s = told[h]
  BY <1>1
<1>3. told'[h] = Append(s, e) /\ \A g \in Handles : g # h => told'[g] = told[g]
  BY <1>1, <1>2
<1>4. PICK t : t = told'[h] /\ t = Append(s, e)
  BY <1>3
<1>5. /\ Len(s) \in Nat /\ Len(t) = Len(s) + 1 /\ DOMAIN t = 1..(Len(s) + 1) /\ DOMAIN s = 1..Len(s)
      /\ t[Len(s) + 1] = e /\ \A k \in 1..Len(s) : t[k] = s[k]
  BY <1>4, SMTT(30)
<1>6. \A f : Said(h, f)' <=> Said(h, f) \/ f = e
  <2>1. \A k \in 1..(Len(s) + 1) : k \in 1..Len(s) \/ k = Len(s) + 1
    BY <1>5
  <2>2. (\A k \in 1..Len(s) : k \in 1..(Len(s) + 1)) /\ Len(s) + 1 \in 1..(Len(s) + 1)
    BY <1>5
  <2>3. \A f : (\E k \in DOMAIN t : t[k] = f) <=> (\E k \in DOMAIN s : s[k] = f) \/ f = e
    BY <1>5, <2>1, <2>2
  <2>4. \A f : Said(h, f) <=> \E k \in DOMAIN s : s[k] = f
    BY <1>2 DEF Said
  <2>5. \A f : Said(h, f)' <=> \E k \in DOMAIN t : t[k] = f
    BY ONLY <1>4 DEF Said
  <2> QED BY <2>3, <2>4, <2>5
<1> QED BY <1>2, <1>3, <1>4, <1>5, <1>6

\* What had to be said before still was.
LEMMA BeforeMore ==
  ASSUME TypeOK, NEW h \in Handles, NEW e \in Events, told' = [told EXCEPT ![h] = Append(@, e)],
         NEW first, NEW second, Before(h, first, second), e = second => Said(h, first)
  PROVE  Before(h, first, second)'
<1>1. /\ Len(told[h]) \in Nat
      /\ DOMAIN told'[h] = 1..(Len(told[h]) + 1) /\ DOMAIN told[h] = 1..Len(told[h])
      /\ told'[h][Len(told[h]) + 1] = e
      /\ \A k \in 1..Len(told[h]) : told'[h][k] = told[h][k]
  BY SaidMore
<1>2. PICK n \in Nat : n = Len(told[h])
  BY <1>1
<1>3. PICK s : s = told[h]
  OBVIOUS
<1>4. PICK t : t = told'[h]
  OBVIOUS
<1>5. /\ DOMAIN t = 1..(n + 1) /\ DOMAIN s = 1..n /\ t[n + 1] = e /\ \A k \in 1..n : t[k] = s[k]
  BY ONLY <1>1, <1>2, <1>3, <1>4
<1>6. \A k \in 1..n : s[k] = second => \E j \in 1..(k - 1) : s[j] = first
  BY <1>3, <1>5 DEF Before
<1>7. e = second => \E j \in 1..n : s[j] = first
  BY <1>3, <1>5 DEF Said
<1>8. \A k \in 1..(n + 1) : t[k] = second => \E j \in 1..(k - 1) : t[j] = first
  <2> SUFFICES ASSUME NEW k \in 1..(n + 1), t[k] = second PROVE \E j \in 1..(k - 1) : t[j] = first
    OBVIOUS
  <2>1. CASE k \in 1..n
    <3>1. PICK j \in 1..(k - 1) : s[j] = first
      BY <1>5, <1>6, <2>1
    <3>2. j \in 1..n
      BY <2>1
    <3> QED BY <1>5, <3>1, <3>2
  <2>2. CASE k = n + 1
    <3>1. PICK j \in 1..n : s[j] = first
      BY <1>5, <1>7, <2>2
    <3>2. j \in 1..(k - 1)
      BY <2>2
    <3> QED BY <1>5, <3>1, <3>2
  <2> QED BY <2>1, <2>2
<1> QED BY ONLY <1>4, <1>5, <1>8 DEF Before

\* Something is told, of an entity that has a record.
LEMMA HeardMore ==
  ASSUME CoreInv, ToldFit, NEW a \in Addresses, Tracked(a), NEW h \in Handles, h = entities[a].handle,
         NEW e \in Events, told' = [told EXCEPT ![h] = Append(@, e)], used' = used,
         Tracked(a)', entities'[a].handle = h,
         \A b \in Addresses : b # a => entities'[b] = entities[b],
         \A b \in Addresses : b # a => (Notifies(b)' <=> Notifies(b)),
         ToldOf(a)', ~Said(h, e),
         e = "removed" => Said(h, "constructed"),
         e = "destroyed" => Said(h, "created") \/ Said(h, "seeded")
  PROVE  ToldFit'
<1>1. TypeOK /\ RecordsFit /\ HandlesFit
  BY DEF CoreInv, RecordInv
<1>2. /\ Len(told[h]) \in Nat /\ Len(told'[h]) = Len(told[h]) + 1
      /\ DOMAIN told[h] = 1..Len(told[h])
      /\ told'[h][Len(told[h]) + 1] = e
      /\ \A k \in 1..Len(told[h]) : told'[h][k] = told[h][k]
      /\ \A g \in Handles : g # h => told'[g] = told[g]
      /\ \A f : Said(h, f)' <=> Said(h, f) \/ f = e
  BY <1>1, SaidMore
<1>3. \A b \in Addresses : b # a /\ Tracked(b) => entities[b].handle # h /\ entities[b].handle \in Handles
  BY <1>1, RecordTyped DEF HandlesFit
<1>4. \A b \in Addresses : b # a => (Tracked(b)' <=> Tracked(b))
  BY DEF Tracked
<1>5. ASSUME NEW b \in Addresses, Tracked(b)' PROVE ToldOf(b)'
  <2>1. CASE b # a
    <3>1. Tracked(b) /\ entities'[b] = entities[b]
      BY <1>4, <1>5, <2>1
    <3>2. SameTold(b) /\ ToldOf(b)
      BY <3>1 DEF SameTold, ToldFit
    <3>3. told'[entities[b].handle] = told[entities[b].handle]
      BY <1>2, <1>3, <2>1, <3>1
    <3> QED BY <2>1, <3>2, <3>3, ToldOfKept
  <2>2. CASE b = a
    BY <2>2
  <2> QED BY <2>1, <2>2
<1>6. ASSUME NEW g \in Handles PROVE HeardInOrder(g)'
  <2>1. HeardInOrder(g)
    BY DEF ToldFit
  <2>2. CASE g # h
    <3>1. told'[g] = told[g]
      BY <1>2, <2>2
    <3> QED BY ONLY <2>1, <3>1 DEF HeardInOrder, Before, Said
  <2>3. ASSUME g = h PROVE HeardInOrder(h)'
    <3>1. /\ \A j, k \in 1..Len(told[h]) : told[h][j] = told[h][k] => j = k
          /\ Before(h, "constructed", "removed")
          /\ Said(h, "seeded") \/ Before(h, "created", "destroyed")
      BY <2>1, <2>3 DEF HeardInOrder
    <3>2. Before(h, "constructed", "removed")'
      BY <1>1, <3>1, BeforeMore
    <3>3. (Said(h, "seeded") \/ Before(h, "created", "destroyed"))'
      <4>1. CASE Said(h, "seeded")
        BY <1>2, <4>1
      <4>2. CASE ~Said(h, "seeded")
        BY <1>1, <3>1, <4>2, BeforeMore
      <4> QED BY <4>1, <4>2
    <3>4. PICK n \in Nat : n = Len(told[h])
      BY <1>2
    <3>5. PICK s : s = told[h]
      OBVIOUS
    <3>6. PICK t : t = told'[h]
      OBVIOUS
    <3>7. /\ Len(t) = n + 1 /\ t[n + 1] = e /\ \A k \in 1..n : t[k] = s[k]
          /\ \A j, k \in 1..n : s[j] = s[k] => j = k
      BY ONLY <1>2, <3>1, <3>4, <3>5, <3>6
    <3>8. \A k \in 1..n : s[k] # e
      BY <1>2, <3>4, <3>5 DEF Said
    <3>9. \A j, k \in 1..(n + 1) : t[j] = t[k] => j = k
      <4>1. \A k \in 1..(n + 1) : k \in 1..n \/ k = n + 1
        OBVIOUS
      <4> QED BY <3>7, <3>8, <4>1
    <3>10. \A j, k \in 1..Len(told'[h]) : told'[h][j] = told'[h][k] => j = k
      BY ONLY <3>6, <3>7, <3>9
    <3> QED BY <3>2, <3>3, <3>10 DEF HeardInOrder
  <2> QED BY <2>2, <2>3
<1>7. ASSUME NEW g \in Handles, g > used' PROVE told'[g] = <<>>
  <2>1. h <= used
    BY <1>1 DEF RecordsFit, RecordFit
  <2>2. g # h
    <3>1. h \in Nat /\ g \in Nat /\ used \in Nat
      BY <1>1, ConstantsOK DEF Handles, TypeOK
    <3> QED BY <1>7, <2>1, <3>1
  <2> QED BY <1>2, <1>7, <2>2 DEF ToldFit
<1>8. ASSUME NEW g \in Handles, \A b \in Addresses : ~(Tracked(b)' /\ entities'[b].handle = g)
      PROVE  Ended(g)'
  <2>1. g # h
    BY <1>8
  <2>2. \A b \in Addresses : ~IsCurrent(b, g)
    <3> SUFFICES ASSUME NEW b \in Addresses, Tracked(b), entities[b].handle = g PROVE FALSE
      BY DEF IsCurrent
    <3>1. b # a
      BY <2>1
    <3> QED BY <1>4, <1>8, <3>1
  <2>3. Ended(g)
    BY <2>2 DEF ToldFit
  <2>4. told'[g] = told[g]
    BY <1>2, <2>1
  <2> QED BY <2>3, <2>4 DEF Ended, Said
<1> QED BY <1>5, <1>6, <1>7, <1>8 DEF ToldFit, IsCurrent

-----------------------------------------------------------------------------

\* One call over another.
LEMMA OneOver ==
  ASSUME NEW x, NEW y
  PROVE  <<x>> \o <<y>> = <<x, y>> /\ <<>> \o <<y>> = <<y>>
<1>1. <<x>> \in Seq({x, y}) /\ <<y>> \in Seq({x, y}) /\ <<x, y>> \in Seq({x, y})
  OBVIOUS
<1>3. <<x>> \o <<y>> = <<x, y>>
  <2>1. /\ Len(<<x>> \o <<y>>) = 2
        /\ \A k \in 1..2 : (<<x>> \o <<y>>)[k] = IF k <= 1 THEN <<x>>[k] ELSE <<y>>[k - 1]
    <3>1. Len(<<x>>) = 1 /\ Len(<<y>>) = 1
      OBVIOUS
    <3> QED BY <1>1, <3>1, ConcatProperties
  <2>2. \A k \in 1..2 : k = 1 \/ k = 2
    OBVIOUS
  <2>3. (<<x>> \o <<y>>)[1] = x /\ (<<x>> \o <<y>>)[2] = y
    BY <2>1
  <2>4. Len(<<x, y>>) = 2 /\ <<x, y>>[1] = x /\ <<x, y>>[2] = y
    OBVIOUS
  <2>5. \A k \in 1..2 : (<<x>> \o <<y>>)[k] = <<x, y>>[k]
    BY <2>2, <2>3, <2>4
  <2>6. <<x>> \o <<y>> \in Seq({x, y})
    BY <1>1, ConcatProperties
  <2> QED BY <1>1, <2>1, <2>4, <2>5, <2>6, SeqEqual
<1>4. <<>> \o <<y>> = <<y>>
  BY <1>1, ConcatEmptySeq
<1> QED BY <1>3, <1>4

\* Steps of callbacks, listeners and updates tell nothing.
LEMMA QuietStepsHeard ==
  ASSUME CoreInv, ToldFit,
         \/ CreateReturns \/ CallbackReturns \/ CreatedListeners \/ TellCreated \/ Flush
         \/ DestroyedListeners \/ TellDestroyed \/ Purge \/ FreeMemory \/ Stop
  PROVE  ToldFit'
<1>1. /\ ctl # <<>> /\ Top.op # "notifyDestroyed" /\ told' = told /\ used' = used /\ entities' = entities
  BY DEF CreateReturns, CallbackReturns, CreatedListeners, TellCreated, Flush,
         DestroyedListeners, TellDestroyed, Purge, FreeMemory, Stop, Running, engine, registry, Callbacks
<1>2. \E x, y, c : /\ c = <<>> \/ c = <<x>> \/ c = <<x, y>>
                   /\ x.op # "notifyDestroyed" /\ y.op # "notifyDestroyed"
                   /\ ctl' = c \o Tail(ctl)
  <2>1. CASE ctl' = <<>> \o Tail(ctl)
    <3>1. [op |-> "stop"].op # "notifyDestroyed"
      OBVIOUS
    <3> QED BY <2>1, <3>1
  <2>2. ASSUME NEW x, ctl' = <<x>> \o Tail(ctl), x.op # "notifyDestroyed"
        PROVE  \E z, y, c : /\ c = <<>> \/ c = <<z>> \/ c = <<z, y>>
                            /\ z.op # "notifyDestroyed" /\ y.op # "notifyDestroyed"
                            /\ ctl' = c \o Tail(ctl)
    BY <2>2
  <2>3. ASSUME NEW x, NEW y, ctl' = <<x, y>> \o Tail(ctl),
               x.op # "notifyDestroyed", y.op # "notifyDestroyed"
        PROVE  \E z, w, c : /\ c = <<>> \/ c = <<z>> \/ c = <<z, w>>
                            /\ z.op # "notifyDestroyed" /\ w.op # "notifyDestroyed"
                            /\ ctl' = c \o Tail(ctl)
    BY <2>3
  <2>4. CASE CreateReturns \/ CallbackReturns \/ FreeMemory \/ Stop
    BY <2>1, <2>4 DEF CreateReturns, CallbackReturns, FreeMemory, Stop, Becomes
  <2>5. CASE CreatedListeners \/ DestroyedListeners
    <3>1. PICK x : /\ x = Each("createdEach", Top.a, Top.h, listeners) \/ x = Each("destroyedEach", Top.a, Top.h, listeners)
                   /\ ctl' = <<x>> \o Tail(ctl)
      BY <2>5 DEF CreatedListeners, DestroyedListeners, Becomes
    <3>2. x.op # "notifyDestroyed"
      BY <3>1 DEF Each, Do
    <3> QED BY <2>2, <3>1, <3>2
  <2>6. CASE TellCreated \/ TellDestroyed
    <3>1. PICK x : x = [Top EXCEPT !.ls = Tail(@)]
      OBVIOUS
    <3>2. Top \in Frame
      BY <1>1, TopIs
    <3>3. x.op = Top.op
      BY <3>1, <3>2 DEF Frame
    <3>4. PICK y : /\ y = Do("listenerCreated", Top.a, Top.h) \/ y = Do("listenerDestroyed", Top.a, Top.h)
                   /\ \/ ctl' = <<>> \o Tail(ctl)
                      \/ ctl' = (<<y>> \o <<x>>) \o Tail(ctl)
                      \/ ctl' = (<<>> \o <<x>>) \o Tail(ctl)
      <4>1. CASE TellCreated
        <5>1. \/ ctl' = <<>> \o Tail(ctl)
              \/ ctl' = (<<Do("listenerCreated", Top.a, Top.h)>> \o <<x>>) \o Tail(ctl)
              \/ ctl' = (<<>> \o <<x>>) \o Tail(ctl)
          BY <3>1, <4>1 DEF TellCreated, Becomes
        <5> QED BY <5>1
      <4>2. CASE TellDestroyed
        <5>1. \/ ctl' = <<>> \o Tail(ctl)
              \/ ctl' = (<<Do("listenerDestroyed", Top.a, Top.h)>> \o <<x>>) \o Tail(ctl)
              \/ ctl' = (<<>> \o <<x>>) \o Tail(ctl)
          BY <3>1, <4>2 DEF TellDestroyed, Becomes
        <5> QED BY <5>1
      <4> QED BY <2>6, <4>1, <4>2
    <3>5. y.op # "notifyDestroyed"
      BY <3>4 DEF Do
    <3>6. <<y>> \o <<x>> = <<y, x>> /\ <<>> \o <<x>> = <<x>>
      BY OneOver
    <3> QED BY <1>1, <2>1, <2>2, <2>3, <3>3, <3>4, <3>5, <3>6
  <2>7. CASE Flush \/ Purge
    <3>1. PICK x, y : /\ x = Do("notify", Head(Top.q)[1], Head(Top.q)[2]) \/ x = Do("deleted", Head(Top.q)[1], None)
                      /\ y = Queue("flush", Tail(Top.q)) \/ y = Queue("purge", Tail(Top.q))
                      /\ ctl' = <<>> \o Tail(ctl) \/ ctl' = <<x, y>> \o Tail(ctl)
      <4>1. CASE Flush
        <5>1. \/ ctl' = <<>> \o Tail(ctl)
              \/ ctl' = <<Do("notify", Head(Top.q)[1], Head(Top.q)[2]), Queue("flush", Tail(Top.q))>> \o Tail(ctl)
          BY <4>1 DEF Flush, Becomes
        <5> QED BY <5>1
      <4>2. CASE Purge
        <5>1. \/ ctl' = <<>> \o Tail(ctl)
              \/ ctl' = <<Do("deleted", Head(Top.q)[1], None), Queue("purge", Tail(Top.q))>> \o Tail(ctl)
          BY <4>2 DEF Purge, Becomes
        <5> QED BY <5>1
      <4> QED BY <2>7, <4>1, <4>2
    <3>2. x.op # "notifyDestroyed" /\ y.op # "notifyDestroyed"
      BY <3>1 DEF Do, Queue
    <3> QED BY <2>1, <2>3, <3>1, <3>2
  <2> QED BY <2>4, <2>5, <2>6, <2>7
<1>3. \A a : Notifies(a)' <=> Notifies(a)
  BY <1>1, <1>2, QuietStack
<1> QED BY <1>1, <1>3, SilentStep

\* Any calls that tell of no destruction.
LEMMA QuietOver ==
  ASSUME CoreInv, NEW fs \in Seq(Frame), \A k \in 1..Len(fs) : fs[k].op # "notifyDestroyed",
         \/ ctl' = fs \o ctl
         \/ ctl # <<>> /\ Top.op # "notifyDestroyed" /\ ctl' = fs \o Tail(ctl)
  PROVE  \A a : Notifies(a)' <=> Notifies(a)
<1>1. ctl \in Seq(Frame)
  BY DEF CoreInv, TypeOK
<1>2. PICK t : t = ctl'
  OBVIOUS
<1>3. \A a : ~Has(fs, "notifyDestroyed", a)
  BY DEF Has
<1>4. CASE t = fs \o ctl
  <2>1. \A a : Has(t, "notifyDestroyed", a) <=> Has(ctl, "notifyDestroyed", a)
    BY <1>1, <1>3, <1>4, HasOver
  <2> QED BY <1>2, <2>1 DEF Notifies, On
<1>5. CASE ctl # <<>> /\ Top.op # "notifyDestroyed" /\ t = fs \o Tail(ctl)
  <2>1. Tail(ctl) \in Seq(Frame)
    BY <1>1, <1>5
  <2>2. \A a : Has(t, "notifyDestroyed", a) <=> Has(Tail(ctl), "notifyDestroyed", a)
    BY <1>3, <1>5, <2>1, HasOver
  <2>3. \A a : Has(ctl, "notifyDestroyed", a) <=> Has(Tail(ctl), "notifyDestroyed", a)
    BY <1>1, <1>5, HasUnder DEF Top
  <2> QED BY <1>2, <2>2, <2>3 DEF Notifies, On
<1> QED BY <1>2, <1>4, <1>5

\* A deletion tells nothing before it reaches the manager.
LEMMA DeletionSilent ==
  ASSUME NEW a \in Addresses
  PROVE  Deletion(a) \in Seq(Frame) /\ \A k \in 1..Len(Deletion(a)) : Deletion(a)[k].op # "notifyDestroyed"
<1>1. PICK fs \in Seq(Frame), n \in {1, 2} :
           /\ fs = Deletion(a) /\ Len(fs) = n + 1
           /\ fs[n].op = "deleted" /\ fs[n + 1].op = "freeMemory"
           /\ n = 2 => fs[1].op = "cleanup"
           /\ \A k \in 1..(n + 1) : fs[k].a = a /\ fs[k].t = 0
  BY DeletionIs
<1>2. \A k \in 1..(n + 1) : k = n + 1 \/ k = n \/ (n = 2 /\ k = 1)
  BY <1>1
<1> QED BY <1>1, <1>2

\* Calls of the engine and of plugins that tell nothing.
LEMMA WorldStepsHeard ==
  ASSUME CoreInv, ToldFit,
         \/ \E a \in Addresses : DeleteEntity(a)
         \/ FlushPendingCreates \/ PurgeEntities \/ Shutdown
         \/ \E l \in Listeners : AddClientEntityListener(l) \/ RemoveClientEntityListener(l)
  PROVE  ToldFit'
<1>1. told' = told /\ used' = used /\ entities' = entities
  BY DEF DeleteEntity, FlushPendingCreates, PurgeEntities, Shutdown, AddClientEntityListener,
         RemoveClientEntityListener, engine, registry
<1>2. CASE \E a \in Addresses : DeleteEntity(a)
  <2>1. PICK a \in Addresses : DeleteEntity(a)
    BY <1>2
  <2>2. ctl' = Deletion(a) \o ctl
    BY <2>1 DEF DeleteEntity, Calls
  <2>3. PICK fs \in Seq(Frame) : fs = Deletion(a) /\ \A k \in 1..Len(fs) : fs[k].op # "notifyDestroyed"
    BY DeletionSilent
  <2>4. \A b : Notifies(b)' <=> Notifies(b)
    BY <2>2, <2>3, QuietOver
  <2> QED BY <1>1, <2>4, SilentStep
<1>3. CASE FlushPendingCreates
  <2>1. PICK x, c : x = Queue("flush", pending) /\ c = <<x>>
    OBVIOUS
  <2>2. x.op # "notifyDestroyed"
    BY <2>1 DEF Queue, Do
  <2>3. ctl' = c \o ctl
    BY <1>3, <2>1 DEF FlushPendingCreates, Calls
  <2>4. \A b : Notifies(b)' <=> Notifies(b)
    BY <2>1, <2>2, <2>3, QuietStack
  <2> QED BY <1>1, <2>4, SilentStep
<1>4. CASE PurgeEntities \/ Shutdown
  <2>1. TypeOK
    BY DEF CoreInv
  <2>2. PICK c \in Seq(Frame) :
           /\ Len(c) = 2 /\ c[1].op = "purge" /\ c[2].op = "purged"
           /\ c = PurgeFrames /\ \A k \in 1..Len(c) : c[k].t = 0
           /\ \A n \in 1..Len(order) : n \in 1..Len(c[1].q) /\ c[1].q[n][1] = order[n]
    BY <2>1, PurgeFramesAre
  <2>3. \A k \in 1..Len(c) : c[k].op # "notifyDestroyed"
    <3>1. \A k \in 1..2 : k = 1 \/ k = 2
      OBVIOUS
    <3> QED BY <2>2, <3>1
  <2>4. ASSUME ctl' = c \o ctl PROVE \A b : Notifies(b)' <=> Notifies(b)
    BY <2>3, <2>4, QuietOver
  <2>5. ASSUME NEW x \in Frame, x.op = "stop", ctl' = (c \o <<x>>) \o ctl
        PROVE \A b : Notifies(b)' <=> Notifies(b)
    <3>1. PICK d \in Seq(Frame) : d = <<x>> /\ Len(d) = 1 /\ d[1] = x
      <4>1. <<x>> \in Seq(Frame) /\ Len(<<x>>) = 1 /\ <<x>>[1] = x
        BY FewFrames
      <4> QED BY <4>1
    <3>2. c \o d \in Seq(Frame) /\ \A b : Has(c \o d, "notifyDestroyed", b) <=> Has(c, "notifyDestroyed", b) \/ Has(d, "notifyDestroyed", b)
      BY Stacked, HasOver
    <3>3. \A b : ~Has(d, "notifyDestroyed", b) /\ ~Has(c, "notifyDestroyed", b)
      <4>1. \A k \in 1..1 : k = 1
        OBVIOUS
      <4> QED BY <2>3, <2>5, <3>1, <4>1 DEF Has
    <3>4. ctl \in Seq(Frame) /\ ctl' = (c \o d) \o ctl
      BY <2>1, <2>5, <3>1 DEF TypeOK
    <3>5. PICK t : t = ctl' /\ t = (c \o d) \o ctl
      BY <3>4
    <3>6. \A b : Has(t, "notifyDestroyed", b) <=> Has(ctl, "notifyDestroyed", b)
      <4>1. PICK e \in Seq(Frame) : e = c \o d
        BY <3>2
      <4>2. \A b : ~Has(e, "notifyDestroyed", b)
        BY <3>2, <3>3, <4>1
      <4>3. t = e \o ctl /\ ctl \in Seq(Frame)
        BY <3>4, <3>5, <4>1
      <4>4. \A b : Has(e \o ctl, "notifyDestroyed", b) <=> Has(e, "notifyDestroyed", b) \/ Has(ctl, "notifyDestroyed", b)
        BY <4>3, HasOver
      <4> QED BY ONLY <4>2, <4>3, <4>4
    <3> QED BY <3>5, <3>6 DEF Notifies, On
  <2>6. CASE PurgeEntities
    <3>1. ctl' = c \o ctl
      BY <2>2, <2>6 DEF PurgeEntities, Calls
    <3> QED BY <1>1, <2>4, <3>1, SilentStep
  <2>7. CASE Shutdown
    <3>1. PICK z \in Frame : z = Do("stop", None, None) /\ z.op = "stop" /\ z.t = 0
      <4>1. "stop" \in Ops
        BY DEF Ops
      <4> QED BY <4>1, OwnFrame
    <3>2. ctl' = (c \o <<z>>) \o ctl
      BY <2>2, <2>7, <3>1 DEF Shutdown, Calls
    <3>3. \A b : Notifies(b)' <=> Notifies(b)
      BY <2>5, <3>1, <3>2
    <3> QED BY <1>1, <3>3, SilentStep
  <2> QED BY <1>4, <2>6, <2>7
<1>5. CASE \E l \in Listeners : AddClientEntityListener(l) \/ RemoveClientEntityListener(l)
  <2>1. ctl' = ctl
    BY <1>5 DEF AddClientEntityListener, RemoveClientEntityListener
  <2>2. \A b : Notifies(b)' <=> Notifies(b)
    BY <2>1 DEF Notifies, On, Has
  <2> QED BY <1>1, <2>2, SilentStep
<1> QED BY <1>2, <1>3, <1>4, <1>5

\* A new entity has heard nothing yet.
LEMMA CreateHeard ==
  ASSUME CoreInv, ToldFit, NEW a \in Addresses,
         \/ CreateClientOnly(a)
         \/ \E i \in Indexes : CreateNetworked(a, i)
         \/ \E i \in Indexes, hooked \in BOOLEAN : CreateCustom(a, i, hooked)
  PROVE  ToldFit'
<1>1. PICK h \in Handles, i \in Indexes \cup {None}, custom \in BOOLEAN, hooked \in BOOLEAN :
         Constructed(a, h, i, custom, hooked)
  BY CreateIs
<1>2. told' = told /\ CoreInv'
  BY CreateIs, CreateKeeps
<1>3. PICK x : x.op \in {"notify", "attach"} /\ (ctl' = <<>> \o ctl \/ ctl' = <<x>> \o ctl)
  BY CreateIs
<1>4. \A b : Notifies(b)' <=> Notifies(b)
  BY <1>3, QuietStack
<1>5. TypeOK /\ TypeOK' /\ Bounded /\ StackInv /\ StackInv'
  BY <1>2 DEF CoreInv
<1>6. /\ used \in Nat /\ h = used + 1 /\ used' = h
      /\ \A b \in Addresses : Tracked(b) => entities[b].handle <= used /\ entities[b].handle \in Handles
      /\ \A b \in Addresses : Tracked(b) => Tracked(b)' /\ entities'[b] = entities[b]
      /\ \A b \in Addresses : Tracked(b)' => Tracked(b) \/ (b = a /\ available /\ ~purging)
      /\ ~(available /\ ~purging) => entities' = entities
  BY <1>1, <1>5, Added
<1>7. told[h] = <<>> /\ \A e : ~Said(h, e)
  <2>1. told[h] = <<>>
    BY <1>6 DEF ToldFit
  <2> QED BY <2>1 DEF Said
<1>8. ASSUME NEW b \in Addresses, Tracked(b)' PROVE ToldOf(b)'
  <2>1. CASE Tracked(b)
    <3>1. SameTold(b) /\ ToldOf(b)
      BY <1>6, <2>1 DEF SameTold, ToldFit
    <3> QED BY <1>2, <1>4, <3>1, ToldOfKept
  <2>2. CASE ~Tracked(b)
    <3>1. b = a /\ available /\ ~purging
      BY <1>6, <1>8, <2>2
    <3>2. Track(a, h, i, custom, hooked)
      BY <1>1, <3>1 DEF Constructed
    <3>3. /\ entities'[a].handle = h /\ ~entities'[a].deleting
          /\ ~entities'[a].createdNotified /\ ~entities'[a].postConstructed
      BY <1>5, <1>6, <3>2, NewEntry
    <3>4. ~Notifies(a)
      <4> SUFFICES ASSUME Notifies(a) PROVE FALSE
        OBVIOUS
      <4>1. PICK k \in 1..Len(ctl) : ctl[k].op = "notifyDestroyed" /\ ctl[k].a = a
        BY DEF Notifies, On, Has
      <4>2. IsCurrent(a, ctl[k].h)
        BY <1>5, <4>1 DEF StackInv, FramesFit, FrameFit, Place, RecordOps, Telling
      <4> QED BY <2>2, <3>1, <4>2 DEF IsCurrent
    <3>5. ~Notifies(a)' /\ \A e : ~Said(h, e)'
      BY <1>2, <1>4, <1>7, <3>4 DEF Said
    <3> QED BY <3>1, <3>3, <3>5 DEF ToldOf, Notifies
  <2> QED BY <2>1, <2>2
<1>9. \A g \in Handles : HeardInOrder(g)'
  BY <1>2 DEF ToldFit, HeardInOrder, Before, Said
<1>10. ASSUME NEW g \in Handles, g > used' PROVE told'[g] = <<>>
  <2>1. g > used
    BY <1>6, <1>10, ConstantsOK DEF Handles
  <2> QED BY <1>2, <2>1 DEF ToldFit
<1>11. ASSUME NEW g \in Handles, \A b \in Addresses : ~(Tracked(b)' /\ entities'[b].handle = g)
       PROVE  Ended(g)'
  <2>1. \A b \in Addresses : ~IsCurrent(b, g)
    BY <1>6, <1>11 DEF IsCurrent
  <2>2. Ended(g)
    BY <2>1 DEF ToldFit
  <2> QED BY <1>2, <2>2 DEF Ended, Said
<1> QED BY <1>8, <1>9, <1>10, <1>11 DEF ToldFit, IsCurrent

-----------------------------------------------------------------------------
(*****************************************************************************)
(* Every step tells plugins what it should.                                  *)
(*****************************************************************************)

\* A flag of a record is set.
LEMMA FlagSet ==
  ASSUME NEW r \in Record
  PROVE  /\ LET s == [r EXCEPT !.postConstructed = TRUE] IN
              /\ s.handle = r.handle /\ s.runtime = r.runtime /\ s.deleting = r.deleting
              /\ s.postConstructed /\ s.createdNotified = r.createdNotified
              /\ s.removeNotified = r.removeNotified
         /\ LET s == [r EXCEPT !.createdNotified = TRUE] IN
              /\ s.handle = r.handle /\ s.runtime = r.runtime /\ s.deleting = r.deleting
              /\ s.postConstructed = r.postConstructed /\ s.createdNotified
              /\ s.removeNotified = r.removeNotified
         /\ LET s == [r EXCEPT !.deleting = TRUE] IN
              /\ s.handle = r.handle /\ s.runtime = r.runtime /\ s.deleting
              /\ s.postConstructed = r.postConstructed /\ s.createdNotified = r.createdNotified
              /\ s.removeNotified = r.removeNotified
         /\ LET s == [r EXCEPT !.removeNotified = TRUE] IN
              /\ s.handle = r.handle /\ s.runtime = r.runtime /\ s.deleting = r.deleting
              /\ s.postConstructed = r.postConstructed /\ s.createdNotified = r.createdNotified
              /\ s.removeNotified
BY DEF Record

\* ... and the others stay as they are.
LEMMA Flagged ==
  ASSUME TypeOK, NEW a \in Addresses, Tracked(a), NEW s, s \in Record,
         entities' = [entities EXCEPT ![a] = s]
  PROVE  /\ \A b \in Addresses : b # a => entities'[b] = entities[b]
         /\ entities'[a] = s /\ Tracked(a)'
<1>1. entities \in [Addresses -> Record \cup {NoRecord}]
  BY DEF TypeOK
<1>2. \A x \in Record : x # NoRecord
  <2>1. \A x \in Record : x.handle # None
    BY DEF Record, Handles, None
  <2> QED BY <2>1 DEF NoRecord
<1> QED BY <1>1, <1>2 DEF Tracked

\* Attaching the runtime tells of the construction.
LEMMA AttachRuntimeHeard ==
  ASSUME CoreInv, ToldFit, AttachRuntime
  PROVE  ToldFit'
<1>1. ctl # <<>> /\ Top.op = "attach" /\ Running("attach") /\ used' = used
  BY DEF AttachRuntime, Running, engine
<1>2. TypeOK /\ AttachFit /\ RecordsFit /\ FrameFit(Top)
  BY <1>1, TopIs DEF CoreInv, StackInv, RecordInv
<1>3. PICK a \in Addresses : a = Top.a
  BY <1>1, <1>2 DEF FrameFit, OfEntity, Ops
<1>4. CASE Attachable(a)
  <2>1. Tracked(a) /\ entities[a].runtime /\ ~entities[a].deleting /\ ~entities[a].removeNotified
    BY <1>4 DEF Attachable
  <2>2. PICK h \in Handles : h = entities[a].handle
    BY <1>2, <2>1, RecordTyped
  <2>3. h = Top.h /\ ~entities[a].postConstructed
    BY <1>1, <1>2, <1>3, <2>1, <2>2 DEF AttachFit, RecordsFit, RecordFit, IsCurrent
  <2>4. PICK e \in Events : e = "constructed"
    BY DEF Events
  <2>5. told' = [told EXCEPT ![h] = Append(@, e)]
    BY <1>3, <1>4, <2>3, <2>4 DEF AttachRuntime, Tells
  <2>6. PICK r \in Record : r = entities[a]
    BY <1>2, <2>1, RecordTyped
  <2>7. PICK s : s = [r EXCEPT !.postConstructed = TRUE]
    OBVIOUS
  <2>8. s \in Record /\ entities' = [entities EXCEPT ![a] = s]
    <3>1. entities' = [entities EXCEPT ![a].postConstructed = TRUE]
      BY <1>3, <1>4 DEF AttachRuntime
    <3> QED BY <2>6, <2>7, <3>1, Marked
  <2>9. /\ \A b \in Addresses : b # a => entities'[b] = entities[b]
        /\ entities'[a] = s /\ Tracked(a)'
    BY <1>2, <2>1, <2>8, Flagged
  <2>10. /\ s.handle = r.handle /\ s.runtime = r.runtime /\ s.deleting = r.deleting
         /\ s.postConstructed /\ s.createdNotified = r.createdNotified
         /\ s.removeNotified = r.removeNotified
    BY <2>7, FlagSet
  <2>11. \A b : Notifies(b)' <=> Notifies(b)
    <3>1. PICK x, y : /\ x = Do("constructed", a, Top.h)
                      /\ y = [Do("return", a, Top.h) EXCEPT !.t = entities[a].token]
      OBVIOUS
    <3>2. x.op # "notifyDestroyed" /\ y.op # "notifyDestroyed"
      BY <3>1 DEF Do
    <3>3. ctl' = <<x, y>> \o Tail(ctl)
      BY <1>3, <1>4, <3>1 DEF AttachRuntime, Becomes
    <3>4. PICK c : c = <<x, y>>
      OBVIOUS
    <3> QED BY <1>1, <3>2, <3>3, <3>4, QuietStack
  <2>12. ToldOf(a)
    BY <2>1 DEF ToldFit
  <2>13. \A f : Said(h, f)' <=> Said(h, f) \/ f = e
    BY <1>2, <2>5, SaidMore
  <2>14. ToldOf(a)'
    BY <2>1, <2>2, <2>3, <2>4, <2>6, <2>9, <2>10, <2>11, <2>12, <2>13 DEF ToldOf, Notifies
  <2>15. ~Said(h, e)
    BY <2>2, <2>3, <2>4, <2>12 DEF ToldOf
  <2>16. entities'[a].handle = h /\ (e = "removed" => Said(h, "constructed"))
         /\ (e = "destroyed" => Said(h, "created") \/ Said(h, "seeded"))
    BY <2>2, <2>4, <2>6, <2>9, <2>10
  <2> QED BY <1>1, <2>1, <2>2, <2>5, <2>9, <2>11, <2>14, <2>15, <2>16, HeardMore
<1>5. CASE ~Attachable(a)
  <2>1. told' = told /\ entities' = entities /\ ctl' = Deletion(a) \o Tail(ctl)
    BY <1>3, <1>5 DEF AttachRuntime, Becomes
  <2>2. PICK fs \in Seq(Frame) : fs = Deletion(a) /\ \A k \in 1..Len(fs) : fs[k].op # "notifyDestroyed"
    BY DeletionSilent
  <2>3. \A b : Notifies(b)' <=> Notifies(b)
    BY <1>1, <2>1, <2>2, QuietOver
  <2> QED BY <1>1, <2>1, <2>3, SilentStep
<1> QED BY <1>4, <1>5

\* Nothing is told when the call goes away.
LEMMA ReturnHeard ==
  ASSUME CoreInv, ToldFit, ctl # <<>>, Top.op # "notifyDestroyed", ctl' = <<>> \o Tail(ctl),
         told' = told, used' = used, entities' = entities
  PROVE  ToldFit'
<1>1. PICK x, c : x = [op |-> "return"] /\ c = <<>>
  OBVIOUS
<1>2. x.op # "notifyDestroyed" /\ ctl' = c \o Tail(ctl)
  BY <1>1
<1>3. \A b : Notifies(b)' <=> Notifies(b)
  BY <1>1, <1>2, QuietStack
<1> QED BY <1>3, SilentStep

\* NotifyCreated tells of the creation.
LEMMA NotifyCreatedHeard ==
  ASSUME CoreInv, ToldFit, NotifyCreated
  PROVE  ToldFit'
<1>1. ctl # <<>> /\ Top.op = "notify" /\ used' = used
  BY DEF NotifyCreated, Running, engine
<1>2. TypeOK /\ FrameFit(Top)
  BY <1>1, TopIs DEF CoreInv
<1>3. PICK a \in Addresses : a = Top.a
  BY <1>1, <1>2 DEF FrameFit, OfEntity, Ops
<1>4. CASE available /\ IsCurrent(a, Top.h) /\ ~entities[a].deleting /\ ~entities[a].createdNotified
  <2>1. Tracked(a) /\ Top.h = entities[a].handle
    BY <1>4 DEF IsCurrent
  <2>2. PICK h \in Handles : h = entities[a].handle /\ h = Top.h
    BY <1>2, <2>1, RecordTyped
  <2>4. PICK e \in Events : e = "created"
    BY DEF Events
  <2>5. told' = [told EXCEPT ![h] = Append(@, e)]
    BY <1>3, <1>4, <2>2, <2>4 DEF NotifyCreated, Tells
  <2>6. PICK r \in Record : r = entities[a]
    BY <1>2, <2>1, RecordTyped
  <2>7. PICK s : s = [r EXCEPT !.createdNotified = TRUE]
    OBVIOUS
  <2>8. s \in Record /\ entities' = [entities EXCEPT ![a] = s]
    <3>1. entities' = [entities EXCEPT ![a].createdNotified = TRUE]
      BY <1>3, <1>4 DEF NotifyCreated
    <3> QED BY <2>6, <2>7, <3>1, Marked
  <2>9. /\ \A b \in Addresses : b # a => entities'[b] = entities[b]
        /\ entities'[a] = s /\ Tracked(a)'
    BY <1>2, <2>1, <2>8, Flagged
  <2>10. /\ s.handle = r.handle /\ s.runtime = r.runtime /\ s.deleting = r.deleting
         /\ s.postConstructed = r.postConstructed /\ s.createdNotified
         /\ s.removeNotified = r.removeNotified
    BY <2>7, FlagSet
  <2>11. \A b : Notifies(b)' <=> Notifies(b)
    <3>1. PICK x, y : x = Do("forwardCreated", a, Top.h) /\ y = Do("createdAll", a, Top.h)
      OBVIOUS
    <3>2. x.op # "notifyDestroyed" /\ y.op # "notifyDestroyed"
      BY <3>1 DEF Do
    <3>3. ctl' = <<x, y>> \o Tail(ctl)
      BY <1>3, <1>4, <3>1 DEF NotifyCreated, Becomes
    <3>4. PICK c : c = <<x, y>>
      OBVIOUS
    <3> QED BY <1>1, <3>2, <3>3, <3>4, QuietStack
  <2>12. ToldOf(a)
    BY <2>1 DEF ToldFit
  <2>13. \A f : Said(h, f)' <=> Said(h, f) \/ f = e
    BY <1>2, <2>5, SaidMore
  <2>14. ToldOf(a)'
    BY <1>4, <2>2, <2>4, <2>6, <2>9, <2>10, <2>11, <2>12, <2>13 DEF ToldOf, Notifies
  <2>15. ~Said(h, e)
    BY <1>4, <2>2, <2>4, <2>12 DEF ToldOf
  <2>16. entities'[a].handle = h /\ (e = "removed" => Said(h, "constructed"))
         /\ (e = "destroyed" => Said(h, "created") \/ Said(h, "seeded"))
    BY <2>2, <2>4, <2>6, <2>9, <2>10
  <2> QED BY <1>1, <2>1, <2>2, <2>5, <2>9, <2>11, <2>14, <2>15, <2>16, HeardMore
<1>5. CASE ~(available /\ IsCurrent(a, Top.h) /\ ~entities[a].deleting /\ ~entities[a].createdNotified)
  <2>1. told' = told /\ entities' = entities /\ ctl' = <<>> \o Tail(ctl)
    BY <1>3, <1>5 DEF NotifyCreated, Becomes
  <2> QED BY <1>1, <2>1, ReturnHeard
<1> QED BY <1>4, <1>5

\* A destruction is about to be told of entities whose creation was.
LEMMA OnEntityDeletedHeard ==
  ASSUME CoreInv, ToldFit, OnEntityDeleted
  PROVE  ToldFit'
<1>1. ctl # <<>> /\ Top.op = "deleted" /\ used' = used /\ told' = told
  BY DEF OnEntityDeleted, Running, engine
<1>2. TypeOK /\ FrameFit(Top) /\ ctl \in Seq(Frame) /\ Tail(ctl) \in Seq(Frame)
  BY <1>1, TopIs DEF CoreInv
<1>3. PICK a \in Addresses : a = Top.a
  BY <1>1, <1>2 DEF FrameFit, OfEntity, Ops
<1>4. CASE available /\ Tracked(a) /\ ~entities[a].deleting
  <2>1. Tracked(a) /\ ~entities[a].deleting
    BY <1>4
  <2>2. PICK h \in 0..MaxHandles : h = entities[a].handle
    <3>1. entities[a].handle \in Handles
      BY <1>2, <2>1, RecordTyped
    <3> QED BY <3>1 DEF Handles
  <2>3. PICK r \in Record : r = entities[a]
    BY <1>2, <2>1, RecordTyped
  <2>4. PICK s : s = [r EXCEPT !.deleting = TRUE]
    OBVIOUS
  <2>5. s \in Record /\ entities' = [entities EXCEPT ![a] = s]
    <3>1. entities' = [entities EXCEPT ![a].deleting = TRUE]
      BY <1>3, <1>4 DEF OnEntityDeleted
    <3> QED BY <2>3, <2>4, <3>1, Marked
  <2>6. /\ \A b \in Addresses : b # a => entities'[b] = entities[b]
        /\ entities'[a] = s /\ Tracked(a)'
    BY <1>2, <2>1, <2>5, Flagged
  <2>7. /\ s.handle = r.handle /\ s.runtime = r.runtime /\ s.deleting
        /\ s.postConstructed = r.postConstructed /\ s.createdNotified = r.createdNotified
        /\ s.removeNotified = r.removeNotified
    BY <2>4, FlagSet
  <2>8. ctl' = Destruction(a, h) \o Tail(ctl)
    BY <1>3, <1>4, <2>2 DEF OnEntityDeleted, Becomes
  <2>9. PICK fs \in Seq(Frame), n \in {1, 2} :
           /\ fs = Destruction(a, h) /\ Len(fs) = n + 1
           /\ fs[1].op = "cleanup" /\ fs[n + 1].op = "erase"
           /\ n = 2 <=> entities[a].createdNotified
           /\ n = 2 => fs[2].op = "notifyDestroyed" /\ fs[2].h = h
           /\ fs[n + 1].h = h
           /\ \A k \in 1..(n + 1) : fs[k].a = a /\ fs[k].t = 0
    BY DestructionIs
  <2>10. \A b : Has(fs, "notifyDestroyed", b) <=> b = a /\ entities[a].createdNotified
    <3>1. \A k \in 1..(n + 1) : k = n + 1 \/ k = 1 \/ (n = 2 /\ k = 2)
      BY <2>9
    <3>2. n = 2 => 2 \in 1..(n + 1)
      BY <2>9
    <3> QED BY <2>9, <3>1, <3>2 DEF Has
  <2>11. \A b : Notifies(b)' <=> (b = a /\ entities[a].createdNotified) \/ Notifies(b)
    <3>1. PICK t : t = ctl' /\ t = fs \o Tail(ctl)
      BY <2>8, <2>9
    <3>2. \A b : Has(t, "notifyDestroyed", b) <=> Has(fs, "notifyDestroyed", b) \/ Has(Tail(ctl), "notifyDestroyed", b)
      <4>1. PICK u \in Seq(Frame) : u = Tail(ctl)
        BY <1>2
      <4>2. \A b : Has(fs \o u, "notifyDestroyed", b) <=> Has(fs, "notifyDestroyed", b) \/ Has(u, "notifyDestroyed", b)
        BY HasOver
      <4> QED BY ONLY <3>1, <4>1, <4>2
    <3>3. \A b : Has(ctl, "notifyDestroyed", b) <=> Has(Tail(ctl), "notifyDestroyed", b)
      BY <1>1, <1>2, HasUnder DEF Top
    <3> QED BY <2>10, <3>1, <3>2, <3>3 DEF Notifies, On
  <2>12. ToldOf(a)
    BY <2>1 DEF ToldFit
  <2>13. \A f : Said(h, f)' <=> Said(h, f)
    BY <1>1 DEF Said
  <2>14. ToldOf(a)'
    BY <2>1, <2>2, <2>3, <2>6, <2>7, <2>11, <2>12, <2>13 DEF ToldOf, Notifies
  <2>15. ASSUME NEW b \in Addresses, Tracked(b)'
         PROVE  Tracked(b) /\ entities'[b].handle = entities[b].handle /\ ToldOf(b)'
    <3>1. CASE b = a
      BY <2>1, <2>3, <2>6, <2>7, <2>14, <3>1
    <3>2. CASE b # a
      <4>1. Tracked(b) /\ entities'[b] = entities[b] /\ (Notifies(b)' <=> Notifies(b))
        BY <2>6, <2>11, <2>15, <3>2 DEF Tracked
      <4>2. SameTold(b) /\ ToldOf(b)
        BY <4>1 DEF SameTold, ToldFit
      <4> QED BY <1>1, <4>1, <4>2, ToldOfKept
    <3> QED BY <3>1, <3>2
  <2>16. \A b \in Addresses : Tracked(b) => Tracked(b)' \/ Ended(entities[b].handle)
    BY <2>6 DEF Tracked
  <2> QED BY <1>1, <2>15, <2>16, HeardSame
<1>5. CASE ~(available /\ Tracked(a) /\ ~entities[a].deleting)
  <2>1. entities' = entities /\ ctl' = <<>> \o Tail(ctl)
    BY <1>3, <1>5 DEF OnEntityDeleted, Becomes
  <2> QED BY <1>1, <2>1, ReturnHeard
<1> QED BY <1>4, <1>5

\* The end of a runtime is told if its start was.
LEMMA CleanupRuntimeHeard ==
  ASSUME CoreInv, ToldFit, CleanupRuntime
  PROVE  ToldFit'
<1>1. ctl # <<>> /\ Top.op = "cleanup" /\ used' = used
  BY DEF CleanupRuntime, Running, engine
<1>2. TypeOK /\ FrameFit(Top)
  BY <1>1, TopIs DEF CoreInv
<1>3. PICK a \in Addresses : a = Top.a
  BY <1>1, <1>2 DEF FrameFit, OfEntity, Ops
<1>4. CASE Tracked(a) /\ ~entities[a].removeNotified
  <2>1. Tracked(a) /\ ~entities[a].removeNotified
    BY <1>4
  <2>2. PICK h \in Handles : h = entities[a].handle
    BY <1>2, <2>1, RecordTyped
  <2>3. PICK r \in Record : r = entities[a]
    BY <1>2, <2>1, RecordTyped
  <2>4. PICK s : s = [r EXCEPT !.removeNotified = TRUE]
    OBVIOUS
  <2>5. s \in Record /\ entities' = [entities EXCEPT ![a] = s]
    <3>1. entities' = [entities EXCEPT ![a].removeNotified = TRUE]
      BY <1>3, <1>4 DEF CleanupRuntime
    <3> QED BY <2>3, <2>4, <3>1, Marked
  <2>6. /\ \A b \in Addresses : b # a => entities'[b] = entities[b]
        /\ entities'[a] = s /\ Tracked(a)'
    BY <1>2, <2>1, <2>5, Flagged
  <2>7. /\ s.handle = r.handle /\ s.runtime = r.runtime /\ s.deleting = r.deleting
        /\ s.postConstructed = r.postConstructed /\ s.createdNotified = r.createdNotified
        /\ s.removeNotified
    BY <2>4, FlagSet
  <2>8. PICK x, y : x = Do("removed", a, h) /\ y = Do("cleanedUp", a, h)
    OBVIOUS
  <2>9. x.op # "notifyDestroyed" /\ y.op # "notifyDestroyed"
    BY <2>8 DEF Do
  <2>10. ToldOf(a)
    BY <2>1 DEF ToldFit
  <2>11. CASE r.runtime /\ r.postConstructed
    <3>1. PICK e \in Events : e = "removed"
      BY DEF Events
    <3>2. told' = [told EXCEPT ![h] = Append(@, e)]
      BY <1>3, <1>4, <2>2, <2>3, <2>11, <3>1 DEF CleanupRuntime, Tells
    <3>3. ctl' = <<x, y>> \o Tail(ctl)
      <4>1. ctl' = (<<x>> \o <<y>>) \o Tail(ctl)
        BY <1>3, <1>4, <2>2, <2>3, <2>8, <2>11 DEF CleanupRuntime, Becomes
      <4> QED BY <4>1, OneOver
    <3>4. \A b : Notifies(b)' <=> Notifies(b)
      <4>1. PICK c : c = <<x, y>>
        OBVIOUS
      <4> QED BY <1>1, <2>9, <3>3, <4>1, QuietStack
    <3>5. \A f : Said(h, f)' <=> Said(h, f) \/ f = e
      BY <1>2, <3>2, SaidMore
    <3>6. ToldOf(a)'
      BY <2>1, <2>2, <2>3, <2>6, <2>7, <2>10, <2>11, <3>1, <3>4, <3>5 DEF ToldOf, Notifies
    <3>7. ~Said(h, e) /\ Said(h, "constructed")
      BY <2>1, <2>2, <2>3, <2>10, <2>11, <3>1 DEF ToldOf
    <3>8. entities'[a].handle = h /\ (e = "removed" => Said(h, "constructed"))
         /\ (e = "destroyed" => Said(h, "created") \/ Said(h, "seeded"))
      BY <2>2, <2>3, <2>6, <2>7, <3>1, <3>7
    <3> QED BY <1>1, <2>1, <2>2, <2>6, <3>2, <3>4, <3>6, <3>7, <3>8, HeardMore
  <2>12. CASE ~(r.runtime /\ r.postConstructed)
    <3>1. told' = told
      BY <1>3, <1>4, <2>3, <2>12 DEF CleanupRuntime
    <3>2. ctl' = <<y>> \o Tail(ctl)
      <4>1. ctl' = (<<>> \o <<y>>) \o Tail(ctl)
        BY <1>3, <1>4, <2>2, <2>3, <2>8, <2>12 DEF CleanupRuntime, Becomes
      <4> QED BY <4>1, OneOver
    <3>3. \A b : Notifies(b)' <=> Notifies(b)
      <4>1. PICK c : c = <<y>>
        OBVIOUS
      <4> QED BY <1>1, <2>9, <3>2, <4>1, QuietStack
    <3>4. \A f : Said(h, f)' <=> Said(h, f)
      BY <3>1 DEF Said
    <3>5. ~r.postConstructed
      BY <2>1, <2>3, <2>10, <2>12 DEF ToldOf
    <3>6. ToldOf(a)'
      BY <2>1, <2>2, <2>3, <2>6, <2>7, <2>10, <3>3, <3>4, <3>5 DEF ToldOf, Notifies
    <3>7. ASSUME NEW b \in Addresses, Tracked(b)'
          PROVE  Tracked(b) /\ entities'[b].handle = entities[b].handle /\ ToldOf(b)'
      <4>1. CASE b = a
        BY <2>1, <2>3, <2>6, <2>7, <3>6, <4>1
      <4>2. CASE b # a
        <5>1. Tracked(b) /\ entities'[b] = entities[b]
          BY <2>6, <3>7, <4>2 DEF Tracked
        <5>2. SameTold(b) /\ ToldOf(b)
          BY <5>1 DEF SameTold, ToldFit
        <5> QED BY <3>1, <3>3, <5>1, <5>2, ToldOfKept
      <4> QED BY <4>1, <4>2
    <3>8. \A b \in Addresses : Tracked(b) => Tracked(b)' \/ Ended(entities[b].handle)
      BY <2>6 DEF Tracked
    <3> QED BY <1>1, <3>1, <3>7, <3>8, HeardSame
  <2> QED BY <2>11, <2>12
<1>5. CASE ~(Tracked(a) /\ ~entities[a].removeNotified)
  <2>1. told' = told /\ entities' = entities /\ ctl' = <<>> \o Tail(ctl)
    BY <1>3, <1>5 DEF CleanupRuntime, Becomes
  <2> QED BY <1>1, <2>1, ReturnHeard
<1> QED BY <1>4, <1>5

\* The sidecar goes when the end of the runtime was told.
LEMMA CleanedUpHeard ==
  ASSUME CoreInv, ToldFit, CleanedUp
  PROVE  ToldFit'
<1>1. ctl # <<>> /\ Top.op = "cleanedUp" /\ used' = used /\ told' = told /\ ctl' = <<>> \o Tail(ctl)
  BY DEF CleanedUp, Running, Becomes, engine
<1>2. TypeOK /\ FrameFit(Top)
  BY <1>1, TopIs DEF CoreInv
<1>3. PICK a \in Addresses : a = Top.a /\ Tracked(a) /\ IsCurrent(a, Top.h) /\ entities[a].removeNotified
  BY <1>1, <1>2 DEF FrameFit, OfEntity, Ops, RecordOps, IsCurrent
<1>4. entities' = [entities EXCEPT ![a].slotted = FALSE, ![a].runtime = FALSE, ![a].sidecar = None]
  BY <1>3 DEF CleanedUp
<1>5. /\ \A b \in Addresses : b # a => entities'[b] = entities[b]
      /\ \A b \in Addresses : Tracked(b)' <=> Tracked(b)
      /\ entities'[a].handle = entities[a].handle /\ entities'[a].deleting = entities[a].deleting
      /\ entities'[a].removeNotified = entities[a].removeNotified
      /\ entities'[a].postConstructed = entities[a].postConstructed
      /\ entities'[a].createdNotified = entities[a].createdNotified
  BY <1>2, <1>3, <1>4, CleanedEntry
<1>6. \A b : Notifies(b)' <=> Notifies(b)
  <2>1. PICK x, c : x = [op |-> "return"] /\ c = <<>>
    OBVIOUS
  <2>2. x.op # "notifyDestroyed" /\ ctl' = c \o Tail(ctl) /\ Top.op # "notifyDestroyed"
    BY <1>1, <2>1
  <2> QED BY <1>1, <2>1, <2>2, QuietStack
<1>7. ASSUME NEW b \in Addresses, Tracked(b)'
      PROVE  Tracked(b) /\ entities'[b].handle = entities[b].handle /\ ToldOf(b)'
  <2>1. SameTold(b) /\ ToldOf(b)
    <3>1. Tracked(b) /\ ToldOf(b)
      BY <1>5, <1>7 DEF ToldFit
    <3>2. CASE b = a
      BY <1>3, <1>5, <3>1, <3>2 DEF SameTold
    <3>3. CASE b # a
      BY <1>5, <3>1, <3>3 DEF SameTold
    <3> QED BY <3>1, <3>2, <3>3
  <2>2. ToldOf(b)'
    BY <1>1, <1>6, <2>1, ToldOfKept
  <2> QED BY <2>1, <2>2 DEF SameTold
<1>8. \A b \in Addresses : Tracked(b) => Tracked(b)' \/ Ended(entities[b].handle)
  BY <1>5
<1> QED BY <1>1, <1>7, <1>8, HeardSame

\* A destruction is told once, with the record about to go.
LEMMA NotifyDestroyedHeard ==
  ASSUME CoreInv, ToldFit, NotifyDestroyed
  PROVE  ToldFit'
<1>1. /\ ctl # <<>> /\ Top.op = "notifyDestroyed" /\ used' = used /\ entities' = entities
      /\ ctl' = <<Do("forwardDestroyed", Top.a, Top.h), Do("destroyedAll", Top.a, Top.h)>> \o Tail(ctl)
  BY DEF NotifyDestroyed, Running, Becomes, engine, registry
<1>2. /\ TypeOK /\ FrameFit(Top) /\ ctl \in Seq(Frame) /\ Tail(ctl) \in Seq(Frame) /\ Top = ctl[1]
      /\ Len(ctl) \in Nat /\ Len(ctl) > 0 /\ Nested(ctl) /\ Single(ctl) /\ FramesFit
  BY <1>1, TopIs DEF CoreInv, StackInv
<1>3. PICK a \in Addresses : a = Top.a /\ Tracked(a) /\ entities[a].handle = Top.h
  BY <1>1, <1>2 DEF FrameFit, OfEntity, Ops, RecordOps, Telling, IsCurrent
<1>4. PICK h \in Handles : h = entities[a].handle /\ h = Top.h
  BY <1>2, <1>3, RecordTyped
<1>5. PICK e \in Events : e = "destroyed"
  BY DEF Events
<1>6. told' = [told EXCEPT ![h] = Append(@, e)]
  BY <1>4, <1>5 DEF NotifyDestroyed, Tells
<1>7. 1 + 1 \in 1..Len(ctl) /\ ctl[1 + 1].op = "erase" /\ ctl[1 + 1].a = a
  <2>1. BelowSame(ctl, 1, {"erase"})
    BY <1>1, <1>2 DEF Nested, NestedAt, Telling
  <2> QED BY <1>2, <1>3, <2>1 DEF BelowSame, Below
<1>8. entities[a].deleting
  BY <1>2, <1>7 DEF FramesFit, FrameFit, Place
<1>9. Notifies(a)
  BY <1>1, <1>2, <1>3 DEF Notifies, On, Has
<1>10. ~Has(Tail(ctl), "notifyDestroyed", a)
  <2> SUFFICES ASSUME Has(Tail(ctl), "notifyDestroyed", a) PROVE FALSE
    OBVIOUS
  <2>1. PICK k \in 1..Len(Tail(ctl)) : Tail(ctl)[k].op = "notifyDestroyed" /\ Tail(ctl)[k].a = a
    BY DEF Has
  <2>2. PICK j \in 1..Len(ctl) : j = k + 1 /\ j > 1 /\ ctl[j].op = "notifyDestroyed" /\ ctl[j].a = a
    BY <1>2, <2>1
  <2>3. BelowSame(ctl, j, {"erase"})
    BY <1>2, <2>2 DEF Nested, NestedAt, Telling
  <2>4. j + 1 \in 1..Len(ctl) /\ ctl[j + 1].op = "erase" /\ ctl[j + 1].a = a
    BY <2>2, <2>3 DEF BelowSame, Below
  <2>5. j + 1 = 1 + 1
    BY <1>2, <1>7, <2>4 DEF Single, Alike, Unique
  <2> QED BY <2>2, <2>5
<1>11. /\ ~Notifies(a)'
       /\ \A b : b # a => (Notifies(b)' <=> Notifies(b))
  <2>1. PICK x, y : x = Do("forwardDestroyed", Top.a, Top.h) /\ y = Do("destroyedAll", Top.a, Top.h)
    OBVIOUS
  <2>2. x.op # "notifyDestroyed" /\ y.op # "notifyDestroyed"
    BY <2>1 DEF Do
  <2>3. PICK u \in Seq(Frame) : u = Tail(ctl)
    BY <1>2
  <2>4. PICK c : c = <<x, y>>
    OBVIOUS
  <2>5. \A b : Has(c \o u, "notifyDestroyed", b) <=> Has(u, "notifyDestroyed", b)
    BY <2>2, <2>4, FewOver
  <2>6. ctl' = c \o u
    BY <1>1, <2>1, <2>3, <2>4
  <2>7. PICK t : t = ctl' /\ t = c \o u
    BY <2>6
  <2>8. \A b : Has(t, "notifyDestroyed", b) <=> Has(Tail(ctl), "notifyDestroyed", b)
    BY ONLY <2>3, <2>5, <2>7
  <2>9. \A b : b # a => (Has(ctl, "notifyDestroyed", b) <=> Has(Tail(ctl), "notifyDestroyed", b))
    BY <1>1, <1>2, <1>3, HasUnder DEF Top
  <2> QED BY <1>10, <2>7, <2>8, <2>9 DEF Notifies, On
<1>12. ToldOf(a)
  BY <1>3 DEF ToldFit
<1>13. \A f : Said(h, f)' <=> Said(h, f) \/ f = e
  BY <1>2, <1>6, SaidMore
<1>14. entities[a].createdNotified
  BY <1>9, <1>12 DEF ToldOf, Notifies
<1>15. ~Said(h, e) /\ (Said(h, "created") \/ Said(h, "seeded"))
  BY <1>4, <1>5, <1>9, <1>12, <1>14 DEF ToldOf, Notifies
<1>16. ToldOf(a)'
  BY <1>1, <1>4, <1>5, <1>8, <1>11, <1>12, <1>13, <1>14 DEF ToldOf, Notifies
<1>17. /\ \A b \in Addresses : b # a => entities'[b] = entities[b]
       /\ Tracked(a)' /\ entities'[a].handle = h
       /\ e = "removed" => Said(h, "constructed")
       /\ e = "destroyed" => Said(h, "created") \/ Said(h, "seeded")
  BY <1>1, <1>3, <1>4, <1>5, <1>15 DEF Tracked
<1> QED BY <1>1, <1>3, <1>4, <1>6, <1>11, <1>15, <1>16, <1>17, HeardMore

\* The record goes when all was told.
LEMMA EraseHeard ==
  ASSUME CoreInv, ToldFit, Erase
  PROVE  ToldFit'
<1>1. ctl # <<>> /\ Top.op = "erase" /\ used' = used /\ told' = told /\ ctl' = <<>> \o Tail(ctl)
  BY DEF Erase, Running, Becomes, engine
<1>2. /\ TypeOK /\ FrameFit(Top) /\ ctl \in Seq(Frame) /\ Top = ctl[1] /\ Len(ctl) > 0
      /\ Nested(ctl) /\ Single(ctl) /\ RecordsFit
  BY <1>1, TopIs DEF CoreInv, StackInv, RecordInv
<1>3. PICK a \in Addresses : a = Top.a /\ Tracked(a) /\ IsCurrent(a, Top.h) /\ entities[a].deleting
  BY <1>1, <1>2 DEF FrameFit, OfEntity, Ops, RecordOps, IsCurrent
<1>4. entities' = [entities EXCEPT ![a] = NoRecord]
  BY <1>3 DEF Erase
<1>5. \A b \in Addresses : (Tracked(b)' <=> Tracked(b) /\ b # a) /\ (b # a => entities'[b] = entities[b])
  BY <1>2, <1>4 DEF TypeOK, Tracked
<1>6. \A b : Notifies(b)' <=> Notifies(b)
  <2>1. PICK x, c : x = [op |-> "return"] /\ c = <<>>
    OBVIOUS
  <2>2. x.op # "notifyDestroyed" /\ ctl' = c \o Tail(ctl) /\ Top.op # "notifyDestroyed"
    BY <1>1, <2>1
  <2> QED BY <1>1, <2>1, <2>2, QuietStack
<1>7. ~Notifies(a)
  <2>1. \A k \in 1..Len(ctl) : k # 1 /\ ctl[k].a = a => ctl[k].op \notin RecordOps \cup {"cleanup"}
    BY <1>1, <1>2, <1>3, DroppedLast
  <2> QED BY <1>1, <1>2, <2>1 DEF Notifies, On, Has, RecordOps, Telling
<1>8. Ended(entities[a].handle)
  <2>1. entities[a].removeNotified
    BY <1>1, <1>2, <1>3 DEF RecordsFit, RecordFit, Running
  <2>2. ToldOf(a)
    BY <1>3 DEF ToldFit
  <2> QED BY <1>3, <1>7, <2>1, <2>2 DEF ToldOf, Ended, Notifies
<1>9. ASSUME NEW b \in Addresses, Tracked(b)'
      PROVE  Tracked(b) /\ entities'[b].handle = entities[b].handle /\ ToldOf(b)'
  <2>1. SameTold(b) /\ ToldOf(b)
    BY <1>5, <1>9 DEF SameTold, ToldFit
  <2>2. ToldOf(b)'
    BY <1>1, <1>6, <2>1, ToldOfKept
  <2> QED BY <2>1, <2>2 DEF SameTold
<1>10. \A b \in Addresses : Tracked(b) => Tracked(b)' \/ Ended(entities[b].handle)
  BY <1>5, <1>8
<1> QED BY <1>1, <1>9, <1>10, HeardSame

\* A purge ends with nothing left to tell.
LEMMA PurgedHeard ==
  ASSUME CoreInv, ToldFit, Purged
  PROVE  ToldFit'
<1>1. /\ ctl # <<>> /\ Top.op = "purged" /\ used' = used /\ told' = told
      /\ entities' = [a \in Addresses |-> NoRecord]
  BY DEF Purged, Running, engine
<1>2. \A a \in Addresses : ~Tracked(a) /\ ~Tracked(a)'
  BY <1>1, NoneLeft DEF Tracked
<1> QED BY <1>1, <1>2, HeardSame

\* Every step keeps the invariant.
LEMMA ToldNext ==
  ASSUME CoreInv, ToldFit, [Next]_vars
  PROVE  ToldFit'
<1>1. CASE Manager
  <2>1. CASE \/ CreateReturns \/ CallbackReturns \/ CreatedListeners \/ TellCreated \/ Flush
             \/ DestroyedListeners \/ TellDestroyed \/ Purge \/ FreeMemory \/ Stop
    BY <2>1, QuietStepsHeard
  <2>2. CASE AttachRuntime \/ NotifyCreated \/ NotifyDestroyed
    BY <2>2, AttachRuntimeHeard, NotifyCreatedHeard, NotifyDestroyedHeard
  <2>3. CASE OnEntityDeleted \/ CleanupRuntime \/ CleanedUp
    BY <2>3, OnEntityDeletedHeard, CleanupRuntimeHeard, CleanedUpHeard
  <2>4. CASE Erase \/ Purged
    BY <2>4, EraseHeard, PurgedHeard
  <2> QED BY <1>1, <2>1, <2>2, <2>3, <2>4 DEF Manager
<1>2. CASE World
  <2>1. CASE \E a \in Addresses :
               \/ CreateClientOnly(a)
               \/ \E i \in Indexes : CreateNetworked(a, i)
               \/ \E i \in Indexes, hooked \in BOOLEAN : CreateCustom(a, i, hooked)
    BY <2>1, CreateHeard
  <2>2. CASE \/ \E a \in Addresses : DeleteEntity(a)
             \/ FlushPendingCreates \/ PurgeEntities \/ Shutdown
             \/ \E l \in Listeners : AddClientEntityListener(l) \/ RemoveClientEntityListener(l)
    BY <2>2, WorldStepsHeard
  <2> QED BY <1>2, <2>1, <2>2 DEF World
<1>3. CASE UNCHANGED vars
  <2>1. told' = told /\ used' = used /\ entities' = entities /\ ctl' = ctl
    BY <1>3 DEF vars
  <2>2. \A b : Notifies(b)' <=> Notifies(b)
    BY <2>1 DEF Notifies, On, Has
  <2> QED BY <2>1, <2>2, SilentStep
<1> QED BY <1>1, <1>2, <1>3 DEF Next

\* It holds before the first call: one entity may have been seeded.
LEMMA ToldInit ==
  ASSUME Init
  PROVE  ToldFit
<1>1. CASE Unseeded
  <2>1. /\ \A a \in Addresses : ~Tracked(a)
        /\ \A h \in Handles : told[h] = <<>>
    BY <1>1 DEF Unseeded, Tracked
  <2>2. \A h \in Handles : (\A e : ~Said(h, e)) /\ HeardInOrder(h) /\ Ended(h)
    BY <2>1 DEF Said, HeardInOrder, Before, Ended
  <2> QED BY <2>1, <2>2 DEF ToldFit
<1>2. ASSUME NEW x \in Addresses, NEW i \in Indexes \cup {None}, Seeded(x, i) PROVE ToldFit
  <2>1. /\ \A h \in Handles : h # 1 => told[h] = <<>>
        /\ 1 \in Handles => told[1] = <<"seeded">>
    BY <1>2 DEF Seeded
  <2>2. 1 \in Handles
    BY ConstantsOK DEF Handles
  <2>3. /\ \A a \in Addresses : a # x => ~Tracked(a)
        /\ Tracked(x) /\ entities[x].handle = 1 /\ ~entities[x].deleting /\ ~entities[x].runtime
        /\ entities[x].createdNotified /\ ~entities[x].postConstructed /\ ~entities[x].removeNotified
    BY <1>2 DEF Seeded, Tracked, NoRecord, None
  <2>4. \A a : ~On("notifyDestroyed", a)
    BY DEF Init, On, Has
  <2>5. \A e : Said(1, e) <=> e = "seeded"
    BY <2>1, <2>2 DEF Said
  <2>6. ToldOf(x)
    BY <2>3, <2>4, <2>5 DEF ToldOf
  <2>7. \A h \in Handles : h # 1 => HeardInOrder(h) /\ Ended(h)
    BY <2>1 DEF Said, HeardInOrder, Before, Ended
  <2>8. HeardInOrder(1)
    <3>1. \A k \in 1..Len(told[1]) : k = 1
      <4>1. Len(told[1]) = 1
        <5>1. Len(<<"seeded">>) = 1
          OBVIOUS
        <5>2. told[1] = <<"seeded">>
          BY <2>1, <2>2
        <5> QED BY ONLY <5>1, <5>2
      <4>2. \A k \in 1..1 : k = 1
        OBVIOUS
      <4> QED BY ONLY <4>1, <4>2
    <3>2. \A k \in DOMAIN told[1] : told[1][k] = "seeded"
      BY <2>1, <2>2
    <3> QED BY <2>5, <3>1, <3>2 DEF HeardInOrder, Before
  <2>9. used = 1
    BY <1>2 DEF Seeded
  <2>10. \A h \in Handles : h > used => told[h] = <<>>
    BY <2>1, <2>9, ConstantsOK DEF Handles
  <2>11. \A h \in Handles : (\A a \in Addresses : ~IsCurrent(a, h)) => Ended(h)
    BY <2>3, <2>7 DEF IsCurrent
  <2> QED BY <2>2, <2>3, <2>6, <2>7, <2>8, <2>10, <2>11 DEF ToldFit
<1> QED BY <1>1, <1>2, FirstStates

\* The invariant says what plugins hear of each entity.
LEMMA EventsPairedByInv ==
  ASSUME IInv
  PROVE  EventsPaired
<1>1. TypeOK /\ RecordsFit /\ ToldFit
  BY DEF IInv, CoreInv, RecordInv
<1> SUFFICES ASSUME NEW h \in Handles
             PROVE  /\ \A j, k \in DOMAIN told[h] : told[h][j] = told[h][k] => j = k
                    /\ Before(h, "constructed", "removed")
                    /\ Said(h, "seeded") \/ Before(h, "created", "destroyed")
                    /\ Gone(h) /\ available =>
                         /\ Said(h, "constructed") => Said(h, "removed")
                         /\ Said(h, "created") \/ Said(h, "seeded") => Said(h, "destroyed")
  BY DEF EventsPaired
<1>2. DOMAIN told[h] = 1..Len(told[h])
  <2>1. told \in [Handles -> Seq(Events)]
    BY <1>1 DEF TypeOK, Events
  <2>2. told[h] \in Seq(Events)
    BY <2>1
  <2> QED BY <2>2
<1>3. HeardInOrder(h)
  BY <1>1 DEF ToldFit
<1>4. ASSUME Gone(h) PROVE Ended(h)
  <2>1. \A a \in Addresses : ~IsCurrent(a, h)
    <3> SUFFICES ASSUME NEW a \in Addresses, IsCurrent(a, h) PROVE FALSE
      OBVIOUS
    <3>1. Tracked(a) /\ entities[a].handle = h /\ live[a] # h /\ ctl = <<>>
      BY <1>4 DEF IsCurrent, Gone
    <3>2. On("erase", a)
      BY <1>1, <3>1 DEF RecordsFit, RecordFit
    <3>3. Len(ctl) = 0
      BY <3>1
    <3> QED BY <3>2, <3>3 DEF On, Has
  <2> QED BY <1>1, <2>1 DEF ToldFit
<1> QED BY <1>2, <1>3, <1>4 DEF HeardInOrder, Ended

\* In every reachable state the inductive invariant holds: the core invariant, and
\* what listeners were told of each entity fits what its record, its handle and
\* the frames of the calls on the stack say of it.
THEOREM InvariantHolds == Spec => []IInv
<1>1. Init => IInv
  BY CoreInit, ToldInit DEF IInv
<1>2. IInv /\ [Next]_vars => IInv'
  BY CoreNext, ToldNext DEF IInv
<1> QED BY <1>1, <1>2, PTL DEF Spec

\* Plugins hear of each event of an entity once at most, of PostConstructor before
\* OnRemove and of its creation, or its seeding, before its destruction; and once
\* the entity is gone, of OnRemove and of the destruction if they heard of the
\* other, as long as the manager was not shut down.
THEOREM EventsAlwaysPaired == Spec => []EventsPaired
<1>1. IInv => EventsPaired
  BY EventsPairedByInv
<1> QED BY <1>1, InvariantHolds, PTL

=============================================================================
