----------------------- MODULE EntityFactoriesProofs -----------------------
(***************************************************************************)
(* Proofs about module EntityFactories: for any number of factories,       *)
(* entities, plugins and classnames, any nesting of calls, every hierarchy *)
(* that factories may be told to form, and all plugins whose callbacks     *)
(* create entities, install and edit factories from OnInstalled, and       *)
(* uninstall them from OnUninstalled (Survivable).                         *)
(***************************************************************************)
EXTENDS MCEntityFactories, FiniteSetTheorems, SequenceTheorems, NaturalsInduction,
        WellFoundedInduction, TLAPS

\* The frames of the call stack, innermost first.
Place == 1..Len(ctl)

Building == {"attachNextBot", "construct", "postConstruct"}
Destroying == {"removeEntity", "destruct", "onEnd"}
Emptying == {"removeAll", "removeEach", "detach"}
Leaving == {"uninstall", "children", "onUninstalled", "onInstalled"}
Closers == {"closeOwned", "unloadAll", "closeAll"}

\* Calls that uninstall a factory, and those after its classname is gone.
Uninstalling == {"children"} \cup Emptying
Stages == {"uninstall"} \cup Uninstalling

\* Calls are nested by rank: those of one rank only where constructions or
\* uninstalls nest.
Rank(op) ==
  CASE op \in Building -> 0
    [] op = "onRemove" -> 1
    [] op \in Destroying -> 2
    [] op \in Emptying -> 3
    [] op \in Leaving -> 4
    [] op = "delete" -> 5
    [] op \in Closers -> 6
Over(a, b) == Rank(a) < Rank(b) \/ (Rank(a) = Rank(b) /\ a \in Building \cup Leaving)

OrderedIn(s) == \A j, k \in 1..Len(s) : j < k => Over(s[j].op, s[k].op)
Ordered == OrderedIn(ctl)

\* Nothing is installed in the middle of an uninstall.
InstallingIn(s) ==
  (\E k \in 1..Len(s) : s[k].op = "onInstalled") =>
    \A k \in 1..Len(s) : s[k].op \in {"onInstalled"} \cup Building
Installing == InstallingIn(ctl)

\* What a frame refers to.
FrameFit(fr) ==
  /\ fr.op \in Building \cup {"onRemove", "onEnd"} \cup Emptying \cup Leaving \cup {"delete"}
       => fr.f \in Factories
  /\ fr.op \in {"removeEntity", "destruct"} \cup Closers => fr.f = None
  /\ fr.op \in Building \cup {"onRemove"} \cup Destroying => fr.e \in 1..created
  /\ fr.op \in Emptying \cup Leaving \cup {"delete"} \cup Closers => fr.e = None
  /\ fr.op # "removeEach" => fr.es = {}
  /\ fr.op # "construct" => fr.fs = <<>>
  /\ fr.op = "unloadAll" => fr.n >= 1
  /\ fr.f \notin closed /\ fr.e \notin gone
  /\ \A i \in DOMAIN fr.fs : fr.fs[i] \notin closed
FramesFit == \A k \in Place : FrameFit(ctl[k])

\* A factory is listed once until it is deleted, and as long as it is installed.
Registered ==
  /\ \A i, j \in DOMAIN factories : factories[i] = factories[j] => i = j
  /\ Live \cap closed = {}
  /\ \A f \in Factories : installed[f] => f \in Live
  /\ \A f \in Factories : base[f] # None => installed[f]

\* Bases and derived factories know each other.
HierarchyAt(f) ==
  /\ count[f] <= Len(slots[f])
  /\ base[f] \in Factories =>
       installed[base[f]] /\ \E i \in 1..count[base[f]] : slots[base[f]][i] = f
  /\ \A i \in 1..count[f] : installed[slots[f][i]] /\ base[slots[f][i]] = f
  /\ \A i, j \in 1..count[f] : slots[f][i] = slots[f][j] => i = j
Hierarchy == \A f \in Factories : HierarchyAt(f)

\* An uninstall has gone through the derived factories that are left, but for the
\* one that it is at, which a call above uninstalls.
WithdrawnAt(s, k) ==
  /\ s[k].op \in Emptying => count[s[k].f] = 0
  /\ s[k].op = "children" =>
       /\ s[k].n <= Len(slots[s[k].f])
       /\ \A i \in 1..s[k].n : slots[s[k].f][i] \notin closed
       /\ count[s[k].f] > s[k].n =>
            /\ count[s[k].f] = s[k].n + 1
            /\ \E j \in 1..Len(s) : /\ j < k /\ s[j].op \in Stages
                                    /\ s[j].f = slots[s[k].f][s[k].n + 1]
Withdrawn == \A k \in Place : WithdrawnAt(ctl, k)

\* A classname leads to an installed factory, and back unless it is being uninstalled.
NameFits ==
  \A c \in Classnames : dict[c] # None =>
    installed[dict[c]] /\ dict[c] \notin Abstract /\ Class[dict[c]] = c
NameKnown(s, f) ==
  installed[f] /\ f \notin Abstract /\ dict[Class[f]] # f =>
    \E k \in 1..Len(s) : s[k].op \in Uninstalling /\ s[k].f = f
NameGone(s, k) == s[k].op \in Uninstalling => \A c \in Classnames : dict[c] # s[k].f
Named ==
  /\ NameFits
  /\ \A f \in Factories : NameKnown(ctl, f)
  /\ \A k \in Place : NameGone(ctl, k)

\* A factory is deleted after it was uninstalled.
DeletingAt(s, k) ==
  s[k].op = "delete" /\ installed[s[k].f] =>
     \E j \in 1..Len(s) : s[j].op \in Stages /\ s[j].f = s[k].f
Deleting == \A k \in Place : DeletingAt(ctl, k)

\* An entity has a record, of an installed factory, until its destruction.
RecordFits(e) == record[e] # None => e <= created /\ e \notin gone /\ installed[record[e]]
EntityKnown(s, e) ==
  e <= created /\ e \notin gone /\ record[e] = None =>
    \E k \in 1..Len(s) : s[k].op = "onEnd" /\ s[k].e = e
KilledKnown(s, e) ==
  e \in killed /\ record[e] # None =>
    \E k \in 1..Len(s) : s[k].op = "destruct" /\ s[k].e = e
KilledAt(s, k) == s[k].op \in {"destruct", "onEnd"} => s[k].e \in killed
Recorded ==
  /\ gone \subseteq killed /\ killed \subseteq 1..created
  /\ \A e \in Entities : RecordFits(e) /\ EntityKnown(ctl, e) /\ KilledKnown(ctl, e)
  /\ \A k \in Place : KilledAt(ctl, k)

\* The entities of a factory that is being uninstalled are about to be removed, and
\* none is left in the end.
EmptiedAt(s, k) ==
  /\ s[k].op = "removeEach" =>
       /\ s[k].es \cap killed = {}
       /\ \A e \in s[k].es : record[e] = s[k].f
       /\ \A e \in Entities : record[e] = s[k].f /\ e \notin s[k].es =>
            \E j \in 1..Len(s) : s[j].op \in {"removeEntity", "destruct"} /\ s[j].e = e
       /\ \A j \in 1..Len(s) : s[j].op = "removeEntity" => s[j].e \notin s[k].es
  /\ s[k].op = "detach" => \A e \in Entities : record[e] # s[k].f
Emptied == \A k \in Place : EmptiedAt(ctl, k)

\* What BaseOf and Line say is what ToPlugin and Levels say: see LevelsAre.
BaseOf(b, L, x) == IF b[x] \in L THEN b[x] ELSE None

\* The recursion of Up, up to the level n.
Steps(b, L, f, n, g) ==
  g = [k \in 0..n |-> IF k = 0 THEN f ELSE IF g[k-1] = None THEN None
                      ELSE IF b[g[k-1]] \in L THEN b[g[k-1]] ELSE None]
Walk(b, L, f) == CHOOSE g : Steps(b, L, f, MaxFactories, g)
Line(b, L, f) == {Walk(b, L, f)[k] : k \in 0..MaxFactories} \ {None}

\* The fields of an entity are those of its factory's levels, until they are destroyed.
FieldsFit(e) == record[e] # None => fields[e] \subseteq Line(base, Live, record[e])
FieldsKnown(s, e) ==
  record[e] = None /\ fields[e] # {} =>
    \E k \in 1..Len(s) : s[k].op = "onEnd" /\ s[k].e = e
FilledAt(s, k) ==
  /\ s[k].op = "onEnd" =>
       record[s[k].e] = None /\ fields[s[k].e] \subseteq Line(base, Live, s[k].f)
  /\ s[k].op = "construct" /\ s[k].fs # <<>> =>
       /\ record[s[k].e] = s[k].f
       /\ \A i \in DOMAIN s[k].fs : s[k].fs[i] \in Line(base, Live, s[k].f)
Filled ==
  /\ \A e \in Entities : FieldsFit(e) /\ FieldsKnown(ctl, e)
  /\ \A k \in Place : FilledAt(ctl, k)

IInv ==
  /\ TypeOK /\ Ordered /\ Installing /\ FramesFit /\ Registered /\ Hierarchy /\ Withdrawn
  /\ Named /\ Deleting /\ Recorded /\ Emptied /\ Filled
-----------------------------------------------------------------------------
(***************************************************************************)
(* Numbers.                                                                *)
(***************************************************************************)

Less == {p \in Nat \X Nat : p[1] < p[2]}

\* The relation that the library's theorem on well-founded relations takes.
LEMMA LessWellFounded == IsWellFoundedOn(Less, Nat)
<1>1. OpToRel(<, Nat) = Less
  BY Zenon DEF OpToRel, Less
<1> QED BY <1>1, NatLessThanWellFounded, Zenon

\* A set of natural numbers has a least one.
LEMMA LeastNumber ==
  ASSUME NEW S \in SUBSET Nat, S # {}
  PROVE  \E x \in S : \A y \in S : x <= y
<1>1. PICK x \in S : \A y \in S : ~(<<y, x>> \in Less)
  BY LessWellFounded, WFMin
<1>2. ASSUME NEW y \in S PROVE x <= y
  <2>1. <<y, x>> \in Nat \X Nat /\ ~(<<y, x>>[1] < <<y, x>>[2])
    BY <1>1 DEF Less
  <2> QED BY <2>1
<1> QED BY <1>2

\* A bounded one has a greatest.
LEMMA GreatestNumber ==
  ASSUME NEW n \in Nat, NEW S \in SUBSET (0..n), S # {}
  PROVE  \E x \in S : \A y \in S : y <= x
<1> DEFINE D == {n - x : x \in S}
<1>0. \A x \in S : x \in 0..n /\ n - x \in Nat
  OBVIOUS
<1>1. D \in SUBSET Nat /\ D # {}
  BY <1>0
<1>2. PICK d \in D : \A y \in D : d <= y
  <2> HIDE DEF D
  <2> QED BY <1>1, LeastNumber
<1>3. PICK x \in S : d = n - x
  OBVIOUS
<1>4. ASSUME NEW y \in S PROVE y <= x
  <2>1. n - x <= n - y /\ x \in 0..n /\ y \in 0..n
    BY <1>2, <1>3
  <2> QED BY <2>1
<1> QED BY <1>4

\* Induction up to n, for a set of numbers.
LEMMA UpTo ==
  ASSUME NEW n \in Nat, NEW P, 0 \in P, \A k \in 1..n : k - 1 \in P => k \in P
  PROVE  \A k \in 0..n : k \in P
<1> DEFINE Bad == {k \in 0..n : k \notin P}
<1>1. SUFFICES ASSUME Bad # {} PROVE FALSE
  OBVIOUS
<1>2. Bad \in SUBSET Nat
  OBVIOUS
<1>3. PICK m \in Bad : \A k \in Bad : m <= k
  <2> HIDE DEF Bad
  <2> QED BY <1>1, <1>2, LeastNumber
<1>4. m \in 0..n /\ m \notin P /\ m # 0
  OBVIOUS
<1>5. m \in 1..n /\ m - 1 \in 0..n /\ ~(m <= m - 1)
  BY <1>4
<1>6. m - 1 \in P
  BY <1>3, <1>5
<1> QED BY <1>4, <1>5, <1>6
-----------------------------------------------------------------------------
(***************************************************************************)
(* Walks up the hierarchy, for the base b of each factory and the set L of *)
(* factories that are listed.                                              *)
(***************************************************************************)

\* The recursion has a solution up to every level.
LEMMA StepsExist ==
  ASSUME NEW b, NEW L, NEW f, NEW n \in Nat
  PROVE  \E g : Steps(b, L, f, n, g)
<1> DEFINE P == {k \in Nat : \E g : Steps(b, L, f, k, g)}
<1>1. 0 \in P
  <2> DEFINE g == [k \in 0..0 |-> f]
  <2>1. Steps(b, L, f, 0, g)
    BY DEF Steps
  <2> QED BY <2>1
<1>2. ASSUME NEW m \in 1..n, m - 1 \in P PROVE m \in P
  <2>1. PICK g : Steps(b, L, f, m - 1, g)
    BY <1>2
  <2> DEFINE last == IF g[m-1] = None THEN None
                     ELSE IF b[g[m-1]] \in L THEN b[g[m-1]] ELSE None
             h == [k \in 0..m |-> IF k = m THEN last ELSE g[k]]
  <2>2. m \in Nat /\ m # 0 /\ \A k \in 0..m : k # m => k \in 0..(m-1)
    OBVIOUS
  <2>3. \A k \in 0..m : h[k] = IF k = 0 THEN f ELSE IF h[k-1] = None THEN None
                               ELSE IF b[h[k-1]] \in L THEN b[h[k-1]] ELSE None
    <3> TAKE k \in 0..m
    <3>1. CASE k = m
      <4>1. h[k] = last /\ k # 0 /\ k - 1 \in 0..m /\ k - 1 # m /\ h[k-1] = g[m-1]
        BY <2>2, <3>1
      <4> HIDE DEF h
      <4> QED BY <3>1, <4>1
    <3>2. CASE k # m
      <4>1. k \in 0..(m-1) /\ h[k] = g[k]
        BY <2>2, <3>2
      <4>2. g[k] = IF k = 0 THEN f ELSE IF g[k-1] = None THEN None
                   ELSE IF b[g[k-1]] \in L THEN b[g[k-1]] ELSE None
        BY <2>1, <4>1 DEF Steps
      <4>3. k # 0 => k - 1 \in 0..m /\ k - 1 # m /\ h[k-1] = g[k-1]
        BY <2>2, <4>1
      <4> HIDE DEF h
      <4> QED BY <4>1, <4>2, <4>3
    <3> QED BY <3>1, <3>2
  <2>4. h = [k \in 0..m |-> h[k]]
    OBVIOUS
  <2>5. Steps(b, L, f, m, h)
    <3> HIDE DEF h
    <3> QED BY <2>3, <2>4 DEF Steps
  <2> HIDE DEF h
  <2> QED BY <2>2, <2>5
<1> HIDE DEF P
<1>3. n \in P
  BY <1>1, <1>2, UpTo
<1> QED BY <1>3 DEF P

\* A walk goes from a factory to its base, level by level.
LEMMA WalkIs ==
  ASSUME NEW b, NEW L, NEW f
  PROVE  /\ Walk(b, L, f)[0] = f
         /\ \A k \in 1..MaxFactories :
              Walk(b, L, f)[k] = IF Walk(b, L, f)[k-1] = None THEN None
                                 ELSE BaseOf(b, L, Walk(b, L, f)[k-1])
<1> DEFINE g == Walk(b, L, f)
<1>1. MaxFactories \in Nat
  BY ConstantsOK
<1>2. \E h : Steps(b, L, f, MaxFactories, h)
  BY <1>1, StepsExist
<1>3. Steps(b, L, f, MaxFactories, g)
  BY <1>2 DEF Walk
<1> HIDE DEF g
<1>4. 0 \in 0..MaxFactories /\ \A k \in 1..MaxFactories : k \in 0..MaxFactories /\ k # 0
  BY <1>1
<1>5. g[0] = f
  BY <1>3, <1>4 DEF Steps
<1>6. ASSUME NEW k \in 1..MaxFactories
      PROVE  g[k] = IF g[k-1] = None THEN None ELSE BaseOf(b, L, g[k-1])
  <2>1. k \in 0..MaxFactories /\ k # 0
    BY <1>4
  <2> QED BY <1>3, <2>1 DEF Steps, BaseOf
<1> QED BY <1>5, <1>6 DEF g

\* A walk stays within a set of factories that has their bases.
LEMMA WalkStays ==
  ASSUME NEW b, NEW L, NEW S, NEW f \in S, None \notin S,
         \A x \in S : BaseOf(b, L, x) \in S \cup {None}
  PROVE  /\ \A k \in 0..MaxFactories : Walk(b, L, f)[k] \in S \cup {None}
         /\ Line(b, L, f) \subseteq S
<1> DEFINE g == Walk(b, L, f)  P == {k \in 0..MaxFactories : g[k] \in S \cup {None}}
<1>1. MaxFactories \in Nat
  BY ConstantsOK
<1>2. g[0] = f /\ \A k \in 1..MaxFactories : g[k] = IF g[k-1] = None THEN None ELSE BaseOf(b, L, g[k-1])
  BY WalkIs
<1> HIDE DEF g
<1>3. 0 \in P
  BY <1>1, <1>2
<1>4. ASSUME NEW k \in 1..MaxFactories, k - 1 \in P PROVE k \in P
  <2>1. k \in 0..MaxFactories /\ g[k-1] \in S \cup {None}
    BY <1>1, <1>4
  <2>2. g[k] \in S \cup {None}
    BY <1>2, <2>1
  <2> QED BY <2>1, <2>2
<1>5. \A k \in 0..MaxFactories : k \in P
  <2> HIDE DEF P
  <2> QED BY <1>1, <1>3, <1>4, UpTo
<1> QED BY <1>5 DEF g, Line

\* ... and is the same when they keep their bases.
LEMMA WalkSame ==
  ASSUME NEW b, NEW L, NEW c, NEW M, NEW S, NEW f \in S, None \notin S,
         \A x \in S : BaseOf(b, L, x) \in S \cup {None} /\ BaseOf(c, M, x) = BaseOf(b, L, x)
  PROVE  Line(c, M, f) = Line(b, L, f)
<1> DEFINE g == Walk(b, L, f)  h == Walk(c, M, f)
           P == {k \in 0..MaxFactories : h[k] = g[k]}
<1>1. MaxFactories \in Nat
  BY ConstantsOK
<1>2. g[0] = f /\ \A k \in 1..MaxFactories : g[k] = IF g[k-1] = None THEN None ELSE BaseOf(b, L, g[k-1])
  BY WalkIs
<1>3. h[0] = f /\ \A k \in 1..MaxFactories : h[k] = IF h[k-1] = None THEN None ELSE BaseOf(c, M, h[k-1])
  BY WalkIs
<1>4. \A k \in 0..MaxFactories : g[k] \in S \cup {None}
  BY WalkStays
<1>5. Line(b, L, f) = {g[k] : k \in 0..MaxFactories} \ {None}
      /\ Line(c, M, f) = {h[k] : k \in 0..MaxFactories} \ {None}
  BY DEF Line
<1> HIDE DEF g, h
<1>6. 0 \in P
  BY <1>1, <1>2, <1>3
<1>7. ASSUME NEW k \in 1..MaxFactories, k - 1 \in P PROVE k \in P
  <2>1. k \in 0..MaxFactories /\ k - 1 \in 0..MaxFactories /\ h[k-1] = g[k-1]
    BY <1>1, <1>7
  <2>2. g[k-1] # None => BaseOf(c, M, g[k-1]) = BaseOf(b, L, g[k-1])
    BY <1>4, <2>1
  <2>3. h[k] = g[k]
    BY <1>2, <1>3, <2>1, <2>2
  <2> QED BY <2>1, <2>3
<1>8. \A k \in 0..MaxFactories : k \in P
  <2> HIDE DEF P
  <2> QED BY <1>1, <1>6, <1>7, UpTo
<1>9. \A k \in 0..MaxFactories : h[k] = g[k]
  BY <1>8
<1> QED BY <1>5, <1>9

\* A walk does not come back once it is past the root, so that its levels are the
\* first steps of it: as many as there are different ones, or more.
LEMMA WalkLevels ==
  ASSUME NEW b, NEW L, NEW f, f # None
  PROVE  /\ Cardinality(Line(b, L, f)) \in Nat \ {0}
         /\ \A k \in 1..Cardinality(Line(b, L, f)) :
              Walk(b, L, f)[Cardinality(Line(b, L, f)) - k] \in Line(b, L, f)
<1> DEFINE g == Walk(b, L, f)  T == Line(b, L, f)  N == MaxFactories
           Z == {k \in 0..N : g[k] = None}
<1>1. N \in Nat
  BY ConstantsOK
<1>2. g[0] = f /\ \A k \in 1..N : g[k] = IF g[k-1] = None THEN None ELSE BaseOf(b, L, g[k-1])
  BY WalkIs
<1>3. T = {g[k] : k \in 0..N} \ {None}
  BY DEF Line
<1> HIDE DEF g, T, N
<1>4. \E m \in 1..(N + 1) : /\ \A k \in 0..N : k < m => g[k] # None
                            /\ \A k \in 0..N : k >= m => g[k] = None
  <2>1. CASE Z = {}
    <3>1. N + 1 \in 1..(N + 1) /\ \A k \in 0..N : k < N + 1 /\ ~(k >= N + 1)
      BY <1>1
    <3> QED BY <2>1, <3>1
  <2>2. CASE Z # {}
    <3>1. Z \in SUBSET Nat
      BY <1>1
    <3>2. PICK m \in Z : \A k \in Z : m <= k
      <4> HIDE DEF Z
      <4> QED BY <2>2, <3>1, LeastNumber
    <3>3. m \in 0..N /\ g[m] = None /\ m # 0 /\ m \in 1..(N + 1)
      BY <1>1, <1>2
    <3>4. \A k \in 0..N : k < m => g[k] # None
      BY <1>1, <3>2, <3>3
    <3> DEFINE P == {k \in 0..N : k >= m => g[k] = None}
    <3>5. 0 \in P
      BY <1>1, <3>3
    <3>6. ASSUME NEW k \in 1..N, k - 1 \in P PROVE k \in P
      <4>1. k \in 0..N /\ (k >= m => k = m \/ k - 1 >= m)
        BY <1>1, <3>3
      <4> QED BY <1>2, <3>3, <3>6, <4>1
    <3>7. \A k \in 0..N : k \in P
      <4> HIDE DEF P
      <4> QED BY <1>1, <3>5, <3>6, UpTo
    <3> QED BY <3>3, <3>4, <3>7
  <2> QED BY <2>1, <2>2
<1>5. PICK m \in 1..(N + 1) : /\ \A k \in 0..N : k < m => g[k] # None
                              /\ \A k \in 0..N : k >= m => g[k] = None
  BY <1>4
<1>6. m \in Nat /\ \A k \in 0..(m-1) : k \in 0..N /\ k < m
  BY <1>1
<1> DEFINE w == [k \in 0..(m-1) |-> g[k]]
<1>7. w \in Surjection(0..(m-1), T)
  <2>1. \A k \in 0..(m-1) : g[k] \in T
    BY <1>3, <1>5, <1>6
  <2>2. \A t \in T : \E k \in 0..(m-1) : w[k] = t
    <3> TAKE t \in T
    <3>1. PICK k \in 0..N : t = g[k] /\ g[k] # None
      BY <1>3
    <3>2. k < m
      BY <1>1, <1>5, <1>6, <3>1
    <3>3. k \in 0..(m-1)
      BY <1>1, <1>6, <3>2
    <3> QED BY <3>1, <3>3
  <2> QED BY <2>1, <2>2 DEF Surjection
<1>8. IsFiniteSet(0..(m-1)) /\ Cardinality(0..(m-1)) = m
  <2>1. 0 \in Int /\ m - 1 \in Int /\ ~(0 > m - 1) /\ (m - 1) - 0 + 1 = m
    BY <1>6
  <2> QED BY <2>1, FS_Interval
<1>9. IsFiniteSet(T) /\ Cardinality(T) <= m
  <2> HIDE DEF w
  <2> QED BY <1>7, <1>8, FS_Surjection
<1>10. f \in T
  BY <1>1, <1>2, <1>3
<1>11. Cardinality(T) \in Nat \ {0}
  BY <1>9, <1>10, FS_EmptySet, FS_CardinalityType
<1>12. ASSUME NEW k \in 1..Cardinality(T) PROVE g[Cardinality(T) - k] \in T
  <2>1. Cardinality(T) - k \in 0..(m-1)
    BY <1>6, <1>9, <1>11
  <2> QED BY <1>3, <1>5, <1>6, <2>1
<1> QED BY <1>11, <1>12 DEF g, T

\* Levels are lines over the bases of the moment, and of the next.
LEMMA LevelsAre ==
  /\ \A f : Up(f) = Walk(base, Live, f) /\ Levels(f) = Line(base, Live, f)
  /\ \A f : Levels(f)' = Line(base', Live', f)
<1>1. \A f : Up(f) = Walk(base, Live, f)
  BY DEF Up, Walk, Steps, ToPlugin
<1>2. \A f : Levels(f) = Line(base, Live, f)
  BY <1>1 DEF Levels, Line
<1>3. \A f : Up(f)' = Walk(base', Live', f)
  BY DEF Up, Walk, Steps, ToPlugin
<1>4. \A f : Levels(f)' = Line(base', Live', f)
  BY <1>3 DEF Levels, Line
<1> QED BY <1>1, <1>2, <1>4

\* The factories that are installed.
Upright == {f \in Factories : installed[f]}

\* The base of an installed factory is installed or no plugin factory.
LEMMA BasesInstalled ==
  ASSUME TypeOK, Registered, Hierarchy
  PROVE  /\ None \notin Upright /\ Live \subseteq Factories
         /\ \A x \in Upright : BaseOf(base, Live, x) \in Upright \cup {None}
<1>0. factories \in Seq(Factories)
  BY DEF TypeOK
<1>0a. \A i \in DOMAIN factories : factories[i] \in Factories
  BY <1>0
<1>0b. None \notin Factories
  BY DEF None, Factories
<1>1. Live \subseteq Factories /\ None \notin Factories
  BY <1>0a, <1>0b DEF Live
<1>2. ASSUME NEW x \in Upright PROVE BaseOf(base, Live, x) \in Upright \cup {None}
  <2>1. x \in Factories /\ HierarchyAt(x)
    BY DEF Upright, Hierarchy
  <2>2. base[x] \in Live => base[x] \in Factories /\ installed[base[x]]
    BY <1>1, <2>1 DEF HierarchyAt
  <2> QED BY <2>2 DEF BaseOf, Upright
<1> QED BY <1>1, <1>2 DEF Upright

\* All levels of an installed factory are installed.
LEMMA LineInstalled ==
  ASSUME TypeOK, Registered, Hierarchy, NEW f \in Upright
  PROVE  /\ Line(base, Live, f) \subseteq Upright
         /\ \A k \in 0..MaxFactories : Walk(base, Live, f)[k] \in Upright \cup {None}
BY BasesInstalled, WalkStays

\* They are a sequence of factories from the root down.
LEMMA FromRootIs ==
  ASSUME TypeOK, Registered, Hierarchy, NEW f \in Upright
  PROVE  /\ FromRoot(f) \in Seq(Factories) /\ FromRoot(f) # <<>>
         /\ \A i \in DOMAIN FromRoot(f) : FromRoot(f)[i] \in Line(base, Live, f)
<1> DEFINE T == Line(base, Live, f)  g == Walk(base, Live, f)  d == Cardinality(T)
<1>1. f # None /\ T \subseteq Factories
  BY LineInstalled, BasesInstalled DEF Upright
<1>2. d \in Nat \ {0} /\ \A k \in 1..d : g[d - k] \in T
  BY <1>1, WalkLevels
<1>3. FromRoot(f) = [k \in 1..d |-> g[d - k]]
  BY LevelsAre DEF FromRoot
<1> HIDE DEF T, g, d
<1>4. FromRoot(f) \in [1..d -> Factories] /\ \A i \in 1..d : FromRoot(f)[i] \in T
  BY <1>1, <1>2, <1>3
<1>5. FromRoot(f) \in Seq(Factories) /\ DOMAIN FromRoot(f) = 1..d /\ Len(FromRoot(f)) = d
  BY <1>2, <1>4
<1>6. FromRoot(f) # <<>>
  BY <1>2, <1>5
<1> QED BY <1>4, <1>5, <1>6 DEF T

\* The topmost factory of the same plugin is installed too.
LEMMA TopmostIs ==
  ASSUME TypeOK, Registered, Hierarchy, NEW p, NEW f \in Upright, Owner[f] = p
  PROVE  TopmostOf(p, f) \in Upright
<1> DEFINE g == Walk(base, Live, f)
           owned == {k \in 0..MaxFactories : \A j \in 0..k : g[j] # None /\ Owner[g[j]] = p}
<1>1. MaxFactories \in Nat
  BY ConstantsOK
<1>2. g[0] = f /\ f # None
  BY WalkIs, BasesInstalled
<1>3. \A k \in 0..MaxFactories : g[k] \in Upright \cup {None}
  BY LineInstalled
<1>4. Up(f) = g
  BY LevelsAre
<1> HIDE DEF g
<1>5. 0 \in owned
  <2>1. \A j \in 0..0 : j = 0
    OBVIOUS
  <2>2. 0 \in 0..MaxFactories
    BY <1>1
  <2> QED BY <1>2, <2>1, <2>2
<1>6. \E k \in owned : \A j \in owned : j <= k
  <2>1. owned \in SUBSET (0..MaxFactories) /\ owned # {}
    BY <1>5
  <2> HIDE DEF owned
  <2> QED BY <1>1, <2>1, GreatestNumber
<1>7. TopmostOf(p, f) = g[CHOOSE k \in owned : \A j \in owned : j <= k]
  BY <1>4 DEF TopmostOf
<1>8. ASSUME NEW k \in owned PROVE g[k] \in Upright
  <2>1. k \in 0..MaxFactories /\ k \in 0..k
    BY <1>1
  <2> QED BY <1>3, <2>1
<1> HIDE DEF owned
<1> QED BY <1>6, <1>7, <1>8
-----------------------------------------------------------------------------
(***************************************************************************)
(* Frames and stacks.                                                      *)
(***************************************************************************)

\* The ranks of the calls.
LEMMA Ranks ==
  /\ \A a \in Building : Rank(a) = 0
  /\ \A a \in Destroying : Rank(a) = 2
  /\ \A a \in Emptying : Rank(a) = 3
  /\ \A a \in Leaving : Rank(a) = 4
  /\ \A a \in Closers : Rank(a) = 6
  /\ Rank("onRemove") = 1 /\ Rank("delete") = 5
BY DEF Rank, Building, Destroying, Emptying, Leaving, Closers

\* Do makes a frame.
LEMMA DoFrame ==
  ASSUME NEW op \in Ops, NEW f \in 0..MaxFactories, NEW e \in 0..MaxEntities
  PROVE  /\ Do(op, f, e) \in Frame
         /\ Do(op, f, e).op = op /\ Do(op, f, e).f = f /\ Do(op, f, e).e = e /\ Do(op, f, e).n = 0
         /\ Do(op, f, e).es = {} /\ Do(op, f, e).fs = <<>>
BY DEF Do, Frame

\* The stack t is s with m new frames in the place of the p innermost.
Kept(s, t, m, p) ==
  /\ t \in Seq(Frame) /\ Len(t) = Len(s) + m - p
  /\ \A k \in 1..Len(t) : k > m =>
       k - m + p \in 1..Len(s) /\ k - m + p > p /\ t[k] = s[k - m + p]
  /\ \A i \in 1..Len(s) : i > p =>
       i - p + m \in 1..Len(t) /\ i - p + m > m /\ t[i - p + m] = s[i]

\* The step puts the frames fs in the place of the p innermost.
Puts(t, fs, p) ==
  /\ t = ctl' /\ fs \in Seq(Frame) /\ p \in {0, 1} /\ (p = 1 => ctl # <<>>)
  /\ Kept(ctl, t, Len(fs), p) /\ \A k \in 1..Len(fs) : k \in 1..Len(t) /\ t[k] = fs[k]

\* Frames put on a stack.
LEMMA Stacked ==
  ASSUME NEW s \in Seq(Frame), NEW fs \in Seq(Frame)
  PROVE  /\ fs \o s \in Seq(Frame)
         /\ Len(fs \o s) = Len(fs) + Len(s)
         /\ \A k \in 1..Len(fs) : (fs \o s)[k] = fs[k]
         /\ \A k \in 1..Len(fs \o s) : k > Len(fs) => (fs \o s)[k] = s[k - Len(fs)]
OBVIOUS

\* A call puts its frames on the stack.
LEMMA CallsPut ==
  ASSUME TypeOK, NEW fs \in Seq(Frame), Calls(fs)
  PROVE  \E t : Puts(t, fs, 0)
<1>1. PICK s \in Seq(Frame) : s = ctl
  BY DEF TypeOK
<1>2. PICK t : t = fs \o s
  OBVIOUS
<1>3. /\ t \in Seq(Frame) /\ Len(t) = Len(fs) + Len(s) /\ \A k \in 1..Len(fs) : t[k] = fs[k]
      /\ \A k \in 1..Len(t) : k > Len(fs) => t[k] = s[k - Len(fs)]
  BY <1>2, Stacked
<1>4. Len(fs) \in Nat /\ Len(s) \in Nat
  OBVIOUS
<1>5. \A k \in 1..Len(t) : k > Len(fs) => k - Len(fs) + 0 \in 1..Len(s) /\ k - Len(fs) + 0 = k - Len(fs)
                                          /\ k - Len(fs) + 0 > 0
  BY <1>3, <1>4
<1>6. \A i \in 1..Len(s) : /\ i - 0 + Len(fs) \in 1..Len(t) /\ i - 0 + Len(fs) > Len(fs)
                           /\ (i - 0 + Len(fs)) - Len(fs) = i
  BY <1>3, <1>4
<1>7. Kept(s, t, Len(fs), 0)
  <2>1. Len(t) = Len(s) + Len(fs) - 0
    BY <1>3, <1>4
  <2> QED BY ONLY <1>3, <1>5, <1>6, <2>1 DEF Kept
<1>8. \A k \in 1..Len(fs) : k \in 1..Len(t)
  BY <1>3, <1>4
<1>9. t = ctl'
  BY <1>1, <1>2 DEF Calls
<1> QED BY <1>1, <1>3, <1>7, <1>8, <1>9 DEF Puts

\* A step of a call puts frames in the place of its own.
LEMMA BecomesPut ==
  ASSUME TypeOK, ctl # <<>>, NEW fs \in Seq(Frame), Becomes(fs)
  PROVE  \E t : Puts(t, fs, 1)
<1>1. PICK s \in Seq(Frame) : s = ctl /\ s # <<>>
  BY DEF TypeOK
<1>1a. Tail(s) \in Seq(Frame)
  BY <1>1
<1>2. PICK r \in Seq(Frame) : r = Tail(s)
  BY <1>1a
<1>3. PICK t : t = fs \o r
  OBVIOUS
<1>4. /\ t \in Seq(Frame) /\ Len(t) = Len(fs) + Len(r) /\ \A k \in 1..Len(fs) : t[k] = fs[k]
      /\ \A k \in 1..Len(t) : k > Len(fs) => t[k] = r[k - Len(fs)]
  BY <1>3, Stacked
<1>5. Len(fs) \in Nat /\ Len(s) \in Nat /\ Len(r) = Len(s) - 1 /\ \A k \in 1..Len(r) : r[k] = s[k + 1]
  BY <1>1, <1>2
<1>6. \A k \in 1..Len(t) : k > Len(fs) =>
         /\ k - Len(fs) \in 1..Len(r) /\ k - Len(fs) + 1 \in 1..Len(s) /\ k - Len(fs) + 1 > 1
  BY <1>4, <1>5
<1>7. \A i \in 1..Len(s) : i > 1 =>
         /\ i - 1 + Len(fs) \in 1..Len(t) /\ i - 1 + Len(fs) > Len(fs)
         /\ (i - 1 + Len(fs)) - Len(fs) = i - 1 /\ i - 1 \in 1..Len(r) /\ (i - 1) + 1 = i
  BY <1>4, <1>5
<1>8. Kept(s, t, Len(fs), 1)
  <2>1. Len(t) = Len(s) + Len(fs) - 1
    BY <1>4, <1>5
  <2>2. \A k \in 1..Len(t) : k > Len(fs) => t[k] = s[k - Len(fs) + 1]
    BY <1>4, <1>5, <1>6
  <2>3. \A i \in 1..Len(s) : i > 1 => t[i - 1 + Len(fs)] = s[i]
    <3> SUFFICES ASSUME NEW i \in 1..Len(s), i > 1 PROVE t[i - 1 + Len(fs)] = s[i]
      OBVIOUS
    <3>1. t[i - 1 + Len(fs)] = r[i - 1]
      BY <1>4, <1>7
    <3>2. r[i - 1] = s[i]
      BY <1>5, <1>7
    <3> QED BY <3>1, <3>2
  <2> QED BY ONLY <1>4, <1>6, <1>7, <2>1, <2>2, <2>3 DEF Kept
<1>9. \A k \in 1..Len(fs) : k \in 1..Len(t)
  BY <1>4, <1>5
<1>10. t = ctl'
  BY <1>1, <1>2, <1>3 DEF Becomes
<1> QED BY <1>1, <1>4, <1>8, <1>9, <1>10 DEF Puts

\* No frame, one, two and three frames.
LEMMA NoFrames == <<>> \in Seq(Frame) /\ Len(<<>>) = 0
OBVIOUS
\* One frame.
LEMMA OneFrame ==
  ASSUME NEW x \in Frame
  PROVE  <<x>> \in Seq(Frame) /\ Len(<<x>>) = 1 /\ <<x>>[1] = x
OBVIOUS
\* Two frames.
LEMMA TwoFrames ==
  ASSUME NEW x \in Frame, NEW y \in Frame
  PROVE  <<x, y>> \in Seq(Frame) /\ Len(<<x, y>>) = 2 /\ <<x, y>>[1] = x /\ <<x, y>>[2] = y
OBVIOUS
\* Three frames.
LEMMA ThreeFrames ==
  ASSUME NEW x \in Frame, NEW y \in Frame, NEW z \in Frame
  PROVE  /\ <<x, y>> \o <<z>> \in Seq(Frame) /\ Len(<<x, y>> \o <<z>>) = 3
         /\ (<<x, y>> \o <<z>>)[1] = x /\ (<<x, y>> \o <<z>>)[2] = y
         /\ (<<x, y>> \o <<z>>)[3] = z
<1>1. <<x, y>> \in Seq(Frame) /\ Len(<<x, y>>) = 2 /\ <<x, y>>[1] = x /\ <<x, y>>[2] = y
  BY TwoFrames
<1>2. <<z>> \in Seq(Frame) /\ Len(<<z>>) = 1 /\ <<z>>[1] = z
  BY OneFrame
<1>3. PICK a \in Seq(Frame) : a = <<x, y>>
  BY <1>1
<1>4. PICK b \in Seq(Frame) : b = <<z>>
  BY <1>2
<1>5. /\ a \o b \in Seq(Frame) /\ Len(a \o b) = 3 /\ (a \o b)[1] = a[1] /\ (a \o b)[2] = a[2]
      /\ (a \o b)[3] = b[1]
  <2>1. Len(a) = 2 /\ Len(b) = 1
    BY <1>1, <1>2, <1>3, <1>4
  <2>2. /\ a \o b \in Seq(Frame) /\ Len(a \o b) = Len(a) + Len(b)
        /\ \A k \in 1..Len(a) : (a \o b)[k] = a[k]
        /\ \A k \in 1..Len(a \o b) : k > Len(a) => (a \o b)[k] = b[k - Len(a)]
    BY Stacked
  <2> HIDE <1>3, <1>4
  <2>3. 1 \in 1..Len(a) /\ 2 \in 1..Len(a) /\ Len(a \o b) = 3 /\ 3 \in 1..Len(a \o b)
        /\ 3 > Len(a) /\ 3 - Len(a) = 1
    BY ONLY <2>1, <2>2
  <2> QED BY <2>2, <2>3
<1> QED BY <1>1, <1>2, <1>3, <1>4, <1>5

\* The innermost frame.
LEMMA TopIs ==
  ASSUME TypeOK, ctl # <<>>
  PROVE  /\ Len(ctl) \in Nat /\ Len(ctl) > 0 /\ 1 \in Place /\ Top = ctl[1] /\ Top \in Frame
         /\ Top.op \in Ops /\ Top.f \in 0..MaxFactories /\ Top.e \in 0..MaxEntities /\ Top.n \in Nat
         /\ Top.es \in SUBSET Entities /\ Top.fs \in Seq(Factories) /\ Top.p \in Plugins \cup {"none"}
<1>1. ctl \in Seq(Frame)
  BY DEF TypeOK
<1>2. Len(ctl) \in Nat /\ Len(ctl) > 0 /\ 1 \in Place /\ Top = ctl[1] /\ Top \in Frame
  BY <1>1 DEF Top, Place
<1> QED BY <1>2 DEF Frame

\* Frames are frames.
LEMMA FramesTyped ==
  ASSUME NEW s \in Seq(Frame), NEW k \in 1..Len(s)
  PROVE  /\ s[k] \in Frame /\ s[k].op \in Ops /\ s[k].f \in 0..MaxFactories
         /\ s[k].e \in 0..MaxEntities /\ s[k].n \in Nat /\ s[k].es \subseteq Entities
         /\ s[k].fs \in Seq(Factories)
<1>1. s[k] \in Frame
  OBVIOUS
<1> QED BY <1>1 DEF Frame
-----------------------------------------------------------------------------
(***************************************************************************)
(* What a step keeps of each part of the invariant when it changes no more *)
(* than the stack: the frames below stay, a call that goes leaves to those *)
(* that replace it what others expect of it, and the new frames fit.       *)
(***************************************************************************)

\* A call that uninstalls a factory goes when its next stage comes.
Passed(t, m, p) ==
  p = 1 =>
    /\ ctl[1].op \in Uninstalling => \E k \in 1..m : t[k].op \in Uninstalling /\ t[k].f = ctl[1].f
    /\ ctl[1].op = "uninstall" /\ installed[ctl[1].f] =>
         \E k \in 1..m : t[k].op \in Uninstalling /\ t[k].f = ctl[1].f

\* An old frame is where it was, or one of the innermost ones that go.
LEMMA OldPlaces ==
  ASSUME NEW t, NEW fs, NEW p, Puts(t, fs, p), TypeOK
  PROVE  /\ \A k \in 1..Len(t) : k \in 1..Len(fs) \/
              (/\ k - Len(fs) + p \in Place /\ k - Len(fs) + p > p /\ t[k] = ctl[k - Len(fs) + p]
               /\ (k - Len(fs) + p) - p + Len(fs) = k)
         /\ \A i \in Place : i > p =>
              i - p + Len(fs) \in 1..Len(t) /\ i - p + Len(fs) > Len(fs) /\ t[i - p + Len(fs)] = ctl[i]
         /\ \A i \in Place : ~(i > p) => p = 1 /\ i = 1
         /\ Len(fs) \in Nat /\ \A k \in 1..Len(fs) : k \in 1..Len(t) /\ t[k] = fs[k]
         /\ t = ctl' /\ t \in Seq(Frame) /\ Place' = 1..Len(t) /\ p \in {0, 1}
<1>1. /\ t = ctl' /\ fs \in Seq(Frame) /\ p \in {0, 1} /\ Kept(ctl, t, Len(fs), p)
      /\ \A k \in 1..Len(fs) : k \in 1..Len(t) /\ t[k] = fs[k]
  BY DEF Puts
<1>2. ctl \in Seq(Frame) /\ t \in Seq(Frame)
  BY <1>1 DEF TypeOK, Kept
<1>3. Len(fs) \in Nat /\ Len(ctl) \in Nat /\ Len(t) \in Nat
  BY <1>1, <1>2
<1>4. \A k \in 1..Len(t) : k \in 1..Len(fs) \/ k > Len(fs)
  BY <1>3
<1>5. \A k \in 1..Len(t) : (k - Len(fs) + p) - p + Len(fs) = k
  BY <1>1, <1>3
<1>6. \A k \in 1..Len(t) : k > Len(fs) =>
        k - Len(fs) + p \in Place /\ k - Len(fs) + p > p /\ t[k] = ctl[k - Len(fs) + p]
  BY <1>1 DEF Kept, Place
<1>7. \A i \in Place : i > p =>
        i - p + Len(fs) \in 1..Len(t) /\ i - p + Len(fs) > Len(fs) /\ t[i - p + Len(fs)] = ctl[i]
  BY <1>1 DEF Kept, Place
<1>8. \A i \in Place : ~(i > p) => p = 1 /\ i = 1
  BY <1>1, <1>3 DEF Place
<1>9. Place' = 1..Len(t)
  BY <1>1 DEF Place
<1> QED BY <1>1, <1>2, <1>3, <1>4, <1>5, <1>6, <1>7, <1>8, <1>9

\* Frames that do not go are found again.
LEMMA Found ==
  ASSUME NEW t, NEW fs, NEW p, Puts(t, fs, p), TypeOK, NEW i \in Place, i > p
  PROVE  \E k \in 1..Len(t) : k = i - p + Len(fs) /\ t[k] = ctl[i]
BY OldPlaces

\* Uninstalls in progress stay in progress.
LEMMA StagesPass ==
  ASSUME NEW t, NEW fs, NEW p, Puts(t, fs, p), TypeOK, Passed(t, Len(fs), p), NEW f
  PROVE  /\ (\E k \in Place : ctl[k].op \in Uninstalling /\ ctl[k].f = f)
              => \E k \in 1..Len(t) : t[k].op \in Uninstalling /\ t[k].f = f
         /\ f \in Upright /\ (\E j \in Place : ctl[j].op \in Stages /\ ctl[j].f = f)
              => \E j \in 1..Len(t) : t[j].op \in Stages /\ t[j].f = f
         /\ f \in Upright => \A i \in Place :
              i > p /\ (\E j \in Place : j < i /\ ctl[j].op \in Stages /\ ctl[j].f = f)
              => \E j \in 1..Len(t) : j < i - p + Len(fs) /\ t[j].op \in Stages /\ t[j].f = f
<1>1. /\ \A i \in Place : i > p =>
              i - p + Len(fs) \in 1..Len(t) /\ i - p + Len(fs) > Len(fs) /\ t[i - p + Len(fs)] = ctl[i]
      /\ \A i \in Place : ~(i > p) => p = 1 /\ i = 1
      /\ Len(fs) \in Nat /\ p \in {0, 1} /\ \A k \in 1..Len(fs) : k \in 1..Len(t)
  BY OldPlaces
<1>2. p = 1 /\ ctl[1].op \in Uninstalling =>
        \E k \in 1..Len(fs) : t[k].op \in Uninstalling /\ t[k].f = ctl[1].f
  BY DEF Passed
<1>3. p = 1 /\ ctl[1].op \in Stages /\ ctl[1].f \in Upright =>
        \E k \in 1..Len(fs) : t[k].op \in Stages /\ t[k].f = ctl[1].f
  BY DEF Passed, Stages, Upright
<1>4. ASSUME NEW j \in Place, ctl[j].op \in Uninstalling, ctl[j].f = f
      PROVE  \E k \in 1..Len(t) : t[k].op \in Uninstalling /\ t[k].f = f
  <2>1. CASE j > p
    BY <1>1, <1>4, <2>1
  <2>2. CASE ~(j > p)
    BY <1>1, <1>2, <1>4, <2>2
  <2> QED BY <2>1, <2>2
<1>5. ASSUME f \in Upright, NEW j \in Place, ctl[j].op \in Stages, ctl[j].f = f
      PROVE  /\ \E k \in 1..Len(t) : t[k].op \in Stages /\ t[k].f = f
             /\ \A i \in Place : i > p /\ j < i =>
                  \E k \in 1..Len(t) : k < i - p + Len(fs) /\ t[k].op \in Stages /\ t[k].f = f
  <2>1. CASE j > p
    <3>1. j - p + Len(fs) \in 1..Len(t) /\ t[j - p + Len(fs)] = ctl[j]
      BY <1>1, <2>1
    <3>2. \A i \in Place : j < i => j - p + Len(fs) < i - p + Len(fs)
      BY <1>1 DEF Place
    <3> QED BY <1>5, <3>1, <3>2
  <2>2. CASE ~(j > p)
    <3>1. PICK k \in 1..Len(fs) : t[k].op \in Stages /\ t[k].f = f
      BY <1>1, <1>3, <1>5, <2>2
    <3>2. k \in 1..Len(t) /\ \A i \in Place : i > p => k < i - p + Len(fs)
      BY <1>1 DEF Place
    <3> QED BY <3>1, <3>2
  <2> QED BY <2>1, <2>2
<1> QED BY <1>4, <1>5

\* Frames refer to what is there.
LEMMA FramesFitRest ==
  ASSUME TypeOK, FramesFit, NEW t, NEW fs, NEW p, Puts(t, fs, p), UNCHANGED <<closed, created, gone>>,
         \A k \in 1..Len(fs) : FrameFit(t[k])
  PROVE  FramesFit'
<1>1. PICK u \in Seq(Frame) : u = ctl
  BY DEF TypeOK
<1>2. \A k \in 1..Len(t) : FrameFit(t[k])
  <2> TAKE k \in 1..Len(t)
  <2>1. CASE k \in 1..Len(fs)
    BY <2>1
  <2>2. CASE k \notin 1..Len(fs)
    <3>1. PICK i \in Place : t[k] = ctl[i]
      BY <2>2, OldPlaces
    <3> QED BY <3>1 DEF FramesFit
  <2> QED BY <2>1, <2>2
<1>3. Place' = 1..Len(t) /\ t = ctl'
  BY OldPlaces
<1>4. \A k \in 1..Len(t) : FrameFit(ctl[k])'
  BY <1>2, <1>3 DEF FrameFit
<1> QED BY <1>3, <1>4 DEF FramesFit

\* Calls stay in order.
LEMMA OrderRests ==
  ASSUME TypeOK, Ordered, NEW t, NEW fs, NEW p, Puts(t, fs, p),
         \A j, k \in 1..Len(fs) : j < k => Over(t[j].op, t[k].op),
         \A j \in 1..Len(fs), i \in Place : i > p => Over(t[j].op, ctl[i].op)
  PROVE  Ordered'
<1>0. /\ \A k \in 1..Len(t) : k \in 1..Len(fs) \/
            (/\ k - Len(fs) + p \in Place /\ k - Len(fs) + p > p /\ t[k] = ctl[k - Len(fs) + p])
      /\ Len(fs) \in Nat /\ p \in {0, 1}
  BY OldPlaces
<1>1. ASSUME NEW j \in 1..Len(t), NEW k \in 1..Len(t), j < k PROVE Over(t[j].op, t[k].op)
  <2>1. CASE k \in 1..Len(fs)
    <3>1. j \in 1..Len(fs)
      BY <1>0, <1>1, <2>1
    <3> QED BY <1>1, <2>1, <3>1
  <2>2. CASE k \notin 1..Len(fs)
    <3>1. /\ k - Len(fs) + p \in Place /\ k - Len(fs) + p > p /\ t[k] = ctl[k - Len(fs) + p]
      BY <1>0, <2>2
    <3>2. CASE j \in 1..Len(fs)
      BY <3>1, <3>2
    <3>3. CASE j \notin 1..Len(fs)
      <4>1. j - Len(fs) + p \in Place /\ t[j] = ctl[j - Len(fs) + p]
        BY <1>0, <3>3
      <4>3. j - Len(fs) + p < k - Len(fs) + p
        BY <1>0, <1>1
      <4> QED BY <3>1, <4>1, <4>3 DEF Ordered, OrderedIn, Place
    <3> QED BY <3>2, <3>3
  <2> QED BY <2>1, <2>2
<1>2. t = ctl'
  BY DEF Puts
<1> QED BY <1>1, <1>2 DEF Ordered, OrderedIn

\* No install is in progress when an uninstall starts or goes on, and no uninstall is
\* when an entity is built.
LEMMA InstallingRests ==
  ASSUME TypeOK, Installing, NEW t, NEW fs, NEW p, Puts(t, fs, p),
         \/ \A k \in 1..Len(fs) : t[k].op \in Building
         \/ /\ \A k \in 1..Len(fs) : t[k].op # "onInstalled"
            /\ \A i \in Place : ctl[i].op # "onInstalled"
         \/ /\ \A i \in Place : ctl[i].op \in {"onInstalled"} \cup Building
            /\ \A k \in 1..Len(fs) : t[k].op \in {"onInstalled"} \cup Building
  PROVE  Installing'
<1>1. t = ctl' /\ Place' = 1..Len(t)
  BY OldPlaces
<1>2. (\E i \in Place : ctl[i].op = "onInstalled") =>
        \A i \in Place : ctl[i].op \in {"onInstalled"} \cup Building
  BY DEF Installing, InstallingIn, Place
<1>3. \A k \in 1..Len(t) : k \in 1..Len(fs) \/ \E i \in Place : t[k] = ctl[i]
  BY OldPlaces
<1>4. "onInstalled" \notin Building
  BY DEF Building
<1>5. ASSUME NEW k \in 1..Len(t), NEW j \in 1..Len(t), t[j].op = "onInstalled"
      PROVE  t[k].op \in {"onInstalled"} \cup Building
  <2>1. CASE \A l \in 1..Len(fs) : t[l].op \in Building
    <3>1. \E i \in Place : ctl[i].op = "onInstalled"
      BY <1>3, <1>4, <1>5, <2>1
    <3> QED BY <1>2, <1>3, <2>1, <3>1
  <2>2. CASE /\ \A l \in 1..Len(fs) : t[l].op # "onInstalled"
             /\ \A i \in Place : ctl[i].op # "onInstalled"
    BY <1>3, <1>5, <2>2
  <2>3. CASE /\ \A i \in Place : ctl[i].op \in {"onInstalled"} \cup Building
             /\ \A l \in 1..Len(fs) : t[l].op \in {"onInstalled"} \cup Building
    BY <1>3, <2>3
  <2> QED BY <2>1, <2>2, <2>3
<1> QED BY <1>1, <1>5 DEF Installing, InstallingIn

\* Uninstalls have gone through the derived factories.
LEMMA WithdrawnRests ==
  ASSUME TypeOK, Hierarchy, Withdrawn, NEW t, NEW fs, NEW p, Puts(t, fs, p), Passed(t, Len(fs), p),
         FramesFit, UNCHANGED <<closed, slots, count>>,
         \A k \in 1..Len(fs) : WithdrawnAt(t, k)
  PROVE  Withdrawn'
<1>1. ASSUME NEW k \in 1..Len(t) PROVE WithdrawnAt(t, k)
  <2>1. CASE k \in 1..Len(fs)
    BY <2>1
  <2>2. CASE k \notin 1..Len(fs)
    <3>1. PICK i \in Place : i > p /\ t[k] = ctl[i] /\ i - p + Len(fs) = k
      BY <2>2, OldPlaces
    <3>2. WithdrawnAt(ctl, i) /\ FrameFit(ctl[i])
      BY DEF Withdrawn, FramesFit
    <3>3. CASE ctl[i].op = "children" /\ count[ctl[i].f] > ctl[i].n
      <4> DEFINE f == ctl[i].f  n == ctl[i].n  d == slots[f][n + 1]
      <4>1. /\ count[f] = n + 1 /\ n <= Len(slots[f]) /\ \A l \in 1..n : slots[f][l] \notin closed
            /\ \E j \in 1..Len(ctl) : j < i /\ ctl[j].op \in Stages /\ ctl[j].f = d
        BY <3>2, <3>3 DEF WithdrawnAt
      <4>2. f \in Factories /\ n \in Nat
        <5>1. ctl \in Seq(Frame)
          BY DEF TypeOK
        <5>2. n \in Nat
          BY <5>1, FramesTyped DEF Place
        <5> QED BY <3>2, <3>3, <5>2 DEF FrameFit, Leaving
      <4>3. d \in Upright
        <5>0. HierarchyAt(f) /\ count[f] \in Nat
          BY <4>2 DEF Hierarchy, TypeOK
        <5>1. n + 1 \in 1..count[f] /\ count[f] <= Len(slots[f])
          BY <4>1, <4>2, <5>0 DEF HierarchyAt
        <5>2. slots[f] \in Seq(Factories)
          BY <4>2 DEF TypeOK
        <5>3. n + 1 \in 1..Len(slots[f])
          BY <4>1, <4>2, <5>1, <5>2
        <5>4. d \in Factories
          BY <5>2, <5>3
        <5>5. installed[d]
          BY <5>0, <5>1 DEF HierarchyAt
        <5> QED BY <5>4, <5>5 DEF Upright
      <4> HIDE DEF d
      <4>4. \E j \in 1..Len(t) : j < k /\ t[j].op \in Stages /\ t[j].f = d
        BY <3>1, <4>1, <4>3, StagesPass DEF Place
      <4>5. ctl[i].op \notin Emptying
        BY <3>3 DEF Emptying
      <4> QED BY <3>1, <3>3, <4>1, <4>4, <4>5 DEF WithdrawnAt, d
    <3>4. CASE ~(ctl[i].op = "children" /\ count[ctl[i].f] > ctl[i].n)
      BY <3>1, <3>2, <3>4 DEF WithdrawnAt
    <3> QED BY <3>3, <3>4
  <2> QED BY <2>1, <2>2
<1>2. Place' = 1..Len(t) /\ t = ctl'
  BY OldPlaces
<1>3. \A k \in 1..Len(t) : WithdrawnAt(ctl, k)'
  BY <1>1, <1>2 DEF WithdrawnAt
<1> QED BY <1>2, <1>3 DEF Withdrawn

\* Classnames lead to factories.
LEMMA NamedRests ==
  ASSUME TypeOK, Named, NEW t, NEW fs, NEW p, Puts(t, fs, p), Passed(t, Len(fs), p),
         UNCHANGED <<dict, installed>>, \A k \in 1..Len(fs) : NameGone(t, k)
  PROVE  Named'
<1>1. \A f \in Factories : NameKnown(t, f)
  <2> TAKE f \in Factories
  <2>1. NameKnown(ctl, f)
    BY DEF Named
  <2> QED BY <2>1, StagesPass DEF NameKnown, Place
<1>2. \A k \in 1..Len(t) : NameGone(t, k)
  <2> TAKE k \in 1..Len(t)
  <2>1. CASE k \in 1..Len(fs)
    BY <2>1
  <2>2. CASE k \notin 1..Len(fs)
    <3>1. PICK i \in Place : t[k] = ctl[i]
      BY <2>2, OldPlaces
    <3>2. NameGone(ctl, i)
      BY DEF Named
    <3> QED BY <3>1, <3>2 DEF NameGone
  <2> QED BY <2>1, <2>2
<1>3. Place' = 1..Len(t) /\ t = ctl'
  BY OldPlaces
<1>4. NameFits'
  BY DEF Named, NameFits
<1>5. \A f \in Factories : NameKnown(ctl, f)'
  BY <1>1, <1>3 DEF NameKnown
<1>6. \A k \in 1..Len(t) : NameGone(ctl, k)'
  BY <1>2, <1>3 DEF NameGone
<1> QED BY <1>3, <1>4, <1>5, <1>6 DEF Named

\* A factory is deleted once it is uninstalled.
LEMMA DeletingRests ==
  ASSUME TypeOK, FramesFit, Deleting, NEW t, NEW fs, NEW p, Puts(t, fs, p), Passed(t, Len(fs), p),
         UNCHANGED installed, \A k \in 1..Len(fs) : DeletingAt(t, k)
  PROVE  Deleting'
<1>1. \A k \in 1..Len(t) : DeletingAt(t, k)
  <2> TAKE k \in 1..Len(t)
  <2>1. CASE k \in 1..Len(fs)
    BY <2>1
  <2>2. CASE k \notin 1..Len(fs)
    <3>1. PICK i \in Place : t[k] = ctl[i]
      BY <2>2, OldPlaces
    <3>2. DeletingAt(ctl, i) /\ FrameFit(ctl[i])
      BY DEF Deleting, FramesFit
    <3>3. ctl[i].op = "delete" /\ installed[ctl[i].f] => ctl[i].f \in Upright
      BY <3>2 DEF Upright, FrameFit
    <3>4. ctl[i].op = "delete" /\ installed[ctl[i].f] =>
            \E j \in 1..Len(t) : t[j].op \in Stages /\ t[j].f = ctl[i].f
      BY <3>2, <3>3, StagesPass DEF DeletingAt, Place
    <3> QED BY <3>1, <3>4 DEF DeletingAt
  <2> QED BY <2>1, <2>2
<1>3. Place' = 1..Len(t) /\ t = ctl'
  BY OldPlaces
<1>4. \A k \in 1..Len(t) : DeletingAt(ctl, k)'
  BY <1>1, <1>3 DEF DeletingAt
<1> QED BY <1>3, <1>4 DEF Deleting

\* Calls about an entity that are on the stack stay there unless they end.
LEMMA CallsPass ==
  ASSUME NEW t, NEW fs, NEW p, Puts(t, fs, p), TypeOK, NEW ops, NEW e,
         p = 1 => ctl[1].op \notin ops \/ ctl[1].e # e
  PROVE  (\E k \in Place : ctl[k].op \in ops /\ ctl[k].e = e)
           => \E k \in 1..Len(t) : t[k].op \in ops /\ t[k].e = e
<1>1. ASSUME NEW j \in Place, ctl[j].op \in ops, ctl[j].e = e
      PROVE  \E k \in 1..Len(t) : t[k].op \in ops /\ t[k].e = e
  <2>1. /\ j > p => j - p + Len(fs) \in 1..Len(t) /\ t[j - p + Len(fs)] = ctl[j]
        /\ ~(j > p) => p = 1 /\ j = 1
    BY OldPlaces
  <2> QED BY <1>1, <2>1
<1> QED BY <1>1

\* Entities have records.
LEMMA RecordedRests ==
  ASSUME TypeOK, Recorded, NEW t, NEW fs, NEW p, Puts(t, fs, p),
         UNCHANGED <<created, record, killed, gone>>,
         \A e \in Entities : record[e] # None => installed'[record[e]],
         p = 1 => ctl[1].op \notin {"destruct", "onEnd"},
         \A k \in 1..Len(fs) : KilledAt(t, k)
  PROVE  Recorded'
<1>1. ASSUME NEW e \in Entities PROVE EntityKnown(t, e) /\ KilledKnown(t, e)
  <2>1. EntityKnown(ctl, e) /\ KilledKnown(ctl, e)
    BY DEF Recorded
  <2>2. (\E k \in Place : ctl[k].op \in {"onEnd"} /\ ctl[k].e = e)
           => \E k \in 1..Len(t) : t[k].op \in {"onEnd"} /\ t[k].e = e
    <3> DEFINE ops == {"onEnd"}
    <3>1. p = 1 => ctl[1].op \notin ops
      OBVIOUS
    <3> HIDE DEF ops
    <3>2. (\E k \in Place : ctl[k].op \in ops /\ ctl[k].e = e)
            => \E k \in 1..Len(t) : t[k].op \in ops /\ t[k].e = e
      BY ONLY <3>1, CallsPass, Puts(t, fs, p), TypeOK
    <3> QED BY <3>2 DEF ops
  <2>3. (\E k \in Place : ctl[k].op \in {"destruct"} /\ ctl[k].e = e)
           => \E k \in 1..Len(t) : t[k].op \in {"destruct"} /\ t[k].e = e
    <3> DEFINE ops == {"destruct"}
    <3>1. p = 1 => ctl[1].op \notin ops
      OBVIOUS
    <3> HIDE DEF ops
    <3>2. (\E k \in Place : ctl[k].op \in ops /\ ctl[k].e = e)
            => \E k \in 1..Len(t) : t[k].op \in ops /\ t[k].e = e
      BY ONLY <3>1, CallsPass, Puts(t, fs, p), TypeOK
    <3> QED BY <3>2 DEF ops
  <2> QED BY <2>1, <2>2, <2>3 DEF EntityKnown, KilledKnown, Place
<1>2. \A k \in 1..Len(t) : KilledAt(t, k)
  <2> TAKE k \in 1..Len(t)
  <2>1. CASE k \in 1..Len(fs)
    BY <2>1
  <2>2. CASE k \notin 1..Len(fs)
    <3>1. PICK i \in Place : t[k] = ctl[i]
      BY <2>2, OldPlaces
    <3>2. KilledAt(ctl, i)
      BY DEF Recorded
    <3> QED BY <3>1, <3>2 DEF KilledAt
  <2> QED BY <2>1, <2>2
<1>3. Place' = 1..Len(t) /\ t = ctl'
  BY OldPlaces
<1>4. \A e \in Entities : EntityKnown(ctl, e)' /\ KilledKnown(ctl, e)'
  BY <1>1, <1>3 DEF EntityKnown, KilledKnown
<1>5. \A k \in 1..Len(t) : KilledAt(ctl, k)'
  BY <1>2, <1>3 DEF KilledAt
<1>6. (gone \subseteq killed /\ killed \subseteq 1..created)' /\ \A e \in Entities : RecordFits(e)'
  BY DEF Recorded, RecordFits
<1> QED BY <1>3, <1>4, <1>5, <1>6 DEF Recorded

\* Factories that are uninstalled lose their entities.
LEMMA EmptiedRests ==
  ASSUME TypeOK, Emptied, NEW t, NEW fs, NEW p, Puts(t, fs, p), UNCHANGED <<record, killed>>,
         p = 1 /\ ctl[1].op \in {"removeEntity", "destruct"} => record[ctl[1].e] = None,
         \A k \in 1..Len(fs) : EmptiedAt(t, k),
         \A j \in 1..Len(fs), i \in Place :
           i > p /\ t[j].op = "removeEntity" /\ ctl[i].op = "removeEach" => t[j].e \notin ctl[i].es,
         FramesFit
  PROVE  Emptied'
<1>0. \A k \in 1..Len(t) : k \in 1..Len(fs) \/ \E i \in Place : i > p /\ t[k] = ctl[i]
  BY OldPlaces
<1>1. ASSUME NEW k \in 1..Len(t) PROVE EmptiedAt(t, k)
  <2>1. CASE k \in 1..Len(fs)
    BY <2>1
  <2>2. CASE k \notin 1..Len(fs)
    <3>1. PICK i \in Place : i > p /\ t[k] = ctl[i]
      BY <1>0, <2>2
    <3>2. EmptiedAt(ctl, i) /\ FrameFit(ctl[i])
      BY DEF Emptied, FramesFit
    <3>3. ASSUME ctl[i].op = "removeEach"
          PROVE  /\ \A e \in Entities : record[e] = ctl[i].f /\ e \notin ctl[i].es =>
                      \E j \in 1..Len(t) : t[j].op \in {"removeEntity", "destruct"} /\ t[j].e = e
                 /\ \A j \in 1..Len(t) : t[j].op = "removeEntity" => t[j].e \notin ctl[i].es
      <4>1. ASSUME NEW e \in Entities, record[e] = ctl[i].f, e \notin ctl[i].es
            PROVE  \E j \in 1..Len(t) : t[j].op \in {"removeEntity", "destruct"} /\ t[j].e = e
        <5>1. \E j \in Place : ctl[j].op \in {"removeEntity", "destruct"} /\ ctl[j].e = e
          BY <3>2, <3>3, <4>1 DEF EmptiedAt, Place
        <5>2. record[e] # None
          BY <3>2, <3>3, <4>1 DEF FrameFit, Emptying, Factories, None
        <5> DEFINE ops == {"removeEntity", "destruct"}
        <5>3. p = 1 => ctl[1].op \notin ops \/ ctl[1].e # e
          BY <5>2
        <5>4. \E j \in Place : ctl[j].op \in ops /\ ctl[j].e = e
          BY <5>1
        <5> HIDE DEF ops
        <5>5. \E j \in 1..Len(t) : t[j].op \in ops /\ t[j].e = e
          BY ONLY <5>3, <5>4, CallsPass, Puts(t, fs, p), TypeOK
        <5> QED BY <5>5 DEF ops
      <4>2. ASSUME NEW j \in 1..Len(t), t[j].op = "removeEntity" PROVE t[j].e \notin ctl[i].es
        <5>1. CASE j \in 1..Len(fs)
          BY <3>1, <3>3, <4>2, <5>1
        <5>2. CASE j \notin 1..Len(fs)
          <6>1. PICK h \in Place : t[j] = ctl[h]
            BY <1>0, <5>2
          <6> QED BY <3>2, <3>3, <4>2, <6>1 DEF EmptiedAt, Place
        <5> QED BY <5>1, <5>2
      <4> QED BY <4>1, <4>2
    <3> QED BY <3>1, <3>2, <3>3 DEF EmptiedAt
  <2> QED BY <2>1, <2>2
<1>2. Place' = 1..Len(t) /\ t = ctl'
  BY OldPlaces
<1>3. \A k \in 1..Len(t) : EmptiedAt(ctl, k)'
  BY <1>1, <1>2 DEF EmptiedAt
<1> QED BY <1>2, <1>3 DEF Emptied

\* Fields are those of the levels.
LEMMA FilledRests ==
  ASSUME TypeOK, Filled, NEW t, NEW fs, NEW p, Puts(t, fs, p), UNCHANGED <<record, fields, base, factories>>,
         p = 1 => ctl[1].op # "onEnd",
         \A k \in 1..Len(fs) : FilledAt(t, k)
  PROVE  Filled'
<1>1. ASSUME NEW e \in Entities PROVE FieldsKnown(t, e)
  <2>1. FieldsKnown(ctl, e)
    BY DEF Filled
  <2>2. (\E k \in Place : ctl[k].op \in {"onEnd"} /\ ctl[k].e = e)
           => \E k \in 1..Len(t) : t[k].op \in {"onEnd"} /\ t[k].e = e
    <3> DEFINE ops == {"onEnd"}
    <3>1. p = 1 => ctl[1].op \notin ops
      OBVIOUS
    <3> HIDE DEF ops
    <3>2. (\E k \in Place : ctl[k].op \in ops /\ ctl[k].e = e)
            => \E k \in 1..Len(t) : t[k].op \in ops /\ t[k].e = e
      BY ONLY <3>1, CallsPass, Puts(t, fs, p), TypeOK
    <3> QED BY <3>2 DEF ops
  <2> QED BY <2>1, <2>2 DEF FieldsKnown, Place
<1>2. \A k \in 1..Len(t) : FilledAt(t, k)
  <2> TAKE k \in 1..Len(t)
  <2>1. CASE k \in 1..Len(fs)
    BY <2>1
  <2>2. CASE k \notin 1..Len(fs)
    <3>1. PICK i \in Place : t[k] = ctl[i]
      BY <2>2, OldPlaces
    <3>2. FilledAt(ctl, i)
      BY DEF Filled
    <3> QED BY <3>1, <3>2 DEF FilledAt
  <2> QED BY <2>1, <2>2
<1>3. Place' = 1..Len(t) /\ t = ctl' /\ Live' = Live
  BY OldPlaces DEF Live
<1>4. \A e \in Entities : FieldsKnown(ctl, e)'
  BY <1>1, <1>3 DEF FieldsKnown
<1>5. \A k \in 1..Len(t) : FilledAt(ctl, k)'
  BY <1>2, <1>3 DEF FilledAt
<1>6. \A e \in Entities : FieldsFit(e)'
  BY <1>3 DEF Filled, FieldsFit
<1> QED BY <1>3, <1>4, <1>5, <1>6 DEF Filled

-----------------------------------------------------------------------------
(***************************************************************************)
(* Steps that change no more than the stack.                               *)
(***************************************************************************)

\* Ranks are numbers.
LEMMA RankNumbers ==
  ASSUME NEW a \in Ops
  PROVE  Rank(a) \in Nat
<1>1. a \in Building \cup {"onRemove"} \cup Destroying \cup Emptying \cup Leaving \cup {"delete"} \cup Closers
  BY DEF Ops, Callbacks, Building, Destroying, Emptying, Leaving, Closers
<1>2. CASE a \in Building
  BY <1>2, Ranks
<1>3. CASE a \in Destroying
  BY <1>3, Ranks
<1>4. CASE a \in Emptying
  BY <1>4, Ranks
<1>5. CASE a \in Leaving
  BY <1>5, Ranks
<1>6. CASE a \in Closers
  BY <1>6, Ranks
<1>7. CASE a \in {"onRemove", "delete"}
  BY <1>7, Ranks
<1> QED BY <1>1, <1>2, <1>3, <1>4, <1>5, <1>6, <1>7

\* A call over another is over what that one is over.
LEMMA OverOthers ==
  ASSUME NEW a \in Ops, NEW b \in Ops, NEW c \in Ops, Over(c, b),
         \/ Rank(a) < Rank(c)
         \/ Rank(a) = Rank(c) /\ (a \in Building \cup Leaving \/ c \notin Building \cup Leaving)
         \/ Rank(a) = Rank(c) + 1 /\ a \in Leaving /\ c \notin Building \cup Leaving
  PROVE  Over(a, b)
<1>1. Rank(a) \in Nat /\ Rank(b) \in Nat /\ Rank(c) \in Nat
  BY RankNumbers
<1> QED BY <1>1 DEF Over

\* The innermost call is over all others.
LEMMA OverOld ==
  ASSUME TypeOK, Ordered, NEW i \in Place, i > 1
  PROVE  Over(ctl[1].op, ctl[i].op) /\ ctl[1].op \in Ops /\ ctl[i].op \in Ops
<1>1. ctl \in Seq(Frame)
  BY DEF TypeOK
<1>2. 1 \in 1..Len(ctl) /\ i \in 1..Len(ctl)
  BY <1>1 DEF Place
<1> QED BY <1>1, <1>2, FramesTyped DEF Ordered, OrderedIn

\* What the new frame k must be like.
NewFit(t, k) ==
  /\ FrameFit(t[k]) /\ WithdrawnAt(t, k) /\ NameGone(t, k) /\ DeletingAt(t, k) /\ KilledAt(t, k)
  /\ EmptiedAt(t, k) /\ FilledAt(t, k)

PlainOps == {"uninstall", "onUninstalled", "onInstalled", "onRemove", "removeEntity",
             "attachNextBot", "postConstruct"} \cup Closers

\* Most frames need no more than to refer to what is there.
LEMMA PlainFrame ==
  ASSUME NEW t, NEW k, t[k].op \in PlainOps, FrameFit(t[k])
  PROVE  NewFit(t, k)
<1>1. t[k].op \notin Uninstalling \cup {"delete", "destruct", "onEnd", "construct"}
  BY DEF PlainOps, Closers, Uninstalling, Emptying
<1>2. t[k].op \notin Emptying /\ t[k].op # "children" /\ t[k].op # "removeEach" /\ t[k].op # "detach"
  BY <1>1 DEF Uninstalling, Emptying
<1>3. WithdrawnAt(t, k) /\ NameGone(t, k) /\ DeletingAt(t, k) /\ KilledAt(t, k) /\ EmptiedAt(t, k) /\ FilledAt(t, k)
  BY <1>1, <1>2 DEF WithdrawnAt, NameGone, DeletingAt, KilledAt, EmptiedAt, FilledAt
<1> QED BY <1>3 DEF NewFit

\* New calls are in order, over each other and over what is left.
OrderFit(t, fs, p) ==
  /\ \A j, k \in 1..Len(fs) : j < k => Over(t[j].op, t[k].op)
  /\ \A j \in 1..Len(fs), i \in Place : i > p => Over(t[j].op, ctl[i].op)

InstallFit(t, fs, p) ==
  \/ \A k \in 1..Len(fs) : t[k].op \in Building
  \/ /\ \A k \in 1..Len(fs) : t[k].op # "onInstalled"
     /\ \A i \in Place : ctl[i].op # "onInstalled"
  \/ /\ \A i \in Place : ctl[i].op \in {"onInstalled"} \cup Building
     /\ \A k \in 1..Len(fs) : t[k].op \in {"onInstalled"} \cup Building

\* A removal that goes has nothing left to do; a new one is not of an entity that is to come.
RemovalFit(t, fs, p) ==
  /\ p = 1 => ctl[1].op \notin {"destruct", "onEnd"} /\ (ctl[1].op = "removeEntity" => record[ctl[1].e] = None)
  /\ \A j \in 1..Len(fs), i \in Place :
       i > p /\ t[j].op = "removeEntity" /\ ctl[i].op = "removeEach" => t[j].e \notin ctl[i].es

\* A step of calls only keeps the invariant.
LEMMA Quiet ==
  ASSUME IInv, NEW t, NEW fs, NEW p, Puts(t, fs, p), OrderFit(t, fs, p), InstallFit(t, fs, p),
         Passed(t, Len(fs), p), RemovalFit(t, fs, p), \A k \in 1..Len(fs) : NewFit(t, k),
         UNCHANGED <<factories, closed, derive, hierarchy, population>>, hooked' \in BOOLEAN
  PROVE  IInv'
<1>1. /\ TypeOK /\ Ordered /\ Installing /\ FramesFit /\ Registered /\ Hierarchy /\ Withdrawn
      /\ Named /\ Deleting /\ Recorded /\ Emptied /\ Filled
  BY DEF IInv
<1>2. /\ UNCHANGED <<factories, closed, derive, installed, base, slots, count, dict>>
      /\ UNCHANGED <<created, record, fields, killed, gone>>
  BY DEF hierarchy, population
<1>3. t = ctl' /\ t \in Seq(Frame)
  BY <1>1, OldPlaces
<1>4. TypeOK'
  BY <1>1, <1>2, <1>3 DEF TypeOK
<1>5. Ordered'
  BY <1>1, OrderRests DEF OrderFit
<1>6. Installing'
  BY <1>1, InstallingRests DEF InstallFit
<1>7. FramesFit'
  BY <1>1, <1>2, FramesFitRest DEF NewFit
<1>8. Registered' /\ Hierarchy'
  BY <1>1, <1>2 DEF Registered, Live, Hierarchy, HierarchyAt
<1>9. Withdrawn'
  BY <1>1, <1>2, WithdrawnRests DEF NewFit
<1>10. Named'
  BY <1>1, <1>2, NamedRests DEF NewFit
<1>11. Deleting'
  BY <1>1, <1>2, DeletingRests DEF NewFit
<1>12. Recorded'
  <2>1. \A e \in Entities : record[e] # None => installed'[record[e]]
    BY <1>1, <1>2 DEF Recorded, RecordFits
  <2> QED BY <1>1, <2>1, <1>2, RecordedRests DEF NewFit, RemovalFit
<1>13. Emptied'
  BY <1>1, <1>2, EmptiedRests DEF NewFit, RemovalFit
<1>14. Filled'
  BY <1>1, <1>2, FilledRests DEF NewFit, RemovalFit
<1> QED BY <1>4, <1>5, <1>6, <1>7, <1>8, <1>9, <1>10, <1>11, <1>12, <1>13, <1>14 DEF IInv

\* The call that is running, and what its frame refers to.
LEMMA Runs ==
  ASSUME IInv, ctl # <<>>
  PROVE  /\ Len(ctl) \in Nat /\ Len(ctl) > 0 /\ 1 \in Place /\ Top = ctl[1] /\ Top \in Frame
         /\ Top.op \in Ops /\ Top.f \in 0..MaxFactories /\ Top.e \in 0..MaxEntities /\ Top.n \in Nat
         /\ Top.es \in SUBSET Entities /\ Top.fs \in Seq(Factories) /\ Top.p \in Plugins \cup {"none"}
         /\ TypeOK /\ FrameFit(Top) /\ \A i \in Place : i > 1 => Over(Top.op, ctl[i].op)
<1>1. TypeOK /\ Ordered /\ FramesFit
  BY DEF IInv
<1>2. /\ Len(ctl) \in Nat /\ Len(ctl) > 0 /\ 1 \in Place /\ Top = ctl[1] /\ Top \in Frame
      /\ Top.op \in Ops /\ Top.f \in 0..MaxFactories /\ Top.e \in 0..MaxEntities /\ Top.n \in Nat
      /\ Top.es \in SUBSET Entities /\ Top.fs \in Seq(Factories) /\ Top.p \in Plugins \cup {"none"}
  BY <1>1, TopIs
<1>3. FrameFit(Top)
  BY <1>1, <1>2 DEF FramesFit
<1>4. \A i \in Place : i > 1 => Over(Top.op, ctl[i].op)
  BY <1>1, <1>2, OverOld
<1> QED BY <1>1, <1>2, <1>3, <1>4

\* Without an install on top there is none.
LEMMA NotInstalling ==
  ASSUME IInv, ctl # <<>> => Top.op \notin {"onInstalled"} \cup Building
  PROVE  \A i \in Place : ctl[i].op # "onInstalled"
<1>1. TypeOK /\ Installing
  BY DEF IInv
<1>2. ctl \in Seq(Frame)
  BY <1>1 DEF TypeOK
<1>3. CASE ctl = <<>>
  BY <1>3 DEF Place
<1>4. CASE ctl # <<>>
  <2>1. 1 \in Place /\ ctl[1].op \notin {"onInstalled"} \cup Building
    BY <1>4, Runs
  <2> QED BY <1>1, <2>1 DEF Installing, InstallingIn, Place
<1> QED BY <1>3, <1>4

\* A call that ends and that nobody waits for.
LEMMA Pops ==
  ASSUME IInv, ctl # <<>>, Becomes(<<>>),
         Top.op \notin Uninstalling \cup {"destruct", "onEnd"},
         Top.op = "uninstall" => ~installed[Top.f],
         Top.op = "removeEntity" => record[Top.e] = None,
         UNCHANGED <<factories, closed, derive, hierarchy, population>>, hooked' \in BOOLEAN
  PROVE  IInv'
<1>1. TypeOK /\ Top = ctl[1]
  BY Runs
<1>2. PICK t : Puts(t, <<>>, 1)
  BY <1>1, NoFrames, BecomesPut
<1>3. PICK fs : fs = <<>>
  OBVIOUS
<1>4. Len(fs) = 0
  BY <1>3
<1>5. OrderFit(t, fs, 1) /\ InstallFit(t, fs, 1) /\ \A k \in 1..Len(fs) : NewFit(t, k)
  BY <1>4 DEF OrderFit, InstallFit
<1>6. Passed(t, Len(fs), 1) /\ RemovalFit(t, fs, 1)
  BY <1>1, <1>4 DEF Passed, RemovalFit
<1> QED BY <1>2, <1>3, <1>5, <1>6, Quiet

\* CallbackReturns.
LEMMA CallbackReturnsKeeps ==
  ASSUME IInv, CallbackReturns
  PROVE  IInv'
<1>1. ctl # <<>> /\ Top.op \in {"onInstalled", "onUninstalled", "attachNextBot", "postConstruct"} /\ Becomes(<<>>)
      /\ UNCHANGED <<factories, closed, derive, hierarchy, population>> /\ UNCHANGED hooked
  BY DEF CallbackReturns
<1>2. hooked' \in BOOLEAN
  BY <1>1 DEF IInv, TypeOK
<1>3. /\ Top.op \notin Uninstalling \cup {"destruct", "onEnd"}
      /\ Top.op # "uninstall" /\ Top.op # "removeEntity"
  BY <1>1 DEF Uninstalling, Emptying
<1> QED BY <1>1, <1>2, <1>3, Pops

\* CreateFields on no further level: RecursiveCreate returns.
LEMMA ConstructReturns ==
  ASSUME IInv, RecursiveCreate, Top.fs = <<>>
  PROVE  IInv'
<1>1. ctl # <<>> /\ Top.op = "construct" /\ Becomes(<<>>)
      /\ UNCHANGED <<factories, closed, derive, hierarchy, population>> /\ UNCHANGED hooked
  BY DEF RecursiveCreate, Running, population
<1>2. hooked' \in BOOLEAN
  BY <1>1 DEF IInv, TypeOK
<1>3. /\ Top.op \notin Uninstalling \cup {"destruct", "onEnd"}
      /\ Top.op # "uninstall" /\ Top.op # "removeEntity"
  BY <1>1 DEF Uninstalling, Emptying
<1> QED BY <1>1, <1>2, <1>3, Pops

\* An uninstall of a factory that is not installed.
LEMMA UninstallReturns ==
  ASSUME IInv, Uninstall, ~installed[Top.f]
  PROVE  IInv'
<1>1. ctl # <<>> /\ Top.op = "uninstall" /\ Becomes(<<>>)
      /\ UNCHANGED <<factories, closed, derive, hierarchy, population>> /\ UNCHANGED hooked
  BY DEF Uninstall, Running, hierarchy
<1>2. hooked' \in BOOLEAN
  BY <1>1 DEF IInv, TypeOK
<1>3. /\ Top.op \notin Uninstalling \cup {"destruct", "onEnd"}
      /\ (Top.op = "uninstall" => ~installed[Top.f]) /\ Top.op # "removeEntity"
  BY <1>1 DEF Uninstalling, Emptying
<1> QED BY <1>1, <1>2, <1>3, Pops

\* No other frame is of a destruction while one is on top.
LEMMA AloneDestroying ==
  ASSUME IInv, ctl # <<>>, Top.op \in Destroying, NEW i \in Place, i > 1
  PROVE  ctl[i].op \in Emptying \cup Leaving \cup {"delete"} \cup Closers
<1>1. Over(Top.op, ctl[i].op) /\ Top = ctl[1] /\ TypeOK /\ Ordered
  BY Runs DEF IInv
<1>2. ctl[i].op \in Ops
  BY <1>1, OverOld
<1>3. ctl[i].op \in Building \cup {"onRemove"} \cup Destroying \cup Emptying \cup Leaving \cup {"delete"} \cup Closers
  BY <1>2 DEF Ops, Callbacks, Building, Destroying, Emptying, Leaving, Closers
<1>4. Rank(Top.op) = 2 /\ Top.op \notin Building \cup Leaving
  BY Ranks DEF Destroying, Building, Leaving
<1>5. Rank(ctl[i].op) # 2 /\ ~(Rank(ctl[i].op) < 2)
  BY <1>1, <1>2, <1>4, RankNumbers DEF Over
<1>6. ctl[i].op \notin Building \cup {"onRemove"} \cup Destroying
  BY <1>5, Ranks
<1> QED BY <1>3, <1>6

\* The removal of an entity that was removed.
LEMMA RemovalReturns ==
  ASSUME IInv, RemoveEntityImmediate, Top.e \in killed
  PROVE  IInv'
<1>1. ctl # <<>> /\ Top.op = "removeEntity" /\ Becomes(<<>>)
      /\ UNCHANGED <<factories, closed, derive, hierarchy, population>> /\ UNCHANGED hooked
  BY DEF RemoveEntityImmediate, Running, population
<1>2. hooked' \in BOOLEAN /\ Recorded /\ TypeOK
  BY <1>1 DEF IInv, TypeOK
<1>3. /\ Top.op \notin Uninstalling \cup {"destruct", "onEnd"}
      /\ Top.op # "uninstall"
  BY <1>1 DEF Uninstalling, Emptying
<1>4. record[Top.e] = None
  <2>1. \A k \in Place : ctl[k].op # "destruct"
    <3> TAKE k \in Place
    <3>1. CASE k > 1
      <4>1. ctl[k].op \in Emptying \cup Leaving \cup {"delete"} \cup Closers
        BY <1>1, <3>1, AloneDestroying DEF Destroying
      <4> QED BY <4>1 DEF Emptying, Leaving, Closers
    <3>2. CASE ~(k > 1)
      <4>1. k = 1 /\ Top = ctl[1]
        BY <1>1, <3>2, Runs DEF Place
      <4> QED BY <1>1, <4>1
    <3> QED BY <3>1, <3>2
  <2>2. Top.e \in Entities
    BY <1>2 DEF TypeOK
  <2>3. KilledKnown(ctl, Top.e)
    BY <1>2, <2>2 DEF Recorded
  <2> QED BY <2>1, <2>3 DEF KilledKnown, Place
<1> QED BY <1>1, <1>2, <1>3, <1>4, Pops

\* Plugin code that calls: which callbacks it may be in.
LEMMA CallsFrom ==
  ASSUME IInv, CallsBack \subseteq Survivable, NEW call, PluginCode(call), ctl # <<>>
  PROVE  /\ call = "create" => Top.op \in Callbacks
         /\ call \in {"edit", "install"} => Top.op = "onInstalled"
         /\ call = "uninstall" => Top.op = "onUninstalled"
         /\ call # "close"
<1>1. <<Top.op, call>> \in CallsBack
  BY DEF PluginCode
<1>2. <<Top.op, call>> \in Survivable
  BY <1>1
<1> QED BY <1>2 DEF Survivable

\* One new frame on top of a stack where nothing is installed.
LEMMA PutsOne ==
  ASSUME IInv, NEW x \in Frame, Calls(<<x>>), x.op \in PlainOps, x.op # "onInstalled", FrameFit(x),
         \A i \in Place : ctl[i].op # "onInstalled",
         \A i \in Place : Over(x.op, ctl[i].op),
         \A i \in Place : x.op = "removeEntity" => ctl[i].op # "removeEach",
         UNCHANGED <<factories, closed, derive, hierarchy, population>>, hooked' \in BOOLEAN
  PROVE  IInv'
<1>1. TypeOK
  BY DEF IInv
<1>2. <<x>> \in Seq(Frame) /\ Len(<<x>>) = 1 /\ <<x>>[1] = x
  BY OneFrame
<1>3. PICK t : Puts(t, <<x>>, 0)
  BY <1>1, <1>2, CallsPut
<1>4. PICK fs : fs = <<x>>
  OBVIOUS
<1>5. Puts(t, fs, 0) /\ Len(fs) = 1 /\ fs[1] = x
  BY <1>2, <1>3, <1>4
<1>6. t[1] = x /\ \A k \in 1..Len(fs) : k = 1
  BY <1>5 DEF Puts
<1>7. PICK p \in {0, 1} : p = 0
  OBVIOUS
<1> HIDE <1>4
<1>8. OrderFit(t, fs, p)
  BY <1>5, <1>6 DEF OrderFit
<1>9. InstallFit(t, fs, p)
  BY <1>6 DEF InstallFit
<1>10. Passed(t, Len(fs), p)
  BY <1>7 DEF Passed
<1>11. RemovalFit(t, fs, p)
  BY <1>6, <1>7 DEF RemovalFit
<1>12. \A k \in 1..Len(fs) : NewFit(t, k)
  BY <1>6, PlainFrame
<1>13. Puts(t, fs, p)
  BY <1>5, <1>7
<1> QED BY <1>8, <1>9, <1>10, <1>11, <1>12, <1>13, Quiet

\* Uninstall, the native.
LEMMA UninstallNativeKeeps ==
  ASSUME IInv, CallsBack \subseteq Survivable, NEW f \in Factories, UninstallNative(f)
  PROVE  IInv'
<1>1. /\ PluginCode("uninstall") /\ f \in Live /\ Calls(<<Do("uninstall", f, None)>>)
      /\ UNCHANGED <<factories, closed, derive, hierarchy, population>> /\ UNCHANGED hooked
  BY DEF UninstallNative
<1>2. PICK x : x = Do("uninstall", f, None)
  OBVIOUS
<1>3. /\ x \in Frame /\ x.op = "uninstall" /\ x.f = f /\ x.e = None /\ x.n = 0 /\ x.es = {} /\ x.fs = <<>>
  <2>1. "uninstall" \in Ops /\ f \in 0..MaxFactories /\ None \in 0..MaxEntities
    BY ConstantsOK DEF Ops, Factories, None
  <2> QED BY <1>2, <2>1, DoFrame
<1>4. hooked' \in BOOLEAN /\ Registered /\ TypeOK
  BY <1>1 DEF IInv, TypeOK
<1>5. FrameFit(x)
  <2>1. f \notin closed
    BY <1>1, <1>4 DEF Registered
  <2>2. None \notin gone
    BY <1>4 DEF TypeOK, Entities, None
  <2> QED BY <1>3, <2>1, <2>2 DEF FrameFit, Building, Destroying, Closers
<1>6. ctl # <<>> => Top.op = "onUninstalled"
  BY <1>1, CallsFrom
<1>7. \A i \in Place : ctl[i].op # "onInstalled"
  BY <1>6, NotInstalling DEF Building
<1>8. \A i \in Place : Over(x.op, ctl[i].op)
  <2> TAKE i \in Place
  <2>1. ctl # <<>> /\ ctl \in Seq(Frame)
    BY <1>4 DEF TypeOK, Place
  <2>2. ctl[1].op = "onUninstalled" /\ Top = ctl[1]
    BY <1>6, <2>1, Runs
  <2>3. Rank("uninstall") = 4 /\ Rank("onUninstalled") = 4 /\ "uninstall" \in Leaving
    BY Ranks DEF Leaving
  <2>4. CASE i > 1
    <3>1. Over("onUninstalled", ctl[i].op) /\ ctl[i].op \in Ops
      BY <1>4, <2>2, <2>4, OverOld DEF IInv
    <3> QED BY <1>3, <2>3, <3>1, OverOthers DEF Ops, Callbacks
  <2>5. CASE ~(i > 1)
    <3>1. i = 1
      BY <2>1, <2>5 DEF Place
    <3> QED BY <1>3, <2>2, <2>3, <3>1 DEF Over
  <2> QED BY <2>4, <2>5
<1>9. Calls(<<x>>) /\ x.op \in PlainOps /\ x.op # "onInstalled" /\ x.op # "removeEntity"
  BY <1>1, <1>2, <1>3 DEF PlainOps
<1> HIDE <1>2
<1> QED BY <1>1, <1>3, <1>4, <1>5, <1>7, <1>8, <1>9, PutsOne

\* Listed and installed factories are not deleted.
LEMMA LiveFactories ==
  ASSUME IInv
  PROVE  /\ \A f \in Live : f \in Factories /\ f \notin closed
         /\ \A f \in Upright : f \in Live /\ f \in Factories /\ f \notin closed
         /\ None \notin closed /\ None \notin gone
<1>1. TypeOK /\ Registered /\ Hierarchy
  BY DEF IInv
<1>2. Live \subseteq Factories /\ Live \cap closed = {} /\ Upright \subseteq Live
  BY <1>1, BasesInstalled DEF Registered, Upright
<1>3. closed \subseteq Factories /\ gone \subseteq Entities
  BY <1>1 DEF TypeOK
<1> QED BY <1>2, <1>3 DEF Factories, Entities, None

\* A frame about a factory.
LEMMA FactoryFrame ==
  ASSUME IInv, NEW f \in Factories, f \notin closed,
         NEW op \in Emptying \cup Leaving \cup {"delete"}, op # "removeEach"
  PROVE  /\ Do(op, f, None) \in Frame /\ FrameFit(Do(op, f, None))
         /\ Do(op, f, None).op = op /\ Do(op, f, None).f = f /\ Do(op, f, None).e = None
<1>1. op \in Ops /\ f \in 0..MaxFactories /\ None \in 0..MaxEntities
  BY ConstantsOK DEF Ops, Callbacks, Emptying, Leaving, Factories, None
<1>2. PICK x : x = Do(op, f, None)
  OBVIOUS
<1>3. x \in Frame /\ x.op = op /\ x.f = f /\ x.e = None /\ x.es = {} /\ x.fs = <<>>
  BY <1>1, <1>2, DoFrame
<1>4. op \notin Building \cup {"onRemove"} \cup Destroying \cup Closers \cup {"unloadAll"}
  BY DEF Building, Destroying, Closers, Emptying, Leaving
<1>5. FrameFit(x)
  BY <1>3, <1>4, LiveFactories DEF FrameFit, Closers, Destroying
<1> QED BY <1>2, <1>3, <1>5

\* A frame may replace one that is over no more.
Lower(a, c) ==
  \/ Rank(a) < Rank(c)
  \/ Rank(a) = Rank(c) /\ (a \in Building \cup Leaving \/ c \notin Building \cup Leaving)
  \/ Rank(a) = Rank(c) + 1 /\ a \in Leaving /\ c \notin Building \cup Leaving

\* The order of calls when new frames replace the innermost.
LEMMA ReplacesInOrder ==
  ASSUME IInv, ctl # <<>>, NEW t, NEW fs, NEW p, p = 1, Puts(t, fs, p),
         Top.op \notin {"onInstalled"} \cup Building,
         \A j, k \in 1..Len(fs) : j < k => Over(fs[j].op, fs[k].op),
         \A k \in 1..Len(fs) : Lower(fs[k].op, Top.op) /\ fs[k].op # "onInstalled"
  PROVE  OrderFit(t, fs, p) /\ InstallFit(t, fs, p)
<1>1. \A k \in 1..Len(fs) : t[k] = fs[k] /\ fs[k].op \in Ops
  <2>1. \A k \in 1..Len(fs) : t[k] = fs[k] /\ fs \in Seq(Frame)
    BY DEF Puts
  <2> QED BY <2>1, FramesTyped
<1>2. \A i \in Place : ctl[i].op # "onInstalled"
  BY NotInstalling
<1>3. ASSUME NEW j \in 1..Len(fs), NEW i \in Place, i > p PROVE Over(t[j].op, ctl[i].op)
  <2>1. i > 1 /\ Top = ctl[1] /\ TypeOK /\ Ordered
    BY <1>3, Runs DEF IInv
  <2>2. Over(Top.op, ctl[i].op) /\ Top.op \in Ops /\ ctl[i].op \in Ops
    BY <2>1, OverOld
  <2>3. fs[j].op \in Ops /\ Lower(fs[j].op, Top.op)
    BY <1>1
  <2> QED BY <1>1, <2>2, <2>3, OverOthers DEF Lower
<1>4. \A j, k \in 1..Len(fs) : j < k => Over(t[j].op, t[k].op)
  BY <1>1
<1>5. \A k \in 1..Len(fs) : t[k].op # "onInstalled"
  BY <1>1
<1> QED BY <1>2, <1>3, <1>4, <1>5 DEF OrderFit, InstallFit

\* A stack without calls gets frames.
LEMMA PutsFirst ==
  ASSUME IInv, ctl = <<>>, NEW fs \in Seq(Frame), Calls(fs),
         \A j, k \in 1..Len(fs) : j < k => Over(fs[j].op, fs[k].op),
         \A k \in 1..Len(fs) :
           /\ fs[k].op \in PlainOps \cup {"delete"} /\ fs[k].op # "onInstalled" /\ FrameFit(fs[k])
           /\ fs[k].op = "delete" =>
                \E j \in 1..Len(fs) : fs[j].op = "uninstall" /\ fs[j].f = fs[k].f,
         UNCHANGED <<factories, closed, derive, hierarchy, population>>, hooked' \in BOOLEAN
  PROVE  IInv'
<1>1. TypeOK
  BY DEF IInv
<1>2. PICK p \in {0, 1} : p = 0
  OBVIOUS
<1>3. PICK t : Puts(t, fs, p)
  BY <1>1, <1>2, CallsPut
<1>4. /\ \A k \in 1..Len(fs) : t[k] = fs[k] /\ k \in 1..Len(t)
      /\ Place = {}
  BY <1>3 DEF Puts, Place
<1>5. OrderFit(t, fs, p) /\ InstallFit(t, fs, p) /\ Passed(t, Len(fs), p) /\ RemovalFit(t, fs, p)
  BY <1>2, <1>4 DEF OrderFit, InstallFit, Passed, RemovalFit
<1>6. ASSUME NEW k \in 1..Len(fs) PROVE NewFit(t, k)
  <2>1. CASE fs[k].op = "delete"
    <3>1. t[k] = fs[k] /\ t[k].op = "delete" /\ FrameFit(t[k])
      BY <1>4, <2>1
    <3>2. PICK j \in 1..Len(fs) : fs[j].op = "uninstall" /\ fs[j].f = fs[k].f
      BY <2>1
    <3>3. DeletingAt(t, k)
      BY <1>4, <3>2 DEF DeletingAt, Stages
    <3>4. WithdrawnAt(t, k) /\ NameGone(t, k) /\ KilledAt(t, k) /\ EmptiedAt(t, k) /\ FilledAt(t, k)
      BY <3>1 DEF WithdrawnAt, NameGone, KilledAt, EmptiedAt, FilledAt, Uninstalling, Emptying
    <3> QED BY <3>1, <3>3, <3>4 DEF NewFit
  <2>2. CASE fs[k].op # "delete"
    <3>1. t[k] = fs[k] /\ t[k].op \in PlainOps /\ FrameFit(t[k])
      BY <1>4, <2>2
    <3> QED BY <3>1, PlainFrame
  <2> QED BY <2>1, <2>2
<1> QED BY <1>3, <1>5, <1>6, Quiet

\* Close of a factory's handle.
LEMMA CloseHandleKeeps ==
  ASSUME IInv, CallsBack \subseteq Survivable, NEW f \in Factories, CloseHandle(f)
  PROVE  IInv'
<1>1. /\ PluginCode("close") /\ f \in Live /\ Calls(Close(f))
      /\ UNCHANGED <<factories, closed, derive, hierarchy, population>> /\ UNCHANGED hooked
  BY DEF CloseHandle
<1>2. ctl = <<>> /\ hooked' \in BOOLEAN
  BY <1>1, CallsFrom DEF IInv, TypeOK
<1>3. f \notin closed
  BY <1>1, LiveFactories
<1>4. PICK x : x = Do("uninstall", f, None)
  OBVIOUS
<1>5. PICK y : y = Do("delete", f, None)
  OBVIOUS
<1>6. x \in Frame /\ FrameFit(x) /\ x.op = "uninstall" /\ x.f = f
  BY <1>3, <1>4, FactoryFrame DEF Leaving
<1>7. y \in Frame /\ FrameFit(y) /\ y.op = "delete" /\ y.f = f
  BY <1>3, <1>5, FactoryFrame
<1>8. PICK fs : fs = <<x, y>>
  OBVIOUS
<1>9. fs \in Seq(Frame) /\ Len(fs) = 2 /\ fs[1] = x /\ fs[2] = y
  BY <1>6, <1>7, <1>8, TwoFrames
<1>10. Calls(fs)
  BY <1>1, <1>4, <1>5, <1>8 DEF Close
<1> HIDE <1>8
<1>11. \A k \in 1..Len(fs) : k = 1 \/ k = 2
  BY <1>9
<1>12. 1 \in 1..Len(fs)
  BY <1>9
<1>13. Over("uninstall", "delete")
  BY Ranks DEF Over, Leaving
<1>14. \A j, k \in 1..Len(fs) : j < k => j = 1 /\ k = 2
  BY <1>11
<1>15. \A j, k \in 1..Len(fs) : j < k => Over(fs[j].op, fs[k].op)
  BY <1>6, <1>7, <1>9, <1>13, <1>14
<1>16. ASSUME NEW k \in 1..Len(fs)
       PROVE  /\ fs[k].op \in PlainOps \cup {"delete"} /\ fs[k].op # "onInstalled" /\ FrameFit(fs[k])
              /\ fs[k].op = "delete" =>
                   \E j \in 1..Len(fs) : fs[j].op = "uninstall" /\ fs[j].f = fs[k].f
  BY <1>6, <1>7, <1>9, <1>11, <1>12 DEF PlainOps
<1> QED BY <1>1, <1>2, <1>9, <1>10, <1>15, <1>16, PutsFirst

\* A frame about no factory and no entity.
LEMMA CloserFrame ==
  ASSUME IInv, NEW x, \/ \E op \in {"closeOwned", "closeAll"} : x = Do(op, None, None)
                      \/ \E p \in Plugins : x = CloseOwned(p)
                      \/ \E n \in Nat \ {0} : x = [Do("unloadAll", None, None) EXCEPT !.n = n]
  PROVE  /\ x \in Frame /\ FrameFit(x) /\ x.op \in Closers /\ x.op \in PlainOps
         /\ x.op # "onInstalled" /\ x.op # "delete" /\ x.op # "removeEntity"
<1>1. None \in 0..MaxFactories /\ None \in 0..MaxEntities
  BY ConstantsOK DEF None
<1>2. ASSUME NEW op \in Closers
      PROVE  /\ Do(op, None, None) \in Frame /\ Do(op, None, None).op = op
             /\ Do(op, None, None).f = None /\ Do(op, None, None).e = None
             /\ Do(op, None, None).es = {} /\ Do(op, None, None).fs = <<>>
  <2>1. op \in Ops
    BY DEF Ops, Closers
  <2> QED BY <1>1, <2>1, DoFrame
<1>3. /\ x \in Frame /\ x.op \in Closers /\ x.f = None /\ x.e = None /\ x.es = {} /\ x.fs = <<>>
      /\ (x.op = "unloadAll" => x.n >= 1)
  <2>1. CASE \E op \in {"closeOwned", "closeAll"} : x = Do(op, None, None)
    BY <1>2, <2>1 DEF Closers
  <2>2. CASE \E p \in Plugins : x = CloseOwned(p)
    <3>1. PICK p \in Plugins : x = CloseOwned(p)
      BY <2>2
    <3>2. PICK y : y = Do("closeOwned", None, None)
      OBVIOUS
    <3>3. y \in Frame /\ y.op = "closeOwned" /\ y.f = None /\ y.e = None /\ y.es = {} /\ y.fs = <<>>
      BY <1>2, <3>2 DEF Closers
    <3>4. x = [y EXCEPT !.p = p]
      BY <3>1, <3>2 DEF CloseOwned
    <3>5. x \in Frame /\ x.op = "closeOwned" /\ x.f = None /\ x.e = None /\ x.es = {} /\ x.fs = <<>>
      BY <3>3, <3>4 DEF Frame
    <3> QED BY <3>5 DEF Closers
  <2>3. CASE \E n \in Nat \ {0} : x = [Do("unloadAll", None, None) EXCEPT !.n = n]
    <3>1. PICK n \in Nat \ {0} : x = [Do("unloadAll", None, None) EXCEPT !.n = n]
      BY <2>3
    <3>2. PICK y : y = Do("unloadAll", None, None)
      OBVIOUS
    <3>3. y \in Frame /\ y.op = "unloadAll" /\ y.f = None /\ y.e = None /\ y.es = {} /\ y.fs = <<>>
      BY <1>2, <3>2 DEF Closers
    <3>4. x = [y EXCEPT !.n = n]
      BY <3>1, <3>2
    <3>5. x \in Frame /\ x.op = "unloadAll" /\ x.f = None /\ x.e = None /\ x.es = {} /\ x.fs = <<>> /\ x.n = n
      BY <3>3, <3>4 DEF Frame
    <3> QED BY <3>5 DEF Closers
  <2> QED BY <2>1, <2>2, <2>3
<1>4. FrameFit(x)
  BY <1>3, LiveFactories DEF FrameFit, Building, Destroying, Emptying, Leaving, Closers
<1>5. x.op \in PlainOps /\ x.op # "onInstalled" /\ x.op # "delete" /\ x.op # "removeEntity"
  BY <1>3 DEF PlainOps, Closers
<1> QED BY <1>3, <1>4, <1>5

\* Unload of the extension.
LEMMA ExtensionUnloadKeeps ==
  ASSUME IInv, ExtensionUnload
  PROVE  IInv'
<1>1. /\ ctl = <<>> /\ hooked' \in BOOLEAN
      /\ Calls(<<[Do("unloadAll", None, None) EXCEPT !.n = 1]>>)
      /\ UNCHANGED <<factories, closed, derive, hierarchy, population>>
  BY DEF ExtensionUnload
<1>2. PICK x : x = [Do("unloadAll", None, None) EXCEPT !.n = 1]
  OBVIOUS
<1>3. x \in Frame /\ FrameFit(x) /\ x.op \in PlainOps /\ x.op # "onInstalled" /\ x.op # "delete"
  <2>1. 1 \in Nat \ {0}
    OBVIOUS
  <2>2. \E n \in Nat \ {0} : x = [Do("unloadAll", None, None) EXCEPT !.n = n]
    BY <1>2, <2>1
  <2> QED BY <2>2, CloserFrame
<1>4. PICK fs : fs = <<x>>
  OBVIOUS
<1>5. fs \in Seq(Frame) /\ Len(fs) = 1 /\ fs[1] = x /\ Calls(fs)
  BY <1>1, <1>2, <1>3, <1>4, OneFrame
<1> HIDE <1>4
<1>6. \A k \in 1..Len(fs) : k = 1
  BY <1>5
<1> QED BY <1>1, <1>3, <1>5, <1>6, PutsFirst

\* An entity that there is and that was not removed.
LEMMA EntityFrame ==
  ASSUME IInv, NEW e \in 1..created, e \notin gone
  PROVE  LET x == Do("removeEntity", None, e) IN
         x \in Frame /\ x.op = "removeEntity" /\ x.e = e /\ FrameFit(x)
<1>1. PICK x : x = Do("removeEntity", None, e)
  OBVIOUS
<1>2. created \in 0..MaxEntities
  BY DEF IInv, TypeOK
<1>3. "removeEntity" \in Ops /\ None \in 0..MaxFactories /\ e \in 0..MaxEntities
  BY <1>2, ConstantsOK DEF Ops, None
<1>4. x \in Frame /\ x.op = "removeEntity" /\ x.f = None /\ x.e = e /\ x.es = {} /\ x.fs = <<>>
  BY <1>1, <1>3, DoFrame
<1>5. FrameFit(x)
  BY <1>4, LiveFactories DEF FrameFit, Building, Emptying, Leaving, Closers
<1> QED BY <1>1, <1>4, <1>5

\* The game removes an entity.
LEMMA RemoveEntityKeeps ==
  ASSUME IInv, NEW e \in Entities, RemoveEntity(e)
  PROVE  IInv'
<1>1. /\ ctl = <<>> /\ e <= created /\ e \notin killed /\ Calls(<<Do("removeEntity", None, e)>>)
      /\ UNCHANGED <<factories, closed, derive, hierarchy, population>> /\ UNCHANGED hooked
  BY DEF RemoveEntity
<1>2. hooked' \in BOOLEAN /\ created \in 0..MaxEntities /\ gone \subseteq killed
  BY <1>1 DEF IInv, TypeOK, Recorded
<1>3. e \in 1..created /\ e \notin gone
  BY <1>1, <1>2 DEF Entities
<1>4. PICK x : x = Do("removeEntity", None, e)
  OBVIOUS
<1>5. x \in Frame /\ x.op = "removeEntity" /\ FrameFit(x)
  BY <1>3, <1>4, EntityFrame
<1>6. PICK fs : fs = <<x>>
  OBVIOUS
<1>7. fs \in Seq(Frame) /\ Len(fs) = 1 /\ fs[1] = x /\ Calls(fs)
  BY <1>1, <1>4, <1>5, <1>6, OneFrame
<1> HIDE <1>6
<1>8. \A k \in 1..Len(fs) : k = 1
  BY <1>7
<1>9. x.op \in PlainOps /\ x.op # "onInstalled" /\ x.op # "delete"
  BY <1>5 DEF PlainOps
<1> QED BY <1>1, <1>2, <1>5, <1>7, <1>8, <1>9, PutsFirst

\* A step of the innermost call to other calls.
LEMMA Replaces ==
  ASSUME IInv, ctl # <<>>, NEW fs \in Seq(Frame), Becomes(fs),
         Top.op \notin {"onInstalled", "uninstall"} \cup Building \cup Destroying,
         Top.op \in Uninstalling =>
           \E k \in 1..Len(fs) : fs[k].op \in Uninstalling /\ fs[k].f = Top.f,
         \A j, k \in 1..Len(fs) : j < k => Over(fs[j].op, fs[k].op),
         \A k \in 1..Len(fs) : Lower(fs[k].op, Top.op) /\ fs[k].op # "onInstalled",
         \A k \in 1..Len(fs) : fs[k].op = "removeEntity" =>
           \A i \in Place : i > 1 => ctl[i].op # "removeEach",
         \A t : Puts(t, fs, 1) => \A k \in 1..Len(fs) : NewFit(t, k),
         UNCHANGED <<factories, closed, derive, hierarchy, population>>, hooked' \in BOOLEAN
  PROVE  IInv'
<1>1. TypeOK /\ Top = ctl[1]
  BY Runs
<1>2. PICK p \in {0, 1} : p = 1
  OBVIOUS
<1>3. PICK t : Puts(t, fs, p)
  BY <1>1, <1>2, BecomesPut
<1>4. OrderFit(t, fs, p) /\ InstallFit(t, fs, p)
  <2>1. Top.op \notin {"onInstalled"} \cup Building
    OBVIOUS
  <2> QED BY <1>2, <1>3, <2>1, ReplacesInOrder
<1>5. \A k \in 1..Len(fs) : t[k] = fs[k]
  BY <1>3 DEF Puts
<1>6. Passed(t, Len(fs), p)
  BY <1>1, <1>5 DEF Passed
<1>7. RemovalFit(t, fs, p)
  <2>1. ctl[1].op \notin {"destruct", "onEnd", "removeEntity"}
    BY <1>1 DEF Destroying
  <2> QED BY <1>2, <1>5, <2>1 DEF RemovalFit
<1>8. \A k \in 1..Len(fs) : NewFit(t, k)
  BY <1>2, <1>3
<1> QED BY <1>3, <1>4, <1>6, <1>7, <1>8, Quiet

\* One call in the place of another.
LEMMA ReplacesOne ==
  ASSUME IInv, ctl # <<>>, NEW x \in Frame, Becomes(<<x>>),
         Top.op \notin {"onInstalled", "uninstall"} \cup Building \cup Destroying,
         Top.op \in Uninstalling => x.op \in Uninstalling /\ x.f = Top.f,
         Lower(x.op, Top.op), x.op # "onInstalled", x.op # "removeEntity",
         \A t : t = ctl' /\ t[1] = x /\ (\A j \in 1..Len(t) : j = 1 \/ \E i \in Place : i > 1 /\ t[j] = ctl[i])
             => NewFit(t, 1),
         UNCHANGED <<factories, closed, derive, hierarchy, population>>, hooked' \in BOOLEAN
  PROVE  IInv'
<1>1. PICK fs : fs = <<x>>
  OBVIOUS
<1>2. fs \in Seq(Frame) /\ Len(fs) = 1 /\ fs[1] = x /\ Becomes(fs)
  BY <1>1, OneFrame
<1> HIDE <1>1
<1>3. \A k \in 1..Len(fs) : k = 1
  BY <1>2
<1>4. ASSUME NEW t, Puts(t, fs, 1), NEW k \in 1..Len(fs) PROVE NewFit(t, k)
  <2>1. t = ctl' /\ t[1] = x
    BY <1>2, <1>4 DEF Puts
  <2>2. \A j \in 1..Len(t) : j = 1 \/ \E i \in Place : i > 1 /\ t[j] = ctl[i]
    <3>1. TypeOK
      BY DEF IInv
    <3>2. \A j \in 1..Len(t) : j \in 1..Len(fs) \/ \E i \in Place : i > 1 /\ t[j] = ctl[i]
      BY <1>4, <3>1, OldPlaces
    <3> QED BY <1>3, <3>2
  <2> QED BY <1>3, <2>1, <2>2
<1>5. 1 \in 1..Len(fs)
  BY <1>2
<1>6. Top.op \in Uninstalling =>
        \E k \in 1..Len(fs) : fs[k].op \in Uninstalling /\ fs[k].f = Top.f
  BY <1>2, <1>5
<1>7. \A j, k \in 1..Len(fs) : j < k => Over(fs[j].op, fs[k].op)
  BY <1>3
<1>8. \A k \in 1..Len(fs) : Lower(fs[k].op, Top.op) /\ fs[k].op # "onInstalled"
  BY <1>2, <1>3
<1>9. \A k \in 1..Len(fs) : fs[k].op = "removeEntity" =>
           \A i \in Place : i > 1 => ctl[i].op # "removeEach"
  BY <1>2, <1>3
<1> QED BY <1>2, <1>4, <1>6, <1>7, <1>8, <1>9, Replaces

\* Two calls in the place of one.
LEMMA ReplacesTwo ==
  ASSUME IInv, ctl # <<>>, NEW x \in Frame, NEW y \in Frame, Becomes(<<x, y>>),
         Top.op \notin {"onInstalled", "uninstall"} \cup Building \cup Destroying,
         Top.op \in Uninstalling => y.op \in Uninstalling /\ y.f = Top.f,
         Over(x.op, y.op), Lower(x.op, Top.op), Lower(y.op, Top.op),
         x.op # "onInstalled", y.op # "onInstalled", y.op # "removeEntity",
         x.op = "removeEntity" => \A i \in Place : i > 1 => ctl[i].op # "removeEach",
         \A t : t = ctl' /\ t[1] = x /\ t[2] = y /\ 1 \in 1..Len(t) /\ 2 \in 1..Len(t)
                /\ (\A j \in 1..Len(t) : j = 1 \/ j = 2 \/ \E i \in Place : i > 1 /\ t[j] = ctl[i])
             => NewFit(t, 1) /\ NewFit(t, 2),
         UNCHANGED <<factories, closed, derive, hierarchy, population>>, hooked' \in BOOLEAN
  PROVE  IInv'
<1>1. PICK fs : fs = <<x, y>>
  OBVIOUS
<1>2. fs \in Seq(Frame) /\ Len(fs) = 2 /\ fs[1] = x /\ fs[2] = y /\ Becomes(fs)
  BY <1>1, TwoFrames
<1> HIDE <1>1
<1>3. \A k \in 1..Len(fs) : k = 1 \/ k = 2
  BY <1>2
<1>5. 1 \in 1..Len(fs) /\ 2 \in 1..Len(fs)
  BY <1>2
<1>4. ASSUME NEW t, Puts(t, fs, 1), NEW k \in 1..Len(fs) PROVE NewFit(t, k)
  <2>1. t = ctl' /\ t[1] = x /\ t[2] = y /\ 1 \in 1..Len(t) /\ 2 \in 1..Len(t)
    BY <1>2, <1>4, <1>5 DEF Puts
  <2>2. \A j \in 1..Len(t) : j = 1 \/ j = 2 \/ \E i \in Place : i > 1 /\ t[j] = ctl[i]
    <3>1. TypeOK
      BY DEF IInv
    <3>2. \A j \in 1..Len(t) : j \in 1..Len(fs) \/ \E i \in Place : i > 1 /\ t[j] = ctl[i]
      BY <1>4, <3>1, OldPlaces
    <3> QED BY <1>3, <3>2
  <2> QED BY <1>3, <2>1, <2>2
<1>6. Top.op \in Uninstalling =>
        \E k \in 1..Len(fs) : fs[k].op \in Uninstalling /\ fs[k].f = Top.f
  BY <1>2, <1>5
<1>7. \A j, k \in 1..Len(fs) : j < k => Over(fs[j].op, fs[k].op)
  <2>1. \A j, k \in 1..Len(fs) : j < k => j = 1 /\ k = 2
    BY <1>3
  <2> QED BY <1>2, <2>1
<1>8. \A k \in 1..Len(fs) : Lower(fs[k].op, Top.op) /\ fs[k].op # "onInstalled"
  BY <1>2, <1>3
<1>9. \A k \in 1..Len(fs) : fs[k].op = "removeEntity" =>
           \A i \in Place : i > 1 => ctl[i].op # "removeEach"
  BY <1>2, <1>3
<1> QED BY <1>2, <1>4, <1>6, <1>7, <1>8, <1>9, Replaces

\* An uninstall that has gone through all derived factories.
LEMMA ChildrenDone ==
  ASSUME IInv, ctl # <<>>, Top.op = "children"
  PROVE  /\ Top.f \in Factories /\ Top.f \notin closed /\ count[Top.f] <= Top.n
         /\ Top.n <= Len(slots[Top.f]) /\ slots[Top.f] \in Seq(Factories)
         /\ \A i \in 1..Top.n : slots[Top.f][i] \notin closed
         /\ \A c \in Classnames : dict[c] # Top.f
<1>1. Top = ctl[1] /\ 1 \in Place /\ TypeOK /\ FrameFit(Top) /\ Top.n \in Nat
  BY Runs
<1>2. WithdrawnAt(ctl, 1) /\ NameGone(ctl, 1)
  BY <1>1 DEF IInv, Withdrawn, Named
<1>3. Top.f \in Factories /\ Top.f \notin closed
  BY <1>1 DEF FrameFit, Leaving
<1>4. slots[Top.f] \in Seq(Factories) /\ count[Top.f] \in Nat
  BY <1>1, <1>3 DEF TypeOK
<1>5. ~(count[Top.f] > Top.n)
  <2>1. ~(\E j \in 1..Len(ctl) : j < 1 /\ ctl[j].op \in Stages
                                 /\ ctl[j].f = slots[ctl[1].f][ctl[1].n + 1])
    OBVIOUS
  <2> QED BY <1>1, <1>2, <2>1 DEF WithdrawnAt
<1>6. Top.n <= Len(slots[Top.f]) /\ \A i \in 1..Top.n : slots[Top.f][i] \notin closed
  BY <1>1, <1>2 DEF WithdrawnAt
<1>7. \A c \in Classnames : dict[c] # Top.f
  BY <1>1, <1>2 DEF NameGone, Uninstalling
<1> QED BY <1>1, <1>3, <1>4, <1>5, <1>6, <1>7

\* The loop over the derived factories.
LEMMA UninstallChildrenKeeps ==
  ASSUME IInv, UninstallChildren
  PROVE  IInv'
<1>1. /\ ctl # <<>> /\ Top.op = "children"
      /\ UNCHANGED <<factories, closed, derive, hierarchy, population>> /\ UNCHANGED hooked
  BY DEF UninstallChildren, Running
<1>2. hooked' \in BOOLEAN
  BY <1>1 DEF IInv, TypeOK
<1>3. PICK f : f = Top.f
  OBVIOUS
<1>4. PICK n : n = Top.n
  OBVIOUS
<1>5. /\ f \in Factories /\ f \notin closed /\ count[f] <= n /\ n <= Len(slots[f])
      /\ slots[f] \in Seq(Factories) /\ \A i \in 1..n : slots[f][i] \notin closed
      /\ \A c \in Classnames : dict[c] # f
  BY <1>1, <1>3, <1>4, ChildrenDone
<1>6. n \in Nat /\ count[f] \in Nat
  <2>1. TypeOK /\ Top.n \in Nat
    BY <1>1, Runs
  <2> QED BY <1>4, <1>5, <2>1 DEF TypeOK
<1>7. Top.op \notin {"onInstalled", "uninstall"} \cup Building \cup Destroying
  BY <1>1 DEF Building, Destroying
<1>8. CASE n = 0
  <2>1. Becomes(<<Do("removeAll", f, None)>>)
    BY <1>3, <1>4, <1>8 DEF UninstallChildren, AfterChildren
  <2>2. PICK x : x = Do("removeAll", f, None)
    OBVIOUS
  <2>3. x \in Frame /\ FrameFit(x) /\ x.op = "removeAll" /\ x.f = f
    BY <1>5, <2>2, FactoryFrame DEF Emptying
  <2>4. Lower("removeAll", "children")
    BY Ranks DEF Lower, Emptying, Leaving
  <2>5. Top.op \in Uninstalling => x.op \in Uninstalling /\ x.f = Top.f
    BY <1>3, <2>3 DEF Uninstalling, Emptying
  <2>6. ASSUME NEW t, t[1] = x PROVE NewFit(t, 1)
    <3>1. count[f] = 0
      BY <1>5, <1>6, <1>8
    <3>2. WithdrawnAt(t, 1)
      BY <2>3, <2>6, <3>1 DEF WithdrawnAt, Emptying
    <3>3. NameGone(t, 1)
      BY <1>5, <2>3, <2>6 DEF NameGone
    <3>4. DeletingAt(t, 1) /\ KilledAt(t, 1) /\ EmptiedAt(t, 1) /\ FilledAt(t, 1)
      BY <2>3, <2>6 DEF DeletingAt, KilledAt, EmptiedAt, FilledAt
    <3> QED BY <2>3, <2>6, <3>2, <3>3, <3>4 DEF NewFit
  <2>7. Becomes(<<x>>)
    BY <2>1, <2>2
  <2>8. Lower(x.op, Top.op) /\ x.op # "onInstalled" /\ x.op # "removeEntity"
    BY <1>1, <2>3, <2>4
  <2> HIDE <2>2
  <2> QED BY <1>1, <1>2, <1>7, <2>3, <2>5, <2>6, <2>7, <2>8, ReplacesOne
<1>9. CASE n # 0
  <2>1. Becomes(<<Do("uninstall", slots[f][n], None), ChildrenFrom(f, n - 1)>>)
    BY <1>3, <1>4, <1>9 DEF UninstallChildren
  <2>2. PICK g : g = slots[f][n]
    OBVIOUS
  <2>3. g \in Factories /\ g \notin closed
    <3>1. n \in 1..n /\ n \in 1..Len(slots[f])
      BY <1>5, <1>6, <1>9
    <3> QED BY <1>5, <2>2, <3>1
  <2>4. PICK x : x = Do("uninstall", g, None)
    OBVIOUS
  <2>5. x \in Frame /\ FrameFit(x) /\ x.op = "uninstall" /\ x.f = g
    BY <2>3, <2>4, FactoryFrame DEF Leaving
  <2>6. PICK y : y = ChildrenFrom(f, n - 1)
    OBVIOUS
  <2>7. PICK m : m = n - 1
    OBVIOUS
  <2>8. m \in Nat /\ m + 1 = n /\ m < n
    BY <1>6, <1>9, <2>7
  <2>9. y \in Frame /\ FrameFit(y) /\ y.op = "children" /\ y.f = f /\ y.n = m
    <3>1. PICK z : z = Do("children", f, None)
      OBVIOUS
    <3>2. z \in Frame /\ FrameFit(z) /\ z.op = "children" /\ z.f = f
      BY <1>5, <3>1, FactoryFrame DEF Leaving
    <3>3. y = [z EXCEPT !.n = m]
      BY <2>6, <2>7, <3>1 DEF ChildrenFrom
    <3>4. /\ y \in Frame /\ y.op = z.op /\ y.f = z.f /\ y.n = m /\ y.e = z.e /\ y.es = z.es
          /\ y.fs = z.fs
      BY <2>8, <3>2, <3>3 DEF Frame
    <3>5. FrameFit(y)
      BY <3>2, <3>4 DEF FrameFit
    <3> QED BY <3>2, <3>4, <3>5
  <2>10. Becomes(<<x, y>>)
    BY <2>1, <2>2, <2>4, <2>6
  <2>11. Top.op \in Uninstalling => y.op \in Uninstalling /\ y.f = Top.f
    BY <1>3, <2>9 DEF Uninstalling
  <2>12. Over(x.op, y.op) /\ Lower(x.op, Top.op) /\ Lower(y.op, Top.op)
    BY <1>1, <2>5, <2>9, Ranks DEF Over, Lower, Leaving
  <2>13. ASSUME NEW t, t[1] = x, t[2] = y, 1 \in 1..Len(t) PROVE NewFit(t, 1) /\ NewFit(t, 2)
    <3>1. NewFit(t, 1)
      BY <2>5, <2>13, PlainFrame DEF PlainOps
    <3>2. WithdrawnAt(t, 2)
      <4>1. m <= Len(slots[f])
        <5>1. Len(slots[f]) \in Nat
          BY <1>5
        <5> QED BY <1>5, <1>6, <2>8, <5>1
      <4>2. \A i \in 1..m : slots[f][i] \notin closed
        <5>1. \A i \in 1..m : i \in 1..n
          BY <1>6, <2>8
        <5> QED BY <1>5, <5>1
      <4>3. count[f] > m => count[f] = m + 1
        BY <1>5, <1>6, <2>8
      <4>4. t[1].op \in Stages /\ t[1].f = slots[f][m + 1]
        BY <2>2, <2>5, <2>8, <2>13 DEF Stages
      <4>5. t[2].op \notin Emptying
        BY <2>9, <2>13 DEF Emptying
      <4> QED BY <2>9, <2>13, <4>1, <4>2, <4>3, <4>4, <4>5 DEF WithdrawnAt
    <3>3. NameGone(t, 2)
      BY <1>5, <2>9, <2>13 DEF NameGone
    <3>4. DeletingAt(t, 2) /\ KilledAt(t, 2) /\ EmptiedAt(t, 2) /\ FilledAt(t, 2)
      BY <2>9, <2>13 DEF DeletingAt, KilledAt, EmptiedAt, FilledAt
    <3> QED BY <2>9, <2>13, <3>1, <3>2, <3>3, <3>4 DEF NewFit
  <2>14. x.op # "onInstalled" /\ y.op # "onInstalled" /\ y.op # "removeEntity" /\ x.op # "removeEntity"
    BY <2>5, <2>9
  <2> HIDE <2>2, <2>4, <2>6, <2>7
  <2> QED BY <1>1, <1>2, <1>7, <2>5, <2>9, <2>10, <2>11, <2>12, <2>13, <2>14, ReplacesTwo
<1> QED BY <1>8, <1>9

\* No construction or removal is below a call that empties a factory.
LEMMA AloneEmptying ==
  ASSUME IInv, ctl # <<>>, Top.op \in Emptying, NEW i \in Place, i > 1
  PROVE  ctl[i].op \in Leaving \cup {"delete"} \cup Closers
<1>1. Over(Top.op, ctl[i].op) /\ Top = ctl[1] /\ TypeOK /\ Ordered
  BY Runs DEF IInv
<1>2. ctl[i].op \in Ops
  BY <1>1, OverOld
<1>3. ctl[i].op \in Building \cup {"onRemove"} \cup Destroying \cup Emptying \cup Leaving \cup {"delete"} \cup Closers
  BY <1>2 DEF Ops, Callbacks, Building, Destroying, Emptying, Leaving, Closers
<1>4. Rank(Top.op) = 3 /\ Top.op \notin Building \cup Leaving
  BY Ranks DEF Emptying, Building, Leaving
<1>5. Rank(ctl[i].op) # 3 /\ ~(Rank(ctl[i].op) < 3)
  BY <1>1, <1>2, <1>4, RankNumbers DEF Over
<1>6. ctl[i].op \notin Building \cup {"onRemove"} \cup Destroying \cup Emptying
  BY <1>5, Ranks
<1> QED BY <1>3, <1>6

\* What a call that empties a factory knows.
LEMMA EmptyingKnows ==
  ASSUME IInv, ctl # <<>>, Top.op \in Emptying
  PROVE  /\ Top.f \in Factories /\ Top.f \notin closed /\ Top.f # None /\ count[Top.f] = 0
         /\ \A c \in Classnames : dict[c] # Top.f
         /\ Top.op \notin {"onInstalled", "uninstall"} \cup Building \cup Destroying
         /\ Top.op \in Uninstalling /\ EmptiedAt(ctl, 1) /\ Top = ctl[1]
         /\ \A i \in Place : i > 1 =>
              ctl[i].op \notin {"removeEntity", "destruct", "onEnd", "removeEach", "construct", "onRemove"}
         /\ \A e \in Entities : ~(e \in killed /\ record[e] = Top.f)
         /\ \A e \in Entities : record[e] = Top.f => e \in 1..created /\ e \notin gone
<1>1. Top = ctl[1] /\ 1 \in Place /\ TypeOK /\ FrameFit(Top) /\ Len(ctl) \in Nat
  BY Runs
<1>2. WithdrawnAt(ctl, 1) /\ NameGone(ctl, 1) /\ EmptiedAt(ctl, 1) /\ Recorded
  BY <1>1 DEF IInv, Withdrawn, Named, Emptied
<1>3. Top.f \in Factories /\ Top.f \notin closed
  BY <1>1 DEF FrameFit
<1>4. Top.f # None
  BY <1>3 DEF Factories, None
<1>5. count[Top.f] = 0 /\ \A c \in Classnames : dict[c] # Top.f
  BY <1>1, <1>2 DEF WithdrawnAt, NameGone, Uninstalling
<1>6. Top.op \notin {"onInstalled", "uninstall"} \cup Building \cup Destroying /\ Top.op \in Uninstalling
  BY DEF Building, Destroying, Emptying, Uninstalling
<1>7. \A i \in Place : i > 1 =>
         ctl[i].op \notin {"removeEntity", "destruct", "onEnd", "removeEach", "construct", "onRemove"}
  <2>1. \A i \in Place : i > 1 => ctl[i].op \in Leaving \cup {"delete"} \cup Closers
    BY AloneEmptying
  <2> QED BY <2>1 DEF Leaving, Closers
<1>8. \A i \in Place : ctl[i].op # "destruct"
  <2>1. \A i \in Place : i > 1 \/ i = 1
    BY <1>1 DEF Place
  <2>2. Top.op # "destruct"
    BY DEF Emptying
  <2> QED BY <1>1, <1>7, <2>1, <2>2
<1>9. \A e \in Entities : ~(e \in killed /\ record[e] = Top.f)
  <2>1. \A e \in Entities : KilledKnown(ctl, e)
    BY <1>2 DEF Recorded
  <2> QED BY <1>4, <1>8, <2>1 DEF KilledKnown, Place
<1>10. ASSUME NEW e \in Entities, record[e] = Top.f PROVE e \in 1..created /\ e \notin gone
  <2>1. RecordFits(e)
    BY <1>2 DEF Recorded
  <2>2. created \in 0..MaxEntities /\ MaxEntities \in Nat
    BY <1>1, ConstantsOK DEF TypeOK
  <2> QED BY <1>4, <1>10, <2>1, <2>2 DEF RecordFits, Entities
<1> QED BY <1>1, <1>2, <1>3, <1>4, <1>5, <1>6, <1>7, <1>9, <1>10

\* A frame of the call that removes the entities es of a factory.
LEMMA EmptyingFrame ==
  ASSUME IInv, ctl # <<>>, Top.op \in Emptying, NEW es \in SUBSET Entities,
         NEW x, x = [Do("removeEach", Top.f, None) EXCEPT !.es = es]
  PROVE  /\ x \in Frame /\ x.op = "removeEach" /\ x.f = Top.f /\ x.es = es /\ FrameFit(x)
<1>1. Top.f \in Factories /\ Top.f \notin closed
  BY EmptyingKnows
<1>2. "removeEach" \in Ops /\ Top.f \in 0..MaxFactories /\ None \in 0..MaxEntities
  BY <1>1, ConstantsOK DEF Ops, Factories, None
<1>3. PICK y : y = Do("removeEach", Top.f, None)
  OBVIOUS
<1>4. y \in Frame /\ y.op = "removeEach" /\ y.f = Top.f /\ y.e = None /\ y.es = {} /\ y.fs = <<>>
  BY <1>2, <1>3, DoFrame
<1>5. x \in Frame /\ x.op = "removeEach" /\ x.f = Top.f /\ x.e = None /\ x.es = es /\ x.fs = <<>>
  BY <1>3, <1>4 DEF Frame
<1>6. "removeEach" \notin Building \cup {"onRemove"} \cup Destroying \cup Closers \cup {"unloadAll"} /\ "removeEach" \in Emptying
  BY DEF Building, Destroying, Closers, Emptying
<1>7. FrameFit(x)
  BY <1>1, <1>5, <1>6, LiveFactories DEF FrameFit, Closers, Destroying
<1> QED BY <1>5, <1>7

\* ... fits, as does one that detaches it.
LEMMA EmptyingFits ==
  ASSUME IInv, ctl # <<>>, Top.op \in Emptying, NEW t, NEW k, t[k].op \in {"removeEach", "detach"},
         FrameFit(t[k]), t[k].f = Top.f, EmptiedAt(t, k)
  PROVE  NewFit(t, k)
<1>1. count[Top.f] = 0 /\ \A c \in Classnames : dict[c] # Top.f
  BY EmptyingKnows
<1>2. t[k].op \notin {"children", "delete", "destruct", "onEnd", "construct"}
  OBVIOUS
<1>3. WithdrawnAt(t, k) /\ NameGone(t, k) /\ DeletingAt(t, k) /\ KilledAt(t, k) /\ FilledAt(t, k)
  BY <1>1, <1>2 DEF WithdrawnAt, NameGone, DeletingAt, KilledAt, FilledAt
<1> QED BY <1>3 DEF NewFit

\* RemoveAllEntities lists the entities that have a record of the factory.
LEMMA RemoveAllEntitiesKeeps ==
  ASSUME IInv, RemoveAllEntities
  PROVE  IInv'
<1>1. /\ ctl # <<>> /\ Top.op = "removeAll"
      /\ Becomes(<<[Do("removeEach", Top.f, None) EXCEPT !.es = GetEntities(Top.f)]>>)
      /\ UNCHANGED <<factories, closed, derive, hierarchy, population>> /\ UNCHANGED hooked
  BY DEF RemoveAllEntities, Running
<1>2. hooked' \in BOOLEAN /\ Top.op \in Emptying
  BY <1>1 DEF IInv, TypeOK, Emptying
<1>3. PICK es : es = GetEntities(Top.f)
  OBVIOUS
<1>4. PICK x : x = [Do("removeEach", Top.f, None) EXCEPT !.es = es]
  OBVIOUS
<1>5. es \in SUBSET Entities /\ es = {e \in Entities : record[e] = Top.f}
  BY <1>3 DEF GetEntities
<1>6. x \in Frame /\ x.op = "removeEach" /\ x.f = Top.f /\ x.es = es /\ FrameFit(x)
  <2>1. ctl # <<>> /\ Top.op \in Emptying /\ es \in SUBSET Entities
    BY <1>1, <1>2, <1>5
  <2> QED BY <1>4, <2>1, EmptyingFrame
<1>7. ASSUME NEW t, t = ctl', t[1] = x,
             \A j \in 1..Len(t) : j = 1 \/ \E i \in Place : i > 1 /\ t[j] = ctl[i]
      PROVE  NewFit(t, 1)
  <2>1. es \cap killed = {}
    BY <1>1, <1>2, <1>5, EmptyingKnows
  <2>2. \A j \in 1..Len(t) : t[j].op # "removeEntity"
    BY <1>1, <1>2, <1>6, <1>7, EmptyingKnows
  <2>3. \A e \in Entities : ~(record[e] = Top.f /\ e \notin es)
    BY <1>5
  <2>4. EmptiedAt(t, 1)
    BY <1>5, <1>6, <1>7, <2>1, <2>2, <2>3 DEF EmptiedAt
  <2> QED BY <1>1, <1>2, <1>6, <1>7, <2>4, EmptyingFits
<1>8. Top.op \notin {"onInstalled", "uninstall"} \cup Building \cup Destroying /\ x.op \in Uninstalling
  BY <1>1, <1>2, <1>6, EmptyingKnows DEF Uninstalling, Emptying
<1>9. Lower(x.op, Top.op) /\ x.op # "onInstalled" /\ x.op # "removeEntity"
  BY <1>1, <1>6, Ranks DEF Lower, Emptying, Building, Leaving
<1>10. Becomes(<<x>>)
  BY <1>1, <1>3, <1>4
<1> HIDE <1>3, <1>4
<1> QED BY <1>1, <1>2, <1>6, <1>7, <1>8, <1>9, <1>10, ReplacesOne

\* All entities are gone: the factory leaves the hierarchy next.
LEMMA RemovedAll ==
  ASSUME IInv, RemoveEach, Top.es = {}
  PROVE  IInv'
<1>1. /\ ctl # <<>> /\ Top.op = "removeEach" /\ Becomes(<<Do("detach", Top.f, None)>>)
      /\ UNCHANGED <<factories, closed, derive, hierarchy, population>> /\ UNCHANGED hooked
  BY DEF RemoveEach, Running
<1>2. hooked' \in BOOLEAN /\ Top.op \in Emptying
  BY <1>1 DEF IInv, TypeOK, Emptying
<1>3. PICK x : x = Do("detach", Top.f, None)
  OBVIOUS
<1>4. Top.f \in Factories /\ Top.f \notin closed /\ EmptiedAt(ctl, 1) /\ Top = ctl[1]
      /\ Top.op \notin {"onInstalled", "uninstall"} \cup Building \cup Destroying
      /\ \A i \in Place : i > 1 => ctl[i].op \notin {"removeEntity", "destruct"}
  BY <1>1, <1>2, EmptyingKnows
<1>5. x \in Frame /\ x.op = "detach" /\ x.f = Top.f /\ FrameFit(x)
  BY <1>3, <1>4, FactoryFrame DEF Emptying
<1>6. \A e \in Entities : record[e] # Top.f
  <2> SUFFICES ASSUME NEW e \in Entities, record[e] = Top.f PROVE FALSE
    OBVIOUS
  <2>1. \E j \in Place : ctl[j].op \in {"removeEntity", "destruct"} /\ ctl[j].e = e
    BY <1>1, <1>4 DEF EmptiedAt, Place
  <2>2. PICK j \in Place : ctl[j].op \in {"removeEntity", "destruct"}
    BY <2>1
  <2>3. j = 1
    <3>1. Len(ctl) \in Nat
      BY <1>1, Runs
    <3> QED BY <1>4, <2>2, <3>1 DEF Place
  <2> QED BY <1>1, <1>4, <2>2, <2>3
<1>7. ASSUME NEW t, t[1] = x PROVE NewFit(t, 1)
  <2>1. EmptiedAt(t, 1)
    BY <1>5, <1>6, <1>7 DEF EmptiedAt
  <2> QED BY <1>1, <1>2, <1>5, <1>7, <2>1, EmptyingFits
<1>8. x.op \in Uninstalling /\ x.op # "onInstalled" /\ x.op # "removeEntity"
  BY <1>5 DEF Uninstalling, Emptying
<1>9. Lower(x.op, Top.op)
  BY <1>1, <1>5, Ranks DEF Lower, Emptying, Building, Leaving
<1>10. Becomes(<<x>>)
  BY <1>1, <1>3
<1> HIDE <1>3
<1> QED BY <1>1, <1>2, <1>4, <1>5, <1>7, <1>8, <1>9, <1>10, ReplacesOne

\* RemoveEntityImmediate on the next of the entities.
LEMMA RemovesNext ==
  ASSUME IInv, RemoveEach, Top.es # {}
  PROVE  IInv'
<1>1. /\ ctl # <<>> /\ Top.op = "removeEach"
      /\ UNCHANGED <<factories, closed, derive, hierarchy, population>> /\ UNCHANGED hooked
  BY DEF RemoveEach, Running
<1>2. PICK e \in Top.es : Becomes(<<Do("removeEntity", None, e), [Top EXCEPT !.es = Remaining(@, e)]>>)
  BY DEF RemoveEach
<1>3. hooked' \in BOOLEAN /\ Top.op \in Emptying /\ Top.es \in SUBSET Entities /\ Top \in Frame
      /\ FrameFit(Top)
  BY <1>1, Runs DEF IInv, TypeOK, Emptying
<1>4. /\ Top.f \in Factories /\ Top.f \notin closed /\ EmptiedAt(ctl, 1) /\ Top = ctl[1]
      /\ Top.op \notin {"onInstalled", "uninstall"} \cup Building \cup Destroying
      /\ \A i \in Place : i > 1 => ctl[i].op \notin {"removeEntity", "destruct", "removeEach"}
      /\ \A d \in Entities : record[d] = Top.f => d \in 1..created /\ d \notin gone
  BY <1>1, <1>3, EmptyingKnows
<1>5. /\ Top.es \cap killed = {} /\ \A d \in Top.es : record[d] = Top.f
      /\ \A d \in Entities : record[d] = Top.f => d \in Top.es
  <2>1. \A d \in Entities : record[d] = Top.f /\ d \notin Top.es =>
          \E j \in Place : ctl[j].op \in {"removeEntity", "destruct"} /\ ctl[j].e = d
    BY <1>1, <1>4 DEF EmptiedAt, Place
  <2>2. \A j \in Place : j > 1 \/ j = 1
    <3>1. Len(ctl) \in Nat
      BY <1>1, Runs
    <3> QED BY <3>1 DEF Place
  <2>3. \A j \in Place : ctl[j].op \notin {"removeEntity", "destruct"}
    BY <1>1, <1>4, <2>2
  <2> QED BY <1>1, <1>4, <2>1, <2>3 DEF EmptiedAt
<1>6. e \in 1..created /\ e \notin gone /\ e \in Entities
  BY <1>3, <1>4, <1>5
<1>7. PICK x : x = Do("removeEntity", None, e)
  OBVIOUS
<1>8. x \in Frame /\ x.op = "removeEntity" /\ x.e = e /\ FrameFit(x)
  BY <1>6, <1>7, EntityFrame
<1>9. PICK es : es = Top.es \ {e}
  OBVIOUS
<1>10. PICK y : y = [Top EXCEPT !.es = es]
  OBVIOUS
<1>11. /\ y \in Frame /\ y.op = "removeEach" /\ y.f = Top.f /\ y.es = es /\ y.e = Top.e /\ y.fs = Top.fs
       /\ y.n = Top.n /\ es \in SUBSET Entities
  BY <1>1, <1>3, <1>9, <1>10 DEF Frame
<1>12. FrameFit(y)
  BY <1>1, <1>3, <1>11 DEF FrameFit
<1>13. ASSUME NEW t, t[1] = x, t[2] = y, 1 \in 1..Len(t),
              \A j \in 1..Len(t) : j = 1 \/ j = 2 \/ \E i \in Place : i > 1 /\ t[j] = ctl[i]
       PROVE  NewFit(t, 1) /\ NewFit(t, 2)
  <2>1. NewFit(t, 1)
    BY <1>8, <1>13, PlainFrame DEF PlainOps
  <2>2. es \cap killed = {} /\ \A d \in es : record[d] = Top.f
    BY <1>5, <1>9
  <2>3. \A d \in Entities : record[d] = Top.f /\ d \notin es => d = e
    BY <1>5, <1>9
  <2>4. t[1].op \in {"removeEntity", "destruct"} /\ t[1].e = e
    BY <1>8, <1>13
  <2>5. \A j \in 1..Len(t) : t[j].op = "removeEntity" => t[j].e \notin es
    <3>1. \A j \in 1..Len(t) : t[j].op = "removeEntity" => j = 1
      BY <1>4, <1>11, <1>13
    <3> QED BY <1>9, <2>4, <3>1
  <2>6. EmptiedAt(t, 2)
    BY <1>11, <1>13, <2>2, <2>3, <2>4, <2>5 DEF EmptiedAt
  <2> QED BY <1>1, <1>3, <1>11, <1>12, <1>13, <2>1, <2>6, EmptyingFits
<1>14. y.op \in Uninstalling /\ y.op # "onInstalled" /\ y.op # "removeEntity" /\ x.op # "onInstalled"
  BY <1>8, <1>11 DEF Uninstalling, Emptying
<1>15. Over(x.op, y.op) /\ Lower(x.op, Top.op) /\ Lower(y.op, Top.op)
  BY <1>1, <1>8, <1>11, Ranks DEF Over, Lower, Destroying, Emptying, Building, Leaving
<1>16. Becomes(<<x, y>>)
  BY <1>2, <1>7, <1>9, <1>10 DEF Remaining
<1> HIDE <1>7, <1>9, <1>10
<1> QED BY <1>1, <1>3, <1>4, <1>8, <1>11, <1>13, <1>14, <1>15, <1>16, ReplacesTwo

\* RemoveEach.
LEMMA RemoveEachKeeps ==
  ASSUME IInv, RemoveEach
  PROVE  IInv'
BY RemovedAll, RemovesNext

\* OnRemove, on the factory and on its base.
LEMMA OnRemoveKeeps ==
  ASSUME IInv, OnRemove
  PROVE  IInv'
<1>1. /\ ctl # <<>> /\ Top.op = "onRemove"
      /\ UNCHANGED <<factories, closed, derive, hierarchy, population>> /\ UNCHANGED hooked
  BY DEF OnRemove, Running
<1>2. hooked' \in BOOLEAN
  BY <1>1 DEF IInv, TypeOK
<1>3. PICK b : b = ToPlugin(base[Top.f])
  OBVIOUS
<1>4. CASE b = None
  <2>1. Becomes(<<>>)
    BY <1>3, <1>4 DEF OnRemove
  <2>2. Top.op \notin Uninstalling \cup {"destruct", "onEnd"} /\ Top.op # "uninstall"
        /\ Top.op # "removeEntity"
    BY <1>1 DEF Uninstalling, Emptying
  <2> QED BY <1>1, <1>2, <2>1, <2>2, Pops
<1>5. CASE b # None
  <2>1. Becomes(<<Do("onRemove", b, Top.e)>>)
    BY <1>3, <1>5 DEF OnRemove
  <2>2. b \in Factories /\ b \notin closed
    BY <1>3, <1>5, LiveFactories DEF ToPlugin
  <2>3. Top.e \in 1..created /\ Top.e \notin gone /\ Top.e \in 0..MaxEntities
    BY <1>1, Runs DEF FrameFit
  <2>4. PICK x : x = Do("onRemove", b, Top.e)
    OBVIOUS
  <2>5. x \in Frame /\ x.op = "onRemove" /\ x.f = b /\ x.e = Top.e /\ x.es = {} /\ x.fs = <<>>
    <3>1. "onRemove" \in Ops /\ b \in 0..MaxFactories
      BY <2>2, ConstantsOK DEF Ops, Callbacks, Factories
    <3> QED BY <2>3, <2>4, <3>1, DoFrame
  <2>6. FrameFit(x)
    BY <2>2, <2>3, <2>5 DEF FrameFit, Building, Destroying, Emptying, Leaving, Closers
  <2>7. /\ Top.op \notin {"onInstalled", "uninstall"} \cup Building \cup Destroying
        /\ Top.op \notin Uninstalling /\ x.op \in PlainOps
    BY <1>1, <2>5 DEF Building, Destroying, Uninstalling, Emptying, PlainOps
  <2>8. ASSUME NEW t, t[1] = x PROVE NewFit(t, 1)
    BY <2>6, <2>7, <2>8, PlainFrame
  <2>9. Lower(x.op, Top.op) /\ x.op # "onInstalled" /\ x.op # "removeEntity"
    BY <1>1, <2>5 DEF Lower, Building, Leaving
  <2>10. Becomes(<<x>>)
    BY <2>1, <2>4
  <2> HIDE <2>4
  <2> QED BY <1>1, <1>2, <2>5, <2>7, <2>8, <2>9, <2>10, ReplacesOne
<1> QED BY <1>4, <1>5

\* A call that closes handles ends.
LEMMA CloserReturns ==
  ASSUME IInv, ctl # <<>>, Top.op \in Closers, Becomes(<<>>),
         UNCHANGED <<factories, closed, derive, hierarchy, population>>, UNCHANGED hooked
  PROVE  IInv'
<1>1. hooked' \in BOOLEAN
  BY DEF IInv, TypeOK
<1>2. /\ Top.op \notin Uninstalling \cup {"destruct", "onEnd"}
      /\ Top.op # "uninstall" /\ Top.op # "removeEntity"
  BY DEF Uninstalling, Emptying, Closers
<1> QED BY <1>1, <1>2, Pops

\* A call that closes handles closes the next.
LEMMA ClosesNext ==
  ASSUME IInv, ctl # <<>>, Top.op \in Closers, NEW f \in Live, Becomes(Close(f) \o <<Top>>),
         UNCHANGED <<factories, closed, derive, hierarchy, population>>, UNCHANGED hooked
  PROVE  IInv'
<1>1. hooked' \in BOOLEAN /\ Top = ctl[1] /\ Top \in Frame /\ FrameFit(Top) /\ TypeOK
  BY Runs DEF TypeOK
<1>2. f \in Factories /\ f \notin closed
  BY LiveFactories
<1>3. PICK x : x = Do("uninstall", f, None)
  OBVIOUS
<1>4. PICK y : y = Do("delete", f, None)
  OBVIOUS
<1>5. x \in Frame /\ FrameFit(x) /\ x.op = "uninstall" /\ x.f = f
  BY <1>2, <1>3, FactoryFrame DEF Leaving
<1>6. y \in Frame /\ FrameFit(y) /\ y.op = "delete" /\ y.f = f
  BY <1>2, <1>4, FactoryFrame
<1>7. PICK z \in Frame : z = Top
  BY <1>1
<1>8. PICK fs : fs = <<x, y>> \o <<z>>
  OBVIOUS
<1>9. fs \in Seq(Frame) /\ Len(fs) = 3 /\ fs[1] = x /\ fs[2] = y /\ fs[3] = z
  BY <1>5, <1>6, <1>7, <1>8, ThreeFrames
<1>10. Becomes(fs)
  BY <1>3, <1>4, <1>7, <1>8 DEF Close
<1> HIDE <1>3, <1>4, <1>8
<1>11. /\ z.op \in Closers /\ FrameFit(z)
       /\ z.op \notin {"onInstalled", "uninstall", "removeEntity", "delete"} \cup Building \cup Destroying
       /\ z.op \notin Uninstalling /\ z.op \in PlainOps
  BY <1>1, <1>7 DEF Building, Destroying, Uninstalling, Emptying, PlainOps, Closers
<1>12. \A k \in 1..Len(fs) : k = 1 \/ k = 2 \/ k = 3
  BY <1>9
<1>13. \A j, k \in 1..Len(fs) : j < k => (j = 1 /\ k \in {2, 3}) \/ (j = 2 /\ k = 3)
  BY <1>12
<1>14. /\ Over("uninstall", "delete") /\ Over("uninstall", z.op) /\ Over("delete", z.op)
       /\ Lower("uninstall", z.op) /\ Lower("delete", z.op) /\ Lower(z.op, z.op)
  BY <1>11, Ranks DEF Over, Lower, Leaving, Building, Closers
<1>15. \A j, k \in 1..Len(fs) : j < k => Over(fs[j].op, fs[k].op)
  BY <1>5, <1>6, <1>9, <1>13, <1>14
<1>16. \A k \in 1..Len(fs) : Lower(fs[k].op, Top.op) /\ fs[k].op # "onInstalled" /\ fs[k].op # "removeEntity"
  BY <1>5, <1>6, <1>7, <1>9, <1>11, <1>12, <1>14
<1>17. ASSUME NEW t, Puts(t, fs, 1), NEW k \in 1..Len(fs) PROVE NewFit(t, k)
  <2>1. \A i \in 1..Len(fs) : t[i] = fs[i] /\ i \in 1..Len(t)
    BY <1>17 DEF Puts
  <2>2. t[1] = x /\ t[2] = y /\ t[3] = z /\ 1 \in 1..Len(t)
    BY <1>9, <2>1
  <2>3. NewFit(t, 1) /\ NewFit(t, 3)
    BY <1>5, <1>11, <2>2, PlainFrame DEF PlainOps
  <2>4. NewFit(t, 2)
    <3>1. DeletingAt(t, 2)
      BY <1>5, <1>6, <2>2 DEF DeletingAt, Stages
    <3>2. WithdrawnAt(t, 2) /\ NameGone(t, 2) /\ KilledAt(t, 2) /\ EmptiedAt(t, 2) /\ FilledAt(t, 2)
      BY <1>6, <2>2 DEF WithdrawnAt, NameGone, KilledAt, EmptiedAt, FilledAt, Uninstalling, Emptying
    <3> QED BY <1>6, <2>2, <3>1, <3>2 DEF NewFit
  <2> QED BY <1>12, <2>3, <2>4
<1>18. /\ Top.op \notin {"onInstalled", "uninstall"} \cup Building \cup Destroying
       /\ Top.op \notin Uninstalling
  BY <1>7, <1>11
<1> QED BY <1>1, <1>9, <1>10, <1>15, <1>16, <1>17, <1>18, Replaces

\* The plugin's handles are freed.
LEMMA FreeOwnedHandlesKeeps ==
  ASSUME IInv, FreeOwnedHandles
  PROVE  IInv'
<1>1. /\ ctl # <<>> /\ Top.op \in Closers
      /\ UNCHANGED <<factories, closed, derive, hierarchy, population>> /\ UNCHANGED hooked
      /\ Becomes(<<>>) \/ \E f \in Live : Becomes(Close(f) \o <<Top>>)
  BY DEF FreeOwnedHandles, Running, Closers
<1> QED BY <1>1, CloserReturns, ClosesNext

\* The handle type is removed.
LEMMA RemoveHandleTypeKeeps ==
  ASSUME IInv, RemoveHandleType
  PROVE  IInv'
<1>1. /\ ctl # <<>> /\ Top.op \in Closers
      /\ UNCHANGED <<factories, closed, derive, hierarchy, population>> /\ UNCHANGED hooked
      /\ Becomes(<<>>) \/ \E f \in Live : Becomes(Close(f) \o <<Top>>)
  BY DEF RemoveHandleType, Running, Closers
<1> QED BY <1>1, CloserReturns, ClosesNext

\* Every factory is uninstalled by its index.
LEMMA UninstallByIndexKeeps ==
  ASSUME IInv, UninstallByIndex
  PROVE  IInv'
<1>1. /\ ctl # <<>> /\ Top.op = "unloadAll"
      /\ UNCHANGED <<factories, closed, derive, hierarchy, population>> /\ UNCHANGED hooked
  BY DEF UninstallByIndex, Running
<1>2. /\ hooked' \in BOOLEAN /\ Top = ctl[1] /\ Top \in Frame /\ FrameFit(Top) /\ TypeOK /\ Top.n \in Nat
  BY <1>1, Runs DEF TypeOK
<1>3. /\ Top.op \notin {"onInstalled", "uninstall"} \cup Building \cup Destroying
      /\ Top.op \notin Uninstalling
  BY <1>1 DEF Building, Destroying, Uninstalling, Emptying
<1>4. CASE Top.n > Len(factories)
  <2>1. PICK x : x = Do("closeAll", None, None)
    OBVIOUS
  <2>2. Becomes(<<x>>)
    BY <1>4, <2>1 DEF UninstallByIndex
  <2>3. /\ x \in Frame /\ FrameFit(x) /\ x.op \in PlainOps /\ x.op \in Closers
        /\ x.op # "onInstalled" /\ x.op # "removeEntity"
    BY <2>1, CloserFrame
  <2>4. ASSUME NEW t, t[1] = x PROVE NewFit(t, 1)
    BY <2>3, <2>4, PlainFrame
  <2>5. Lower(x.op, Top.op)
    BY <1>1, <2>3, Ranks DEF Lower, Closers, Building, Leaving
  <2> HIDE <2>1
  <2> QED BY <1>1, <1>2, <1>3, <2>2, <2>3, <2>4, <2>5, ReplacesOne
<1>5. CASE ~(Top.n > Len(factories))
  <2>1. PICK f : f = factories[Top.n]
    OBVIOUS
  <2>2. f \in Live
    <3>1. factories \in Seq(Factories) /\ Top.n >= 1
      BY <1>1, <1>2 DEF TypeOK, FrameFit
    <3>2. Top.n \in DOMAIN factories
      BY <1>2, <1>5, <3>1
    <3> QED BY <2>1, <3>2 DEF Live
  <2>3. f \in Factories /\ f \notin closed
    BY <2>2, LiveFactories
  <2>4. PICK x : x = Do("uninstall", f, None)
    OBVIOUS
  <2>5. x \in Frame /\ FrameFit(x) /\ x.op = "uninstall"
    BY <2>3, <2>4, FactoryFrame DEF Leaving
  <2>6. PICK y : y = [Top EXCEPT !.n = @ + 1]
    OBVIOUS
  <2>7. /\ y \in Frame /\ y.op = "unloadAll" /\ y.f = Top.f /\ y.e = Top.e /\ y.es = Top.es
        /\ y.fs = Top.fs /\ y.n = Top.n + 1
    BY <1>1, <1>2, <2>6 DEF Frame
  <2>8. FrameFit(y)
    BY <1>1, <1>2, <2>7 DEF FrameFit
  <2>9. Becomes(<<x, y>>)
    BY <1>5, <2>1, <2>4, <2>6 DEF UninstallByIndex
  <2>10. ASSUME NEW t, t[1] = x, t[2] = y PROVE NewFit(t, 1) /\ NewFit(t, 2)
    BY <2>5, <2>7, <2>8, <2>10, PlainFrame DEF PlainOps, Closers
  <2>11. Over(x.op, y.op) /\ Lower(x.op, Top.op) /\ Lower(y.op, Top.op)
    BY <1>1, <2>5, <2>7, Ranks DEF Over, Lower, Closers, Building, Leaving
  <2>12. /\ x.op # "onInstalled" /\ y.op # "onInstalled" /\ y.op # "removeEntity"
         /\ x.op # "removeEntity"
    BY <2>5, <2>7
  <2> HIDE <2>1, <2>4, <2>6
  <2> QED BY <1>1, <1>2, <1>3, <2>5, <2>7, <2>9, <2>10, <2>11, <2>12, ReplacesTwo
<1> QED BY <1>4, <1>5

\* The recursion of ToUninstall, up to the factory n.
RootSteps(p, n, g) ==
  g = [i \in 0..n |->
        IF i = 0 THEN <<>>
        ELSE IF /\ installed[factories[i]] /\ Owner[factories[i]] = p
                /\ \A k \in DOMAIN g[i-1] : g[i-1][k] # TopmostOf(p, factories[i])
             THEN Append(g[i-1], TopmostOf(p, factories[i])) ELSE g[i-1]]

\* The recursion has a solution up to every factory.
LEMMA RootsExist ==
  ASSUME NEW p, NEW n \in Nat
  PROVE  \E g : RootSteps(p, n, g)
<1> DEFINE P == {k \in Nat : \E g : RootSteps(p, k, g)}
           Next1(i, r) == IF /\ installed[factories[i]] /\ Owner[factories[i]] = p
                             /\ \A k \in DOMAIN r : r[k] # TopmostOf(p, factories[i])
                          THEN Append(r, TopmostOf(p, factories[i])) ELSE r
<1>0. \A k, g : RootSteps(p, k, g) <=> g = [i \in 0..k |-> IF i = 0 THEN <<>> ELSE Next1(i, g[i-1])]
  BY DEF RootSteps
<1> HIDE DEF Next1
<1>1. 0 \in P
  <2> DEFINE g == [i \in 0..0 |-> <<>>]
  <2>1. g = [i \in 0..0 |-> IF i = 0 THEN <<>> ELSE Next1(i, g[i-1])]
    OBVIOUS
  <2>2. RootSteps(p, 0, g)
    BY <1>0, <2>1
  <2> QED BY <2>2
<1>2. ASSUME NEW m \in 1..n, m - 1 \in P PROVE m \in P
  <2>1. PICK g : RootSteps(p, m - 1, g)
    BY <1>2
  <2> DEFINE last == Next1(m, g[m-1])
             h == [k \in 0..m |-> IF k = m THEN last ELSE g[k]]
  <2>2. m \in Nat /\ m # 0 /\ \A k \in 0..m : k # m => k \in 0..(m-1)
    OBVIOUS
  <2>3. \A k \in 0..m : h[k] = IF k = 0 THEN <<>> ELSE Next1(k, h[k-1])
    <3> TAKE k \in 0..m
    <3>1. CASE k = m
      <4>1. h[k] = last /\ k # 0 /\ k - 1 \in 0..m /\ k - 1 # m /\ h[k-1] = g[m-1]
        BY <2>2, <3>1
      <4> HIDE DEF h
      <4> QED BY <3>1, <4>1
    <3>2. CASE k # m
      <4>1. k \in 0..(m-1) /\ h[k] = g[k]
        BY <2>2, <3>2
      <4>2. g[k] = IF k = 0 THEN <<>> ELSE Next1(k, g[k-1])
        BY <1>0, <2>1, <4>1
      <4>3. k # 0 => k - 1 \in 0..m /\ k - 1 # m /\ h[k-1] = g[k-1]
        BY <2>2, <4>1
      <4> HIDE DEF h
      <4> QED BY <4>1, <4>2, <4>3
    <3> QED BY <3>1, <3>2
  <2>4. h = [k \in 0..m |-> h[k]]
    OBVIOUS
  <2>5. RootSteps(p, m, h)
    <3> HIDE DEF h
    <3>1. h = [k \in 0..m |-> IF k = 0 THEN <<>> ELSE Next1(k, h[k-1])]
      BY <2>3, <2>4
    <3> QED BY <1>0, <3>1
  <2> HIDE DEF h
  <2> QED BY <2>2, <2>5
<1> HIDE DEF P
<1>3. n \in P
  BY <1>1, <1>2, UpTo
<1> QED BY <1>3 DEF P

\* The factories that are uninstalled with a plugin are installed.
LEMMA RootsInstalled ==
  ASSUME TypeOK, Registered, Hierarchy, NEW p
  PROVE  ToUninstall(p) \in Seq(Upright)
<1> DEFINE N == Len(factories)
           g == CHOOSE r : RootSteps(p, N, r)
           P == {k \in 0..N : g[k] \in Seq(Upright)}
<1>1. factories \in Seq(Factories)
  BY DEF TypeOK
<1>2. N \in Nat /\ \A i \in 1..N : factories[i] \in Factories
  BY <1>1
<1>3. RootSteps(p, N, g)
  BY <1>2, RootsExist
<1>4. ToUninstall(p) = g[N]
  BY DEF ToUninstall, RootSteps
<1> HIDE DEF g, N
<1>5. 0 \in P
  <2>1. 0 \in 0..N
    BY <1>2
  <2>2. g[0] = <<>>
    BY <1>3, <2>1 DEF RootSteps
  <2>3. <<>> \in Seq(Upright)
    OBVIOUS
  <2> QED BY <2>1, <2>2, <2>3
<1>6. ASSUME NEW i \in 1..N, i - 1 \in P PROVE i \in P
  <2>1. i \in 0..N /\ i # 0 /\ i - 1 \in 0..N /\ g[i-1] \in Seq(Upright)
    BY <1>2, <1>6
  <2>2. \/ g[i] = g[i-1]
        \/ /\ installed[factories[i]] /\ Owner[factories[i]] = p
           /\ g[i] = Append(g[i-1], TopmostOf(p, factories[i]))
    BY <1>3, <2>1 DEF RootSteps
  <2>3. CASE g[i] = g[i-1]
    BY <2>1, <2>3
  <2>4. CASE /\ installed[factories[i]] /\ Owner[factories[i]] = p
             /\ g[i] = Append(g[i-1], TopmostOf(p, factories[i]))
    <3>1. PICK f \in Upright : f = factories[i] /\ Owner[f] = p
      BY <1>2, <2>4 DEF Upright
    <3>2. PICK u \in Upright : u = TopmostOf(p, f)
      BY <3>1, TopmostIs
    <3>3. g[i] = Append(g[i-1], u)
      BY <2>4, <3>1, <3>2
    <3>4. PICK r \in Seq(Upright) : r = g[i-1]
      BY <2>1
    <3>5. Append(r, u) \in Seq(Upright)
      OBVIOUS
    <3> QED BY <2>1, <3>3, <3>4, <3>5
  <2> QED BY <2>2, <2>3, <2>4
<1>7. \A k \in 0..N : k \in P
  <2> HIDE DEF P
  <2> QED BY <1>2, <1>5, <1>6, UpTo
<1>8. N \in P
  BY <1>2, <1>7
<1> QED BY <1>4, <1>8

\* Unload of a plugin.
LEMMA PluginUnloadKeeps ==
  ASSUME IInv, NEW p \in Plugins, PluginUnload(p)
  PROVE  IInv'
<1>1. /\ ctl = <<>>
      /\ UNCHANGED <<factories, closed, derive, hierarchy, population>> /\ UNCHANGED hooked
  BY DEF PluginUnload
<1>2. TypeOK /\ Registered /\ Hierarchy /\ hooked' \in BOOLEAN
  BY <1>1 DEF IInv, TypeOK
<1>3. PICK roots \in Seq(Upright) : roots = ToUninstall(p)
  BY <1>2, RootsInstalled
<1>4. PICK y : y = CloseOwned(p)
  OBVIOUS
<1>5. PICK a : a = [i \in DOMAIN roots |-> Do("uninstall", roots[i], None)]
  OBVIOUS
<1>6. /\ y \in Frame /\ FrameFit(y) /\ y.op \in Closers /\ y.op \in PlainOps
      /\ y.op # "onInstalled" /\ y.op # "delete"
  <2>1. \E q \in Plugins : y = CloseOwned(q)
    BY <1>4
  <2> QED BY <2>1, CloserFrame
<1>7. PICK n \in Nat : n = Len(roots)
  OBVIOUS
<1>8. DOMAIN roots = 1..n /\ \A i \in 1..n : roots[i] \in Upright
  BY <1>7
<1>9. \A i \in 1..n : a[i] \in Frame /\ FrameFit(a[i]) /\ a[i].op = "uninstall"
  <2> TAKE i \in 1..n
  <2>1. PICK f \in Factories : f = roots[i] /\ f \notin closed
    BY <1>8, LiveFactories
  <2>2. PICK x : x = Do("uninstall", f, None)
    OBVIOUS
  <2>3. x \in Frame /\ FrameFit(x) /\ x.op = "uninstall"
    BY <2>1, <2>2, FactoryFrame DEF Leaving
  <2>4. a[i] = x
    BY <1>5, <1>8, <2>1, <2>2
  <2> QED BY <2>3, <2>4
<1>10. a \in Seq(Frame) /\ Len(a) = n
  <2>1. a \in [1..n -> Frame]
    <3>1. a = [i \in 1..n |-> a[i]]
      BY <1>5, <1>8
    <3> HIDE <1>5
    <3> QED BY <1>9, <3>1
  <2> QED BY <2>1
<1>11. Calls(a \o <<y>>)
  <2>1. Calls([i \in DOMAIN ToUninstall(p) |-> Do("uninstall", ToUninstall(p)[i], None)] \o <<CloseOwned(p)>>)
    BY DEF PluginUnload
  <2> QED BY <1>3, <1>4, <1>5, <2>1
<1>12. PICK c : c = <<y>>
  OBVIOUS
<1>13. c \in Seq(Frame) /\ Len(c) = 1 /\ c[1] = y
  BY <1>6, <1>12, OneFrame
<1>14. PICK fs : fs = a \o c
  OBVIOUS
<1>15. /\ fs \in Seq(Frame) /\ Len(fs) = n + 1 /\ \A k \in 1..n : fs[k] = a[k]
       /\ fs[n + 1] = y /\ Calls(fs)
  <2>1. /\ a \o c \in Seq(Frame) /\ Len(a \o c) = Len(a) + Len(c)
        /\ \A k \in 1..Len(a) : (a \o c)[k] = a[k]
        /\ \A k \in 1..Len(a \o c) : k > Len(a) => (a \o c)[k] = c[k - Len(a)]
    BY <1>10, <1>13, Stacked
  <2>2. Len(fs) = n + 1 /\ \A k \in 1..n : fs[k] = a[k]
    BY <1>10, <1>13, <1>14, <2>1
  <2>3. n + 1 \in 1..Len(fs) /\ n + 1 > n /\ (n + 1) - n = 1
    BY <2>2
  <2>4. fs[n + 1] = y
    BY <1>10, <1>13, <1>14, <2>1, <2>3
  <2> QED BY <1>11, <1>12, <1>14, <2>1, <2>2, <2>4
<1> HIDE <1>3, <1>4, <1>5, <1>12, <1>14
<1>16. \A k \in 1..Len(fs) : k \in 1..n \/ k = n + 1
  BY <1>15
<1>17. Over("uninstall", "uninstall") /\ Over("uninstall", y.op)
  BY <1>6, Ranks DEF Over, Leaving, Closers
<1>18. \A j, k \in 1..Len(fs) : j < k => j \in 1..n
  BY <1>15
<1>19. \A j, k \in 1..Len(fs) : j < k => Over(fs[j].op, fs[k].op)
  BY <1>9, <1>15, <1>16, <1>17, <1>18
<1>20. \A k \in 1..Len(fs) : fs[k].op \in PlainOps /\ fs[k].op # "onInstalled" /\ FrameFit(fs[k])
                             /\ fs[k].op # "delete"
  BY <1>6, <1>9, <1>15, <1>16 DEF PlainOps
<1> QED BY <1>1, <1>2, <1>15, <1>19, <1>20, PutsFirst
-----------------------------------------------------------------------------
(***************************************************************************)
(* Steps that change the registry, while nothing is being uninstalled or   *)
(* removed: calls to close handles at most, or OnInstalled callbacks.      *)
(***************************************************************************)

\* Only the derivation of a factory changes, or nothing.
LEMMA Still ==
  ASSUME IInv, UNCHANGED <<factories, closed, hierarchy, population, ctl>>, hooked' \in BOOLEAN,
         derive' \in [Factories -> DeriveInfo]
  PROVE  IInv'
<1>1. /\ TypeOK /\ Ordered /\ Installing /\ FramesFit /\ Registered /\ Hierarchy /\ Withdrawn
      /\ Named /\ Deleting /\ Recorded /\ Emptied /\ Filled
  BY DEF IInv
<1>2. /\ UNCHANGED <<factories, closed, installed, base, slots, count, dict>>
      /\ UNCHANGED <<created, record, fields, killed, gone>> /\ ctl' = ctl
  BY DEF hierarchy, population
<1>3. Live' = Live /\ Place' = Place
  BY <1>2 DEF Live, Place
<1>4. TypeOK'
  BY <1>1, <1>2 DEF TypeOK
<1>5. Ordered' /\ Installing' /\ Deleting' /\ FramesFit'
  BY <1>1, <1>2, <1>3 DEF Ordered, Installing, Deleting, DeletingAt, FramesFit, FrameFit
<1>6. Registered' /\ Hierarchy'
  BY <1>1, <1>2, <1>3 DEF Registered, Hierarchy, HierarchyAt
<1>7. Withdrawn' /\ Emptied'
  BY <1>1, <1>2, <1>3 DEF Withdrawn, WithdrawnAt, Emptied, EmptiedAt
<1>8. Named'
  BY <1>1, <1>2, <1>3 DEF Named, NameFits, NameKnown, NameGone
<1>9. Recorded'
  BY <1>1, <1>2, <1>3 DEF Recorded, RecordFits, EntityKnown, KilledKnown, KilledAt
<1>10. Filled'
  BY <1>1, <1>2, <1>3 DEF Filled, FieldsFit, FieldsKnown, FilledAt
<1> QED BY <1>1, <1>4, <1>5, <1>6, <1>7, <1>8, <1>9, <1>10 DEF IInv

\* DeriveFrom.
LEMMA DeriveFromKeeps ==
  ASSUME IInv, NEW f \in Factories, NEW d \in Derivations[f], DeriveFrom(f, d)
  PROVE  IInv'
<1>1. /\ UNCHANGED <<factories, closed, hierarchy, population, ctl>> /\ UNCHANGED hooked
      /\ derive' = [derive EXCEPT ![f] = d]
  BY DEF DeriveFrom
<1>2. d \in DeriveInfo
  BY ConstantsOK
<1>3. derive \in [Factories -> DeriveInfo] /\ hooked' \in BOOLEAN
  BY <1>1 DEF IInv, TypeOK
<1>4. derive' \in [Factories -> DeriveInfo]
  BY <1>1, <1>2, <1>3
<1> QED BY <1>1, <1>3, <1>4, Still

\* The calls that may be in progress.
Peace == {"onInstalled"} \cup Closers
\* Such a call does nothing that the invariant makes an exception for.
LEMMA PeaceOps ==
  ASSUME NEW op \in Peace
  PROVE  /\ op \notin Building /\ op \notin Destroying /\ op \notin Emptying /\ op # "onRemove"
         /\ op \notin Uninstalling /\ op \notin Stages /\ op # "delete" /\ op # "children"
         /\ op \notin {"destruct", "onEnd", "construct", "removeEach", "detach", "removeEntity"}
BY DEF Peace, Building, Destroying, Emptying, Uninstalling, Stages, Closers

\* What is known of the state then.
Peaceful ==
  /\ NameFits
  /\ \A f \in Factories : installed[f] /\ f \notin Abstract => dict[Class[f]] = f
  /\ gone \subseteq killed /\ killed \subseteq 1..created
  /\ \A e \in Entities : RecordFits(e)
  /\ \A e \in Entities : e <= created /\ e \notin gone => record[e] # None
  /\ \A e \in Entities : e \in killed => record[e] = None
  /\ \A e \in Entities : FieldsFit(e)
  /\ \A e \in Entities : record[e] = None => fields[e] = {}
\* Where no uninstall and no destruction is in progress, nothing is missing.
LEMMA PeaceKnows ==
  ASSUME IInv, \A k \in Place : ctl[k].op \notin Uninstalling \cup {"onEnd", "destruct"}
  PROVE  Peaceful
<1>1. Named /\ Recorded /\ Filled
  BY DEF IInv
<1>2. \A k \in Place : ctl[k].op \notin Uninstalling /\ ctl[k].op # "onEnd" /\ ctl[k].op # "destruct"
  OBVIOUS
<1>3. \A f \in Factories : NameKnown(ctl, f)
  BY <1>1 DEF Named
<1>4. \A f \in Factories : installed[f] /\ f \notin Abstract => dict[Class[f]] = f
  BY <1>2, <1>3 DEF NameKnown, Place
<1>5. \A e \in Entities : EntityKnown(ctl, e) /\ KilledKnown(ctl, e) /\ RecordFits(e)
  BY <1>1 DEF Recorded
<1>6. \A e \in Entities : e <= created /\ e \notin gone => record[e] # None
  BY <1>2, <1>5 DEF EntityKnown, Place
<1>7. \A e \in Entities : e \in killed => record[e] = None
  BY <1>2, <1>5 DEF KilledKnown, Place
<1>8. \A e \in Entities : FieldsFit(e) /\ FieldsKnown(ctl, e)
  BY <1>1 DEF Filled
<1>9. \A e \in Entities : record[e] = None => fields[e] = {}
  BY <1>2, <1>8 DEF FieldsKnown, Place
<1>10. NameFits /\ gone \subseteq killed /\ killed \subseteq 1..created
  BY <1>1 DEF Named, Recorded
<1> QED BY <1>4, <1>5, <1>6, <1>7, <1>8, <1>9, <1>10 DEF Peaceful

\* ... and all that there is to know.
LEMMA PeaceSuffices ==
  ASSUME TypeOK', Ordered', Installing', FramesFit', Registered', Hierarchy', Peaceful',
         \A k \in 1..Len(ctl') : ctl'[k].op \in Peace
  PROVE  IInv'
<1>1. PICK t : t = ctl'
  OBVIOUS
<1>2. \A k \in 1..Len(t) : t[k].op \in Peace
  BY <1>1
<1>3. \A k \in 1..Len(t) :
        /\ t[k].op \notin Emptying /\ t[k].op \notin Uninstalling
        /\ t[k].op \notin {"children", "delete", "destruct", "onEnd", "construct", "removeEach", "detach"}
  BY <1>2, PeaceOps
<1>4. Place' = 1..Len(t)
  BY <1>1 DEF Place
<1>5. Withdrawn'
  BY <1>1, <1>3, <1>4 DEF Withdrawn, WithdrawnAt
<1>6. Named'
  <2>1. NameFits' /\ \A f \in Factories : NameKnown(ctl, f)'
    BY <1>1 DEF Peaceful, NameKnown
  <2>2. \A k \in 1..Len(t) : NameGone(ctl, k)'
    BY <1>1, <1>3 DEF NameGone
  <2> QED BY <1>4, <2>1, <2>2 DEF Named
<1>7. Deleting'
  BY <1>1, <1>3, <1>4 DEF Deleting, DeletingAt
<1>8. Recorded'
  <2>1. \A e \in Entities : EntityKnown(ctl, e)' /\ KilledKnown(ctl, e)' /\ RecordFits(e)'
    BY DEF Peaceful, EntityKnown, KilledKnown
  <2>2. \A k \in 1..Len(t) : KilledAt(ctl, k)'
    BY <1>1, <1>3 DEF KilledAt
  <2> QED BY <1>4, <2>1, <2>2 DEF Recorded, Peaceful
<1>9. Emptied'
  BY <1>1, <1>3, <1>4 DEF Emptied, EmptiedAt
<1>10. Filled'
  <2>1. \A e \in Entities : FieldsKnown(ctl, e)' /\ FieldsFit(e)'
    BY DEF Peaceful, FieldsKnown
  <2>2. \A k \in 1..Len(t) : FilledAt(ctl, k)'
    BY <1>1, <1>3 DEF FilledAt
  <2> QED BY <1>4, <2>1, <2>2 DEF Filled
<1> QED BY <1>5, <1>6, <1>7, <1>8, <1>9, <1>10 DEF IInv

\* When OnInstalled is on top, all calls are OnInstalled callbacks.
LEMMA OnlyInstalling ==
  ASSUME IInv, ctl # <<>> => Top.op = "onInstalled", NEW k \in Place
  PROVE  ctl[k].op = "onInstalled"
<1>1. TypeOK /\ Ordered /\ Installing /\ ctl \in Seq(Frame)
  BY DEF IInv, TypeOK
<1>2. ctl # <<>>
  BY <1>1 DEF Place
<1>3. Top = ctl[1] /\ 1 \in Place /\ Len(ctl) \in Nat
  BY <1>2, Runs
<1>4. ctl[k].op \in {"onInstalled"} \cup Building
  BY <1>1, <1>2, <1>3 DEF Installing, InstallingIn, Place
<1>5. CASE k > 1
  <2>1. Over("onInstalled", ctl[k].op)
    BY <1>1, <1>2, <1>3, <1>5, OverOld
  <2>2. ctl[k].op \notin Building
    <3>1. Rank("onInstalled") = 4 /\ "onInstalled" \in Leaving
      BY Ranks DEF Leaving
    <3>2. ctl[k].op \in Building => Rank(ctl[k].op) = 0
      BY Ranks
    <3> QED BY <2>1, <3>1, <3>2 DEF Over
  <2> QED BY <1>4, <2>2
<1>6. CASE ~(k > 1)
  <2>1. k = 1
    BY <1>3, <1>6 DEF Place
  <2> QED BY <1>2, <1>3, <2>1
<1> QED BY <1>5, <1>6

\* The lines of installed factories stay when they keep their bases.
LEMMA LinesStay ==
  ASSUME TypeOK, Registered, Hierarchy, NEW S \in SUBSET Upright, NEW f \in S,
         \A x \in S : BaseOf(base, Live, x) \in S \cup {None} /\ base'[x] = base[x],
         Live' \subseteq Factories, \A x \in S : base[x] \in Factories => base[x] \in Live'
  PROVE  Line(base', Live', f) = Line(base, Live, f)
<1>1. None \notin S
  BY BasesInstalled
<1>2. PICK L : L = Live'
  OBVIOUS
<1>3. PICK b : b = base'
  OBVIOUS
<1>4. ASSUME NEW x \in S PROVE BaseOf(b, L, x) = BaseOf(base, Live, x)
  <2>1. b[x] = base[x] /\ x \in Factories /\ HierarchyAt(x)
    BY <1>3 DEF Upright, Hierarchy
  <2>2. base[x] \in Factories => base[x] \in Upright /\ base[x] \in Live
    BY <2>1 DEF HierarchyAt, Upright, Registered
  <2>3. Live \subseteq Factories
    BY BasesInstalled
  <2>4. base[x] \in L <=> base[x] \in Live
    BY <1>2, <2>2, <2>3
  <2> QED BY <2>1, <2>4 DEF BaseOf
<1>5. \A x \in S : BaseOf(base, Live, x) \in S \cup {None} /\ BaseOf(b, L, x) = BaseOf(base, Live, x)
  BY <1>4
<1>6. Line(b, L, f) = Line(base, Live, f)
  BY <1>1, <1>5, WalkSame
<1> QED BY <1>2, <1>3, <1>6

\* Constructor of a factory.
LEMMA NewFactoryKeeps ==
  ASSUME IInv, CallsBack \subseteq Survivable, NEW f \in Factories, NewFactory(f)
  PROVE  IInv'
<1>1. /\ PluginCode("edit") /\ f \notin Live /\ f \notin closed /\ factories' = Append(factories, f)
      /\ UNCHANGED <<closed, derive, installed, base, slots, count, dict>>
      /\ UNCHANGED <<created, record, fields, killed, gone>> /\ hooked' = hooked /\ ctl' = ctl
  BY DEF NewFactory, hierarchy, population
<1>2. /\ TypeOK /\ Ordered /\ Installing /\ FramesFit /\ Registered /\ Hierarchy
  BY DEF IInv
<1>3. \A k \in Place : ctl[k].op \in Peace
  <2>1. ctl # <<>> => Top.op = "onInstalled"
    BY <1>1, CallsFrom
  <2> QED BY <2>1, OnlyInstalling DEF Peace
<1>4. Peaceful
  BY <1>3, PeaceOps, PeaceKnows
<1>5. factories \in Seq(Factories) /\ Len(factories) \in Nat
  BY <1>2 DEF TypeOK
<1>6. PICK n \in Nat : n = Len(factories)
  BY <1>5
<1>7. PICK F : F = factories'
  OBVIOUS
<1>8. /\ F \in Seq(Factories) /\ DOMAIN F = 1..(n + 1) /\ F[n + 1] = f
      /\ \A i \in 1..n : F[i] = factories[i] /\ i \in DOMAIN factories
      /\ \A i \in 1..(n + 1) : i \in 1..n \/ i = n + 1
      /\ \A i \in 1..n : i \in 1..(n + 1)
      /\ DOMAIN factories = 1..n
  BY <1>1, <1>5, <1>6, <1>7
<1>9. Live' = Live \cup {f}
  <2>1. Live' = {F[i] : i \in DOMAIN F}
    BY <1>7 DEF Live
  <2>2. n + 1 \in 1..(n + 1)
    OBVIOUS
  <2>3. \A x : x \in Live' <=> \E i \in 1..(n + 1) : x = F[i]
    BY <1>8, <2>1
  <2>4. \A x : x \in Live <=> \E i \in 1..n : x = factories[i]
    BY <1>8 DEF Live
  <2>5. \A x : (\E i \in 1..(n + 1) : x = F[i]) <=> (x = f \/ \E i \in 1..n : x = factories[i])
    BY <1>8, <2>2
  <2> HIDE <1>1, <1>7
  <2> QED BY <2>3, <2>4, <2>5
<1>10. TypeOK'
  BY <1>1, <1>2, <1>7, <1>8 DEF TypeOK
<1>11. Ordered' /\ Installing' /\ FramesFit'
  BY <1>1, <1>2 DEF Ordered, Installing, FramesFit, FrameFit, Place
<1>12. Registered'
  <2>1. \A i, j \in 1..n : F[i] = F[j] => i = j
    BY <1>2, <1>8 DEF Registered
  <2>2. \A i \in 1..n : F[i] # f
    BY <1>1, <1>8 DEF Live
  <2>3. \A i, j \in DOMAIN F : F[i] = F[j] => i = j
    BY <1>8, <2>1, <2>2
  <2>4. Live' \cap closed' = {}
    BY <1>1, <1>2, <1>9 DEF Registered
  <2>5. \A g \in Factories : (installed[g] => g \in Live)' /\ (base[g] # None => installed[g])'
    BY <1>1, <1>2, <1>9 DEF Registered
  <2> QED BY <1>7, <2>3, <2>4, <2>5 DEF Registered
<1>13. Hierarchy'
  BY <1>1, <1>2 DEF Hierarchy, HierarchyAt
<1>14. \A g \in Upright : Line(base', Live', g) = Line(base, Live, g)
  <2>1. Live' \subseteq Factories /\ Upright \subseteq Live' /\ base' = base
    BY <1>1, <1>9, LiveFactories
  <2>2. \A x \in Upright : BaseOf(base, Live, x) \in Upright \cup {None}
    BY <1>2, BasesInstalled
  <2>3. \A x \in Upright : base[x] \in Factories => base[x] \in Live'
    BY <1>2, <2>1 DEF Hierarchy, HierarchyAt, Upright
  <2> QED BY <1>2, <2>1, <2>2, <2>3, LinesStay
<1>15. Peaceful'
  <2>1. \A e \in Entities : FieldsFit(e)'
    <3> TAKE e \in Entities
    <3>1. FieldsFit(e) /\ RecordFits(e)
      BY <1>4 DEF Peaceful
    <3>2. record[e] # None => record[e] \in Upright
      BY <1>2, <3>1 DEF RecordFits, TypeOK, Upright, Factories, None
    <3> QED BY <1>1, <1>14, <3>1, <3>2 DEF FieldsFit
  <2> QED BY <1>1, <1>4, <2>1 DEF Peaceful, NameFits, RecordFits
<1>16. \A k \in 1..Len(ctl') : ctl'[k].op \in Peace
  BY <1>1, <1>3 DEF Place
<1> QED BY <1>10, <1>11, <1>12, <1>13, <1>15, <1>16, PeaceSuffices

\* A stack without its innermost frame is in order.
LEMMA OrderPops ==
  ASSUME TypeOK, Ordered, Installing, NEW t, NEW fs, NEW p, p = 1, Len(fs) = 0, Puts(t, fs, p)
  PROVE  /\ Ordered' /\ Installing'
         /\ \A k \in 1..Len(t) : k + 1 \in Place /\ k + 1 > 1 /\ t[k] = ctl[k + 1]
<1>1. /\ \A k \in 1..Len(t) : k \in 1..Len(fs) \/
            (/\ k - Len(fs) + p \in Place /\ k - Len(fs) + p > p /\ t[k] = ctl[k - Len(fs) + p])
      /\ t = ctl' /\ t \in Seq(Frame)
  BY ONLY OldPlaces, TypeOK, Puts(t, fs, p)
<1>2. \A k \in 1..Len(t) : k - Len(fs) + p = k + 1 /\ k \notin 1..Len(fs)
  OBVIOUS
<1>3. \A k \in 1..Len(t) : k + 1 \in Place /\ k + 1 > 1 /\ t[k] = ctl[k + 1]
  BY <1>1, <1>2
<1>4. Ordered'
  <2>1. \A j, k \in 1..Len(t) : j < k => j + 1 < k + 1
    BY <1>1
  <2>2. \A j, k \in 1..Len(t) : j < k => Over(t[j].op, t[k].op)
    BY <1>3, <2>1 DEF Ordered, OrderedIn, Place
  <2> QED BY <1>1, <2>2 DEF Ordered, OrderedIn
<1>5. Installing'
  <2>1. InstallingIn(t)
    BY <1>3 DEF Installing, InstallingIn, Place
  <2> QED BY <1>1, <2>1 DEF Installing, InstallingIn
<1> QED BY <1>3, <1>4, <1>5

\* What is left on the stack when a factory is deleted.
LEMMA OnlyClosers ==
  ASSUME IInv, ctl # <<>>, Top.op = "delete", NEW i \in Place, i > 1
  PROVE  ctl[i].op \in Closers
<1>1. Over(Top.op, ctl[i].op) /\ Top = ctl[1] /\ TypeOK /\ Ordered
  BY Runs DEF IInv
<1>2. ctl[i].op \in Ops
  BY <1>1, OverOld
<1>3. ctl[i].op \in Building \cup {"onRemove"} \cup Destroying \cup Emptying \cup Leaving \cup {"delete"} \cup Closers
  BY <1>2 DEF Ops, Callbacks, Building, Destroying, Emptying, Leaving, Closers
<1>4. Rank("delete") = 5 /\ "delete" \notin Building \cup Leaving
  BY Ranks DEF Building, Leaving
<1>5. Rank(ctl[i].op) # 5 /\ ~(Rank(ctl[i].op) < 5)
  BY <1>1, <1>2, <1>4, RankNumbers DEF Over
<1>6. ctl[i].op \notin Building \cup {"onRemove"} \cup Destroying \cup Emptying \cup Leaving \cup {"delete"}
  BY <1>5, Ranks
<1> QED BY <1>3, <1>6

\* FindAndRemove takes one factory out of a list that has each once.
LEMMA UnlistedIs ==
  ASSUME TypeOK, Registered, NEW f \in Factories
  PROVE  /\ Unlisted(f) \in Seq(Factories)
         /\ {Unlisted(f)[i] : i \in DOMAIN Unlisted(f)} = Live \ {f}
         /\ \A i, j \in DOMAIN Unlisted(f) : Unlisted(f)[i] = Unlisted(f)[j] => i = j
<1>1. PICK F \in Seq(Factories) : F = factories
  BY DEF TypeOK
<1>2. PICK n \in Nat : n = Len(F)
  OBVIOUS
<1>3. DOMAIN F = 1..n /\ \A i \in 1..n : F[i] \in Factories
  BY <1>2
<1>4. \A i, j \in 1..n : F[i] = F[j] => i = j
  BY <1>1, <1>3 DEF Registered
<1>5. \A x : x \in Live <=> \E i \in 1..n : x = F[i]
  BY <1>1, <1>3 DEF Live
<1> DEFINE at == {i \in DOMAIN F : F[i] = f}
<1>6. CASE at = {}
  <2>1. Unlisted(f) = F
    BY <1>1, <1>6 DEF Unlisted
  <2>2. f \notin Live
    BY <1>3, <1>5, <1>6
  <2>3. {F[i] : i \in DOMAIN F} = Live
    BY <1>1 DEF Live
  <2> QED BY <1>3, <1>4, <2>1, <2>2, <2>3
<1>7. CASE at # {}
  <2>1. PICK h \in 1..n : F[h] = f
    BY <1>3, <1>7
  <2>2. at = {h}
    BY <1>3, <1>4, <2>1
  <2>3. h = CHOOSE k \in at : \A l \in at : k <= l
    BY <2>2
  <2>4. Unlisted(f) = [k \in 1..(n - 1) |-> IF k < h THEN F[k] ELSE F[k+1]]
    BY <1>1, <1>2, <1>7, <2>3 DEF Unlisted
  <2>5. PICK G : G = [k \in 1..(n - 1) |-> IF k < h THEN F[k] ELSE F[k+1]]
    OBVIOUS
  <2>6. n - 1 \in Nat /\ \A k \in 1..(n - 1) : k \in 1..n /\ k + 1 \in 1..n
    OBVIOUS
  <2>7. \A k \in 1..(n - 1) : (k < h /\ G[k] = F[k]) \/ (k >= h /\ G[k] = F[k+1])
    BY <2>5
  <2>8. G \in Seq(Factories) /\ DOMAIN G = 1..(n - 1)
    <3>1. G \in [1..(n - 1) -> Factories]
      BY <1>3, <2>5, <2>6
    <3> QED BY <2>6, <3>1
  <2> HIDE <2>5
  <2>9. \A k \in 1..(n - 1) : \E i \in 1..n : G[k] = F[i] /\ i # h
    <3> TAKE k \in 1..(n - 1)
    <3>1. CASE k < h
      <4>1. k # h
        BY <3>1
      <4> QED BY <2>6, <2>7, <3>1, <4>1
    <3>2. CASE k >= h
      <4>1. k + 1 # h /\ ~(k < h)
        BY <3>2
      <4> QED BY <2>6, <2>7, <3>2, <4>1
    <3> QED BY <3>1, <3>2
  <2>10. \A i \in 1..n : i # h => \E k \in 1..(n - 1) : G[k] = F[i]
    <3> SUFFICES ASSUME NEW i \in 1..n, i # h PROVE \E k \in 1..(n - 1) : G[k] = F[i]
      OBVIOUS
    <3>1. CASE i < h
      <4>1. i \in 1..(n - 1) /\ ~(i >= h)
        BY <3>1
      <4> QED BY <2>7, <4>1
    <3>2. CASE i > h
      <4>1. i - 1 \in 1..(n - 1) /\ ~(i - 1 < h) /\ (i - 1) + 1 = i
        BY <3>2
      <4> QED BY <2>7, <4>1
    <3> QED BY <3>1, <3>2
  <2>11. {G[i] : i \in DOMAIN G} = Live \ {f}
    <3>1. \A x : x \in {G[i] : i \in DOMAIN G} <=> \E k \in 1..(n - 1) : x = G[k]
      BY <2>8
    <3>2. \A x : (\E k \in 1..(n - 1) : x = G[k]) <=> \E i \in 1..n : x = F[i] /\ i # h
      BY <2>9, <2>10
    <3>3. \A i \in 1..n : i # h <=> F[i] # f
      BY <1>4, <2>1
    <3> QED BY <1>5, <3>1, <3>2, <3>3
  <2>12. ASSUME NEW i \in 1..(n - 1), NEW j \in 1..(n - 1), G[i] = G[j] PROVE i = j
    <3>1. CASE i < h /\ j < h
      BY <1>4, <2>6, <2>7, <2>12, <3>1
    <3>2. CASE i >= h /\ j >= h
      <4>1. i + 1 = j + 1
        <5>1. ~(i < h) /\ ~(j < h)
          BY <3>2
        <5> QED BY <1>4, <2>6, <2>7, <2>12, <5>1
      <4> QED BY <4>1
    <3>3. CASE i < h /\ j >= h
      <4>1. i = j + 1
        <5>1. ~(i >= h) /\ ~(j < h)
          BY <3>3
        <5> QED BY <1>4, <2>6, <2>7, <2>12, <5>1
      <4> QED BY <3>3, <4>1
    <3>4. CASE i >= h /\ j < h
      <4>1. i + 1 = j
        <5>1. ~(i < h) /\ ~(j >= h)
          BY <3>4
        <5> QED BY <1>4, <2>6, <2>7, <2>12, <5>1
      <4> QED BY <3>4, <4>1
    <3> QED BY <3>1, <3>2, <3>3, <3>4
  <2>13. Unlisted(f) = G
    BY <2>4, <2>5
  <2> QED BY <2>8, <2>11, <2>12, <2>13
<1> QED BY <1>6, <1>7

\* delete of a factory.
LEMMA DeleteKeeps ==
  ASSUME IInv, Delete
  PROVE  IInv'
<1>1. /\ ctl # <<>> /\ Top.op = "delete" /\ factories' = Unlisted(Top.f)
      /\ closed' = closed \cup {Top.f} /\ Becomes(<<>>)
      /\ UNCHANGED <<derive, installed, base, slots, count, dict>>
      /\ UNCHANGED <<created, record, fields, killed, gone>> /\ hooked' = hooked
  BY DEF Delete, Running, hierarchy, population
<1>2. /\ TypeOK /\ Ordered /\ Installing /\ FramesFit /\ Registered /\ Hierarchy /\ Deleting
  BY DEF IInv
<1>3. Top = ctl[1] /\ 1 \in Place /\ FrameFit(Top) /\ Len(ctl) \in Nat
  BY <1>1, Runs
<1>4. PICK f \in Factories : f = Top.f
  BY <1>1, <1>3 DEF FrameFit
<1>5. \A i \in Place : i > 1 => ctl[i].op \in Closers
  BY <1>1, OnlyClosers
<1>6. ~installed[f]
  <2> SUFFICES ASSUME installed[f] PROVE FALSE
    OBVIOUS
  <2>1. DeletingAt(ctl, 1)
    BY <1>2, <1>3 DEF Deleting
  <2>2. PICK j \in Place : ctl[j].op \in Stages
    BY <1>1, <1>3, <1>4, <2>1 DEF DeletingAt, Place
  <2>3. j > 1 \/ j = 1
    BY <1>3 DEF Place
  <2>4. ctl[j].op \in Closers \/ ctl[j].op = "delete"
    BY <1>1, <1>3, <1>5, <2>3
  <2> QED BY <2>2, <2>4 DEF Stages, Uninstalling, Emptying, Closers
<1>7. PICK fs : fs = <<>>
  OBVIOUS
<1>8. fs \in Seq(Frame) /\ Len(fs) = 0 /\ Becomes(fs)
  BY <1>1, <1>7, NoFrames
<1>9. PICK p \in {0, 1} : p = 1
  OBVIOUS
<1>10. PICK t : Puts(t, fs, p)
  BY <1>1, <1>2, <1>8, <1>9, BecomesPut
<1>11. /\ Ordered' /\ Installing'
       /\ \A k \in 1..Len(t) : k + 1 \in Place /\ k + 1 > 1 /\ t[k] = ctl[k + 1]
  BY <1>2, <1>8, <1>9, <1>10, OrderPops
<1>12. t = ctl' /\ t \in Seq(Frame) /\ Place' = 1..Len(t)
  BY <1>2, <1>10, OldPlaces
<1>13. \A k \in 1..Len(t) : t[k].op \in Closers /\ FrameFit(t[k])
  BY <1>2, <1>5, <1>11 DEF FramesFit
<1>14. FramesFit'
  <2>1. ASSUME NEW k \in 1..Len(t) PROVE FrameFit(ctl[k])'
    <3>1. t[k].op \in Closers /\ FrameFit(t[k])
      BY <1>13
    <3>2. t[k].f = None /\ t[k].fs = <<>>
      BY <3>1 DEF FrameFit, Closers
    <3>3. None # f
      BY DEF Factories, None
    <3> QED BY <1>1, <1>4, <1>12, <3>1, <3>2, <3>3 DEF FrameFit
  <2> QED BY <1>12, <2>1 DEF FramesFit
<1>15. PICK F : F = factories'
  OBVIOUS
<1>16. /\ F \in Seq(Factories) /\ {F[i] : i \in DOMAIN F} = Live \ {f}
       /\ \A i, j \in DOMAIN F : F[i] = F[j] => i = j
  <2>1. F = Unlisted(f)
    BY <1>1, <1>4, <1>15
  <2>2. /\ Unlisted(f) \in Seq(Factories)
        /\ {Unlisted(f)[i] : i \in DOMAIN Unlisted(f)} = Live \ {f}
        /\ \A i, j \in DOMAIN Unlisted(f) : Unlisted(f)[i] = Unlisted(f)[j] => i = j
    BY <1>2, UnlistedIs
  <2> QED BY ONLY <2>1, <2>2
<1>17. Live' = Live \ {f}
  BY <1>15, <1>16 DEF Live
<1>18. closed' = closed \cup {f}
  BY <1>1, <1>4
<1>19. TypeOK'
  BY <1>1, <1>2, <1>12, <1>15, <1>16, <1>18 DEF TypeOK
<1>20. Registered'
  <2>1. Live' \cap closed' = {}
    BY <1>2, <1>17, <1>18 DEF Registered
  <2>2. \A g \in Factories : (installed[g] => g \in Live)' /\ (base[g] # None => installed[g])'
    BY <1>1, <1>2, <1>6, <1>17 DEF Registered
  <2> QED BY <1>15, <1>16, <2>1, <2>2 DEF Registered
<1>21. Hierarchy'
  BY <1>1, <1>2 DEF Hierarchy, HierarchyAt
<1>22. \A g \in Upright : Line(base', Live', g) = Line(base, Live, g)
  <2>1. Live' \subseteq Factories /\ base' = base /\ \A x \in Upright : x \in Live'
    BY <1>1, <1>6, <1>17, LiveFactories DEF Upright
  <2>2. \A x \in Upright : BaseOf(base, Live, x) \in Upright \cup {None}
    BY <1>2, BasesInstalled
  <2>3. \A x \in Upright : base[x] \in Factories => base[x] \in Live'
    BY <1>2, <2>1 DEF Hierarchy, HierarchyAt, Upright
  <2> QED BY <1>2, <2>1, <2>2, <2>3, LinesStay
<1>23. Peaceful'
  <2>1. \A k \in Place : ctl[k].op \notin Uninstalling \cup {"onEnd", "destruct"}
    <3> TAKE k \in Place
    <3>1. k > 1 \/ k = 1
      BY <1>3 DEF Place
    <3>2. ctl[k].op \in Closers \/ ctl[k].op = "delete"
      BY <1>1, <1>3, <1>5, <3>1
    <3> QED BY <3>2 DEF Uninstalling, Emptying, Closers
  <2>2. Peaceful
    BY <2>1, PeaceKnows
  <2>3. \A e \in Entities : FieldsFit(e)'
    <3> TAKE e \in Entities
    <3>1. FieldsFit(e) /\ RecordFits(e)
      BY <2>2 DEF Peaceful
    <3>2. record[e] # None => record[e] \in Upright
      BY <1>2, <3>1 DEF RecordFits, TypeOK, Upright, Factories, None
    <3> QED BY <1>1, <1>22, <3>1, <3>2 DEF FieldsFit
  <2> QED BY <1>1, <2>2, <2>3 DEF Peaceful, NameFits, RecordFits
<1>24. \A k \in 1..Len(ctl') : ctl'[k].op \in Peace
  BY <1>12, <1>13 DEF Peace
<1> QED BY <1>11, <1>14, <1>19, <1>20, <1>21, <1>23, <1>24, PeaceSuffices

\* One sequence behind another.
LEMMA Joined ==
  ASSUME NEW F, NEW a \in Seq(F), NEW b \in Seq(F)
  PROVE  /\ a \o b \in Seq(F) /\ Len(a \o b) = Len(a) + Len(b)
         /\ \A k \in 1..Len(a) : (a \o b)[k] = a[k]
         /\ \A k \in 1..Len(a \o b) : k > Len(a) => (a \o b)[k] = b[k - Len(a)]
OBVIOUS

\* The slots after AddToTail, when n of them were in use.
Tailed(s, n, x) == SubSeq(s, 1, n) \o <<x>> \o SubSeq(s, n + 2, Len(s))
SameUpTo(n, t, s) == \A i \in 1..n : t[i] = s[i]

\* AddToTail overwrites the first slot behind those in use.
LEMMA Added ==
  ASSUME NEW s \in Seq(Factories), NEW n \in Nat, n <= Len(s), NEW x \in Factories,
         NEW t, t = Tailed(s, n, x)
  PROVE  t \in Seq(Factories) /\ n + 1 <= Len(t) /\ t[n + 1] = x /\ SameUpTo(n, t, s)
<1>1. PICK a : a = SubSeq(s, 1, n)
  OBVIOUS
<1>2. PICK c : c = SubSeq(s, n + 2, Len(s))
  OBVIOUS
<1>3. PICK b : b = <<x>>
  OBVIOUS
<1>4. a \in Seq(Factories) /\ Len(a) = n /\ \A i \in 1..n : a[i] = s[i]
  <2>1. \A i \in 1..n : i \in 1..Len(s)
    OBVIOUS
  <2>2. SubSeq(s, 1, n) = [i \in 1..n |-> s[i]]
    <3>1. SubSeq(s, 1, n) = [i \in 1..(1 + n - 1) |-> s[i + 1 - 1]]
      OBVIOUS
    <3> QED BY <3>1
  <2> QED BY <1>1, <2>1, <2>2
<1>5. b \in Seq(Factories) /\ Len(b) = 1 /\ b[1] = x
  BY <1>3
<1>6. c \in Seq(Factories) /\ Len(c) \in Nat
  BY <1>2
<1> HIDE <1>1, <1>2, <1>3
<1>7. PICK d : d = a \o b
  OBVIOUS
<1>8. d \in Seq(Factories) /\ Len(d) = n + 1 /\ d[n + 1] = x /\ \A i \in 1..n : d[i] = s[i]
  <2>1. /\ d \in Seq(Factories) /\ Len(d) = n + 1 /\ \A k \in 1..n : d[k] = a[k]
        /\ \A k \in 1..(n + 1) : k > n => d[k] = b[k - n]
    <3>1. /\ a \o b \in Seq(Factories) /\ Len(a \o b) = Len(a) + Len(b)
          /\ \A k \in 1..Len(a) : (a \o b)[k] = a[k]
          /\ \A k \in 1..Len(a \o b) : k > Len(a) => (a \o b)[k] = b[k - Len(a)]
      BY <1>4, <1>5, Joined
    <3>2. Len(a) = n /\ Len(b) = 1 /\ Len(a \o b) = n + 1
      BY <1>4, <1>5, <3>1
    <3> QED BY <1>7, <3>1, <3>2
  <2>2. n + 1 \in 1..(n + 1) /\ n + 1 > n /\ (n + 1) - n = 1
    OBVIOUS
  <2>3. d[n + 1] = x
    BY <1>5, <2>1, <2>2
  <2> QED BY <1>4, <2>1, <2>3
<1> HIDE <1>7
<1>9. /\ d \o c \in Seq(Factories) /\ Len(d \o c) = n + 1 + Len(c)
      /\ \A i \in 1..(n + 1) : (d \o c)[i] = d[i]
  <2>1. /\ d \o c \in Seq(Factories) /\ Len(d \o c) = Len(d) + Len(c)
        /\ \A k \in 1..Len(d) : (d \o c)[k] = d[k]
    BY <1>6, <1>8, Joined
  <2> QED BY <1>8, <2>1
<1>10. n + 1 <= Len(d \o c) /\ n + 1 \in 1..(n + 1) /\ \A i \in 1..n : i \in 1..(n + 1)
  BY <1>6, <1>9
<1>11. t = d \o c
  BY <1>1, <1>2, <1>3, <1>7 DEF Tailed
<1>12. \A i \in 1..n : (d \o c)[i] = s[i]
  BY <1>8, <1>9, <1>10
<1> QED BY <1>8, <1>9, <1>10, <1>11, <1>12 DEF SameUpTo

\* The base of a factory that is to be installed is installed or none of the plugins'.
LEMMA BaseFound ==
  ASSUME IInv, NEW f \in Factories, ~installed[f]
  PROVE  LET b == FindBaseFactory(f) IN
         b \in 0..Game /\ (b \in Factories => installed[b] /\ b # f)
<1>1. TypeOK /\ NameFits
  BY DEF IInv, Named
<1>2. PICK d \in DeriveInfo : d = derive[f]
  BY <1>1 DEF TypeOK
<1>3. None \in 0..Game /\ Game \in 0..Game /\ Factories \subseteq 0..Game /\ 0..MaxFactories \subseteq 0..Game
      /\ None \notin Factories /\ Game \notin Factories
  BY ConstantsOK DEF Game, None, Factories
<1>4. CASE d.from = "class"
  <2>1. d.class \in Classnames
    BY <1>2, <1>4 DEF DeriveInfo
  <2>2. dict[d.class] \in 0..MaxFactories
    BY <1>1, <2>1 DEF TypeOK
  <2>3. \/ FindBaseFactory(f) \in {None, Game}
        \/ FindBaseFactory(f) = dict[d.class] /\ dict[d.class] # None /\ dict[d.class] # f
    BY <1>2, <1>4 DEF FindBaseFactory
  <2>4. dict[d.class] # None => installed[dict[d.class]]
    BY <1>1, <2>1 DEF NameFits
  <2> QED BY <1>3, <2>2, <2>3, <2>4
<1>5. CASE d.from = "handle"
  <2>1. d.factory \in Factories
    BY <1>2, <1>5 DEF DeriveInfo
  <2>2. FindBaseFactory(f) = None \/ (FindBaseFactory(f) = d.factory /\ installed[d.factory])
    BY <1>2, <1>5 DEF FindBaseFactory
  <2> QED BY <1>3, <2>1, <2>2
<1>6. CASE d.from \notin {"class", "handle"}
  <2>1. FindBaseFactory(f) \in {None, Game}
    BY <1>2, <1>6 DEF FindBaseFactory
  <2> QED BY <1>3, <2>1
<1> QED BY <1>4, <1>5, <1>6

\* A factory that is not installed has no derived factories.
LEMMA NoneDerived ==
  ASSUME TypeOK, Registered, Hierarchy, NEW f \in Factories, ~installed[f]
  PROVE  count[f] = 0 /\ base[f] = None /\ \A x \in Upright : base[x] # f
<1>1. HierarchyAt(f) /\ count[f] \in Nat /\ slots[f] \in Seq(Factories)
  BY DEF Hierarchy, TypeOK
<1>2. \A x \in Upright : base[x] # f
  BY DEF Upright, Hierarchy, HierarchyAt
<1>3. count[f] = 0
  <2> SUFFICES ASSUME count[f] # 0 PROVE FALSE
    OBVIOUS
  <2>1. 1 \in 1..count[f] /\ 1 \in 1..Len(slots[f])
    BY <1>1 DEF HierarchyAt
  <2>2. slots[f][1] \in Factories /\ installed[slots[f][1]] /\ base[slots[f][1]] = f
    BY <1>1, <2>1 DEF HierarchyAt
  <2> QED BY <1>2, <2>2 DEF Upright
<1>4. base[f] = None
  BY DEF Registered
<1> QED BY <1>2, <1>3, <1>4

\* Installing puts a factory at the tail of its base's derived factories.
LEMMA InstallHierarchy ==
  ASSUME TypeOK, Registered, Hierarchy, NEW f \in Factories, f \in Live, ~installed[f],
         NEW b \in 0..Game, b \in Factories => installed[b] /\ b # f,
         base' = [base EXCEPT ![f] = b], installed' = [installed EXCEPT ![f] = TRUE],
         IF ToPlugin(b) # None THEN AddDerived(b, f) ELSE UNCHANGED <<slots, count>>
  PROVE  /\ Hierarchy' /\ slots' \in [Factories -> Seq(Factories)] /\ count' \in [Factories -> Nat]
<1>1. /\ slots \in [Factories -> Seq(Factories)] /\ count \in [Factories -> Nat]
      /\ base \in [Factories -> 0..Game] /\ installed \in [Factories -> BOOLEAN]
  BY DEF TypeOK
<1>2. count[f] = 0 /\ base[f] = None /\ \A x \in Upright : base[x] # f
  BY NoneDerived
<1>3. /\ base'[f] = b /\ \A g \in Factories : g # f => base'[g] = base[g]
      /\ installed'[f] /\ \A g \in Factories : installed[g] => installed'[g] /\ g # f
  BY <1>1
<1>4. b \in Live <=> b \in Factories
  BY BasesInstalled DEF Registered
<1>5. /\ slots' \in [Factories -> Seq(Factories)] /\ count' \in [Factories -> Nat]
      /\ \A g \in Factories : g # b => slots'[g] = slots[g] /\ count'[g] = count[g]
      /\ b \in Factories => /\ count'[b] = count[b] + 1 /\ count'[b] <= Len(slots'[b])
                            /\ slots'[b][count[b] + 1] = f
                            /\ \A i \in 1..count[b] : slots'[b][i] = slots[b][i]
  <2>1. CASE b \in Factories
    <3>1. b # None
      BY <2>1 DEF Factories, None
    <3>2. AddDerived(b, f)
      BY <1>4, <2>1, <3>1 DEF ToPlugin
    <3>3. PICK s \in Seq(Factories) : s = slots[b]
      BY <1>1, <2>1
    <3>4. PICK n \in Nat : n = count[b]
      BY <1>1, <2>1
    <3>5. n <= Len(s)
      BY <2>1, <3>3, <3>4 DEF Hierarchy, HierarchyAt
    <3>6. PICK t : t = Tailed(s, n, f)
      OBVIOUS
    <3>7. t \in Seq(Factories) /\ n + 1 <= Len(t) /\ t[n + 1] = f /\ \A i \in 1..n : t[i] = s[i]
      <4>1. n <= Len(s) /\ t = Tailed(s, n, f) /\ s \in Seq(Factories) /\ n \in Nat /\ f \in Factories
        BY <3>5, <3>6
      <4>2. t \in Seq(Factories)
        BY ONLY <4>1, Added
      <4>3. n + 1 <= Len(t)
        BY <4>1, Added
      <4>4. t[n + 1] = f
        BY <4>1, Added
      <4>5. SameUpTo(n, t, s)
        BY <4>1, Added
      <4> QED BY <4>2, <4>3, <4>4, <4>5 DEF SameUpTo
    <3>8. slots' = [slots EXCEPT ![b] = t]
      BY <3>2, <3>3, <3>4, <3>6 DEF AddDerived, Tailed
    <3>9. count' = [count EXCEPT ![b] = n + 1]
      BY <3>2, <3>4 DEF AddDerived
    <3> HIDE <3>6
    <3>10. slots' \in [Factories -> Seq(Factories)] /\ slots'[b] = t
           /\ \A g \in Factories : g # b => slots'[g] = slots[g]
      BY <1>1, <2>1, <3>7, <3>8
    <3>11. count' \in [Factories -> Nat] /\ count'[b] = n + 1
           /\ \A g \in Factories : g # b => count'[g] = count[g]
      BY <1>1, <2>1, <3>9
    <3> QED BY <3>3, <3>4, <3>7, <3>10, <3>11
  <2>2. CASE b \notin Factories
    <3>1. slots' = slots /\ count' = count
      BY <1>4, <2>2 DEF ToPlugin
    <3> QED BY <1>1, <2>2, <3>1
  <2> QED BY <2>1, <2>2
<1>6. ASSUME NEW g \in Factories, NEW i \in 1..count[g]
      PROVE  slots'[g][i] = slots[g][i] /\ i \in 1..count'[g]
  <2>1. CASE g = b
    <3>1. count[g] \in Nat
      BY <1>1
    <3>2. i \in 1..(count[g] + 1)
      BY <3>1
    <3> QED BY <1>5, <2>1, <3>2
  <2>2. CASE g # b
    BY <1>5, <2>2
  <2> QED BY <2>1, <2>2
<1>7. ASSUME NEW g \in Factories, NEW i \in 1..count[g]
      PROVE  slots[g][i] \in Factories /\ installed[slots[g][i]] /\ base[slots[g][i]] = g
  <2>1. HierarchyAt(g) /\ slots[g] \in Seq(Factories) /\ count[g] \in Nat
    BY <1>1 DEF Hierarchy
  <2>2. i \in 1..Len(slots[g])
    BY <2>1 DEF HierarchyAt
  <2> QED BY <2>1, <2>2 DEF HierarchyAt
<1>8. ASSUME NEW g \in Factories PROVE HierarchyAt(g)'
  <2>1. HierarchyAt(g) /\ count[g] \in Nat
    BY <1>1 DEF Hierarchy
  <2>2. count'[g] <= Len(slots'[g])
    BY <1>5, <2>1 DEF HierarchyAt
  <2>3. base'[g] \in Factories =>
          installed'[base'[g]] /\ \E i \in 1..count'[base'[g]] : slots'[base'[g]][i] = g
    <3>1. CASE g = f
      <4>1. b \in Factories => count[b] \in Nat /\ count[b] + 1 \in 1..(count[b] + 1)
        BY <1>1
      <4> QED BY <1>3, <1>5, <3>1, <4>1
    <3>2. CASE g # f
      <4> SUFFICES ASSUME base[g] \in Factories
                   PROVE  installed'[base[g]] /\ \E i \in 1..count'[base[g]] : slots'[base[g]][i] = g
        BY <1>3, <3>2
      <4>1. PICK i \in 1..count[base[g]] : slots[base[g]][i] = g
        BY <2>1 DEF HierarchyAt
      <4>2. installed[base[g]]
        BY <2>1 DEF HierarchyAt
      <4> QED BY <1>3, <1>6, <4>1, <4>2
    <3> QED BY <3>1, <3>2
  <2>4. \A i \in 1..count'[g] : i \in 1..count[g] \/ (g = b /\ slots'[g][i] = f)
    <3>1. CASE g = b
      <4>1. \A i \in 1..(count[g] + 1) : i \in 1..count[g] \/ i = count[g] + 1
        BY <2>1
      <4> QED BY <1>5, <3>1, <4>1
    <3>2. CASE g # b
      BY <1>5, <3>2
    <3> QED BY <3>1, <3>2
  <2>5. \A i \in 1..count'[g] : installed'[slots'[g][i]] /\ base'[slots'[g][i]] = g
    BY <1>3, <1>6, <1>7, <2>4
  <2>6. ASSUME NEW i \in 1..count'[g], NEW j \in 1..count'[g], slots'[g][i] = slots'[g][j]
        PROVE  i = j
    <3>1. CASE i \in 1..count[g] /\ j \in 1..count[g]
      BY <1>6, <2>1, <2>6, <3>1 DEF HierarchyAt
    <3>2. CASE ~(i \in 1..count[g] /\ j \in 1..count[g])
      <4>1. g = b /\ \A k \in 1..count[g] : slots'[g][k] # f
        BY <1>3, <1>6, <1>7, <2>4, <3>2
      <4>2. i \notin 1..count[g] /\ j \notin 1..count[g]
        BY <2>4, <2>6, <3>2, <4>1
      <4>3. i \in 1..(count[g] + 1) /\ j \in 1..(count[g] + 1)
        BY <1>5, <4>1
      <4> QED BY <2>1, <4>2, <4>3
    <3> QED BY <3>1, <3>2
  <2> QED BY <2>2, <2>3, <2>5, <2>6 DEF HierarchyAt
<1> QED BY <1>5, <1>8 DEF Hierarchy

\* Install.
LEMMA InstallKeeps ==
  ASSUME IInv, CallsBack \subseteq Survivable, NEW f \in Factories, Install(f)
  PROVE  IInv'
<1>1. PICK b : b = FindBaseFactory(f)
  OBVIOUS
<1>2. /\ PluginCode("install") /\ f \in Live /\ ~installed[f] /\ ClassnameFree(f)
      /\ base' = [base EXCEPT ![f] = b]
      /\ IF ToPlugin(b) # None THEN AddDerived(b, f) ELSE UNCHANGED <<slots, count>>
      /\ dict' = IF f \in Abstract THEN dict ELSE [dict EXCEPT ![Class[f]] = f]
      /\ installed' = [installed EXCEPT ![f] = TRUE]
      /\ Calls(<<Do("onInstalled", f, None)>>)
  BY <1>1 DEF Install
<1>2a. /\ UNCHANGED <<factories, closed, derive>> /\ UNCHANGED <<created, record, fields, killed, gone>>
       /\ hooked' = hooked
  BY DEF Install, population
<1>3. /\ TypeOK /\ Ordered /\ Installing /\ FramesFit /\ Registered /\ Hierarchy
  BY DEF IInv
<1>4. \A k \in Place : ctl[k].op = "onInstalled"
  <2>1. ctl # <<>> => Top.op = "onInstalled"
    BY <1>2, CallsFrom
  <2> QED BY <2>1, OnlyInstalling
<1>5. Peaceful
  BY <1>4, PeaceKnows DEF Uninstalling, Emptying
<1>6. b \in 0..Game /\ (b \in Factories => installed[b] /\ b # f)
  BY <1>1, <1>2, BaseFound
<1>7. Hierarchy' /\ slots' \in [Factories -> Seq(Factories)] /\ count' \in [Factories -> Nat]
  BY <1>2, <1>3, <1>6, InstallHierarchy
<1> HIDE <1>1
<1>8. /\ base \in [Factories -> 0..Game] /\ installed \in [Factories -> BOOLEAN]
      /\ dict \in [Classnames -> 0..MaxFactories] /\ Class[f] \in Classnames
      /\ f \in 0..MaxFactories /\ f # None
  <2>1. f \in 0..MaxFactories /\ f # None
    BY ConstantsOK DEF Factories, None
  <2>2. Class[f] \in Classnames
    BY ConstantsOK
  <2> QED BY <1>3, <2>1, <2>2 DEF TypeOK
<1>9. /\ base' \in [Factories -> 0..Game] /\ installed' \in [Factories -> BOOLEAN]
      /\ dict' \in [Classnames -> 0..MaxFactories]
      /\ base'[f] = b /\ installed'[f]
      /\ \A g \in Factories : g # f => base'[g] = base[g] /\ installed'[g] = installed[g]
  BY <1>2, <1>6, <1>8
<1>10. f \notin closed
  BY <1>2, LiveFactories
<1>11. PICK x : x = Do("onInstalled", f, None)
  OBVIOUS
<1>12. x \in Frame /\ x.op = "onInstalled" /\ FrameFit(x)
  BY <1>10, <1>11, FactoryFrame DEF Leaving
<1>13. PICK fs : fs = <<x>>
  OBVIOUS
<1>14. fs \in Seq(Frame) /\ Len(fs) = 1 /\ fs[1] = x /\ Calls(fs)
  BY <1>2, <1>11, <1>12, <1>13, OneFrame
<1> HIDE <1>11, <1>13
<1>15. PICK p \in {0, 1} : p = 0
  OBVIOUS
<1>16. PICK t : Puts(t, fs, p)
  BY <1>3, <1>14, <1>15, CallsPut
<1>17. \A k \in 1..Len(fs) : k = 1 /\ t[k] = x
  BY <1>14, <1>16 DEF Puts
<1>18. /\ \A k \in 1..Len(t) : k \in 1..Len(fs) \/ \E i \in Place : t[k] = ctl[i]
       /\ t = ctl' /\ t \in Seq(Frame)
  BY <1>3, <1>16, OldPlaces
<1>19. Ordered'
  <2>1. Over("onInstalled", "onInstalled")
    BY DEF Over, Leaving
  <2>2. \A j, k \in 1..Len(fs) : j < k => Over(t[j].op, t[k].op)
    BY <1>12, <1>17, <2>1
  <2>3. \A j \in 1..Len(fs), i \in Place : i > p => Over(t[j].op, ctl[i].op)
    BY <1>4, <1>12, <1>17, <2>1
  <2> QED BY <1>3, <1>16, <2>2, <2>3, OrderRests
<1>20. Installing'
  BY <1>3, <1>4, <1>12, <1>16, <1>17, InstallingRests
<1>21. FramesFit'
  BY <1>2a, <1>3, <1>12, <1>16, <1>17, FramesFitRest
<1>22. TypeOK'
  BY <1>2a, <1>3, <1>7, <1>9, <1>18 DEF TypeOK
<1>23. Live' = Live
  BY <1>2a DEF Live
<1>24. Registered'
  BY <1>2, <1>2a, <1>3, <1>9, <1>23 DEF Registered
<1>25. \A g \in Upright : g # f /\ Line(base', Live', g) = Line(base, Live, g)
  <2>1. \A g \in Upright : g # f /\ base'[g] = base[g]
    BY <1>2, <1>9 DEF Upright
  <2>2. \A g \in Upright : BaseOf(base, Live, g) \in Upright \cup {None}
    BY <1>3, BasesInstalled
  <2>3. \A g \in Upright : base[g] \in Factories => base[g] \in Live'
    BY <1>3, <1>23 DEF Hierarchy, HierarchyAt, Upright, Registered
  <2>4. Live' \subseteq Factories
    BY <1>23, LiveFactories
  <2> QED BY <1>3, <2>1, <2>2, <2>3, <2>4, LinesStay
<1>26. Peaceful'
  <2>1. NameFits'
    <3>1. ASSUME NEW c \in Classnames, dict'[c] # None
          PROVE  installed'[dict'[c]] /\ dict'[c] \notin Abstract /\ Class[dict'[c]] = c
      <4>1. (dict'[c] = f /\ f \notin Abstract /\ c = Class[f]) \/ dict'[c] = dict[c]
        BY <1>2, <1>8
      <4>2. CASE dict'[c] = f /\ f \notin Abstract /\ c = Class[f]
        BY <1>9, <4>2
      <4>3. CASE dict'[c] = dict[c]
        <5>1. installed[dict[c]] /\ dict[c] \notin Abstract /\ Class[dict[c]] = c
          BY <1>5, <3>1, <4>3 DEF Peaceful, NameFits
        <5>2. dict[c] \in Factories
          BY <1>8, <3>1, <4>3 DEF Factories, None
        <5> QED BY <1>9, <4>3, <5>1, <5>2
      <4> QED BY <4>1, <4>2, <4>3
    <3> QED BY <3>1 DEF NameFits
  <2>2. ASSUME NEW g \in Factories, installed'[g], g \notin Abstract PROVE dict'[Class[g]] = g
    <3>1. CASE g = f
      BY <1>2, <1>8, <2>2, <3>1
    <3>2. CASE g # f
      <4>1. installed[g] /\ dict[Class[g]] = g /\ Class[g] \in Classnames
        BY <1>5, <1>9, <2>2, <3>2, ConstantsOK DEF Peaceful
      <4>2. g # None
        BY DEF Factories, None
      <4>3. f \notin Abstract => Class[g] # Class[f]
        BY <1>2, <4>1, <4>2 DEF ClassnameFree
      <4> QED BY <1>2, <1>8, <4>1, <4>3
    <3> QED BY <3>1, <3>2
  <2>3. \A e \in Entities : RecordFits(e)' /\ FieldsFit(e)'
    <3> TAKE e \in Entities
    <3>1. FieldsFit(e) /\ RecordFits(e)
      BY <1>5 DEF Peaceful
    <3>2. record[e] # None => record[e] \in Upright
      BY <1>3, <3>1 DEF RecordFits, TypeOK, Upright, Factories, None
    <3>3. FieldsFit(e)'
      BY <1>2a, <1>25, <3>1, <3>2 DEF FieldsFit
    <3>4. record[e] # None => installed'[record[e]]
      BY <1>9, <1>25, <3>2 DEF Upright
    <3> QED BY <1>2a, <3>1, <3>3, <3>4 DEF RecordFits
  <2>4. /\ (\A e \in Entities : e <= created /\ e \notin gone => record[e] # None)'
        /\ (\A e \in Entities : e \in killed => record[e] = None)'
        /\ (\A e \in Entities : record[e] = None => fields[e] = {})'
        /\ (gone \subseteq killed /\ killed \subseteq 1..created)'
    BY <1>2a, <1>5 DEF Peaceful
  <2> QED BY <2>1, <2>2, <2>3, <2>4 DEF Peaceful
<1>27. \A k \in 1..Len(ctl') : ctl'[k].op \in Peace
  BY <1>4, <1>12, <1>17, <1>18 DEF Peace
<1> QED BY <1>7, <1>19, <1>20, <1>21, <1>22, <1>24, <1>26, <1>27, PeaceSuffices
-----------------------------------------------------------------------------
(***************************************************************************)
(* Steps that create entities and their fields, and destroy them.          *)
(***************************************************************************)

\* Constructions come on top of everything.
LEMMA BuildsInOrder ==
  ASSUME IInv, NEW t, NEW fs, NEW p, Puts(t, fs, p),
         \A k \in 1..Len(fs) : fs[k].op \in Building
  PROVE  Ordered' /\ Installing' /\ \A k \in 1..Len(fs) : t[k] = fs[k]
<1>1. TypeOK /\ Ordered /\ Installing /\ ctl \in Seq(Frame)
  BY DEF IInv, TypeOK
<1>2. \A k \in 1..Len(fs) : t[k] = fs[k]
  BY DEF Puts
<1>3. ASSUME NEW a \in Building, NEW b \in Ops PROVE Over(a, b)
  <2>1. Rank(a) = 0 /\ Rank(b) \in Nat
    BY Ranks, RankNumbers
  <2> QED BY <2>1 DEF Over
<1>4. Building \subseteq Ops
  BY DEF Building, Ops, Callbacks
<1>5. \A i \in Place : ctl[i].op \in Ops
  BY <1>1, FramesTyped DEF Place
<1>6. \A j, k \in 1..Len(fs) : j < k => Over(t[j].op, t[k].op)
  BY <1>2, <1>3, <1>4
<1>7. \A j \in 1..Len(fs), i \in Place : i > p => Over(t[j].op, ctl[i].op)
  BY <1>2, <1>3, <1>5
<1>8. Ordered'
  BY <1>1, <1>6, <1>7, OrderRests
<1>9. \A k \in 1..Len(fs) : t[k].op \in Building
  BY <1>2
<1>10. Installing'
  BY <1>1, <1>9, InstallingRests
<1> QED BY <1>2, <1>8, <1>10

\* What a frame of a construction does not claim.
LEMMA BuildingFits ==
  ASSUME NEW t, NEW k, t[k].op \in Building
  PROVE  WithdrawnAt(t, k) /\ NameGone(t, k) /\ DeletingAt(t, k) /\ KilledAt(t, k) /\ EmptiedAt(t, k)
         /\ t[k].op # "removeEntity" /\ t[k].op # "onEnd" /\ t[k].op # "destruct"
<1>1. /\ t[k].op \notin Emptying /\ t[k].op \notin Uninstalling
      /\ t[k].op \notin {"children", "delete", "destruct", "onEnd", "removeEach", "detach", "removeEntity"}
  BY DEF Building, Emptying, Uninstalling
<1> QED BY <1>1 DEF WithdrawnAt, NameGone, DeletingAt, KilledAt, EmptiedAt

\* Steps that create fields or an entity keep the hierarchy.
LEMMA BuildsKeep ==
  ASSUME IInv, NEW t, NEW fs, NEW p, Puts(t, fs, p), p = 1 => ctl[1].op \in Building,
         \A k \in 1..Len(fs) : fs[k].op \in Building,
         UNCHANGED <<factories, closed, installed, base, slots, count, dict>>
  PROVE  Registered' /\ Hierarchy' /\ Withdrawn' /\ Named' /\ Deleting'
<1>1. TypeOK /\ Registered /\ Hierarchy /\ Withdrawn /\ Named /\ Deleting /\ FramesFit
  BY DEF IInv
<1>2. \A k \in 1..Len(fs) : t[k].op \in Building
  BY BuildsInOrder
<1>3. Passed(t, Len(fs), p)
  <2>1. \A a \in Building : a \notin Uninstalling /\ a # "uninstall"
    BY DEF Building, Uninstalling, Emptying
  <2> QED BY <2>1 DEF Passed
<1>4. Registered' /\ Hierarchy'
  BY <1>1 DEF Registered, Live, Hierarchy, HierarchyAt
<1>5. \A k \in 1..Len(fs) : WithdrawnAt(t, k) /\ NameGone(t, k) /\ DeletingAt(t, k)
  BY <1>2, BuildingFits
<1>6. Withdrawn'
  BY <1>1, <1>3, <1>5, WithdrawnRests
<1>7. Named'
  BY <1>1, <1>3, <1>5, NamedRests
<1>8. Deleting'
  BY <1>1, <1>3, <1>5, DeletingRests
<1> QED BY <1>4, <1>6, <1>7, <1>8

\* A frame of a construction.
LEMMA BuildingFrame ==
  ASSUME IInv, NEW f \in Factories, f \notin closed, NEW e \in Entities,
         NEW op \in {"attachNextBot", "postConstruct"}
  PROVE  /\ Do(op, f, e) \in Frame /\ Do(op, f, e).op = op /\ Do(op, f, e).f = f /\ Do(op, f, e).e = e
         /\ Do(op, f, e).es = {} /\ Do(op, f, e).fs = <<>>
<1>1. op \in Ops /\ f \in 0..MaxFactories /\ e \in 0..MaxEntities
  BY ConstantsOK DEF Ops, Callbacks, Factories, Entities
<1> QED BY <1>1, DoFrame

\* The frame of RecursiveCreate.
LEMMA ConstructFrame ==
  ASSUME NEW f \in Factories, NEW e \in Entities, NEW levels \in Seq(Factories), NEW x, x = Construct(f, e, levels)
  PROVE  x \in Frame /\ x.op = "construct" /\ x.f = f /\ x.e = e /\ x.es = {} /\ x.fs = levels
<1>1. "construct" \in Ops /\ f \in 0..MaxFactories /\ e \in 0..MaxEntities
  BY ConstantsOK DEF Ops, Callbacks, Factories, Entities
<1>2. PICK y : y = Do("construct", f, e)
  OBVIOUS
<1>3. y \in Frame /\ y.op = "construct" /\ y.f = f /\ y.e = e /\ y.es = {}
  BY <1>1, <1>2, DoFrame
<1>4. x = [y EXCEPT !.fs = levels]
  BY <1>2 DEF Construct
<1> QED BY <1>3, <1>4 DEF Frame

\* A frame about an entity stays fit when there are more entities.
LEMMA FitsGrown ==
  ASSUME TypeOK, FramesFit, NEW t, NEW fs, NEW p, Puts(t, fs, p), UNCHANGED <<closed, gone>>,
         created' \in Nat, created <= created',
         \A k \in 1..Len(fs) : FrameFit(ctl[k])'
  PROVE  FramesFit'
<1>1. t = ctl' /\ Place' = 1..Len(t) /\ created \in Nat
  <2>1. created \in 0..MaxEntities
    BY DEF TypeOK
  <2>2. created \in Nat
    BY <2>1, ConstantsOK
  <2> QED BY <2>2, OldPlaces
<1>2. ASSUME NEW k \in 1..Len(t) PROVE FrameFit(ctl[k])'
  <2>1. CASE k \in 1..Len(fs)
    BY <2>1
  <2>2. CASE k \notin 1..Len(fs)
    <3>1. PICK i \in Place : t[k] = ctl[i]
      BY <2>2, OldPlaces
    <3>2. FrameFit(ctl[i])
      BY DEF FramesFit
    <3>3. \A e \in 1..created : e \in 1..created'
      BY <1>1
    <3> QED BY <1>1, <3>1, <3>2, <3>3 DEF FrameFit
  <2> QED BY <2>1, <2>2
<1> QED BY <1>1, <1>2 DEF FramesFit

\* Create.
LEMMA CreateKeeps ==
  ASSUME IInv, NEW c \in Classnames, Create(c)
  PROVE  IInv'
<1>1. PICK f : f = dict[c]
  OBVIOUS
<1>2. PICK e : e = created + 1
  OBVIOUS
<1>3. PICK levels : levels = FromRoot(f)
  OBVIOUS
<1>4. /\ f # None /\ created < MaxEntities /\ created' = e /\ record' = [record EXCEPT ![e] = f]
      /\ Calls(<<Do("attachNextBot", levels[1], e), Construct(f, e, levels)>>)
  BY <1>1, <1>2, <1>3 DEF Create
<1>5. /\ UNCHANGED <<factories, closed, derive, installed, base, slots, count, dict>>
      /\ UNCHANGED <<fields, killed, gone>> /\ hooked' = hooked
  BY DEF Create, hierarchy
<1>6. /\ TypeOK /\ FramesFit /\ Registered /\ Hierarchy /\ Named /\ Recorded /\ Emptied /\ Filled
  BY DEF IInv
<1>7. /\ created \in Nat /\ record \in [Entities -> 0..MaxFactories] /\ MaxEntities \in Nat
      /\ created \in 0..MaxEntities
  BY <1>6, ConstantsOK DEF TypeOK
<1>8. /\ e \in Entities /\ e \in 0..MaxEntities /\ e # created /\ e \notin 1..created /\ e \in 1..e
      /\ created <= e /\ e \in Nat /\ \A d \in Entities : d <= e => d <= created \/ d = e
  BY <1>2, <1>4, <1>7 DEF Entities
<1>9. f \in Upright /\ f \in Factories
  <2>1. f \in 0..MaxFactories /\ installed[f]
    BY <1>1, <1>4, <1>6 DEF TypeOK, Named, NameFits
  <2> QED BY <1>4, <2>1 DEF Upright, Factories, None
<1>10. /\ levels \in Seq(Factories) /\ levels # <<>>
       /\ \A i \in DOMAIN levels : levels[i] \in Line(base, Live, f)
  BY <1>3, <1>6, <1>9, FromRootIs
<1>11. \A i \in DOMAIN levels : levels[i] \in Factories /\ levels[i] \notin closed
  BY <1>6, <1>9, <1>10, LineInstalled, LiveFactories
<1> HIDE <1>1, <1>2, <1>3
<1>12. 1 \in DOMAIN levels
  BY <1>10
<1>13. f \notin closed
  BY <1>9, LiveFactories
<1>14. PICK x : x = Do("attachNextBot", levels[1], e)
  OBVIOUS
<1>15. /\ x \in Frame /\ x.op = "attachNextBot" /\ x.f = levels[1] /\ x.e = e /\ x.es = {}
       /\ x.fs = <<>>
  BY <1>8, <1>11, <1>12, <1>14, BuildingFrame
<1>16. PICK y : y = Construct(f, e, levels)
  OBVIOUS
<1>17. y \in Frame /\ y.op = "construct" /\ y.f = f /\ y.e = e /\ y.es = {} /\ y.fs = levels
  BY <1>8, <1>9, <1>10, <1>16, ConstructFrame
<1>18. PICK fs : fs = <<x, y>>
  OBVIOUS
<1>19. fs \in Seq(Frame) /\ Len(fs) = 2 /\ fs[1] = x /\ fs[2] = y /\ Calls(fs)
  BY <1>4, <1>14, <1>15, <1>16, <1>17, <1>18, TwoFrames
<1> HIDE <1>14, <1>16, <1>18
<1>20. \A k \in 1..Len(fs) : k = 1 \/ k = 2
  BY <1>19
<1>21. \A k \in 1..Len(fs) : fs[k].op \in Building
  BY <1>15, <1>17, <1>19, <1>20 DEF Building
<1>22. PICK p \in {0, 1} : p = 0
  OBVIOUS
<1>23. PICK t : Puts(t, fs, p)
  BY <1>6, <1>19, <1>22, CallsPut
<1>24. Ordered' /\ Installing' /\ \A k \in 1..Len(fs) : t[k] = fs[k]
  BY <1>21, <1>23, BuildsInOrder
<1>25. Registered' /\ Hierarchy' /\ Withdrawn' /\ Named' /\ Deleting'
  BY <1>5, <1>21, <1>22, <1>23, BuildsKeep
<1>26. /\ \A k \in 1..Len(t) : k \in 1..Len(fs) \/ \E i \in Place : t[k] = ctl[i]
       /\ \A i \in Place : \E k \in 1..Len(t) : t[k] = ctl[i]
       /\ t = ctl' /\ t \in Seq(Frame) /\ Place' = 1..Len(t)
  <2>1. \A i \in Place : i > p
    BY <1>6, <1>22 DEF TypeOK, Place
  <2>2. \A i \in Place : i > p => i - p + Len(fs) \in 1..Len(t) /\ t[i - p + Len(fs)] = ctl[i]
    BY <1>6, <1>23, OldPlaces
  <2>3. \A k \in 1..Len(t) : k \in 1..Len(fs) \/ \E i \in Place : t[k] = ctl[i]
    BY <1>6, <1>23, OldPlaces
  <2>4. t = ctl' /\ t \in Seq(Frame) /\ Place' = 1..Len(t)
    BY <1>6, <1>23, OldPlaces
  <2> QED BY <2>1, <2>2, <2>3, <2>4
<1>27. TypeOK'
  <2>1. f \in 0..MaxFactories
    BY <1>9 DEF Factories
  <2>2. record' \in [Entities -> 0..MaxFactories] /\ created' \in 0..MaxEntities
    BY <1>4, <1>7, <1>8, <2>1
  <2> QED BY <1>5, <1>6, <1>26, <2>2 DEF TypeOK
<1>28. FramesFit'
  <2>1. e \notin gone
    BY <1>6, <1>8 DEF Recorded
  <2>2. \A k \in 1..Len(fs) : FrameFit(ctl[k])'
    <3> TAKE k \in 1..Len(fs)
    <3>1. t[k] = x \/ t[k] = y
      BY <1>19, <1>20, <1>24
    <3>2. CASE t[k] = x
      BY <1>4, <1>5, <1>8, <1>11, <1>12, <1>15, <1>26, <2>1, <3>2
         DEF FrameFit, Emptying, Leaving, Closers, Destroying, Building
    <3>3. CASE t[k] = y
      BY <1>4, <1>5, <1>8, <1>9, <1>11, <1>13, <1>17, <1>26, <2>1, <3>3
         DEF FrameFit, Emptying, Leaving, Closers, Destroying, Building
    <3> QED BY <3>1, <3>2, <3>3
  <2>3. created' \in Nat /\ created <= created'
    BY <1>4, <1>8
  <2> QED BY <1>5, <1>6, <1>23, <2>2, <2>3, FitsGrown
<1>29. /\ record[e] = None /\ fields[e] = {} /\ e \notin killed /\ e \notin gone
       /\ \A i \in Place : ctl[i].op \in {"onEnd", "destruct", "construct"} => ctl[i].e # e
       /\ record'[e] = f /\ \A d \in Entities : d # e => record'[d] = record[d]
  <2>1. \A i \in Place : ctl[i].op \in {"onEnd", "destruct", "construct"} => ctl[i].e # e
    BY <1>6, <1>8 DEF FramesFit, FrameFit, Building, Destroying
  <2>2. record[e] = None
    BY <1>6, <1>7, <1>8 DEF Recorded, RecordFits
  <2>3. fields[e] = {}
    BY <1>6, <1>8, <2>1, <2>2 DEF Filled, FieldsKnown, Place
  <2>4. e \notin killed /\ e \notin gone
    BY <1>6, <1>8 DEF Recorded
  <2>5. record'[e] = f /\ \A d \in Entities : d # e => record'[d] = record[d]
    BY <1>4, <1>7, <1>8
  <2> QED BY <2>1, <2>2, <2>3, <2>4, <2>5
<1>30. Recorded'
  <2>1. ASSUME NEW d \in Entities PROVE RecordFits(d)' /\ EntityKnown(ctl, d)' /\ KilledKnown(ctl, d)'
    <3>1. RecordFits(d) /\ EntityKnown(ctl, d) /\ KilledKnown(ctl, d)
      BY <1>6 DEF Recorded
    <3>2. CASE d = e
      <4>1. installed'[f] /\ e <= e
        BY <1>5, <1>8, <1>9 DEF Upright
      <4> QED BY <1>4, <1>5, <1>29, <3>2, <4>1 DEF RecordFits, EntityKnown, KilledKnown, Upright
    <3>3. CASE d # e
      <4>1. record'[d] = record[d] /\ (d <= created' => d <= created)
        BY <1>4, <1>8, <1>29, <3>3
      <4>1a. d <= created => d <= created'
        BY <1>4, <1>7, <1>8 DEF Entities
      <4>2. RecordFits(d)'
        BY <1>5, <3>1, <4>1, <4>1a DEF RecordFits
      <4>3. EntityKnown(ctl, d)'
        BY <1>5, <1>26, <3>1, <4>1 DEF EntityKnown, Place
      <4>4. KilledKnown(ctl, d)'
        BY <1>5, <1>26, <3>1, <4>1 DEF KilledKnown, Place
      <4> QED BY <4>2, <4>3, <4>4
    <3> QED BY <3>2, <3>3
  <2>2. \A k \in 1..Len(t) : KilledAt(ctl, k)'
    <3> TAKE k \in 1..Len(t)
    <3>1. CASE k \in 1..Len(fs)
      <4>1. KilledAt(t, k)
        BY <1>21, <1>24, <3>1, BuildingFits
      <4> QED BY <1>5, <1>26, <4>1 DEF KilledAt
    <3>2. CASE k \notin 1..Len(fs)
      <4>1. PICK i \in Place : t[k] = ctl[i]
        BY <1>26, <3>2
      <4>2. KilledAt(ctl, i)
        BY <1>6 DEF Recorded
      <4> QED BY <1>5, <1>26, <4>1, <4>2 DEF KilledAt
    <3> QED BY <3>1, <3>2
  <2>3. (gone \subseteq killed /\ killed \subseteq 1..created)'
    <3>1. gone \subseteq killed /\ killed \subseteq 1..created /\ 1..created \subseteq 1..e
      BY <1>6, <1>7, <1>8 DEF Recorded
    <3> QED BY <1>4, <1>5, <3>1
  <2> QED BY <1>26, <2>1, <2>2, <2>3 DEF Recorded
<1>31. Emptied'
  <2>1. ASSUME NEW k \in 1..Len(t) PROVE EmptiedAt(ctl, k)'
    <3>1. CASE k \in 1..Len(fs)
      <4>1. t[k].op # "removeEach" /\ t[k].op # "detach"
        BY <1>21, <1>24, <3>1 DEF Building
      <4> QED BY <1>26, <4>1 DEF EmptiedAt
    <3>2. CASE k \notin 1..Len(fs)
      <4>1. PICK i \in Place : t[k] = ctl[i]
        BY <1>26, <3>2
      <4>2. EmptiedAt(ctl, i) /\ NameGone(ctl, i) /\ FrameFit(ctl[i])
        BY <1>6 DEF Emptied, Named, FramesFit
      <4>3. ctl[i].op \in {"removeEach", "detach"} => ctl[i].f # f /\ ctl[i].f # None
        <5>1. \A a \in {"removeEach", "detach"} : a \in Uninstalling /\ a \in Emptying
          BY DEF Uninstalling, Emptying
        <5>2. None \notin Factories
          BY DEF None, Factories
        <5>3. f = dict[c]
          BY <1>1
        <5> QED BY <4>2, <5>1, <5>2, <5>3 DEF NameGone, FrameFit
      <4>4. ASSUME ctl[i].op = "removeEach"
            PROVE  /\ ctl[i].es \cap killed = {}
                   /\ \A d \in ctl[i].es : record'[d] = ctl[i].f
                   /\ \A d \in Entities : record'[d] = ctl[i].f /\ d \notin ctl[i].es =>
                        \E j \in 1..Len(t) : t[j].op \in {"removeEntity", "destruct"} /\ t[j].e = d
                   /\ \A j \in 1..Len(t) : t[j].op = "removeEntity" => t[j].e \notin ctl[i].es
        <5>1. ctl[i].es \cap killed = {} /\ \A d \in ctl[i].es : record[d] = ctl[i].f
          BY <4>2, <4>4 DEF EmptiedAt
        <5>2. ctl[i].es \subseteq Entities
          BY <1>6, FramesTyped DEF TypeOK, Place
        <5>3. \A d \in ctl[i].es : d # e /\ record'[d] = ctl[i].f
          BY <1>29, <4>3, <4>4, <5>1, <5>2
        <5>4. \A d \in Entities : record'[d] = ctl[i].f => record[d] = ctl[i].f
          BY <1>29, <4>3, <4>4
        <5>5. \A d \in Entities : record[d] = ctl[i].f /\ d \notin ctl[i].es =>
                \E j \in Place : ctl[j].op \in {"removeEntity", "destruct"} /\ ctl[j].e = d
          BY <4>2, <4>4 DEF EmptiedAt, Place
        <5>6. \A d \in Entities : record'[d] = ctl[i].f /\ d \notin ctl[i].es =>
                \E j \in 1..Len(t) : t[j].op \in {"removeEntity", "destruct"} /\ t[j].e = d
          BY <1>26, <5>4, <5>5
        <5>7. ASSUME NEW j \in 1..Len(t), t[j].op = "removeEntity" PROVE t[j].e \notin ctl[i].es
          <6>1. j \notin 1..Len(fs)
            BY <1>21, <1>24, <5>7 DEF Building
          <6>2. PICK h \in Place : t[j] = ctl[h]
            BY <1>26, <6>1
          <6> QED BY <4>2, <4>4, <5>7, <6>2 DEF EmptiedAt, Place
        <5> QED BY <5>1, <5>3, <5>6, <5>7
      <4>5. ctl[i].op = "detach" => \A d \in Entities : record'[d] # ctl[i].f
        BY <1>29, <4>2, <4>3 DEF EmptiedAt
      <4> QED BY <1>5, <1>26, <4>1, <4>4, <4>5 DEF EmptiedAt
    <3> QED BY <3>1, <3>2
  <2> QED BY <1>26, <2>1 DEF Emptied
<1>32. Filled'
  <2>1. Live' = Live /\ base' = base
    BY <1>5 DEF Live
  <2>2. ASSUME NEW d \in Entities PROVE FieldsFit(d)' /\ FieldsKnown(ctl, d)'
    <3>1. FieldsFit(d) /\ FieldsKnown(ctl, d)
      BY <1>6 DEF Filled
    <3>2. CASE d = e
      BY <1>4, <1>5, <1>29, <3>2 DEF FieldsFit, FieldsKnown
    <3>3. CASE d # e
      <4>1. FieldsFit(d)'
        BY <1>5, <1>29, <2>1, <3>1, <3>3 DEF FieldsFit
      <4>2. FieldsKnown(ctl, d)'
        BY <1>5, <1>26, <1>29, <3>1, <3>3 DEF FieldsKnown, Place
      <4> QED BY <4>1, <4>2
    <3> QED BY <3>2, <3>3
  <2>3. ASSUME NEW k \in 1..Len(t) PROVE FilledAt(ctl, k)'
    <3>1. CASE k \in 1..Len(fs)
      <4>1. t[k] = x \/ t[k] = y
        BY <1>19, <1>20, <1>24, <3>1
      <4>2. CASE t[k] = x
        BY <1>15, <1>26, <4>2 DEF FilledAt
      <4>3. CASE t[k] = y
        BY <1>10, <1>17, <1>26, <1>29, <2>1, <4>3 DEF FilledAt
      <4> QED BY <4>1, <4>2, <4>3
    <3>2. CASE k \notin 1..Len(fs)
      <4>1. PICK i \in Place : t[k] = ctl[i]
        BY <1>26, <3>2
      <4>2. FilledAt(ctl, i) /\ FrameFit(ctl[i])
        BY <1>6 DEF Filled, FramesFit
      <4>3. ctl[i].op \in {"onEnd", "construct"} => record'[ctl[i].e] = record[ctl[i].e]
        <5>1. ctl[i].op \in {"onEnd", "construct"} => ctl[i].e \in 1..created
          BY <4>2 DEF FrameFit, Building, Destroying
        <5>2. \A d \in 1..created : d \in Entities
          BY <1>7 DEF Entities
        <5> QED BY <1>29, <5>1, <5>2
      <4> QED BY <1>5, <1>26, <2>1, <4>1, <4>2, <4>3 DEF FilledAt
    <3> QED BY <3>1, <3>2
  <2> QED BY <1>26, <2>2, <2>3 DEF Filled
<1> QED BY <1>24, <1>25, <1>27, <1>28, <1>30, <1>31, <1>32 DEF IInv

\* CreateFields and the PostConstructor of the next level.
LEMMA ConstructGoesOn ==
  ASSUME IInv, RecursiveCreate, Top.fs # <<>>
  PROVE  IInv'
<1>1. PICK f : f = Top.f
  OBVIOUS
<1>2. PICK e : e = Top.e
  OBVIOUS
<1>3. PICK levels : levels = Top.fs
  OBVIOUS
<1>4. /\ ctl # <<>> /\ Top.op = "construct" /\ levels # <<>>
      /\ fields' = [fields EXCEPT ![e] = @ \cup {Head(levels)}]
      /\ Becomes(<<Do("postConstruct", Head(levels), e), Construct(f, e, Tail(levels))>>)
  BY <1>1, <1>2, <1>3 DEF RecursiveCreate, Running
<1>5. /\ UNCHANGED <<factories, closed, derive, installed, base, slots, count, dict>>
      /\ UNCHANGED <<created, record, killed, gone>> /\ hooked' = hooked
  BY DEF RecursiveCreate, hierarchy
<1>6. /\ TypeOK /\ FramesFit /\ Registered /\ Hierarchy /\ Recorded /\ Emptied /\ Filled
  BY DEF IInv
<1>7. Top = ctl[1] /\ 1 \in Place /\ FrameFit(Top) /\ levels \in Seq(Factories) /\ e \in 0..MaxEntities
  BY <1>2, <1>3, <1>4, Runs
<1>8. f \in Factories /\ f \notin closed /\ e \in 1..created /\ e \notin gone
  BY <1>1, <1>2, <1>4, <1>7 DEF FrameFit, Building
<1>9. created \in 0..MaxEntities /\ fields \in [Entities -> SUBSET Factories] /\ e \in Entities
  <2>1. created \in 0..MaxEntities /\ fields \in [Entities -> SUBSET Factories]
    BY <1>6 DEF TypeOK
  <2>2. MaxEntities \in Nat
    BY ConstantsOK
  <2>3. e \in 1..MaxEntities
    BY <1>8, <2>1, <2>2
  <2> QED BY <2>1, <2>3 DEF Entities
<1>10. record[e] = f /\ \A i \in DOMAIN levels : levels[i] \in Line(base, Live, f) /\ levels[i] \notin closed
  <2>1. FilledAt(ctl, 1)
    BY <1>6, <1>7 DEF Filled
  <2> QED BY <1>1, <1>2, <1>3, <1>4, <1>7, <2>1 DEF FilledAt, FrameFit
<1>11. PICK h \in Factories : h = Head(levels) /\ h \in Line(base, Live, f) /\ h \notin closed
  <2>1. Head(levels) = levels[1] /\ 1 \in DOMAIN levels /\ levels[1] \in Factories
    BY <1>4, <1>7
  <2> QED BY <1>10, <2>1
<1>12. PICK rest \in Seq(Factories) : rest = Tail(levels)
  <2>1. levels \in Seq(Factories) /\ levels # <<>>
    BY <1>4, <1>7
  <2>2. Tail(levels) \in Seq(Factories)
    BY ONLY <2>1
  <2> QED BY <2>2
<1>13. \A i \in DOMAIN rest : rest[i] \in Line(base, Live, f) /\ rest[i] \notin closed
  <2>1. \A i \in DOMAIN rest : i + 1 \in DOMAIN levels /\ rest[i] = levels[i + 1]
    BY <1>4, <1>7, <1>12
  <2> QED BY <1>10, <2>1
<1>14. PICK x : x = Do("postConstruct", h, e)
  OBVIOUS
<1>15. x \in Frame /\ x.op = "postConstruct" /\ x.f = h /\ x.e = e /\ x.es = {} /\ x.fs = <<>>
  BY <1>9, <1>11, <1>14, BuildingFrame
<1>16. PICK y : y = Construct(f, e, rest)
  OBVIOUS
<1>17. y \in Frame /\ y.op = "construct" /\ y.f = f /\ y.e = e /\ y.es = {} /\ y.fs = rest
  BY <1>8, <1>9, <1>16, ConstructFrame
<1>18. PICK fs : fs = <<x, y>>
  OBVIOUS
<1>19. fs \in Seq(Frame) /\ Len(fs) = 2 /\ fs[1] = x /\ fs[2] = y /\ Becomes(fs)
  BY <1>4, <1>11, <1>12, <1>14, <1>15, <1>16, <1>17, <1>18, TwoFrames
<1> HIDE <1>1, <1>2, <1>3, <1>12, <1>14, <1>16, <1>18
<1>20. \A k \in 1..Len(fs) : k = 1 \/ k = 2
  BY <1>19
<1>21. \A k \in 1..Len(fs) : fs[k].op \in Building
  BY <1>15, <1>17, <1>19, <1>20 DEF Building
<1>22. PICK p \in {0, 1} : p = 1
  OBVIOUS
<1>23. PICK t : Puts(t, fs, p)
  BY <1>4, <1>6, <1>19, <1>22, BecomesPut
<1>24. Ordered' /\ Installing' /\ \A k \in 1..Len(fs) : t[k] = fs[k]
  BY <1>21, <1>23, BuildsInOrder
<1>25. Registered' /\ Hierarchy' /\ Withdrawn' /\ Named' /\ Deleting'
  <2>1. ctl[1].op \in Building
    BY <1>4, <1>7 DEF Building
  <2> QED BY <1>5, <1>21, <1>23, <2>1, BuildsKeep
<1>26. \A k \in 1..Len(t) : k \in 1..Len(fs) \/ \E i \in Place : t[k] = ctl[i]
  BY <1>6, <1>23, OldPlaces
<1>26a. \A k \in Place : ctl[k].op = "onEnd" => \E j \in 1..Len(t) : t[j] = ctl[k]
  <2> TAKE k \in Place
  <2>1. CASE k > p
    BY <1>6, <1>23, <2>1, Found
  <2>2. CASE ~(k > p)
    <3>1. \A i \in Place : ~(i > p) => p = 1 /\ i = 1
      BY <1>6, <1>23, OldPlaces
    <3> QED BY <1>4, <1>7, <2>2, <3>1
  <2> QED BY <2>1, <2>2
<1>27. t = ctl' /\ t \in Seq(Frame) /\ Place' = 1..Len(t)
  BY <1>6, <1>23, OldPlaces
<1>28. /\ fields' \in [Entities -> SUBSET Factories] /\ fields'[e] = fields[e] \cup {h}
       /\ \A d \in Entities : d # e => fields'[d] = fields[d]
  BY <1>4, <1>9, <1>11
<1>29. TypeOK'
  BY <1>5, <1>6, <1>27, <1>28 DEF TypeOK
<1>30. FramesFit'
  <2>1. \A k \in 1..Len(fs) : FrameFit(t[k])
    <3> TAKE k \in 1..Len(fs)
    <3>1. t[k] = x \/ t[k] = y
      BY <1>19, <1>20, <1>24
    <3>2. CASE t[k] = x
      BY <1>8, <1>11, <1>15, <3>2 DEF FrameFit, Emptying, Leaving, Closers, Destroying, Building
    <3>3. CASE t[k] = y
      BY <1>8, <1>13, <1>17, <3>3 DEF FrameFit, Emptying, Leaving, Closers, Destroying, Building
    <3> QED BY <3>1, <3>2, <3>3
  <2> QED BY <1>5, <1>6, <1>23, <2>1, FramesFitRest
<1>31. Recorded'
  <2>1. \A d \in Entities : record[d] # None => installed'[record[d]]
    BY <1>5, <1>6 DEF Recorded, RecordFits
  <2>2. \A k \in 1..Len(fs) : KilledAt(t, k)
    BY <1>21, <1>24, BuildingFits
  <2>3. ctl[1].op \notin {"destruct", "onEnd"}
    BY <1>4, <1>7
  <2> QED BY <1>5, <1>6, <1>23, <2>1, <2>2, <2>3, RecordedRests
<1>32. Emptied'
  <2>1. \A k \in 1..Len(fs) : EmptiedAt(t, k) /\ t[k].op # "removeEntity"
    BY <1>21, <1>24, BuildingFits
  <2>2. ctl[1].op \notin {"destruct", "removeEntity"}
    BY <1>4, <1>7
  <2> QED BY <1>5, <1>6, <1>23, <2>1, <2>2, EmptiedRests
<1>33. Filled'
  <2>1. Live' = Live /\ base' = base
    BY <1>5 DEF Live
  <2>2. f # None
    BY <1>8 DEF Factories, None
  <2>3. ASSUME NEW d \in Entities PROVE FieldsFit(d)' /\ FieldsKnown(ctl, d)'
    <3>1. FieldsFit(d) /\ FieldsKnown(ctl, d)
      BY <1>6 DEF Filled
    <3>2. CASE d = e
      <4>1. record'[d] = f
        BY <1>5, <1>10, <3>2
      <4>2. fields'[d] \subseteq Line(base', Live', f)
        BY <1>10, <1>11, <1>28, <2>1, <2>2, <3>1, <3>2 DEF FieldsFit
      <4> QED BY <2>2, <4>1, <4>2 DEF FieldsFit, FieldsKnown
    <3>3. CASE d # e
      <4>1. FieldsFit(d)'
        BY <1>5, <1>28, <2>1, <3>1, <3>3 DEF FieldsFit
      <4>2. FieldsKnown(ctl, d)'
        <5>1. record[d] = None /\ fields[d] # {} => \E k \in Place : ctl[k].op = "onEnd" /\ ctl[k].e = d
          BY <3>1 DEF FieldsKnown, Place
        <5>2. \A k \in Place : ctl[k].op = "onEnd" => \E j \in 1..Len(t) : t[j] = ctl[k]
          BY <1>26a
        <5>4. record[d] = None /\ fields[d] # {} => \E k \in 1..Len(t) : t[k].op = "onEnd" /\ t[k].e = d
          BY <5>1, <5>2
        <5> QED BY <1>5, <1>27, <1>28, <3>3, <5>4 DEF FieldsKnown
      <4> QED BY <4>1, <4>2
    <3> QED BY <3>2, <3>3
  <2>4. ASSUME NEW k \in 1..Len(t) PROVE FilledAt(ctl, k)'
    <3>1. CASE k \in 1..Len(fs)
      <4>1. t[k] = x \/ t[k] = y
        BY <1>19, <1>20, <1>24, <3>1
      <4>2. CASE t[k] = x
        BY <1>15, <1>27, <4>2 DEF FilledAt
      <4>3. CASE t[k] = y
        BY <1>5, <1>10, <1>13, <1>17, <1>27, <2>1, <4>3 DEF FilledAt
      <4> QED BY <4>1, <4>2, <4>3
    <3>2. CASE k \notin 1..Len(fs)
      <4>1. PICK i \in Place : t[k] = ctl[i]
        BY <1>26, <3>2
      <4>2. FilledAt(ctl, i) /\ FrameFit(ctl[i])
        BY <1>6 DEF Filled, FramesFit
      <4>3. ctl[i].op = "onEnd" => fields'[ctl[i].e] = fields[ctl[i].e]
        <5> SUFFICES ASSUME ctl[i].op = "onEnd" PROVE fields'[ctl[i].e] = fields[ctl[i].e]
          OBVIOUS
        <5>1. record[ctl[i].e] = None
          BY <4>2 DEF FilledAt
        <5>2. ctl[i].e # e
          BY <1>10, <2>2, <5>1
        <5>3. ctl[i].e \in Entities
          <6>1. ctl[i].e \in 1..created /\ MaxEntities \in Nat
            BY <4>2, ConstantsOK DEF FrameFit, Destroying
          <6>2. ctl[i].e \in 1..MaxEntities
            BY <1>9, <6>1
          <6> QED BY <6>2 DEF Entities
        <5> QED BY <1>28, <5>2, <5>3
      <4> QED BY <1>5, <1>27, <2>1, <4>1, <4>2, <4>3 DEF FilledAt
    <3> QED BY <3>1, <3>2
  <2> QED BY <1>27, <2>3, <2>4 DEF Filled
<1> QED BY <1>24, <1>25, <1>29, <1>30, <1>31, <1>32, <1>33 DEF IInv

\* The frames of a stack of which the innermost has been replaced.
LEMMA Swapped ==
  ASSUME TypeOK, NEW t, NEW fs, NEW p, p = 1, Puts(t, fs, p)
  PROVE  /\ \A k \in 1..Len(t) : k \in 1..Len(fs) \/ \E i \in Place : i > 1 /\ t[k] = ctl[i]
         /\ \A i \in Place : i = 1 \/ \E k \in 1..Len(t) : t[k] = ctl[i]
         /\ \A k \in 1..Len(fs) : k \in 1..Len(t) /\ t[k] = fs[k]
         /\ t = ctl' /\ t \in Seq(Frame) /\ Place' = 1..Len(t)
<1>1. \A k \in 1..Len(t) : k \in 1..Len(fs) \/ \E i \in Place : i > p /\ t[k] = ctl[i]
  BY OldPlaces
<1>2. \A i \in Place : i = 1 \/ \E k \in 1..Len(t) : t[k] = ctl[i]
  <2> TAKE i \in Place
  <2>1. CASE i > p
    BY <2>1, Found
  <2>2. CASE ~(i > p)
    <3>1. \A j \in Place : ~(j > p) => p = 1 /\ j = 1
      BY OldPlaces
    <3> QED BY <2>2, <3>1
  <2> QED BY <2>1, <2>2
<1>3. \A k \in 1..Len(fs) : k \in 1..Len(t) /\ t[k] = fs[k]
  BY OldPlaces
<1>4. t = ctl' /\ t \in Seq(Frame) /\ Place' = 1..Len(t)
  BY OldPlaces
<1> QED BY <1>1, <1>2, <1>3, <1>4

\* What stays when calls that destroy an entity take the place of the innermost one
\* and change no factory.
LEMMA DestroysKeep ==
  ASSUME IInv, ctl # <<>>, Top.op \in Destroying, NEW t, NEW fs, NEW p, p = 1, Puts(t, fs, p),
         \A j, k \in 1..Len(fs) : j < k => Over(fs[j].op, fs[k].op),
         \A k \in 1..Len(fs) : fs[k].op \in {"onRemove", "destruct", "onEnd"},
         UNCHANGED <<factories, closed, installed, base, slots, count, dict>>
  PROVE  Ordered' /\ Installing' /\ Registered' /\ Hierarchy' /\ Withdrawn' /\ Named' /\ Deleting'
<1>1. /\ TypeOK /\ Ordered /\ Installing /\ FramesFit /\ Registered /\ Hierarchy
      /\ Withdrawn /\ Named /\ Deleting
  BY DEF IInv
<1>2. Top = ctl[1]
  BY Runs
<1>3. \A k \in 1..Len(fs) : t[k] = fs[k]
  BY <1>1, Swapped
<1>4. Top.op \notin {"onInstalled", "uninstall"} \cup Building \cup Uninstalling
  BY DEF Destroying, Building, Uninstalling, Emptying
<1>5. \A k \in 1..Len(fs) : Lower(fs[k].op, Top.op) /\ fs[k].op # "onInstalled"
  <2>1. Rank(Top.op) = 2 /\ Top.op \notin Building \cup Leaving
    BY Ranks DEF Destroying, Building, Leaving
  <2>2. \A k \in 1..Len(fs) : Rank(fs[k].op) = 1 \/ Rank(fs[k].op) = 2
    BY Ranks DEF Destroying
  <2>3. \A k \in 1..Len(fs) : fs[k].op \in Ops
    BY DEF Ops, Callbacks
  <2> QED BY <2>1, <2>2, <2>3 DEF Lower
<1>6. OrderFit(t, fs, p) /\ InstallFit(t, fs, p)
  BY <1>4, <1>5, ReplacesInOrder
<1>7. Ordered'
  BY <1>1, <1>6, OrderRests DEF OrderFit
<1>8. Installing'
  BY <1>1, <1>6, InstallingRests DEF InstallFit
<1>9. Passed(t, Len(fs), p)
  BY <1>2, <1>4 DEF Passed
<1>10. Registered' /\ Hierarchy'
  <2>1. Live' = Live
    BY DEF Live
  <2> QED BY <1>1, <2>1 DEF Registered, Hierarchy, HierarchyAt
<1>11. \A k \in 1..Len(fs) : WithdrawnAt(t, k) /\ NameGone(t, k) /\ DeletingAt(t, k)
  <2> TAKE k \in 1..Len(fs)
  <2>1. t[k].op \notin Emptying /\ t[k].op # "children" /\ t[k].op \notin Uninstalling /\ t[k].op # "delete"
    BY <1>3 DEF Emptying, Uninstalling
  <2> QED BY <2>1 DEF WithdrawnAt, NameGone, DeletingAt
<1>12. Withdrawn'
  BY <1>1, <1>9, <1>11, WithdrawnRests
<1>13. Named'
  BY <1>1, <1>9, <1>11, NamedRests
<1>14. Deleting'
  BY <1>1, <1>9, <1>11, DeletingRests
<1> QED BY <1>7, <1>8, <1>10, <1>12, <1>13, <1>14

\* A frame that destroys an entity.
LEMMA DestroyingFrame ==
  ASSUME IInv, NEW e \in 1..created, e \notin gone, NEW f \in Factories, f \notin closed,
         NEW op \in {"onRemove", "onEnd"}
  PROVE  LET x == Do(op, f, e)
             y == Do("destruct", None, e)
         IN /\ x \in Frame /\ x.op = op /\ x.f = f /\ x.e = e /\ FrameFit(x)
            /\ y \in Frame /\ y.op = "destruct" /\ y.f = None /\ y.e = e /\ FrameFit(y)
<1> DEFINE x == Do(op, f, e)
           y == Do("destruct", None, e)
<1>1. e \in 0..MaxEntities
  <2>1. created \in 0..MaxEntities /\ MaxEntities \in Nat
    BY ConstantsOK DEF IInv, TypeOK
  <2> QED BY <2>1
<1>2. op \in Ops /\ "destruct" \in Ops /\ f \in 0..MaxFactories /\ None \in 0..MaxFactories
  BY ConstantsOK DEF Ops, Callbacks, Factories, None
<1>3. x \in Frame /\ x.op = op /\ x.f = f /\ x.e = e /\ x.es = {} /\ x.fs = <<>>
  BY <1>1, <1>2, DoFrame
<1>4. y \in Frame /\ y.op = "destruct" /\ y.f = None /\ y.e = e /\ y.es = {} /\ y.fs = <<>>
  BY <1>1, <1>2, DoFrame
<1> HIDE DEF x, y
<1>5. op \notin Emptying \cup Leaving \cup {"delete"} \cup Closers \cup {"removeEntity", "destruct"}
  BY DEF Emptying, Leaving, Closers
<1>6. FrameFit(x)
  BY <1>3, <1>5 DEF FrameFit
<1>7. FrameFit(y)
  <2>1. None \notin closed
    BY LiveFactories
  <2>2. "destruct" \notin Emptying \cup Leaving \cup {"delete"} \cup Closers \cup Building \cup {"onRemove", "onEnd"}
    BY DEF Emptying, Leaving, Closers, Building
  <2> QED BY <1>4, <2>1, <2>2 DEF FrameFit
<1> QED BY <1>3, <1>4, <1>6, <1>7 DEF x, y

\* The entity is marked: from here on it is about to be destroyed.
LEMMA RemovalStarts ==
  ASSUME IInv, ctl # <<>>, Top.op = "removeEntity", Top.e \notin killed,
         NEW fs \in Seq(Frame), Becomes(fs), killed' = killed \cup {Top.e},
         \A j, k \in 1..Len(fs) : j < k => Over(fs[j].op, fs[k].op),
         \A k \in 1..Len(fs) : /\ fs[k].op \in {"onRemove", "destruct"} /\ FrameFit(fs[k])
                               /\ fs[k].op = "destruct" => fs[k].e = Top.e,
         \E k \in 1..Len(fs) : fs[k].op = "destruct",
         UNCHANGED <<factories, closed, derive, installed, base, slots, count, dict>>,
         UNCHANGED <<created, record, fields, gone>>, UNCHANGED hooked
  PROVE  IInv'
<1>1. /\ TypeOK /\ FramesFit /\ Recorded /\ Emptied /\ Filled
  BY DEF IInv
<1>2. Top = ctl[1] /\ 1 \in Place /\ FrameFit(Top)
  BY Runs
<1>3. PICK e : e = Top.e
  OBVIOUS
<1>4. e \in 1..created /\ e \in Entities
  <2>1. e \in 1..created
    BY <1>2, <1>3 DEF FrameFit, Destroying
  <2>2. created \in 0..MaxEntities /\ MaxEntities \in Nat
    BY <1>1, ConstantsOK DEF TypeOK
  <2>3. e \in 1..MaxEntities
    BY <2>1, <2>2
  <2> QED BY <2>1, <2>3 DEF Entities
<1>5. PICK p \in {0, 1} : p = 1
  OBVIOUS
<1>6. PICK t : Puts(t, fs, p)
  BY <1>1, <1>5, BecomesPut
<1>7. /\ \A k \in 1..Len(t) : k \in 1..Len(fs) \/ \E i \in Place : i > 1 /\ t[k] = ctl[i]
      /\ \A i \in Place : i = 1 \/ \E k \in 1..Len(t) : t[k] = ctl[i]
      /\ \A k \in 1..Len(fs) : k \in 1..Len(t) /\ t[k] = fs[k]
  BY <1>1, <1>5, <1>6, Swapped
<1>8. t = ctl' /\ t \in Seq(Frame) /\ Place' = 1..Len(t)
  BY <1>1, <1>5, <1>6, Swapped
<1>9. Ordered' /\ Installing' /\ Registered' /\ Hierarchy' /\ Withdrawn' /\ Named' /\ Deleting'
  <2>1. Top.op \in Destroying /\ \A k \in 1..Len(fs) : fs[k].op \in {"onRemove", "destruct", "onEnd"}
    BY DEF Destroying
  <2> QED BY <1>5, <1>6, <2>1, DestroysKeep
<1>10. killed' = killed \cup {e} /\ e \notin killed
  BY <1>3
<1>11. TypeOK'
  BY <1>1, <1>4, <1>8, <1>10 DEF TypeOK
<1>12. FramesFit'
  <2>1. \A k \in 1..Len(fs) : FrameFit(t[k])
    BY <1>7
  <2> QED BY <1>1, <1>6, <2>1, FramesFitRest
<1>13. \E k \in 1..Len(t) : t[k].op = "destruct" /\ t[k].e = e
  BY <1>3, <1>7
<1>14. Recorded'
  <2>1. (gone \subseteq killed /\ killed \subseteq 1..created)'
    BY <1>1, <1>4, <1>10 DEF Recorded
  <2>2. ASSUME NEW d \in Entities PROVE RecordFits(d)' /\ EntityKnown(ctl, d)' /\ KilledKnown(ctl, d)'
    <3>1. RecordFits(d) /\ EntityKnown(ctl, d) /\ KilledKnown(ctl, d)
      BY <1>1 DEF Recorded
    <3>2. RecordFits(d)'
      BY <3>1 DEF RecordFits
    <3>3. \A i \in Place : ctl[i].op \in {"onEnd", "destruct"} => \E k \in 1..Len(t) : t[k] = ctl[i]
      BY <1>2, <1>7
    <3>4. EntityKnown(ctl, d)'
      BY <1>8, <3>1, <3>3 DEF EntityKnown, Place
    <3>5. KilledKnown(ctl, d)'
      <4>1. CASE d = e
        BY <1>8, <1>13, <4>1 DEF KilledKnown
      <4>2. CASE d # e
        BY <1>8, <1>10, <3>1, <3>3, <4>2 DEF KilledKnown, Place
      <4> QED BY <4>1, <4>2
    <3> QED BY <3>2, <3>4, <3>5
  <2>3. ASSUME NEW k \in 1..Len(t) PROVE KilledAt(ctl, k)'
    <3>1. CASE k \in 1..Len(fs)
      BY <1>3, <1>7, <1>8, <1>10, <3>1 DEF KilledAt
    <3>2. CASE k \notin 1..Len(fs)
      <4>1. PICK i \in Place : t[k] = ctl[i]
        BY <1>7, <3>2
      <4>2. KilledAt(ctl, i)
        BY <1>1 DEF Recorded
      <4> QED BY <1>8, <1>10, <4>1, <4>2 DEF KilledAt
    <3> QED BY <3>1, <3>2
  <2> QED BY <1>8, <2>1, <2>2, <2>3 DEF Recorded
<1>15. Emptied'
  <2>1. ASSUME NEW k \in 1..Len(t) PROVE EmptiedAt(ctl, k)'
    <3>1. CASE k \in 1..Len(fs)
      <4>1. t[k].op # "removeEach" /\ t[k].op # "detach"
        BY <1>7, <3>1
      <4> QED BY <1>8, <4>1 DEF EmptiedAt
    <3>2. CASE k \notin 1..Len(fs)
      <4>1. PICK i \in Place : t[k] = ctl[i]
        BY <1>7, <3>2
      <4>2. EmptiedAt(ctl, i)
        BY <1>1 DEF Emptied
      <4>3. ASSUME ctl[i].op = "removeEach"
            PROVE  /\ ctl[i].es \cap killed' = {}
                   /\ \A d \in Entities : record[d] = ctl[i].f /\ d \notin ctl[i].es =>
                        \E j \in 1..Len(t) : t[j].op \in {"removeEntity", "destruct"} /\ t[j].e = d
                   /\ \A j \in 1..Len(t) : t[j].op = "removeEntity" => t[j].e \notin ctl[i].es
        <5>1. e \notin ctl[i].es
          BY <1>2, <1>3, <4>2, <4>3 DEF EmptiedAt, Place
        <5>2. ctl[i].es \cap killed' = {}
          BY <1>10, <4>2, <4>3, <5>1 DEF EmptiedAt
        <5>3. ASSUME NEW d \in Entities, record[d] = ctl[i].f, d \notin ctl[i].es
              PROVE  \E j \in 1..Len(t) : t[j].op \in {"removeEntity", "destruct"} /\ t[j].e = d
          <6>1. PICK j \in Place : ctl[j].op \in {"removeEntity", "destruct"} /\ ctl[j].e = d
            BY <4>2, <4>3, <5>3 DEF EmptiedAt, Place
          <6>2. CASE j = 1
            <7>1. d = e
              BY <1>2, <1>3, <6>1, <6>2
            <7> QED BY <1>13, <7>1
          <6>3. CASE j # 1
            BY <1>7, <6>1, <6>3
          <6> QED BY <6>2, <6>3
        <5>4. ASSUME NEW j \in 1..Len(t), t[j].op = "removeEntity" PROVE t[j].e \notin ctl[i].es
          <6>1. j \notin 1..Len(fs)
            BY <1>7, <5>4
          <6>2. PICK h \in Place : t[j] = ctl[h]
            BY <1>7, <6>1
          <6> QED BY <4>2, <4>3, <5>4, <6>2 DEF EmptiedAt, Place
        <5> QED BY <5>2, <5>3, <5>4
      <4> QED BY <1>8, <4>1, <4>2, <4>3 DEF EmptiedAt
    <3> QED BY <3>1, <3>2
  <2> QED BY <1>8, <2>1 DEF Emptied
<1>16. Filled'
  <2>1. \A k \in 1..Len(fs) : FilledAt(t, k)
    BY <1>7 DEF FilledAt
  <2>2. ctl[1].op # "onEnd"
    BY <1>2
  <2> QED BY <1>1, <1>6, <2>1, <2>2, FilledRests
<1> QED BY <1>9, <1>11, <1>12, <1>14, <1>15, <1>16 DEF IInv

\* RemoveEntityImmediate.
LEMMA RemoveEntityImmediateKeeps ==
  ASSUME IInv, RemoveEntityImmediate
  PROVE  IInv'
<1>1. SUFFICES ASSUME Top.e \notin killed PROVE IInv'
  BY RemovalReturns
<1>2. PICK e : e = Top.e
  OBVIOUS
<1>3. /\ ctl # <<>> /\ Top.op = "removeEntity" /\ killed' = killed \cup {Top.e}
      /\ Becomes((IF record[e] = None THEN <<>> ELSE <<Do("onRemove", record[e], e)>>)
                 \o <<Do("destruct", None, e)>>)
  BY <1>1, <1>2 DEF RemoveEntityImmediate, Running
<1>4. /\ UNCHANGED <<factories, closed, derive, installed, base, slots, count, dict>>
      /\ UNCHANGED <<created, record, fields, gone>> /\ UNCHANGED hooked
  BY DEF RemoveEntityImmediate, hierarchy
<1>5. e \in 1..created /\ e \notin gone /\ FrameFit(Top)
  BY <1>2, <1>3, Runs DEF FrameFit, Destroying
<1>6. PICK y : y = Do("destruct", None, e)
  OBVIOUS
<1>7. y \in Frame /\ y.op = "destruct" /\ y.e = e /\ FrameFit(y)
  <2>1. e \in 0..MaxEntities
    <3>1. created \in 0..MaxEntities /\ MaxEntities \in Nat
      BY ConstantsOK DEF IInv, TypeOK
    <3> QED BY <1>5, <3>1
  <2>2. "destruct" \in Ops /\ None \in 0..MaxFactories
    BY ConstantsOK DEF Ops, None
  <2>3. y \in Frame /\ y.op = "destruct" /\ y.f = None /\ y.e = e /\ y.es = {} /\ y.fs = <<>>
    BY <1>6, <2>1, <2>2, DoFrame
  <2>4. None \notin closed
    BY LiveFactories
  <2>5. "destruct" \notin Emptying \cup Leaving \cup {"delete"} \cup Closers \cup Building \cup {"onRemove", "onEnd"}
    BY DEF Emptying, Leaving, Closers, Building
  <2> QED BY <1>5, <2>3, <2>4, <2>5 DEF FrameFit
<1>8. CASE record[e] = None
  <2>1. PICK fs : fs = <<y>>
    OBVIOUS
  <2>2. fs \in Seq(Frame) /\ Len(fs) = 1 /\ fs[1] = y
    BY <1>7, <2>1, OneFrame
  <2>3. <<>> \o fs = fs
    BY <2>2
  <2>4. Becomes(fs)
    BY <1>3, <1>6, <1>8, <2>1, <2>3
  <2> HIDE <2>1
  <2>5. \A k \in 1..Len(fs) : k = 1
    BY <2>2
  <2>6. 1 \in 1..Len(fs)
    BY <2>2
  <2>7. \A j, k \in 1..Len(fs) : j < k => Over(fs[j].op, fs[k].op)
    BY <2>5
  <2>8. \A k \in 1..Len(fs) : fs[k].op \in {"onRemove", "destruct"} /\ FrameFit(fs[k])
                              /\ (fs[k].op = "destruct" => fs[k].e = Top.e)
    BY <1>2, <1>7, <2>2, <2>5
  <2>9. \E k \in 1..Len(fs) : fs[k].op = "destruct"
    BY <1>7, <2>2, <2>6
  <2> QED BY <1>1, <1>3, <1>4, <2>2, <2>4, <2>7, <2>8, <2>9, RemovalStarts
<1>9. CASE record[e] # None
  <2>1. e \in Entities
    <3>1. created \in 0..MaxEntities /\ MaxEntities \in Nat
      BY ConstantsOK DEF IInv, TypeOK
    <3>2. e \in 1..MaxEntities
      BY <1>5, <3>1
    <3> QED BY <3>2 DEF Entities
  <2>2. PICK f : f = record[e]
    OBVIOUS
  <2>3. f \in Factories /\ f \notin closed
    <3>1. f \in 0..MaxFactories
      BY <2>1, <2>2 DEF IInv, TypeOK
    <3>2. f \in Factories
      BY <1>9, <2>2, <3>1, ConstantsOK DEF Factories, None
    <3>3. installed[f]
      BY <1>9, <2>1, <2>2 DEF IInv, Recorded, RecordFits
    <3> QED BY <3>2, <3>3, LiveFactories DEF Upright
  <2>4. PICK x : x = Do("onRemove", f, e)
    OBVIOUS
  <2>5. x \in Frame /\ x.op = "onRemove" /\ FrameFit(x)
    BY <1>5, <2>3, <2>4, DestroyingFrame
  <2>6. PICK a : a = <<x>>
    OBVIOUS
  <2>7a. PICK b : b = <<y>>
    OBVIOUS
  <2>7b. /\ a \in Seq(Frame) /\ Len(a) = 1 /\ a[1] = x
         /\ b \in Seq(Frame) /\ Len(b) = 1 /\ b[1] = y
    BY <1>7, <2>5, <2>6, <2>7a, OneFrame
  <2>8. PICK fs : fs = a \o b
    OBVIOUS
  <2>9. Becomes(fs)
    BY <1>3, <1>6, <1>9, <2>2, <2>4, <2>6, <2>7a, <2>8
  <2> HIDE <2>6, <2>7a
  <2>7. fs \in Seq(Frame) /\ Len(fs) = 2 /\ fs[1] = x /\ fs[2] = y
    <3>1. /\ fs \in Seq(Frame) /\ Len(fs) = Len(a) + Len(b)
          /\ \A k \in 1..Len(a) : fs[k] = a[k]
          /\ \A k \in 1..Len(fs) : k > Len(a) => fs[k] = b[k - Len(a)]
      BY <2>7b, <2>8, Joined
    <3>2. 1 \in 1..Len(a) /\ 2 \in 1..Len(fs) /\ 2 > Len(a) /\ 2 - Len(a) = 1 /\ Len(fs) = 2
      BY <2>7b, <3>1
    <3> QED BY <2>7b, <3>1, <3>2
  <2> HIDE <2>8
  <2>10. \A k \in 1..Len(fs) : k = 1 \/ k = 2
    BY <2>7
  <2>11. 2 \in 1..Len(fs) /\ \A j, k \in 1..Len(fs) : j < k => j = 1 /\ k = 2
    BY <2>7
  <2>12. Over("onRemove", "destruct")
    BY Ranks DEF Over, Destroying
  <2>13. \A j, k \in 1..Len(fs) : j < k => Over(fs[j].op, fs[k].op)
    BY <1>7, <2>5, <2>7, <2>11, <2>12
  <2>14. \A k \in 1..Len(fs) : fs[k].op \in {"onRemove", "destruct"} /\ FrameFit(fs[k])
                              /\ (fs[k].op = "destruct" => fs[k].e = Top.e)
    BY <1>2, <1>7, <2>5, <2>7, <2>10
  <2>15. \E k \in 1..Len(fs) : fs[k].op = "destruct"
    BY <1>7, <2>7, <2>11
  <2> QED BY <1>1, <1>3, <1>4, <2>7, <2>9, <2>13, <2>14, <2>15, RemovalStarts
<1> QED BY <1>8, <1>9

\* The entity that is destroyed, and the calls below.
LEMMA DestroyingKnows ==
  ASSUME IInv, ctl # <<>>, Top.op \in Destroying
  PROVE  /\ Top = ctl[1] /\ 1 \in Place /\ Top.e \in 1..created /\ Top.e \in Entities
         /\ Top.e # None /\ Top.e \notin gone
         /\ Top.op \in {"destruct", "onEnd"} => Top.e \in killed
         /\ \A i \in Place : i > 1 =>
              /\ ctl[i].e = None
              /\ ctl[i].op \notin {"onEnd", "construct", "removeEntity", "destruct"}
<1>1. Top = ctl[1] /\ 1 \in Place /\ FrameFit(Top)
  BY Runs
<1>2. Top.e \in 1..created /\ Top.e \notin gone
  BY <1>1 DEF FrameFit
<1>3. Top.e \in Entities /\ Top.e # None
  <2>1. created \in 0..MaxEntities /\ MaxEntities \in Nat
    BY ConstantsOK DEF IInv, TypeOK
  <2>2. Top.e \in 1..MaxEntities
    BY <1>2, <2>1
  <2> QED BY <2>2 DEF Entities, None
<1>4. Top.op \in {"destruct", "onEnd"} => Top.e \in killed
  <2>1. KilledAt(ctl, 1)
    BY <1>1 DEF IInv, Recorded
  <2> QED BY <1>1, <2>1 DEF KilledAt
<1>5. ASSUME NEW i \in Place, i > 1
      PROVE  ctl[i].e = None /\ ctl[i].op \notin {"onEnd", "construct", "removeEntity", "destruct"}
  <2>1. ctl[i].op \in Emptying \cup Leaving \cup {"delete"} \cup Closers
    BY <1>5, AloneDestroying
  <2>2. FrameFit(ctl[i])
    BY DEF IInv, FramesFit
  <2>3. ctl[i].op \notin {"onEnd", "construct", "removeEntity", "destruct"}
    BY <2>1 DEF Emptying, Leaving, Closers
  <2> QED BY <2>1, <2>2, <2>3 DEF FrameFit
<1> QED BY <1>1, <1>2, <1>3, <1>4, <1>5

\* The destructor finishes.
LEMMA Finishes ==
  ASSUME IInv, ctl # <<>>, Top.op \in {"destruct", "onEnd"}, record[Top.e] = None, Becomes(<<>>),
         gone' = gone \cup {Top.e},
         Top.op = "destruct" => fields' = fields,
         Top.op = "onEnd" => fields' = [fields EXCEPT ![Top.e] = {}],
         UNCHANGED <<factories, closed, derive, installed, base, slots, count, dict>>,
         UNCHANGED <<created, record, killed>>, UNCHANGED hooked
  PROVE  IInv'
<1>1. /\ TypeOK /\ FramesFit /\ Recorded /\ Emptied /\ Filled
  BY DEF IInv
<1>2. Top.op \in Destroying
  BY DEF Destroying
<1>3. PICK e : e = Top.e
  OBVIOUS
<1>4. /\ Top = ctl[1] /\ 1 \in Place /\ e \in 1..created /\ e \in Entities /\ e # None
      /\ e \notin gone /\ e \in killed
      /\ \A i \in Place : i > 1 =>
           ctl[i].e = None /\ ctl[i].op \notin {"onEnd", "construct", "removeEntity", "destruct"}
  BY <1>2, <1>3, DestroyingKnows
<1>5. PICK p \in {0, 1} : p = 1
  OBVIOUS
<1>6. PICK fs : fs = <<>>
  OBVIOUS
<1>7. fs \in Seq(Frame) /\ Len(fs) = 0
  BY <1>6, NoFrames
<1>8. PICK t : Puts(t, fs, p)
  BY <1>1, <1>5, <1>6, <1>7, BecomesPut
<1> HIDE <1>6
<1>9. \A k : k \notin 1..Len(fs)
  BY <1>7
<1>10. /\ \A k \in 1..Len(t) : \E i \in Place : i > 1 /\ t[k] = ctl[i]
       /\ \A i \in Place : i = 1 \/ \E k \in 1..Len(t) : t[k] = ctl[i]
  BY <1>1, <1>5, <1>8, <1>9, Swapped
<1>11. t = ctl' /\ t \in Seq(Frame) /\ Place' = 1..Len(t)
  BY <1>1, <1>5, <1>8, Swapped
<1>12. Ordered' /\ Installing' /\ Registered' /\ Hierarchy' /\ Withdrawn' /\ Named' /\ Deleting'
  BY <1>2, <1>5, <1>8, <1>9, DestroysKeep
<1>13. gone' = gone \cup {e} /\ record[e] = None
  BY <1>3
<1>14. /\ fields' \in [Entities -> SUBSET Factories]
       /\ \A d \in Entities : d # e => fields'[d] = fields[d]
       /\ Top.op = "onEnd" => fields'[e] = {}
  <2>1. fields \in [Entities -> SUBSET Factories]
    BY <1>1 DEF TypeOK
  <2> QED BY <1>3, <1>4, <2>1
<1>15. TypeOK'
  BY <1>1, <1>4, <1>11, <1>13, <1>14 DEF TypeOK
<1>16. FramesFit'
  <2>1. ASSUME NEW k \in 1..Len(t) PROVE FrameFit(ctl[k])'
    <3>1. PICK i \in Place : i > 1 /\ t[k] = ctl[i]
      BY <1>10
    <3>2. FrameFit(ctl[i]) /\ ctl[i].e = None
      BY <1>1, <1>4, <3>1 DEF FramesFit
    <3>3. ctl[i].e \notin gone'
      BY <1>4, <1>13, <3>2, LiveFactories
    <3> QED BY <1>11, <3>1, <3>2, <3>3 DEF FrameFit
  <2> QED BY <1>11, <2>1 DEF FramesFit
<1>17. Recorded'
  <2>1. (gone \subseteq killed /\ killed \subseteq 1..created)'
    BY <1>1, <1>4, <1>13 DEF Recorded
  <2>2. ASSUME NEW d \in Entities PROVE RecordFits(d)' /\ EntityKnown(ctl, d)' /\ KilledKnown(ctl, d)'
    <3>1. RecordFits(d) /\ EntityKnown(ctl, d) /\ KilledKnown(ctl, d)
      BY <1>1 DEF Recorded
    <3>2. CASE d = e
      BY <1>13, <3>2 DEF RecordFits, EntityKnown, KilledKnown
    <3>3. CASE d # e
      <4>1. \A i \in Place : ctl[i].e = d => \E k \in 1..Len(t) : t[k] = ctl[i]
        BY <1>3, <1>4, <1>10, <3>3
      <4>2. RecordFits(d)'
        BY <1>13, <3>1, <3>3 DEF RecordFits
      <4>3. EntityKnown(ctl, d)'
        BY <1>11, <1>13, <3>1, <3>3, <4>1 DEF EntityKnown, Place
      <4>4. KilledKnown(ctl, d)'
        BY <1>11, <3>1, <4>1 DEF KilledKnown, Place
      <4> QED BY <4>2, <4>3, <4>4
    <3> QED BY <3>2, <3>3
  <2>3. ASSUME NEW k \in 1..Len(t) PROVE KilledAt(ctl, k)'
    <3>1. PICK i \in Place : i > 1 /\ t[k] = ctl[i]
      BY <1>10
    <3> QED BY <1>4, <1>11, <3>1 DEF KilledAt
  <2> QED BY <1>11, <2>1, <2>2, <2>3 DEF Recorded
<1>18. Emptied'
  <2>1. record[ctl[1].e] = None
    BY <1>4
  <2> QED BY <1>1, <1>8, <1>9, <2>1, EmptiedRests
<1>19. Filled'
  <2>1. Live' = Live /\ base' = base
    BY DEF Live
  <2>2. ASSUME NEW d \in Entities PROVE FieldsFit(d)' /\ FieldsKnown(ctl, d)'
    <3>1. FieldsFit(d) /\ FieldsKnown(ctl, d)
      BY <1>1 DEF Filled
    <3>2. CASE d = e
      <4>1. FieldsFit(d)'
        BY <1>13, <3>2 DEF FieldsFit
      <4>2. CASE Top.op = "onEnd"
        BY <1>14, <3>2, <4>1, <4>2 DEF FieldsKnown
      <4>3. CASE Top.op = "destruct"
        <5>1. fields[d] = {}
          BY <1>4, <1>13, <3>1, <3>2, <4>3 DEF FieldsKnown, Place
        <5> QED BY <4>1, <4>3, <5>1 DEF FieldsKnown
      <4> QED BY <4>2, <4>3
    <3>3. CASE d # e
      <4>1. \A i \in Place : ctl[i].e = d => \E k \in 1..Len(t) : t[k] = ctl[i]
        BY <1>3, <1>4, <1>10, <3>3
      <4>2. FieldsFit(d)'
        BY <1>14, <2>1, <3>1, <3>3 DEF FieldsFit
      <4>3. FieldsKnown(ctl, d)'
        BY <1>11, <1>14, <3>1, <3>3, <4>1 DEF FieldsKnown, Place
      <4> QED BY <4>2, <4>3
    <3> QED BY <3>2, <3>3
  <2>3. ASSUME NEW k \in 1..Len(t) PROVE FilledAt(ctl, k)'
    <3>1. PICK i \in Place : i > 1 /\ t[k] = ctl[i]
      BY <1>10
    <3> QED BY <1>4, <1>11, <3>1 DEF FilledAt
  <2> QED BY <1>11, <2>2, <2>3 DEF Filled
<1> QED BY <1>12, <1>15, <1>16, <1>17, <1>18, <1>19 DEF IInv

\* DestroyUserEntityData reaches every level that created fields.
LEMMA DestroyUserEntityDataKeeps ==
  ASSUME IInv, DestroyUserEntityData
  PROVE  IInv'
<1>1. /\ ctl # <<>> /\ Top.op = "onEnd" /\ Becomes(<<>>) /\ gone' = gone \cup {Top.e}
      /\ fields' = [fields EXCEPT ![Top.e] = @ \ FieldLevels(Top.f)]
  BY DEF DestroyUserEntityData, Running
<1>2. /\ UNCHANGED <<factories, closed, derive, installed, base, slots, count, dict>>
      /\ UNCHANGED <<created, record, killed>> /\ UNCHANGED hooked
  BY DEF DestroyUserEntityData, hierarchy
<1>3. Top = ctl[1] /\ 1 \in Place
  BY <1>1, Runs
<1>4. record[Top.e] = None /\ fields[Top.e] \subseteq Line(base, Live, Top.f)
  <2>1. FilledAt(ctl, 1)
    BY <1>3 DEF IInv, Filled
  <2> QED BY <1>1, <1>3, <2>1 DEF FilledAt
<1>5. FieldLevels(Top.f) = Line(base, Live, Top.f)
  BY LevelsAre DEF FieldLevels
<1>6. fields[Top.e] \ FieldLevels(Top.f) = {}
  BY <1>4, <1>5
<1>7. fields' = [fields EXCEPT ![Top.e] = {}]
  BY <1>1, <1>6
<1> QED BY <1>1, <1>2, <1>4, <1>7, Finishes

\* OnDestroy takes the record away, so that the fields can no longer be reached but
\* from the call itself.
LEMMA LosesRecord ==
  ASSUME IInv, ctl # <<>>, Top.op = "destruct", NEW f, f = record[Top.e], f # None,
         record' = [record EXCEPT ![Top.e] = None], Becomes(<<Do("onEnd", f, Top.e)>>),
         UNCHANGED <<factories, closed, derive, installed, base, slots, count, dict>>,
         UNCHANGED <<created, fields, killed, gone>>, UNCHANGED hooked
  PROVE  IInv'
<1>1. /\ TypeOK /\ FramesFit /\ Recorded /\ Emptied /\ Filled
  BY DEF IInv
<1>2. Top.op \in Destroying
  BY DEF Destroying
<1>3. PICK e : e = Top.e
  OBVIOUS
<1>4. /\ Top = ctl[1] /\ 1 \in Place /\ e \in 1..created /\ e \in Entities /\ e # None
      /\ e \notin gone /\ e \in killed
      /\ \A i \in Place : i > 1 =>
           ctl[i].e = None /\ ctl[i].op \notin {"onEnd", "construct", "removeEntity", "destruct"}
  BY <1>2, <1>3, DestroyingKnows
<1>5. record \in [Entities -> 0..MaxFactories] /\ record[e] = f
  BY <1>1, <1>3 DEF TypeOK
<1>6. f \in Factories /\ f \notin closed
  <2>1. f \in 0..MaxFactories
    BY <1>4, <1>5
  <2>2. f \in Factories
    BY <2>1, ConstantsOK DEF Factories, None
  <2>3. installed[f]
    BY <1>1, <1>4, <1>5 DEF Recorded, RecordFits
  <2> QED BY <2>2, <2>3, LiveFactories DEF Upright
<1>7. PICK x : x = Do("onEnd", f, e)
  OBVIOUS
<1>8. x \in Frame /\ x.op = "onEnd" /\ x.f = f /\ x.e = e /\ FrameFit(x)
  BY <1>4, <1>6, <1>7, DestroyingFrame
<1>9. PICK fs : fs = <<x>>
  OBVIOUS
<1>10. fs \in Seq(Frame) /\ Len(fs) = 1 /\ fs[1] = x /\ Becomes(fs)
  BY <1>3, <1>7, <1>8, <1>9, OneFrame
<1> HIDE <1>7, <1>9
<1>11. PICK p \in {0, 1} : p = 1
  OBVIOUS
<1>12. PICK t : Puts(t, fs, p)
  BY <1>1, <1>10, <1>11, BecomesPut
<1>13. \A k \in 1..Len(fs) : k = 1
  BY <1>10
<1>14. /\ \A k \in 1..Len(t) : k \in 1..Len(fs) \/ \E i \in Place : i > 1 /\ t[k] = ctl[i]
       /\ \A i \in Place : i = 1 \/ \E k \in 1..Len(t) : t[k] = ctl[i]
       /\ \A k \in 1..Len(fs) : k \in 1..Len(t) /\ t[k] = fs[k]
  BY <1>1, <1>11, <1>12, Swapped
<1>15. t = ctl' /\ t \in Seq(Frame) /\ Place' = 1..Len(t)
  BY <1>1, <1>11, <1>12, Swapped
<1>16. Ordered' /\ Installing' /\ Registered' /\ Hierarchy' /\ Withdrawn' /\ Named' /\ Deleting'
  <2>1. /\ \A j, k \in 1..Len(fs) : j < k => Over(fs[j].op, fs[k].op)
        /\ \A k \in 1..Len(fs) : fs[k].op \in {"onRemove", "destruct", "onEnd"}
    BY <1>8, <1>10, <1>13
  <2> QED BY <1>2, <1>11, <1>12, <2>1, DestroysKeep
<1>17. \A k \in 1..Len(t) : t[k] = x \/ \E i \in Place : i > 1 /\ t[k] = ctl[i]
  BY <1>10, <1>13, <1>14
<1>18. \E k \in 1..Len(t) : t[k] = x
  <2>1. 1 \in 1..Len(fs)
    BY <1>10
  <2> QED BY <1>10, <1>14, <2>1
<1>19. /\ record' \in [Entities -> 0..MaxFactories] /\ record'[e] = None
       /\ \A d \in Entities : d # e => record'[d] = record[d]
  <2>1. None \in 0..MaxFactories
    BY ConstantsOK DEF None
  <2> QED BY <1>3, <1>4, <1>5, <2>1
<1>20. TypeOK'
  BY <1>1, <1>15, <1>19 DEF TypeOK
<1>21. FramesFit'
  <2>1. \A k \in 1..Len(fs) : FrameFit(t[k])
    BY <1>8, <1>10, <1>13, <1>14
  <2> QED BY <1>1, <1>12, <2>1, FramesFitRest
<1>22. \A d \in Entities : d # e =>
         \A i \in Place : ctl[i].e = d => \E k \in 1..Len(t) : t[k] = ctl[i]
  BY <1>3, <1>4, <1>14
<1>23. Recorded'
  <2>1. (gone \subseteq killed /\ killed \subseteq 1..created)'
    BY <1>1 DEF Recorded
  <2>2. ASSUME NEW d \in Entities PROVE RecordFits(d)' /\ EntityKnown(ctl, d)' /\ KilledKnown(ctl, d)'
    <3>1. RecordFits(d) /\ EntityKnown(ctl, d) /\ KilledKnown(ctl, d)
      BY <1>1 DEF Recorded
    <3>2. CASE d = e
      <4>1. EntityKnown(ctl, d)'
        BY <1>8, <1>15, <1>18, <3>2 DEF EntityKnown
      <4> QED BY <1>19, <3>2, <4>1 DEF RecordFits, KilledKnown
    <3>3. CASE d # e
      <4>1. \A i \in Place : ctl[i].e = d => \E k \in 1..Len(t) : t[k] = ctl[i]
        BY <1>22, <3>3
      <4>2. RecordFits(d)'
        BY <1>19, <3>1, <3>3 DEF RecordFits
      <4>3. EntityKnown(ctl, d)'
        BY <1>15, <1>19, <3>1, <3>3, <4>1 DEF EntityKnown, Place
      <4>4. KilledKnown(ctl, d)'
        BY <1>15, <1>19, <3>1, <3>3, <4>1 DEF KilledKnown, Place
      <4> QED BY <4>2, <4>3, <4>4
    <3> QED BY <3>2, <3>3
  <2>3. ASSUME NEW k \in 1..Len(t) PROVE KilledAt(ctl, k)'
    <3>1. CASE t[k] = x
      BY <1>4, <1>8, <1>15, <3>1 DEF KilledAt
    <3>2. CASE t[k] # x
      <4>1. PICK i \in Place : i > 1 /\ t[k] = ctl[i]
        BY <1>17, <3>2
      <4> QED BY <1>4, <1>15, <4>1 DEF KilledAt
    <3> QED BY <3>1, <3>2
  <2> QED BY <1>15, <2>1, <2>2, <2>3 DEF Recorded
<1>24. Emptied'
  <2>1. ASSUME NEW k \in 1..Len(t) PROVE EmptiedAt(ctl, k)'
    <3>1. CASE t[k] = x
      BY <1>8, <1>15, <3>1 DEF EmptiedAt
    <3>2. CASE t[k] # x
      <4>1. PICK i \in Place : i > 1 /\ t[k] = ctl[i]
        BY <1>17, <3>2
      <4>2. EmptiedAt(ctl, i) /\ FrameFit(ctl[i])
        BY <1>1 DEF Emptied, FramesFit
      <4>3. ASSUME ctl[i].op = "removeEach"
            PROVE  /\ \A d \in ctl[i].es : record'[d] = ctl[i].f
                   /\ \A d \in Entities : record'[d] = ctl[i].f /\ d \notin ctl[i].es =>
                        \E j \in 1..Len(t) : t[j].op \in {"removeEntity", "destruct"} /\ t[j].e = d
                   /\ \A j \in 1..Len(t) : t[j].op = "removeEntity" => t[j].e \notin ctl[i].es
        <5>1. ctl[i].f # None
          BY <4>2, <4>3 DEF FrameFit, Emptying, Factories, None
        <5>2. ctl[i].es \subseteq Entities
          BY <1>1, FramesTyped DEF TypeOK, Place
        <5>3. \A d \in ctl[i].es : record'[d] = ctl[i].f
          <6>1. \A d \in ctl[i].es : d \notin killed /\ record[d] = ctl[i].f
            BY <4>2, <4>3 DEF EmptiedAt
          <6> QED BY <1>4, <1>19, <5>2, <6>1
        <5>4. ASSUME NEW d \in Entities, record'[d] = ctl[i].f, d \notin ctl[i].es
              PROVE  \E j \in 1..Len(t) : t[j].op \in {"removeEntity", "destruct"} /\ t[j].e = d
          <6>1. d # e /\ record[d] = ctl[i].f
            BY <1>19, <5>1, <5>4
          <6>2. PICK j \in Place : ctl[j].op \in {"removeEntity", "destruct"} /\ ctl[j].e = d
            BY <4>2, <4>3, <5>4, <6>1 DEF EmptiedAt, Place
          <6> QED BY <1>22, <6>1, <6>2
        <5>5. ASSUME NEW j \in 1..Len(t), t[j].op = "removeEntity" PROVE t[j].e \notin ctl[i].es
          <6>1. t[j] # x
            BY <1>8, <5>5
          <6>2. PICK h \in Place : h > 1 /\ t[j] = ctl[h]
            BY <1>17, <6>1
          <6> QED BY <1>4, <5>5, <6>2
        <5> QED BY <5>3, <5>4, <5>5
      <4>4. ctl[i].op = "detach" => \A d \in Entities : record'[d] # ctl[i].f
        <5> SUFFICES ASSUME ctl[i].op = "detach" PROVE \A d \in Entities : record'[d] # ctl[i].f
          OBVIOUS
        <5>1. ctl[i].f # None
          BY <4>2 DEF FrameFit, Emptying, Factories, None
        <5> QED BY <1>19, <4>2, <5>1 DEF EmptiedAt
      <4> QED BY <1>15, <4>1, <4>2, <4>3, <4>4 DEF EmptiedAt
    <3> QED BY <3>1, <3>2
  <2> QED BY <1>15, <2>1 DEF Emptied
<1>25. Filled'
  <2>1. Live' = Live /\ base' = base
    BY DEF Live
  <2>2. ASSUME NEW d \in Entities PROVE FieldsFit(d)' /\ FieldsKnown(ctl, d)'
    <3>1. FieldsFit(d) /\ FieldsKnown(ctl, d)
      BY <1>1 DEF Filled
    <3>2. CASE d = e
      <4>1. FieldsKnown(ctl, d)'
        BY <1>8, <1>15, <1>18, <3>2 DEF FieldsKnown
      <4> QED BY <1>19, <3>2, <4>1 DEF FieldsFit
    <3>3. CASE d # e
      <4>1. \A i \in Place : ctl[i].e = d => \E k \in 1..Len(t) : t[k] = ctl[i]
        BY <1>22, <3>3
      <4>2. FieldsFit(d)'
        BY <1>19, <2>1, <3>1, <3>3 DEF FieldsFit
      <4>3. FieldsKnown(ctl, d)'
        BY <1>15, <1>19, <3>1, <3>3, <4>1 DEF FieldsKnown, Place
      <4> QED BY <4>2, <4>3
    <3> QED BY <3>2, <3>3
  <2>3. ASSUME NEW k \in 1..Len(t) PROVE FilledAt(ctl, k)'
    <3>1. CASE t[k] = x
      <4>1. fields[e] \subseteq Line(base, Live, f)
        BY <1>1, <1>4, <1>5 DEF Filled, FieldsFit
      <4> QED BY <1>8, <1>15, <1>19, <2>1, <3>1, <4>1 DEF FilledAt
    <3>2. CASE t[k] # x
      <4>1. PICK i \in Place : i > 1 /\ t[k] = ctl[i]
        BY <1>17, <3>2
      <4> QED BY <1>4, <1>15, <4>1 DEF FilledAt
    <3> QED BY <3>1, <3>2
  <2> QED BY <1>15, <2>2, <2>3 DEF Filled
<1> QED BY <1>16, <1>20, <1>21, <1>23, <1>24, <1>25 DEF IInv

\* OnDestroy.
LEMMA OnDestroyKeeps ==
  ASSUME IInv, OnDestroy
  PROVE  IInv'
<1>1. /\ ctl # <<>> /\ Top.op = "destruct"
      /\ UNCHANGED <<factories, closed, derive, installed, base, slots, count, dict>>
      /\ UNCHANGED <<created, fields, killed>> /\ UNCHANGED hooked
  BY DEF OnDestroy, Running, hierarchy
<1>2. CASE record[Top.e] = None
  <2>1. gone' = gone \cup {Top.e} /\ Becomes(<<>>) /\ UNCHANGED record
    BY <1>2 DEF OnDestroy
  <2> QED BY <1>1, <1>2, <2>1, Finishes
<1>3. CASE record[Top.e] # None
  <2>1. PICK f : f = record[Top.e]
    OBVIOUS
  <2>2. record' = [record EXCEPT ![Top.e] = None] /\ Becomes(<<Do("onEnd", f, Top.e)>>) /\ UNCHANGED gone
    BY <1>3, <2>1 DEF OnDestroy
  <2> QED BY <1>1, <1>3, <2>1, <2>2, LosesRecord
<1> QED BY <1>2, <1>3

-----------------------------------------------------------------------------
(***************************************************************************)
(* The start and the end of an uninstall.                                  *)
(***************************************************************************)

\* The call that goes through the derived factories.
LEMMA ChildrenFrame ==
  ASSUME IInv, NEW f \in Factories, f \notin closed, NEW n \in Nat, NEW x, x = ChildrenFrom(f, n)
  PROVE  x \in Frame /\ x.op = "children" /\ x.f = f /\ x.n = n /\ FrameFit(x)
<1>1. PICK y : y = Do("children", f, None)
  OBVIOUS
<1>2. "children" \in Ops /\ f \in 0..MaxFactories /\ None \in 0..MaxEntities
  BY ConstantsOK DEF Ops, Factories, None
<1>3. y \in Frame /\ y.op = "children" /\ y.f = f /\ y.e = None /\ y.n = 0 /\ y.es = {} /\ y.fs = <<>>
  BY <1>1, <1>2, DoFrame
<1>4. x = [y EXCEPT !.n = n]
  BY <1>1 DEF ChildrenFrom
<1>5. x \in Frame /\ x.op = "children" /\ x.f = f /\ x.e = None /\ x.n = n /\ x.es = {} /\ x.fs = <<>>
  BY <1>3, <1>4 DEF Frame
<1>6. None \notin gone
  BY LiveFactories
<1>7. "children" \notin Building \cup {"onRemove"} \cup Destroying \cup Closers \cup {"unloadAll"}
  BY DEF Building, Destroying, Closers
<1>8. FrameFit(x)
  BY <1>5, <1>6, <1>7 DEF FrameFit, Closers, Destroying
<1> QED BY <1>5, <1>8

\* RemovePluginFactory takes the factory out of the dictionary, and nothing else.
LEMMA NameRemoved ==
  ASSUME TypeOK, NameFits, NEW f \in Factories, NEW d, d = RemovePluginFactory(f)
  PROVE  /\ d \in [Classnames -> 0..MaxFactories]
         /\ \A c \in Classnames : d[c] # f /\ d[c] \in {dict[c], None} /\ (dict[c] # f => d[c] = dict[c])
<1>1. dict \in [Classnames -> 0..MaxFactories] /\ f # None /\ None \in 0..MaxFactories
  BY ConstantsOK DEF TypeOK, Factories, None
<1>2. CASE f \in Abstract
  <2>1. d = dict
    BY <1>2 DEF RemovePluginFactory
  <2>2. \A c \in Classnames : dict[c] # f
    BY <1>1, <1>2 DEF NameFits
  <2> QED BY <1>1, <2>1, <2>2
<1>3. CASE f \notin Abstract
  <2>1. d = [c \in Classnames |-> IF dict[c] = f THEN None ELSE dict[c]]
    BY <1>3 DEF RemovePluginFactory
  <2> QED BY <1>1, <2>1
<1> QED BY <1>2, <1>3

\* Uninstall of an installed factory.
LEMMA UninstallStarts ==
  ASSUME IInv, Uninstall, installed[Top.f]
  PROVE  IInv'
<1>1. PICK f : f = Top.f
  OBVIOUS
<1>2. /\ ctl # <<>> /\ Top.op = "uninstall" /\ dict' = RemovePluginFactory(f)
      /\ Becomes(<<ChildrenFrom(f, count[f])>>) /\ installed[f]
  BY <1>1 DEF Uninstall, Running
<1>3. /\ UNCHANGED <<factories, closed, derive, installed, base, slots, count>>
      /\ UNCHANGED <<created, record, fields, killed, gone>> /\ hooked' = hooked
  BY DEF Uninstall, population
<1>4. /\ TypeOK /\ Ordered /\ Installing /\ FramesFit /\ Registered /\ Hierarchy
      /\ Withdrawn /\ Named /\ Deleting /\ Recorded /\ Emptied /\ Filled
  BY DEF IInv
<1>5. Top = ctl[1] /\ 1 \in Place /\ FrameFit(Top)
  BY <1>2, Runs
<1>6. f \in Factories /\ f \notin closed
  BY <1>1, <1>2, <1>5 DEF FrameFit, Leaving
<1>7. PICK n \in Nat : n = count[f]
  BY <1>4, <1>6 DEF TypeOK
<1>8. PICK x : x = ChildrenFrom(f, n)
  OBVIOUS
<1>9. x \in Frame /\ x.op = "children" /\ x.f = f /\ x.n = n /\ FrameFit(x)
  BY <1>6, <1>8, ChildrenFrame
<1>10. PICK fs : fs = <<x>>
  OBVIOUS
<1>11. fs \in Seq(Frame) /\ Len(fs) = 1 /\ fs[1] = x /\ Becomes(fs)
  BY <1>2, <1>7, <1>8, <1>9, <1>10, OneFrame
<1>12. PICK d : d = RemovePluginFactory(f)
  OBVIOUS
<1>13. /\ d \in [Classnames -> 0..MaxFactories] /\ d = dict'
       /\ \A c \in Classnames : d[c] # f /\ d[c] \in {dict[c], None} /\ (dict[c] # f => d[c] = dict[c])
  BY <1>2, <1>4, <1>6, <1>12, NameRemoved DEF Named
<1> HIDE <1>1, <1>8, <1>10, <1>12
<1>14. PICK p \in {0, 1} : p = 1
  OBVIOUS
<1>15. PICK t : Puts(t, fs, p)
  BY <1>2, <1>4, <1>11, <1>14, BecomesPut
<1>16. \A k \in 1..Len(fs) : k = 1 /\ t[k] = x /\ k \in 1..Len(t)
  <2>1. \A k \in 1..Len(fs) : k \in 1..Len(t) /\ t[k] = fs[k]
    BY <1>4, <1>14, <1>15, Swapped
  <2> QED BY <1>11, <2>1
<1>17. \A k \in 1..Len(t) : t[k] = x \/ \E i \in Place : i > 1 /\ t[k] = ctl[i]
  <2>1. \A k \in 1..Len(t) : k \in 1..Len(fs) \/ \E i \in Place : i > 1 /\ t[k] = ctl[i]
    BY <1>4, <1>14, <1>15, Swapped
  <2> QED BY <1>16, <2>1
<1>18. t = ctl' /\ t \in Seq(Frame) /\ Place' = 1..Len(t)
  BY <1>4, <1>14, <1>15, Swapped
<1>19. 1 \in 1..Len(fs) /\ 1 \in 1..Len(t) /\ t[1] = x
  BY <1>11, <1>16
<1>20. OrderFit(t, fs, p) /\ InstallFit(t, fs, p)
  <2>1. Top.op \notin {"onInstalled"} \cup Building
    BY <1>2 DEF Building
  <2>2. \A j, k \in 1..Len(fs) : j < k => Over(fs[j].op, fs[k].op)
    BY <1>16
  <2>3. Lower(x.op, Top.op) /\ x.op # "onInstalled"
    BY <1>2, <1>9, Ranks DEF Lower, Leaving
  <2>4. \A k \in 1..Len(fs) : Lower(fs[k].op, Top.op) /\ fs[k].op # "onInstalled"
    BY <1>11, <1>16, <2>3
  <2> QED BY <1>2, <1>14, <1>15, <2>1, <2>2, <2>4, ReplacesInOrder
<1>21. Ordered'
  BY <1>4, <1>15, <1>20, OrderRests DEF OrderFit
<1>22. Installing'
  BY <1>4, <1>15, <1>20, InstallingRests DEF InstallFit
<1>23. TypeOK'
  BY <1>3, <1>4, <1>13, <1>18 DEF TypeOK
<1>24. FramesFit'
  <2>1. \A k \in 1..Len(fs) : FrameFit(t[k])
    BY <1>9, <1>16
  <2> QED BY <1>3, <1>4, <1>15, <2>1, FramesFitRest
<1>25. Registered' /\ Hierarchy'
  <2>1. Live' = Live
    BY <1>3 DEF Live
  <2> QED BY <1>3, <1>4, <2>1 DEF Registered, Hierarchy, HierarchyAt
<1>26. Passed(t, Len(fs), p)
  <2>1. x.op \in Uninstalling /\ ctl[1].f = f /\ ctl[1].op \notin Uninstalling
    BY <1>1, <1>2, <1>5, <1>9 DEF Uninstalling, Emptying
  <2> QED BY <1>9, <1>19, <2>1 DEF Passed
<1>27. Withdrawn'
  <2>1. n <= Len(slots[f]) /\ \A i \in 1..n : slots[f][i] \notin closed
    <3>1. HierarchyAt(f) /\ slots[f] \in Seq(Factories) /\ count[f] = n
      BY <1>4, <1>6, <1>7 DEF Hierarchy, TypeOK
    <3>2. n <= Len(slots[f])
      BY <3>1 DEF HierarchyAt
    <3>3. ASSUME NEW i \in 1..n PROVE slots[f][i] \in Upright
      <4>1. i \in 1..Len(slots[f])
        BY <3>1, <3>2
      <4>2. slots[f][i] \in Factories
        BY <3>1, <4>1
      <4>3. installed[slots[f][i]]
        BY <3>1 DEF HierarchyAt
      <4> QED BY <4>2, <4>3 DEF Upright
    <3> QED BY <3>2, <3>3, LiveFactories
  <2>2. \A k \in 1..Len(fs) : WithdrawnAt(t, k)
    <3>1. x.op \notin Emptying /\ ~(count[f] > n)
      BY <1>7, <1>9 DEF Emptying
    <3> QED BY <1>9, <1>16, <2>1, <3>1 DEF WithdrawnAt
  <2> QED BY <1>3, <1>4, <1>15, <1>26, <2>2, WithdrawnRests
<1>28. Named'
  <2>1. NameFits /\ dict \in [Classnames -> 0..MaxFactories]
    BY <1>4 DEF Named, TypeOK
  <2>2. NameFits'
    BY <1>3, <1>13, <2>1 DEF NameFits
  <2>3. ASSUME NEW g \in Factories PROVE NameKnown(ctl, g)'
    <3>1. NameKnown(ctl, g)
      BY <1>4 DEF Named
    <3>2. CASE g = f
      <4>1. \E k \in 1..Len(t) : t[k].op \in Uninstalling /\ t[k].f = g
        BY <1>9, <1>19, <3>2 DEF Uninstalling
      <4> QED BY <1>18, <4>1 DEF NameKnown
    <3>3. CASE g # f
      <4>1. Class[g] \in Classnames
        BY ConstantsOK
      <4>2. dict[Class[g]] = g => d[Class[g]] = g
        BY <1>13, <3>3, <4>1
      <4>3. (\E k \in Place : ctl[k].op \in Uninstalling /\ ctl[k].f = g)
              => \E k \in 1..Len(t) : t[k].op \in Uninstalling /\ t[k].f = g
        <5>1. \A i \in Place : i = 1 \/ \E k \in 1..Len(t) : t[k] = ctl[i]
          BY <1>4, <1>14, <1>15, Swapped
        <5>2. ctl[1].op \notin Uninstalling
          BY <1>2, <1>5 DEF Uninstalling, Emptying
        <5> QED BY <5>1, <5>2
      <4> QED BY <1>3, <1>13, <1>18, <3>1, <4>2, <4>3 DEF NameKnown, Place
    <3> QED BY <3>2, <3>3
  <2>4. ASSUME NEW k \in 1..Len(t) PROVE NameGone(ctl, k)'
    <3>1. CASE t[k] = x
      BY <1>9, <1>13, <1>18, <3>1 DEF NameGone
    <3>2. CASE t[k] # x
      <4>1. PICK i \in Place : t[k] = ctl[i]
        BY <1>17, <3>2
      <4>2. NameGone(ctl, i) /\ FrameFit(ctl[i])
        BY <1>4 DEF Named, FramesFit
      <4>3. ctl[i].op \in Uninstalling => ctl[i].f # None
        BY <4>2 DEF FrameFit, Uninstalling, Emptying, Leaving, Factories, None
      <4> QED BY <1>13, <1>18, <4>1, <4>2, <4>3 DEF NameGone
    <3> QED BY <3>1, <3>2
  <2> QED BY <1>18, <2>2, <2>3, <2>4 DEF Named
<1>29. Deleting'
  <2>1. \A k \in 1..Len(fs) : DeletingAt(t, k)
    BY <1>9, <1>16 DEF DeletingAt
  <2> QED BY <1>3, <1>4, <1>15, <1>26, <2>1, DeletingRests
<1>30. Recorded'
  <2>1. \A k \in 1..Len(fs) : KilledAt(t, k)
    BY <1>9, <1>16 DEF KilledAt
  <2>2. \A e \in Entities : record[e] # None => installed'[record[e]]
    BY <1>3, <1>4 DEF Recorded, RecordFits
  <2>3. ctl[1].op \notin {"destruct", "onEnd"}
    BY <1>2, <1>5
  <2> QED BY <1>3, <1>4, <1>15, <2>1, <2>2, <2>3, RecordedRests
<1>31. Emptied'
  <2>1. \A k \in 1..Len(fs) : EmptiedAt(t, k) /\ t[k].op # "removeEntity"
    BY <1>9, <1>16 DEF EmptiedAt
  <2>2. ctl[1].op \notin {"removeEntity", "destruct"}
    BY <1>2, <1>5
  <2> QED BY <1>3, <1>4, <1>15, <2>1, <2>2, EmptiedRests
<1>32. Filled'
  <2>1. \A k \in 1..Len(fs) : FilledAt(t, k)
    BY <1>9, <1>16 DEF FilledAt
  <2>2. ctl[1].op # "onEnd"
    BY <1>2, <1>5
  <2> QED BY <1>3, <1>4, <1>15, <2>1, <2>2, FilledRests
<1> QED BY <1>21, <1>22, <1>23, <1>24, <1>25, <1>27, <1>28, <1>29, <1>30, <1>31, <1>32 DEF IInv

\* An uninstall returns at once or takes the classname and goes on.
LEMMA UninstallKeeps ==
  ASSUME IInv, Uninstall
  PROVE  IInv'
BY UninstallReturns, UninstallStarts

\* The slot of f among those of its base b.
SlotOf(f, b, m) ==
  /\ slots[b][m] = f /\ \A k \in 1..count[b] : slots[b][k] = f => k = m
  /\ slots' = [slots EXCEPT ![b] = [k \in DOMAIN @ |-> IF k \in m..(count[b]-1) THEN @[k+1] ELSE @[k]]]
  /\ count' = [count EXCEPT ![b] = @ - 1]

\* A factory is in the slots of its base once.
LEMMA DerivedSlot ==
  ASSUME TypeOK, Registered, Hierarchy, NEW f \in Factories, NEW b, b = base[f], b \in Factories,
         RemoveDerived(b, f)
  PROVE  \E m \in 1..count[b] : SlotOf(f, b, m)
<1> DEFINE at == {i \in 1..count[b] : slots[b][i] = f}
           m == CHOOSE k \in at : \A l \in at : k <= l
<1>1. HierarchyAt(f) /\ HierarchyAt(b) /\ count[b] \in Nat
  BY DEF Hierarchy, TypeOK
<1>2. PICK i \in 1..count[b] : slots[b][i] = f
  BY <1>1 DEF HierarchyAt
<1>3. at = {i}
  BY <1>1, <1>2 DEF HierarchyAt
<1>4. i <= i /\ \A l \in at : i <= l
  BY <1>1, <1>3
<1>5. m = i
  BY <1>3, <1>4
<1>6. at # {}
  BY <1>3
<1>7. /\ slots' = [slots EXCEPT ![b] = [k \in DOMAIN @ |-> IF k \in m..(count[b]-1) THEN @[k+1] ELSE @[k]]]
      /\ count' = [count EXCEPT ![b] = @ - 1]
  BY <1>6, Zenon DEF RemoveDerived
<1> HIDE DEF m
<1>8. m \in 1..count[b]
  BY <1>2, <1>5
<1>9. SlotOf(f, b, m)
  BY <1>2, <1>3, <1>5, <1>7 DEF SlotOf
<1> QED BY <1>8, <1>9

\* FindAndRemove on the slots s of which n are in use, for the one at m.
ShiftedTo(m, n, u, s) ==
  /\ u \in Seq(Factories) /\ Len(u) = Len(s)
  /\ \A k \in 1..Len(s) : u[k] = IF k \in m..(n-1) THEN s[k+1] ELSE s[k]

\* An element found in a list is shifted out of it (RemoveDerived).
LEMMA Shifted ==
  ASSUME NEW s \in Seq(Factories), NEW n \in Nat, n <= Len(s), NEW m \in 1..n,
         NEW u, u = [k \in DOMAIN s |-> IF k \in m..(n-1) THEN s[k+1] ELSE s[k]]
  PROVE  ShiftedTo(m, n, u, s)
<1>1. PICK l \in Nat : l = Len(s)
  OBVIOUS
<1>2. DOMAIN s = 1..l /\ \A k \in 1..l : s[k] \in Factories
  BY <1>1
<1>3. \A k \in 1..l : k \in m..(n-1) => k + 1 \in 1..l
  BY <1>1
<1>4. u = [k \in 1..l |-> IF k \in m..(n-1) THEN s[k+1] ELSE s[k]]
  BY <1>2
<1>5. u \in [1..l -> Factories]
  BY <1>2, <1>3, <1>4
<1>6. u \in Seq(Factories) /\ Len(u) = l
  BY <1>1, <1>5
<1> QED BY <1>1, <1>4, <1>6 DEF ShiftedTo

\* What Detach leaves of the slots.
DerivedLess(f, b) ==
  /\ slots' \in [Factories -> Seq(Factories)] /\ count' \in [Factories -> Nat]
  /\ \A g \in Factories : g # b => slots'[g] = slots[g] /\ count'[g] = count[g]
  /\ b \in Factories =>
       /\ count[b] = count'[b] + 1
       /\ \E m \in 1..count[b] :
            /\ slots[b][m] = f /\ \A k \in 1..count[b] : slots[b][k] = f => k = m
            /\ ShiftedTo(m, count[b], slots'[b], slots[b])

\* A factory that leaves its base leaves the list of those derived from it.
LEMMA DetachSlots ==
  ASSUME TypeOK, Registered, Hierarchy, NEW f \in Factories, NEW b, b = base[f],
         IF ToPlugin(b) # None THEN RemoveDerived(b, f) ELSE UNCHANGED <<slots, count>>
  PROVE  DerivedLess(f, b)
<1>1. /\ slots \in [Factories -> Seq(Factories)] /\ count \in [Factories -> Nat]
  BY DEF TypeOK
<1>2. b \in Live <=> b \in Factories
  BY BasesInstalled DEF Registered, Hierarchy, HierarchyAt
<1>3. CASE b \in Factories
  <2>1. b # None
    BY <1>3 DEF Factories, None
  <2>2. RemoveDerived(b, f)
    BY <1>2, <1>3, <2>1 DEF ToPlugin
  <2>2a. PICK m \in 1..count[b] : SlotOf(f, b, m)
    BY <1>3, <2>2, DerivedSlot
  <2>3. /\ slots[b][m] = f /\ \A k \in 1..count[b] : slots[b][k] = f => k = m
        /\ slots' = [slots EXCEPT ![b] = [k \in DOMAIN @ |-> IF k \in m..(count[b]-1) THEN @[k+1] ELSE @[k]]]
        /\ count' = [count EXCEPT ![b] = @ - 1]
    BY <2>2a DEF SlotOf
  <2>4. PICK s \in Seq(Factories) : s = slots[b]
    BY <1>1, <1>3
  <2>5. PICK n \in Nat : n = count[b]
    BY <1>1, <1>3
  <2>6. n <= Len(s)
    BY <1>3, <2>4, <2>5 DEF Hierarchy, HierarchyAt
  <2>7. PICK u : u = [k \in DOMAIN s |-> IF k \in m..(n-1) THEN s[k+1] ELSE s[k]]
    OBVIOUS
  <2>8. m \in 1..n
    BY <2>5
  <2>9. ShiftedTo(m, n, u, s)
    BY <2>6, <2>7, <2>8, Shifted
  <2>10. slots' = [slots EXCEPT ![b] = u]
    BY <2>3, <2>4, <2>5, <2>7
  <2>11. count' = [count EXCEPT ![b] = n - 1]
    BY <2>3, <2>5
  <2> HIDE <2>7
  <2>12. u \in Seq(Factories)
    BY <2>9 DEF ShiftedTo
  <2>13. slots' \in [Factories -> Seq(Factories)] /\ slots'[b] = u
         /\ \A g \in Factories : g # b => slots'[g] = slots[g]
    BY <1>1, <1>3, <2>10, <2>12
  <2>14. n - 1 \in Nat
    BY <2>8
  <2>15. count' \in [Factories -> Nat] /\ count'[b] = n - 1
         /\ \A g \in Factories : g # b => count'[g] = count[g]
    BY <1>1, <1>3, <2>11, <2>14
  <2>16. count[b] = count'[b] + 1
    BY <2>5, <2>14, <2>15
  <2>17. ShiftedTo(m, count[b], slots'[b], slots[b])
    BY <2>4, <2>5, <2>9, <2>13
  <2> QED BY <2>3, <2>13, <2>15, <2>16, <2>17 DEF DerivedLess
<1>4. CASE b \notin Factories
  <2>1. slots' = slots /\ count' = count
    BY <1>2, <1>4 DEF ToPlugin
  <2> QED BY <1>1, <1>4, <2>1 DEF DerivedLess
<1> QED BY <1>3, <1>4

\* The slots in use hold what they held, but for the factory that left.
LEMMA SlotsLeft ==
  ASSUME TypeOK, Registered, Hierarchy, NEW f \in Factories, NEW b, b = base[f], DerivedLess(f, b),
         NEW g \in Factories
  PROVE  /\ count'[g] <= Len(slots'[g]) /\ Len(slots'[g]) = Len(slots[g])
         /\ \A i \in 1..count'[g] : \E j \in 1..count[g] :
              slots'[g][i] = slots[g][j] /\ slots[g][j] # f
         /\ \A j \in 1..count[g] : slots[g][j] # f => \E i \in 1..count'[g] : slots'[g][i] = slots[g][j]
         /\ \A i, j \in 1..count'[g] : slots'[g][i] = slots'[g][j] => i = j
<1>1. /\ slots \in [Factories -> Seq(Factories)] /\ count \in [Factories -> Nat]
      /\ slots[g] \in Seq(Factories) /\ count[g] \in Nat /\ Len(slots[g]) \in Nat
  BY DEF TypeOK
<1>2. HierarchyAt(g) /\ count[g] <= Len(slots[g])
  BY DEF Hierarchy, HierarchyAt
<1>3. CASE g # b
  <2>1. slots'[g] = slots[g] /\ count'[g] = count[g]
    BY <1>3 DEF DerivedLess
  <2>2. \A j \in 1..count[g] : slots[g][j] # f
    BY <1>2, <1>3 DEF HierarchyAt
  <2>3. \A i, j \in 1..count[g] : slots[g][i] = slots[g][j] => i = j
    BY <1>2 DEF HierarchyAt
  <2> QED BY <1>2, <2>1, <2>2, <2>3
<1>4. CASE g = b
  <2>1. PICK m \in 1..count[g] :
            /\ slots[g][m] = f /\ \A k \in 1..count[g] : slots[g][k] = f => k = m
            /\ ShiftedTo(m, count[g], slots'[g], slots[g])
    BY <1>4 DEF DerivedLess
  <2>2. PICK s \in Seq(Factories) : s = slots[g]
    BY <1>1
  <2>3. PICK n \in Nat : n = count[g]
    BY <1>1
  <2>4. PICK u : u = slots'[g]
    OBVIOUS
  <2>5. PICK c \in Nat : c = count'[g] /\ n = c + 1
    BY <1>4, <2>3 DEF DerivedLess
  <2>6. /\ m \in 1..n /\ s[m] = f /\ \A k \in 1..n : s[k] = f => k = m
        /\ ShiftedTo(m, n, u, s)
    BY <2>1, <2>2, <2>3, <2>4
  <2>7. n <= Len(s) /\ \A i, j \in 1..n : s[i] = s[j] => i = j
    BY <1>2, <2>2, <2>3 DEF HierarchyAt
  <2>8. u \in Seq(Factories) /\ Len(u) = Len(s) /\ Len(s) \in Nat
        /\ \A k \in 1..Len(s) : u[k] = IF k \in m..(n-1) THEN s[k+1] ELSE s[k]
    BY <2>6 DEF ShiftedTo
  <2>9. \A i \in 1..c : i \in 1..Len(s) /\ i \in 1..n /\ i + 1 \in 1..n /\ (i \in m..(n-1) <=> ~(i < m))
    BY <2>5, <2>6, <2>7, <2>8
  <2>10. \A i \in 1..c : u[i] = IF i < m THEN s[i] ELSE s[i+1]
    BY <2>8, <2>9
  <2>11. c <= Len(u)
    BY <2>5, <2>7, <2>8
  <2>12. \A i \in 1..c : \E j \in 1..n : u[i] = s[j] /\ s[j] # f
    <3> TAKE i \in 1..c
    <3>1. CASE i < m
      <4>1. i # m
        BY <2>6, <3>1
      <4> QED BY <2>6, <2>9, <2>10, <3>1, <4>1
    <3>2. CASE ~(i < m)
      <4>1. i + 1 # m
        BY <2>6, <3>2
      <4> QED BY <2>6, <2>9, <2>10, <3>2, <4>1
    <3> QED BY <3>1, <3>2
  <2>13. \A j \in 1..n : s[j] # f => \E i \in 1..c : u[i] = s[j]
    <3> SUFFICES ASSUME NEW j \in 1..n, s[j] # f PROVE \E i \in 1..c : u[i] = s[j]
      OBVIOUS
    <3>1. j # m
      BY <2>6
    <3>2. CASE j < m
      <4>1. j \in 1..c
        BY <2>5, <2>6, <3>2
      <4> QED BY <2>10, <3>2, <4>1
    <3>3. CASE ~(j < m)
      <4>1. j - 1 \in 1..c /\ ~(j - 1 < m) /\ (j - 1) + 1 = j
        BY <2>5, <2>6, <3>1, <3>3
      <4>2. u[j - 1] = s[(j - 1) + 1]
        BY <2>10, <4>1
      <4> QED BY <4>1, <4>2
    <3> QED BY <3>2, <3>3
  <2>14. ASSUME NEW i \in 1..c, NEW j \in 1..c, u[i] = u[j] PROVE i = j
    <3>1. i \in 1..n /\ i + 1 \in 1..n /\ j \in 1..n /\ j + 1 \in 1..n
      BY <2>9
    <3>2. CASE i < m /\ j < m
      <4>1. s[i] = s[j]
        BY <2>10, <2>14, <3>2
      <4> QED BY <2>7, <3>1, <4>1
    <3>3. CASE ~(i < m) /\ ~(j < m)
      <4>1. s[i + 1] = s[j + 1]
        BY <2>10, <2>14, <3>3
      <4>2. i + 1 = j + 1
        BY <2>7, <3>1, <4>1
      <4> QED BY <4>2
    <3>4. CASE i < m /\ ~(j < m)
      <4>1. s[i] = s[j + 1]
        BY <2>10, <2>14, <3>4
      <4>2. i = j + 1
        BY <2>7, <3>1, <4>1
      <4> QED BY <2>6, <3>4, <4>2
    <3>5. CASE ~(i < m) /\ j < m
      <4>1. s[i + 1] = s[j]
        BY <2>10, <2>14, <3>5
      <4>2. i + 1 = j
        BY <2>7, <3>1, <4>1
      <4> QED BY <2>6, <3>5, <4>2
    <3> QED BY <3>2, <3>3, <3>4, <3>5
  <2> HIDE DEF DerivedLess
  <2> QED BY <2>2, <2>3, <2>4, <2>5, <2>8, <2>11, <2>12, <2>13, <2>14
<1> QED BY <1>3, <1>4

\* The hierarchy without the factory that leaves it.
LEMMA DetachHierarchy ==
  ASSUME TypeOK, Registered, Hierarchy, NEW f \in Factories, count[f] = 0, NEW b, b = base[f],
         DerivedLess(f, b), base' = [base EXCEPT ![f] = None],
         installed' = [installed EXCEPT ![f] = FALSE]
  PROVE  Hierarchy'
<1>1. /\ base'[f] = None /\ \A g \in Factories : g # f => base'[g] = base[g]
      /\ ~installed'[f] /\ \A g \in Factories : g # f => installed'[g] = installed[g]
  BY DEF TypeOK
<1>2. None \notin Factories
  BY DEF Factories, None
<1>3. ASSUME NEW g \in Factories PROVE HierarchyAt(g)'
  <2>1. HierarchyAt(g) /\ slots[g] \in Seq(Factories) /\ count[g] \in Nat /\ count[g] <= Len(slots[g])
    BY DEF Hierarchy, HierarchyAt, TypeOK
  <2>2. count'[g] <= Len(slots'[g])
    BY SlotsLeft
  <2>3. \A i, j \in 1..count'[g] : slots'[g][i] = slots'[g][j] => i = j
    BY SlotsLeft
  <2>4. ASSUME base'[g] \in Factories
        PROVE  installed'[base'[g]] /\ \E i \in 1..count'[base'[g]] : slots'[base'[g]][i] = g
    <3>1. g # f /\ base'[g] = base[g]
      BY <1>1, <1>2, <2>4
    <3>2. PICK h \in Factories : h = base[g]
      BY <2>4, <3>1
    <3>3. installed[h] /\ \E j \in 1..count[h] : slots[h][j] = g
      BY <2>1, <3>2 DEF HierarchyAt
    <3>4. PICK j \in 1..count[h] : slots[h][j] = g
      BY <3>3
    <3>5. h # f
      BY <3>4
    <3>6. \A l \in 1..count[h] : slots[h][l] # f => \E i \in 1..count'[h] : slots'[h][i] = slots[h][l]
      BY <3>2, SlotsLeft
    <3>7. \E i \in 1..count'[h] : slots'[h][i] = g
      BY <3>1, <3>4, <3>6
    <3> QED BY <1>1, <3>1, <3>2, <3>3, <3>5, <3>7
  <2>5. ASSUME NEW i \in 1..count'[g] PROVE installed'[slots'[g][i]] /\ base'[slots'[g][i]] = g
    <3>1. \A l \in 1..count'[g] : \E j \in 1..count[g] : slots'[g][l] = slots[g][j] /\ slots[g][j] # f
      BY SlotsLeft
    <3>2. PICK j \in 1..count[g] : slots'[g][i] = slots[g][j] /\ slots[g][j] # f
      BY <3>1
    <3>3. j \in 1..Len(slots[g])
      BY <2>1
    <3>4. slots[g][j] \in Factories
      BY <2>1, <3>3
    <3>5. installed[slots[g][j]] /\ base[slots[g][j]] = g
      BY <2>1 DEF HierarchyAt
    <3> QED BY <1>1, <3>2, <3>4, <3>5
  <2> QED BY <2>2, <2>3, <2>4, <2>5 DEF HierarchyAt
<1> QED BY <1>3 DEF Hierarchy

\* The innermost call is replaced by one other.
LEMMA SwappedOne ==
  ASSUME TypeOK, NEW t, NEW fs, NEW p, p = 1, Puts(t, fs, p), Len(fs) = 1
  PROVE  /\ 1 \in 1..Len(t) /\ t[1] = fs[1] /\ t = ctl' /\ t \in Seq(Frame)
         /\ Place' = 1..Len(t) /\ Len(t) = Len(ctl) /\ \A k \in 1..Len(t) : k # 1 => k \in Place /\ t[k] = ctl[k]
<1>1. \A k \in 1..Len(t) : k > Len(fs) => k - Len(fs) + p \in 1..Len(ctl) /\ t[k] = ctl[k - Len(fs) + p]
  BY DEF Puts, Kept
<1>2. \A k \in 1..Len(fs) : k \in 1..Len(t) /\ t[k] = fs[k]
  BY OldPlaces
<1>3. t = ctl' /\ t \in Seq(Frame) /\ Place' = 1..Len(t)
  BY OldPlaces
<1>4. Len(t) = Len(ctl) + Len(fs) - p
  BY DEF Puts, Kept
<1>5. Len(ctl) \in Nat /\ Len(t) \in Nat
  BY <1>3 DEF TypeOK
<1>6. Len(t) = Len(ctl)
  BY <1>4, <1>5
<1>7. ASSUME NEW k \in 1..Len(t), k # 1 PROVE k \in Place /\ t[k] = ctl[k]
  <2>1. k > Len(fs) /\ k - Len(fs) + p = k
    BY <1>5, <1>7
  <2> QED BY <1>1, <2>1 DEF Place
<1>8. 1 \in 1..Len(fs)
  OBVIOUS
<1> QED BY <1>2, <1>3, <1>6, <1>7, <1>8

\* An uninstall that goes through the derived factories, after one of them left.
LEMMA DetachWithdrawn ==
  ASSUME TypeOK, Registered, Hierarchy, Withdrawn, FramesFit,
         \A g \in Upright : g \notin closed,
         NEW f \in Factories, NEW b, b = base[f], DerivedLess(f, b), ctl # <<>>, ctl[1].f = f,
         NEW t, Len(t) = Len(ctl), 1 \in 1..Len(t), t[1].op = "onUninstalled",
         \A k \in 1..Len(t) : k # 1 => k \in Place /\ t[k] = ctl[k],
         \A i \in Place : i > 1 => ctl[i].op \notin Emptying,
         t = ctl', Place' = 1..Len(t), UNCHANGED closed
  PROVE  Withdrawn'
<1>1. ASSUME NEW k \in 1..Len(t) PROVE WithdrawnAt(ctl, k)'
  <2>1. CASE k = 1
    <3>1. t[k].op \notin Emptying /\ t[k].op # "children"
      BY <2>1 DEF Emptying
    <3> QED BY <3>1 DEF WithdrawnAt
  <2>2. CASE k # 1
    <3>1. k \in Place /\ t[k] = ctl[k] /\ k > 1
      BY <2>2
    <3>2. WithdrawnAt(ctl, k) /\ FrameFit(ctl[k]) /\ ctl[k].op \notin Emptying
      BY <3>1 DEF Withdrawn, FramesFit
    <3>3. ASSUME ctl[k].op = "children"
          PROVE  /\ ctl[k].n <= Len(slots'[ctl[k].f])
                 /\ \A i \in 1..ctl[k].n : slots'[ctl[k].f][i] \notin closed
                 /\ count'[ctl[k].f] > ctl[k].n =>
                      /\ count'[ctl[k].f] = ctl[k].n + 1
                      /\ \E j \in 1..Len(t) : /\ j < k /\ t[j].op \in Stages
                                              /\ t[j].f = slots'[ctl[k].f][ctl[k].n + 1]
      <4>1. PICK g \in Factories : g = ctl[k].f
        BY <3>2, <3>3 DEF FrameFit, Leaving
      <4>2. PICK n \in Nat : n = ctl[k].n
        BY <3>1, FramesTyped DEF TypeOK, Place
      <4>3. /\ n <= Len(slots[g]) /\ \A i \in 1..n : slots[g][i] \notin closed
            /\ count[g] > n =>
                 /\ count[g] = n + 1
                 /\ \E j \in 1..Len(ctl) : j < k /\ ctl[j].op \in Stages /\ ctl[j].f = slots[g][n + 1]
        BY <3>2, <3>3, <4>1, <4>2 DEF WithdrawnAt
      <4>4. HierarchyAt(g) /\ slots[g] \in Seq(Factories) /\ count[g] \in Nat /\ count[g] <= Len(slots[g])
        BY DEF Hierarchy, HierarchyAt, TypeOK
      <4>5. Len(slots'[g]) = Len(slots[g])
        BY SlotsLeft
      <4>6. \A i \in 1..count[g] : slots[g][i] \in Factories /\ slots[g][i] \notin closed /\ base[slots[g][i]] = g
        <5> TAKE i \in 1..count[g]
        <5>1. i \in 1..Len(slots[g])
          BY <4>4
        <5>2. slots[g][i] \in Factories
          BY <4>4, <5>1
        <5>3. installed[slots[g][i]] /\ base[slots[g][i]] = g
          BY <4>4 DEF HierarchyAt
        <5> QED BY <5>2, <5>3 DEF Upright
      <4>7. CASE g = b
        <5>1. count[g] = count'[g] + 1 /\ count'[g] \in Nat
          BY <4>7 DEF DerivedLess
        <5>2. PICK m \in 1..count[g] : ShiftedTo(m, count[g], slots'[g], slots[g])
          BY <4>7 DEF DerivedLess
        <5>3. ~(count'[g] > n)
          BY <4>3, <4>4, <5>1
        <5>4. ASSUME NEW i \in 1..n PROVE slots'[g][i] \notin closed
          <6>1. i \in 1..Len(slots[g])
            BY <4>3, <4>4
          <6>2. slots'[g][i] = IF i \in m..(count[g]-1) THEN slots[g][i+1] ELSE slots[g][i]
            BY <5>2, <6>1 DEF ShiftedTo
          <6>3. CASE i \in m..(count[g]-1)
            <7>1. i + 1 \in 1..count[g]
              BY <4>4, <6>3
            <7> QED BY <4>6, <6>2, <6>3, <7>1
          <6>4. CASE i \notin m..(count[g]-1)
            BY <4>3, <6>2, <6>4
          <6> QED BY <6>3, <6>4
        <5> QED BY <4>1, <4>2, <4>3, <4>5, <5>3, <5>4
      <4>8. CASE g # b
        <5>1. slots'[g] = slots[g] /\ count'[g] = count[g]
          BY <4>8 DEF DerivedLess
        <5>2. ASSUME count[g] > n
              PROVE  \E j \in 1..Len(t) : j < k /\ t[j].op \in Stages /\ t[j].f = slots[g][n + 1]
          <6>1. n + 1 \in 1..count[g]
            BY <4>4, <5>2
          <6>2. base[slots[g][n + 1]] = g
            BY <4>6, <6>1
          <6>3. slots[g][n + 1] # f
            BY <4>8, <6>2
          <6>4. PICK j \in 1..Len(ctl) : j < k /\ ctl[j].op \in Stages /\ ctl[j].f = slots[g][n + 1]
            BY <4>3, <5>2
          <6>5. j # 1
            BY <6>3, <6>4
          <6>6. j \in 1..Len(t) /\ t[j] = ctl[j]
            BY <6>5
          <6> QED BY <6>4, <6>6
        <5> QED BY <4>1, <4>2, <4>3, <5>1, <5>2
      <4> QED BY <4>7, <4>8
    <3> QED BY <3>1, <3>2, <3>3 DEF WithdrawnAt
  <2> QED BY <2>1, <2>2
<1> QED BY <1>1 DEF Withdrawn

\* Detach: no entity and no derived factory is left to see the factory go.
LEMMA DetachKeeps ==
  ASSUME IInv, Detach
  PROVE  IInv'
<1>1. PICK f : f = Top.f
  OBVIOUS
<1>2. PICK b : b = base[f]
  OBVIOUS
<1>3. /\ ctl # <<>> /\ Top.op = "detach" /\ base' = [base EXCEPT ![f] = None]
      /\ IF ToPlugin(b) # None THEN RemoveDerived(b, f) ELSE UNCHANGED <<slots, count>>
      /\ installed' = [installed EXCEPT ![f] = FALSE] /\ Becomes(<<Do("onUninstalled", f, None)>>)
  BY <1>1, <1>2 DEF Detach, Running
<1>4. /\ UNCHANGED <<factories, closed, derive, dict>>
      /\ UNCHANGED <<created, record, fields, killed, gone>> /\ hooked' = hooked
  BY DEF Detach, population
<1>5. /\ TypeOK /\ Ordered /\ Installing /\ FramesFit /\ Registered /\ Hierarchy
      /\ Withdrawn /\ Named /\ Deleting /\ Recorded /\ Emptied /\ Filled
  BY DEF IInv
<1>6. Top.op \in Emptying
  BY <1>3 DEF Emptying
<1>7. f \in Factories /\ f \notin closed /\ f # None /\ count[f] = 0
  BY <1>1, <1>3, <1>6, EmptyingKnows
<1>8. \A c \in Classnames : dict[c] # f
  BY <1>1, <1>3, <1>6, EmptyingKnows
<1>8a. EmptiedAt(ctl, 1) /\ Top = ctl[1]
  BY <1>3, <1>6, EmptyingKnows
<1>9. \A e \in Entities : record[e] # f
  BY <1>1, <1>3, <1>8a DEF EmptiedAt
<1>10. \A i \in Place : i > 1 => ctl[i].op \in Leaving \cup {"delete"} \cup Closers
  BY <1>3, <1>6, AloneEmptying
<1>11. PICK x : x = Do("onUninstalled", f, None)
  OBVIOUS
<1>12. x \in Frame /\ x.op = "onUninstalled" /\ x.f = f /\ FrameFit(x)
  <2>1. "onUninstalled" \in Emptying \cup Leaving \cup {"delete"}
    BY DEF Leaving
  <2> QED BY <1>7, <1>11, <2>1, FactoryFrame
<1>13. PICK fs : fs = <<x>>
  OBVIOUS
<1>14. fs \in Seq(Frame) /\ Len(fs) = 1 /\ fs[1] = x /\ Becomes(fs)
  BY <1>3, <1>11, <1>12, <1>13, OneFrame
<1>15. /\ base'[f] = None /\ \A g \in Factories : g # f => base'[g] = base[g]
       /\ ~installed'[f] /\ \A g \in Factories : g # f => installed'[g] = installed[g]
       /\ base' \in [Factories -> 0..Game] /\ installed' \in [Factories -> BOOLEAN]
  <2>1. base \in [Factories -> 0..Game] /\ installed \in [Factories -> BOOLEAN]
    BY <1>5 DEF TypeOK
  <2>2. None \in 0..Game
    BY ConstantsOK DEF Game, None
  <2> QED BY <1>3, <1>7, <2>1, <2>2
<1>16. DerivedLess(f, b)
  BY <1>2, <1>3, <1>5, <1>7, DetachSlots
<1>17. Hierarchy'
  BY <1>2, <1>3, <1>5, <1>7, <1>16, DetachHierarchy
<1> HIDE <1>1, <1>11, <1>13
<1>18. PICK p \in {0, 1} : p = 1
  OBVIOUS
<1>19. PICK t : Puts(t, fs, p)
  BY <1>3, <1>5, <1>14, <1>18, BecomesPut
<1>20. /\ 1 \in 1..Len(t) /\ t[1] = x /\ t = ctl' /\ t \in Seq(Frame)
       /\ Place' = 1..Len(t) /\ Len(t) = Len(ctl)
       /\ \A k \in 1..Len(t) : k # 1 => k \in Place /\ t[k] = ctl[k]
  BY <1>5, <1>14, <1>18, <1>19, SwappedOne
<1>21. \A k \in 1..Len(fs) : k = 1 /\ t[k] = x
  BY <1>14, <1>20
<1>22. ctl[1].f = f /\ ctl[1].op = "detach" /\ Top = ctl[1]
  <2>1. Top.f = f
    BY <1>1
  <2> QED BY <1>3, <1>8a, <2>1
<1>23. OrderFit(t, fs, p) /\ InstallFit(t, fs, p)
  <2>1. Top.op \notin {"onInstalled"} \cup Building
    BY <1>3 DEF Building
  <2>2. \A j, k \in 1..Len(fs) : j < k => Over(fs[j].op, fs[k].op)
    BY <1>21
  <2>3. Lower(x.op, Top.op) /\ x.op # "onInstalled"
    <3>1. Rank("onUninstalled") = 4 /\ Rank("detach") = 3
      BY Ranks DEF Leaving, Emptying
    <3>2. "onUninstalled" \in Leaving /\ "detach" \notin Building \cup Leaving
      BY DEF Leaving, Building
    <3> QED BY <1>3, <1>12, <3>1, <3>2 DEF Lower
  <2>4. \A k \in 1..Len(fs) : Lower(fs[k].op, Top.op) /\ fs[k].op # "onInstalled"
    BY <1>14, <1>21, <2>3
  <2> QED BY <1>3, <1>18, <1>19, <2>1, <2>2, <2>4, ReplacesInOrder
<1>24. Ordered'
  BY <1>5, <1>19, <1>23, OrderRests DEF OrderFit
<1>25. Installing'
  BY <1>5, <1>19, <1>23, InstallingRests DEF InstallFit
<1>26. TypeOK'
  <2>1. slots' \in [Factories -> Seq(Factories)] /\ count' \in [Factories -> Nat]
    BY <1>16 DEF DerivedLess
  <2> QED BY <1>4, <1>5, <1>15, <1>20, <2>1 DEF TypeOK
<1>27. FramesFit'
  <2>1. \A k \in 1..Len(fs) : FrameFit(t[k])
    BY <1>12, <1>21
  <2> QED BY <1>4, <1>5, <1>19, <2>1, FramesFitRest
<1>28. Live' = Live
  BY <1>4 DEF Live
<1>29. Registered'
  <2>1. \A g \in Factories : installed'[g] => g \in Live
    BY <1>5, <1>15 DEF Registered
  <2>2. \A g \in Factories : base'[g] # None => installed'[g]
    BY <1>5, <1>15 DEF Registered
  <2> QED BY <1>4, <1>5, <1>28, <2>1, <2>2 DEF Registered
<1>30. Withdrawn'
  <2>1. \A g \in Upright : g \notin closed
    BY LiveFactories
  <2>2. t[1].op = "onUninstalled" /\ \A i \in Place : i > 1 => ctl[i].op \notin Emptying
    BY <1>10, <1>12, <1>20 DEF Leaving, Closers, Emptying
  <2> QED BY <1>2, <1>3, <1>4, <1>5, <1>7, <1>16, <1>20, <1>22, <2>1, <2>2, DetachWithdrawn
<1>31. \A i \in Place : ctl[i].f # f => i \in 1..Len(t) /\ t[i] = ctl[i]
  <2>1. \A i \in Place : i \in 1..Len(t)
    BY <1>20 DEF Place
  <2> QED BY <1>20, <1>22, <2>1
<1>32. Named'
  <2>1. NameFits'
    <3> SUFFICES ASSUME NEW c \in Classnames, dict[c] # None
                 PROVE  installed'[dict[c]] /\ dict[c] \notin Abstract /\ Class[dict[c]] = c
      BY <1>4 DEF NameFits
    <3>1. installed[dict[c]] /\ dict[c] \notin Abstract /\ Class[dict[c]] = c
      BY <1>5 DEF Named, NameFits
    <3>2. dict[c] \in Factories
      <4>1. dict[c] \in 0..MaxFactories
        BY <1>5 DEF TypeOK
      <4> QED BY <4>1, ConstantsOK DEF Factories, None
    <3> QED BY <1>8, <1>15, <3>1, <3>2
  <2>2. ASSUME NEW g \in Factories PROVE NameKnown(ctl, g)'
    <3>1. NameKnown(ctl, g)
      BY <1>5 DEF Named
    <3>2. CASE g = f
      BY <1>15, <3>2 DEF NameKnown
    <3>3. CASE g # f
      BY <1>4, <1>15, <1>20, <1>31, <3>1, <3>3 DEF NameKnown, Place
    <3> QED BY <3>2, <3>3
  <2>3. ASSUME NEW k \in 1..Len(t) PROVE NameGone(ctl, k)'
    <3>1. CASE k = 1
      BY <1>12, <1>20, <3>1 DEF NameGone, Uninstalling, Emptying
    <3>2. CASE k # 1
      <4>1. k \in Place /\ t[k] = ctl[k]
        BY <1>20, <3>2
      <4>2. NameGone(ctl, k)
        BY <1>5, <4>1 DEF Named
      <4> QED BY <1>4, <1>20, <4>1, <4>2 DEF NameGone
    <3> QED BY <3>1, <3>2
  <2> QED BY <1>20, <2>1, <2>2, <2>3 DEF Named
<1>33. Deleting'
  <2>1. ASSUME NEW k \in 1..Len(t) PROVE DeletingAt(ctl, k)'
    <3>1. CASE k = 1
      BY <1>12, <1>20, <3>1 DEF DeletingAt
    <3>2. CASE k # 1
      <4>1. k \in Place /\ t[k] = ctl[k]
        BY <1>20, <3>2
      <4>2. DeletingAt(ctl, k) /\ FrameFit(ctl[k])
        BY <1>5, <4>1 DEF Deleting, FramesFit
      <4>3. ASSUME t[k].op = "delete", installed'[t[k].f]
            PROVE  \E j \in 1..Len(t) : t[j].op \in Stages /\ t[j].f = t[k].f
        <5>1. t[k].f \in Factories
          BY <4>1, <4>2, <4>3 DEF FrameFit
        <5>2. t[k].f # f /\ installed[t[k].f]
          BY <1>15, <4>3, <5>1
        <5>3. PICK j \in Place : ctl[j].op \in Stages /\ ctl[j].f = t[k].f
          BY <4>1, <4>2, <4>3, <5>2 DEF DeletingAt, Place
        <5> QED BY <1>31, <5>2, <5>3
      <4> QED BY <1>20, <4>3 DEF DeletingAt
    <3> QED BY <3>1, <3>2
  <2> QED BY <1>20, <2>1 DEF Deleting
<1>34. Recorded'
  <2>1. \A k \in 1..Len(fs) : KilledAt(t, k)
    BY <1>12, <1>21 DEF KilledAt
  <2>2. \A e \in Entities : record[e] # None => installed'[record[e]]
    <3> TAKE e \in Entities
    <3>1. record[e] # None => record[e] \in Factories
      <4>1. record[e] \in 0..MaxFactories
        BY <1>5 DEF TypeOK
      <4> QED BY <4>1, ConstantsOK DEF Factories, None
    <3>2. record[e] # None => installed[record[e]]
      BY <1>5 DEF Recorded, RecordFits
    <3> QED BY <1>9, <1>15, <3>1, <3>2
  <2>3. ctl[1].op \notin {"destruct", "onEnd"}
    BY <1>22
  <2> QED BY <1>4, <1>5, <1>19, <2>1, <2>2, <2>3, RecordedRests
<1>35. Emptied'
  <2>1. \A k \in 1..Len(fs) : EmptiedAt(t, k) /\ t[k].op # "removeEntity"
    BY <1>12, <1>21 DEF EmptiedAt
  <2>2. ctl[1].op \notin {"removeEntity", "destruct"}
    BY <1>22
  <2> QED BY <1>4, <1>5, <1>19, <2>1, <2>2, EmptiedRests
<1>36. Filled'
  <2> DEFINE S == Upright \ {f}
  <2>1. \A y \in S : BaseOf(base, Live, y) \in S \cup {None} /\ base'[y] = base[y]
    <3> TAKE y \in S
    <3>1. y \in Factories /\ y # f /\ BaseOf(base, Live, y) \in Upright \cup {None}
      BY <1>5, BasesInstalled DEF Upright
    <3>2. base[y] # f
      <4> SUFFICES ASSUME base[y] = f PROVE FALSE
        OBVIOUS
      <4>1. \E i \in 1..count[f] : slots[f][i] = y
        BY <1>5, <1>7, <3>1 DEF Hierarchy, HierarchyAt
      <4> QED BY <1>7, <4>1
    <3>3. BaseOf(base, Live, y) # f
      BY <1>7, <3>2 DEF BaseOf
    <3> QED BY <1>15, <3>1, <3>3
  <2>2. Live' \subseteq Factories /\ \A y \in S : base[y] \in Factories => base[y] \in Live'
    <3>1. Live \subseteq Factories
      BY <1>5, BasesInstalled
    <3>2. \A y \in S : base[y] \in Factories => base[y] \in Live
      BY <1>5 DEF Registered, Hierarchy, HierarchyAt, Upright
    <3> QED BY <1>28, <3>1, <3>2
  <2>3. S \in SUBSET Upright
    OBVIOUS
  <2> HIDE DEF S
  <2>4. \A g \in S : Line(base', Live', g) = Line(base, Live, g)
    BY <1>5, <2>1, <2>2, <2>3, LinesStay
  <2>5. ASSUME NEW e \in Entities PROVE FieldsFit(e)' /\ FieldsKnown(ctl, e)'
    <3>1. FieldsFit(e) /\ FieldsKnown(ctl, e)
      BY <1>5 DEF Filled
    <3>2. record[e] # None => record[e] \in S
      <4>1. record[e] \in 0..MaxFactories
        BY <1>5 DEF TypeOK
      <4>2. record[e] # None => record[e] \in Factories
        BY <4>1, ConstantsOK DEF Factories, None
      <4>3. record[e] # None => installed[record[e]]
        BY <1>5 DEF Recorded, RecordFits
      <4> QED BY <1>9, <4>2, <4>3 DEF S, Upright
    <3>3. FieldsFit(e)'
      BY <1>4, <2>4, <3>1, <3>2 DEF FieldsFit
    <3>4. \A i \in Place : ctl[i].op = "onEnd" => i \in 1..Len(t) /\ t[i] = ctl[i]
      <4>1. \A i \in Place : i \in 1..Len(t)
        BY <1>20 DEF Place
      <4> QED BY <1>20, <1>22, <4>1
    <3>5. FieldsKnown(ctl, e)'
      BY <1>4, <1>20, <3>1, <3>4 DEF FieldsKnown, Place
    <3> QED BY <3>3, <3>5
  <2>6. ASSUME NEW k \in 1..Len(t) PROVE FilledAt(ctl, k)'
    <3>1. CASE k = 1
      BY <1>12, <1>20, <3>1 DEF FilledAt
    <3>2. CASE k # 1
      <4>1. k \in Place /\ t[k] = ctl[k] /\ k > 1
        BY <1>20, <3>2
      <4>2. t[k].op # "onEnd" /\ t[k].op # "construct"
        BY <1>10, <4>1 DEF Leaving, Closers
      <4> QED BY <1>20, <4>2 DEF FilledAt
    <3> QED BY <3>1, <3>2
  <2> QED BY <1>20, <2>5, <2>6 DEF Filled
<1> QED BY <1>17, <1>24, <1>25, <1>26, <1>27, <1>29, <1>30, <1>32, <1>33, <1>34, <1>35, <1>36 DEF IInv

-----------------------------------------------------------------------------
(***************************************************************************)
(* The invariant holds, and what it says about every execution.            *)
(***************************************************************************)

\* At first there is no factory, no entity and no call.
LEMMA InitHolds == Init => IInv
<1> SUFFICES ASSUME Init PROVE IInv
  OBVIOUS
<1>1. /\ factories = <<>> /\ closed = {} /\ ctl = <<>>
      /\ derive = [f \in Factories |-> [from |-> "none"]]
      /\ installed = [f \in Factories |-> FALSE] /\ base = [f \in Factories |-> None]
      /\ slots = [f \in Factories |-> <<>>] /\ count = [f \in Factories |-> 0]
      /\ dict = [c \in Classnames |-> None]
      /\ created = 0 /\ record = [e \in Entities |-> None]
      /\ fields = [e \in Entities |-> {}] /\ killed = {} /\ gone = {} /\ hooked = TRUE
  BY DEF Init
<1>2. \A k : k \notin Place
  BY <1>1 DEF Place
<1>3. TypeOK
  <2>1. derive \in [Factories -> DeriveInfo]
    BY <1>1 DEF DeriveInfo
  <2>2. /\ base \in [Factories -> 0..Game] /\ dict \in [Classnames -> 0..MaxFactories]
        /\ record \in [Entities -> 0..MaxFactories] /\ created \in 0..MaxEntities
    BY <1>1, ConstantsOK DEF None, Game
  <2>3. /\ factories \in Seq(Factories) /\ ctl \in Seq(Frame)
        /\ slots \in [Factories -> Seq(Factories)] /\ count \in [Factories -> Nat]
    BY <1>1
  <2> QED BY <1>1, <2>1, <2>2, <2>3 DEF TypeOK
<1>4. Ordered /\ Installing
  BY <1>1 DEF Ordered, OrderedIn, Installing, InstallingIn
<1>5. FramesFit /\ Withdrawn /\ Deleting /\ Emptied
  BY <1>2 DEF FramesFit, Withdrawn, Deleting, Emptied
<1>6. Registered
  <2>1. \A f \in Factories : ~installed[f] /\ base[f] = None
    BY <1>1
  <2>2. \A i \in DOMAIN factories : FALSE
    BY <1>1
  <2> QED BY <1>1, <2>1, <2>2 DEF Registered
<1>7. Hierarchy
  <2>1. \A f \in Factories : count[f] = 0 /\ Len(slots[f]) = 0 /\ base[f] = None
    BY <1>1
  <2>2. None \notin Factories
    BY DEF None, Factories
  <2> QED BY <2>1, <2>2 DEF Hierarchy, HierarchyAt
<1>8. Named
  <2>1. \A f \in Factories : ~installed[f]
    BY <1>1
  <2> QED BY <1>1, <1>2, <2>1 DEF Named, NameFits, NameKnown
<1>9. Recorded
  <2>1. \A e \in Entities : record[e] = None /\ ~(e <= created)
    BY <1>1 DEF Entities
  <2> QED BY <1>1, <1>2, <2>1 DEF Recorded, RecordFits, EntityKnown, KilledKnown
<1>10. Filled
  <2>1. \A e \in Entities : record[e] = None /\ fields[e] = {}
    BY <1>1
  <2> QED BY <1>2, <2>1 DEF Filled, FieldsFit, FieldsKnown
<1> QED BY <1>3, <1>4, <1>5, <1>6, <1>7, <1>8, <1>9, <1>10 DEF IInv

\* The creation of a level's part of an entity (RecursiveCreate).
LEMMA RecursiveCreateKeeps ==
  ASSUME IInv, RecursiveCreate
  PROVE  IInv'
BY ConstructReturns, ConstructGoesOn

\* One step of the extension, of a plugin or of the game.
LEMMA NextKeeps ==
  ASSUME CallsBack \subseteq Survivable, IInv, [Next]_vars
  PROVE  IInv'
<1>1. ASSUME Engine PROVE IInv'
  <2>1. CASE Uninstall \/ UninstallChildren \/ RemoveAllEntities \/ RemoveEach \/ Detach
    BY <2>1, UninstallKeeps, UninstallChildrenKeeps, RemoveAllEntitiesKeeps, RemoveEachKeeps, DetachKeeps
  <2>2. CASE CallbackReturns \/ Delete \/ FreeOwnedHandles \/ UninstallByIndex \/ RemoveHandleType
    BY <2>2, CallbackReturnsKeeps, DeleteKeeps, FreeOwnedHandlesKeeps, UninstallByIndexKeeps,
       RemoveHandleTypeKeeps
  <2>3. CASE RecursiveCreate \/ RemoveEntityImmediate \/ OnRemove \/ OnDestroy \/ DestroyUserEntityData
    BY <2>3, RecursiveCreateKeeps, RemoveEntityImmediateKeeps, OnRemoveKeeps, OnDestroyKeeps,
       DestroyUserEntityDataKeeps
  <2> QED BY <1>1, <2>1, <2>2, <2>3 DEF Engine
<1>2. ASSUME World PROVE IInv'
  <2>1. ASSUME NEW f \in Factories,
               NewFactory(f) \/ Install(f) \/ UninstallNative(f) \/ CloseHandle(f)
        PROVE  IInv'
    BY <2>1, NewFactoryKeeps, InstallKeeps, UninstallNativeKeeps, CloseHandleKeeps
  <2>2. ASSUME NEW f \in Factories, NEW d \in Derivations[f], DeriveFrom(f, d) PROVE IInv'
    BY <2>2, DeriveFromKeeps
  <2>3. ASSUME NEW p \in Plugins, PluginUnload(p) PROVE IInv'
    BY <2>3, PluginUnloadKeeps
  <2>4. ASSUME NEW c \in Classnames, Create(c) PROVE IInv'
    BY <2>4, CreateKeeps
  <2>5. ASSUME NEW e \in Entities, RemoveEntity(e) PROVE IInv'
    BY <2>5, RemoveEntityKeeps
  <2>6. ASSUME ExtensionUnload PROVE IInv'
    BY <2>6, ExtensionUnloadKeeps
  <2> QED BY <1>2, <2>1, <2>2, <2>3, <2>4, <2>5, <2>6 DEF World
<1>3. ASSUME UNCHANGED vars PROVE IInv'
  <2>1. UNCHANGED <<factories, closed, hierarchy, population, ctl>> /\ derive' = derive /\ hooked' = hooked
    BY <1>3 DEF vars, hierarchy, population
  <2>2. hooked' \in BOOLEAN /\ derive' \in [Factories -> DeriveInfo]
    BY <2>1 DEF IInv, TypeOK
  <2> QED BY <2>1, <2>2, Still
<1> QED BY <1>1, <1>2, <1>3 DEF Next

\* The inductive invariant.
LEMMA IInvHolds ==
  ASSUME CallsBack \subseteq Survivable
  PROVE  Spec => []IInv
<1>1. Init => IInv
  BY InitHolds
<1>2. IInv /\ [Next]_vars => IInv'
  BY NextKeeps
<1> QED BY <1>1, <1>2, PTL DEF Spec

\* Every variable keeps its type.
THEOREM TypesHold ==
  ASSUME CallsBack \subseteq Survivable
  PROVE  Spec => []TypeOK
<1>1. IInv => TypeOK
  BY DEF IInv
<1> QED BY <1>1, IInvHolds, PTL

\* Between calls nothing that the invariant makes an exception for is in progress.
LEMMA FactoriesDoServe == IInv => FactoriesServe
<1> SUFFICES ASSUME IInv, ctl = <<>>
             PROVE  /\ \A c \in Classnames, f \in Factories :
                         dict[c] = f <=> installed[f] /\ f \notin Abstract /\ Class[f] = c
                    /\ \A e \in 1..created : e \notin gone => record[e] # None /\ installed[record[e]]
  BY DEF FactoriesServe, DictionaryExact, EntitiesHaveFactories
<1>1. \A k \in 1..Len(ctl) : FALSE
  OBVIOUS
<1>2. \A f \in Factories : f # None /\ (installed[f] /\ f \notin Abstract => dict[Class[f]] = f)
  BY <1>1 DEF IInv, Named, NameKnown, Factories, None
<1>3. NameFits
  BY DEF IInv, Named
<1>4. ASSUME NEW c \in Classnames, NEW f \in Factories
      PROVE  dict[c] = f <=> installed[f] /\ f \notin Abstract /\ Class[f] = c
  BY <1>2, <1>3 DEF NameFits
<1>5. ASSUME NEW e \in 1..created, e \notin gone PROVE record[e] # None /\ installed[record[e]]
  <2>1. created \in 0..MaxEntities /\ MaxEntities \in Nat
    BY ConstantsOK DEF IInv, TypeOK
  <2>2. e \in 1..MaxEntities /\ e <= created
    BY <2>1
  <2>3. e \in Entities
    BY <2>2 DEF Entities
  <2>4. EntityKnown(ctl, e) /\ RecordFits(e)
    BY <2>3 DEF IInv, Recorded
  <2> QED BY <1>1, <1>5, <2>2, <2>4 DEF EntityKnown, RecordFits
<1> QED BY <1>4, <1>5

\* Whatever was installed, uninstalled, refused, created and removed before: between calls a
\* classname leads to exactly the installed factory of that name, and a live entity to one.
THEOREM FactoriesAlwaysServe ==
  ASSUME CallsBack \subseteq Survivable
  PROVE  Spec => []FactoriesServe
<1>1. IInv => FactoriesServe
  BY FactoriesDoServe
<1> QED BY <1>1, IInvHolds, PTL

\* The invariant has what the property says of bases and derived factories.
LEMMA HierarchyDoesAgree == IInv => HierarchyAgrees
<1> SUFFICES ASSUME IInv, NEW f \in Factories, installed[f]
             PROVE  /\ f \in Live
                    /\ base[f] \in Factories => installed[base[f]] /\ f \in Derived(base[f])
                    /\ \A d \in Derived(f) : installed[d] /\ base[d] = f
  BY DEF HierarchyAgrees
<1>1. f \in Live
  BY DEF IInv, Registered
<1>2. HierarchyAt(f)
  BY DEF IInv, Hierarchy
<1>3. base[f] \in Factories => installed[base[f]] /\ f \in Derived(base[f])
  BY <1>2 DEF HierarchyAt, Derived
<1>4. \A d \in Derived(f) : installed[d] /\ base[d] = f
  BY <1>2 DEF HierarchyAt, Derived
<1> QED BY <1>1, <1>3, <1>4

\* Whatever calls are in progress, an installed factory is registered, its base is installed
\* and lists it, and every factory that it lists is installed and has it as its base.
THEOREM HierarchyAlwaysAgrees ==
  ASSUME CallsBack \subseteq Survivable
  PROVE  Spec => []HierarchyAgrees
<1>1. IInv => HierarchyAgrees
  BY HierarchyDoesAgree
<1> QED BY <1>1, IInvHolds, PTL

\* The frames of the stack fit, so that they refer to what lives.
LEMMA CallsDoTouchLive == IInv => CallsTouchLive
<1> SUFFICES ASSUME IInv, NEW i \in DOMAIN ctl
             PROVE  /\ ctl[i].f \notin closed
                    /\ ctl[i].e \notin gone /\ ctl[i].es \cap gone = {}
                    /\ \A k \in DOMAIN ctl[i].fs : ctl[i].fs[k] \notin closed
                    /\ ctl[i].op = "construct" /\ ctl[i].fs # <<>> => record[ctl[i].e] # None
  BY DEF CallsTouchLive
<1>1. i \in Place
  BY DEF IInv, TypeOK, Place
<1>2. FrameFit(ctl[i]) /\ EmptiedAt(ctl, i) /\ FilledAt(ctl, i) /\ gone \subseteq killed
  BY <1>1 DEF IInv, FramesFit, Emptied, Filled, Recorded
<1>3. ctl[i].es \cap gone = {}
  BY <1>2 DEF FrameFit, EmptiedAt
<1>4. ctl[i].op = "construct" /\ ctl[i].fs # <<>> => record[ctl[i].e] # None
  BY <1>2 DEF FrameFit, FilledAt, Building, Factories, None
<1> QED BY <1>2, <1>3, <1>4 DEF FrameFit

\* However calls nest, none works on a deleted factory or on a destroyed entity, and an entity
\* that is being constructed still has its record.
THEOREM CallsAlwaysTouchLive ==
  ASSUME CallsBack \subseteq Survivable
  PROVE  Spec => []CallsTouchLive
<1>1. IInv => CallsTouchLive
  BY CallsDoTouchLive
<1> QED BY <1>1, IInvHolds, PTL

\* An entity without a record has fields only while they are being destroyed.
LEMMA FieldsAreDestroyed == IInv => FieldsDestroyed
<1> SUFFICES ASSUME IInv, NEW e \in gone PROVE fields[e] = {}
  BY DEF FieldsDestroyed
<1>1. e \in Entities
  BY DEF IInv, TypeOK
<1>2. RecordFits(e) /\ FieldsKnown(ctl, e)
  BY <1>1 DEF IInv, Recorded, Filled
<1>3. record[e] = None
  BY <1>2 DEF RecordFits
<1>4. ASSUME fields[e] # {} PROVE FALSE
  <2>1. PICK k \in Place : ctl[k].op = "onEnd" /\ ctl[k].e = e
    BY <1>2, <1>3, <1>4 DEF FieldsKnown, Place
  <2>2. FrameFit(ctl[k])
    BY DEF IInv, FramesFit
  <2> QED BY <2>1, <2>2 DEF FrameFit
<1> QED BY <1>4

\* An entity takes the fields of every level of its factory's hierarchy with it: no level is
\* uninstalled before the entity is destroyed.
THEOREM FieldsAlwaysDestroyed ==
  ASSUME CallsBack \subseteq Survivable
  PROVE  Spec => []FieldsDestroyed
<1>1. IInv => FieldsDestroyed
  BY FieldsAreDestroyed
<1> QED BY <1>1, IInvHolds, PTL
=============================================================================
