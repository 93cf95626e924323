----------------------------- MODULE PathProofs -----------------------------
(***************************************************************************)
(* Proofs about paths and their followers, for every size of m_path, every *)
(* set of routes that searches return, any subjects and timers; and about  *)
(* the searches over the nav mesh, for every mesh, any costs and nesting.  *)
(***************************************************************************)
EXTENDS PathFollower, NavSearch, FiniteSetTheorems, SequenceTheorems, WellFoundedInduction, TLAPS

\* A set of numbers that holds 0 and every successor is all of them.
LEMMA SetInduction ==
  ASSUME NEW S, 0 \in S, \A n \in Nat : n \in S => n + 1 \in S
  PROVE  Nat \subseteq S
<1> SUFFICES ASSUME Nat \ S # {} PROVE FALSE
  OBVIOUS
<1> DEFINE R == OpToRel(<, Nat)
<1>1. IsWellFoundedOn(R, Nat)
  BY NatLessThanWellFounded
<1>2. PICK x \in Nat \ S : \A y \in Nat \ S : <<y, x>> \notin R
  <2> HIDE DEF R
  <2>. QED BY <1>1, WFMin
<1>3. \A y \in Nat : y < x => <<y, x>> \in R
  BY DEF OpToRel
<1>4. x # 0 /\ x - 1 \in Nat /\ x - 1 < x
  OBVIOUS
<1>5. x - 1 \in S
  BY <1>2, <1>3, <1>4
<1>6. (x - 1) + 1 \in S
  BY <1>4, <1>5
<1>. QED
  BY <1>6

\* The lesser of two numbers.
LEMMA MinOfTwo ==
  ASSUME NEW a \in Int, NEW b \in Int
  PROVE  Min({a, b}) = IF a <= b THEN a ELSE b
<1>1. \E x \in {a, b} : \A y \in {a, b} : x <= y
  OBVIOUS
<1>2. Min({a, b}) \in {a, b} /\ \A y \in {a, b} : Min({a, b}) <= y
  BY <1>1 DEF Min
<1>. QED
  BY <1>2

\* The greater.
LEMMA MaxOfTwo ==
  ASSUME NEW a \in Int, NEW b \in Int
  PROVE  Max({a, b}) = IF a >= b THEN a ELSE b
<1>1. \E x \in {a, b} : \A y \in {a, b} : x >= y
  OBVIOUS
<1>2. Max({a, b}) \in {a, b} /\ \A y \in {a, b} : Max({a, b}) >= y
  BY <1>1 DEF Max
<1>. QED
  BY <1>2

-----------------------------------------------------------------------------
(***************************************************************************)
(* Passes over the segments of a path.                                     *)
(***************************************************************************)

\* Every two neighbours of s are a pair of P.
Chain(s, P) == \A k \in 1..Len(s) - 1 : <<s[k], s[k + 1]>> \in P

\* A sequence with one element more.
LEMMA AppendKnown ==
  ASSUME NEW S, NEW s \in Seq(S), NEW x \in S
  PROVE  /\ Append(s, x) \in Seq(S) /\ Len(Append(s, x)) = Len(s) + 1 /\ Len(s) \in Nat
         /\ Append(s, x) # <<>>
         /\ \A k \in 1..Len(s) : Append(s, x)[k] = s[k]
         /\ Append(s, x)[Len(s) + 1] = x
<1>1. /\ Append(s, x) \in Seq(S) /\ Len(Append(s, x)) = Len(s) + 1 /\ Len(s) \in Nat
      /\ \A k \in 1..Len(s) : Append(s, x)[k] = s[k]
      /\ Append(s, x)[Len(s) + 1] = x
  OBVIOUS
<1>2. Len(Append(s, x)) # 0
  BY <1>1
<1>. QED
  BY <1>1, <1>2, EmptySeq

\* A chain goes on with an element that fits its last one.
LEMMA ChainAppend ==
  ASSUME NEW S, NEW s \in Seq(S), NEW x \in S, NEW P, Chain(s, P),
         s = <<>> \/ <<s[Len(s)], x>> \in P
  PROVE  Chain(Append(s, x), P)
<1> DEFINE t == Append(s, x)
<1>1. /\ Len(t) = Len(s) + 1 /\ Len(s) \in Nat
      /\ \A k \in 1..Len(s) : t[k] = s[k]
      /\ t[Len(s) + 1] = x
  BY AppendKnown
<1> HIDE DEF t
<1>2. SUFFICES ASSUME NEW k \in 1..Len(t) - 1 PROVE <<t[k], t[k + 1]>> \in P
  BY DEF Chain, t
<1>3. CASE k = Len(s)
  <2>1. Len(s) # 0
    BY <1>1, <1>3
  <2>2. s # <<>>
    BY <2>1, EmptySeq
  <2>3. t[k] = s[Len(s)] /\ t[k + 1] = x
    BY <1>1, <1>3
  <2>. QED
    BY <2>2, <2>3
<1>4. CASE k # Len(s)
  <2>1. k \in 1..Len(s) - 1 /\ k \in 1..Len(s) /\ k + 1 \in 1..Len(s)
    BY <1>1, <1>4
  <2>2. t[k] = s[k] /\ t[k + 1] = s[k + 1]
    BY <1>1, <2>1
  <2>. QED
    BY <2>1, <2>2 DEF Chain
<1>. QED
  BY <1>3, <1>4

\* A chain of pairs is one of more pairs.
LEMMA ChainMore ==
  ASSUME NEW s, NEW P, NEW Q, P \subseteq Q, Chain(s, P)
  PROVE  Chain(s, Q)
BY DEF Chain

\* The last element of a sequence that is not empty.
LEMMA LastKnown ==
  ASSUME NEW S, NEW s \in Seq(S), s # <<>>
  PROVE  Len(s) \in Nat /\ Len(s) >= 1 /\ Len(s) \in 1..Len(s) /\ s[Len(s)] \in S
<1>1. Len(s) \in Nat /\ Len(s) # 0
  BY EmptySeq
<1>. QED
  BY <1>1

-----------------------------------------------------------------------------
(***************************************************************************)
(* Assemble.                                                               *)
(***************************************************************************)

Plain == {s \in Segment : s.type \notin {"gap", "climb"}}

\* The neighbours that the search leaves: areas follow one another, and only
\* the goal lies in the area of the one before.
FoundPairs ==
  {p \in Segment \X Segment :
     /\ p[2].area - p[1].area \in {0, 1}
     /\ p[2].link \in Links => p[2].area = p[1].area + 1}

\* The path that Assemble makes fits, all of it on the ground.
Assembled(route) ==
  /\ route \in Seq(Segment) /\ route # <<>> /\ Len(route) <= MaxSegs
  /\ \A i \in 1..Len(route) : route[i].type = "ground"
  /\ Chain(route, FoundPairs)

\* The chain of areas is cut to the size of m_path, with room for the goal.
LEMMA AssembleFits ==
  ASSUME NEW links \in Seq(Links), NEW withGoal \in BOOLEAN
  PROVE  Assembled(Assemble(links, withGoal))
<1> DEFINE areas == Len(links) + 1
<1> DEFINE count == Min({areas, MaxSegs - 1})
<1> DEFINE first == areas - count
<1> DEFINE seg(j) == Seg(first + j, IF j = 1 THEN "start" ELSE links[first + j - 1], "ground")
<1> DEFINE chain == [j \in 1..count |-> seg(j)]
<1> DEFINE goalSeg == Seg(areas, "goal", "ground")
<1>1. areas \in Nat /\ areas >= 1 /\ MaxSegs \in Nat /\ MaxSegs >= 3
  BY MaxSegsOK
<1>2. count = IF areas <= MaxSegs - 1 THEN areas ELSE MaxSegs - 1
  BY <1>1, MinOfTwo
<1>3. count \in Nat /\ count >= 1 /\ count <= MaxSegs - 1 /\ first \in Nat /\ first + count = areas
  BY <1>1, <1>2
<1>4. Assemble(links, withGoal) = chain \o IF withGoal THEN <<goalSeg>> ELSE <<>>
  BY DEF Assemble
<1> HIDE DEF count
<1>5. ASSUME NEW j \in 1..count
      PROVE  /\ seg(j) \in Segment /\ seg(j).area = first + j /\ seg(j).type = "ground"
  <2>1. j # 1 => first + j - 1 \in 1..Len(links)
    BY <1>1, <1>3
  <2>2. j # 1 => links[first + j - 1] \in Links
    BY <2>1
  <2>3. first + j \in Nat
    BY <1>3
  <2>. QED
    BY <2>2, <2>3 DEF Seg, Segment, Types
<1>6. goalSeg \in Segment /\ goalSeg.area = areas /\ goalSeg.type = "ground" /\ goalSeg.link \notin Links
  BY <1>1 DEF Seg, Segment, Types, Links, Walks, Ladders
<1> HIDE DEF seg
<1>7. chain \in Seq(Segment) /\ Len(chain) = count /\ \A j \in 1..count : chain[j] = seg(j)
  <2>1. count \in Nat /\ \A j \in 1..count : seg(j) \in Segment
    BY <1>3, <1>5
  <2>. QED
    BY <2>1
<1> HIDE DEF chain, goalSeg, first, areas
<1>8. Chain(chain, FoundPairs)
  <2> SUFFICES ASSUME NEW k \in 1..Len(chain) - 1
               PROVE  <<chain[k], chain[k + 1]>> \in FoundPairs
    BY DEF Chain
  <2>1. k \in 1..count /\ k + 1 \in 1..count
    BY <1>3, <1>7
  <2>2. /\ chain[k] \in Segment /\ chain[k].area = first + k
        /\ chain[k + 1] \in Segment /\ chain[k + 1].area = first + (k + 1)
    BY <1>5, <1>7, <2>1
  <2>3. chain[k + 1].area = chain[k].area + 1 /\ chain[k + 1].area - chain[k].area = 1
    BY <1>3, <2>1, <2>2
  <2>. QED
    BY <2>2, <2>3 DEF FoundPairs
<1>9. \A j \in 1..Len(chain) : chain[j].type = "ground"
  BY <1>5, <1>7
<1>10. chain # <<>> /\ chain[Len(chain)].area = areas /\ chain[Len(chain)] \in Segment
  <2>1. count \in 1..count
    BY <1>3
  <2>2. Len(chain) # 0
    BY <1>3, <1>7
  <2>. QED
    BY <1>3, <1>5, <1>7, <2>1, <2>2, EmptySeq
<1>11. CASE ~withGoal
  <2>1. Assemble(links, withGoal) = chain
    BY <1>4, <1>7, <1>11, ConcatEmptySeq
  <2>. QED
    BY <1>1, <1>3, <1>7, <1>8, <1>9, <1>10, <2>1 DEF Assembled
<1>12. CASE withGoal
  <2> DEFINE route == Append(chain, goalSeg)
  <2>1. Assemble(links, withGoal) = route
    BY <1>4, <1>6, <1>7, <1>12, AppendIsConcat
  <2>2. /\ route \in Seq(Segment) /\ Len(route) = Len(chain) + 1 /\ route # <<>>
        /\ \A k \in 1..Len(chain) : route[k] = chain[k]
        /\ route[Len(chain) + 1] = goalSeg
    BY <1>6, <1>7, AppendKnown
  <2>3. Chain(route, FoundPairs)
    <3>1. <<chain[Len(chain)], goalSeg>> \in FoundPairs
      BY <1>1, <1>6, <1>10 DEF FoundPairs
    <3>. QED
      BY <1>6, <1>7, <1>8, <3>1, ChainAppend
  <2> HIDE DEF route
  <2>4. Len(route) <= MaxSegs
    BY <1>1, <1>3, <1>7, <2>2
  <2>5. ASSUME NEW i \in 1..Len(route) PROVE route[i].type = "ground"
    <3>1. i \in 1..Len(chain) \/ i = Len(chain) + 1
      BY <1>3, <1>7, <2>2
    <3>. QED
      BY <1>6, <1>9, <2>2, <3>1
  <2>. QED
    BY <2>1, <2>2, <2>3, <2>4, <2>5 DEF Assembled
<1>. QED
  BY <1>11, <1>12

-----------------------------------------------------------------------------
(***************************************************************************)
(* A pass over a path: from nothing, one step for every segment.           *)
(***************************************************************************)

\* The n steps of F stay in S; g is what they make of none.
Goes(S, n, F) == \A s \in S, i \in 1..n : F[<<s, i>>] \in S
Makes(g, none, n, F) == g[0] = none /\ \A i \in 1..n : g[i] = F[<<g[i - 1], i>>]

\* Steps that stay in S can be made one after the other.
LEMMA PassExists ==
  ASSUME NEW S, NEW none \in S, NEW n \in Nat, NEW F, Goes(S, n, F)
  PROVE  \E g \in [0..n -> S] : Makes(g, none, n, F)
<1> USE DEF Goes, Makes
<1> DEFINE T == {m \in Nat : m <= n => \E g \in [0..m -> S] :
                   g[0] = none /\ \A i \in 1..m : g[i] = F[<<g[i - 1], i>>]}
<1>1. 0 \in T
  <2> DEFINE g == [i \in 0..0 |-> none]
  <2>1. g \in [0..0 -> S] /\ g[0] = none /\ \A i \in 1..0 : g[i] = F[<<g[i - 1], i>>]
    OBVIOUS
  <2>. QED
    BY <2>1
<1>2. ASSUME NEW m \in Nat, m \in T PROVE m + 1 \in T
  <2> SUFFICES ASSUME m + 1 <= n
               PROVE  \E h \in [0..(m + 1) -> S] :
                        h[0] = none /\ \A i \in 1..(m + 1) : h[i] = F[<<h[i - 1], i>>]
    OBVIOUS
  <2>1. PICK g \in [0..m -> S] : g[0] = none /\ \A i \in 1..m : g[i] = F[<<g[i - 1], i>>]
    BY <1>2
  <2> DEFINE h == [i \in 0..(m + 1) |-> IF i = m + 1 THEN F[<<g[m], m + 1>>] ELSE g[i]]
  <2>2. g[m] \in S /\ m + 1 \in 1..n
    BY <2>1
  <2>3. F[<<g[m], m + 1>>] \in S
    BY <2>2
  <2>4. h \in [0..(m + 1) -> S]
    BY <2>1, <2>3
  <2>5. h[0] = none
    BY <2>1
  <2>6. ASSUME NEW i \in 1..(m + 1) PROVE h[i] = F[<<h[i - 1], i>>]
    <3>1. CASE i = m + 1
      <4>1. h[i] = F[<<g[m], m + 1>>] /\ h[i - 1] = g[m]
        BY <3>1
      <4>. QED
        BY <3>1, <4>1
    <3>2. CASE i # m + 1
      <4>1. i \in 1..m /\ h[i] = g[i] /\ h[i - 1] = g[i - 1]
        BY <3>2
      <4>. QED
        BY <2>1, <4>1
    <3>. QED
      BY <3>1, <3>2
  <2> HIDE DEF h
  <2>. QED
    BY <2>4, <2>5, <2>6
<1> HIDE DEF T
<1>3. n \in T
  BY <1>1, <1>2, SetInduction
<1>. QED
  BY <1>3 DEF T

\* What holds before the first step and is kept by every step holds after the last.
LEMMA PassKeeps ==
  ASSUME NEW n \in Nat, NEW Inv, 0 \in Inv, \A i \in 1..n : i - 1 \in Inv => i \in Inv
  PROVE  n \in Inv
<1> DEFINE T == {m \in Nat : m <= n => m \in Inv}
<1>1. 0 \in T
  OBVIOUS
<1>2. ASSUME NEW m \in Nat, m \in T PROVE m + 1 \in T
  <2> SUFFICES ASSUME m + 1 <= n PROVE m + 1 \in Inv
    OBVIOUS
  <2>1. m \in Inv /\ m + 1 \in 1..n /\ (m + 1) - 1 = m
    BY <1>2
  <2>. QED
    BY <2>1
<1> HIDE DEF T
<1>3. n \in T
  BY <1>1, <1>2, SetInduction
<1>. QED
  BY <1>3 DEF T

\* A chain with one element more, where more pairs are allowed.
LEMMA Grown ==
  ASSUME NEW S, NEW s \in Seq(S), NEW x \in S, NEW P, NEW Q, P \subseteq Q,
         Chain(s, P), s = <<>> \/ <<s[Len(s)], x>> \in Q
  PROVE  /\ Append(s, x) \in Seq(S) /\ Len(Append(s, x)) = Len(s) + 1
         /\ Append(s, x) # <<>> /\ Append(s, x)[Len(Append(s, x))] = x
         /\ Chain(Append(s, x), Q)
<1>1. Chain(s, Q)
  BY ChainMore
<1>2. Chain(Append(s, x), Q)
  BY <1>1, ChainAppend
<1>. QED
  BY <1>2, AppendKnown

-----------------------------------------------------------------------------
(***************************************************************************)
(* The first pass.                                                         *)
(***************************************************************************)

\* How long the path gets if nothing more is inserted, and is there no more room?
Total(route, out, i) == Len(out) + Len(route) - i
Full(route, out, i) == Total(route, out, i) >= MaxSegs - 1

\* A drop has its bottom behind it unless the path is full; what a gap or a ledge
\* leads to is the next area.
DropPairs(full) ==
  {p \in Segment \X Segment :
     /\ p[2].area - p[1].area \in {0, 1}
     /\ p[2].link \in {"gap", "climb"} /\ p[2].type = "ground" => p[2].area = p[1].area + 1
     /\ p[1].type = "drop" => full \/ p[2].area = p[1].area}

\* After i segments of the route.
Dropped(route, out, i) ==
  /\ out \in Seq(Plain)
  /\ Len(route) <= Total(route, out, i) /\ Total(route, out, i) <= MaxSegs
  /\ Chain(out, DropPairs(Full(route, out, i)))
  /\ i = 0 => out = <<>>
  /\ i # 0 => /\ out # <<>> /\ out[Len(out)].area = route[i].area
              /\ out[Len(out)].type = "drop" => Full(route, out, i)

\* Pairs stay allowed when the path becomes full.
LEMMA DropPairsGrow ==
  ASSUME NEW b, NEW c, b => c
  PROVE  DropPairs(b) \subseteq DropPairs(c)
BY DEF DropPairs

\* Each step of the first pass keeps that.
LEMMA DropStepKeeps ==
  ASSUME NEW route, Assembled(route), NEW i \in 1..Len(route), NEW out, Dropped(route, out, i - 1)
  PROVE  Dropped(route, DropStep(route, out, i), i)
<1> DEFINE seg == route[i]
<1> DEFINE typed == [seg EXCEPT !.type = IF seg.link \in Ladders \cup {"drop"} THEN seg.link ELSE @]
<1> DEFINE b == Full(route, out, i - 1)
<1> DEFINE end == out[Len(out)]
<1>1. /\ route \in Seq(Segment) /\ Len(route) \in Nat /\ Len(route) <= MaxSegs /\ MaxSegs \in Nat
      /\ seg \in Segment /\ seg.type = "ground" /\ i \in Nat /\ i >= 1
  BY MaxSegsOK DEF Assembled
<1>2. /\ out \in Seq(Plain) /\ Len(out) \in Nat
      /\ Len(route) <= Len(out) + Len(route) - (i - 1) /\ Len(out) + Len(route) - (i - 1) <= MaxSegs
      /\ b \in BOOLEAN /\ (b <=> Len(out) + Len(route) - (i - 1) >= MaxSegs - 1)
      /\ Chain(out, DropPairs(b))
  BY DEF Dropped, Total, Full
<1>3. /\ seg \in Plain /\ seg.area \in Nat
      /\ typed \in Plain /\ typed.area = seg.area /\ typed.link = seg.link
      /\ typed.type = "drop" => seg.link = "drop"
  <2>1. CASE seg.link \in Ladders \cup {"drop"}
    BY <1>1, <2>1 DEF Plain, Segment, Types, Ladders
  <2>2. CASE seg.link \notin Ladders \cup {"drop"}
    BY <1>1, <2>2 DEF Plain, Segment, Types, Ladders
  <2>. QED
    BY <2>1, <2>2
<1>5. out # <<>> => /\ end \in Segment /\ end.area \in Nat /\ (end.type = "drop" => b)
                    /\ seg.area - end.area \in {0, 1}
                    /\ seg.link \in Links => seg.area = end.area + 1
  <2> SUFFICES ASSUME out # <<>>
               PROVE /\ end \in Segment /\ end.area \in Nat /\ (end.type = "drop" => b)
                     /\ seg.area - end.area \in {0, 1}
                     /\ seg.link \in Links => seg.area = end.area + 1
    OBVIOUS
  <2>1. i - 1 # 0 /\ end.area = route[i - 1].area /\ (end.type = "drop" => b)
    BY DEF Dropped
  <2>2. end \in Segment /\ end.area \in Nat
    BY <1>2, LastKnown DEF Plain, Segment
  <2>3. i - 1 \in 1..Len(route) - 1 /\ (i - 1) + 1 = i
    BY <1>1, <2>1
  <2>4. <<route[i - 1], seg>> \in FoundPairs
    BY <2>3 DEF Assembled, Chain
  <2>. QED
    BY <2>1, <2>2, <2>4 DEF FoundPairs
<1>6. ASSUME NEW x \in Plain, NEW c \in BOOLEAN, b => c, x.area = seg.area,
             x.link = seg.link
      PROVE  out = <<>> \/ <<end, x>> \in DropPairs(c)
  BY <1>1, <1>5, <1>6 DEF DropPairs, Plain, Links, Walks
<1> HIDE DEF b, end, typed, seg
<1>7. ASSUME NEW x \in Plain, x.area = seg.area, x.link = seg.link, x.type = "drop" => b
      PROVE  Dropped(route, Append(out, x), i)
  <2> DEFINE t == Append(out, x)
  <2>1. out = <<>> \/ <<end, x>> \in DropPairs(b)
    BY <1>2, <1>6, <1>7
  <2>2. /\ t \in Seq(Plain) /\ Len(t) = Len(out) + 1 /\ t # <<>> /\ t[Len(t)] = x
        /\ Chain(t, DropPairs(b))
    BY <1>2, <2>1, Grown DEF end
  <2> HIDE DEF t
  <2>3. Total(route, t, i) = Len(out) + Len(route) - (i - 1)
    BY <1>1, <1>2, <2>2 DEF Total
  <2>4. Full(route, t, i) <=> b
    BY <1>2, <2>3 DEF Full
  <2>5. Chain(t, DropPairs(Full(route, t, i)))
    BY <2>2, <2>4, DropPairsGrow, ChainMore
  <2>. QED
    BY <1>1, <1>2, <1>7, <2>2, <2>3, <2>4, <2>5 DEF Dropped, t, seg
<1>8. CASE seg.link = "drop" /\ Len(out) + 1 + Len(route) - i < MaxSegs - 1
  <2> DEFINE t == Append(out, typed)
  <2> DEFINE u == Append(t, seg)
  <2> DEFINE c == Full(route, u, i)
  <2>1. DropStep(route, out, i) = u
    BY <1>8 DEF DropStep, seg, typed
  <2>2. ~b
    <3>1. Len(out) + 1 + Len(route) - i = Len(out) + Len(route) - (i - 1)
      BY <1>1, <1>2
    <3>2. Len(out) + 1 + Len(route) - i < MaxSegs - 1
      BY <1>8
    <3>. QED
      BY <1>1, <1>2, <3>1, <3>2
  <2>3. out = <<>> \/ <<end, typed>> \in DropPairs(b)
    BY <1>2, <1>3, <1>6
  <2>4. /\ t \in Seq(Plain) /\ Len(t) = Len(out) + 1 /\ t # <<>> /\ t[Len(t)] = typed
        /\ Chain(t, DropPairs(b))
    BY <1>2, <1>3, <2>3, Grown DEF end
  <2> HIDE DEF t
  <2>5. <<t[Len(t)], seg>> \in DropPairs(c)
    <3>1. seg.link \notin {"gap", "climb"} /\ typed \in Segment /\ seg.area - typed.area = 0
      BY <1>1, <1>3, <1>8 DEF Plain
    <3> HIDE DEF c
    <3>. QED
      BY <1>1, <1>3, <2>4, <3>1 DEF DropPairs
  <2>6. DropPairs(b) \subseteq DropPairs(c)
    BY <2>2, DropPairsGrow
  <2>7. /\ u \in Seq(Plain) /\ Len(u) = Len(t) + 1 /\ u # <<>> /\ u[Len(u)] = seg
        /\ Chain(u, DropPairs(c))
    <3> HIDE DEF c
    <3>. QED
      BY <1>3, <2>4, <2>5, <2>6, Grown
  <2> HIDE DEF u
  <2>8. Total(route, u, i) = Len(out) + 2 + Len(route) - i
    BY <1>1, <1>2, <2>4, <2>7 DEF Total
  <2>9. Len(route) <= Total(route, u, i) /\ Total(route, u, i) <= MaxSegs
    BY <1>1, <1>2, <1>8, <2>8
  <2>. QED
    BY <1>1, <2>1, <2>7, <2>9 DEF Dropped, seg
<1>9. CASE seg.link = "drop" /\ ~(Len(out) + 1 + Len(route) - i < MaxSegs - 1)
  <2>1. DropStep(route, out, i) = Append(out, typed)
    BY <1>9 DEF DropStep, seg, typed
  <2>2. b
    BY <1>1, <1>2, <1>9
  <2>. QED
    BY <1>3, <1>7, <2>1, <2>2
<1>10. CASE seg.link # "drop"
  <2>1. DropStep(route, out, i) = Append(out, typed)
    BY <1>10 DEF DropStep, seg, typed
  <2>. QED
    BY <1>3, <1>7, <1>10, <2>1
<1>. QED
  BY <1>8, <1>9, <1>10

\* The first pass over a route of the search.
LEMMA WithDropsDone ==
  ASSUME NEW route, Assembled(route)
  PROVE  Dropped(route, WithDrops(route), Len(route))
<1> DEFINE n == Len(route)
<1> DEFINE F == [x \in Seq(Segment) \X (1..n) |-> DropStep(route, x[1], x[2])]
<1> DEFINE Unfolds(g) == g = [i \in 0..n |-> IF i = 0 THEN <<>> ELSE DropStep(route, g[i - 1], i)]
<1>1. route \in Seq(Segment) /\ n \in Nat /\ n >= 1
  BY LastKnown DEF Assembled
<1>2. ASSUME NEW s \in Seq(Segment), NEW i \in 1..n
      PROVE  F[<<s, i>>] \in Seq(Segment) /\ F[<<s, i>>] = DropStep(route, s, i)
  <2> DEFINE typed == [route[i] EXCEPT !.type = IF route[i].link \in Ladders \cup {"drop"} THEN route[i].link ELSE @]
  <2>1. route[i] \in Segment
    BY <1>1
  <2>2. typed \in Segment
    <3>1. CASE route[i].link \in Ladders \cup {"drop"}
      BY <2>1, <3>1 DEF Segment, Types
    <3>2. CASE route[i].link \notin Ladders \cup {"drop"}
      BY <2>1, <3>2 DEF Segment
    <3>. QED
      BY <3>1, <3>2
  <2>3. DropStep(route, s, i) \in {Append(Append(s, typed), route[i]), Append(s, typed)}
    BY DEF DropStep
  <2> HIDE DEF typed
  <2>4. DropStep(route, s, i) \in Seq(Segment)
    <3>1. Append(s, typed) \in Seq(Segment) /\ Append(Append(s, typed), route[i]) \in Seq(Segment)
      BY <2>1, <2>2, AppendKnown
    <3>. QED
      BY <2>3, <3>1
  <2>. QED
    BY <2>4
<1>3. <<>> \in Seq(Segment)
  OBVIOUS
<1> HIDE DEF F
<1>4. PICK g \in [0..n -> Seq(Segment)] : g[0] = <<>> /\ \A i \in 1..n : g[i] = F[<<g[i - 1], i>>]
  <2>1. \A s \in Seq(Segment), i \in 1..n : F[<<s, i>>] \in Seq(Segment)
    BY <1>2
  <2> DEFINE S == Seq(Segment)
  <2> DEFINE none == <<>>
  <2>2. none \in S /\ n \in Nat /\ Goes(S, n, F)
    BY <1>1, <1>3, <2>1 DEF Goes
  <2> HIDE DEF n, S, none
  <2>3. \E g \in [0..n -> S] : Makes(g, none, n, F)
    BY <2>2, PassExists
  <2>. QED
    BY <2>3 DEF S, none, Makes
<1>5. Unfolds(g)
  <2>1. ASSUME NEW i \in 0..n
        PROVE  g[i] = IF i = 0 THEN <<>> ELSE DropStep(route, g[i - 1], i)
    <3>1. CASE i = 0
      BY <1>4, <3>1
    <3>2. CASE i # 0
      <4>1. i \in 1..n /\ i - 1 \in 0..n
        BY <1>1, <3>2
      <4>2. g[i - 1] \in Seq(Segment)
        BY <4>1
      <4>. QED
        BY <1>2, <1>4, <3>2, <4>1, <4>2
    <3>. QED
      BY <3>1, <3>2
  <2>. QED
    BY <2>1
<1> DEFINE out == CHOOSE h : Unfolds(h)
<1>6. WithDrops(route) = out[n]
  BY DEF WithDrops
<1>7. Unfolds(out)
  BY <1>5
<1> HIDE DEF out
<1>8. out[0] = <<>> /\ \A i \in 1..n : out[i] = DropStep(route, out[i - 1], i)
  BY <1>1, <1>7
<1> HIDE DEF Unfolds
<1> DEFINE Inv == {i \in 0..n : Dropped(route, out[i], i)}
<1>9. 0 \in Inv
  <2>1. Total(route, <<>>, 0) = n
    BY <1>1 DEF Total
  <2>2. Chain(<<>>, DropPairs(Full(route, <<>>, 0))) /\ <<>> \in Seq(Plain)
    BY DEF Chain
  <2>3. n <= MaxSegs
    BY DEF Assembled
  <2>4. Dropped(route, <<>>, 0)
    BY <1>1, <2>1, <2>2, <2>3 DEF Dropped
  <2>. QED
    BY <1>1, <1>8, <2>4
<1>10. ASSUME NEW i \in 1..n, i - 1 \in Inv PROVE i \in Inv
  <2>1. Dropped(route, DropStep(route, out[i - 1], i), i)
    BY <1>10, DropStepKeeps
  <2>. QED
    BY <1>1, <1>8, <2>1
<1>11. n \in Inv
  <2> HIDE DEF n, Inv
  <2>. QED
    BY <1>1, <1>9, <1>10, PassKeeps
<1>. QED
  BY <1>6, <1>11

-----------------------------------------------------------------------------
(***************************************************************************)
(* The second pass.                                                        *)
(***************************************************************************)

\* A launch has its landing behind it.
LaunchPairs(full) ==
  {p \in Segment \X Segment :
     /\ p[2].area - p[1].area \in {0, 1}
     /\ p[1].type \in {"gap", "climb"} => p[2].area = p[1].area + 1 /\ p[2].link = p[1].type
     /\ p[1].type = "drop" => full \/ p[2].area = p[1].area}

\* What the first pass leaves to the second.
Given(route) ==
  /\ route \in Seq(Plain) /\ route # <<>> /\ Len(route) <= MaxSegs
  /\ Chain(route, DropPairs(Len(route) >= MaxSegs - 1))
  /\ route[Len(route)].type = "drop" => Len(route) >= MaxSegs - 1

\* After i segments of it.
Launched(route, out, i) ==
  /\ out \in Seq(Segment)
  /\ Len(route) <= Total(route, out, i) /\ Total(route, out, i) <= MaxSegs
  /\ Chain(out, LaunchPairs(Full(route, out, i)))
  /\ i = 0 => out = <<>>
  /\ i # 0 => out # <<>> /\ out[Len(out)] = route[i]

\* Pairs stay allowed when the path becomes full.
LEMMA LaunchPairsGrow ==
  ASSUME NEW b, NEW c, b => c
  PROVE  LaunchPairs(b) \subseteq LaunchPairs(c)
BY DEF LaunchPairs

\* Each step of the second pass keeps that.
LEMMA LaunchStepKeeps ==
  ASSUME NEW route, Given(route), NEW i \in 1..Len(route), NEW out, Launched(route, out, i - 1)
  PROVE  Launched(route, LaunchStep(route, out, i), i)
<1> DEFINE seg == route[i]
<1> DEFINE from == route[i - 1]
<1> DEFINE launch == [from EXCEPT !.type = seg.link]
<1> DEFINE b == Full(route, out, i - 1)
<1> DEFINE end == out[Len(out)]
<1>1. /\ route \in Seq(Plain) /\ Len(route) \in Nat /\ Len(route) <= MaxSegs /\ MaxSegs \in Nat
      /\ seg \in Plain /\ seg \in Segment /\ i \in Nat /\ i >= 1
  BY MaxSegsOK DEF Given, Plain
<1>2. /\ out \in Seq(Segment) /\ Len(out) \in Nat
      /\ Len(route) <= Len(out) + Len(route) - (i - 1) /\ Len(out) + Len(route) - (i - 1) <= MaxSegs
      /\ b \in BOOLEAN /\ (b <=> Len(out) + Len(route) - (i - 1) >= MaxSegs - 1)
      /\ Chain(out, LaunchPairs(b))
  BY DEF Launched, Total, Full
<1>3. i > 1 => /\ from \in Plain /\ from \in Segment /\ out # <<>> /\ end = from
               /\ <<from, seg>> \in DropPairs(b)
  <2> SUFFICES ASSUME i > 1
               PROVE /\ from \in Plain /\ from \in Segment /\ out # <<>> /\ end = from
                     /\ <<from, seg>> \in DropPairs(b)
    OBVIOUS
  <2>1. i - 1 \in 1..Len(route) /\ i - 1 \in 1..Len(route) - 1 /\ (i - 1) + 1 = i /\ i - 1 # 0
    BY <1>1
  <2>2. from \in Plain /\ from \in Segment
    BY <1>1, <2>1 DEF Plain
  <2>3. out # <<>> /\ end = from
    BY <2>1 DEF Launched
  <2>4. <<from, seg>> \in DropPairs(Len(route) >= MaxSegs - 1)
    BY <2>1 DEF Given, Chain
  <2>5. Len(route) >= MaxSegs - 1 => b
    BY <1>1, <1>2
  <2>6. DropPairs(Len(route) >= MaxSegs - 1) \subseteq DropPairs(b)
    <3> HIDE DEF b
    <3>. QED
      BY <2>5, DropPairsGrow
  <2>. QED
    BY <2>2, <2>3, <2>4, <2>6
<1>4. i = 1 => out = <<>>
  BY <1>1 DEF Launched
<1> HIDE DEF b, end, seg, from, launch
<1>5. CASE i > 1 /\ NeedsLaunch(from, seg) /\ Len(out) + 1 + Len(route) - i < MaxSegs - 1
  <2> DEFINE t == Append(out, launch)
  <2> DEFINE u == Append(t, seg)
  <2> DEFINE c == Full(route, u, i)
  <2>1. LaunchStep(route, out, i) = u
    BY <1>5 DEF LaunchStep, seg, from, launch
  <2>2. ~b
    <3>1. Len(out) + 1 + Len(route) - i = Len(out) + Len(route) - (i - 1)
      BY <1>1, <1>2
    <3>2. Len(out) + 1 + Len(route) - i < MaxSegs - 1
      BY <1>5
    <3>. QED
      BY <1>1, <1>2, <3>1, <3>2
  <2>3. /\ seg.link \in {"gap", "climb"} /\ seg.type = "ground"
        /\ from.type \notin {"gap", "climb"} /\ from.area \in Nat /\ seg.area \in Nat
        /\ seg.area = from.area + 1
    BY <1>1, <1>3, <1>5 DEF NeedsLaunch, DropPairs, Plain, Segment
  <2>4. /\ launch \in Segment /\ launch.area = from.area /\ launch.type = seg.link
    BY <1>3, <1>5, <2>3 DEF Segment, Types, launch
  <2>5. <<end, launch>> \in LaunchPairs(b)
    BY <1>3, <1>5, <2>3, <2>4 DEF LaunchPairs
  <2>6. /\ t \in Seq(Segment) /\ Len(t) = Len(out) + 1 /\ t # <<>> /\ t[Len(t)] = launch
        /\ Chain(t, LaunchPairs(b))
    BY <1>2, <2>4, <2>5, Grown DEF end
  <2> HIDE DEF t
  <2>7. <<t[Len(t)], seg>> \in LaunchPairs(c)
    <3> HIDE DEF c
    <3>1. seg.area - launch.area = 1 /\ seg.area = launch.area + 1 /\ launch.type # "drop"
      BY <2>3, <2>4
    <3>. QED
      BY <1>1, <2>3, <2>4, <2>6, <3>1 DEF LaunchPairs
  <2>8. LaunchPairs(b) \subseteq LaunchPairs(c)
    BY <2>2, LaunchPairsGrow
  <2>9. /\ u \in Seq(Segment) /\ Len(u) = Len(t) + 1 /\ u # <<>> /\ u[Len(u)] = seg
        /\ Chain(u, LaunchPairs(c))
    <3> HIDE DEF c
    <3>. QED
      BY <1>1, <2>6, <2>7, <2>8, Grown
  <2> HIDE DEF u
  <2>10. Total(route, u, i) = Len(out) + 2 + Len(route) - i
    BY <1>1, <1>2, <2>6, <2>9 DEF Total
  <2>11. Len(route) <= Total(route, u, i) /\ Total(route, u, i) <= MaxSegs
    BY <1>1, <1>2, <1>5, <2>10
  <2>. QED
    BY <1>1, <2>1, <2>9, <2>11 DEF Launched, seg
<1>6. CASE ~(i > 1 /\ NeedsLaunch(from, seg) /\ Len(out) + 1 + Len(route) - i < MaxSegs - 1)
  <2> DEFINE t == Append(out, seg)
  <2>1. LaunchStep(route, out, i) = t
    BY <1>6 DEF LaunchStep, seg, from
  <2>2. out = <<>> \/ <<end, seg>> \in LaunchPairs(b)
    <3>1. CASE i = 1
      BY <1>4, <3>1
    <3>2. CASE i > 1
      <4>1. from.type \notin {"gap", "climb"}
        BY <1>3, <3>2 DEF Plain
      <4>. QED
        BY <1>3, <3>2, <4>1 DEF LaunchPairs, DropPairs
    <3>. QED
      BY <1>1, <3>1, <3>2
  <2>3. /\ t \in Seq(Segment) /\ Len(t) = Len(out) + 1 /\ t # <<>> /\ t[Len(t)] = seg
        /\ Chain(t, LaunchPairs(b))
    BY <1>1, <1>2, <2>2, Grown DEF end
  <2> HIDE DEF t
  <2>4. Total(route, t, i) = Len(out) + Len(route) - (i - 1)
    BY <1>1, <1>2, <2>3 DEF Total
  <2>5. Full(route, t, i) <=> b
    BY <1>2, <2>4 DEF Full
  <2>6. Chain(t, LaunchPairs(Full(route, t, i)))
    BY <2>3, <2>5, LaunchPairsGrow, ChainMore
  <2>. QED
    BY <1>1, <1>2, <2>1, <2>3, <2>4, <2>6 DEF Launched, seg
<1>. QED
  BY <1>5, <1>6

\* The second pass over what the first made.
LEMMA WithLaunchesDone ==
  ASSUME NEW route, Given(route)
  PROVE  Launched(route, WithLaunches(route), Len(route))
<1> DEFINE n == Len(route)
<1> DEFINE F == [x \in Seq(Segment) \X (1..n) |-> LaunchStep(route, x[1], x[2])]
<1> DEFINE Unfolds(g) == g = [i \in 0..n |-> IF i = 0 THEN <<>> ELSE LaunchStep(route, g[i - 1], i)]
<1>1. route \in Seq(Plain) /\ n \in Nat /\ n >= 1
  BY LastKnown DEF Given
<1>2. ASSUME NEW s \in Seq(Segment), NEW i \in 1..n
      PROVE  F[<<s, i>>] \in Seq(Segment) /\ F[<<s, i>>] = LaunchStep(route, s, i)
  <2> DEFINE launch == [route[i - 1] EXCEPT !.type = route[i].link]
  <2>1. route[i] \in Segment
    BY <1>1 DEF Plain
  <2>2. CASE i > 1 /\ NeedsLaunch(route[i - 1], route[i]) /\ Len(s) + 1 + n - i < MaxSegs - 1
    <3>1. LaunchStep(route, s, i) = Append(Append(s, launch), route[i])
      BY <2>2 DEF LaunchStep
    <3>2. i - 1 \in 1..n
      BY <1>1, <2>2
    <3>3. route[i - 1] \in Segment /\ route[i].link \in {"gap", "climb"}
      BY <1>1, <2>2, <3>2 DEF Plain, NeedsLaunch
    <3>4. launch \in Segment
      BY <3>3 DEF Segment, Types
    <3> HIDE DEF launch
    <3>5. Append(Append(s, launch), route[i]) \in Seq(Segment)
      BY <2>1, <3>4, AppendKnown
    <3>. QED
      BY <3>1, <3>5
  <2>3. CASE ~(i > 1 /\ NeedsLaunch(route[i - 1], route[i]) /\ Len(s) + 1 + n - i < MaxSegs - 1)
    <3>1. LaunchStep(route, s, i) = Append(s, route[i])
      BY <2>3 DEF LaunchStep
    <3>2. Append(s, route[i]) \in Seq(Segment)
      BY <2>1, AppendKnown
    <3>. QED
      BY <3>1, <3>2
  <2>. QED
    BY <2>2, <2>3
<1>3. <<>> \in Seq(Segment)
  OBVIOUS
<1> HIDE DEF F
<1>4. PICK g \in [0..n -> Seq(Segment)] : g[0] = <<>> /\ \A i \in 1..n : g[i] = F[<<g[i - 1], i>>]
  <2>1. \A s \in Seq(Segment), i \in 1..n : F[<<s, i>>] \in Seq(Segment)
    BY <1>2
  <2> DEFINE S == Seq(Segment)
  <2> DEFINE none == <<>>
  <2>2. none \in S /\ n \in Nat /\ Goes(S, n, F)
    BY <1>1, <1>3, <2>1 DEF Goes
  <2> HIDE DEF n, S, none
  <2>3. \E g \in [0..n -> S] : Makes(g, none, n, F)
    BY <2>2, PassExists
  <2>. QED
    BY <2>3 DEF S, none, Makes
<1>5. Unfolds(g)
  <2>1. ASSUME NEW i \in 0..n
        PROVE  g[i] = IF i = 0 THEN <<>> ELSE LaunchStep(route, g[i - 1], i)
    <3>1. CASE i = 0
      BY <1>4, <3>1
    <3>2. CASE i # 0
      <4>1. i \in 1..n /\ i - 1 \in 0..n
        BY <1>1, <3>2
      <4>2. g[i - 1] \in Seq(Segment)
        BY <4>1
      <4>. QED
        BY <1>2, <1>4, <3>2, <4>1, <4>2
    <3>. QED
      BY <3>1, <3>2
  <2>. QED
    BY <2>1
<1> DEFINE out == CHOOSE h : Unfolds(h)
<1>6. WithLaunches(route) = out[n]
  BY DEF WithLaunches
<1>7. Unfolds(out)
  BY <1>5
<1> HIDE DEF out
<1>8. out[0] = <<>> /\ \A i \in 1..n : out[i] = LaunchStep(route, out[i - 1], i)
  BY <1>1, <1>7
<1> HIDE DEF Unfolds
<1> DEFINE Inv == {i \in 0..n : Launched(route, out[i], i)}
<1>9. 0 \in Inv
  <2>1. Total(route, <<>>, 0) = n
    BY <1>1 DEF Total
  <2>2. Chain(<<>>, LaunchPairs(Full(route, <<>>, 0))) /\ <<>> \in Seq(Segment)
    BY DEF Chain
  <2>3. n <= MaxSegs
    BY DEF Given
  <2>4. Launched(route, <<>>, 0)
    BY <1>1, <2>1, <2>2, <2>3 DEF Launched
  <2>. QED
    BY <1>1, <1>8, <2>4
<1>10. ASSUME NEW i \in 1..n, i - 1 \in Inv PROVE i \in Inv
  <2>1. Launched(route, LaunchStep(route, out[i - 1], i), i)
    BY <1>10, LaunchStepKeeps
  <2>. QED
    BY <1>1, <1>8, <2>1
<1>11. n \in Inv
  <2> HIDE DEF n, Inv
  <2>. QED
    BY <1>1, <1>9, <1>10, PassKeeps
<1>. QED
  BY <1>6, <1>11

-----------------------------------------------------------------------------
(***************************************************************************)
(* Paths that a follower can get.                                          *)
(***************************************************************************)

\* PathShape of any segments.
Shaped(s) ==
  /\ Len(s) <= MaxSegs
  /\ \A i \in 1..Len(s) - 1 : s[i + 1].area - s[i].area \in {0, 1}
  /\ \A i \in 1..Len(s) :
       /\ s[i].type \in {"gap", "climb"} =>
            i < Len(s) /\ s[i + 1].area = s[i].area + 1 /\ s[i + 1].link = s[i].type
       /\ s[i].type = "drop" => \/ Len(s) >= MaxSegs - 1
                                \/ i < Len(s) /\ s[i + 1].area = s[i].area

\* ComputePathDetails: whatever the route, its segments fit m_path and go together.
LEMMA DetailsShaped ==
  ASSUME NEW links \in Seq(Links), NEW withGoal \in BOOLEAN
  PROVE  Details(links, withGoal) \in Seq(Segment) /\ Shaped(Details(links, withGoal))
<1> DEFINE route == Assemble(links, withGoal)
<1> DEFINE mid == WithDrops(route)
<1> DEFINE s == WithLaunches(mid)
<1>1. Details(links, withGoal) = s
  BY DEF Details
<1>2. Assembled(route)
  BY AssembleFits
<1>3. Dropped(route, mid, Len(route))
  BY <1>2, WithDropsDone
<1>4. Len(route) \in Nat /\ Len(route) # 0
  BY <1>2, LastKnown DEF Assembled
<1> HIDE DEF route, mid
<1>5. Given(mid)
  <2>1. mid \in Seq(Plain) /\ Len(mid) \in Nat
    BY <1>3 DEF Dropped
  <2>2. Total(route, mid, Len(route)) = Len(mid)
    BY <1>4, <2>1 DEF Total
  <2>3. Full(route, mid, Len(route)) <=> Len(mid) >= MaxSegs - 1
    BY <2>2 DEF Full
  <2>4. Chain(mid, DropPairs(Len(mid) >= MaxSegs - 1))
    <3> DEFINE b == Full(route, mid, Len(route))
    <3> DEFINE c == Len(mid) >= MaxSegs - 1
    <3>1. DropPairs(b) \subseteq DropPairs(c)
      <4>1. b => c
        BY <2>3
      <4> HIDE DEF b, c
      <4>. QED
        BY <4>1, DropPairsGrow
    <3>2. Chain(mid, DropPairs(Full(route, mid, Len(route))))
      BY <1>3 DEF Dropped
    <3>. QED
      BY <3>1, <3>2, ChainMore
  <2>. QED
    BY <1>3, <1>4, <2>1, <2>2, <2>3, <2>4 DEF Given, Dropped
<1>6. Launched(mid, s, Len(mid))
  BY <1>5, WithLaunchesDone
<1>7. Len(mid) \in Nat /\ Len(mid) # 0
  BY <1>5, LastKnown DEF Given
<1> HIDE DEF s
<1>8. s \in Seq(Segment) /\ Len(s) \in Nat /\ s # <<>> /\ s[Len(s)] = mid[Len(mid)]
  BY <1>6, <1>7 DEF Launched
<1>9. Total(mid, s, Len(mid)) = Len(s)
  BY <1>7, <1>8 DEF Total
<1>10. Len(s) <= MaxSegs /\ Len(mid) <= Len(s) /\ MaxSegs \in Nat
  BY <1>6, <1>9, MaxSegsOK DEF Launched
<1> DEFINE full == Len(s) >= MaxSegs - 1
<1>11. Chain(s, LaunchPairs(full))
  <2>1. Full(mid, s, Len(mid)) <=> full
    BY <1>9 DEF Full
  <2>2. LaunchPairs(Full(mid, s, Len(mid))) \subseteq LaunchPairs(full)
    <3> HIDE DEF full
    <3>. QED
      BY <2>1, LaunchPairsGrow
  <2>3. Chain(s, LaunchPairs(Full(mid, s, Len(mid))))
    BY <1>6 DEF Launched
  <2> HIDE DEF full
  <2>. QED
    BY <2>2, <2>3, ChainMore
<1>12. s[Len(s)].type \notin {"gap", "climb"} /\ (s[Len(s)].type = "drop" => full)
  <2>1. mid[Len(mid)] \in Plain
    BY <1>5, LastKnown DEF Given
  <2>2. Len(mid) >= MaxSegs - 1 => full
    BY <1>7, <1>8, <1>10
  <2>. QED
    BY <1>5, <1>8, <2>1, <2>2 DEF Given, Plain
<1> HIDE DEF full
<1>13. ASSUME NEW i \in 1..Len(s) - 1 PROVE <<s[i], s[i + 1]>> \in LaunchPairs(full)
  BY <1>11 DEF Chain
<1>14. ASSUME NEW i \in 1..Len(s) - 1 PROVE s[i + 1].area - s[i].area \in {0, 1}
  BY <1>13 DEF LaunchPairs
<1>15. ASSUME NEW i \in 1..Len(s)
       PROVE  /\ s[i].type \in {"gap", "climb"} =>
                   i < Len(s) /\ s[i + 1].area = s[i].area + 1 /\ s[i + 1].link = s[i].type
              /\ s[i].type = "drop" => full \/ (i < Len(s) /\ s[i + 1].area = s[i].area)
  <2>1. CASE i = Len(s)
    BY <1>12, <2>1
  <2>2. CASE i # Len(s)
    <3>1. i \in 1..Len(s) - 1 /\ i < Len(s)
      BY <1>8, <2>2
    <3>. QED
      BY <1>13, <3>1 DEF LaunchPairs
  <2>. QED
    BY <2>1, <2>2
<1>16. Shaped(s)
  BY <1>10, <1>14, <1>15 DEF Shaped, full
<1>. QED
  BY <1>1, <1>8, <1>16

\* So does a path to where the bot stands, and no path at all.
LEMMA SmallShaped ==
  /\ <<>> \in Seq(Segment) /\ Shaped(<<>>)
  /\ Trivial \in Seq(Segment) /\ Shaped(Trivial) /\ Trivial # <<>>
<1>1. <<>> \in Seq(Segment) /\ Shaped(<<>>)
  BY MaxSegsOK DEF Shaped
<1> DEFINE x == Seg(1, "start", "ground")
<1> DEFINE y == Seg(1, "goal", "ground")
<1>2. x \in Segment /\ y \in Segment /\ x.area = 1 /\ y.area = 1 /\ x.type = "ground" /\ y.type = "ground"
  BY DEF Seg, Segment, Types
<1>3. Trivial = <<x, y>>
  BY DEF Trivial
<1> HIDE DEF x, y
<1>4. Trivial \in Seq(Segment) /\ Len(Trivial) = 2 /\ Trivial[1] = x /\ Trivial[2] = y /\ Trivial # <<>>
  BY <1>2, <1>3
<1>5. Shaped(Trivial)
  <2>1. \A i \in 1..2 : Trivial[i].type = "ground" /\ Trivial[i].area = 1
    BY <1>2, <1>4
  <2>2. \A i \in 1..(2 - 1) : Trivial[i + 1].area - Trivial[i].area \in {0, 1}
    BY <1>2, <1>4
  <2>. QED
    BY <1>4, <2>1, <2>2, MaxSegsOK DEF Shaped
<1>. QED
  BY <1>1, <1>4, <1>5

\* Every result of a computation.
LEMMA ResultsShaped ==
  ASSUME NEW r \in Results
  PROVE  /\ r.segs \in Seq(Segment) /\ Shaped(r.segs) /\ r.flat \in BOOLEAN
         /\ r.built \in {None, "search", "trivial"}
<1>1. CASE r \in { [segs |-> <<>>, flat |-> FALSE, built |-> None, isPath |-> b] : b \in BOOLEAN }
  <2>1. PICK b \in BOOLEAN : r = [segs |-> <<>>, flat |-> FALSE, built |-> None, isPath |-> b]
    BY <1>1
  <2>2. r.segs = <<>> /\ r.flat = FALSE /\ r.built = None
    BY <2>1
  <2>. QED
    BY <2>2, SmallShaped
<1>2. CASE r \in { [segs |-> Trivial, flat |-> b, built |-> "trivial", isPath |-> TRUE] : b \in BOOLEAN }
  <2>1. PICK b \in BOOLEAN : r = [segs |-> Trivial, flat |-> b, built |-> "trivial", isPath |-> TRUE]
    BY <1>2
  <2>2. r.segs = Trivial /\ r.flat = b /\ r.built = "trivial"
    BY <2>1
  <2>. QED
    BY <2>2, SmallShaped
<1>3. CASE \E q \in Routes, withGoal \in BOOLEAN :
             r = [segs |-> IF Len(q.links) = 0 THEN Trivial ELSE Details(q.links, q.found \/ withGoal),
                  flat |-> FALSE, built |-> IF Len(q.links) = 0 THEN "trivial" ELSE "search",
                  isPath |-> q.found]
  <2>1. PICK q \in Routes, withGoal \in BOOLEAN :
             r = [segs |-> IF Len(q.links) = 0 THEN Trivial ELSE Details(q.links, q.found \/ withGoal),
                  flat |-> FALSE, built |-> IF Len(q.links) = 0 THEN "trivial" ELSE "search",
                  isPath |-> q.found]
    BY <1>3
  <2>2. q.links \in Seq(Links) /\ (q.found \/ withGoal) \in BOOLEAN
    BY FollowerConstantsOK
  <2>3. Details(q.links, q.found \/ withGoal) \in Seq(Segment) /\ Shaped(Details(q.links, q.found \/ withGoal))
    BY <2>2, DetailsShaped
  <2>4. r.segs \in {Trivial, Details(q.links, q.found \/ withGoal)} /\ r.flat = FALSE
        /\ r.built \in {"trivial", "search"}
    BY <2>1
  <2>. QED
    BY <2>3, <2>4, SmallShaped
<1>. QED
  BY <1>1, <1>2, <1>3 DEF Results

-----------------------------------------------------------------------------
(***************************************************************************)
(* The cursor.                                                             *)
(***************************************************************************)

\* CursorAgrees of any cursor and path.
Fits(c, s, f) ==
  /\ c \in [pos : Nat \cup {NoPosition}, prior : Nat, dirty : BOOLEAN]
  /\ c.prior <= Len(s)
  /\ c.pos <= GetLength(s, f)
  /\ ~c.dirty /\ c.pos # NoPosition /\ s # <<>> => c.prior = SegmentAt(s, f, c.pos)

\* A reset cursor fits every path.
LEMMA NoCursorFits ==
  ASSUME NEW s \in Seq(Segment), NEW f \in BOOLEAN
  PROVE  Fits(NoCursor, s, f) /\ GetLength(s, f) \in Nat
<1>1. Len(s) \in Nat /\ (s # <<>> => Len(s) >= 1)
  BY LastKnown
<1>2. GetLength(s, f) \in Nat
  BY <1>1 DEF GetLength
<1>. QED
  BY <1>1, <1>2 DEF Fits, NoCursor, NoPosition

\* The segment at a position is one of the path.
LEMMA SegmentAtKnown ==
  ASSUME NEW s \in Seq(Segment), s # <<>>, NEW f \in BOOLEAN, NEW pos \in Nat, pos <= GetLength(s, f)
  PROVE  SegmentAt(s, f, pos) \in 1..Len(s)
<1>1. Len(s) \in Nat /\ Len(s) >= 1
  BY LastKnown
<1>2. CASE pos = 0
  <2>1. SegmentAt(s, f, pos) = 1
    BY <1>2 DEF SegmentAt
  <2>. QED
    BY <1>1, <2>1
<1>3. CASE pos # 0 /\ pos = GetLength(s, f)
  <2>1. pos > 0
    BY <1>3
  <2>2. SegmentAt(s, f, pos) = Len(s)
    BY <1>3, <2>1 DEF SegmentAt
  <2>. QED
    BY <1>1, <2>2
<1>4. CASE pos # 0 /\ pos # GetLength(s, f)
  <2>1. SegmentAt(s, f, pos) = (pos + 1) \div 2
    BY <1>4 DEF SegmentAt
  <2>2. pos >= 1 /\ pos < 2 * (Len(s) - 1)
    BY <1>1, <1>4 DEF GetLength
  <2>3. (pos + 1) \div 2 \in 1..Len(s)
    BY <1>1, <2>2
  <2>. QED
    BY <2>1, <2>3
<1>. QED
  BY <1>2, <1>3, <1>4

\* MoveCursor stays on the path.
LEMMA MovedFits ==
  ASSUME NEW s \in Seq(Segment), NEW f \in BOOLEAN, NEW c, Fits(c, s, f),
         NEW value \in Int, NEW relative \in BOOLEAN
  PROVE  Fits(Moved(c, s, f, value, relative), s, f)
<1> DEFINE to == IF relative THEN c.pos + value ELSE value
<1> DEFINE len == GetLength(s, f)
<1> DEFINE m == Moved(c, s, f, value, relative)
<1>1. /\ c \in [pos : Nat \cup {NoPosition}, prior : Nat, dirty : BOOLEAN] /\ c.prior <= Len(s) /\ len \in Nat
      /\ NoPosition \in Int /\ NoPosition < 0
  BY NoCursorFits DEF Fits, NoPosition
<1>2. to \in Int
  BY <1>1
<1> HIDE DEF to, len
<1>3. Min({to, len}) \in Int /\ Min({to, len}) <= len
  BY <1>1, <1>2, MinOfTwo
<1>4. Max({0, Min({to, len})}) \in Nat /\ Max({0, Min({to, len})}) <= len
  <2> DEFINE least == Min({to, len})
  <2>1. least \in Int /\ least <= len
    BY <1>3
  <2> HIDE DEF least, m
  <2>2. Max({0, least}) = IF 0 >= least THEN 0 ELSE least
    BY <2>1, MaxOfTwo
  <2>3. Max({0, least}) \in Nat /\ Max({0, least}) <= len
    BY <1>1, <2>1, <2>2
  <2>. QED
    BY <2>3 DEF least
<1> DEFINE x == IF relative /\ c.pos = NoPosition THEN NoPosition ELSE Max({0, Min({to, len})})
<1>5. m = [c EXCEPT !.dirty = TRUE, !.pos = x]
  BY DEF Moved, to, len
<1>6. x \in Nat \cup {NoPosition} /\ x <= len
  BY <1>1, <1>4
<1> HIDE DEF x, m
<1>7. m \in [pos : Nat \cup {NoPosition}, prior : Nat, dirty : BOOLEAN] /\ m.dirty = TRUE /\ m.prior = c.prior /\ m.pos = x
  BY <1>1, <1>5, <1>6
<1>. QED
  BY <1>1, <1>6, <1>7 DEF Fits, m, len

\* A search for the closest point stays on the path.
LEMMA SeeksFit ==
  ASSUME NEW s \in Seq(Segment), s # <<>>, NEW f \in BOOLEAN, NEW first \in 1..Len(s),
         NEW c \in Seeks(s, f, first)
  PROVE  Fits(c, s, f)
<1>1. Len(s) \in Nat /\ Len(s) >= 1
  BY LastKnown
<1>2. PICK i \in first..Max({first, Len(s) - 1}), t \in 0..2 : c = Sought(i, t, s, f)
  <2> DEFINE range == first..Max({first, Len(s) - 1})
  <2> HIDE DEF range
  <2>1. Seeks(s, f, first) = { Sought(i, t, s, f) : i \in range, t \in 0..2 }
    BY DEF Seeks, range
  <2>2. \E i \in range, t \in 0..2 : c = Sought(i, t, s, f)
    BY ONLY <2>1, c \in Seeks(s, f, first)
  <2>. QED
    BY <2>2 DEF range
<1>3. i \in Nat /\ i >= 1 /\ i <= Len(s)
  BY <1>1, MaxOfTwo
<1> DEFINE x == IF i = Len(s) \/ f THEN NoPosition ELSE 2 * (i - 1) + t
<1>4. x \in Nat \cup {NoPosition} /\ x <= GetLength(s, f)
  <2>1. CASE i = Len(s) \/ f
    BY <1>1, <2>1 DEF NoPosition, GetLength
  <2>2. CASE ~(i = Len(s) \/ f)
    BY <1>1, <1>3, <2>2 DEF GetLength
  <2>. QED
    BY <2>1, <2>2
<1>5. c = [dirty |-> TRUE, prior |-> i, pos |-> x]
  BY <1>2 DEF Sought
<1> HIDE DEF x
<1>6. c \in [pos : Nat \cup {NoPosition}, prior : Nat, dirty : BOOLEAN] /\ c.dirty = TRUE /\ c.prior = i /\ c.pos = x
  BY <1>3, <1>4, <1>5
<1>. QED
  BY <1>3, <1>4, <1>6 DEF Fits

\* Refreshed cursor data are those of the position.
LEMMA RefreshedFits ==
  ASSUME NEW s \in Seq(Segment), NEW f \in BOOLEAN, NEW c, Fits(c, s, f)
  PROVE  Fits(Refreshed(c, s, f), s, f)
<1>1. /\ c \in [pos : Nat \cup {NoPosition}, prior : Nat, dirty : BOOLEAN]
      /\ c.prior <= Len(s) /\ c.pos <= GetLength(s, f) /\ Len(s) \in Nat /\ NoPosition < 0
  BY DEF Fits, NoPosition
<1> DEFINE m == Refreshed(c, s, f)
<1>2. CASE s = <<>>
  <2>1. m = [c EXCEPT !.prior = 0]
    BY <1>2 DEF Refreshed
  <2> HIDE DEF m
  <2>2. m \in [pos : Nat \cup {NoPosition}, prior : Nat, dirty : BOOLEAN] /\ m.prior = 0 /\ m.pos = c.pos
    BY <1>1, <2>1
  <2>. QED
    BY <1>1, <1>2, <2>2 DEF Fits, m
<1>3. CASE s # <<>>
  <2> DEFINE x == IF c.dirty /\ c.pos # NoPosition THEN SegmentAt(s, f, c.pos) ELSE c.prior
  <2>1. m = [c EXCEPT !.dirty = FALSE, !.prior = x]
    BY <1>3 DEF Refreshed
  <2>2. x \in Nat /\ x <= Len(s)
    <3>1. CASE c.dirty /\ c.pos # NoPosition
      <4>1. c.pos \in Nat
        BY <1>1, <3>1
      <4>2. SegmentAt(s, f, c.pos) \in 1..Len(s)
        BY <1>1, <1>3, <4>1, SegmentAtKnown
      <4>. QED
        BY <1>1, <3>1, <4>2
    <3>2. CASE ~(c.dirty /\ c.pos # NoPosition)
      BY <1>1, <3>2
    <3>. QED
      BY <3>1, <3>2
  <2>3. c.pos # NoPosition => x = SegmentAt(s, f, c.pos)
    BY <1>1, <1>3 DEF Fits
  <2> HIDE DEF m, x
  <2>4. m \in [pos : Nat \cup {NoPosition}, prior : Nat, dirty : BOOLEAN] /\ m.prior = x /\ m.pos = c.pos
    BY <1>1, <2>1, <2>2
  <2>. QED
    BY <1>1, <2>2, <2>3, <2>4 DEF Fits, m
<1>. QED
  BY <1>2, <1>3

-----------------------------------------------------------------------------
(***************************************************************************)
(* The inductive invariant: the properties in the state between any two    *)
(* stages, and what the stages and callbacks rely on.                      *)
(***************************************************************************)

\* The segments and the cursor are those of one path.
PathOK(s, f, b, c) ==
  /\ s \in Seq(Segment) /\ f \in BOOLEAN /\ b \in {None, "search", "trivial", "copy"}
  /\ Shaped(s) /\ Fits(c, s, f)
PathInv == PathOK(segs, flat, built, cursor)

\* The goal is on the path; so is the landing of a gap jump, unless its callback
\* rebuilt the path.
Jumping == pc = "landed" \/ (pc = "callback" /\ after = "landed")
GoalInv ==
  /\ goal \in 0..MaxSegs /\ landing \in 0..MaxSegs /\ stale \in BOOLEAN
  /\ GoalOnPath
  /\ Jumping /\ fresh = None => landing <= Len(segs)

\* Which stage runs says what is known: a callback returns to a stage that expects
\* one, the stages that look along the path have one, and a path that a callback
\* searched for has no age.
Returns == {"reached", "gaps", "fall", "landed", "noPath"}
StageInv ==
  /\ pc \in Stages /\ after \in Stages /\ aged \in BOOLEAN
  /\ fresh \in {None, "search", "trivial", "other"}
  /\ pc = "callback" => after \in Returns
  /\ pc \in {"ladder", "speed", "avoid"} => segs # <<>>
  /\ fresh # None => pc \in {"callback", "reached", "landed"}
  /\ fresh = "search" => ~aged

\* The path leads to the last subject, but for the time from a failed search until
\* its path is dropped; in RefreshPath that subject is the chased one.
Failing == pc = "noPath" \/ (pc = "callback" /\ after = "noPath")
ChaseInv ==
  /\ leads \in Subjects \cup {None, Plugin} /\ last \in Subjects \cup {None}
  /\ chased \in Subjects \cup {None}
  /\ segs # <<>> /\ ~Failing => leads \in {last, Plugin}
  /\ pc = "repath" /\ segs # <<>> => leads \in {chased, Plugin}

\* The timers, and whether the path and its use are there.
TimerInv ==
  /\ timer \in [{"avoid", "wait", "throttle", "fail"} -> 0..Max({2, MaxWait})]
  /\ current \in BOOLEAN /\ alive \in BOOLEAN

\* While a failed attempt is waited out, there is no path but one of a plugin.
FailInv == ~Elapsed("fail") => pc # "repath" /\ (segs # <<>> /\ ~Failing => leads = Plugin)

FollowInv == PathInv /\ GoalInv /\ StageInv /\ ChaseInv /\ TimerInv /\ FailInv

\* What the three kinds of rebuilding do to the path.
LEMMA RebuiltPath ==
  /\ Invalidate => PathInv' /\ segs' = <<>>
  /\ \A r \in Results : \A for, started : Compute(r, for, started) => PathInv'
  /\ \A other \in {<<>>, Trivial} : Copy(other) => PathInv'
<1>1. Invalidate => PathInv' /\ segs' = <<>>
  <2> SUFFICES ASSUME Invalidate PROVE PathInv' /\ segs' = <<>>
    OBVIOUS
  <2>1. segs' = <<>> /\ flat' = FALSE /\ built' = None /\ cursor' = NoCursor
    BY DEF Invalidate
  <2>2. PathOK(<<>>, FALSE, None, NoCursor)
    BY SmallShaped, NoCursorFits DEF PathOK
  <2>. QED
    BY <2>1, <2>2 DEF PathInv
<1>2. ASSUME NEW r \in Results, NEW for, NEW started, Compute(r, for, started) PROVE PathInv'
  <2>1. segs' = r.segs /\ flat' = r.flat /\ built' = r.built /\ cursor' = NoCursor
    BY <1>2 DEF Compute
  <2>2. PathOK(r.segs, r.flat, r.built, NoCursor)
    BY ResultsShaped, NoCursorFits DEF PathOK
  <2>. QED
    BY <2>1, <2>2 DEF PathInv
<1>3. ASSUME NEW other \in {<<>>, Trivial}, Copy(other) PROVE PathInv'
  <2>1. segs' = other /\ flat' = FALSE /\ built' \in {None, "copy"} /\ cursor' = NoCursor
    BY <1>3 DEF Copy
  <2>2. other \in Seq(Segment) /\ Shaped(other)
    BY SmallShaped
  <2>3. PathOK(other, FALSE, built', NoCursor)
    BY <2>1, <2>2, NoCursorFits DEF PathOK
  <2>. QED
    BY <2>1, <2>3 DEF PathInv
<1>. QED
  BY <1>1, <1>2, <1>3

\* Every step leaves a path of that shape and a cursor on it.
LEMMA PathStays ==
  ASSUME FollowInv, Next
  PROVE  PathInv'
<1>1. /\ segs \in Seq(Segment) /\ flat \in BOOLEAN /\ Fits(cursor, segs, flat)
      /\ Len(segs) \in Nat /\ (segs # <<>> => Len(segs) >= 1)
      /\ cursor.prior \in Nat /\ cursor.prior <= Len(segs) /\ PathInv
  BY LastKnown DEF FollowInv, PathInv, PathOK, Fits
<1>2. ASSUME UNCHANGED path PROVE PathInv'
  BY <1>1, <1>2 DEF path, PathInv
<1>3. ASSUME UNCHANGED <<segs, flat, built>>, Fits(cursor', segs, flat) PROVE PathInv'
  BY <1>1, <1>3 DEF PathInv, PathOK
<1>4. ASSUME segs # <<>>, NEW c \in Seeks(segs, flat, 1)
      PROVE  Fits(Refreshed(c, segs, flat), segs, flat)
  <2>1. 1 \in 1..Len(segs)
    BY <1>1, <1>4
  <2>2. Fits(c, segs, flat)
    BY <1>1, <1>4, <2>1, SeeksFit
  <2>. QED
    BY <1>1, <2>2, RefreshedFits
<1>5. CASE ComputeNative
  BY <1>5, RebuiltPath DEF ComputeNative
<1>6. CASE InvalidateNative
  BY <1>6, RebuiltPath DEF InvalidateNative
<1>7. CASE CopyNative
  BY <1>7, RebuiltPath DEF CopyNative
<1>8. CASE MoveCursorNative
  <2>1. PICK value \in {-1, 1, GetLength(segs, flat)}, relative \in BOOLEAN :
          cursor' = Moved(cursor, segs, flat, value, relative)
    BY <1>8 DEF MoveCursorNative
  <2>2. value \in Int
    BY <1>1, NoCursorFits
  <2>3. Fits(cursor', segs, flat)
    BY <1>1, <2>1, <2>2, MovedFits
  <2>. QED
    BY <1>3, <1>8, <2>3 DEF MoveCursorNative
<1>9. CASE SeekNative
  <2>1. PICK first \in {1, Max({1, cursor.prior})} : cursor' \in Seeks(segs, flat, first)
    BY <1>9 DEF SeekNative
  <2>2. segs # <<>>
    BY <1>9 DEF SeekNative, IsValid
  <2>3. Max({1, cursor.prior}) = IF 1 >= cursor.prior THEN 1 ELSE cursor.prior
    BY <1>1, MaxOfTwo
  <2>4. first \in 1..Len(segs)
    BY <1>1, <2>2, <2>3
  <2>5. Fits(cursor', segs, flat)
    BY <1>1, <2>1, <2>2, <2>4, SeeksFit
  <2>. QED
    BY <1>3, <1>9, <2>5 DEF SeekNative
<1>10. CASE GetCursorDataNative
  <2>1. Fits(cursor', segs, flat)
    BY <1>1, <1>10, RefreshedFits DEF GetCursorDataNative
  <2>. QED
    BY <1>3, <1>10, <2>1 DEF GetCursorDataNative
<1>11. CASE Destroy \/ Tick \/ Return
  BY <1>2, <1>11 DEF Destroy, Tick, Return
<1>12. CASE Update \/ Start \/ Ladder \/ CheckProgress \/ Heading
  BY <1>2, <1>12 DEF Update, Kept, Start, Ladder, CheckProgress, Heading
<1>13. CASE Climbing \/ JumpOverGaps \/ Landed \/ Fall
  BY <1>2, <1>13 DEF Climbing, JumpOverGaps, Landed, Fall
<1>14. CASE AdjustSpeed
  <2>1. segs # <<>>
    BY <1>14 DEF AdjustSpeed, FollowInv, StageInv
  <2>2. Fits(cursor', segs, flat)
    BY <1>1, <1>4, <1>14, <2>1 DEF AdjustSpeed
  <2>. QED
    BY <1>3, <1>14, <2>2 DEF AdjustSpeed
<1>15. CASE Avoid
  <2>1. segs # <<>>
    BY <1>15 DEF Avoid, FollowInv, StageInv
  <2>2. Fits(cursor', segs, flat)
    BY <1>1, <1>4, <1>15, <2>1 DEF Avoid, LookAlong
  <2>. QED
    BY <1>3, <1>15, <2>2 DEF Avoid
<1>16. CASE Reached
  BY <1>2, <1>16, RebuiltPath DEF Reached, DropOld
<1>17. CASE \E s \in Subjects : ChaseUpdate(s)
  BY <1>2, <1>17 DEF ChaseUpdate
<1>18. CASE DirectChase \/ NoPath
  BY <1>18, RebuiltPath DEF DirectChase, NoPath
<1>19. CASE RefreshOnLadder \/ Refresh
  BY <1>2, <1>19, RebuiltPath DEF RefreshOnLadder, Refresh
<1>20. CASE Repath
  BY <1>2, <1>20, RebuiltPath DEF Repath
<1>. QED
  BY <1>5, <1>6, <1>7, <1>8, <1>9, <1>10, <1>11, <1>12, <1>13, <1>14, <1>15, <1>16,
     <1>17, <1>18, <1>19, <1>20 DEF Next

\* The neighbours of a segment, where the follower looks for them.
LEMMA NeighboursKnown ==
  ASSUME NEW s \in Seq(Segment), NEW i \in Nat
  PROVE  /\ NextSegment(s, i) \in Nat /\ NextSegment(s, i) <= Len(s)
         /\ PriorSegment(s, i) \in Nat /\ PriorSegment(s, i) <= Len(s)
         /\ FirstSegment(s) \in Nat /\ FirstSegment(s) <= Len(s) /\ Len(s) \in Nat
<1>1. Len(s) \in Nat /\ (s # <<>> => Len(s) >= 1)
  BY LastKnown
<1>2. NextSegment(s, i) \in Nat /\ NextSegment(s, i) <= Len(s)
  BY <1>1 DEF NextSegment
<1>3. PriorSegment(s, i) \in Nat /\ PriorSegment(s, i) <= Len(s)
  BY <1>1 DEF PriorSegment
<1>4. FirstSegment(s) \in Nat /\ FirstSegment(s) <= Len(s)
  BY <1>1 DEF FirstSegment
<1>. QED
  BY <1>1, <1>2, <1>3, <1>4

\* Every step leaves the goal on the path, or marked as one of a path that is gone,
\* and remembers only a landing of the path that is there.
LEMMA GoalStays ==
  ASSUME FollowInv, Next, PathInv'
  PROVE  GoalInv'
<1>1. /\ segs \in Seq(Segment) /\ Len(segs) \in Nat /\ Len(segs) <= MaxSegs
      /\ segs' \in Seq(Segment) /\ Len(segs') \in Nat /\ Len(segs') <= MaxSegs /\ MaxSegs \in Nat
  BY MaxSegsOK DEF FollowInv, PathInv, PathOK, Shaped
<1>2. /\ goal \in 0..MaxSegs /\ goal \in Nat /\ landing \in 0..MaxSegs /\ stale \in BOOLEAN
      /\ goal <= Len(segs) \/ stale
      /\ Jumping /\ fresh = None => landing <= Len(segs)
  BY <1>1 DEF FollowInv, GoalInv, GoalOnPath
<1>3. /\ pc = "callback" => after \in Returns
      /\ fresh # None => pc \in {"callback", "reached", "landed"}
  BY DEF FollowInv, StageInv
<1>4. ASSUME goal' \in Nat, goal' <= Len(segs'), stale' \in BOOLEAN, landing' = landing,
             ~Jumping' \/ fresh' # None
      PROVE  GoalInv'
  BY <1>1, <1>2, <1>4 DEF GoalInv, GoalOnPath
<1>5. ASSUME goal' = goal, stale' = stale, segs' = segs,
             landing' = landing, Jumping' /\ fresh' = None => Jumping /\ fresh = None
      PROVE  GoalInv'
  BY <1>1, <1>2, <1>5 DEF GoalInv, GoalOnPath
<1>6. Invalidate => goal' \in Nat /\ goal' <= Len(segs') /\ stale' \in BOOLEAN
  <2> SUFFICES ASSUME Invalidate
               PROVE  goal' \in Nat /\ goal' <= Len(segs') /\ stale' \in BOOLEAN
    OBVIOUS
  <2>1. goal' = 0 /\ stale' = FALSE
    BY DEF Invalidate
  <2>2. 0 <= Len(segs')
    BY <1>1
  <2>. QED
    BY ONLY <2>1, <2>2
<1>7. ASSUME NEW r \in Results, NEW for, NEW started, Compute(r, for, started)
      PROVE  goal' \in Nat /\ goal' <= Len(segs') /\ stale' \in BOOLEAN
  <2>1. segs' = r.segs /\ goal' = FirstSegment(r.segs) /\ stale' = FALSE
    BY <1>7 DEF Compute
  <2>2. FirstSegment(segs') \in Nat /\ FirstSegment(segs') <= Len(segs')
    BY <1>1, NeighboursKnown
  <2>. QED
    BY <2>1, <2>2
<1>8. ASSUME NEW other, Copy(other)
      PROVE  goal' \in Nat /\ goal' <= Len(segs') /\ stale' \in BOOLEAN
  <2>1. segs' = other /\ goal' = FirstSegment(other) /\ stale' = FALSE
    BY <1>8 DEF Copy
  <2>2. FirstSegment(segs') \in Nat /\ FirstSegment(segs') <= Len(segs')
    BY <1>1, NeighboursKnown
  <2>. QED
    BY <2>1, <2>2
<1>9. NextSegment(segs, goal) \in Nat /\ NextSegment(segs, goal) <= Len(segs)
  BY <1>1, <1>2, NeighboursKnown
<1>10. CASE ComputeNative
  <2>1. PICK r \in Results : Compute(r, Plugin, Cleared(timer))
                             /\ Rebuilt(IF r.built = None THEN "other" ELSE r.built)
    BY <1>10 DEF ComputeNative
  <2>2. ~Jumping' \/ fresh' # None
    BY <1>10, <2>1 DEF ComputeNative, Rebuilt, Jumping, MayCall, None
  <2>3. landing' = landing
    BY <1>10 DEF ComputeNative
  <2>. QED
    BY <1>4, <1>7, <2>1, <2>2, <2>3
<1>11. CASE InvalidateNative
  <2>1. ~Jumping' \/ fresh' # None
    BY <1>11 DEF InvalidateNative, Rebuilt, Jumping, MayCall, None
  <2>. QED
    BY <1>4, <1>6, <1>11, <2>1 DEF InvalidateNative
<1>12. CASE CopyNative
  <2>1. ~Jumping' \/ fresh' # None
    BY <1>12 DEF CopyNative, Rebuilt, Jumping, MayCall, None
  <2>. QED
    BY <1>4, <1>8, <1>12, <2>1 DEF CopyNative
<1>13. CASE MoveCursorNative \/ SeekNative \/ GetCursorDataNative \/ Destroy \/ Tick
  BY <1>5, <1>13 DEF MoveCursorNative, SeekNative, GetCursorDataNative, Destroy, Tick, path, Jumping
<1>14. CASE Return
  BY <1>5, <1>14 DEF Return, path, Jumping
<1>15. CASE Update \/ Start \/ AdjustSpeed \/ Avoid \/ \E s \in Subjects : ChaseUpdate(s)
  BY <1>5, <1>15 DEF Update, Kept, Start, AdjustSpeed, Avoid, ChaseUpdate, path, Jumping
<1>16. CASE Ladder
  <2>1. ~Jumping' /\ segs' = segs /\ landing' = landing /\ stale' = stale
    BY <1>16 DEF Ladder, path, Jumping
  <2>2. CASE goal' = goal
    BY <1>5, <2>1, <2>2
  <2>3. CASE \E s \in PriorSegment(segs, goal)..Len(segs) : goal' = s
    <3>1. PriorSegment(segs, goal) \in Nat
      BY <1>1, <1>2, NeighboursKnown
    <3>2. goal' \in Nat /\ goal' <= Len(segs)
      BY <1>1, <2>3, <3>1
    <3>. QED
      BY <1>2, <1>4, <2>1, <3>2
  <2>4. CASE goal' = NextSegment(segs, goal)
    BY <1>2, <1>4, <1>9, <2>1, <2>4
  <2>. QED
    BY <1>16, <2>2, <2>3, <2>4 DEF Ladder
<1>17. CASE CheckProgress
  <2>1. segs' = segs /\ landing' = landing /\ ~Jumping'
    BY <1>17 DEF CheckProgress, path, Jumping, Call
  <2>2. CASE goal' = goal /\ stale' = stale
    BY <1>5, <2>1, <2>2
  <2>3. CASE stale' = FALSE /\ \E g \in {NextSegment(segs, goal)} \cup SkipTo : goal' = g
    <3>1. goal' \in Nat /\ goal' <= Len(segs)
      BY <1>1, <1>2, <1>9, <2>3 DEF SkipTo
    <3>. QED
      BY <1>4, <2>1, <2>3, <3>1
  <2>. QED
    BY <1>17, <2>2, <2>3 DEF CheckProgress
<1>18. CASE Heading \/ Climbing \/ Fall
  BY <1>5, <1>18 DEF Heading, Climbing, KnownLedge, FoundLedge, Fall, path, Jumping, Call
<1>19. CASE JumpOverGaps
  <2>1. segs' = segs /\ goal' = goal /\ stale' = stale
    BY <1>19 DEF JumpOverGaps, path
  <2>2. CASE landing' = landing /\ pc' \in {"fall", "idle"}
    BY <1>5, <2>1, <2>2 DEF Jumping
  <2>3. CASE \E gap \in Gaps : landing' = NextSegment(segs, gap)
    <3>1. PICK gap \in Gaps : landing' = NextSegment(segs, gap)
      BY <2>3
    <3>2. PriorSegment(segs, goal) \in Nat
      BY <1>1, <1>2, NeighboursKnown
    <3>3. gap \in Nat
      BY <1>1, <1>2, <3>2 DEF Gaps
    <3>4. landing' \in Nat /\ landing' <= Len(segs)
      BY <1>1, <3>1, <3>3, NeighboursKnown
    <3>. QED
      BY <1>1, <1>2, <2>1, <3>4 DEF GoalInv, GoalOnPath
  <2>. QED
    BY <1>19, <2>2, <2>3 DEF JumpOverGaps
<1>20. CASE Landed
  <2>1. goal' = landing /\ landing' = 0 /\ segs' = segs /\ Jumping /\ ~Jumping'
    BY <1>20 DEF Landed, path, Jumping
  <2>2. stale' \in BOOLEAN /\ (stale' <=> fresh # None)
    BY <1>20 DEF Landed
  <2>. QED
    BY <1>1, <1>2, <2>1, <2>2 DEF GoalInv, GoalOnPath
<1>21. CASE Reached
  <2>1. ~Jumping' /\ landing' = landing
    BY <1>21 DEF Reached, DropOld, Jumping
  <2>2. Invalidate \/ (goal' = goal /\ stale' = stale /\ segs' = segs)
    BY <1>21 DEF Reached, DropOld, path
  <2>. QED
    BY <1>4, <1>5, <1>6, <2>1, <2>2
<1>22. CASE DirectChase \/ NoPath
  <2>1. ~Jumping' /\ landing' = landing /\ Invalidate
    BY <1>22 DEF DirectChase, NoPath, Jumping
  <2>. QED
    BY <1>4, <1>6, <2>1
<1>23. CASE RefreshOnLadder \/ Refresh
  <2>1. ~Jumping' /\ landing' = landing
    BY <1>23 DEF RefreshOnLadder, Refresh, Jumping
  <2>2. Invalidate \/ (goal' = goal /\ stale' = stale /\ segs' = segs)
    BY <1>23 DEF RefreshOnLadder, Refresh, path
  <2>. QED
    BY <1>4, <1>5, <1>6, <2>1, <2>2
<1>24. CASE Repath
  <2>1. ~Jumping' /\ landing' = landing
    BY <1>24 DEF Repath, Jumping, Call
  <2>2. (\E r \in Results : \E for, started : Compute(r, for, started))
        \/ (goal' = goal /\ stale' = stale /\ segs' = segs)
    BY <1>24 DEF Repath, path
  <2>. QED
    BY <1>4, <1>5, <1>7, <2>1, <2>2
<1>. QED
  BY <1>10, <1>11, <1>12, <1>13, <1>14, <1>15, <1>16, <1>17, <1>18, <1>19, <1>20, <1>21,
     <1>22, <1>23, <1>24 DEF Next

-----------------------------------------------------------------------------
\* Every step goes to a stage that finds what it relies on.
LEMMA StageStays ==
  ASSUME FollowInv, Next, PathInv'
  PROVE  StageInv'
<1> USE DEF Stages, Returns, None
<1>1. StageInv /\ PathInv
  BY DEF FollowInv
<1>2. ASSUME UNCHANGED <<pc, after, aged>>, segs' = segs \/ pc \notin {"ladder", "speed", "avoid"},
             fresh' = fresh \/ fresh' = None
      PROVE  StageInv'
  BY <1>1, <1>2 DEF StageInv
<1>3. ASSUME pc' \in Stages \ {"callback", "ladder", "speed", "avoid"}, after' = after, aged' = aged,
             fresh' = None
      PROVE  StageInv'
  BY <1>1, <1>3 DEF StageInv
<1>4. ASSUME pc' = "callback", after' \in Returns, aged' \in BOOLEAN, fresh' = None
      PROVE  StageInv'
  BY <1>4 DEF StageInv
<1>5. pc \notin {"callback", "reached", "landed"} => fresh = None
  BY <1>1 DEF StageInv
<1>6. CASE ComputeNative
  <2>1. PICK r \in Results : Compute(r, Plugin, Cleared(timer))
                             /\ Rebuilt(IF r.built = None THEN "other" ELSE r.built)
    BY <1>6 DEF ComputeNative
  <2>2. r.built \in {None, "search", "trivial"}
    BY ResultsShaped
  <2>3. aged' \in BOOLEAN /\ (r.built = "search" => aged' = FALSE)
    BY <1>1, <2>1 DEF Compute, StageInv
  <2>4. pc' = pc /\ after' = after /\ pc \in {"idle", "callback"}
    BY <1>6 DEF ComputeNative, MayCall
  <2>5. fresh' = IF pc = "callback" THEN (IF r.built = None THEN "other" ELSE r.built) ELSE None
    BY <2>1 DEF Rebuilt
  <2>. QED
    BY <1>1, <2>2, <2>3, <2>4, <2>5 DEF StageInv
<1>7. CASE InvalidateNative \/ CopyNative
  <2>1. pc' = pc /\ after' = after /\ pc \in {"idle", "callback"} /\ aged' = aged
    BY <1>7 DEF InvalidateNative, CopyNative, Invalidate, Copy, MayCall
  <2>2. fresh' = IF pc = "callback" THEN "other" ELSE None
    BY <1>7 DEF InvalidateNative, CopyNative, Rebuilt
  <2>. QED
    BY <1>1, <2>1, <2>2 DEF StageInv
<1>8. CASE MoveCursorNative \/ SeekNative \/ GetCursorDataNative \/ Destroy
  BY <1>2, <1>8 DEF MoveCursorNative, SeekNative, GetCursorDataNative, Destroy, path
<1>9. CASE Tick
  BY <1>1, <1>5, <1>9 DEF Tick, StageInv
<1>10. CASE Return
  <2>1. pc = "callback" /\ pc' = after /\ after' = "idle" /\ aged' = aged /\ after \in Returns
    BY <1>1, <1>10 DEF Return, StageInv
  <2>2. fresh' = IF after \in {"reached", "landed"} THEN fresh ELSE None
    BY <1>10 DEF Return
  <2>. QED
    BY <1>1, <2>1, <2>2 DEF StageInv
<1>11. CASE Update \/ \E s \in Subjects : ChaseUpdate(s)
  BY <1>3, <1>5, <1>11 DEF Update, Kept, ChaseUpdate
<1>12. CASE Start
  <2>1. pc = "start" /\ segs' = segs /\ after' = after /\ aged' = aged /\ fresh' = fresh /\ pc' \in {"ladder", "idle"}
        /\ (pc' = "ladder" => segs # <<>>)
    BY <1>12 DEF Start, IsValid, path
  <2>. QED
    BY <1>1, <1>5, <2>1 DEF StageInv
<1>13. CASE Ladder
  <2>1. pc = "ladder" /\ segs' = segs /\ after' = after /\ aged' = aged /\ fresh' = fresh
        /\ pc' \in {"idle", "ladder", "speed"}
    BY <1>13 DEF Ladder, path
  <2>. QED
    BY <1>1, <1>5, <2>1 DEF StageInv
<1>14. CASE AdjustSpeed
  BY <1>3, <1>5, <1>14 DEF AdjustSpeed
<1>15. CASE CheckProgress
  <2>1. /\ pc = "progress" /\ aged' = aged
        /\ \/ pc' \in {"crashed", "heading"} /\ after' = after /\ fresh' = fresh
           \/ pc' = "callback" /\ after' = "reached" /\ fresh' = None
    BY <1>15 DEF CheckProgress, Call
  <2>. QED
    BY <1>1, <1>3, <1>4, <1>5, <2>1 DEF StageInv
<1>16. CASE Reached
  <2>1. aged' = aged
    BY <1>16 DEF Reached, DropOld, Invalidate
  <2>. QED
    BY <1>3, <1>16, <2>1 DEF Reached, DropOld
<1>17. CASE Heading
  <2>1. aged' = aged /\ aged \in BOOLEAN
    BY <1>1, <1>17 DEF Heading, StageInv
  <2>. QED
    BY <1>3, <1>4, <1>5, <1>17, <2>1 DEF Heading, Call
<1>18. CASE Climbing
  <2>1. aged' = aged /\ aged \in BOOLEAN
    BY <1>1, <1>18 DEF Climbing, StageInv
  <2>. QED
    BY <1>3, <1>4, <1>5, <1>18, <2>1 DEF Climbing, KnownLedge, FoundLedge, Call
<1>19. CASE JumpOverGaps
  <2>1. aged' = aged /\ aged \in BOOLEAN
    BY <1>1, <1>19 DEF JumpOverGaps, StageInv
  <2>. QED
    BY <1>3, <1>4, <1>5, <1>19, <2>1 DEF JumpOverGaps, Call
<1>20. CASE Landed
  BY <1>3, <1>20 DEF Landed
<1>21. CASE Fall
  <2>1. CASE pc' = "callback"
    <3>1. aged' \in BOOLEAN
      BY <1>1, <1>21 DEF Fall, StageInv
    <3>. QED
      BY <1>4, <1>21, <2>1, <3>1 DEF Fall, Call
  <2>2. CASE pc' # "callback"
    <3>1. pc = "fall" /\ segs' = segs /\ after' = after /\ aged' = aged /\ fresh' = fresh
          /\ pc' \in {"avoid", "idle"} /\ (pc' = "avoid" => segs # <<>>)
      BY <1>21, <2>2 DEF Fall, Call, IsValid, path
    <3>. QED
      BY <1>1, <1>5, <3>1 DEF StageInv
  <2>. QED
    BY <2>1, <2>2
<1>22. CASE Avoid
  BY <1>3, <1>5, <1>22 DEF Avoid
<1>23. CASE DirectChase
  BY <1>2, <1>23 DEF DirectChase, Invalidate
<1>24. CASE NoPath
  BY <1>3, <1>5, <1>24 DEF NoPath, Invalidate
<1>25. CASE RefreshOnLadder \/ Refresh
  <2>1. aged' = aged /\ pc' \in {"start", "repath"}
    BY <1>25 DEF RefreshOnLadder, Refresh, Invalidate
  <2>. QED
    BY <1>3, <1>5, <1>25, <2>1 DEF RefreshOnLadder, Refresh
<1>26. CASE Repath
  <2>1. aged' \in BOOLEAN
    BY <1>1, <1>26 DEF Repath, Compute, StageInv
  <2>2. CASE pc' = "callback"
    BY <1>4, <1>26, <2>1, <2>2 DEF Repath, Call
  <2>3. CASE pc' # "callback"
    <3>1. pc' = "start" /\ after' = after /\ fresh' = None
      BY <1>5, <1>26, <2>3 DEF Repath, Call
    <3>. QED
      BY <1>1, <2>1, <3>1 DEF StageInv
  <2>. QED
    BY <2>2, <2>3
<1>. QED
  BY <1>6, <1>7, <1>8, <1>9, <1>10, <1>11, <1>12, <1>13, <1>14, <1>15, <1>16, <1>17, <1>18,
     <1>19, <1>20, <1>21, <1>22, <1>23, <1>24, <1>25, <1>26 DEF Next

\* Every step leaves the path with the last subject, except that a failed search
\* keeps its partial path until the bot has reacted to it.
LEMMA ChaseStays ==
  ASSUME FollowInv, Next
  PROVE  ChaseInv'
<1>1. ChaseInv /\ (pc = "callback" => after \in Returns)
  BY DEF FollowInv, StageInv
<1>2. /\ leads \in Subjects \cup {None, Plugin} /\ last \in Subjects \cup {None} /\ chased \in Subjects \cup {None}
      /\ segs # <<>> /\ ~Failing => leads \in {last, Plugin}
      /\ pc = "repath" /\ segs # <<>> => leads \in {chased, Plugin}
  BY <1>1 DEF ChaseInv
<1>3. ASSUME segs' = segs, leads' = leads, UNCHANGED chase, ~Failing' => ~Failing,
             pc' = "repath" => pc = "repath"
      PROVE  ChaseInv'
  BY <1>2, <1>3 DEF ChaseInv, chase
<1>4. ASSUME leads' = Plugin, UNCHANGED chase PROVE ChaseInv'
  BY <1>2, <1>4 DEF ChaseInv, chase
<1>5. ASSUME Invalidate, UNCHANGED chase PROVE ChaseInv'
  <2>1. segs' = <<>> /\ leads' = None
    BY <1>5 DEF Invalidate
  <2>. QED
    BY <1>2, <1>5, <2>1 DEF ChaseInv, chase
<1>6. CASE ComputeNative
  BY <1>4, <1>6 DEF ComputeNative, Compute
<1>7. CASE InvalidateNative
  BY <1>5, <1>7 DEF InvalidateNative
<1>8. CASE CopyNative
  BY <1>4, <1>8 DEF CopyNative, Copy
<1>9. CASE MoveCursorNative \/ SeekNative \/ GetCursorDataNative \/ Destroy \/ Tick
  BY <1>3, <1>9 DEF MoveCursorNative, SeekNative, GetCursorDataNative, Destroy, Tick, path, Failing
<1>10. CASE Return
  BY <1>1, <1>3, <1>10 DEF Return, path, Failing, Returns
<1>11. CASE Update \/ Ladder \/ AdjustSpeed \/ Avoid
  BY <1>3, <1>11 DEF Update, Kept, Ladder, AdjustSpeed, Avoid, path, Failing
<1>12. CASE CheckProgress \/ Heading \/ Climbing \/ JumpOverGaps \/ Landed \/ Fall
  BY <1>3, <1>12 DEF CheckProgress, Heading, Climbing, KnownLedge, FoundLedge, JumpOverGaps, Landed,
                     Fall, path, Failing, Call
<1>13. CASE Start
  <2>1. segs' = segs /\ leads' = leads /\ last' = last /\ chased' = None /\ pc = "start"
        /\ pc' \in {"ladder", "idle"}
    BY <1>13 DEF Start, path
  <2>. QED
    BY <1>2, <2>1 DEF ChaseInv, Failing
<1>14. CASE Reached
  <2>1. UNCHANGED chase /\ pc = "reached" /\ pc' = "idle" /\ (Invalidate \/ (segs' = segs /\ leads' = leads))
    BY <1>14 DEF Reached, DropOld, path
  <2>. QED
    BY <1>3, <1>5, <2>1 DEF Failing
<1>15. CASE \E s \in Subjects : ChaseUpdate(s)
  <2>1. PICK s \in Subjects : ChaseUpdate(s)
    BY <1>15
  <2>2. segs' = segs /\ leads' = leads /\ last' = last /\ chased' = s /\ pc = "idle" /\ pc' = "refresh"
    BY <2>1 DEF ChaseUpdate, path
  <2>. QED
    BY <1>2, <2>2 DEF ChaseInv, Failing
<1>16. CASE DirectChase \/ NoPath
  BY <1>5, <1>16 DEF DirectChase, NoPath
<1>17. CASE Refresh
  <2>1. UNCHANGED chase /\ pc = "refresh"
    BY <1>17 DEF Refresh
  <2>2. CASE Invalidate
    BY <1>5, <2>1, <2>2
  <2>3. CASE pc' = "start" /\ segs' = segs /\ leads' = leads
    BY <1>3, <2>1, <2>3 DEF Failing
  <2>4. CASE chased = last /\ pc' = "repath" /\ segs' = segs /\ leads' = leads
    BY <1>2, <2>1, <2>4 DEF ChaseInv, Failing, chase
  <2>. QED
    BY <1>17, <2>2, <2>3, <2>4 DEF Refresh, path
<1>18. CASE Repath
  <2>1. pc = "repath" /\ chased' = chased
    BY <1>18 DEF Repath
  <2>2. CASE pc' = "start" /\ segs' = segs /\ leads' = leads /\ last' = last
    BY <1>3, <2>1, <2>2 DEF Failing, chase
  <2>3. CASE last' = chased /\ pc' = "start" /\ leads' = chased
    BY <1>2, <2>1, <2>3 DEF ChaseInv
  <2>4. CASE pc' = "callback" /\ after' = "noPath" /\ last' = last /\ leads' = chased
    BY <1>2, <2>1, <2>4 DEF ChaseInv, Failing
  <2>. QED
    BY <1>18, <2>2, <2>3, <2>4 DEF Repath, Compute, Call, path
<1>19. CASE RefreshOnLadder
  BY <1>3, <1>19 DEF RefreshOnLadder, path, Failing
<1>. QED
  BY <1>6, <1>7, <1>8, <1>9, <1>10, <1>11, <1>12, <1>13, <1>14, <1>15, <1>16, <1>17, <1>18, <1>19 DEF Next

\* Every step keeps the timers within their bound.
LEMMA TimerStays ==
  ASSUME FollowInv, Next
  PROVE  TimerInv'
<1> DEFINE Names == {"avoid", "wait", "throttle", "fail"}
<1> DEFINE T == 0..Max({2, MaxWait})
<1>1. MaxWait \in Nat /\ MaxWait >= 1
  BY FollowerConstantsOK
<1>2. T \subseteq Nat /\ {0, 1, 2} \subseteq T /\ 0..MaxWait \subseteq T
  BY <1>1, MaxOfTwo
<1>3. timer \in [Names -> T] /\ current \in BOOLEAN /\ alive \in BOOLEAN
  BY DEF FollowInv, TimerInv
<1>4. ASSUME NEW n \in T, n # 0 PROVE n - 1 \in T
  BY <1>1, <1>4, MaxOfTwo
<1> HIDE DEF T, Names
<1>5. ASSUME timer' \in [Names -> T], current' \in BOOLEAN, alive' \in BOOLEAN PROVE TimerInv'
  BY <1>5 DEF TimerInv, T, Names
<1>6. Cleared(timer) \in [Names -> T]
  BY <1>2, <1>3 DEF Cleared
<1>7. ASSUME Invalidate PROVE timer' \in [Names -> T]
  BY <1>6, <1>7 DEF Invalidate
<1>8. CASE ComputeNative \/ InvalidateNative \/ CopyNative
  BY <1>3, <1>5, <1>6, <1>8 DEF ComputeNative, InvalidateNative, CopyNative, Compute, Invalidate, Copy, own
<1>9. CASE MoveCursorNative \/ SeekNative \/ GetCursorDataNative \/ Destroy \/ Return
  BY <1>3, <1>5, <1>9 DEF MoveCursorNative, SeekNative, GetCursorDataNative, Destroy, Return, own
<1>10. CASE Tick
  <2>1. timer' = [t \in Names |-> Max({0, timer[t] - 1})]
    BY <1>3, <1>10 DEF Tick
  <2>2. ASSUME NEW t \in Names PROVE Max({0, timer[t] - 1}) \in T
    <3>1. timer[t] \in T /\ timer[t] \in Nat
      BY <1>2, <1>3
    <3>2. Max({0, timer[t] - 1}) = IF 0 >= timer[t] - 1 THEN 0 ELSE timer[t] - 1
      BY <3>1, MaxOfTwo
    <3>3. CASE timer[t] = 0
      BY <1>2, <3>2, <3>3
    <3>4. CASE timer[t] # 0
      BY <1>2, <1>4, <3>1, <3>2, <3>4
    <3>. QED
      BY <3>3, <3>4
  <2>3. timer' \in [Names -> T]
    BY <2>1, <2>2
  <2>. QED
    BY <1>3, <1>5, <1>10, <2>3 DEF Tick, own
<1>11. CASE Update \/ Start \/ Ladder \/ AdjustSpeed \/ CheckProgress \/ Heading
  BY <1>3, <1>5, <1>11 DEF Update, Kept, Start, Ladder, AdjustSpeed, CheckProgress, Heading, own
<1>12. CASE Climbing \/ JumpOverGaps \/ Landed \/ Fall \/ \E s \in Subjects : ChaseUpdate(s)
  BY <1>3, <1>5, <1>12 DEF Climbing, JumpOverGaps, Landed, Fall, ChaseUpdate, own
<1>13. CASE Reached
  BY <1>3, <1>5, <1>7, <1>13 DEF Reached, DropOld, own
<1>14. CASE Avoid
  <2>1. \/ timer' = timer
        \/ timer' = [timer EXCEPT !["avoid"] = 1]
        \/ \E t \in 1..MaxWait : timer' = [timer EXCEPT !["avoid"] = 1, !["wait"] = t]
        \/ \E t \in 0..1 : timer' = [timer EXCEPT !["avoid"] = t]
    BY <1>14 DEF Avoid
  <2>2. 1..MaxWait \subseteq T /\ 0..1 \subseteq T
    BY <1>1, <1>2
  <2>3. timer' \in [Names -> T]
    BY <1>2, <1>3, <2>1, <2>2
  <2>. QED
    BY <1>3, <1>5, <1>14, <2>3 DEF Avoid, own
<1>15. CASE DirectChase \/ NoPath
  BY <1>3, <1>5, <1>7, <1>15 DEF DirectChase, NoPath, own
<1>18. CASE RefreshOnLadder
  <2>1. timer' \in [Names -> T]
    BY <1>2, <1>3, <1>18 DEF RefreshOnLadder
  <2>. QED
    BY <1>3, <1>5, <1>18, <2>1 DEF RefreshOnLadder, own
<1>16. CASE Refresh
  <2>1. timer' \in [Names -> T]
    BY <1>2, <1>3, <1>7, <1>16 DEF Refresh
  <2>. QED
    BY <1>3, <1>5, <1>16, <2>1 DEF Refresh, own
<1>17. CASE Repath
  <2>1. \/ timer' = timer
        \/ timer' = [Cleared(timer) EXCEPT !["throttle"] = 1]
        \/ \E t \in 0..MaxWait : timer' = [Cleared(timer) EXCEPT !["fail"] = t]
    BY <1>17 DEF Repath, Compute
  <2>2. timer' \in [Names -> T]
    BY <1>2, <1>3, <1>6, <2>1
  <2>. QED
    BY <1>3, <1>5, <1>17, <2>2 DEF Repath, own
<1>. QED
  BY <1>8, <1>9, <1>10, <1>11, <1>12, <1>13, <1>14, <1>15, <1>16, <1>17, <1>18 DEF Next

\* Every step that lets a failed attempt be waited out leaves no path but a plugin's.
LEMMA FailStays ==
  ASSUME FollowInv, Next
  PROVE  FailInv'
<1>1. /\ FailInv
      /\ pc = "callback" => after \in Returns
      /\ timer \in [{"avoid", "wait", "throttle", "fail"} -> 0..Max({2, MaxWait})]
  BY DEF FollowInv, StageInv, TimerInv
<1>2. /\ timer["fail"] # 0 => pc # "repath"
      /\ timer["fail"] # 0 /\ segs # <<>> /\ ~Failing => leads = Plugin
  BY <1>1 DEF FailInv, Elapsed
<1>3. ASSUME timer'["fail"] # 0 => timer["fail"] # 0, pc' # "repath",
             segs' = <<>> \/ leads' = Plugin \/ (segs' = segs /\ leads' = leads /\ (Failing => Failing'))
      PROVE  FailInv'
  BY <1>2, <1>3 DEF FailInv, Elapsed
<1>4. Cleared(timer)["fail"] = timer["fail"]
  BY <1>1 DEF Cleared
<1>5. Invalidate => timer'["fail"] = timer["fail"] /\ segs' = <<>>
  BY <1>4 DEF Invalidate
<1>6. CASE ComputeNative \/ InvalidateNative \/ CopyNative
  <2>1. pc' = pc /\ pc \in {"idle", "callback"} /\ after' = after
    BY <1>6 DEF ComputeNative, InvalidateNative, CopyNative, MayCall
  <2>2. timer'["fail"] = timer["fail"] /\ (segs' = <<>> \/ leads' = Plugin)
    BY <1>4, <1>5, <1>6 DEF ComputeNative, InvalidateNative, CopyNative, Compute, Copy
  <2>. QED
    BY <1>3, <2>1, <2>2
<1>7. CASE MoveCursorNative \/ SeekNative \/ GetCursorDataNative \/ Destroy
  BY <1>3, <1>7 DEF MoveCursorNative, SeekNative, GetCursorDataNative, Destroy, path, Failing
<1>8. CASE Tick
  <2>1. timer'["fail"] = Max({0, timer["fail"] - 1})
    BY <1>1, <1>8 DEF Tick
  <2>2. 2 \in Int /\ MaxWait \in Int
    BY FollowerConstantsOK
  <2>3. timer["fail"] \in Nat
    BY <1>1, <2>2, MaxOfTwo
  <2>4. timer["fail"] = 0 => timer'["fail"] = 0
    BY <2>1, <2>3, MaxOfTwo
  <2>. QED
    BY <1>3, <1>8, <2>4 DEF Tick, path, Failing
<1>9. CASE Return
  <2>1. pc' = after /\ pc = "callback" /\ after \in Returns /\ timer' = timer /\ segs' = segs /\ leads' = leads
    BY <1>1, <1>9 DEF Return, path
  <2>. QED
    BY <1>3, <2>1 DEF Failing, Returns
<1>10. CASE Update \/ Start \/ Ladder \/ AdjustSpeed
  BY <1>3, <1>10 DEF Update, Kept, Start, Ladder, AdjustSpeed, path, Failing
<1>11. CASE CheckProgress \/ Heading \/ Climbing \/ JumpOverGaps \/ Landed \/ Fall
  BY <1>3, <1>11 DEF CheckProgress, Heading, Climbing, KnownLedge, FoundLedge, JumpOverGaps, Landed,
                     Fall, path, Failing, Call
<1>12. CASE Reached
  <2>1. pc = "reached" /\ pc' = "idle"
        /\ (Invalidate \/ (timer' = timer /\ segs' = segs /\ leads' = leads))
    BY <1>12 DEF Reached, DropOld, path
  <2>. QED
    BY <1>3, <1>5, <2>1 DEF Failing
<1>13. CASE Avoid
  <2>1. timer'["fail"] = timer["fail"]
    BY <1>1, <1>13 DEF Avoid
  <2>. QED
    BY <1>3, <1>13, <2>1 DEF Avoid, Failing
<1>14. CASE \E s \in Subjects : ChaseUpdate(s)
  BY <1>3, <1>14 DEF ChaseUpdate, path, Failing
<1>15. CASE DirectChase \/ NoPath
  BY <1>3, <1>5, <1>15 DEF DirectChase, NoPath
<1>16. CASE RefreshOnLadder
  <2>1. timer'["fail"] = timer["fail"]
    BY <1>1, <1>16 DEF RefreshOnLadder
  <2>. QED
    BY <1>3, <1>16, <2>1 DEF RefreshOnLadder, path, Failing
<1>17. CASE Refresh
  <2>1. CASE timer["fail"] # 0
    BY <1>3, <1>17, <2>1 DEF Refresh, Elapsed, path, Failing
  <2>2. CASE timer["fail"] = 0
    <3>1. timer'["fail"] = 0
      BY <1>5, <1>17, <2>2 DEF Refresh
    <3>. QED
      BY <3>1 DEF FailInv, Elapsed
  <2>. QED
    BY <2>1, <2>2
<1>18. CASE Repath
  <2>1. pc = "repath" /\ timer["fail"] = 0
    BY <1>2, <1>18 DEF Repath
  <2>2. CASE pc' = "start"
    <3>1. timer'["fail"] = 0
      BY <1>1, <1>4, <1>18, <2>1, <2>2 DEF Repath, Compute, Call, Cleared
    <3>. QED
      BY <3>1 DEF FailInv, Elapsed
  <2>3. CASE pc' # "start"
    BY <1>18, <2>3 DEF Repath, Call, Failing, FailInv
  <2>. QED
    BY <2>2, <2>3
<1>. QED
  BY <1>6, <1>7, <1>8, <1>9, <1>10, <1>11, <1>12, <1>13, <1>14, <1>15, <1>16, <1>17, <1>18 DEF Next

-----------------------------------------------------------------------------
(***************************************************************************)
(* The theorems.                                                           *)
(***************************************************************************)

\* The invariant holds at first and is kept by every step.
LEMMA FollowInvInductive ==
  /\ Init => FollowInv
  /\ FollowInv /\ [Next]_vars => FollowInv'
<1>1. Init => FollowInv
  <2> SUFFICES ASSUME Init PROVE FollowInv
    OBVIOUS
  <2>1. PathInv
    BY SmallShaped, NoCursorFits DEF Init, PathInv, PathOK
  <2>2. GoalInv
    <3>1. 0 \in 0..MaxSegs
      BY MaxSegsOK
    <3>2. goal = 0 /\ landing = 0 /\ stale = FALSE /\ segs = <<>> /\ pc = "idle"
      BY DEF Init
    <3>3. Len(segs) = 0
      BY <3>2
    <3>4. GoalOnPath
      BY <3>2, <3>3 DEF GoalOnPath
    <3>5. ~Jumping
      BY <3>2 DEF Jumping
    <3>. QED
      BY <3>1, <3>2, <3>4, <3>5 DEF GoalInv
  <2>3. StageInv
    BY DEF Init, StageInv, Stages, Returns, None
  <2>4. ChaseInv
    BY DEF Init, ChaseInv
  <2>5. TimerInv
    <3>1. MaxWait \in Int /\ 2 \in Int
      BY FollowerConstantsOK
    <3>2. 0 \in 0..Max({2, MaxWait})
      BY <3>1, MaxOfTwo
    <3>. QED
      BY <3>2 DEF Init, TimerInv
  <2>6. FailInv
    BY DEF Init, FailInv, Elapsed
  <2>. QED
    BY <2>1, <2>2, <2>3, <2>4, <2>5, <2>6 DEF FollowInv
<1>2. ASSUME FollowInv, [Next]_vars PROVE FollowInv'
  <2>1. CASE Next
    BY <1>2, <2>1, PathStays, GoalStays, StageStays, ChaseStays, TimerStays, FailStays DEF FollowInv
  <2>2. CASE UNCHANGED vars
    BY <1>2, <2>2 DEF vars, path, chase, own, FollowInv, PathInv, GoalInv, GoalOnPath, Jumping,
                      StageInv, ChaseInv, Failing, TimerInv, FailInv, Elapsed
  <2>. QED
    BY <1>2, <2>1, <2>2
<1>. QED
  BY <1>1, <1>2

\* It holds in every state of every behaviour.
LEMMA FollowInvHolds == Spec => []FollowInv
BY FollowInvInductive, PTL DEF Spec

\* Every variable keeps a value of its type.
THEOREM FollowerTypes == Spec => []TypeOK
<1>1. FollowInv => TypeOK
  <2> SUFFICES ASSUME FollowInv PROVE TypeOK
    OBVIOUS
  <2>1. cursor.pos \in Int /\ cursor.prior \in Nat /\ cursor.dirty \in BOOLEAN
    BY DEF FollowInv, PathInv, PathOK, Fits, NoPosition
  <2>. QED
    BY <2>1 DEF FollowInv, PathInv, PathOK, GoalInv, StageInv, ChaseInv, TimerInv, TypeOK
<1>. QED
  BY <1>1, FollowInvHolds, PTL

\* PathConsistent: for every size of m_path, all routes that searches return and
\* whatever plugins do with the path in its callbacks, the segments that
\* ComputePathDetails and InsertSegment leave fit and go together, the cursor data
\* belong to them, and the follower's goal is one of them unless a gap jump's
\* callback rebuilt the path.
THEOREM PathAlwaysConsistent == Spec => []PathConsistent
<1>1. FollowInv => PathConsistent
  <2> SUFFICES ASSUME FollowInv PROVE PathConsistent
    OBVIOUS
  <2>1. PathShape
    BY DEF FollowInv, PathInv, PathOK, Shaped, PathShape
  <2>2. CursorAgrees
    BY DEF FollowInv, PathInv, PathOK, Fits, CursorAgrees, IsValid
  <2>3. GoalOnPath
    BY DEF FollowInv, GoalInv
  <2>. QED
    BY <2>1, <2>2, <2>3 DEF PathConsistent
<1>. QED
  BY <1>1, FollowInvHolds, PTL

\* PathAsSearched: but for a bot on a ladder, however RefreshPath hands over to
\* Update, a path that is there leads to the subject chased now or is one that a plugin
\* computed; and an event at the end of a path that searched for a new one leaves the
\* bot with it.
THEOREM PathAlwaysAsSearched == Spec => PathAsSearched
<1>1. ASSUME FollowInv, [Next]_vars, pc \in {"refresh", "repath", "noPath"}, pc' = "start", segs' # <<>>,
             ~RefreshOnLadder
      PROVE  leads' \in {chased, Plugin}
  <2>1. /\ pc = "repath" /\ segs # <<>> => leads \in {chased, Plugin}
        /\ ~Elapsed("fail") /\ segs # <<>> /\ ~Failing => leads = Plugin
    BY <1>1 DEF FollowInv, ChaseInv, FailInv
  <2>2. Refresh \/ Repath \/ NoPath
    BY <1>1 DEF Next, vars, MayCall, ComputeNative, InvalidateNative, CopyNative, MoveCursorNative, SeekNative,
      GetCursorDataNative, Destroy, Tick, Return, Update, Start, Ladder, AdjustSpeed, CheckProgress, Reached,
      DropOld, Heading, Climbing, JumpOverGaps, Landed, Fall, Avoid, ChaseUpdate, DirectChase
  <2>3. CASE Refresh
    <3>1. ~Elapsed("fail") /\ segs' = segs /\ leads' = leads /\ pc = "refresh"
      BY <1>1, <2>3 DEF Refresh, path
    <3>. QED
      BY <1>1, <2>1, <3>1 DEF Failing
  <2>4. CASE Repath
    <3>1. (pc = "repath" /\ segs' = segs /\ leads' = leads) \/ leads' = chased
      BY <1>1, <2>4 DEF Repath, Compute, Call, path
    <3>. QED
      BY <1>1, <2>1, <3>1
  <2>5. CASE NoPath
    BY <1>1, <2>5 DEF NoPath, Invalidate
  <2>. QED
    BY <2>2, <2>3, <2>4, <2>5
<1>2. ASSUME FollowInv, [Next]_vars, pc = "reached", fresh = "search"
      PROVE  segs' = segs
  <2>1. ~aged
    BY <1>2 DEF FollowInv, StageInv
  <2>2. Reached \/ UNCHANGED vars
    BY <1>2 DEF Next, vars, MayCall, ComputeNative, InvalidateNative, CopyNative, MoveCursorNative, SeekNative,
      GetCursorDataNative, Destroy, Tick, Return, Update, Start, Ladder, AdjustSpeed, CheckProgress,
      Heading, Climbing, JumpOverGaps, Landed, Fall, Avoid, ChaseUpdate, DirectChase, RefreshOnLadder, Refresh, Repath, NoPath
  <2>. QED
    BY <2>1, <2>2 DEF Reached, DropOld, path, vars
<1>3. FollowInv /\ [Next]_vars => (pc' = "start" /\ pc \in {"refresh", "repath", "noPath"} /\ segs' # <<>> =>
                                      leads' \in {chased, Plugin} \/ RefreshOnLadder)
  BY <1>1
<1>4. FollowInv /\ [Next]_vars => (pc = "reached" /\ fresh = "search" => segs' = segs)
  BY <1>2
<1>5. Spec => ChaseSubject
  BY <1>3, FollowInvHolds, PTL DEF Spec, ChaseSubject
<1>6. Spec => SearchedPathKept
  BY <1>4, FollowInvHolds, PTL DEF Spec, SearchedPathKept
<1>. QED
  BY <1>5, <1>6, PTL DEF PathAsSearched
-----------------------------------------------------------------------------
(***************************************************************************)
(* The open list of the searches over the nav mesh.                        *)
(***************************************************************************)

\* The i-th of n areas, none outside of them.
At(s, n, i) == IF i \in 1..n THEN s[i] ELSE NoArea

\* Q links the open areas in the order s, each of them once.
IsList(Q, s, n) ==
  /\ Q \in OpenLists /\ n \in Nat /\ s \in [1..n -> Areas]
  /\ \A i, j \in 1..n : s[i] = s[j] => i = j
  /\ \A a \in Areas : a \in Q.open <=> \E i \in 1..n : s[i] = a
  /\ Q.head = At(s, n, 1)
  /\ \A i \in 1..n : Q.prev[s[i]] = At(s, n, i - 1) /\ Q.next[s[i]] = At(s, n, i + 1)

\* m_openListTail is the last area.
Ends(Q, s, n) == Q.tail = At(s, n, n)

\* g is f but for the value v at a.
Stored(g, f, a, v) ==
  /\ g \in [Areas -> Areas \cup {NoArea}]
  /\ \A x \in Areas : g[x] = IF x = a THEN v ELSE f[x]

\* A store through a pointer, of which the null pointer has no effect.
LEMMA PutIs ==
  ASSUME AreasOK, NEW f \in [Areas -> Areas \cup {NoArea}],
         NEW a \in Areas \cup {NoArea}, NEW v \in Areas \cup {NoArea}
  PROVE  Stored(Put(f, a, v), f, a, v)
BY DEF Put, AreasOK, Stored

\* The i-th area lies in the mesh, and only there.
LEMMA AtKnown ==
  ASSUME AreasOK, NEW n \in Nat, NEW s \in [1..n -> Areas], NEW i \in Int
  PROVE  /\ At(s, n, i) \in Areas \cup {NoArea}
         /\ At(s, n, i) # NoArea <=> i \in 1..n
         /\ i \in 1..n => At(s, n, i) = s[i] /\ At(s, n, i) \in Areas
         /\ i \notin 1..n => At(s, n, i) = NoArea
BY DEF At, AreasOK

-----------------------------------------------------------------------------
\* s with a after the first k.
With(s, n, k, a) == [i \in 1..(n + 1) |-> IF i <= k THEN s[i] ELSE IF i = k + 1 THEN a ELSE s[i - 1]]

\* r is s with a after the first k.
Spliced(r, s, n, k, a) ==
  /\ r \in [1..(n + 1) -> Areas]
  /\ \A i \in 1..(n + 1) : /\ i <= k => i \in 1..n /\ r[i] = s[i]
                           /\ i = k + 1 => r[i] = a
                           /\ i > k + 1 => i - 1 \in 1..n /\ r[i] = s[i - 1]
  /\ \A i \in Int : /\ i <= k => At(r, n + 1, i) = At(s, n, i)
                    /\ i = k + 1 => At(r, n + 1, i) = a
                    /\ i > k + 1 => At(r, n + 1, i) = At(s, n, i - 1)

\* Where the areas of With are.
LEMMA WithIs ==
  ASSUME AreasOK, NEW n \in Nat, NEW s \in [1..n -> Areas], NEW k \in 0..n, NEW a \in Areas
  PROVE  Spliced(With(s, n, k, a), s, n, k, a)
<1> DEFINE r == With(s, n, k, a)
<1>1. \A i \in 1..(n + 1) : /\ i <= k => i \in 1..n
                            /\ ~(i <= k) /\ i # k + 1 => i - 1 \in 1..n
  OBVIOUS
<1>2. r \in [1..(n + 1) -> Areas]
  BY <1>1 DEF With
<1>3. \A i \in 1..(n + 1) : /\ i <= k => i \in 1..n /\ r[i] = s[i]
                            /\ i = k + 1 => r[i] = a
                            /\ i > k + 1 => i - 1 \in 1..n /\ r[i] = s[i - 1]
  BY DEF With
<1> HIDE DEF r
<1>4. ASSUME NEW i \in Int, i <= k PROVE At(r, n + 1, i) = At(s, n, i)
  BY <1>3, <1>4 DEF At
<1>5. ASSUME NEW i \in Int, i = k + 1 PROVE At(r, n + 1, i) = a
  BY <1>3, <1>5 DEF At
<1>6. ASSUME NEW i \in Int, i > k + 1 PROVE At(r, n + 1, i) = At(s, n, i - 1)
  <2>1. i \in 1..(n + 1) <=> i - 1 \in 1..n
    BY <1>6
  <2>. QED
    BY <1>3, <1>6, <2>1 DEF At
<1>. QED
  BY <1>2, <1>3, <1>4, <1>5, <1>6 DEF r, Spliced

\* InsertAfter of the k-th area puts the new one behind it.
LEMMA InsertIs ==
  ASSUME AreasOK, NEW Q, NEW n \in Nat, NEW s \in [1..n -> Areas], IsList(Q, s, n),
         NEW k \in 0..n, NEW a \in Areas, a \notin Q.open
  PROVE  /\ IsList(InsertAfter(Q, a, At(s, n, k), At(s, n, k + 1)), With(s, n, k, a), n + 1)
         /\ Ends(Q, s, n) => Ends(InsertAfter(Q, a, At(s, n, k), At(s, n, k + 1)), With(s, n, k, a), n + 1)
         /\ InsertAfter(Q, a, At(s, n, k), At(s, n, k + 1)).open = Q.open \cup {a}
<1> DEFINE before == At(s, n, k)
           behind == At(s, n, k + 1)
           P == InsertAfter(Q, a, before, behind)
           r == With(s, n, k, a)
<1>1. /\ Q \in OpenLists /\ n \in Nat /\ s \in [1..n -> Areas]
      /\ \A i, j \in 1..n : s[i] = s[j] => i = j
      /\ \A x \in Areas : x \in Q.open <=> \E i \in 1..n : s[i] = x
      /\ Q.head = At(s, n, 1)
      /\ \A i \in 1..n : Q.prev[s[i]] = At(s, n, i - 1) /\ Q.next[s[i]] = At(s, n, i + 1)
  BY DEF IsList
<1>2. /\ before \in Areas \cup {NoArea} /\ behind \in Areas \cup {NoArea}
      /\ before = NoArea <=> k = 0
      /\ behind = NoArea <=> k = n
  BY <1>1, AtKnown
<1>3. Spliced(r, s, n, k, a)
  BY WithIs
<1>4. /\ Q.prev \in [Areas -> Areas \cup {NoArea}] /\ Q.next \in [Areas -> Areas \cup {NoArea}]
      /\ Q.head \in Areas \cup {NoArea} /\ Q.tail \in Areas \cup {NoArea} /\ Q.open \subseteq Areas
      /\ NoArea \notin Areas
  BY <1>1 DEF OpenLists, AreaOrNull, AreasOK
<1> HIDE DEF before, behind
<1>5. /\ Stored(Put(Q.prev, a, before), Q.prev, a, before)
      /\ Stored(Put(Q.next, a, behind), Q.next, a, behind)
  BY <1>2, <1>4, PutIs
<1>6. /\ Stored(Put(Put(Q.prev, a, before), behind, a), Put(Q.prev, a, before), behind, a)
      /\ Stored(Put(Put(Q.next, a, behind), before, a), Put(Q.next, a, behind), before, a)
  <2>1. /\ Put(Q.prev, a, before) \in [Areas -> Areas \cup {NoArea}]
        /\ Put(Q.next, a, behind) \in [Areas -> Areas \cup {NoArea}]
    BY <1>5 DEF Stored
  <2>. QED
    BY <1>2, <2>1, PutIs
<1>7. /\ P \in OpenLists
      /\ P.prev = Put(Put(Q.prev, a, before), behind, a)
      /\ P.next = Put(Put(Q.next, a, behind), before, a)
      /\ P.head = (IF before = NoArea THEN a ELSE Q.head)
      /\ P.tail = (IF behind = NoArea THEN a ELSE Q.tail)
      /\ P.open = Q.open \cup {a}
  <2>1. /\ Put(Put(Q.prev, a, before), behind, a) \in [Areas -> Areas \cup {NoArea}]
        /\ Put(Put(Q.next, a, behind), before, a) \in [Areas -> Areas \cup {NoArea}]
    BY <1>6 DEF Stored
  <2>. QED
    BY <1>1, <2>1 DEF InsertAfter, OpenLists, AreaOrNull
<1> HIDE DEF P, r
<1>8. /\ \A x \in Areas : P.prev[x] = IF x = behind THEN a ELSE IF x = a THEN before ELSE Q.prev[x]
      /\ \A x \in Areas : P.next[x] = IF x = before THEN a ELSE IF x = a THEN behind ELSE Q.next[x]
  BY <1>5, <1>6, <1>7 DEF Stored
<1>9. \A i \in 1..n : /\ s[i] \in Areas /\ s[i] # a
                      /\ s[i] = before <=> i = k
                      /\ s[i] = behind <=> i = k + 1
  BY <1>1, <1>4 DEF At, before, behind
<1>10. before # a /\ behind # a
  BY <1>4, <1>9 DEF At, before, behind
<1>11. ASSUME NEW i \in 1..(n + 1), NEW j \in 1..(n + 1), r[i] = r[j] PROVE i = j
  <2>1. ASSUME NEW h \in 1..(n + 1) PROVE h <= k \/ h = k + 1 \/ h > k + 1
    OBVIOUS
  <2>2. ASSUME NEW h \in 1..(n + 1) PROVE r[h] = a <=> h = k + 1
    BY <1>3, <1>9, <2>1 DEF Spliced
  <2>3. ASSUME NEW h \in 1..(n + 1), h <= k PROVE h \in 1..n /\ r[h] = s[h]
    BY <1>3, <2>3 DEF Spliced
  <2>4. ASSUME NEW h \in 1..(n + 1), h > k + 1 PROVE h - 1 \in 1..n /\ h - 1 > k /\ r[h] = s[h - 1]
    BY <1>3, <2>4 DEF Spliced
  <2>5. CASE i = k + 1
    BY <1>11, <2>2, <2>5
  <2>6. CASE i <= k
    <3>1. i \in 1..n /\ r[i] = s[i] /\ j # k + 1
      BY <1>11, <2>2, <2>3, <2>6
    <3>2. CASE j <= k
      BY <1>1, <1>11, <2>3, <3>1, <3>2
    <3>3. CASE j > k + 1
      <4>1. j - 1 \in 1..n /\ j - 1 > k /\ r[j] = s[j - 1]
        BY <2>4, <3>3
      <4>2. i = j - 1
        BY <1>1, <1>11, <3>1, <4>1
      <4>. QED
        BY <2>6, <4>1, <4>2
    <3>. QED
      BY <2>1, <3>1, <3>2, <3>3
  <2>7. CASE i > k + 1
    <3>1. i - 1 \in 1..n /\ i - 1 > k /\ r[i] = s[i - 1] /\ j # k + 1
      BY <1>11, <2>2, <2>4, <2>7
    <3>2. CASE j <= k
      <4>1. j \in 1..n /\ r[j] = s[j]
        BY <2>3, <3>2
      <4>2. j = i - 1
        BY <1>1, <1>11, <3>1, <4>1
      <4>. QED
        BY <3>1, <3>2, <4>2
    <3>3. CASE j > k + 1
      <4>1. j - 1 \in 1..n /\ r[j] = s[j - 1]
        BY <2>4, <3>3
      <4>2. i - 1 = j - 1
        BY <1>1, <1>11, <3>1, <4>1
      <4>. QED
        BY <4>2
    <3>. QED
      BY <2>1, <3>1, <3>2, <3>3
  <2>. QED
    BY <2>1, <2>5, <2>6, <2>7
<1>12. ASSUME NEW x \in Areas PROVE x \in P.open <=> \E i \in 1..(n + 1) : r[i] = x
  <2>1. ASSUME NEW i \in 1..n, s[i] = x PROVE \E j \in 1..(n + 1) : r[j] = x
    <3>1. CASE i <= k
      <4>1. i \in 1..(n + 1)
        OBVIOUS
      <4>. QED
        BY <1>3, <2>1, <3>1, <4>1 DEF Spliced
    <3>2. CASE i > k
      <4>1. i + 1 \in 1..(n + 1) /\ i + 1 > k + 1 /\ (i + 1) - 1 = i
        BY <3>2
      <4>2. r[i + 1] = s[i]
        BY <1>3, <4>1 DEF Spliced
      <4>. QED
        BY <2>1, <4>1, <4>2
    <3>. QED
      BY <3>1, <3>2
  <2>2. r[k + 1] = a /\ k + 1 \in 1..(n + 1)
    BY <1>3 DEF Spliced
  <2>3. ASSUME NEW i \in 1..(n + 1), r[i] = x, x # a PROVE \E j \in 1..n : s[j] = x
    <3>1. i <= k \/ i = k + 1 \/ i > k + 1
      OBVIOUS
    <3>. QED
      BY <1>3, <2>3, <3>1 DEF Spliced
  <2>. QED
    BY <1>1, <1>7, <2>1, <2>2, <2>3
<1>13. P.head = At(r, n + 1, 1)
  <2>1. CASE k = 0
    BY <1>2, <1>3, <1>7, <2>1 DEF Spliced
  <2>2. CASE k > 0
    BY <1>1, <1>2, <1>3, <1>7, <2>2 DEF Spliced
  <2>. QED
    BY <2>1, <2>2
<1>14. ASSUME NEW i \in 1..(n + 1)
       PROVE  P.prev[r[i]] = At(r, n + 1, i - 1) /\ P.next[r[i]] = At(r, n + 1, i + 1)
  <2>0. /\ i - 1 \in Int /\ i + 1 \in Int
        /\ \A j \in Int : /\ j <= k => At(r, n + 1, j) = At(s, n, j)
                          /\ j = k + 1 => At(r, n + 1, j) = a
                          /\ j > k + 1 => At(r, n + 1, j) = At(s, n, j - 1)
    BY <1>3 DEF Spliced
  <2>1. CASE i = k + 1
    <3>1. r[i] = a /\ P.prev[a] = before /\ P.next[a] = behind
      BY <1>3, <1>8, <1>10, <2>1 DEF Spliced
    <3>2. i - 1 = k /\ i - 1 <= k /\ i + 1 > k + 1 /\ (i + 1) - 1 = k + 1
      BY <2>1
    <3>3. At(r, n + 1, i - 1) = At(s, n, k) /\ At(r, n + 1, i + 1) = At(s, n, k + 1)
      BY <2>0, <3>2
    <3>. QED
      BY <3>1, <3>3 DEF before, behind
  <2>2. CASE i <= k
    <3>1. i \in 1..n /\ r[i] = s[i]
      BY <1>3, <2>2 DEF Spliced
    <3>2. i # k + 1 /\ i - 1 <= k /\ (i + 1 <= k \/ i = k)
      BY <2>2
    <3>3. s[i] # a /\ s[i] \in Areas /\ s[i] # behind /\ (s[i] = before <=> i = k)
      BY <1>9, <3>1, <3>2
    <3>4. P.prev[s[i]] = At(s, n, i - 1) /\ P.next[s[i]] = IF i = k THEN a ELSE At(s, n, i + 1)
      BY <1>1, <1>8, <3>1, <3>3
    <3>5. At(r, n + 1, i - 1) = At(s, n, i - 1) /\ At(r, n + 1, i + 1) = IF i = k THEN a ELSE At(s, n, i + 1)
      <4>1. i = k => i + 1 = k + 1
        OBVIOUS
      <4>2. i # k => i + 1 <= k
        BY <2>2
      <4>. QED
        BY <2>0, <3>2, <4>1, <4>2
    <3>. QED
      BY <3>1, <3>4, <3>5
  <2>3. CASE i > k + 1
    <3>1. i - 1 \in 1..n /\ r[i] = s[i - 1]
      BY <1>3, <2>3 DEF Spliced
    <3>2. i - 1 # k /\ (i - 1 = k + 1 <=> i = k + 2) /\ (i - 1) + 1 = (i + 1) - 1 /\ i + 1 > k + 1
      BY <2>3
    <3>3. s[i - 1] # a /\ s[i - 1] \in Areas /\ s[i - 1] # before /\ (s[i - 1] = behind <=> i = k + 2)
      BY <1>9, <3>1, <3>2
    <3>4. P.next[s[i - 1]] = At(s, n, (i - 1) + 1) /\ P.prev[s[i - 1]] = IF i = k + 2 THEN a ELSE At(s, n, (i - 1) - 1)
      BY <1>1, <1>8, <3>1, <3>3
    <3>5. At(r, n + 1, i + 1) = At(s, n, (i + 1) - 1)
      BY <2>0, <3>2
    <3>6. At(r, n + 1, i - 1) = IF i = k + 2 THEN a ELSE At(s, n, (i - 1) - 1)
      <4>1. i = k + 2 => i - 1 = k + 1
        OBVIOUS
      <4>2. i # k + 2 => i - 1 > k + 1
        BY <2>3
      <4>. QED
        BY <2>0, <4>1, <4>2
    <3>. QED
      BY <3>1, <3>2, <3>4, <3>5, <3>6
  <2>. QED
    BY <2>1, <2>2, <2>3
<1>15. IsList(P, r, n + 1)
  <2>1. r \in [1..(n + 1) -> Areas] /\ n + 1 \in Nat
    BY <1>3 DEF Spliced
  <2>. QED
    BY <1>7, <1>11, <1>12, <1>13, <1>14, <2>1 DEF IsList
<1>16. ASSUME Ends(Q, s, n) PROVE Ends(P, r, n + 1)
  <2>1. CASE k = n
    <3>1. At(r, n + 1, n + 1) = a
      BY <1>3, <2>1 DEF Spliced
    <3>. QED
      BY <1>2, <1>7, <2>1, <3>1 DEF Ends
  <2>2. CASE k # n
    <3>1. n + 1 > k + 1 /\ n + 1 \in Int /\ (n + 1) - 1 = n
      BY <2>2
    <3>2. At(r, n + 1, n + 1) = At(s, n, n)
      BY <1>3, <3>1 DEF Spliced
    <3>. QED
      BY <1>2, <1>7, <1>16, <2>2, <3>2 DEF Ends
  <2>. QED
    BY <2>1, <2>2
<1>. QED
  BY <1>7, <1>15, <1>16 DEF P, r, before, behind

-----------------------------------------------------------------------------
\* s without its first area.
Rest(s, n) == [i \in 1..(n - 1) |-> s[i + 1]]

\* PopOpenList takes the first area off the list.
LEMMA PopIs ==
  ASSUME AreasOK, NEW Q, NEW n \in Nat, NEW s \in [1..n -> Areas], IsList(Q, s, n), n # 0
  PROVE  /\ IsList(PopOpenList(Q), Rest(s, n), n - 1)
         /\ Ends(Q, s, n) => Ends(PopOpenList(Q), Rest(s, n), n - 1)
         /\ PopOpenList(Q).open = Q.open \ {Q.head}
<1> DEFINE a == Q.head
           behind == Q.next[a]
           P == PopOpenList(Q)
           r == Rest(s, n)
<1>1. /\ Q \in OpenLists
      /\ \A i, j \in 1..n : s[i] = s[j] => i = j
      /\ \A x \in Areas : x \in Q.open <=> \E i \in 1..n : s[i] = x
      /\ Q.head = At(s, n, 1)
      /\ \A i \in 1..n : Q.prev[s[i]] = At(s, n, i - 1) /\ Q.next[s[i]] = At(s, n, i + 1)
  BY DEF IsList
<1>2. /\ Q.prev \in [Areas -> Areas \cup {NoArea}] /\ Q.next \in [Areas -> Areas \cup {NoArea}]
      /\ Q.head \in Areas \cup {NoArea} /\ Q.tail \in Areas \cup {NoArea} /\ Q.open \subseteq Areas
      /\ NoArea \notin Areas
  BY <1>1 DEF OpenLists, AreaOrNull, AreasOK
<1>3. /\ 1 \in 1..n /\ a = s[1] /\ a \in Areas
      /\ Q.prev[a] = NoArea /\ behind = At(s, n, 2) /\ behind \in Areas \cup {NoArea}
      /\ behind = NoArea <=> n = 1
  <2>1. 1 \in 1..n /\ 1 - 1 = 0 /\ 1 + 1 = 2 /\ 0 \notin 1..n /\ 2 \in Int /\ (2 \notin 1..n <=> n = 1)
    OBVIOUS
  <2>2. a = s[1] /\ a \in Areas
    BY <1>1, <2>1 DEF At
  <2>3. Q.prev[a] = At(s, n, 0) /\ behind = At(s, n, 2)
    BY <1>1, <2>1, <2>2
  <2>4. At(s, n, 2) \in Areas \cup {NoArea} /\ (At(s, n, 2) # NoArea <=> 2 \in 1..n)
    BY <2>1, AtKnown
  <2>. QED
    BY <2>1, <2>2, <2>3, <2>4 DEF At
<1> HIDE DEF a, behind
<1>4. /\ Stored(Put(Q.prev, behind, NoArea), Q.prev, behind, NoArea)
      /\ Stored(Put(Put(Q.prev, behind, NoArea), a, NoArea), Put(Q.prev, behind, NoArea), a, NoArea)
      /\ Stored(Put(Q.next, a, NoArea), Q.next, a, NoArea)
  <2>1. Stored(Put(Q.prev, behind, NoArea), Q.prev, behind, NoArea)
    BY <1>2, <1>3, PutIs
  <2>2. Put(Q.prev, behind, NoArea) \in [Areas -> Areas \cup {NoArea}]
    BY <2>1 DEF Stored
  <2>. QED
    BY <1>2, <1>3, <2>1, <2>2, PutIs
<1>5. /\ P \in OpenLists
      /\ P.prev = Put(Put(Q.prev, behind, NoArea), a, NoArea)
      /\ P.next = Put(Q.next, a, NoArea)
      /\ P.head = behind
      /\ P.tail = (IF behind = NoArea THEN NoArea ELSE Q.tail)
      /\ P.open = Q.open \ {a}
  <2>1. /\ Put(Put(Q.prev, behind, NoArea), a, NoArea) \in [Areas -> Areas \cup {NoArea}]
        /\ Put(Q.next, a, NoArea) \in [Areas -> Areas \cup {NoArea}]
    BY <1>4 DEF Stored
  <2>2. P = [Q EXCEPT !.head = behind,
                      !.tail = IF behind = NoArea THEN NoArea ELSE @,
                      !.prev = Put(Put(@, behind, NoArea), a, NoArea),
                      !.next = Put(@, a, NoArea), !.open = @ \ {a}]
    BY <1>3 DEF PopOpenList, a, behind
  <2> HIDE DEF P
  <2>. QED
    BY <1>1, <1>2, <1>3, <2>1, <2>2 DEF OpenLists, AreaOrNull
<1> HIDE DEF P
<1>6. /\ \A x \in Areas : P.prev[x] = IF x = a \/ x = behind THEN NoArea ELSE Q.prev[x]
      /\ \A x \in Areas : P.next[x] = IF x = a THEN NoArea ELSE Q.next[x]
  BY <1>2, <1>3, <1>4, <1>5 DEF Stored
<1>7. /\ n - 1 \in Nat /\ r \in [1..(n - 1) -> Areas]
      /\ \A i \in 1..(n - 1) : i + 1 \in 1..n /\ r[i] = s[i + 1] /\ s[i + 1] # a
                               /\ (s[i + 1] = behind <=> i = 1)
  <2>1. \A i \in 1..(n - 1) : i + 1 \in 1..n /\ i + 1 # 1 /\ (i + 1 = 2 <=> i = 1)
    OBVIOUS
  <2>2. r \in [1..(n - 1) -> Areas] /\ \A i \in 1..(n - 1) : r[i] = s[i + 1]
    BY <2>1 DEF Rest
  <2>3. ASSUME NEW i \in 1..(n - 1) PROVE s[i + 1] # a /\ (s[i + 1] = behind <=> i = 1)
    <3>1. i + 1 \in 1..n /\ i + 1 # 1 /\ (i + 1 = 2 <=> i = 1) /\ s[i + 1] \in Areas
      BY <2>1
    <3>2. s[i + 1] # a
      BY <1>1, <1>3, <3>1
    <3>3. 2 \in 1..n /\ behind = s[2]
      BY <1>3 DEF At
    <3>. QED
      BY <1>1, <3>1, <3>2, <3>3
  <2>. QED
    BY <2>1, <2>2, <2>3
<1> HIDE DEF r
<1>8. ASSUME NEW i \in Int, i >= 1 PROVE At(r, n - 1, i) = At(s, n, i + 1)
  <2>1. i \in 1..(n - 1) <=> i + 1 \in 1..n
    BY <1>8
  <2>. QED
    BY <1>7, <2>1 DEF At
<1>9. At(r, n - 1, 0) = NoArea
  BY DEF At
<1>10. ASSUME NEW i \in 1..(n - 1), NEW j \in 1..(n - 1), r[i] = r[j] PROVE i = j
  <2>1. i + 1 \in 1..n /\ j + 1 \in 1..n /\ s[i + 1] = s[j + 1]
    BY <1>7, <1>10
  <2>2. i + 1 = j + 1
    BY <1>1, <2>1
  <2>. QED
    BY <2>2
<1>11. ASSUME NEW x \in Areas PROVE x \in P.open <=> \E i \in 1..(n - 1) : r[i] = x
  <2>1. ASSUME NEW i \in 1..n, s[i] = x, x # a PROVE \E j \in 1..(n - 1) : r[j] = x
    <3>1. i # 1
      BY <1>3, <2>1
    <3>2. i - 1 \in 1..(n - 1) /\ (i - 1) + 1 = i
      BY <3>1
    <3>. QED
      BY <1>7, <2>1, <3>2
  <2>2. ASSUME NEW j \in 1..(n - 1), r[j] = x PROVE x # a /\ \E i \in 1..n : s[i] = x
    BY <1>7, <2>2
  <2>. QED
    BY <1>1, <1>5, <2>1, <2>2
<1>12. P.head = At(r, n - 1, 1)
  BY <1>3, <1>5, <1>8
<1>13. ASSUME NEW i \in 1..(n - 1)
       PROVE  P.prev[r[i]] = At(r, n - 1, i - 1) /\ P.next[r[i]] = At(r, n - 1, i + 1)
  <2>1. /\ i + 1 \in 1..n /\ r[i] = s[i + 1] /\ s[i + 1] # a /\ s[i + 1] \in Areas
        /\ s[i + 1] = behind <=> i = 1
    BY <1>7
  <2>2. P.next[r[i]] = At(s, n, (i + 1) + 1) /\ P.prev[r[i]] = IF i = 1 THEN NoArea ELSE At(s, n, (i + 1) - 1)
    BY <1>1, <1>6, <2>1
  <2>3. i + 1 \in Int /\ i + 1 >= 1 /\ i - 1 \in Int /\ (i # 1 => i - 1 >= 1) /\ (i - 1) + 1 = (i + 1) - 1
        /\ (i = 1 => i - 1 = 0)
    OBVIOUS
  <2>. QED
    BY <1>8, <1>9, <2>2, <2>3
<1>14. IsList(P, r, n - 1)
  BY <1>5, <1>7, <1>10, <1>11, <1>12, <1>13 DEF IsList
<1>15. ASSUME Ends(Q, s, n) PROVE Ends(P, r, n - 1)
  <2>1. CASE n = 1
    <3>1. n - 1 = 0
      BY <2>1
    <3>. QED
      BY <1>3, <1>5, <1>9, <2>1, <3>1 DEF Ends
  <2>2. CASE n # 1
    <3>1. n - 1 \in Int /\ n - 1 >= 1 /\ (n - 1) + 1 = n
      BY <2>2
    <3>2. At(r, n - 1, n - 1) = At(s, n, n)
      BY <1>8, <3>1
    <3>. QED
      BY <1>3, <1>5, <1>15, <2>2, <3>2 DEF Ends
  <2>. QED
    BY <2>1, <2>2
<1>. QED
  BY <1>5, <1>14, <1>15 DEF P, r, a

-----------------------------------------------------------------------------
\* s with the k-th area and the one before it in each other's place.
Swapped(s, n, k) == [i \in 1..n |-> IF i = k - 1 THEN s[k] ELSE IF i = k THEN s[k - 1] ELSE s[i]]

\* A round of UpdateOnOpenList moves the area before its predecessor.
LEMMA SwapIs ==
  ASSUME AreasOK, NEW Q, NEW n \in Nat, NEW s \in [1..n -> Areas], IsList(Q, s, n), NEW k \in 2..n
  PROVE  /\ IsList(SwapUp(Q, s[k]), Swapped(s, n, k), n)
         /\ SwapUp(Q, s[k]).open = Q.open
<1> DEFINE a == s[k]
           other == s[k - 1]
           beyond == At(s, n, k - 2)
           behind == At(s, n, k + 1)
           P == SwapUp(Q, a)
           r == Swapped(s, n, k)
<1>1. /\ Q \in OpenLists
      /\ \A i, j \in 1..n : s[i] = s[j] => i = j
      /\ \A x \in Areas : x \in Q.open <=> \E i \in 1..n : s[i] = x
      /\ Q.head = At(s, n, 1)
      /\ \A i \in 1..n : Q.prev[s[i]] = At(s, n, i - 1) /\ Q.next[s[i]] = At(s, n, i + 1)
  BY DEF IsList
<1>2. /\ Q.prev \in [Areas -> Areas \cup {NoArea}] /\ Q.next \in [Areas -> Areas \cup {NoArea}]
      /\ Q.head \in Areas \cup {NoArea} /\ Q.tail \in Areas \cup {NoArea} /\ Q.open \subseteq Areas
      /\ NoArea \notin Areas
  BY <1>1 DEF OpenLists, AreaOrNull, AreasOK
<1>3. /\ k \in 1..n /\ k - 1 \in 1..n /\ k - 2 \in Int /\ k + 1 \in Int /\ k \in Int /\ k - 1 \in Int
      /\ a \in Areas /\ other \in Areas
  OBVIOUS
<1>4. Q.prev[a] = other /\ Q.prev[other] = beyond /\ Q.next[a] = behind
  <2>1. (k - 1) - 1 = k - 2
    OBVIOUS
  <2>. QED
    BY <1>1, <1>3, <2>1 DEF At
<1>5. /\ beyond \in Areas \cup {NoArea} /\ behind \in Areas \cup {NoArea}
      /\ beyond = NoArea <=> k = 2
      /\ behind = NoArea <=> k = n
  <2>1. (k - 2 \notin 1..n <=> k = 2) /\ (k + 1 \notin 1..n <=> k = n)
    OBVIOUS
  <2>. QED
    BY <1>3, <2>1, AtKnown
<1>6. /\ r \in [1..n -> Areas]
      /\ \A i \in 1..n : r[i] = IF i = k - 1 THEN a ELSE IF i = k THEN other ELSE s[i]
      /\ \A i \in Int : At(r, n, i) = IF i = k - 1 THEN a ELSE IF i = k THEN other ELSE At(s, n, i)
  <2>1. r \in [1..n -> Areas] /\ \A i \in 1..n : r[i] = IF i = k - 1 THEN a ELSE IF i = k THEN other ELSE s[i]
    BY <1>3 DEF Swapped
  <2> HIDE DEF r, a, other
  <2>. QED
    BY <1>3, <2>1 DEF At
<1> DEFINE next1 == Put(Q.next, a, other)
           next2 == Put(next1, other, behind)
           next3 == Put(next2, beyond, a)
           prev1 == Put(Q.prev, a, beyond)
           prev2 == Put(prev1, other, a)
           prev3 == Put(prev2, behind, other)
<1>7. P = [Q EXCEPT !.head = IF beyond = NoArea THEN a ELSE @,
                    !.tail = IF behind = NoArea THEN a ELSE @,
                    !.next = next3, !.prev = prev3]
  BY <1>4 DEF SwapUp
<1> HIDE DEF a, other, beyond, behind, r
<1>8. /\ Stored(next1, Q.next, a, other) /\ Stored(prev1, Q.prev, a, beyond)
  BY <1>2, <1>3, <1>5, PutIs
<1>9. next1 \in [Areas -> Areas \cup {NoArea}] /\ prev1 \in [Areas -> Areas \cup {NoArea}]
  BY <1>8 DEF Stored
<1> HIDE DEF next1, prev1
<1>10. Stored(next2, next1, other, behind) /\ Stored(prev2, prev1, other, a)
  BY <1>3, <1>5, <1>9, PutIs
<1>11. next2 \in [Areas -> Areas \cup {NoArea}] /\ prev2 \in [Areas -> Areas \cup {NoArea}]
  BY <1>10 DEF Stored
<1> HIDE DEF next2, prev2
<1>12. Stored(next3, next2, beyond, a) /\ Stored(prev3, prev2, behind, other)
  BY <1>3, <1>5, <1>11, PutIs
<1>13. next3 \in [Areas -> Areas \cup {NoArea}] /\ prev3 \in [Areas -> Areas \cup {NoArea}]
  BY <1>12 DEF Stored
<1> HIDE DEF next3, prev3
<1>14. /\ P \in OpenLists
       /\ P.head = (IF beyond = NoArea THEN a ELSE Q.head)
       /\ P.next = next3 /\ P.prev = prev3 /\ P.open = Q.open
  <2> HIDE DEF P
  <2>. QED
    BY <1>1, <1>2, <1>3, <1>7, <1>13 DEF OpenLists, AreaOrNull
<1> HIDE DEF P
<1>15. /\ \A x \in Areas : P.next[x] = IF x = beyond THEN a ELSE IF x = other THEN behind
                                       ELSE IF x = a THEN other ELSE Q.next[x]
       /\ \A x \in Areas : P.prev[x] = IF x = behind THEN other ELSE IF x = other THEN a
                                       ELSE IF x = a THEN beyond ELSE Q.prev[x]
  BY <1>8, <1>10, <1>12, <1>14 DEF Stored
<1>16. \A i \in 1..n : /\ s[i] \in Areas
                       /\ s[i] = a <=> i = k
                       /\ s[i] = other <=> i = k - 1
                       /\ s[i] = beyond <=> i = k - 2
                       /\ s[i] = behind <=> i = k + 1
  <2>1. \A i \in 1..n : s[i] \in Areas /\ (s[i] = a <=> i = k) /\ (s[i] = other <=> i = k - 1)
    BY <1>1, <1>3 DEF a, other
  <2>2. \A i \in 1..n : (s[i] = beyond <=> i = k - 2) /\ (s[i] = behind <=> i = k + 1)
    BY <1>1, <1>2, <1>3 DEF beyond, behind, At
  <2>. QED
    BY <2>1, <2>2
<1>17. a # other /\ beyond # a /\ beyond # other /\ behind # a /\ behind # other /\ (beyond = behind => beyond = NoArea)
  <2>1. a # other
    BY <1>3, <1>16 DEF a, other
  <2>2. beyond # a /\ beyond # other /\ behind # a /\ behind # other
    BY <1>2, <1>3, <1>16 DEF beyond, behind, At
  <2>3. beyond = behind => beyond = NoArea
    BY <1>2, <1>3, <1>16 DEF beyond, behind, At
  <2>. QED
    BY <2>1, <2>2, <2>3
<1>18. ASSUME NEW i \in 1..n, NEW j \in 1..n, r[i] = r[j] PROVE i = j
  <2>1. ASSUME NEW h \in 1..n
        PROVE  /\ r[h] = a <=> h = k - 1
               /\ r[h] = other <=> h = k
               /\ h # k - 1 /\ h # k => r[h] = s[h]
    BY <1>3, <1>6, <1>16, <1>17
  <2>. QED
    BY <1>1, <1>18, <2>1
<1>19. ASSUME NEW x \in Areas PROVE x \in P.open <=> \E i \in 1..n : r[i] = x
  <2>1. ASSUME NEW i \in 1..n PROVE \E j \in 1..n : r[j] = s[i]
    <3>1. CASE i = k
      <4>1. r[k - 1] = s[i]
        BY <1>3, <1>6, <3>1 DEF a
      <4>. QED
        BY <1>3, <4>1
    <3>2. CASE i = k - 1
      <4>1. k # k - 1
        OBVIOUS
      <4>2. r[k] = s[i]
        BY <1>3, <1>6, <3>2, <4>1 DEF other
      <4>. QED
        BY <1>3, <4>2
    <3>3. CASE i # k /\ i # k - 1
      BY <1>6, <3>3
    <3>. QED
      BY <3>1, <3>2, <3>3
  <2>2. ASSUME NEW j \in 1..n PROVE \E i \in 1..n : s[i] = r[j]
    BY <1>3, <1>6 DEF a, other
  <2>3. x \in Q.open <=> \E i \in 1..n : s[i] = x
    BY <1>1
  <2>4. (\E i \in 1..n : s[i] = x) => \E j \in 1..n : r[j] = x
    BY <2>1
  <2>5. (\E j \in 1..n : r[j] = x) => \E i \in 1..n : s[i] = x
    BY <2>2
  <2>. QED
    BY <1>14, <2>3, <2>4, <2>5
<1>20. P.head = At(r, n, 1)
  <2>1. CASE k = 2
    <3>1. 1 = k - 1
      BY <2>1
    <3>. QED
      BY <1>5, <1>6, <1>14, <2>1, <3>1
  <2>2. CASE k # 2
    <3>1. 1 # k - 1 /\ 1 # k
      BY <2>2
    <3>. QED
      BY <1>1, <1>5, <1>6, <1>14, <2>2, <3>1
  <2>. QED
    BY <2>1, <2>2
<1>21. ASSUME NEW i \in 1..n
       PROVE  P.prev[r[i]] = At(r, n, i - 1) /\ P.next[r[i]] = At(r, n, i + 1)
  <2>0. i - 1 \in Int /\ i + 1 \in Int
    OBVIOUS
  <2>1. CASE i = k - 1
    <3>1. r[i] = a /\ P.prev[a] = beyond /\ P.next[a] = other
      BY <1>3, <1>6, <1>15, <1>17, <2>1
    <3>2. i - 1 = k - 2 /\ i - 1 # k - 1 /\ i - 1 # k /\ i + 1 = k /\ i + 1 # k - 1
      BY <2>1
    <3>3. At(r, n, i - 1) = At(s, n, k - 2) /\ At(r, n, i + 1) = other
      BY <1>6, <2>0, <3>2
    <3>. QED
      BY <3>1, <3>3 DEF beyond
  <2>2. CASE i = k
    <3>1. r[i] = other /\ P.prev[other] = a /\ P.next[other] = behind
      <4>1. i # k - 1
        BY <2>2
      <4>. QED
        BY <1>3, <1>6, <1>15, <1>17, <2>2, <4>1
    <3>2. i - 1 = k - 1 /\ i + 1 = k + 1 /\ i + 1 # k - 1 /\ i + 1 # k
      BY <2>2
    <3>3. At(r, n, i - 1) = a /\ At(r, n, i + 1) = At(s, n, k + 1)
      BY <1>6, <2>0, <3>2
    <3>. QED
      BY <3>1, <3>3 DEF behind
  <2>3. CASE i # k /\ i # k - 1
    <3>1. /\ r[i] = s[i] /\ s[i] \in Areas /\ s[i] # a /\ s[i] # other
          /\ s[i] = beyond <=> i = k - 2
          /\ s[i] = behind <=> i = k + 1
      BY <1>6, <1>16, <2>3
    <3>2. /\ P.next[r[i]] = IF i = k - 2 THEN a ELSE At(s, n, i + 1)
          /\ P.prev[r[i]] = IF i = k + 1 THEN other ELSE At(s, n, i - 1)
      BY <1>1, <1>15, <3>1
    <3>3. /\ (i = k - 2 <=> i + 1 = k - 1) /\ i + 1 # k
          /\ (i = k + 1 <=> i - 1 = k) /\ i - 1 # k - 1
      BY <2>3
    <3>4. /\ At(r, n, i + 1) = IF i = k - 2 THEN a ELSE At(s, n, i + 1)
          /\ At(r, n, i - 1) = IF i = k + 1 THEN other ELSE At(s, n, i - 1)
      <4>1. i + 1 # k /\ (i + 1 = k - 1 <=> i = k - 2)
        BY <3>3
      <4>2. i - 1 # k - 1 /\ (i - 1 = k <=> i = k + 1)
        BY <3>3
      <4>3. At(r, n, i + 1) = IF i + 1 = k - 1 THEN a ELSE IF i + 1 = k THEN other ELSE At(s, n, i + 1)
        BY <1>6, <2>0
      <4>4. At(r, n, i - 1) = IF i - 1 = k - 1 THEN a ELSE IF i - 1 = k THEN other ELSE At(s, n, i - 1)
        BY <1>6, <2>0
      <4>. QED
        BY <4>1, <4>2, <4>3, <4>4
    <3>. QED
      BY <3>2, <3>4
  <2>. QED
    BY <2>1, <2>2, <2>3
<1>22. IsList(P, r, n)
  BY <1>6, <1>14, <1>18, <1>19, <1>20, <1>21 DEF IsList
<1>. QED
  BY <1>14, <1>22 DEF P, r, a

-----------------------------------------------------------------------------
\* A proper list has no more areas than the mesh, and one for each that is open.
LEMMA SizeIs ==
  ASSUME AreasOK, NEW Q, NEW n \in Nat, NEW s \in [1..n -> Areas], IsList(Q, s, n)
  PROVE  /\ Cardinality(Areas) \in Nat /\ n <= Cardinality(Areas)
         /\ Cardinality(Q.open) = n
<1>2. IsFiniteSet(Areas)
  BY DEF AreasOK
<1>3. IsFiniteSet(1..n) /\ Cardinality(1..n) = n
  BY FS_Interval
<1>4. s \in Injection(1..n, Areas)
  <2>1. \A i, j \in 1..n : s[i] = s[j] => i = j
    BY DEF IsList
  <2>. QED
    BY <2>1 DEF Injection, IsInjective
<1>5. Cardinality(1..n) <= Cardinality(Areas) /\ Cardinality(Areas) \in Nat
  BY <1>2, <1>4, FS_Injection, FS_CardinalityType
<1>6. Cardinality(Q.open) = n
  <2>1. Q.open \subseteq Areas /\ \A x \in Areas : x \in Q.open <=> \E i \in 1..n : s[i] = x
    BY DEF IsList, OpenLists
  <2>2. s \in [1..n -> Q.open]
    BY <2>1
  <2>3. s \in Bijection(1..n, Q.open)
    <3>1. s \in Injection(1..n, Q.open)
      BY <1>4, <2>2 DEF Injection, IsInjective
    <3>2. s \in Surjection(1..n, Q.open)
      BY <2>1, <2>2 DEF Surjection
    <3>. QED
      BY <3>1, <3>2 DEF Bijection
  <2>4. ExistsBijection(1..n, Q.open)
    BY <2>3 DEF ExistsBijection
  <2>. QED
    BY <2>4, FS_CountingElements
<1>. QED
  BY <1>3, <1>5, <1>6

\* The first m areas of s.
Begins(q, s, m) == q \in Seq(Areas) /\ Len(q) = m /\ \A j \in 1..m : q[j] = s[j]

\* One link further.
LEMMA FollowIs ==
  ASSUME AreasOK, NEW Q, NEW n \in Nat, NEW s \in [1..n -> Areas], IsList(Q, s, n),
         NEW i \in Nat, NEW q, Begins(q, s, IF i <= n THEN i ELSE n), i # 0
  PROVE  Begins(Follow(Q, q), s, IF i + 1 <= n THEN i + 1 ELSE n)
<1> DEFINE m == IF i <= n THEN i ELSE n
<1>1. m \in Nat /\ m <= n /\ q \in Seq(Areas) /\ Len(q) = m /\ \A j \in 1..m : q[j] = s[j]
  BY DEF Begins
<1>2. CASE m = 0
  <2>1. q = <<>> /\ n = 0
    BY <1>1, <1>2, EmptySeq
  <2>. QED
    BY <1>1, <2>1 DEF Follow, Begins
<1>3. CASE m # 0
  <2>1. m \in 1..m /\ m \in 1..n /\ q # <<>> /\ Last(q) = s[m]
    BY <1>1, <1>3 DEF Last
  <2>2. Q.next[Last(q)] = At(s, n, m + 1)
    BY <2>1 DEF IsList
  <2>3. CASE m = n
    <3>1. m + 1 \notin 1..n
      BY <2>3
    <3>2. Follow(Q, q) = q
      BY <2>2, <3>1 DEF Follow, At
    <3>. QED
      BY <1>1, <2>3, <3>2 DEF Begins
  <2>4. CASE m # n
    <3>1. m = i /\ i + 1 <= n /\ m + 1 \in 1..n
      BY <1>1, <2>4
    <3>2. Q.next[Last(q)] = s[i + 1] /\ s[i + 1] \in Areas /\ s[i + 1] # NoArea
      BY <2>2, <3>1 DEF At, AreasOK
    <3>3. Follow(Q, q) = Append(q, s[i + 1])
      BY <2>1, <3>2 DEF Follow
    <3>4. /\ Append(q, s[i + 1]) \in Seq(Areas) /\ Len(Append(q, s[i + 1])) = i + 1
          /\ \A j \in 1..i : Append(q, s[i + 1])[j] = q[j]
          /\ Append(q, s[i + 1])[i + 1] = s[i + 1]
      <4>1. Len(q) = i
        BY <1>1, <3>1
      <4>. QED
        BY <1>1, <3>2, <4>1, AppendKnown
    <3>5. ASSUME NEW j \in 1..(i + 1) PROVE Append(q, s[i + 1])[j] = s[j]
      <4>1. j \in 1..i \/ j = i + 1
        OBVIOUS
      <4>. QED
        BY <1>1, <3>1, <3>4, <4>1
    <3>. QED
      BY <3>1, <3>3, <3>4, <3>5 DEF Begins
  <2>. QED
    BY <2>3, <2>4
<1>. QED
  BY <1>2, <1>3

\* Listed finds the areas in their order.
LEMMA ListedIs ==
  ASSUME AreasOK, NEW Q, NEW n \in Nat, NEW s \in [1..n -> Areas], IsList(Q, s, n)
  PROVE  Listed(Q) = s /\ Len(s) = n
<1> DEFINE c == Cardinality(Areas)
           first == IF Q.head = NoArea THEN <<>> ELSE <<Q.head>>
           Unfolds(h) == h = [i \in 0..c |-> IF i = 0 THEN first ELSE Follow(Q, h[i - 1])]
           F == [p \in Seq(Areas) \X (1..c) |-> Follow(Q, p[1])]
<1>1. c \in Nat /\ n <= c
  BY SizeIs
<1> HIDE DEF c
<1>2. Q \in OpenLists /\ Q.head = At(s, n, 1)
  BY DEF IsList
<1>3. Q.head \in Areas \cup {NoArea} /\ Q.next \in [Areas -> Areas \cup {NoArea}]
  BY <1>2 DEF OpenLists, AreaOrNull
<1>4. first \in Seq(Areas)
  BY <1>3
<1>5. ASSUME NEW q \in Seq(Areas) PROVE Follow(Q, q) \in Seq(Areas)
  <2>1. CASE q = <<>> \/ Q.next[Last(q)] = NoArea
    BY <2>1 DEF Follow
  <2>2. CASE q # <<>> /\ Q.next[Last(q)] # NoArea
    <3>1. Last(q) \in Areas
      BY <2>2, LastKnown DEF Last
    <3>2. Q.next[Last(q)] \in Areas
      BY <1>3, <2>2, <3>1
    <3>. QED
      BY <2>2, <3>2, AppendKnown DEF Follow
  <2>. QED
    BY <2>1, <2>2
<1>6. PICK g \in [0..c -> Seq(Areas)] : Makes(g, first, c, F)
  <2>1. Goes(Seq(Areas), c, F)
    BY <1>5 DEF Goes
  <2> HIDE DEF first, F
  <2>. QED
    BY <1>1, <1>4, <2>1, PassExists
<1>7. Unfolds(g)
  <2>1. ASSUME NEW i \in 0..c PROVE g[i] = IF i = 0 THEN first ELSE Follow(Q, g[i - 1])
    <3>1. CASE i = 0
      BY <1>6, <3>1 DEF Makes
    <3>2. CASE i # 0
      <4>1. i \in 1..c /\ i - 1 \in 0..c
        BY <1>1, <3>2
      <4>2. g[i - 1] \in Seq(Areas)
        BY <4>1
      <4>3. g[i] = F[<<g[i - 1], i>>]
        BY <1>6, <4>1 DEF Makes
      <4>. QED
        BY <3>2, <4>1, <4>2, <4>3
    <3>. QED
      BY <3>1, <3>2
  <2> HIDE DEF first
  <2>. QED
    BY <2>1
<1> DEFINE out == CHOOSE h : Unfolds(h)
<1>8. Listed(Q) = out[c]
  BY DEF Listed, c
<1>9. Unfolds(out)
  BY <1>7
<1> HIDE DEF out
<1>10. out[0] = first /\ \A i \in 1..c : out[i] = Follow(Q, out[i - 1])
  <2> HIDE DEF first
  <2>. QED
    BY <1>1, <1>9
<1> HIDE DEF Unfolds
<1> DEFINE Inv == {i \in 0..c : Begins(out[i], s, IF i + 1 <= n THEN i + 1 ELSE n)}
<1>11. 0 \in Inv
  <2>1. Begins(first, s, IF 1 <= n THEN 1 ELSE n)
    <3>1. CASE n = 0
      <4>1. first = <<>>
        BY <1>2, <3>1 DEF At
      <4>. QED
        BY <3>1, <4>1 DEF Begins
    <3>2. CASE n # 0
      <4>1. 1 \in 1..n
        BY <3>2
      <4>2. Q.head = s[1] /\ s[1] \in Areas /\ Q.head # NoArea
        BY <1>2, <4>1 DEF At, AreasOK
      <4>3. first = <<s[1]>> /\ 1 <= n
        BY <4>1, <4>2
      <4>. QED
        BY <4>2, <4>3 DEF Begins
    <3>. QED
      BY <3>1, <3>2
  <2>2. 0 \in 0..c /\ 0 + 1 = 1
    BY <1>1
  <2>. QED
    BY <1>10, <2>1, <2>2
<1>12. ASSUME NEW i \in 1..c, i - 1 \in Inv PROVE i \in Inv
  <2>1. i \in Nat /\ i # 0 /\ (i - 1) + 1 = i /\ i \in 0..c
    BY <1>1
  <2>2. Begins(out[i - 1], s, IF i <= n THEN i ELSE n)
    BY <1>12, <2>1
  <2>3. Begins(Follow(Q, out[i - 1]), s, IF i + 1 <= n THEN i + 1 ELSE n)
    BY <2>1, <2>2, FollowIs
  <2>. QED
    BY <1>10, <2>1, <2>3
<1>13. c \in Inv
  <2> HIDE DEF Inv
  <2>. QED
    BY <1>1, <1>11, <1>12, PassKeeps
<1>14. Begins(out[c], s, n)
  <2>1. c + 1 <= n => c + 1 = n
    BY <1>1
  <2>. QED
    BY <1>13, <2>1
<1>15. out[c] = s
  <2>1. out[c] \in Seq(Areas) /\ Len(out[c]) = n /\ \A j \in 1..n : out[c][j] = s[j]
    BY <1>14 DEF Begins
  <2>2. out[c] \in [1..n -> Areas]
    BY <2>1
  <2>. QED
    BY <2>1, <2>2
<1>. QED
  BY <1>8, <1>14, <1>15 DEF Begins

\* The links of a proper list run through the open areas.
LEMMA LinkedIs ==
  ASSUME AreasOK, NEW Q, NEW n \in Nat, NEW s \in [1..n -> Areas], IsList(Q, s, n)
  PROVE  Linked(Q)
<1>1. Listed(Q) = s /\ Len(s) = n /\ n = Cardinality(Q.open)
  BY ListedIs, SizeIs
<1>2. ToSet(s) = Q.open
  <2>1. ToSet(s) = {s[i] : i \in 1..n}
    BY DEF ToSet
  <2>2. Q.open \subseteq Areas /\ \A x \in Areas : x \in Q.open <=> \E i \in 1..n : s[i] = x
    BY DEF IsList, OpenLists
  <2>. QED
    BY <2>1, <2>2
<1>3. ASSUME NEW i \in 1..n PROVE Q.prev[s[i]] = IF i = 1 THEN NoArea ELSE s[i - 1]
  <2>1. Q.prev[s[i]] = At(s, n, i - 1)
    BY DEF IsList
  <2>2. i - 1 \in 1..n <=> i # 1
    OBVIOUS
  <2>. QED
    BY <2>1, <2>2 DEF At
<1>. QED
  BY <1>1, <1>2, <1>3 DEF Linked

-----------------------------------------------------------------------------
\* A set of natural numbers has a least one, and Min finds it.
LEMMA MinIs ==
  ASSUME NEW S \in SUBSET Nat, S # {}
  PROVE  Min(S) \in S /\ \A y \in S : Min(S) <= y
<1>1. \E x \in S : \A y \in S : x <= y
  <2> DEFINE T == {n \in Nat : \A m \in Nat : m <= n => m \notin S}
  <2> SUFFICES ASSUME ~ \E x \in S : \A y \in S : x <= y PROVE FALSE
    OBVIOUS
  <2>1. 0 \in T
    <3>1. 0 \notin S
      OBVIOUS
    <3>. QED
      BY <3>1
  <2>2. ASSUME NEW n \in Nat, n \in T PROVE n + 1 \in T
    <3>1. \A m \in Nat : m <= n => m \notin S
      BY <2>2
    <3>2. n + 1 \notin S
      <4> SUFFICES ASSUME n + 1 \in S PROVE FALSE
        OBVIOUS
      <4>1. \A y \in S : y \in Nat /\ ~(y <= n)
        BY <3>1
      <4>2. \A y \in S : n + 1 <= y
        BY <4>1
      <4>. QED
        BY <4>2
    <3>3. ASSUME NEW m \in Nat, m <= n + 1 PROVE m \notin S
      <4>1. m <= n \/ m = n + 1
        BY <3>3
      <4>. QED
        BY <3>1, <3>2, <4>1
    <3>. QED
      BY <3>3
  <2>3. Nat \subseteq T
    <3> HIDE DEF T
    <3>. QED
      BY <2>1, <2>2, SetInduction
  <2>4. \A x \in S : x \in Nat /\ x <= x
    OBVIOUS
  <2>. QED
    BY <2>3, <2>4
<1>. QED
  BY <1>1 DEF Min

\* In the order of the total costs.
Sorted(s, n, t) == \A i, j \in 1..n : i < j => t[s[i]] <= t[s[j]]

\* It stays so with an area behind the last that costs no more.
LEMMA WithSorted ==
  ASSUME AreasOK, NEW n \in Nat, NEW s \in [1..n -> Areas], NEW t \in [Areas -> Nat], Sorted(s, n, t),
         NEW k \in 0..n, NEW a \in Areas,
         \A j \in 1..n : (j <= k => t[s[j]] <= t[a]) /\ (j > k => t[a] <= t[s[j]])
  PROVE  Sorted(With(s, n, k, a), n + 1, t)
<1> DEFINE r == With(s, n, k, a)
<1>1. Spliced(r, s, n, k, a)
  BY WithIs
<1> HIDE DEF r
<1>2. SUFFICES ASSUME NEW i \in 1..(n + 1), NEW j \in 1..(n + 1), i < j PROVE t[r[i]] <= t[r[j]]
  BY DEF Sorted, r
<1>3. /\ i <= k => i \in 1..n /\ r[i] = s[i]
      /\ i = k + 1 => r[i] = a
      /\ i > k + 1 => i - 1 \in 1..n /\ r[i] = s[i - 1]
      /\ j <= k => j \in 1..n /\ r[j] = s[j]
      /\ j = k + 1 => r[j] = a
      /\ j > k + 1 => j - 1 \in 1..n /\ r[j] = s[j - 1]
  BY <1>1 DEF Spliced
<1>4. t[a] \in Nat /\ \A h \in 1..n : t[s[h]] \in Nat
  OBVIOUS
<1>5. CASE j <= k
  <2>1. i <= k
    BY <1>2, <1>5
  <2>. QED
    BY <1>2, <1>3, <1>5, <2>1 DEF Sorted
<1>6. CASE j = k + 1
  <2>1. i <= k
    BY <1>2, <1>6
  <2>. QED
    BY <1>2, <1>3, <1>6, <2>1
<1>7. CASE j > k + 1
  <2>1. j - 1 \in 1..n /\ r[j] = s[j - 1] /\ j - 1 > k
    BY <1>3, <1>7
  <2>2. CASE i = k + 1
    BY <1>2, <1>3, <2>1, <2>2
  <2>3. CASE i <= k
    <3>1. i < j - 1
      BY <2>1, <2>3
    <3>. QED
      BY <1>3, <2>1, <2>3, <3>1 DEF Sorted
  <2>4. CASE i > k + 1
    <3>1. i - 1 < j - 1
      BY <1>2
    <3>. QED
      BY <1>3, <2>1, <2>4, <3>1 DEF Sorted
  <2>. QED
    BY <2>2, <2>3, <2>4
<1>. QED
  BY <1>5, <1>6, <1>7

\* P is the list of Q with a on it as well, as proper and as sorted.
Added(P, Q, s, n, t, a) ==
  \E m \in Nat : \E r \in [1..m -> Areas] :
    /\ IsList(P, r, m) /\ P.open = Q.open \cup {a}
    /\ Ends(Q, s, n) => Ends(P, r, m)
    /\ t \in [Areas -> Nat] /\ Sorted(s, n, t) => Sorted(r, m, t)
    /\ n = 0 => m = 1

\* The k-th place is the right one for a.
InPlace(s, n, t, k, a) ==
  t \in [Areas -> Nat] /\ Sorted(s, n, t) =>
    \A j \in 1..n : (j <= k => t[s[j]] <= t[a]) /\ (j > k => t[a] <= t[s[j]])

\* An area put there.
LEMMA InsertAdds ==
  ASSUME AreasOK, NEW Q, NEW n \in Nat, NEW s \in [1..n -> Areas], IsList(Q, s, n), NEW t,
         NEW k \in 0..n, NEW a \in Areas, a \notin Q.open, InPlace(s, n, t, k, a)
  PROVE  Added(InsertAfter(Q, a, At(s, n, k), At(s, n, k + 1)), Q, s, n, t, a)
<1> DEFINE P == InsertAfter(Q, a, At(s, n, k), At(s, n, k + 1))
           r == With(s, n, k, a)
<1>1. /\ IsList(P, r, n + 1) /\ P.open = Q.open \cup {a}
      /\ Ends(Q, s, n) => Ends(P, r, n + 1)
  BY InsertIs
<1>2. n + 1 \in Nat /\ r \in [1..(n + 1) -> Areas] /\ (n = 0 => n + 1 = 1)
  BY WithIs DEF Spliced
<1>3. ASSUME t \in [Areas -> Nat], Sorted(s, n, t) PROVE Sorted(r, n + 1, t)
  BY <1>3, WithSorted DEF InPlace
<1> HIDE DEF P, r
<1>. QED
  BY <1>1, <1>2, <1>3 DEF Added, P

\* AddToOpenList.
LEMMA AddIs ==
  ASSUME AreasOK, NEW Q, NEW n \in Nat, NEW s \in [1..n -> Areas], IsList(Q, s, n),
         NEW t, NEW a \in Areas
  PROVE  \/ a \in Q.open /\ AddToOpenList(Q, t, a) = Q
         \/ Added(AddToOpenList(Q, t, a), Q, s, n, t, a)
<1> DEFINE dearer == {j \in 1..n : Below(t[a], t[s[j]])}
           i == Min(dearer)
<1>1. Listed(Q) = s /\ Len(s) = n
  BY ListedIs
<1>2. dearer # {} => i \in dearer /\ \A j \in dearer : i <= j
  <2>1. dearer \in SUBSET Nat
    OBVIOUS
  <2> HIDE DEF dearer
  <2>. QED
    BY <2>1, MinIs
<1>3. AddToOpenList(Q, t, a) =
        IF a \in Q.open THEN Q
        ELSE IF Q.head = NoArea THEN InsertAfter(Q, a, NoArea, NoArea)
        ELSE IF dearer # {} THEN InsertAfter(Q, a, Q.prev[s[i]], s[i])
        ELSE InsertAfter(Q, a, Last(s), NoArea)
  BY <1>1 DEF AddToOpenList, FirstOpen
<1> HIDE DEF i
<1>4. CASE a \in Q.open
  BY <1>3, <1>4
<1>5. CASE a \notin Q.open /\ Q.head = NoArea
  <2>1. n = 0
    <3>1. n # 0 => 1 \in 1..n
      OBVIOUS
    <3>. QED
      BY <1>5, <3>1 DEF IsList, At, AreasOK
  <2>2. NoArea = At(s, n, 0) /\ NoArea = At(s, n, 0 + 1) /\ 0 \in 0..n
    BY <2>1 DEF At
  <2>3. InPlace(s, n, t, 0, a)
    BY <2>1 DEF InPlace
  <2>4. Added(InsertAfter(Q, a, At(s, n, 0), At(s, n, 0 + 1)), Q, s, n, t, a)
    BY <1>5, <2>2, <2>3, InsertAdds
  <2>. QED
    BY <1>3, <1>5, <2>2, <2>4
<1>6. CASE a \notin Q.open /\ Q.head # NoArea /\ dearer # {}
  <2>1. i \in 1..n /\ i - 1 \in 0..n /\ (i - 1) + 1 = i
    BY <1>2, <1>6
  <2>2. Q.prev[s[i]] = At(s, n, i - 1) /\ s[i] = At(s, n, (i - 1) + 1)
    BY <2>1 DEF IsList, At
  <2>3. InPlace(s, n, t, i - 1, a)
    <3> SUFFICES ASSUME t \in [Areas -> Nat], Sorted(s, n, t), NEW j \in 1..n
                 PROVE  (j <= i - 1 => t[s[j]] <= t[a]) /\ (j > i - 1 => t[a] <= t[s[j]])
      BY DEF InPlace
    <3>1. t[a] \in Nat /\ t[s[j]] \in Nat /\ t[s[i]] \in Nat
      BY <2>1
    <3>2. j <= i - 1 => ~(t[a] < t[s[j]])
      <4>1. j <= i - 1 => ~(i <= j)
        BY <2>1
      <4>2. j <= i - 1 => ~Below(t[a], t[s[j]])
        BY <1>2, <1>6, <4>1
      <4>. QED
        BY <3>1, <4>2 DEF Below, NaN
    <3>3. t[a] < t[s[i]]
      <4>1. Below(t[a], t[s[i]])
        BY <1>2, <1>6
      <4>. QED
        BY <4>1 DEF Below
    <3>4. j > i - 1 => t[s[i]] <= t[s[j]]
      <4>1. j > i - 1 => j = i \/ i < j
        BY <2>1
      <4>. QED
        BY <2>1, <3>1, <4>1 DEF Sorted
    <3>. QED
      BY <3>1, <3>2, <3>3, <3>4
  <2>4. Added(InsertAfter(Q, a, At(s, n, i - 1), At(s, n, (i - 1) + 1)), Q, s, n, t, a)
    BY <1>6, <2>1, <2>3, InsertAdds
  <2>. QED
    BY <1>3, <1>6, <2>2, <2>4
<1>7. CASE a \notin Q.open /\ Q.head # NoArea /\ dearer = {}
  <2>1. n # 0
    BY <1>7 DEF IsList, At
  <2>2. Last(s) = At(s, n, n) /\ NoArea = At(s, n, n + 1) /\ n \in 0..n
    BY <1>1, <2>1 DEF At, Last
  <2>3. InPlace(s, n, t, n, a)
    <3> SUFFICES ASSUME t \in [Areas -> Nat], Sorted(s, n, t), NEW j \in 1..n
                 PROVE  (j <= n => t[s[j]] <= t[a]) /\ (j > n => t[a] <= t[s[j]])
      BY DEF InPlace
    <3>1. t[a] \in Nat /\ t[s[j]] \in Nat
      OBVIOUS
    <3>2. ~(t[a] < t[s[j]])
      <4>1. ~Below(t[a], t[s[j]])
        BY <1>7
      <4>. QED
        BY <3>1, <4>1 DEF Below, NaN
    <3>. QED
      BY <3>1, <3>2
  <2>4. Added(InsertAfter(Q, a, At(s, n, n), At(s, n, n + 1)), Q, s, n, t, a)
    BY <1>7, <2>2, <2>3, InsertAdds
  <2>. QED
    BY <1>3, <1>7, <2>2, <2>4
<1>. QED
  BY <1>4, <1>5, <1>6, <1>7

-----------------------------------------------------------------------------
\* AddToOpenListTail puts the area behind the last when the tail is the last.
LEMMA AddTailIs ==
  ASSUME AreasOK, NEW Q, NEW n \in Nat, NEW s \in [1..n -> Areas], IsList(Q, s, n), Ends(Q, s, n),
         NEW a \in Areas, a \notin Q.open
  PROVE  \E m \in Nat : \E r \in [1..m -> Areas] :
           IsList(AddToOpenListTail(Q, a), r, m) /\ Ends(AddToOpenListTail(Q, a), r, m)
<1> DEFINE P == AddToOpenListTail(Q, a)
           R == InsertAfter(Q, a, At(s, n, n), At(s, n, n + 1))
           r == With(s, n, n, a)
<1>1. /\ Q \in OpenLists /\ Q.head = At(s, n, 1) /\ Q.tail = At(s, n, n)
      /\ At(s, n, n + 1) = NoArea
      /\ At(s, n, n) \in Areas \cup {NoArea} /\ NoArea \notin Areas
  BY AtKnown DEF IsList, Ends, At, AreasOK
<1>2. /\ Q.prev \in [Areas -> Areas \cup {NoArea}] /\ Q.next \in [Areas -> Areas \cup {NoArea}]
      /\ Q.head \in Areas \cup {NoArea} /\ Q.tail \in Areas \cup {NoArea} /\ Q.open \subseteq Areas
  BY <1>1 DEF OpenLists, AreaOrNull
<1>3. IsList(R, r, n + 1) /\ Ends(R, r, n + 1) /\ R.open = Q.open \cup {a}
  <2>1. n \in 0..n
    OBVIOUS
  <2>. QED
    BY <2>1, InsertIs
<1>4. n + 1 \in Nat /\ r \in [1..(n + 1) -> Areas]
  <2>1. n \in 0..n
    OBVIOUS
  <2>. QED
    BY <2>1, WithIs DEF Spliced
<1> HIDE DEF r
<1>5. CASE Q.head = NoArea
  <2>1. At(s, n, n) = NoArea
    <3>1. n \in 1..n => 1 \in 1..n
      OBVIOUS
    <3>. QED
      BY <1>1, <1>5, <3>1 DEF At
  <2>2. P = R
    BY <1>1, <1>5, <2>1 DEF AddToOpenListTail, FirstOpen
  <2>. QED
    BY <1>3, <1>4, <2>2
<1>6. CASE Q.head # NoArea
  <2>1. n \in 1..n /\ Q.tail = s[n] /\ Q.tail \in Areas /\ Q.tail # a /\ At(s, n, n) = Q.tail
    <3>1. 1 \in 1..n => n \in 1..n
      OBVIOUS
    <3>2. n \in 1..n
      BY <1>1, <1>6, <3>1 DEF At
    <3>3. s[n] \in Q.open
      BY <3>2 DEF IsList
    <3>. QED
      BY <1>1, <3>2, <3>3 DEF At
  <2> DEFINE tail == Q.tail
             next1 == Put(Q.next, tail, a)
             next2 == Put(next1, a, NoArea)
             next3 == Put(Q.next, a, NoArea)
             next4 == Put(next3, tail, a)
             prev1 == Put(Q.prev, a, tail)
  <2>2. P = [Q EXCEPT !.tail = a, !.prev[a] = tail, !.open = @ \cup {a}, !.next = next2]
    BY <1>6 DEF AddToOpenListTail
  <2>3. R = [Q EXCEPT !.head = IF tail = NoArea THEN a ELSE @,
                      !.tail = IF NoArea = NoArea THEN a ELSE @,
                      !.prev = Put(prev1, NoArea, a),
                      !.next = next4, !.open = @ \cup {a}]
    BY <1>1, <2>1 DEF InsertAfter
  <2> HIDE DEF P, R
  <2>4. Stored(next1, Q.next, tail, a) /\ Stored(next3, Q.next, a, NoArea) /\ Stored(prev1, Q.prev, a, tail)
    BY <1>2, <2>1, PutIs
  <2>5. /\ next1 \in [Areas -> Areas \cup {NoArea}] /\ next3 \in [Areas -> Areas \cup {NoArea}]
        /\ prev1 \in [Areas -> Areas \cup {NoArea}]
    BY <2>4 DEF Stored
  <2>6. Stored(next2, next1, a, NoArea) /\ Stored(next4, next3, tail, a)
    <3> HIDE DEF next1, next3, tail
    <3>. QED
      BY <2>1, <2>5, PutIs DEF tail
  <2>7. next2 \in [Areas -> Areas \cup {NoArea}] /\ next4 \in [Areas -> Areas \cup {NoArea}]
    BY <2>6 DEF Stored
  <2>8. Put(prev1, NoArea, a) = prev1
    BY DEF Put
  <2> HIDE DEF next1, next2, next3, next4, prev1
  <2>9. \A x \in Areas : next2[x] = next4[x]
    BY <2>1, <2>4, <2>6 DEF Stored
  <2>10. /\ P \in OpenLists /\ P.head = Q.head /\ P.tail = a /\ P.open = Q.open \cup {a}
         /\ P.prev = [Q.prev EXCEPT ![a] = tail] /\ P.next = next2
    BY <1>1, <1>2, <2>1, <2>2, <2>7 DEF OpenLists, AreaOrNull
  <2>11. /\ R.head = Q.head /\ R.tail = a /\ R.prev = prev1 /\ R.next = next4
    BY <1>1, <1>2, <2>1, <2>3, <2>5, <2>7, <2>8 DEF OpenLists, AreaOrNull
  <2>12. \A x \in Areas : P.prev[x] = R.prev[x] /\ P.next[x] = R.next[x]
    BY <1>2, <2>1, <2>4, <2>9, <2>10, <2>11 DEF Stored
  <2>13. P.head = R.head /\ P.tail = R.tail /\ P.open = R.open
    BY <1>3, <2>10, <2>11
  <2>14. IsList(P, r, n + 1) /\ Ends(P, r, n + 1)
    <3>1. /\ \A i, j \in 1..(n + 1) : r[i] = r[j] => i = j
          /\ \A x \in Areas : x \in R.open <=> \E i \in 1..(n + 1) : r[i] = x
          /\ R.head = At(r, n + 1, 1)
          /\ \A i \in 1..(n + 1) : R.prev[r[i]] = At(r, n + 1, i - 1) /\ R.next[r[i]] = At(r, n + 1, i + 1)
      BY <1>3 DEF IsList
    <3>2. \A i \in 1..(n + 1) : r[i] \in Areas
      BY <1>4
    <3>3. \A i \in 1..(n + 1) : P.prev[r[i]] = At(r, n + 1, i - 1) /\ P.next[r[i]] = At(r, n + 1, i + 1)
      BY <2>12, <3>1, <3>2
    <3>. QED
      BY <1>3, <1>4, <2>10, <2>13, <3>1, <3>3 DEF IsList, Ends
  <2>. QED
    BY <1>4, <2>14 DEF P
<1>. QED
  BY <1>5, <1>6

-----------------------------------------------------------------------------
\* In the order of the total costs but for a, which may cost less than areas before it.
SortedBut(s, n, t, a) == \A i, j \in 1..n : i < j /\ s[j] # a => t[s[i]] <= t[s[j]]

\* P is the list of Q after a round for a: sorted, or a has moved up.
Raised(P, Q, s, n, t, a) ==
  \E r \in [1..n -> Areas] :
    /\ IsList(P, r, n) /\ P.open = Q.open
    /\ t \in [Areas -> Nat] /\ SortedBut(s, n, t, a) =>
         /\ SortedBut(r, n, t, a)
         /\ Sorted(s, n, t) => Sorted(r, n, t)
         /\ Sorted(r, n, t) \/ \A p \in 1..n : s[p] = a => p - 1 \in 1..n /\ r[p - 1] = a

\* A round of UpdateOnOpenList.
LEMMA RaiseIs ==
  ASSUME AreasOK, NEW Q, NEW n \in Nat, NEW s \in [1..n -> Areas], IsList(Q, s, n),
         NEW t, NEW a \in Areas, a \in Q.open
  PROVE  Raised(Raise(Q, t, a), Q, s, n, t, a)
<1> DEFINE P == Raise(Q, t, a)
<1>1. PICK p \in 1..n : s[p] = a
  BY DEF IsList
<1>2. \A q \in 1..n : s[q] = a => q = p
  BY <1>1 DEF IsList
<1>3. Q.prev[a] = At(s, n, p - 1)
  BY <1>1 DEF IsList
<1>4. CASE ~(Q.prev[a] # NoArea /\ Below(t[a], t[Q.prev[a]]))
  <2>1. P = Q
    BY <1>4 DEF Raise
  <2>2. ASSUME t \in [Areas -> Nat], SortedBut(s, n, t, a) PROVE Sorted(s, n, t)
    <3> SUFFICES ASSUME NEW i \in 1..n, NEW j \in 1..n, i < j PROVE t[s[i]] <= t[s[j]]
      BY DEF Sorted
    <3>1. CASE s[j] # a
      BY <2>2, <3>1 DEF SortedBut
    <3>2. CASE s[j] = a
      <4>1. j = p /\ p - 1 \in 1..n /\ (i = p - 1 \/ i < p - 1)
        BY <1>2, <3>2
      <4>2. Q.prev[a] = s[p - 1] /\ s[p - 1] \in Areas /\ s[p - 1] # NoArea
        BY <1>3, <4>1 DEF At, AreasOK
      <4>3. t[s[p - 1]] \in Nat /\ t[a] \in Nat /\ t[s[i]] \in Nat
        BY <2>2, <4>2
      <4>4. t[s[p - 1]] <= t[a]
        BY <1>4, <4>2, <4>3 DEF Below, NaN
      <4>5. p - 1 # p
        OBVIOUS
      <4>6. s[p - 1] # a
        BY <1>2, <4>1, <4>5
      <4>7. t[s[i]] <= t[s[p - 1]]
        BY <2>2, <4>1, <4>3, <4>6 DEF SortedBut
      <4>. QED
        BY <3>2, <4>3, <4>4, <4>7
    <3>. QED
      BY <3>1, <3>2
  <2>. QED
    BY <2>1, <2>2 DEF Raised
<1>5. CASE Q.prev[a] # NoArea /\ Below(t[a], t[Q.prev[a]])
  <2> DEFINE r == Swapped(s, n, p)
  <2>1. p \in 2..n /\ p - 1 \in 1..n /\ Q.prev[a] = s[p - 1] /\ P = SwapUp(Q, s[p])
    <3>1. p - 1 \in 1..n
      BY <1>3, <1>5 DEF At
    <3>2. p \in 2..n
      BY <3>1
    <3>. QED
      BY <1>1, <1>3, <1>5, <3>1, <3>2 DEF At, Raise
  <2>2. IsList(P, r, n) /\ P.open = Q.open
    BY <2>1, SwapIs
  <2>3. r \in [1..n -> Areas] /\ \A i \in 1..n : r[i] = IF i = p - 1 THEN a ELSE IF i = p THEN s[p - 1] ELSE s[i]
    BY <1>1, <2>1 DEF Swapped
  <2> HIDE DEF r, P
  <2>4. ASSUME t \in [Areas -> Nat], SortedBut(s, n, t, a) PROVE SortedBut(r, n, t, a)
    <3> SUFFICES ASSUME NEW i \in 1..n, NEW j \in 1..n, i < j, r[j] # a PROVE t[r[i]] <= t[r[j]]
      BY DEF SortedBut
    <3>1. t[a] <= t[s[p - 1]] /\ t[a] \in Nat /\ t[s[p - 1]] \in Nat
      BY <1>5, <2>1, <2>4 DEF Below
    <3>2. ASSUME NEW g \in 1..n, NEW h \in 1..n, g < h, h # p PROVE t[s[g]] <= t[s[h]]
      <4>1. s[h] # a
        BY <1>2, <3>2
      <4>. QED
        BY <2>4, <3>2, <4>1 DEF SortedBut
    <3>3. j # p - 1
      BY <2>3
    <3>4. CASE j = p
      <4>1. r[j] = s[p - 1]
        BY <2>3, <3>3, <3>4
      <4>2. CASE i = p - 1
        BY <2>3, <3>1, <4>1, <4>2
      <4>3. CASE i # p - 1
        <5>1. i # p /\ i < p - 1 /\ p - 1 # p
          BY <3>4, <4>3
        <5>2. r[i] = s[i]
          BY <2>3, <4>3, <5>1
        <5>. QED
          BY <2>1, <3>2, <4>1, <5>1, <5>2
      <4>. QED
        BY <4>2, <4>3
    <3>5. CASE j # p
      <4>1. r[j] = s[j]
        BY <2>3, <3>3, <3>5
      <4>2. CASE i = p - 1
        <5>1. p < j /\ r[i] = s[p]
          <6>1. p < j
            BY <3>5, <4>2
          <6>. QED
            BY <1>1, <2>3, <4>2, <6>1
        <5>. QED
          BY <3>2, <3>5, <4>1, <5>1
      <4>3. CASE i = p
        <5>1. r[i] = s[p - 1] /\ p - 1 < j
          <6>1. p - 1 < j /\ p # p - 1
            BY <4>3
          <6>. QED
            BY <2>3, <4>3, <6>1
        <5>. QED
          BY <2>1, <3>2, <3>5, <4>1, <5>1
      <4>4. CASE i # p /\ i # p - 1
        <5>1. r[i] = s[i]
          BY <2>3, <4>4
        <5>. QED
          BY <3>2, <3>5, <4>1, <5>1
      <4>. QED
        BY <4>2, <4>3, <4>4
    <3>. QED
      BY <3>4, <3>5
  <2>5. \A q \in 1..n : s[q] = a => q - 1 \in 1..n /\ r[q - 1] = a
    BY <1>2, <2>1, <2>3
  <2>6. ASSUME t \in [Areas -> Nat] PROVE ~Sorted(s, n, t)
    <3>1. t[a] < t[s[p - 1]] /\ t[a] \in Nat /\ t[s[p - 1]] \in Nat /\ p - 1 < p
      BY <1>5, <2>1, <2>6 DEF Below
    <3>2. ~(t[s[p - 1]] <= t[s[p]])
      BY <1>1, <3>1
    <3>. QED
      BY <2>1, <3>1, <3>2 DEF Sorted
  <2>. QED
    BY <2>2, <2>3, <2>4, <2>5, <2>6 DEF Raised, P
<1>. QED
  BY <1>4, <1>5

\* P is the list of Q after i rounds for a.
Rounds(P, Q, s, n, t, a, i) ==
  \E r \in [1..n -> Areas] :
    /\ IsList(P, r, n) /\ P.open = Q.open
    /\ t \in [Areas -> Nat] /\ SortedBut(s, n, t, a) =>
         /\ SortedBut(r, n, t, a)
         /\ Sorted(r, n, t) \/ \E p \in 1..n : r[p] = a /\ p + i <= n

\* The i-th round.
LEMMA RoundIs ==
  ASSUME AreasOK, NEW Q, NEW n \in Nat, NEW s \in [1..n -> Areas], NEW t,
         NEW a \in Areas, a \in Q.open, NEW i \in Nat, NEW P, Rounds(P, Q, s, n, t, a, i)
  PROVE  Rounds(Raise(P, t, a), Q, s, n, t, a, i + 1)
<1> DEFINE N == Raise(P, t, a)
<1>1. PICK r \in [1..n -> Areas] :
        /\ IsList(P, r, n) /\ P.open = Q.open
        /\ t \in [Areas -> Nat] /\ SortedBut(s, n, t, a) =>
             /\ SortedBut(r, n, t, a)
             /\ Sorted(r, n, t) \/ \E p \in 1..n : r[p] = a /\ p + i <= n
  BY DEF Rounds
<1>2. Raised(N, P, r, n, t, a)
  BY <1>1, RaiseIs
<1> HIDE DEF N
<1>3. PICK u \in [1..n -> Areas] :
        /\ IsList(N, u, n) /\ N.open = P.open
        /\ t \in [Areas -> Nat] /\ SortedBut(r, n, t, a) =>
             /\ SortedBut(u, n, t, a)
             /\ Sorted(r, n, t) => Sorted(u, n, t)
             /\ Sorted(u, n, t) \/ \A p \in 1..n : r[p] = a => p - 1 \in 1..n /\ u[p - 1] = a
  BY <1>2 DEF Raised
<1>4. ASSUME t \in [Areas -> Nat], SortedBut(s, n, t, a)
      PROVE  SortedBut(u, n, t, a) /\ (Sorted(u, n, t) \/ \E p \in 1..n : u[p] = a /\ p + (i + 1) <= n)
  <2>1. SortedBut(u, n, t, a) /\ (Sorted(u, n, t) \/ \A p \in 1..n : r[p] = a => p - 1 \in 1..n /\ u[p - 1] = a)
    BY <1>1, <1>3, <1>4
  <2> SUFFICES ASSUME ~Sorted(u, n, t) PROVE \E p \in 1..n : u[p] = a /\ p + (i + 1) <= n
    BY <2>1
  <2>3. CASE Sorted(r, n, t)
    BY <1>1, <1>3, <1>4, <2>3
  <2>4. CASE ~Sorted(r, n, t)
    <3>1. PICK q \in 1..n : r[q] = a /\ q + i <= n
      BY <1>1, <1>4, <2>4
    <3>2. q - 1 \in 1..n /\ u[q - 1] = a
      BY <2>1, <3>1
    <3>3. (q - 1) + (i + 1) = q + i
      OBVIOUS
    <3>. QED
      BY <3>1, <3>2, <3>3
  <2>. QED
    BY <2>3, <2>4
<1>. QED
  BY <1>1, <1>3, <1>4 DEF Rounds, N

\* UpdateOnOpenList puts an area whose cost has fallen into its place.
LEMMA UpdateIs ==
  ASSUME AreasOK, NEW Q, NEW n \in Nat, NEW s \in [1..n -> Areas], IsList(Q, s, n),
         NEW t, NEW a \in Areas, a \in Q.open
  PROVE  \E r \in [1..n -> Areas] :
           /\ IsList(UpdateOnOpenList(Q, t, a), r, n)
           /\ t \in [Areas -> Nat] /\ SortedBut(s, n, t, a) => Sorted(r, n, t)
           /\ UpdateOnOpenList(Q, t, a).open = Q.open
<1> DEFINE c == Cardinality(Areas)
           Unfolds(h) == h = [i \in 0..c |-> IF i = 0 THEN Q ELSE Raise(h[i - 1], t, a)]
           S == {P \in OpenLists : P.open = Q.open /\ \E r \in [1..n -> Areas] : IsList(P, r, n)}
           F == [p \in S \X (1..c) |-> Raise(p[1], t, a)]
<1>1. c \in Nat /\ n <= c
  BY SizeIs
<1> HIDE DEF c
<1>2. Q \in S
  BY DEF IsList
<1>3. ASSUME NEW P \in S PROVE Raise(P, t, a) \in S
  <2>1. PICK r \in [1..n -> Areas] : IsList(P, r, n)
    OBVIOUS
  <2>2. a \in P.open /\ P.open = Q.open
    OBVIOUS
  <2>3. Raised(Raise(P, t, a), P, r, n, t, a)
    BY <2>1, <2>2, RaiseIs
  <2>4. PICK u \in [1..n -> Areas] : IsList(Raise(P, t, a), u, n) /\ Raise(P, t, a).open = P.open
    BY <2>3 DEF Raised
  <2>5. Raise(P, t, a) \in OpenLists
    BY <2>4 DEF IsList
  <2>. QED
    BY <2>2, <2>4, <2>5
<1> HIDE DEF S
<1>4. PICK g \in [0..c -> S] : Makes(g, Q, c, F)
  <2>1. Goes(S, c, F)
    BY <1>3 DEF Goes
  <2> HIDE DEF F
  <2>. QED
    BY <1>1, <1>2, <2>1, PassExists
<1>5. Unfolds(g)
  <2>1. ASSUME NEW i \in 0..c PROVE g[i] = IF i = 0 THEN Q ELSE Raise(g[i - 1], t, a)
    <3>1. CASE i = 0
      BY <1>4, <3>1 DEF Makes
    <3>2. CASE i # 0
      <4>1. i \in 1..c /\ i - 1 \in 0..c
        BY <1>1, <3>2
      <4>2. g[i - 1] \in S
        BY <4>1
      <4>3. g[i] = F[<<g[i - 1], i>>]
        BY <1>4, <4>1 DEF Makes
      <4>. QED
        BY <3>2, <4>1, <4>2, <4>3
    <3>. QED
      BY <3>1, <3>2
  <2>. QED
    BY <2>1
<1> DEFINE out == CHOOSE h : Unfolds(h)
<1>6. UpdateOnOpenList(Q, t, a) = out[c]
  BY DEF UpdateOnOpenList, c
<1>7. Unfolds(out)
  BY <1>5
<1> HIDE DEF out
<1>8. out[0] = Q /\ \A i \in 1..c : out[i] = Raise(out[i - 1], t, a)
  BY <1>1, <1>7
<1> HIDE DEF Unfolds
<1> DEFINE Inv == {i \in 0..c : Rounds(out[i], Q, s, n, t, a, i)}
<1>9. 0 \in Inv
  <2>1. PICK p \in 1..n : s[p] = a
    BY DEF IsList
  <2>2. p + 0 <= n
    BY <2>1
  <2>3. Rounds(Q, Q, s, n, t, a, 0)
    BY <2>1, <2>2 DEF Rounds
  <2>. QED
    BY <1>1, <1>8, <2>3
<1>10. ASSUME NEW i \in 1..c, i - 1 \in Inv PROVE i \in Inv
  <2>1. i - 1 \in Nat /\ (i - 1) + 1 = i /\ i \in 0..c
    BY <1>1
  <2>2. Rounds(out[i - 1], Q, s, n, t, a, i - 1)
    BY <1>10
  <2>3. Rounds(Raise(out[i - 1], t, a), Q, s, n, t, a, (i - 1) + 1)
    BY <2>1, <2>2, RoundIs
  <2>. QED
    BY <1>8, <2>1, <2>3
<1>11. c \in Inv
  <2> HIDE DEF Inv
  <2>. QED
    BY <1>1, <1>9, <1>10, PassKeeps
<1>12. PICK r \in [1..n -> Areas] :
         /\ IsList(out[c], r, n) /\ out[c].open = Q.open
         /\ t \in [Areas -> Nat] /\ SortedBut(s, n, t, a) =>
              Sorted(r, n, t) \/ \E p \in 1..n : r[p] = a /\ p + c <= n
  BY <1>11 DEF Rounds
<1>13. \A p \in 1..n : ~(p + c <= n)
  BY <1>1
<1>. QED
  BY <1>6, <1>12, <1>13

-----------------------------------------------------------------------------
\* A proper list, with its last area at the tail if ends.
Proper(Q, ends) ==
  \E n \in Nat : \E s \in [1..n -> Areas] : IsList(Q, s, n) /\ (ends => Ends(Q, s, n))

\* AddToOpenList keeps it so.
LEMMA AddProper ==
  ASSUME AreasOK, NEW Q, NEW ends \in BOOLEAN, Proper(Q, ends), NEW t, NEW a \in Areas
  PROVE  Proper(AddToOpenList(Q, t, a), ends)
<1>1. PICK n \in Nat : \E s \in [1..n -> Areas] : IsList(Q, s, n) /\ (ends => Ends(Q, s, n))
  BY DEF Proper
<1>2. PICK s \in [1..n -> Areas] : IsList(Q, s, n) /\ (ends => Ends(Q, s, n))
  BY <1>1
<1>3. \/ a \in Q.open /\ AddToOpenList(Q, t, a) = Q
      \/ Added(AddToOpenList(Q, t, a), Q, s, n, t, a)
  BY <1>2, AddIs
<1>4. CASE Added(AddToOpenList(Q, t, a), Q, s, n, t, a)
  BY <1>2, <1>4 DEF Added, Proper
<1>. QED
  BY <1>3, <1>4

\* The areas open in P are those in Q and a.
Opens(P, Q, a) == P.open = Q.open \cup {a}

\* What the operations of the list do to the open areas.
LEMMA OpenIs ==
  ASSUME AreasOK, NEW Q, Proper(Q, FALSE), NEW t, NEW a \in Areas
  PROVE  /\ Opens(AddToOpenList(Q, t, a), Q, a)
         /\ a \in Q.open => Opens(UpdateOnOpenList(Q, t, a), Q, a)
         /\ Q.head # NoArea => Q.head \in Q.open /\ PopOpenList(Q).open = Q.open \ {Q.head}
         /\ Q.open \subseteq Areas
<1>1. PICK n \in Nat : \E s \in [1..n -> Areas] : IsList(Q, s, n)
  BY DEF Proper
<1>2. PICK s \in [1..n -> Areas] : IsList(Q, s, n)
  BY <1>1
<1>3. Opens(AddToOpenList(Q, t, a), Q, a)
  <2>1. \/ a \in Q.open /\ AddToOpenList(Q, t, a) = Q
        \/ Added(AddToOpenList(Q, t, a), Q, s, n, t, a)
    BY <1>2, AddIs
  <2>. QED
    BY <2>1 DEF Added, Opens
<1>4. a \in Q.open => Opens(UpdateOnOpenList(Q, t, a), Q, a)
  BY <1>2, UpdateIs DEF Opens
<1>5. Q.head # NoArea => Q.head \in Q.open /\ PopOpenList(Q).open = Q.open \ {Q.head}
  <2> SUFFICES ASSUME Q.head # NoArea PROVE Q.head \in Q.open /\ PopOpenList(Q).open = Q.open \ {Q.head}
    OBVIOUS
  <2>1. n # 0 /\ 1 \in 1..n /\ Q.head = s[1]
    BY <1>2 DEF IsList, At
  <2>2. Q.head \in Q.open
    BY <1>2, <2>1 DEF IsList
  <2>3. PopOpenList(Q).open = Q.open \ {Q.head}
    BY <1>2, <2>1, PopIs
  <2>. QED
    BY <2>2, <2>3
<1>. QED
  BY <1>2, <1>3, <1>4, <1>5 DEF IsList, OpenLists

\* So do the additions of a collection.
LEMMA AddFreshProper ==
  ASSUME AreasOK, NEW Q, NEW ends \in BOOLEAN, Proper(Q, ends), NEW t, NEW unmarked, NEW s \in Seq(Areas)
  PROVE  /\ Proper(AddFresh(Q, t, unmarked, s), ends)
         /\ AddFresh(Q, t, unmarked, s).open \subseteq Q.open \cup unmarked
<1> DEFINE c == Len(s)
           Step(P, i) == IF s[i] \in unmarked THEN AddToOpenList(P, t, s[i]) ELSE P
           Unfolds(h) == h = [i \in 0..c |-> IF i = 0 THEN Q ELSE
                              IF s[i] \in unmarked THEN AddToOpenList(h[i - 1], t, s[i]) ELSE h[i - 1]]
           S == {P \in OpenLists : Proper(P, ends) /\ P.open \subseteq Q.open \cup unmarked}
           F == [p \in S \X (1..c) |-> Step(p[1], p[2])]
<1>1. c \in Nat
  OBVIOUS
<1>2. \A P : Proper(P, ends) /\ P.open \subseteq Q.open \cup unmarked => P \in S
  BY DEF Proper, IsList
<1>3. ASSUME NEW P \in S, NEW i \in 1..c PROVE Step(P, i) \in S
  <2>1. Proper(P, ends) /\ s[i] \in Areas /\ P.open \subseteq Q.open \cup unmarked
    OBVIOUS
  <2>2. Proper(AddToOpenList(P, t, s[i]), ends)
    BY <2>1, AddProper
  <2>3. Proper(P, FALSE)
    BY <2>1 DEF Proper
  <2>4. Opens(AddToOpenList(P, t, s[i]), P, s[i])
    BY <2>1, <2>3, OpenIs
  <2>. QED
    BY <1>2, <2>1, <2>2, <2>4 DEF Opens
<1>4. Q \in S
  BY <1>2
<1>5. \A P \in S : Proper(P, ends) /\ P.open \subseteq Q.open \cup unmarked
  OBVIOUS
<1> HIDE DEF S, c
<1>6. PICK g \in [0..c -> S] : Makes(g, Q, c, F)
  <2>1. Goes(S, c, F)
    <3> HIDE DEF Step
    <3>. QED
      BY <1>3 DEF Goes
  <2> HIDE DEF F
  <2>. QED
    BY <1>1, <1>4, <2>1, PassExists DEF c
<1>7. Unfolds(g)
  <2>1. ASSUME NEW i \in 0..c PROVE g[i] = IF i = 0 THEN Q ELSE Step(g[i - 1], i)
    <3> HIDE DEF Step
    <3>1. CASE i = 0
      BY <1>6, <3>1 DEF Makes
    <3>2. CASE i # 0
      <4>1. i \in 1..c /\ i - 1 \in 0..c
        BY <1>1, <3>2
      <4>2. g[i - 1] \in S
        BY <4>1
      <4>3. g[i] = F[<<g[i - 1], i>>]
        BY <1>6, <4>1 DEF Makes
      <4>. QED
        BY <3>2, <4>1, <4>2, <4>3
    <3>. QED
      BY <3>1, <3>2
  <2>. QED
    BY <2>1
<1> DEFINE out == CHOOSE h : Unfolds(h)
<1>8. AddFresh(Q, t, unmarked, s) = out[c]
  BY DEF AddFresh, c
<1>9. Unfolds(out)
  BY <1>7
<1> HIDE DEF out
<1>10. out[0] = Q /\ \A i \in 1..c : out[i] = Step(out[i - 1], i)
  BY <1>1, <1>9
<1> HIDE DEF Unfolds, Step
<1> DEFINE Inv == {i \in 0..c : out[i] \in S}
<1>11. 0 \in Inv
  BY <1>1, <1>4, <1>10
<1>12. ASSUME NEW i \in 1..c, i - 1 \in Inv PROVE i \in Inv
  BY <1>1, <1>3, <1>10, <1>12
<1>13. c \in Inv
  <2> HIDE DEF Inv
  <2>. QED
    BY <1>1, <1>11, <1>12, PassKeeps
<1>. QED
  BY <1>5, <1>8, <1>13

\* PopOpenList of a list that is not empty.
LEMMA PopProper ==
  ASSUME AreasOK, NEW Q, NEW ends \in BOOLEAN, Proper(Q, ends), Q.head # NoArea
  PROVE  Proper(PopOpenList(Q), ends)
<1>1. PICK n \in Nat : \E s \in [1..n -> Areas] : IsList(Q, s, n) /\ (ends => Ends(Q, s, n))
  BY DEF Proper
<1>2. PICK s \in [1..n -> Areas] : IsList(Q, s, n) /\ (ends => Ends(Q, s, n))
  BY <1>1
<1>3. n # 0
  BY <1>2 DEF IsList, At
<1>4. /\ IsList(PopOpenList(Q), Rest(s, n), n - 1)
      /\ Ends(Q, s, n) => Ends(PopOpenList(Q), Rest(s, n), n - 1)
  BY <1>2, <1>3, PopIs
<1>5. n - 1 \in Nat /\ Rest(s, n) \in [1..(n - 1) -> Areas]
  BY <1>4 DEF IsList
<1>. QED
  BY <1>2, <1>4, <1>5 DEF Proper

\* AddToOpenListTail, while the tail is right.
LEMMA AddTailProper ==
  ASSUME AreasOK, NEW Q, Proper(Q, TRUE), NEW a \in Areas
  PROVE  Proper(AddToOpenListTail(Q, a), TRUE)
<1>1. PICK n \in Nat : \E s \in [1..n -> Areas] : IsList(Q, s, n) /\ Ends(Q, s, n)
  BY DEF Proper
<1>2. PICK s \in [1..n -> Areas] : IsList(Q, s, n) /\ Ends(Q, s, n)
  BY <1>1
<1>3. CASE a \in Q.open
  BY <1>3 DEF AddToOpenListTail
<1>4. CASE a \notin Q.open
  BY <1>2, <1>4, AddTailIs DEF Proper
<1>. QED
  BY <1>3, <1>4

\* UpdateOnOpenList, which may leave the tail behind.
LEMMA UpdateProper ==
  ASSUME AreasOK, NEW Q, NEW ends \in BOOLEAN, Proper(Q, ends), NEW t, NEW a \in Areas, a \in Q.open
  PROVE  Proper(UpdateOnOpenList(Q, t, a), FALSE)
<1>1. PICK n \in Nat : \E s \in [1..n -> Areas] : IsList(Q, s, n)
  BY DEF Proper
<1>2. PICK s \in [1..n -> Areas] : IsList(Q, s, n)
  BY <1>1
<1>. QED
  BY <1>2, UpdateIs DEF Proper

\* ClearSearchLists leaves an empty list.
LEMMA ClearIs ==
  ASSUME NEW Q \in OpenLists
  PROVE  /\ IsList(ClearSearchLists(Q), <<>>, 0)
         /\ Ends(ClearSearchLists(Q), <<>>, 0)
         /\ <<>> \in [1..0 -> Areas]
<1> DEFINE P == ClearSearchLists(Q)
<1>1. P \in OpenLists /\ P.head = NoArea /\ P.tail = NoArea /\ P.open = {}
  BY DEF ClearSearchLists, OpenLists, AreaOrNull
<1>2. <<>> \in [1..0 -> Areas]
  OBVIOUS
<1>3. At(<<>>, 0, 1) = NoArea /\ At(<<>>, 0, 0) = NoArea
  BY DEF At
<1> HIDE DEF P
<1>. QED
  BY <1>1, <1>2, <1>3 DEF IsList, Ends, P

\* An empty list is proper.
LEMMA ClearProper ==
  ASSUME NEW Q \in OpenLists, NEW ends \in BOOLEAN
  PROVE  Proper(ClearSearchLists(Q), ends)
BY ClearIs DEF Proper

-----------------------------------------------------------------------------
(***************************************************************************)
(* The searches that run.                                                  *)
(***************************************************************************)

\* A running NavAreaBuildPath.
PathFrames ==
  {f \in [start : Areas, goal : Areas \cup {NoArea}, pos : Areas \cup {NoArea}, team : DOMAIN Teams,
          limit : Nat, at : {"start", "pop", "next", "cost"}, area : Areas, i : Nat, closest : Areas,
          nearest : Int, alone : BOOLEAN] :
     /\ Target(f) \in Areas /\ f.goal \notin Blocked(f)
     /\ f.at \in {"next", "cost"} => f.i >= 1
     /\ f.at = "cost" => f.i \in 1..Len(Adjacent(f.area))}

\* A running CollectSurroundingAreas.
CollectFrames ==
  [at : {"collect"}, start : Areas, limit : Nat, rise : Nat, nearby : Seq(Areas), alone : BOOLEAN]

Frames == PathFrames \cup CollectFrames

\* Only the innermost search runs, and only it can be undisturbed.
Stack(st) ==
  /\ st \in Seq(Frames) /\ Len(st) <= MaxDepth
  /\ \A i \in 1..Len(st) - 1 : st[i].at \in {"start", "cost"} /\ ~st[i].alone

\* The innermost search is not undisturbed.
Calm(st) == st # <<>> => ~st[Len(st)].alone \/ st[Len(st)].at = "collect"

\* A frame that is not one of a collection is one of a path.
LEMMA PathFrameIs ==
  ASSUME NEW f \in Frames, f.at # "collect"
  PROVE  f \in PathFrames
BY DEF Frames, CollectFrames

\* The other frames.
LEMMA CollectFrameIs ==
  ASSUME NEW f \in Frames, f.at = "collect"
  PROVE  f \in CollectFrames
BY DEF Frames, PathFrames

\* A frame that something else has disturbed is a frame.
LEMMA FrameDisturbed ==
  ASSUME NEW f \in Frames
  PROVE  /\ [f EXCEPT !.alone = FALSE] \in Frames
         /\ [f EXCEPT !.alone = FALSE].at = f.at
         /\ [f EXCEPT !.alone = FALSE].alone = FALSE
         /\ f.alone \in BOOLEAN
<1>1. CASE f \in CollectFrames
  BY <1>1 DEF Frames, CollectFrames
<1>2. CASE f \in PathFrames
  <2> DEFINE g == [f EXCEPT !.alone = FALSE]
  <2>1. /\ g \in [start : Areas, goal : Areas \cup {NoArea}, pos : Areas \cup {NoArea}, team : DOMAIN Teams,
                  limit : Nat, at : {"start", "pop", "next", "cost"}, area : Areas, i : Nat, closest : Areas,
                  nearest : Int, alone : BOOLEAN]
        /\ g.goal = f.goal /\ g.pos = f.pos /\ g.team = f.team /\ g.at = f.at /\ g.i = f.i /\ g.area = f.area
        /\ g.alone = FALSE /\ f.alone \in BOOLEAN
    BY <1>2 DEF PathFrames
  <2> HIDE DEF g
  <2>2. Target(g) = Target(f) /\ Blocked(g) = Blocked(f)
    BY <2>1 DEF Target, Blocked
  <2>3. g \in PathFrames
    BY <1>2, <2>1, <2>2 DEF PathFrames
  <2>. QED
    BY <2>1, <2>3 DEF Frames, g
<1>. QED
  BY <1>1, <1>2 DEF Frames

\* SetTop: another frame for the innermost search.
LEMMA StackSet ==
  ASSUME NEW st, Stack(st), st # <<>>, NEW f \in Frames
  PROVE  LET u == [st EXCEPT ![Len(st)] = f]
         IN Stack(u) /\ u # <<>> /\ u[Len(u)] = f
<1> DEFINE u == [st EXCEPT ![Len(st)] = f]
<1>1. st \in Seq(Frames) /\ Len(st) \in Nat /\ Len(st) \in 1..Len(st)
  BY LastKnown DEF Stack
<1>2. u \in Seq(Frames) /\ Len(u) = Len(st) /\ u[Len(st)] = f /\ \A i \in 1..Len(st) - 1 : u[i] = st[i]
  BY <1>1
<1> HIDE DEF u
<1>3. u # <<>>
  BY <1>1, <1>2, EmptySeq
<1>. QED
  BY <1>2, <1>3 DEF Stack, u

\* What is left of a sequence without its last element.
LEMMA FrontLast ==
  ASSUME NEW S, NEW s \in Seq(S), s # <<>>
  PROVE  /\ Front(s) \in Seq(S) /\ Last(s) \in S /\ Len(s) \in Nat \ {0}
         /\ Len(Front(s)) = Len(s) - 1
         /\ \A i \in 1..(Len(s) - 1) : Front(s)[i] = s[i]
<1>1. Len(s) \in Nat \ {0} /\ \A i \in 1..Len(s) : s[i] \in S
  BY EmptySeq, ElementOfSeq
<1>2. \A i \in 1..(Len(s) - 1) : s[i] \in S
  BY <1>1
<1> DEFINE n == Len(s)
           f == SubSeq(s, 1, n - 1)
<1>3. /\ f \in Seq(S)
      /\ Len(f) = IF 1 <= n - 1 THEN n - 1 - 1 + 1 ELSE 0
      /\ \A i \in 1..(n - 1 - 1 + 1) : f[i] = s[1 + i - 1]
  BY <1>1, <1>2, SubSeqProperties
<1>4. n \in Nat \ {0} /\ s[n] \in S
  BY <1>1
<1>5. f = Front(s) /\ s[n] = Last(s)
  BY DEF Front, Last
<1> HIDE DEF f, n
<1>6. Len(f) = n - 1 /\ \A i \in 1..(n - 1) : f[i] = s[i]
  BY <1>3, <1>4
<1>7. f \in Seq(S) /\ s[n] \in S /\ n \in Nat \ {0} /\ Len(f) = n - 1 /\ \A i \in 1..(n - 1) : f[i] = s[i]
  BY <1>3, <1>4, <1>6
<1>. QED
  BY <1>5, <1>7 DEF n

\* A search that returns leaves the one that it has disturbed.
LEMMA StackFront ==
  ASSUME MaxDepth \in Nat, NEW st, Stack(st), st # <<>>
  PROVE  Stack(Front(st)) /\ Calm(Front(st))
<1> DEFINE u == Front(st)
<1>1. st \in Seq(Frames) /\ Len(st) \in Nat /\ Len(st) \in 1..Len(st) /\ Len(st) <= MaxDepth
  BY LastKnown DEF Stack
<1>2. u \in Seq(Frames) /\ Len(u) = Len(st) - 1 /\ \A i \in 1..Len(st) - 1 : u[i] = st[i]
  BY <1>1, FrontLast
<1> HIDE DEF u
<1>3. Stack(u)
  <2>1. \A i \in 1..Len(u) - 1 : i \in 1..Len(st) - 1
    BY <1>1, <1>2
  <2>2. Len(u) <= MaxDepth
    BY <1>1, <1>2
  <2>. QED
    BY <1>1, <1>2, <2>1, <2>2 DEF Stack
<1>4. Calm(u)
  <2> SUFFICES ASSUME u # <<>> PROVE ~u[Len(u)].alone
    BY DEF Calm
  <2>1. Len(u) \in 1..Len(st) - 1
    BY <1>2, LastKnown
  <2>. QED
    BY <1>2, <2>1 DEF Stack
<1>. QED
  BY <1>3, <1>4 DEF u

\* The frames when something has disturbed them all.
LEMMA StackDisturbed ==
  ASSUME NEW st, Stack(st)
  PROVE  /\ Stack(Disturbed(st)) /\ Calm(Disturbed(st))
         /\ Len(Disturbed(st)) = Len(st)
         /\ \A i \in 1..Len(st) : Disturbed(st)[i].alone = FALSE /\ Disturbed(st)[i].at = st[i].at
<1> DEFINE u == Disturbed(st)
<1>1. st \in Seq(Frames) /\ Len(st) \in Nat /\ DOMAIN st = 1..Len(st)
  BY DEF Stack
<1>2. \A i \in 1..Len(st) : /\ st[i] \in Frames /\ [st[i] EXCEPT !.alone = FALSE] \in Frames
                            /\ [st[i] EXCEPT !.alone = FALSE].alone = FALSE
                            /\ [st[i] EXCEPT !.alone = FALSE].at = st[i].at
  BY <1>1, FrameDisturbed
<1>3. u = [i \in 1..Len(st) |-> [st[i] EXCEPT !.alone = FALSE]]
  BY <1>1 DEF Disturbed
<1> HIDE DEF u
<1>4. u \in Seq(Frames) /\ Len(u) = Len(st)
  <2>1. u \in [1..Len(st) -> Frames]
    BY <1>2, <1>3
  <2>. QED
    BY <1>1, <2>1
<1>5. \A i \in 1..Len(st) : u[i].alone = FALSE /\ u[i].at = st[i].at
  BY <1>2, <1>3
<1>6. Stack(u)
  <2>1. \A i \in 1..Len(st) - 1 : i \in 1..Len(st)
    BY <1>1
  <2>. QED
    BY <1>4, <1>5, <2>1 DEF Stack
<1>7. Calm(u)
  <2> SUFFICES ASSUME u # <<>> PROVE ~u[Len(u)].alone
    BY DEF Calm
  <2>1. Len(u) \in 1..Len(st)
    BY <1>4, LastKnown
  <2>. QED
    BY <1>5, <2>1
<1>. QED
  BY <1>4, <1>5, <1>6, <1>7 DEF u

\* A plugin, from inside a cost callback, starts another search.
LEMMA StackPush ==
  ASSUME MaxDepth \in Nat, NEW st, Stack(st), Len(st) < MaxDepth, NEW f \in Frames,
         st # <<>> => st[Len(st)].at \in {"start", "cost"}
  PROVE  LET u == Append(Disturbed(st), f)
         IN Stack(u) /\ u # <<>> /\ u[Len(u)] = f
<1> DEFINE d == Disturbed(st)
           u == Append(d, f)
<1>1. /\ d \in Seq(Frames) /\ Len(d) = Len(st) /\ Len(st) \in Nat
      /\ \A i \in 1..Len(st) : d[i].alone = FALSE /\ d[i].at = st[i].at
  <2>1. Stack(d) /\ Len(d) = Len(st) /\ \A i \in 1..Len(st) : d[i].alone = FALSE /\ d[i].at = st[i].at
    BY StackDisturbed
  <2>. QED
    BY <2>1 DEF Stack
<1> HIDE DEF d
<1>2. /\ u \in Seq(Frames) /\ Len(u) = Len(d) + 1 /\ u # <<>>
      /\ \A i \in 1..Len(d) : u[i] = d[i]
      /\ u[Len(d) + 1] = f
  BY <1>1, AppendKnown
<1> HIDE DEF u
<1>3. ASSUME NEW i \in 1..Len(u) - 1 PROVE u[i].at \in {"start", "cost"} /\ ~u[i].alone
  <2>1. i \in 1..Len(st) /\ u[i].at = st[i].at /\ u[i].alone = FALSE
    BY <1>1, <1>2
  <2>2. CASE i = Len(st)
    <3>1. st # <<>>
      BY <2>1
    <3>. QED
      BY <2>1, <2>2, <3>1
  <2>3. CASE i # Len(st)
    <3>1. i \in 1..Len(st) - 1
      BY <1>1, <2>1, <2>3
    <3>. QED
      BY <2>1, <3>1 DEF Stack
  <2>. QED
    BY <2>2, <2>3
<1>4. Len(u) <= MaxDepth
  BY <1>1, <1>2
<1>. QED
  BY <1>1, <1>2, <1>3, <1>4 DEF Stack, u, d

-----------------------------------------------------------------------------
(***************************************************************************)
(* The inductive invariant of the searches.                                *)
(***************************************************************************)

Numbers == [Areas -> Nat \cup {NaN}]

\* What the plugin's first answer cannot spoil.
Sane == NaN \notin StartCosts

\* Every variable has its type.
NavTyped ==
  /\ L \in OpenLists /\ marked \subseteq Areas /\ parent \in [Areas -> Areas \cup {NoArea}]
  /\ cost \in Numbers /\ total \in Numbers /\ length \in [Areas -> Nat]
  /\ Sane => cost \in [Areas -> Nat] /\ total \in [Areas -> Nat]
  /\ Stack(stack) /\ moved \in BOOLEAN
  /\ calls \in 0..(MaxCalls + 1) /\ natives \in 0..MaxNatives

\* The total costs are the costs so far and what is left to the target of f.
Priced(Q, f, t, c) == \A x \in Q.open : t[x] = c[x] + Distance(x, Target(f))

\* The list of the search f, if nothing has disturbed it: empty before the first
\* area is on it; sorted then, and with the total costs of a search, but for the
\* first area.
Searching(f, Q, s, n, t, c) ==
  f.alone /\ f.at # "collect" /\ Sane =>
    /\ f.at = "start" => n = 0
    /\ f.at # "start" => Sorted(s, n, t) /\ ((f.at = "pop" /\ n = 1) \/ Priced(Q, f, t, c))

\* The list is the proper one of the innermost search.
Held(Q, ends, st, t, c) ==
  \E n \in Nat : \E s \in [1..n -> Areas] :
    /\ IsList(Q, s, n)
    /\ ends => Ends(Q, s, n)
    /\ st # <<>> => Searching(st[Len(st)], Q, s, n, t, c)

NavInv == NavTyped /\ Held(L, ~moved, stack, total, cost)

NavConstants == AreasOK /\ SearchConstantsOK

\* What holds of a list anyway, and of one without a search to disturb.
LEMMA HeldIs ==
  ASSUME NEW Q, NEW ends \in BOOLEAN, NEW st, NEW t, NEW c
  PROVE  /\ Held(Q, ends, st, t, c) => Proper(Q, ends) /\ Q \in OpenLists
         /\ Proper(Q, ends) /\ Calm(st) => Held(Q, ends, st, t, c) /\ Q \in OpenLists
         /\ Proper(Q, TRUE) => Proper(Q, ends)
<1>1. Held(Q, ends, st, t, c) => Proper(Q, ends) /\ Q \in OpenLists
  BY DEF Held, Proper, IsList
<1>2. Proper(Q, ends) /\ Calm(st) => Held(Q, ends, st, t, c) /\ Q \in OpenLists
  <2> SUFFICES ASSUME Proper(Q, ends), Calm(st) PROVE Held(Q, ends, st, t, c) /\ Q \in OpenLists
    OBVIOUS
  <2>1. \A n, s : st # <<>> => Searching(st[Len(st)], Q, s, n, t, c)
    BY DEF Calm, Searching
  <2>2. PICK n \in Nat : \E s \in [1..n -> Areas] : IsList(Q, s, n) /\ (ends => Ends(Q, s, n))
    BY DEF Proper
  <2>3. PICK s \in [1..n -> Areas] : IsList(Q, s, n) /\ (ends => Ends(Q, s, n))
    BY <2>2
  <2>4. Held(Q, ends, st, t, c)
    BY <2>1, <2>3 DEF Held
  <2>. QED
    BY <2>3, <2>4 DEF IsList
<1>3. Proper(Q, TRUE) => Proper(Q, ends)
  BY DEF Proper
<1>. QED
  BY <1>1, <1>2, <1>3

\* A distance is a natural number.
LEMMA DistanceIs ==
  ASSUME NavConstants, NEW a \in Areas, NEW b \in Areas
  PROVE  Distance(a, b) \in Nat
<1>1. Place[a] \in Int /\ Place[b] \in Int
  BY DEF NavConstants, SearchConstantsOK
<1>. QED
  BY <1>1 DEF Distance

\* What is not a number stays none in a sum.
LEMMA PlusIs ==
  ASSUME NEW x \in Nat \cup {NaN}, NEW d \in Nat
  PROVE  /\ Plus(x, d) \in Nat \cup {NaN}
         /\ x \in Nat => Plus(x, d) = x + d /\ Plus(x, d) \in Nat
         /\ x # NaN => x \in Nat
BY DEF Plus, NaN

\* The cost of a connection is a number, unless the cost so far is none.
LEMMA NewCostIs ==
  ASSUME NavConstants, cost \in Numbers, NEW a \in Areas,
         NEW c \in Nat \cup {DeadEnd, NaN}, c # DeadEnd
  PROVE  /\ NewCost(c, a) \in Nat \cup {NaN}
         /\ cost[a] \in Nat => NewCost(c, a) \in Nat
<1> DEFINE x == IF c = NaN THEN Huge ELSE c
           y == Plus(cost[a], 1)
<1>1. x \in Nat
  BY DEF Huge
<1>2. cost[a] \in Nat \cup {NaN}
  BY DEF Numbers
<1>3. y \in Nat \cup {NaN} /\ (cost[a] \in Nat => y \in Nat)
  BY <1>2, PlusIs
<1>4. NewCost(c, a) = IF Below(y, x) THEN x ELSE y
  BY DEF NewCost, Greater
<1> HIDE DEF x, y
<1>. QED
  BY <1>1, <1>3, <1>4

\* The areas next to an area.
LEMMA AdjacentIs ==
  ASSUME NavConstants, NEW a \in Areas
  PROVE  /\ Adjacent(a) \in Seq(Areas) /\ Floor[a] \in Seq(Areas)
         /\ Len(Adjacent(a)) \in Nat
         /\ \A i \in 1..Len(Adjacent(a)) : Adjacent(a)[i] \in Areas
<1>1. Floor[a] \in Seq(Areas) /\ Climbs[a] \in Seq(Areas)
  BY DEF NavConstants, SearchConstantsOK
<1>2. Adjacent(a) = Floor[a] \o Climbs[a]
  BY DEF Adjacent
<1>3. Adjacent(a) \in Seq(Areas)
  BY <1>1, <1>2
<1>. QED
  BY <1>1, <1>3

\* The innermost search.
LEMMA TopIs ==
  ASSUME NavTyped, stack # <<>>
  PROVE  Top = stack[Len(stack)] /\ Top \in Frames
<1>1. stack \in Seq(Frames)
  BY DEF NavTyped, Stack
<1>. QED
  BY <1>1, LastKnown DEF Top, Last

-----------------------------------------------------------------------------
\* The natives touch the lists between the searches and inside of them.
LEMMA NativesKeep ==
  ASSUME NavConstants, NavInv, Natives
  PROVE  NavInv'
<1>1. NavTyped /\ Proper(L, ~moved) /\ L \in OpenLists /\ (~moved) \in BOOLEAN
  <2>1. NavTyped /\ Held(L, ~moved, stack, total, cost) /\ (~moved) \in BOOLEAN
    BY DEF NavInv
  <2>. QED
    BY <2>1, HeldIs
<1>2. AreasOK /\ MaxNatives \in Nat /\ MaxCalls \in Nat
  BY DEF NavConstants, SearchConstantsOK
<1>3. ASSUME Native
      PROVE  /\ Stack(stack') /\ Calm(stack') /\ calls' \in 0..(MaxCalls + 1) /\ natives' \in 0..MaxNatives
  <2>1. Stack(stack) /\ stack' = Disturbed(stack) /\ calls' = calls /\ natives' = natives - 1 /\ natives > 0
    BY <1>1, <1>3 DEF Native, NavTyped
  <2>2. natives - 1 \in 0..MaxNatives /\ calls \in 0..(MaxCalls + 1)
    BY <1>1, <1>2, <2>1 DEF NavTyped
  <2>. QED
    BY <2>1, <2>2, StackDisturbed
<1>4. ASSUME Native, Proper(L', ~moved'), moved' \in BOOLEAN, marked' \subseteq Areas,
             parent' \in [Areas -> Areas \cup {NoArea}], cost' \in Numbers, total' \in Numbers,
             Sane => cost' \in [Areas -> Nat] /\ total' \in [Areas -> Nat], length' = length
      PROVE  NavInv'
  <2>1. Stack(stack') /\ Calm(stack') /\ calls' \in 0..(MaxCalls + 1) /\ natives' \in 0..MaxNatives
    BY <1>3, <1>4
  <2>2. (~moved') \in BOOLEAN
    OBVIOUS
  <2>3. Held(L', ~moved', stack', total', cost') /\ L' \in OpenLists
    BY <1>4, <2>1, <2>2, HeldIs
  <2>4. length' \in [Areas -> Nat]
    BY <1>1, <1>4 DEF NavTyped
  <2>. QED
    BY <1>4, <2>1, <2>3, <2>4 DEF NavInv, NavTyped
<1>5. /\ moved \in BOOLEAN /\ marked \subseteq Areas /\ parent \in [Areas -> Areas \cup {NoArea}]
      /\ cost \in Numbers /\ total \in Numbers
      /\ Sane => cost \in [Areas -> Nat] /\ total \in [Areas -> Nat]
  BY <1>1 DEF NavTyped
<1>6. CASE NativeClear
  <2>1. Native /\ L' = ClearSearchLists(L) /\ marked' = {} /\ moved' = FALSE
        /\ UNCHANGED <<parent, cost, total, length>>
    BY <1>6 DEF NativeClear
  <2>2. Proper(L', ~moved')
    BY <1>1, <2>1, ClearProper
  <2>. QED
    BY <1>4, <1>5, <2>1, <2>2
<1>7. CASE NativePop
  <2>1. Native /\ L.head # NoArea /\ L' = PopOpenList(L)
        /\ UNCHANGED <<marked, parent, cost, total, length, moved>>
    BY <1>7 DEF NativePop
  <2>2. Proper(L', ~moved')
    BY <1>1, <1>2, <2>1, PopProper
  <2>. QED
    BY <1>4, <1>5, <2>1, <2>2
<1>8. ASSUME NEW a \in Areas, NativeAdd(a) PROVE NavInv'
  <2>1. Native /\ L' = AddToOpenList(L, total, a)
        /\ UNCHANGED <<marked, parent, cost, total, length, moved>>
    BY <1>8 DEF NativeAdd
  <2>2. Proper(L', ~moved')
    BY <1>1, <1>2, <2>1, AddProper
  <2>. QED
    BY <1>4, <1>5, <2>1, <2>2
<1>9. ASSUME NEW a \in Areas, moved = FALSE, NativeAddTail(a) PROVE NavInv'
  <2>1. Native /\ L' = AddToOpenListTail(L, a)
        /\ UNCHANGED <<marked, parent, cost, total, length, moved>>
    BY <1>9 DEF NativeAddTail
  <2>2. Proper(L, TRUE)
    BY <1>1, <1>9
  <2>3. Proper(L', ~moved')
    BY <1>2, <1>9, <2>1, <2>2, AddTailProper
  <2>. QED
    BY <1>4, <1>5, <2>1, <2>3
<1>10. ASSUME NEW a \in Areas, NativeClose(a) PROVE NavInv'
  <2>1. Native /\ marked' = marked \cup {a} /\ UNCHANGED <<L, parent, cost, total, length, moved>>
    BY <1>10 DEF NativeClose, AddToClosedList
  <2>2. Proper(L', ~moved')
    BY <1>1, <2>1
  <2>. QED
    BY <1>4, <1>5, <2>1, <2>2
<1>11. ASSUME NEW a \in Areas, NEW o \in Offers, NativeUpdate(a, o.total) PROVE NavInv'
  <2>1. /\ Native /\ a \in L.open /\ total' = [total EXCEPT ![a] = o.total]
        /\ L' = UpdateOnOpenList(L, total', a) /\ moved' = TRUE
        /\ UNCHANGED <<marked, parent, cost, length>>
    BY <1>11 DEF NativeUpdate
  <2>2. Proper(L', FALSE)
    BY <1>1, <1>2, <2>1, UpdateProper
  <2>3. o.total \in Nat
    BY DEF NavConstants, SearchConstantsOK
  <2>4. total' \in Numbers /\ (Sane => total' \in [Areas -> Nat])
    BY <1>5, <2>1, <2>3 DEF Numbers
  <2>5. Proper(L', ~moved')
    BY <2>1, <2>2
  <2>. QED
    BY <1>4, <1>5, <2>1, <2>4, <2>5
<1>12. ASSUME NEW a \in Areas, NEW o \in Offers, NativeSet(a, o) PROVE NavInv'
  <2>1. /\ Native /\ parent' = [parent EXCEPT ![a] = o.parent] /\ cost' = [cost EXCEPT ![a] = o.cost]
        /\ total' = [total EXCEPT ![a] = o.total] /\ UNCHANGED <<L, marked, length, moved>>
    BY <1>12 DEF NativeSet
  <2>2. o.total \in Nat /\ o.cost \in Nat /\ o.parent \in Areas \cup {NoArea}
    BY DEF NavConstants, SearchConstantsOK, AreaOrNull
  <2>3. /\ total' \in Numbers /\ (Sane => total' \in [Areas -> Nat])
        /\ cost' \in Numbers /\ (Sane => cost' \in [Areas -> Nat])
        /\ parent' \in [Areas -> Areas \cup {NoArea}]
    BY <1>5, <2>1, <2>2 DEF Numbers
  <2>4. Proper(L', ~moved')
    BY <1>1, <2>1
  <2>. QED
    BY <1>4, <1>5, <2>1, <2>3, <2>4
<1>. QED
  BY <1>6, <1>7, <1>8, <1>9, <1>10, <1>11, <1>12 DEF Natives

-----------------------------------------------------------------------------
\* A frame that moves on within its search.
LEMMA MovesIs ==
  ASSUME NEW f \in PathFrames,
         NEW g \in [start : Areas, goal : Areas \cup {NoArea}, pos : Areas \cup {NoArea}, team : DOMAIN Teams,
                    limit : Nat, at : {"start", "pop", "next", "cost"}, area : Areas, i : Nat, closest : Areas,
                    nearest : Int, alone : BOOLEAN],
         g.goal = f.goal, g.pos = f.pos, g.team = f.team,
         g.at \in {"next", "cost"} => g.i >= 1,
         g.at = "cost" => g.i \in 1..Len(Adjacent(g.area))
  PROVE  g \in Frames /\ Target(g) = Target(f) /\ Target(f) \in Areas
<1>1. Target(g) = Target(f) /\ Blocked(g) = Blocked(f)
  BY DEF Target, Blocked
<1>2. Target(f) \in Areas /\ f.goal \notin Blocked(f)
  BY DEF PathFrames
<1>. QED
  BY <1>1, <1>2 DEF Frames, PathFrames

\* The innermost frame is exchanged.
LEMMA StackTop ==
  ASSUME NEW st, Stack(st), st # <<>>, NEW g \in Frames
  PROVE  LET u == [st EXCEPT ![Len(st)] = g]
         IN Stack(u) /\ u # <<>> /\ u[Len(u)] = g
<1> DEFINE u == [st EXCEPT ![Len(st)] = g]
<1>1. st \in Seq(Frames) /\ Len(st) \in Nat /\ Len(st) \in 1..Len(st) /\ Len(st) <= MaxDepth
  BY LastKnown DEF Stack
<1>2. u \in Seq(Frames) /\ Len(u) = Len(st) /\ u[Len(st)] = g
  BY <1>1
<1>3. \A i \in 1..Len(st) - 1 : u[i] = st[i]
  BY <1>1
<1>4. u # <<>>
  BY <1>1, <1>2
<1> HIDE DEF u
<1>5. \A i \in 1..Len(u) - 1 : u[i].at \in {"start", "cost"} /\ ~u[i].alone
  BY <1>2, <1>3 DEF Stack
<1>6. Stack(u) /\ u # <<>> /\ u[Len(u)] = g
  BY <1>1, <1>2, <1>4, <1>5 DEF Stack
<1>. QED
  BY <1>6 DEF u

\* The list that is held.
LEMMA HeldBy ==
  ASSUME NEW Q, NEW ends \in BOOLEAN, NEW st, NEW t, NEW c,
         NEW n \in Nat, NEW s \in [1..n -> Areas], IsList(Q, s, n), ends => Ends(Q, s, n),
         Searching(st[Len(st)], Q, s, n, t, c)
  PROVE  Held(Q, ends, st, t, c) /\ Q \in OpenLists
<1>1. Held(Q, ends, st, t, c)
  BY DEF Held
<1>. QED
  BY <1>1 DEF IsList

\* A running search.
LEMMA RunningIs ==
  ASSUME NavInv, stack # <<>>, Top.at # "collect"
  PROVE  /\ Top \in PathFrames /\ Top = stack[Len(stack)] /\ Top.alone \in BOOLEAN
         /\ (~moved) \in BOOLEAN /\ moved \in BOOLEAN
         /\ \E n \in Nat : \E s \in [1..n -> Areas] :
              IsList(L, s, n) /\ (~moved => Ends(L, s, n)) /\ Searching(Top, L, s, n, total, cost)
<1>1. NavTyped /\ Held(L, ~moved, stack, total, cost)
  BY DEF NavInv
<1>2. Top \in PathFrames /\ Top = stack[Len(stack)]
  BY <1>1, TopIs, PathFrameIs
<1>3. Top.alone \in BOOLEAN /\ (~moved) \in BOOLEAN /\ moved \in BOOLEAN
  BY <1>1, <1>2 DEF PathFrames, NavTyped
<1>. QED
  BY <1>1, <1>2, <1>3 DEF Held

-----------------------------------------------------------------------------
\* NavAreaBuildPath up to the first call of the functor.
LEMMA BuildPathKeeps ==
  ASSUME NavConstants, NavInv, NEW q \in Requests, BuildPath(q)
  PROVE  NavInv'
<1> DEFINE start == q.start
           target == IF q.goal \in Teams[q.team] THEN NoArea ELSE q.goal
           f == [start |-> start, goal |-> target, pos |-> q.pos, team |-> q.team, limit |-> q.limit,
                 at |-> "start", area |-> start, i |-> 0, closest |-> start, nearest |-> 0, alone |-> TRUE]
<1>1. /\ start \in Areas /\ q.goal \in Areas \cup {NoArea} /\ q.pos \in Areas \cup {NoArea}
      /\ q.team \in DOMAIN Teams /\ q.limit \in Nat /\ Teams[q.team] \subseteq Areas
      /\ NoArea \notin Areas /\ MaxDepth \in Nat /\ MaxCalls \in Nat
  BY DEF NavConstants, SearchConstantsOK, AreasOK, AreaOrNull
<1>2. target \in Areas \cup {NoArea} /\ target \notin Teams[q.team]
  BY <1>1
<1>3. /\ stack # <<>> => Top.at \in {"start", "cost"}
      /\ calls > 0 /\ Len(stack) < MaxDepth /\ calls' = calls - 1
      /\ parent' = [parent EXCEPT ![start] = NoArea]
      /\ UNCHANGED <<cost, length, natives>>
  BY DEF BuildPath, MaySearch, PluginRuns
<1>4. \/ UNCHANGED <<L, marked, total, moved>> /\ stack' = Disturbed(stack)
      \/ /\ ~(target = NoArea /\ q.pos = NoArea)
         /\ L' = ClearSearchLists(L) /\ marked' = {} /\ moved' = FALSE
         /\ total' = [total EXCEPT ![start] = Distance(start, Target(f))]
         /\ stack' = Append(Disturbed(stack), f)
  BY DEF BuildPath
<1>5. NavTyped /\ Held(L, ~moved, stack, total, cost)
  BY DEF NavInv
<1>6. /\ parent' \in [Areas -> Areas \cup {NoArea}] /\ calls' \in 0..(MaxCalls + 1)
      /\ natives' \in 0..MaxNatives /\ length' \in [Areas -> Nat]
  BY <1>1, <1>3, <1>5 DEF NavTyped
<1>7. CASE UNCHANGED <<L, marked, total, moved>> /\ stack' = Disturbed(stack)
  <2>1. Stack(stack') /\ Calm(stack')
    BY <1>5, <1>7, StackDisturbed DEF NavTyped
  <2>2. Proper(L', ~moved') /\ (~moved') \in BOOLEAN
    BY <1>5, <1>7, HeldIs DEF NavTyped
  <2>3. Held(L', ~moved', stack', total', cost') /\ L' \in OpenLists
    BY <2>1, <2>2, HeldIs
  <2>. QED
    BY <1>3, <1>5, <1>6, <1>7, <2>1, <2>3 DEF NavInv, NavTyped
<1>8. ASSUME ~(target = NoArea /\ q.pos = NoArea),
             L' = ClearSearchLists(L), marked' = {}, moved' = FALSE,
             total' = [total EXCEPT ![start] = Distance(start, Target(f))],
             stack' = Append(Disturbed(stack), f)
      PROVE  NavInv'
  <2>1. /\ f \in [start : Areas, goal : Areas \cup {NoArea}, pos : Areas \cup {NoArea}, team : DOMAIN Teams,
                  limit : Nat, at : {"start", "pop", "next", "cost"}, area : Areas, i : Nat, closest : Areas,
                  nearest : Int, alone : BOOLEAN]
        /\ f.goal = target /\ f.pos = q.pos /\ f.team = q.team /\ f.at = "start"
    BY <1>1, <1>2
  <2> HIDE DEF f
  <2>2. Target(f) \in Areas /\ f.goal \notin Blocked(f)
    BY <1>1, <1>2, <1>8, <2>1 DEF Target, Blocked
  <2>3. f \in Frames
    BY <2>1, <2>2 DEF Frames, PathFrames
  <2>4. Stack(stack) /\ L \in OpenLists
    BY <1>5 DEF NavTyped
  <2>5. stack # <<>> => stack[Len(stack)].at \in {"start", "cost"}
    BY <1>3, <1>5, TopIs
  <2>6. Stack(stack') /\ stack' # <<>> /\ stack'[Len(stack')] = f
    BY <1>1, <1>3, <1>8, <2>3, <2>4, <2>5, StackPush
  <2>7. Searching(f, L', <<>>, 0, total', cost')
    BY <2>1 DEF Searching
  <2>8. Held(L', ~moved', stack', total', cost') /\ L' \in OpenLists
    <3>1. /\ IsList(L', <<>>, 0) /\ Ends(L', <<>>, 0) /\ <<>> \in [1..0 -> Areas]
          /\ (~moved') \in BOOLEAN /\ 0 \in Nat
      BY <1>8, <2>4, ClearIs
    <3>. QED
      BY <2>6, <2>7, <3>1, HeldBy
  <2>9. Distance(start, Target(f)) \in Nat
    BY <1>1, <2>2, DistanceIs
  <2>10. total' \in Numbers /\ (Sane => total' \in [Areas -> Nat])
    BY <1>5, <1>8, <2>9 DEF NavTyped, Numbers
  <2>. QED
    BY <1>3, <1>5, <1>6, <1>8, <2>6, <2>8, <2>10 DEF NavInv, NavTyped
<1>. QED
  BY <1>4, <1>7, <1>8

\* A search that returns leaves a proper list to one that it has disturbed.
LEMMA ReturnKeeps ==
  ASSUME NavConstants, NavInv, stack # <<>>, stack' = Front(stack),
         Proper(L', ~moved), moved' = moved,
         UNCHANGED <<marked, parent, cost, total, length, calls, natives>>
  PROVE  NavInv'
<1>1. NavTyped /\ Stack(stack) /\ MaxDepth \in Nat
  BY DEF NavInv, NavTyped, NavConstants, SearchConstantsOK
<1>2. Stack(stack') /\ Calm(stack')
  BY <1>1, StackFront
<1>3. (~moved') \in BOOLEAN /\ Proper(L', ~moved')
  OBVIOUS
<1>4. Held(L', ~moved', stack', total', cost') /\ L' \in OpenLists
  BY <1>2, <1>3, HeldIs
<1>. QED
  BY <1>1, <1>2, <1>4 DEF NavInv, NavTyped

\* The cost of the first area.
LEMMA StartCostKeeps ==
  ASSUME NavConstants, NavInv, NEW c \in StartCosts, StartCost(c)
  PROVE  NavInv'
<1> DEFINE f == Top
           g == [f EXCEPT !.at = "pop", !.nearest = total[f.start]]
<1>1. stack # <<>> /\ f.at = "start" /\ UNCHANGED <<calls, natives, moved>>
  BY DEF StartCost
<1>2. /\ f \in PathFrames /\ f = stack[Len(stack)] /\ f.alone \in BOOLEAN /\ (~moved) \in BOOLEAN
      /\ \E n \in Nat : \E s \in [1..n -> Areas] :
           IsList(L, s, n) /\ (~moved => Ends(L, s, n)) /\ Searching(f, L, s, n, total, cost)
  BY <1>1, RunningIs
<1>3. NavTyped /\ AreasOK /\ Stack(stack) /\ c \in Nat \cup {DeadEnd, NaN} /\ (Sane => c # NaN)
  BY DEF NavInv, NavTyped, NavConstants, SearchConstantsOK, Sane
<1>4. CASE c = DeadEnd
  <2>1. stack' = Front(stack) /\ UNCHANGED <<L, marked, parent, cost, total, length>>
    BY <1>4 DEF StartCost, SearchReturns, search
  <2>2. Proper(L', ~moved)
    BY <1>2, <2>1 DEF Proper
  <2>. QED
    BY <1>1, <2>1, <2>2, ReturnKeeps
<1>5. CASE c # DeadEnd
  <2>1. /\ cost' = [cost EXCEPT ![f.start] = c] /\ length' = [length EXCEPT ![f.start] = 0]
        /\ L' = AddToOpenList(L, total, f.start)
        /\ stack' = [stack EXCEPT ![Len(stack)] = g]
        /\ UNCHANGED <<marked, parent, total>>
    BY <1>5 DEF StartCost, SetTop
  <2> HIDE DEF f
  <2>2. f.start \in Areas /\ total[f.start] \in Int
    <3>1. f.start \in Areas
      BY <1>2 DEF PathFrames
    <3>2. total[f.start] \in Nat \cup {NaN}
      BY <1>3, <3>1 DEF NavTyped, Numbers
    <3>. QED
      BY <3>1, <3>2 DEF NaN
  <2>3. /\ g \in [start : Areas, goal : Areas \cup {NoArea}, pos : Areas \cup {NoArea}, team : DOMAIN Teams,
                  limit : Nat, at : {"start", "pop", "next", "cost"}, area : Areas, i : Nat, closest : Areas,
                  nearest : Int, alone : BOOLEAN]
        /\ g.goal = f.goal /\ g.pos = f.pos /\ g.team = f.team /\ g.at = "pop" /\ g.alone = f.alone
    BY <1>2, <2>2 DEF PathFrames
  <2> HIDE DEF g
  <2>4. g \in Frames
    BY <1>2, <2>3, MovesIs
  <2>5. Stack(stack') /\ stack' # <<>> /\ stack'[Len(stack')] = g
    BY <1>1, <1>3, <2>1, <2>4, StackTop
  <2>6. cost' \in Numbers /\ (Sane => cost' \in [Areas -> Nat])
    BY <1>3, <1>5, <2>1 DEF NavTyped, Numbers
  <2>7. length' \in [Areas -> Nat]
    BY <1>3, <2>1 DEF NavTyped
  <2>8. PICK n \in Nat : \E s \in [1..n -> Areas] :
           IsList(L, s, n) /\ (~moved => Ends(L, s, n)) /\ Searching(f, L, s, n, total, cost)
    BY <1>2
  <2>9. PICK s \in [1..n -> Areas] :
           IsList(L, s, n) /\ (~moved => Ends(L, s, n)) /\ Searching(f, L, s, n, total, cost)
    BY <2>8
  <2>10. (~moved') \in BOOLEAN /\ moved' = moved
    BY <1>1
  <2>11. Held(L', ~moved', stack', total', cost') /\ L' \in OpenLists
    <3>1. CASE f.start \in L.open /\ L' = L
      <4>1. n # 0
        BY <2>2, <2>9, <3>1 DEF IsList
      <4>2. Searching(g, L', s, n, total', cost')
        BY <1>1, <2>3, <2>9, <4>1 DEF Searching
      <4>. QED
        BY <2>5, <2>9, <2>10, <3>1, <4>2, HeldBy
    <3>2. CASE Added(L', L, s, n, total, f.start)
      <4>1. PICK m \in Nat : \E r \in [1..m -> Areas] :
              /\ IsList(L', r, m) /\ L'.open = L.open \cup {f.start}
              /\ Ends(L, s, n) => Ends(L', r, m)
              /\ total \in [Areas -> Nat] /\ Sorted(s, n, total) => Sorted(r, m, total)
              /\ n = 0 => m = 1
        BY <3>2 DEF Added
      <4>2. PICK r \in [1..m -> Areas] :
              /\ IsList(L', r, m) /\ L'.open = L.open \cup {f.start}
              /\ Ends(L, s, n) => Ends(L', r, m)
              /\ total \in [Areas -> Nat] /\ Sorted(s, n, total) => Sorted(r, m, total)
              /\ n = 0 => m = 1
        BY <4>1
      <4>3. ASSUME g.alone, Sane PROVE Sorted(r, m, total) /\ m = 1
        <5>1. n = 0
          BY <1>1, <2>3, <2>9, <4>3 DEF Searching
        <5>2. Sorted(s, n, total)
          BY <5>1 DEF Sorted
        <5>3. total \in [Areas -> Nat]
          BY <1>3, <4>3 DEF NavTyped
        <5>. QED
          BY <4>2, <5>1, <5>2, <5>3
      <4>4. Searching(g, L', r, m, total', cost')
        BY <2>1, <2>3, <4>3 DEF Searching
      <4>. QED
        BY <2>5, <2>9, <2>10, <4>2, <4>4, HeldBy
    <3>. QED
      BY <1>3, <2>1, <2>2, <2>9, <3>1, <3>2, AddIs
  <2>. QED
    BY <1>1, <1>3, <2>1, <2>5, <2>6, <2>7, <2>10, <2>11 DEF NavInv, NavTyped
<1>. QED
  BY <1>4, <1>5

-----------------------------------------------------------------------------
\* An area is popped: the others stay in order, at their costs.
LEMMA PopKeeps ==
  ASSUME NavConstants, NavInv, Pop
  PROVE  NavInv'
<1> DEFINE f == Top
           a == L.head
           g == [f EXCEPT !.at = "next", !.area = a, !.i = 1]
<1>1. /\ stack # <<>> /\ f.at = "pop" /\ L.head # NoArea /\ L' = PopOpenList(L)
      /\ UNCHANGED <<marked, parent, cost, total, length, calls, natives, moved>>
  BY DEF Pop
<1>2. /\ f \in PathFrames /\ f = stack[Len(stack)] /\ f.alone \in BOOLEAN /\ (~moved) \in BOOLEAN
      /\ \E n \in Nat : \E s \in [1..n -> Areas] :
           IsList(L, s, n) /\ (~moved => Ends(L, s, n)) /\ Searching(f, L, s, n, total, cost)
  BY <1>1, RunningIs
<1>3. NavTyped /\ AreasOK /\ Stack(stack)
  BY DEF NavInv, NavTyped, NavConstants
<1>4. \/ stack' = stack
      \/ stack' = Front(stack)
      \/ stack' = [stack EXCEPT ![Len(stack)] = g]
  BY DEF Pop, SearchReturns, SetTop
<1> HIDE DEF f
<1>5. PICK n \in Nat : \E s \in [1..n -> Areas] :
         IsList(L, s, n) /\ (~moved => Ends(L, s, n)) /\ Searching(f, L, s, n, total, cost)
  BY <1>2
<1>6. PICK s \in [1..n -> Areas] :
         IsList(L, s, n) /\ (~moved => Ends(L, s, n)) /\ Searching(f, L, s, n, total, cost)
  BY <1>5
<1>7. n # 0 /\ a \in Areas
  BY <1>1, <1>3, <1>6, AtKnown DEF IsList, At
<1> DEFINE r == Rest(s, n)
<1>8. /\ IsList(L', r, n - 1) /\ (~moved => Ends(L', r, n - 1))
      /\ L'.open = L.open \ {a}
  BY <1>1, <1>3, <1>6, <1>7, PopIs
<1>9. n - 1 \in Nat /\ r \in [1..(n - 1) -> Areas]
  BY <1>7, <1>8 DEF IsList
<1>10. ASSUME f.alone, Sane PROVE Sorted(r, n - 1, total) /\ Priced(L', f, total, cost)
  <2>1. Sorted(s, n, total) /\ (n = 1 \/ Priced(L, f, total, cost))
    BY <1>1, <1>6, <1>10 DEF Searching
  <2>2. \A i \in 1..(n - 1) : i + 1 \in 1..n /\ r[i] = s[i + 1]
    BY <1>7 DEF Rest
  <2>3. Sorted(r, n - 1, total)
    BY <2>1, <2>2 DEF Sorted
  <2>4. CASE n = 1
    <3>1. L'.open \subseteq Areas /\ \A x \in Areas : x \notin L'.open
      BY <1>8, <2>4 DEF IsList, OpenLists
    <3>. QED
      BY <2>3, <3>1 DEF Priced
  <2>5. CASE Priced(L, f, total, cost)
    BY <1>8, <2>3, <2>5 DEF Priced
  <2>. QED
    BY <2>1, <2>4, <2>5
<1> HIDE DEF r
<1>11. (~moved') \in BOOLEAN /\ moved' = moved
  BY <1>1
<1>12. CASE stack' = Front(stack)
  <2>1. Proper(L', ~moved)
    BY <1>8, <1>9 DEF Proper
  <2>. QED
    BY <1>1, <1>12, <2>1, ReturnKeeps
<1>13. ASSUME NEW h, h \in Frames, h.at \in {"pop", "next"}, h.alone = f.alone, Target(h) = Target(f),
              Stack(stack'), stack'[Len(stack')] = h
       PROVE  NavInv'
  <2>1. Searching(h, L', r, n - 1, total', cost')
    BY <1>1, <1>10, <1>13 DEF Searching, Priced
  <2>2. Held(L', ~moved', stack', total', cost') /\ L' \in OpenLists
    BY <1>8, <1>9, <1>11, <1>13, <2>1, HeldBy
  <2>. QED
    BY <1>1, <1>3, <1>13, <2>2 DEF NavInv, NavTyped
<1>14. CASE stack' = stack
  BY <1>1, <1>2, <1>3, <1>13, <1>14 DEF Frames
<1>15. CASE stack' = [stack EXCEPT ![Len(stack)] = g]
  <2>1. /\ g \in [start : Areas, goal : Areas \cup {NoArea}, pos : Areas \cup {NoArea}, team : DOMAIN Teams,
                  limit : Nat, at : {"start", "pop", "next", "cost"}, area : Areas, i : Nat, closest : Areas,
                  nearest : Int, alone : BOOLEAN]
        /\ g.goal = f.goal /\ g.pos = f.pos /\ g.team = f.team /\ g.at = "next" /\ g.alone = f.alone /\ g.i = 1
    BY <1>2, <1>7 DEF PathFrames
  <2> HIDE DEF g
  <2>2. g \in Frames /\ Target(g) = Target(f)
    BY <1>2, <2>1, MovesIs
  <2>3. Stack(stack') /\ stack'[Len(stack')] = g
    BY <1>1, <1>3, <1>15, <2>2, StackTop
  <2>. QED
    BY <1>13, <2>1, <2>2, <2>3
<1>. QED
  BY <1>4, <1>12, <1>14, <1>15

\* The open list is empty.
LEMMA ExhaustedKeeps ==
  ASSUME NavConstants, NavInv, Exhausted
  PROVE  NavInv'
<1>1. /\ stack # <<>> /\ stack' = Front(stack)
      /\ UNCHANGED <<L, marked, parent, cost, total, length, calls, natives, moved>>
  BY DEF Exhausted, SearchReturns, search
<1>2. Held(L, ~moved, stack, total, cost) /\ (~moved) \in BOOLEAN
  BY DEF NavInv
<1>3. Proper(L', ~moved)
  BY <1>1, <1>2, HeldIs
<1>. QED
  BY <1>1, <1>3, ReturnKeeps

\* A step of the search that leaves the list and the costs alone.
LEMMA MoveKeeps ==
  ASSUME NavConstants, NavInv, stack # <<>>, Top.at \in {"next", "cost"},
         NEW g \in Frames, g.at \in {"pop", "next", "cost"}, g.alone = Top.alone,
         Target(g) = Target(Top),
         stack' = [stack EXCEPT ![Len(stack)] = g],
         marked' \subseteq Areas, length' \in [Areas -> Nat],
         UNCHANGED <<L, parent, cost, total, calls, natives, moved>>
  PROVE  NavInv'
<1> DEFINE f == Top
<1>1. /\ f \in PathFrames /\ f = stack[Len(stack)] /\ f.alone \in BOOLEAN /\ (~moved) \in BOOLEAN
      /\ \E n \in Nat : \E s \in [1..n -> Areas] :
           IsList(L, s, n) /\ (~moved => Ends(L, s, n)) /\ Searching(f, L, s, n, total, cost)
  BY RunningIs
<1>2. NavTyped /\ Stack(stack)
  BY DEF NavInv, NavTyped
<1>3. Stack(stack') /\ stack'[Len(stack')] = g
  BY <1>2, StackTop
<1>4. f.at \in {"next", "cost"} /\ g.alone = f.alone /\ Target(g) = Target(f)
  OBVIOUS
<1> HIDE DEF f
<1>5. PICK n \in Nat : \E s \in [1..n -> Areas] :
         IsList(L, s, n) /\ (~moved => Ends(L, s, n)) /\ Searching(f, L, s, n, total, cost)
  BY <1>1
<1>6. PICK s \in [1..n -> Areas] :
         IsList(L, s, n) /\ (~moved => Ends(L, s, n)) /\ Searching(f, L, s, n, total, cost)
  BY <1>5
<1>7. Searching(g, L', s, n, total', cost')
  BY <1>4, <1>6 DEF Searching, Priced
<1>8. (~moved') \in BOOLEAN /\ L' = L /\ moved' = moved
  BY <1>1
<1>9. Held(L', ~moved', stack', total', cost') /\ L' \in OpenLists
  <2>1. IsList(L', s, n) /\ (~moved' => Ends(L', s, n))
    BY <1>6, <1>8
  <2>2. Searching(stack'[Len(stack')], L', s, n, total', cost')
    BY <1>3, <1>7
  <2>3. Held(L', ~moved', stack', total', cost')
    BY <1>5, <1>6, <2>1, <2>2 DEF Held
  <2>. QED
    BY <2>1, <2>3 DEF IsList
<1>. QED
  BY <1>2, <1>3, <1>9 DEF NavInv, NavTyped

\* The next neighbour.
LEMMA NeighbourKeeps ==
  ASSUME NavConstants, NavInv, Neighbour
  PROVE  NavInv'
<1> DEFINE f == Top
           left == { j \in f.i .. Len(Adjacent(f.area)) : ~ Skipped(f, Adjacent(f.area)[j]) }
           gp == [f EXCEPT !.at = "pop"]
           gc == [f EXCEPT !.at = "cost", !.i = Min(left)]
<1>1. /\ stack # <<>> /\ f.at = "next"
      /\ UNCHANGED <<L, parent, cost, total, length, calls, natives, moved>>
  BY DEF Neighbour
<1>2. \/ left = {} /\ marked' = marked \cup {f.area} /\ stack' = [stack EXCEPT ![Len(stack)] = gp]
      \/ left # {} /\ marked' = marked /\ stack' = [stack EXCEPT ![Len(stack)] = gc]
  BY DEF Neighbour, SetTop, AddToClosedList
<1>3. f \in PathFrames /\ f.area \in Areas /\ f.i \in Nat /\ f.i >= 1
  BY <1>1, RunningIs DEF PathFrames
<1>4. marked \subseteq Areas /\ length' \in [Areas -> Nat]
  BY <1>1 DEF NavInv, NavTyped
<1>5. left \in SUBSET Nat /\ \A j \in left : j \in Nat /\ j >= 1 /\ j \in 1..Len(Adjacent(f.area))
  BY <1>3, AdjacentIs
<1> HIDE DEF left
<1>6. CASE left = {} /\ marked' = marked \cup {f.area} /\ stack' = [stack EXCEPT ![Len(stack)] = gp]
  <2>1. marked' \subseteq Areas
    BY <1>3, <1>4, <1>6
  <2>2. gp \in Frames /\ Target(gp) = Target(f) /\ gp.at = "pop" /\ gp.alone = f.alone
    <3> HIDE DEF f
    <3>1. /\ gp \in [start : Areas, goal : Areas \cup {NoArea}, pos : Areas \cup {NoArea}, team : DOMAIN Teams,
                     limit : Nat, at : {"start", "pop", "next", "cost"}, area : Areas, i : Nat, closest : Areas,
                     nearest : Int, alone : BOOLEAN]
          /\ gp.goal = f.goal /\ gp.pos = f.pos /\ gp.team = f.team /\ gp.at = "pop" /\ gp.alone = f.alone
      BY <1>3 DEF PathFrames
    <3> HIDE DEF gp
    <3>. QED
      BY <1>3, <3>1, MovesIs
  <2> HIDE DEF gp
  <2>. QED
    BY <1>1, <1>4, <1>6, <2>1, <2>2, MoveKeeps
<1>7. CASE left # {} /\ marked' = marked /\ stack' = [stack EXCEPT ![Len(stack)] = gc]
  <2>1. Min(left) \in left
    BY <1>5, <1>7, MinIs
  <2>2. Min(left) \in Nat /\ Min(left) >= 1 /\ Min(left) \in 1..Len(Adjacent(f.area))
    BY <1>5, <2>1
  <2>3. gc \in Frames /\ Target(gc) = Target(f) /\ gc.at = "cost" /\ gc.alone = f.alone
    <3> HIDE DEF f
    <3>1. /\ gc \in [start : Areas, goal : Areas \cup {NoArea}, pos : Areas \cup {NoArea}, team : DOMAIN Teams,
                     limit : Nat, at : {"start", "pop", "next", "cost"}, area : Areas, i : Nat, closest : Areas,
                     nearest : Int, alone : BOOLEAN]
          /\ gc.goal = f.goal /\ gc.pos = f.pos /\ gc.team = f.team /\ gc.at = "cost" /\ gc.alone = f.alone
          /\ gc.i = Min(left) /\ gc.area = f.area
      BY <1>3, <2>2 DEF PathFrames
    <3> HIDE DEF gc
    <3>. QED
      BY <1>3, <2>2, <3>1, MovesIs
  <2> HIDE DEF gc
  <2>. QED
    BY <1>1, <1>4, <1>7, <2>3, MoveKeeps
<1>. QED
  BY <1>2, <1>6, <1>7

-----------------------------------------------------------------------------
\* t is u but for the value v at a.
But(t, u, a, v) == \A x \in Areas : t[x] = IF x = a THEN v ELSE u[x]

\* P is the list of Q with a in its place.
Relaxed(P, Q, s, n, g, a, u, d) ==
  \E m \in Nat : \E r \in [1..m -> Areas] :
    /\ IsList(P, r, m)
    /\ a \notin Q.open /\ Ends(Q, s, n) => Ends(P, r, m)
    /\ Searching(g, P, r, m, u, d)

\* An area reached by a better path is put into its place.
LEMMA RelaxIs ==
  ASSUME NavConstants, NEW Q, NEW n \in Nat, NEW s \in [1..n -> Areas], IsList(Q, s, n),
         NEW f, NEW g, f.at = "cost", g.at = "next", f.alone = g.alone, f.alone \in BOOLEAN,
         Target(g) = Target(f), Target(f) \in Areas,
         NEW t, NEW c, Sane => t \in [Areas -> Nat] /\ c \in [Areas -> Nat],
         Searching(f, Q, s, n, t, c),
         NEW a \in Areas, NEW x, Sane => x \in Nat, Sane /\ a \in Q.open => x < c[a],
         NEW u, NEW d, Sane => u \in [Areas -> Nat],
         But(d, c, a, x), But(u, t, a, Plus(x, Distance(a, Target(f)))), NEW P,
         P = IF a \in Q.open THEN UpdateOnOpenList(Q, u, a) ELSE AddToOpenList(Q, u, a)
  PROVE  Relaxed(P, Q, s, n, g, a, u, d)
<1>1. AreasOK /\ Q.open \subseteq Areas
  BY DEF NavConstants, IsList, OpenLists
<1>2. ASSUME f.alone, Sane
      PROVE  /\ Sorted(s, n, t) /\ Priced(Q, f, t, c)
             /\ t \in [Areas -> Nat] /\ c \in [Areas -> Nat] /\ x \in Nat /\ u \in [Areas -> Nat]
             /\ u[a] = x + Distance(a, Target(f))
             /\ \A b \in Areas : /\ Distance(b, Target(f)) \in Nat
                                 /\ b # a => u[b] = t[b] /\ d[b] = c[b]
             /\ d[a] = x
  <2>1. Sorted(s, n, t) /\ Priced(Q, f, t, c)
    BY <1>2 DEF Searching
  <2>2. \A b \in Areas : Distance(b, Target(f)) \in Nat
    BY DistanceIs
  <2>3. Plus(x, Distance(a, Target(f))) = x + Distance(a, Target(f))
    BY <1>2, <2>2, PlusIs
  <2>4. t \in [Areas -> Nat] /\ c \in [Areas -> Nat] /\ x \in Nat /\ u \in [Areas -> Nat]
    BY <1>2
  <2>5. /\ u[a] = x + Distance(a, Target(f)) /\ d[a] = x
        /\ \A b \in Areas : b # a => u[b] = t[b] /\ d[b] = c[b]
    BY <2>3 DEF But
  <2>. QED
    BY <2>1, <2>2, <2>4, <2>5
<1>3. ASSUME NEW m, NEW r, f.alone /\ Sane => Sorted(r, m, u) /\ Priced(P, f, u, d)
      PROVE  Searching(g, P, r, m, u, d)
  BY <1>3 DEF Searching, Priced
<1>4. ASSUME P.open = Q.open \cup {a}, f.alone, Sane PROVE Priced(P, f, u, d)
  BY <1>1, <1>2, <1>4 DEF Priced
<1>5. CASE a \in Q.open
  <2>1. PICK r \in [1..n -> Areas] :
           /\ IsList(P, r, n)
           /\ u \in [Areas -> Nat] /\ SortedBut(s, n, u, a) => Sorted(r, n, u)
           /\ P.open = Q.open
    BY <1>1, <1>5, UpdateIs
  <2>2. P.open = Q.open \cup {a}
    BY <1>5, <2>1
  <2>3. ASSUME f.alone, Sane PROVE Sorted(r, n, u) /\ Priced(P, f, u, d)
    <3> DEFINE e == Distance(a, Target(f))
    <3>1. e \in Nat /\ x \in Nat /\ c[a] \in Nat /\ x < c[a] /\ t[a] = c[a] + e /\ u[a] = x + e
      BY <1>2, <1>5, <2>3 DEF Priced
    <3>2. u[a] <= t[a]
      <4> HIDE DEF e
      <4>. QED BY <3>1
    <3>3. \A b \in Areas : u[b] <= t[b] /\ u[b] \in Nat /\ t[b] \in Nat /\ (b # a => u[b] = t[b])
      BY <1>2, <2>3, <3>2
    <3>4. SortedBut(s, n, u, a)
      <4>1. ASSUME NEW i \in 1..n, NEW j \in 1..n, i < j, s[j] # a PROVE u[s[i]] <= u[s[j]]
        <5>1. s[i] \in Areas /\ s[j] \in Areas /\ t[s[i]] <= t[s[j]]
          BY <1>2, <2>3, <4>1 DEF Sorted
        <5>. QED
          BY <3>3, <4>1, <5>1
      <4>. QED
        BY <4>1 DEF SortedBut
    <3>. QED
      BY <1>2, <1>4, <2>1, <2>2, <2>3, <3>4
  <2>. QED
    BY <1>3, <1>5, <2>1, <2>3 DEF Relaxed
<1>6. CASE a \notin Q.open
  <2>1. P = AddToOpenList(Q, u, a)
    BY <1>6
  <2>2. Added(P, Q, s, n, u, a)
    BY <1>1, <1>6, <2>1, AddIs
  <2>3. PICK m \in Nat : \E r \in [1..m -> Areas] :
          /\ IsList(P, r, m) /\ P.open = Q.open \cup {a}
          /\ Ends(Q, s, n) => Ends(P, r, m)
          /\ u \in [Areas -> Nat] /\ Sorted(s, n, u) => Sorted(r, m, u)
          /\ n = 0 => m = 1
    BY <2>2 DEF Added
  <2>4. PICK r \in [1..m -> Areas] :
          /\ IsList(P, r, m) /\ P.open = Q.open \cup {a}
          /\ Ends(Q, s, n) => Ends(P, r, m)
          /\ u \in [Areas -> Nat] /\ Sorted(s, n, u) => Sorted(r, m, u)
          /\ n = 0 => m = 1
    BY <2>3
  <2>5. ASSUME f.alone, Sane PROVE Sorted(r, m, u) /\ Priced(P, f, u, d)
    <3>1. \A i \in 1..n : s[i] \in Areas /\ s[i] # a
      BY <1>6 DEF IsList
    <3>2. Sorted(s, n, u)
      <4>1. ASSUME NEW i \in 1..n, NEW j \in 1..n, i < j PROVE u[s[i]] <= u[s[j]]
        BY <1>2, <2>5, <3>1, <4>1 DEF Sorted
      <4>. QED
        BY <4>1 DEF Sorted
    <3>. QED
      BY <1>2, <1>4, <2>4, <2>5, <3>2
  <2>. QED
    BY <1>3, <2>4, <2>5 DEF Relaxed
<1>. QED
  BY <1>5, <1>6

\* The cost of a connection, from the plugin or of the search itself.
LEMMA CostKeeps ==
  ASSUME NavConstants, NavInv, NEW c \in Nat \cup {DeadEnd, NaN}, Cost(c)
  PROVE  NavInv'
<1> DEFINE f == Top
           a == Adjacent(f.area)[f.i]
           far == length[f.area] + Distance(a, f.area)
           x == NewCost(c, f.area)
           left == Distance(a, Target(f))
           t == [total EXCEPT ![a] = Plus(x, left)]
           gs == [f EXCEPT !.at = "next", !.i = @ + 1]
           gr == [f EXCEPT !.at = "next", !.i = @ + 1,
                           !.closest = IF Nearer(f, a, x) THEN a ELSE @,
                           !.nearest = IF Nearer(f, a, x) THEN left ELSE @]
<1>1. stack # <<>> /\ f.at = "cost" /\ UNCHANGED <<marked, calls, natives>>
  BY DEF Cost
<1>2. /\ f \in PathFrames /\ f = stack[Len(stack)] /\ f.alone \in BOOLEAN
      /\ (~moved) \in BOOLEAN /\ moved \in BOOLEAN
      /\ \E n \in Nat : \E s \in [1..n -> Areas] :
           IsList(L, s, n) /\ (~moved => Ends(L, s, n)) /\ Searching(f, L, s, n, total, cost)
  BY <1>1, RunningIs
<1>3. NavTyped /\ AreasOK /\ Stack(stack)
  BY DEF NavInv, NavTyped, NavConstants
<1>4. \/ /\ length' = length /\ UNCHANGED <<L, parent, cost, total, moved>>
         /\ stack' = [stack EXCEPT ![Len(stack)] = gs]
      \/ /\ c # DeadEnd
         /\ length' = [length EXCEPT ![a] = far] \/ length' = length
         /\ Relax(f, a, x)
  BY DEF Cost, SetTop
<1>5. Relax(f, a, x) =>
        \/ UNCHANGED <<L, parent, cost, total, moved>> /\ stack' = [stack EXCEPT ![Len(stack)] = gs]
        \/ /\ ~Worse(a, x) /\ cost' = [cost EXCEPT ![a] = x] /\ total' = t
           /\ L' = IF a \in L.open THEN UpdateOnOpenList(L, t, a) ELSE AddToOpenList(L, t, a)
           /\ parent' = [parent EXCEPT ![a] = f.area] /\ moved' = (moved \/ a \in L.open)
           /\ stack' = [stack EXCEPT ![Len(stack)] = gr]
  BY DEF Relax, SetTop
<1>6. /\ f.area \in Areas /\ f.i \in Nat /\ f.i \in 1..Len(Adjacent(f.area))
      /\ Target(f) \in Areas /\ f.closest \in Areas /\ f.nearest \in Int
  BY <1>1, <1>2 DEF PathFrames
<1>7. a \in Areas
  BY <1>6, AdjacentIs
<1> HIDE DEF f, a
<1>8. left \in Nat /\ Distance(a, f.area) \in Nat
  BY <1>6, <1>7, DistanceIs
<1>9. far \in Nat /\ length \in [Areas -> Nat]
  BY <1>3, <1>6, <1>8 DEF NavTyped
<1> HIDE DEF far, left
<1>16. /\ f \in [start : Areas, goal : Areas \cup {NoArea}, pos : Areas \cup {NoArea}, team : DOMAIN Teams,
                  limit : Nat, at : {"start", "pop", "next", "cost"}, area : Areas, i : Nat, closest : Areas,
                  nearest : Int, alone : BOOLEAN]
       /\ f.i + 1 \in Nat
  <2>1. f \in PathFrames
    BY <1>2
  <2>. QED
    BY <1>6, <2>1 DEF PathFrames
<1>10. /\ gs \in [start : Areas, goal : Areas \cup {NoArea}, pos : Areas \cup {NoArea}, team : DOMAIN Teams,
                  limit : Nat, at : {"start", "pop", "next", "cost"}, area : Areas, i : Nat, closest : Areas,
                  nearest : Int, alone : BOOLEAN]
       /\ gs.goal = f.goal /\ gs.pos = f.pos /\ gs.team = f.team /\ gs.at = "next" /\ gs.alone = f.alone
       /\ gs.i = f.i + 1
  BY <1>16
<1>11. /\ gr \in [start : Areas, goal : Areas \cup {NoArea}, pos : Areas \cup {NoArea}, team : DOMAIN Teams,
                  limit : Nat, at : {"start", "pop", "next", "cost"}, area : Areas, i : Nat, closest : Areas,
                  nearest : Int, alone : BOOLEAN]
       /\ gr.goal = f.goal /\ gr.pos = f.pos /\ gr.team = f.team /\ gr.at = "next" /\ gr.alone = f.alone
       /\ gr.i = f.i + 1
  <2>1. /\ (IF Nearer(f, a, x) THEN a ELSE f.closest) \in Areas
        /\ (IF Nearer(f, a, x) THEN left ELSE f.nearest) \in Int
    BY <1>6, <1>7, <1>8
  <2>. QED
    BY <1>16, <2>1
<1> HIDE DEF gs, gr
<1>12. /\ gs \in Frames /\ Target(gs) = Target(f)
       /\ gr \in Frames /\ Target(gr) = Target(f)
  <2>1. f.i + 1 >= 1
    BY <1>6
  <2>. QED
    BY <1>2, <1>10, <1>11, <2>1, MovesIs
<1>13. length' \in [Areas -> Nat]
  BY <1>4, <1>7, <1>9
<1>14. CASE UNCHANGED <<L, parent, cost, total, moved>> /\ stack' = [stack EXCEPT ![Len(stack)] = gs]
  <2>1. marked' \subseteq Areas
    BY <1>1, <1>3 DEF NavTyped
  <2>. QED
    BY <1>1, <1>10, <1>12, <1>13, <1>14, <2>1, MoveKeeps DEF f
<1>15. ASSUME c # DeadEnd, ~Worse(a, x), cost' = [cost EXCEPT ![a] = x], total' = t,
              L' = IF a \in L.open THEN UpdateOnOpenList(L, t, a) ELSE AddToOpenList(L, t, a),
              parent' = [parent EXCEPT ![a] = f.area], moved' = (moved \/ a \in L.open),
              stack' = [stack EXCEPT ![Len(stack)] = gr]
       PROVE  NavInv'
  <2>1. /\ cost \in Numbers /\ total \in Numbers /\ (Sane => cost \in [Areas -> Nat] /\ total \in [Areas -> Nat])
        /\ parent \in [Areas -> Areas \cup {NoArea}]
    BY <1>3 DEF NavTyped
  <2>2. x \in Nat \cup {NaN} /\ (Sane => x \in Nat)
    BY <1>6, <1>15, <2>1, NewCostIs
  <2>3. Sane /\ a \in L.open => x < cost[a]
    <3>1. ASSUME Sane, a \in L.open PROVE x < cost[a]
      <4>1. x \in Nat /\ cost[a] \in Nat
        BY <1>7, <2>1, <2>2, <3>1
      <4> HIDE DEF x
      <4>2. x # NaN /\ cost[a] # NaN
        BY <4>1 DEF NaN
      <4>3. ~(cost[a] <= x)
        BY <1>15, <3>1, <4>2 DEF Worse
      <4>. QED
        BY <4>1, <4>3
    <3>. QED
      BY <3>1
  <2> HIDE DEF x
  <2>4. Plus(x, left) \in Nat \cup {NaN} /\ (Sane => Plus(x, left) \in Nat)
    BY <1>8, <2>2, PlusIs
  <2>5. t \in Numbers /\ (Sane => t \in [Areas -> Nat]) /\ But(t, total, a, Plus(x, left))
    BY <1>7, <2>1, <2>4 DEF Numbers, But
  <2>6. cost' \in Numbers /\ (Sane => cost' \in [Areas -> Nat]) /\ But(cost', cost, a, x)
    BY <1>7, <1>15, <2>1, <2>2 DEF Numbers, But
  <2> HIDE DEF t
  <2>7. PICK n \in Nat : \E s \in [1..n -> Areas] :
          IsList(L, s, n) /\ (~moved => Ends(L, s, n)) /\ Searching(f, L, s, n, total, cost)
    BY <1>2
  <2>8. PICK s \in [1..n -> Areas] :
          IsList(L, s, n) /\ (~moved => Ends(L, s, n)) /\ Searching(f, L, s, n, total, cost)
    BY <2>7
  <2>9. Relaxed(L', L, s, n, gr, a, t, cost')
    <3>1. f.at = "cost" /\ gr.at = "next" /\ f.alone = gr.alone /\ f.alone \in BOOLEAN
      BY <1>1, <1>2, <1>11
    <3>2. But(t, total, a, Plus(x, Distance(a, Target(f))))
      BY <2>5 DEF left
    <3>3. Target(gr) = Target(f) /\ Target(f) \in Areas /\ a \in Areas
      BY <1>6, <1>7, <1>12
    <3>4. L' = IF a \in L.open THEN UpdateOnOpenList(L, t, a) ELSE AddToOpenList(L, t, a)
      BY <1>15
    <3>5. /\ Sane => total \in [Areas -> Nat] /\ cost \in [Areas -> Nat]
          /\ Sane => x \in Nat
          /\ Sane => t \in [Areas -> Nat]
      BY <2>1, <2>2, <2>5
    <3>6. But(cost', cost, a, x)
      BY <2>6
    <3>7. n \in Nat /\ s \in [1..n -> Areas] /\ IsList(L, s, n) /\ Searching(f, L, s, n, total, cost)
      BY <2>7, <2>8
    <3>. QED
      BY <2>3, <3>1, <3>2, <3>3, <3>4, <3>5, <3>6, <3>7, RelaxIs
  <2>10. PICK m \in Nat : \E r \in [1..m -> Areas] :
          /\ IsList(L', r, m)
          /\ a \notin L.open /\ Ends(L, s, n) => Ends(L', r, m)
          /\ Searching(gr, L', r, m, t, cost')
    BY <2>9 DEF Relaxed
  <2>11. PICK r \in [1..m -> Areas] :
          /\ IsList(L', r, m)
          /\ a \notin L.open /\ Ends(L, s, n) => Ends(L', r, m)
          /\ Searching(gr, L', r, m, t, cost')
    BY <2>10
  <2>12. Stack(stack') /\ stack'[Len(stack')] = gr
    BY <1>1, <1>3, <1>12, <1>15, StackTop
  <2>13. moved' \in BOOLEAN /\ (~moved') \in BOOLEAN /\ (~moved' => ~moved /\ a \notin L.open)
    BY <1>2, <1>15
  <2>14. ~moved' => Ends(L', r, m)
    BY <2>8, <2>11, <2>13
  <2>15. Searching(stack'[Len(stack')], L', r, m, total', cost')
    BY <1>15, <2>11, <2>12
  <2>16. Held(L', ~moved', stack', total', cost') /\ L' \in OpenLists
    BY <2>11, <2>13, <2>14, <2>15, HeldBy
  <2>17. parent' \in [Areas -> Areas \cup {NoArea}]
    BY <1>6, <1>15, <2>1
  <2>18. total' \in Numbers /\ (Sane => total' \in [Areas -> Nat])
    BY <1>15, <2>5
  <2>. QED
    BY <1>1, <1>3, <1>13, <2>6, <2>12, <2>13, <2>16, <2>17, <2>18 DEF NavInv, NavTyped
<1>. QED
  BY <1>4, <1>5, <1>14, <1>15

-----------------------------------------------------------------------------
\* A collection begins with its first area on the list.
LEMMA CollectKeeps ==
  ASSUME NavConstants, NavInv, NEW q \in Surveys, Collect(q.start, q.limit, q.rise)
  PROVE  NavInv'
<1> DEFINE start == q.start
           f == [at |-> "collect", start |-> start, limit |-> q.limit, rise |-> q.rise, nearby |-> <<>>, alone |-> TRUE]
<1>1. start \in Areas /\ q.limit \in Nat /\ q.rise \in Nat /\ MaxDepth \in Nat /\ MaxCalls \in Nat /\ AreasOK
  BY DEF NavConstants, SearchConstantsOK
<1>2. /\ stack # <<>> => Top.at \in {"start", "cost"}
      /\ calls > 0 /\ Len(stack) < MaxDepth /\ calls' = calls - 1 /\ moved' = FALSE
      /\ total' = [total EXCEPT ![start] = 0] /\ cost' = [cost EXCEPT ![start] = 0]
      /\ L' = AddToOpenList(ClearSearchLists(L), total', start)
      /\ parent' = [parent EXCEPT ![start] = NoArea] /\ marked' = {start}
      /\ stack' = Append(Disturbed(stack), f)
      /\ UNCHANGED <<length, natives>>
  BY DEF Collect, MaySearch, PluginRuns
<1>3. NavTyped /\ Stack(stack) /\ L \in OpenLists
  BY DEF NavInv, NavTyped
<1>4. f \in Frames /\ f.at = "collect"
  <2>1. <<>> \in Seq(Areas)
    OBVIOUS
  <2>. QED
    BY <1>1, <2>1 DEF Frames, CollectFrames
<1> HIDE DEF start, f
<1>5. stack # <<>> => stack[Len(stack)].at \in {"start", "cost"}
  BY <1>2, <1>3, TopIs
<1>6. Stack(stack') /\ stack' # <<>> /\ stack'[Len(stack')] = f
  BY <1>1, <1>2, <1>3, <1>4, <1>5, StackPush
<1>7. Calm(stack')
  BY <1>4, <1>6 DEF Calm
<1>8. Proper(ClearSearchLists(L), TRUE)
  BY <1>3, ClearProper
<1>9. Proper(L', TRUE)
  BY <1>1, <1>2, <1>8, AddProper
<1>10. (~moved') \in BOOLEAN /\ Proper(L', ~moved')
  BY <1>2, <1>9
<1>11. Held(L', ~moved', stack', total', cost') /\ L' \in OpenLists
  BY <1>7, <1>10, HeldIs
<1>12. /\ total' \in Numbers /\ (Sane => total' \in [Areas -> Nat])
       /\ cost' \in Numbers /\ (Sane => cost' \in [Areas -> Nat])
       /\ parent' \in [Areas -> Areas \cup {NoArea}] /\ marked' \subseteq Areas
  BY <1>1, <1>2, <1>3 DEF NavTyped, Numbers
<1>13. calls' \in 0..(MaxCalls + 1) /\ natives' \in 0..MaxNatives /\ length' \in [Areas -> Nat] /\ moved' \in BOOLEAN
  <2>1. calls \in 0..(MaxCalls + 1) /\ natives \in 0..MaxNatives /\ length \in [Areas -> Nat]
    BY <1>3 DEF NavTyped
  <2>2. calls - 1 \in 0..(MaxCalls + 1)
    BY <1>1, <1>2, <2>1
  <2>3. calls' = calls - 1 /\ natives' = natives /\ length' = length /\ moved' = FALSE
    BY <1>2
  <2>. QED
    BY <2>1, <2>2, <2>3
<1>. QED
  BY <1>6, <1>11, <1>12, <1>13 DEF NavInv, NavTyped

\* The next area of a collection, and its neighbours on the list.
LEMMA CollectNextKeeps ==
  ASSUME NavConstants, NavInv, CollectNext
  PROVE  NavInv'
<1> DEFINE f == Top
           a == L.head
           unmarked == { b \in ToSet(Floor[a]) : b \notin Teams["any"] /\ b \notin marked \cup {a} }
           g == [f EXCEPT !.nearby = Append(@, a)]
<1>1. stack # <<>> /\ f.at = "collect" /\ a # NoArea /\ UNCHANGED <<length, calls, natives, moved>>
  BY DEF CollectNext
<1>2. \/ L' = PopOpenList(L) /\ UNCHANGED <<stack, marked, parent, cost, total>>
      \/ /\ stack' = [stack EXCEPT ![Len(stack)] = g]
         /\ marked' = marked \cup {a}
         /\ parent' = [b \in Areas |-> IF b \in unmarked THEN a ELSE parent[b]]
         /\ cost' = [b \in Areas |-> IF b \in unmarked THEN Plus(cost[a], Distance(a, b)) ELSE cost[b]]
         /\ total' = [b \in Areas |-> IF b \in unmarked THEN 0 ELSE total[b]]
         /\ L' = AddFresh(PopOpenList(L), total', unmarked, Floor[a])
  BY DEF CollectNext, SetTop, Mark
<1>3. NavTyped /\ Stack(stack) /\ Held(L, ~moved, stack, total, cost) /\ (~moved) \in BOOLEAN /\ AreasOK
  BY DEF NavInv, NavTyped, NavConstants
<1>4. Proper(L, ~moved) /\ L \in OpenLists
  BY <1>3, HeldIs
<1>5. a \in Areas
  BY <1>1, <1>4 DEF OpenLists, AreaOrNull
<1>6. Proper(PopOpenList(L), ~moved)
  BY <1>1, <1>3, <1>4, PopProper
<1>7. f = stack[Len(stack)] /\ f \in CollectFrames
  BY <1>1, <1>3, TopIs, CollectFrameIs
<1>8. (~moved') \in BOOLEAN /\ moved' = moved
  BY <1>1, <1>3
<1> HIDE DEF f, a, unmarked
<1>9. ASSUME Proper(L', ~moved), Calm(stack'), Stack(stack'),
             marked' \subseteq Areas, parent' \in [Areas -> Areas \cup {NoArea}],
             cost' \in Numbers, total' \in Numbers,
             Sane => cost' \in [Areas -> Nat] /\ total' \in [Areas -> Nat]
      PROVE  NavInv'
  <2>1. Held(L', ~moved', stack', total', cost') /\ L' \in OpenLists
    BY <1>8, <1>9, HeldIs
  <2>. QED
    BY <1>1, <1>3, <1>9, <2>1 DEF NavInv, NavTyped
<1>10. CASE L' = PopOpenList(L) /\ UNCHANGED <<stack, marked, parent, cost, total>>
  <2>1. Calm(stack)
    BY <1>1, <1>7 DEF Calm
  <2>. QED
    BY <1>3, <1>6, <1>9, <1>10, <2>1 DEF NavTyped
<1>11. ASSUME stack' = [stack EXCEPT ![Len(stack)] = g],
              marked' = marked \cup {a},
              parent' = [b \in Areas |-> IF b \in unmarked THEN a ELSE parent[b]],
              cost' = [b \in Areas |-> IF b \in unmarked THEN Plus(cost[a], Distance(a, b)) ELSE cost[b]],
              total' = [b \in Areas |-> IF b \in unmarked THEN 0 ELSE total[b]],
              L' = AddFresh(PopOpenList(L), total', unmarked, Floor[a])
       PROVE  NavInv'
  <2>1. Floor[a] \in Seq(Areas)
    BY <1>5, AdjacentIs
  <2>2. Proper(L', ~moved)
    BY <1>3, <1>6, <1>11, <2>1, AddFreshProper
  <2>3. g \in Frames /\ g.at = "collect"
    <3>1. Append(f.nearby, a) \in Seq(Areas)
      BY <1>5, <1>7, AppendKnown DEF CollectFrames
    <3>. QED
      BY <1>7, <3>1 DEF Frames, CollectFrames
  <2> HIDE DEF g
  <2>4. Stack(stack') /\ stack'[Len(stack')] = g
    BY <1>1, <1>3, <1>11, <2>3, StackTop
  <2>5. Calm(stack')
    BY <2>3, <2>4 DEF Calm
  <2>6. /\ marked \subseteq Areas /\ parent \in [Areas -> Areas \cup {NoArea}]
        /\ cost \in [Areas -> Nat \cup {NaN}] /\ total \in [Areas -> Nat \cup {NaN}]
        /\ Sane => cost \in [Areas -> Nat] /\ total \in [Areas -> Nat]
    BY <1>3 DEF NavTyped, Numbers
  <2>7. \A b \in Areas : /\ Plus(cost[a], Distance(a, b)) \in Nat \cup {NaN}
                         /\ Sane => Plus(cost[a], Distance(a, b)) \in Nat
    <3>1. cost[a] \in Nat \cup {NaN} /\ (Sane => cost[a] \in Nat)
      BY <1>5, <2>6
    <3>2. \A b \in Areas : Distance(a, b) \in Nat
      BY <1>5, DistanceIs
    <3>. QED
      BY <3>1, <3>2, PlusIs
  <2>8. marked' \subseteq Areas /\ parent' \in [Areas -> Areas \cup {NoArea}]
    BY <1>5, <1>11, <2>6
  <2>9. cost' \in [Areas -> Nat \cup {NaN}] /\ total' \in [Areas -> Nat \cup {NaN}]
    BY <1>11, <2>6, <2>7
  <2>10. Sane => cost' \in [Areas -> Nat] /\ total' \in [Areas -> Nat]
    BY <1>11, <2>6, <2>7
  <2>. QED
    BY <1>9, <2>2, <2>4, <2>5, <2>8, <2>9, <2>10 DEF Numbers
<1>. QED
  BY <1>2, <1>10, <1>11

\* The end of a collection.
LEMMA CollectEndKeeps ==
  ASSUME NavConstants, NavInv, CollectEnd
  PROVE  NavInv'
<1>1. /\ stack # <<>> /\ stack' = Front(stack)
      /\ UNCHANGED <<L, marked, parent, cost, total, length, calls, natives, moved>>
  BY DEF CollectEnd, search
<1>2. Held(L, ~moved, stack, total, cost) /\ (~moved) \in BOOLEAN
  BY DEF NavInv
<1>3. Proper(L', ~moved)
  BY <1>1, <1>2, HeldIs
<1>. QED
  BY <1>1, <1>3, ReturnKeeps

-----------------------------------------------------------------------------
\* Init establishes the invariant.
LEMMA NavInitInv ==
  ASSUME NavConstants, SearchInit
  PROVE  NavInv
<1>1. /\ L = [head |-> NoArea, tail |-> NoArea, prev |-> [a \in Areas |-> NoArea],
              next |-> [a \in Areas |-> NoArea], open |-> {}]
      /\ marked = {} /\ parent = [a \in Areas |-> NoArea]
      /\ cost = [a \in Areas |-> 0] /\ total = [a \in Areas |-> 0] /\ length = [a \in Areas |-> 0]
      /\ stack = <<>> /\ moved = FALSE
      /\ (calls = MaxCalls /\ natives = 0) \/ (calls = 1 /\ natives = MaxNatives)
  BY DEF SearchInit
<1>2. MaxDepth \in Nat /\ MaxCalls \in Nat /\ MaxNatives \in Nat
  BY DEF NavConstants, SearchConstantsOK
<1>3. L \in OpenLists
  BY <1>1 DEF OpenLists, AreaOrNull
<1>4. Proper(L, TRUE)
  <2>1. IsList(L, <<>>, 0) /\ Ends(L, <<>>, 0) /\ <<>> \in [1..0 -> Areas]
    BY <1>1, <1>3 DEF IsList, Ends, At
  <2>. QED
    BY <2>1 DEF Proper
<1>5. Stack(stack) /\ Calm(stack)
  BY <1>1, <1>2 DEF Stack, Calm
<1>6. Held(L, ~moved, stack, total, cost)
  BY <1>1, <1>4, <1>5, HeldIs
<1>7. calls \in 0..(MaxCalls + 1) /\ natives \in 0..MaxNatives
  BY <1>1, <1>2
<1>. QED
  BY <1>1, <1>3, <1>5, <1>6, <1>7 DEF NavInv, NavTyped, Numbers

\* A search without a functor of its own goes on by distances.
LEMMA OwnCostIs ==
  ASSUME NavConstants, NavInv, stack # <<>>, Top.at = "cost"
  PROVE  OwnCost(Top.area, Adjacent(Top.area)[Top.i]) \in Nat \cup {DeadEnd, NaN}
<1> DEFINE f == Top
           b == Adjacent(f.area)[f.i]
<1>1. f \in PathFrames /\ f.at = "cost"
  BY RunningIs
<1>2. f.area \in Areas /\ f.i \in 1..Len(Adjacent(f.area))
  <2> HIDE DEF f
  <2>. QED BY <1>1 DEF PathFrames
<1>3. b \in Areas
  BY <1>2, AdjacentIs
<1> HIDE DEF f, b
<1>4. cost[f.area] \in Nat \cup {NaN} /\ Distance(f.area, b) \in Nat
  BY <1>2, <1>3, DistanceIs DEF NavInv, NavTyped, Numbers
<1>5. OwnCost(f.area, b) \in Nat \cup {NaN}
  BY <1>4, PlusIs DEF OwnCost
<1>. QED
  BY <1>5 DEF f, b

\* Every step keeps it.
LEMMA NavNextInv ==
  ASSUME NavConstants, NavInv, [SearchNext]_searchVars
  PROVE  NavInv'
<1>1. CASE UNCHANGED searchVars
  BY <1>1 DEF searchVars, NavInv, NavTyped
<1>2. CASE Natives
  BY <1>2, NativesKeep
<1>3. CASE PluginSearches
  BY <1>3, BuildPathKeeps, CollectKeeps DEF PluginSearches
<1>4. CASE Run
  <2>1. ASSUME NEW c \in Costs, Cost(c) PROVE NavInv'
    <3>1. c \in Nat \cup {DeadEnd, NaN}
      BY DEF NavConstants, SearchConstantsOK
    <3>. QED
      BY <2>1, <3>1, CostKeeps
  <2>2. ASSUME stack # <<>>, Top.at = "cost",
               Cost(OwnCost(Top.area, Adjacent(Top.area)[Top.i]))
        PROVE  NavInv'
    BY <2>2, OwnCostIs, CostKeeps
  <2>. QED
    BY <1>4, <2>1, <2>2, StartCostKeeps, PopKeeps, ExhaustedKeeps, NeighbourKeeps, CollectNextKeeps,
       CollectEndKeeps DEF Run
<1>. QED
  BY <1>1, <1>2, <1>3, <1>4 DEF SearchNext

\* The list of every state is the proper one of its innermost search.
LEMMA NavAlways == SearchSpec => []NavInv
<1>1. NavConstants
  BY AreasOK, SearchConstantsOK DEF NavConstants
<1>2. SearchInit => NavInv
  BY <1>1, NavInitInv
<1>3. NavInv /\ [SearchNext]_searchVars => NavInv'
  BY <1>1, NavNextInv
<1>. QED
  BY <1>2, <1>3, PTL DEF SearchSpec

\* Whatever searches and natives the cost callbacks nest, but for AddToOpenListTail after
\* UpdateOnOpenList (see Natives), the list of open areas is linked forth and back, holds
\* each of them once and ends with m_openListTail until UpdateOnOpenList has moved an
\* area; and a search that nothing has disturbed pops its areas in the order of their
\* total costs.
THEOREM OpenListAlwaysSound == SearchSpec => []OpenListSound
<1>1. NavInv => OpenListSound
  <2> SUFFICES ASSUME NavInv PROVE OpenListLinked /\ OpenListOrdered
    BY DEF OpenListSound
  <2>1. Held(L, ~moved, stack, total, cost)
    BY DEF NavInv
  <2>2. PICK n \in Nat : \E s \in [1..n -> Areas] :
          IsList(L, s, n) /\ (~moved => Ends(L, s, n))
          /\ (stack # <<>> => Searching(stack[Len(stack)], L, s, n, total, cost))
    BY <2>1 DEF Held
  <2>3. PICK s \in [1..n -> Areas] :
          IsList(L, s, n) /\ (~moved => Ends(L, s, n))
          /\ (stack # <<>> => Searching(stack[Len(stack)], L, s, n, total, cost))
    BY <2>2
  <2>4. OpenListLinked
    <3>1. Linked(L)
      BY <2>2, <2>3, LinkedIs, AreasOK
    <3>2. ASSUME ~moved PROVE TailIsLast(L)
      <4>1. L.tail = At(s, n, n) /\ Listed(L) = s /\ Len(s) = n
        BY <2>2, <2>3, <3>2, ListedIs, AreasOK DEF Ends
      <4>2. CASE n = 0
        <5>1. L.open = {}
          BY <2>3, <4>2, AreasOK DEF IsList, OpenLists
        <5>. QED
          BY <4>1, <4>2, <5>1 DEF TailIsLast, At
      <4>3. CASE n # 0
        <5>1. n \in 1..n
          BY <4>3
        <5>2. L.open # {}
          BY <2>3, <5>1 DEF IsList
        <5>. QED
          BY <4>1, <5>1, <5>2 DEF TailIsLast, At, Last
      <4>. QED
        BY <4>2, <4>3
    <3>. QED
      BY <3>1, <3>2 DEF OpenListLinked
  <2>5. ASSUME Undisturbed, Top.at = "pop", NaN \notin StartCosts
        PROVE  Ordered(L, total)
    <3>1. stack # <<>> /\ Top.alone /\ Top.at # "collect"
      BY <2>5 DEF Undisturbed
    <3>2. Top = stack[Len(stack)]
      BY <3>1, TopIs DEF NavInv
    <3>3. Sorted(s, n, total) /\ total \in [Areas -> Nat]
      BY <2>3, <2>5, <3>1, <3>2 DEF Searching, Sane, NavInv, NavTyped
    <3>4. Listed(L) = s /\ Len(s) = n
      BY <2>2, <2>3, ListedIs, AreasOK
    <3>5. \A i \in 1..n - 1 : ~Below(total[s[i + 1]], total[s[i]])
      <4>1. ASSUME NEW i \in 1..n - 1 PROVE ~Below(total[s[i + 1]], total[s[i]])
        <5>1. i \in 1..n /\ i + 1 \in 1..n /\ i < i + 1
          BY <2>2
        <5>2. s[i] \in Areas /\ s[i + 1] \in Areas /\ total[s[i]] <= total[s[i + 1]]
          BY <2>3, <3>3, <5>1 DEF Sorted
        <5>3. total[s[i]] \in Nat /\ total[s[i + 1]] \in Nat
          BY <3>3, <5>2
        <5> DEFINE p == total[s[i]]
                   q == total[s[i + 1]]
        <5>4. p \in Nat /\ q \in Nat /\ p <= q
          BY <5>2, <5>3
        <5> HIDE DEF p, q
        <5>5. ~(q < p)
          BY <5>4
        <5>6. ~Below(q, p)
          BY <5>5 DEF Below
        <5>. QED
          BY <5>6 DEF p, q
      <4>. QED
        BY <4>1
    <3>. QED
      BY <3>4, <3>5 DEF Ordered
  <2>. QED
    BY <2>4, <2>5 DEF OpenListOrdered
<1>. QED
  BY <1>1, NavAlways, PTL

\* Every variable of the searches has its type: a search that is not the
\* innermost waits in a cost callback, a search whose cost is asked for has a
\* neighbour to go to, and no goal is an area that is blocked for its search.
THEOREM SearchTypes == SearchSpec => []SearchTypeOK
<1>1. ASSUME NEW f \in Frames PROVE Frame(f)
  <2>1. CASE f \in PathFrames
    BY <2>1 DEF PathFrames, Frame, AreaOrNull
  <2>2. CASE f \in CollectFrames
    <3>1. f.nearby \in Seq(Areas)
      BY <2>2 DEF CollectFrames
    <3>2. ToSet(f.nearby) \subseteq Areas
      BY <3>1, ElementOfSeq DEF ToSet
    <3>. QED
      BY <2>2, <3>2 DEF CollectFrames, Frame
  <2>. QED
    BY <2>1, <2>2 DEF Frames
<1>2. NavInv => SearchTypeOK
  <2> SUFFICES ASSUME NavTyped PROVE SearchTypeOK
    BY DEF NavInv
  <2>1. /\ stack \in Seq(Frames) /\ Len(stack) <= MaxDepth
        /\ \A i \in 1..Len(stack) - 1 : stack[i].at \in {"start", "cost"}
    BY DEF NavTyped, Stack
  <2>2. \A i \in DOMAIN stack : Frame(stack[i])
    BY <1>1, <2>1
  <2>. QED
    BY <2>1, <2>2 DEF NavTyped, Sane, SearchTypeOK, AreaOrNull
<1>. QED
  BY <1>2, NavAlways, PTL

-----------------------------------------------------------------------------
(***************************************************************************)
(* The way back along the parents.                                         *)
(***************************************************************************)

\* From each area of R but the start its parent, which is in R too, leads to it;
\* the rank falls along the way.
Leads(R, start, p, rank) ==
  \A x \in R : x # start => p[x] \in R /\ rank[p[x]] < rank[x] /\ x \in ToSet(Adjacent(p[x]))

\* The parents lead from a to the start.
Home(a, start, p) ==
  \E R \in SUBSET Areas : a \in R /\ start \in R /\ \E rank \in [Areas -> Nat] : Leads(R, start, p, rank)

\* q goes along the parents: at most m areas, or up to the start.
Walk(q, m, R, rank) ==
  /\ q \in Seq(Areas) /\ q # <<>> /\ \A j \in 1..Len(q) : q[j] \in R
  /\ \A j \in 2..Len(q) : q[j - 1] \in ToSet(Adjacent(q[j]))
  /\ \A j, k \in 1..Len(q) : j < k => rank[q[k]] < rank[q[j]]
  /\ q[Len(q)] = result.start \/ Len(q) = m

\* One area further.
LEMMA FurtherIs ==
  ASSUME NoArea \notin Areas, NEW R \in SUBSET Areas, NEW rank \in [Areas -> Nat],
         Leads(R, result.start, parent, rank), NEW m \in Nat, NEW q, Walk(q, m, R, rank)
  PROVE  Walk(Further(q), m + 1, R, rank)
<1> DEFINE n == Len(q)
           a == q[n]
           b == parent[a]
           h == Append(q, b)
<1>1. q \in Seq(Areas) /\ q # <<>> /\ n \in Nat /\ n \in 1..n /\ Last(q) = a
  BY LastKnown DEF Walk, Last
<1>2. CASE a = result.start
  BY <1>1, <1>2 DEF Further, Walk
<1>3. CASE a # result.start
  <2>1. a \in R /\ n = m
    BY <1>1, <1>3 DEF Walk
  <2>2. b \in R /\ rank[b] < rank[a] /\ a \in ToSet(Adjacent(b))
    BY <1>3, <2>1 DEF Leads
  <2>3. b \in Areas /\ Further(q) = h
    BY <1>1, <1>3, <2>2 DEF Further
  <2>4. h \in Seq(Areas) /\ Len(h) = n + 1 /\ h # <<>> /\ h[n + 1] = b /\ \A j \in 1..n : h[j] = q[j]
    BY <1>1, <2>3, AppendKnown
  <2> HIDE DEF h, b
  <2>5. \A j \in 1..(n + 1) : h[j] \in R
    <3>1. \A j \in 1..(n + 1) : j \in 1..n \/ j = n + 1
      BY <1>1
    <3>. QED
      BY <2>2, <2>4, <3>1 DEF Walk
  <2>6. \A j \in 2..(n + 1) : h[j - 1] \in ToSet(Adjacent(h[j]))
    <3>1. ASSUME NEW j \in 2..(n + 1) PROVE h[j - 1] \in ToSet(Adjacent(h[j]))
      <4>1. CASE j = n + 1
        BY <1>1, <2>2, <2>4, <4>1
      <4>2. CASE j # n + 1
        <5>1. j \in 2..n /\ j \in 1..n /\ j - 1 \in 1..n
          BY <1>1, <4>2
        <5>. QED
          BY <2>4, <5>1 DEF Walk
      <4>. QED
        BY <4>1, <4>2
    <3>. QED
      BY <3>1
  <2>7. ASSUME NEW j \in 1..(n + 1), NEW k \in 1..(n + 1), j < k PROVE rank[h[k]] < rank[h[j]]
    <3>1. j \in 1..n /\ h[j] = q[j] /\ q[j] \in R
      BY <1>1, <2>4, <2>7 DEF Walk
    <3>2. CASE k # n + 1
      <4>1. k \in 1..n /\ h[k] = q[k]
        BY <1>1, <2>4, <3>2
      <4>. QED
        BY <2>7, <3>1, <4>1 DEF Walk
    <3>3. CASE k = n + 1
      <4>1. rank[b] \in Nat /\ rank[a] \in Nat /\ rank[q[j]] \in Nat
        BY <2>1, <2>2, <3>1
      <4>2. rank[a] <= rank[q[j]]
        <5>1. CASE j = n
          BY <4>1, <5>1
        <5>2. CASE j # n
          <6>1. j < n
            BY <1>1, <3>1, <5>2
          <6>2. rank[a] < rank[q[j]]
            BY <1>1, <3>1, <6>1 DEF Walk
          <6>. QED
            BY <4>1, <6>2
        <5>. QED
          BY <5>1, <5>2
      <4>. QED
        BY <2>2, <2>4, <3>1, <3>3, <4>1, <4>2
    <3>. QED
      BY <3>2, <3>3
  <2>8. h[Len(h)] = result.start \/ Len(h) = m + 1
    BY <2>1, <2>4
  <2>. QED
    BY <2>3, <2>4, <2>5, <2>6, <2>7, <2>8 DEF Walk
<1>. QED
  BY <1>2, <1>3

\* A walk whose rank falls has no more areas than the mesh.
LEMMA WalkEnds ==
  ASSUME AreasOK, NEW R, NEW rank \in [Areas -> Nat], NEW m, NEW q, Walk(q, m, R, rank)
  PROVE  Len(q) <= Cardinality(Areas)
<1>1. q \in Seq(Areas) /\ Len(q) \in Nat /\ q \in [1..Len(q) -> Areas] /\ IsFiniteSet(Areas)
  BY DEF Walk, AreasOK
<1>2. ASSUME NEW j \in 1..Len(q), NEW k \in 1..Len(q), q[j] = q[k] PROVE j = k
  <2>1. rank[q[j]] \in Nat /\ rank[q[k]] = rank[q[j]]
    BY <1>1, <1>2
  <2>2. ~(j < k) /\ ~(k < j)
    BY <2>1 DEF Walk
  <2>. QED
    BY <1>1, <2>2
<1>3. q \in Injection(1..Len(q), Areas)
  BY <1>1, <1>2 DEF Injection, IsInjective
<1>4. IsFiniteSet(1..Len(q)) /\ Cardinality(1..Len(q)) = Len(q)
  BY <1>1, FS_Interval
<1>. QED
  BY <1>1, <1>3, <1>4, FS_Injection

\* The walk that the property speaks of ends at the start.
LEMMA HomeIs ==
  ASSUME AreasOK, parent \in [Areas -> Areas \cup {NoArea}], NEW a, Home(a, result.start, parent)
  PROVE  LeadsHome(a)
<1> DEFINE c == Cardinality(Areas)
           first == <<a>>
           Unfolds(h) == h = [i \in 0..c |-> IF i = 0 THEN first ELSE Further(h[i - 1])]
           S == {q \in Seq(Areas) : q # <<>>}
           F == [p \in S \X (1..c) |-> Further(p[1])]
<1>1. PICK R \in SUBSET Areas : a \in R /\ result.start \in R
                                /\ \E rank \in [Areas -> Nat] : Leads(R, result.start, parent, rank)
  BY DEF Home
<1>2. PICK rank \in [Areas -> Nat] : Leads(R, result.start, parent, rank)
  BY <1>1
<1>3. c \in Nat /\ NoArea \notin Areas /\ a \in Areas
  BY <1>1, FS_CardinalityType DEF AreasOK
<1> HIDE DEF c
<1>4. first \in S
  BY <1>3
<1>5. ASSUME NEW q \in S PROVE Further(q) \in S
  <2>1. CASE Last(q) = result.start \/ parent[Last(q)] = NoArea
    BY <2>1 DEF Further
  <2>2. CASE ~(Last(q) = result.start \/ parent[Last(q)] = NoArea)
    <3>1. Last(q) \in Areas
      BY LastKnown DEF Last
    <3>2. parent[Last(q)] \in Areas
      BY <2>2, <3>1
    <3>. QED
      BY <2>2, <3>2, AppendKnown DEF Further
  <2>. QED
    BY <2>1, <2>2
<1> HIDE DEF S
<1>6. PICK g \in [0..c -> S] : Makes(g, first, c, F)
  <2>1. Goes(S, c, F)
    BY <1>5 DEF Goes
  <2> HIDE DEF first, F
  <2>. QED
    BY <1>3, <1>4, <2>1, PassExists
<1>7. Unfolds(g)
  <2>1. ASSUME NEW i \in 0..c PROVE g[i] = IF i = 0 THEN first ELSE Further(g[i - 1])
    <3>1. CASE i = 0
      BY <1>6, <3>1 DEF Makes
    <3>2. CASE i # 0
      <4>1. i \in 1..c /\ i - 1 \in 0..c
        BY <1>3, <3>2
      <4>2. g[i - 1] \in S
        BY <4>1
      <4>3. g[i] = F[<<g[i - 1], i>>]
        BY <1>6, <4>1 DEF Makes
      <4>. QED
        BY <3>2, <4>1, <4>2, <4>3
    <3>. QED
      BY <3>1, <3>2
  <2> HIDE DEF first
  <2>. QED
    BY <2>1
<1> DEFINE out == CHOOSE h : Unfolds(h)
<1>8. Ancestors(a) = out[c]
  BY DEF Ancestors, c
<1>9. Unfolds(out)
  BY <1>7
<1> HIDE DEF out
<1>10. out[0] = first /\ \A i \in 1..c : out[i] = Further(out[i - 1])
  <2> HIDE DEF first
  <2>. QED
    BY <1>3, <1>9
<1> HIDE DEF Unfolds
<1> DEFINE Inv == {i \in 0..c : Walk(out[i], i + 1, R, rank)}
<1>11. 0 \in Inv
  <2>1. Walk(first, 1, R, rank)
    BY <1>1, <1>3 DEF Walk
  <2>. QED
    BY <1>3, <1>10, <2>1
<1>12. ASSUME NEW i \in 1..c, i - 1 \in Inv PROVE i \in Inv
  <2>1. i \in Nat /\ (i - 1) + 1 = i /\ i \in 0..c
    BY <1>3
  <2>2. Walk(out[i - 1], i, R, rank)
    BY <1>12, <2>1
  <2>3. Walk(Further(out[i - 1]), i + 1, R, rank)
    BY <1>2, <1>3, <2>1, <2>2, FurtherIs
  <2>. QED
    BY <1>10, <2>1, <2>3
<1>13. c \in Inv
  <2> HIDE DEF Inv
  <2>. QED
    BY <1>3, <1>11, <1>12, PassKeeps
<1>14. Walk(out[c], c + 1, R, rank)
  BY <1>13
<1>15. Len(out[c]) <= c
  BY <1>14, WalkEnds DEF c
<1>16. out[c][Len(out[c])] = result.start
  BY <1>3, <1>14, <1>15 DEF Walk
<1>. QED
  BY <1>8, <1>14, <1>16 DEF LeadsHome, Last, Walk

-----------------------------------------------------------------------------
(***************************************************************************)
(* Where the parents lead while a search runs: O are the open areas, M the *)
(* marked ones.                                                            *)
(***************************************************************************)

\* The areas that the search f has reached.
Reach(f, O, M) == O \cup M \cup {f.start} \cup (IF f.at \in {"next", "cost"} THEN {f.area} ELSE {})

\* Of the areas that the search f of a path has reached, the start costs least; each
\* of the others is not blocked, and has a cheaper one for its parent, which is next to it.
PathTree(f, R, p, c) ==
  /\ \A x \in R : c[f.start] <= c[x]
  /\ \A x \in R : x # f.start => /\ p[x] \in R /\ c[p[x]] < c[x]
                                 /\ x \in ToSet(Adjacent(p[x])) /\ x \notin Blocked(f)

\* The start is not reached again: it is open, closed, or the area at hand.
PathHome(f, O, M, p, c) ==
  /\ f.closest \in Reach(f, O, M)
  /\ f.at = "start" => O = {} /\ M = {}
  /\ f.at # "start" => PathTree(f, Reach(f, O, M), p, c)
  /\ f.at = "pop" => /\ f.start \in O \cup M \/ O = {}
                     /\ f.start \in Blocked(f) => O \subseteq {f.start}
  /\ f.at \in {"next", "cost"} =>
       f.start \in O \cup M \cup {f.area} /\ f.area \notin Blocked(f) /\ f.start \notin Blocked(f)
  /\ f.at = "cost" => Adjacent(f.area)[f.i] # f.area /\ Adjacent(f.area)[f.i] \notin Blocked(f)

\* N has been collected, in the order of the ranks; what is open has a parent in N.
Collected(N, start, O, p, rank) ==
  \A x \in O \cup N : x # start =>
    p[x] \in N /\ x \in ToSet(Adjacent(p[x])) /\ (x \in N => rank[p[x]] < rank[x])

CollectHome(f, O, M, p) ==
  /\ ToSet(f.nearby) \subseteq M /\ f.start \in M /\ O \cap ToSet(f.nearby) = {}
  /\ \E rank \in [Areas -> Nat], k \in Nat :
       /\ \A x \in ToSet(f.nearby) : rank[x] < k
       /\ Collected(ToSet(f.nearby), f.start, O, p, rank)

\* From wherever the search of a path has come, the parents lead to its start.
LEMMA PathLeads ==
  ASSUME NEW f, NEW O \in SUBSET Areas, NEW M \in SUBSET Areas, NEW p, NEW c \in [Areas -> Nat],
         f.start \in Areas, f.area \in Areas, PathHome(f, O, M, p, c), NEW a \in Reach(f, O, M)
  PROVE  Home(a, f.start, p)
<1> DEFINE R == Reach(f, O, M)
<1>1. R \in SUBSET Areas /\ a \in R /\ f.start \in R
  BY DEF Reach
<1>2. Leads(R, f.start, p, c)
  <2>1. CASE f.at = "start"
    <3>1. R = {f.start}
      BY <2>1 DEF PathHome, Reach
    <3>. QED
      BY <3>1 DEF Leads
  <2>2. CASE f.at # "start"
    <3> HIDE DEF R
    <3>1. PathTree(f, R, p, c)
      BY <2>2 DEF PathHome, R
    <3>. QED
      BY <3>1 DEF Leads, PathTree
  <2>. QED
    BY <2>1, <2>2
<1> HIDE DEF R
<1>. QED
  BY <1>1, <1>2 DEF Home

\* From whatever has been collected, too.
LEMMA CollectLeads ==
  ASSUME NEW f, NEW O, NEW M \in SUBSET Areas, NEW p, f.start \in Areas,
         CollectHome(f, O, M, p), NEW a \in ToSet(f.nearby)
  PROVE  Home(a, f.start, p)
<1> DEFINE N == ToSet(f.nearby)
           R == N \cup {f.start}
<1>1. PICK rank \in [Areas -> Nat], k \in Nat : Collected(N, f.start, O, p, rank)
  BY DEF CollectHome
<1>2. R \in SUBSET Areas /\ a \in R /\ f.start \in R
  BY DEF CollectHome
<1> HIDE DEF N
<1>3. Leads(R, f.start, p, rank)
  BY <1>1 DEF Collected, Leads
<1> HIDE DEF R
<1>. QED
  BY <1>2, <1>3 DEF Home

\* The first area comes on the list.
LEMMA StartHome ==
  ASSUME NEW f, NEW g, NEW M, NEW p, NEW c, c[f.start] \in Nat, PathHome(f, {}, M, p, c),
         f.at = "start", g.at = "pop", g.start = f.start, g.closest = f.closest, NEW q, NEW d, d[f.start] \in Nat
  PROVE  PathHome(g, {f.start}, M, q, d)
<1>1. M = {} /\ f.closest = f.start
  BY DEF PathHome, Reach
<1>2. Reach(g, {f.start}, M) = {f.start}
  BY <1>1 DEF Reach
<1>3. PathTree(g, {f.start}, q, d)
  BY DEF PathTree
<1>. QED
  BY <1>1, <1>2, <1>3 DEF PathHome

\* An area is popped that is blocked: it is the start, and the search is over.
LEMMA BlockedHome ==
  ASSUME NEW f, NEW O, NEW M, NEW p, NEW c, PathHome(f, O, M, p, c), f.at = "pop",
         NEW a \in O, a \in Blocked(f)
  PROVE  PathHome(f, O \ {a}, M, p, c)
<1>1. PathTree(f, Reach(f, O, M), p, c) /\ a \in Reach(f, O, M)
  BY DEF PathHome, Reach
<1>2. a = f.start
  BY <1>1 DEF PathTree
<1>3. O = {f.start}
  BY <1>2 DEF PathHome
<1>4. Reach(f, O \ {a}, M) = Reach(f, O, M)
  BY <1>2 DEF Reach
<1>. QED
  BY <1>1, <1>2, <1>3, <1>4 DEF PathHome

\* Another area is popped.
LEMMA PoppedHome ==
  ASSUME NEW f, NEW g, NEW O, NEW M, NEW p, NEW c, PathHome(f, O, M, p, c), f.at = "pop",
         NEW a \in O, a \notin Blocked(f),
         g.at = "next", g.area = a, g.start = f.start, g.closest = f.closest, g.team = f.team
  PROVE  PathHome(g, O \ {a}, M, p, c)
<1>1. PathTree(f, Reach(f, O, M), p, c)
  BY DEF PathHome
<1>2. Reach(g, O \ {a}, M) = Reach(f, O, M)
  BY DEF Reach
<1>3. Blocked(g) = Blocked(f)
  BY DEF Blocked
<1>4. f.start \in O \cup M /\ f.start \notin Blocked(f)
  BY DEF PathHome
<1>5. PathTree(g, Reach(f, O, M), p, c)
  BY <1>1, <1>3 DEF PathTree
<1>. QED
  BY <1>2, <1>3, <1>4, <1>5 DEF PathHome

\* The area is closed.
LEMMA ClosedHome ==
  ASSUME NEW f, NEW g, NEW O, NEW M, NEW p, NEW c, PathHome(f, O, M, p, c), f.at = "next",
         g.at = "pop", g.start = f.start, g.closest = f.closest, g.team = f.team
  PROVE  PathHome(g, O, M \cup {f.area}, p, c)
<1>1. PathTree(f, Reach(f, O, M), p, c) /\ Reach(g, O, M \cup {f.area}) = Reach(f, O, M)
  BY DEF PathHome, Reach
<1>2. Blocked(g) = Blocked(f) /\ f.start \in O \cup M \cup {f.area} /\ f.start \notin Blocked(f)
  BY DEF Blocked, PathHome
<1>3. PathTree(g, Reach(f, O, M), p, c)
  BY <1>1, <1>2 DEF PathTree
<1>. QED
  BY <1>1, <1>2, <1>3 DEF PathHome

\* The search goes on to another neighbour of the area.
LEMMA OnwardHome ==
  ASSUME NEW f, NEW g, NEW O, NEW M, NEW p, NEW c, PathHome(f, O, M, p, c), f.at \in {"next", "cost"},
         g.at \in {"next", "cost"}, g.area = f.area, g.start = f.start, g.closest = f.closest, g.team = f.team,
         g.at = "cost" => Adjacent(f.area)[g.i] # f.area /\ Adjacent(f.area)[g.i] \notin Blocked(f)
  PROVE  PathHome(g, O, M, p, c)
<1>1. PathTree(f, Reach(f, O, M), p, c) /\ Reach(g, O, M) = Reach(f, O, M)
  BY DEF PathHome, Reach
<1>2. Blocked(g) = Blocked(f)
  BY DEF Blocked
<1>3. PathTree(g, Reach(f, O, M), p, c)
  BY <1>1, <1>2 DEF PathTree
<1>. QED
  BY <1>1, <1>2, <1>3 DEF PathHome

\* An area is reached by a better path.
LEMMA RelaxedHome ==
  ASSUME NEW f, NEW g, NEW O \in SUBSET Areas, NEW M \in SUBSET Areas, NEW p, NEW c \in [Areas -> Nat],
         PathHome(f, O, M, p, c), f.at = "cost", f.start \in Areas, f.area \in Areas,
         NEW a \in Areas, a = Adjacent(f.area)[f.i], f.i \in 1..Len(Adjacent(f.area)),
         NEW x \in Nat, x > c[f.area], a \in O \cup M => x < c[a],
         NEW q, NEW d, But(q, p, a, f.area), But(d, c, a, x),
         g.at = "next", g.area = f.area, g.start = f.start, g.team = f.team, g.closest \in {f.closest, a}
  PROVE  PathHome(g, O \cup {a}, M, q, d)
<1> DEFINE R == Reach(f, O, M)
<1>1. /\ PathTree(f, R, p, c) /\ f.closest \in R
      /\ f.start \in O \cup M \cup {f.area} /\ f.area \notin Blocked(f) /\ f.start \notin Blocked(f)
      /\ a # f.area /\ a \notin Blocked(f)
  BY DEF PathHome
<1>2. Reach(g, O \cup {a}, M) = R \cup {a} /\ Blocked(g) = Blocked(f)
  BY DEF Reach, Blocked
<1>3. R = O \cup M \cup {f.start, f.area} /\ R \subseteq Areas
  BY DEF Reach
<1> HIDE DEF R
<1>4. /\ \A y \in R : c[y] \in Nat /\ c[f.start] <= c[y]
      /\ \A y \in R : y # f.start => /\ p[y] \in R /\ c[p[y]] < c[y]
                                     /\ y \in ToSet(Adjacent(p[y])) /\ y \notin Blocked(f)
  BY <1>1, <1>3 DEF PathTree
<1>5. c[f.start] <= c[f.area] /\ c[f.start] < x /\ c[f.area] \in Nat /\ c[f.start] \in Nat
  BY <1>3, <1>4
<1>6. a # f.start
  BY <1>1, <1>5
<1>7. a \in R => x < c[a]
  BY <1>1, <1>3, <1>6
<1>8. /\ d[a] = x /\ q[a] = f.area
      /\ \A y \in Areas : y # a => d[y] = c[y] /\ q[y] = p[y]
  BY DEF But
<1>9. d[f.start] = c[f.start] /\ d[f.area] = c[f.area]
  BY <1>1, <1>6, <1>8
<1>10. \A y \in R \cup {a} : d[f.start] <= d[y]
  BY <1>3, <1>4, <1>5, <1>8, <1>9
<1>11. a \in ToSet(Adjacent(f.area))
  BY DEF ToSet
<1>12. ASSUME NEW y \in R, y # f.start, y # a
       PROVE  q[y] \in R /\ d[q[y]] < d[y] /\ y \in ToSet(Adjacent(q[y])) /\ y \notin Blocked(f)
  <2>1. q[y] = p[y] /\ d[y] = c[y] /\ p[y] \in R /\ c[p[y]] < c[y] /\ c[y] \in Nat /\ p[y] \in Areas
    BY <1>3, <1>4, <1>8, <1>12
  <2>2. CASE p[y] = a
    <3>1. x < c[a] /\ c[a] < c[y] /\ c[a] \in Nat
      BY <1>7, <2>1, <2>2
    <3>2. d[p[y]] = x
      BY <1>8, <2>2
    <3>3. x < c[y]
      BY <2>1, <3>1
    <3>. QED
      BY <1>4, <1>12, <2>1, <3>2, <3>3
  <2>3. CASE p[y] # a
    BY <1>4, <1>8, <1>12, <2>1, <2>3
  <2>. QED
    BY <2>2, <2>3
<1>13. q[a] \in R /\ d[q[a]] < d[a] /\ a \in ToSet(Adjacent(q[a])) /\ a \notin Blocked(f)
  BY <1>1, <1>3, <1>8, <1>9, <1>11
<1>14. PathTree(g, R \cup {a}, q, d)
  BY <1>2, <1>10, <1>12, <1>13 DEF PathTree
<1>15. g.closest \in R \cup {a}
  BY <1>1
<1>. QED
  BY <1>1, <1>2, <1>14, <1>15 DEF PathHome

-----------------------------------------------------------------------------
(***************************************************************************)
(* The steps of the searches.                                              *)
(***************************************************************************)

\* Where the parents lead from what a search returned, and from what the innermost
\* search has reached.
HomeResult(r, p) ==
  /\ r.by = "path" /\ r.alone => Home(r.closest, r.start, p)
  /\ r.by = "collect" => \A a \in ToSet(r.nearby) : Home(a, r.start, p)

HomeTop(st, O, M, p, c) ==
  st # <<>> =>
    /\ st[Len(st)].at = "collect" => CollectHome(st[Len(st)], O, M, p)
    /\ st[Len(st)].at # "collect" /\ st[Len(st)].alone => PathHome(st[Len(st)], O, M, p, c)

HomeInv == HomeResult(result, parent) /\ HomeTop(stack, L.open, marked, parent, cost)

\* The innermost search of a path has been disturbed.
Still(st) == st # <<>> => st[Len(st)].at # "collect" /\ ~st[Len(st)].alone

\* The searches below one that returns, and those that a plugin disturbs.
LEMMA StillIs ==
  ASSUME NEW st, Stack(st)
  PROVE  /\ st # <<>> => Still(Front(st))
         /\ (st # <<>> => st[Len(st)].at \in {"start", "cost"}) => Still(Disturbed(st))
<1>1. st \in Seq(Frames) /\ Len(st) \in Nat
  BY DEF Stack
<1>2. ASSUME st # <<>> PROVE Still(Front(st))
  <2> DEFINE u == Front(st)
  <2>1. u \in Seq(Frames) /\ Len(u) = Len(st) - 1 /\ \A i \in 1..Len(st) - 1 : u[i] = st[i]
    BY <1>1, <1>2, FrontLast
  <2> HIDE DEF u
  <2>2. ASSUME u # <<>> PROVE u[Len(u)].at # "collect" /\ ~u[Len(u)].alone
    <3>1. Len(u) \in 1..Len(st) - 1
      BY <2>1, <2>2, LastKnown
    <3>. QED
      BY <2>1, <3>1 DEF Stack
  <2>. QED
    BY <2>2 DEF Still, u
<1>3. ASSUME st # <<>> => st[Len(st)].at \in {"start", "cost"} PROVE Still(Disturbed(st))
  <2> DEFINE u == Disturbed(st)
  <2>1. /\ Stack(u) /\ Len(u) = Len(st)
        /\ \A i \in 1..Len(st) : u[i].alone = FALSE /\ u[i].at = st[i].at
    BY StackDisturbed
  <2> HIDE DEF u
  <2>2. ASSUME u # <<>> PROVE u[Len(u)].at # "collect" /\ ~u[Len(u)].alone
    <3>1. u \in Seq(Frames)
      BY <2>1 DEF Stack
    <3>2. Len(st) \in 1..Len(st) /\ st # <<>>
      BY <1>1, <2>1, <2>2, <3>1, LastKnown
    <3>. QED
      BY <1>3, <2>1, <3>2
  <2>. QED
    BY <2>2 DEF Still, u
<1>. QED
  BY <1>2, <1>3

\* Nothing is said of a disturbed search.
LEMMA StillHome ==
  ASSUME Still(stack'), HomeResult(result', parent')
  PROVE  HomeInv'
BY DEF Still, HomeInv, HomeTop

\* A step without a result.
LEMMA QuietHome ==
  ASSUME result' = NoResult, NEW p
  PROVE  HomeResult(result', p)
BY DEF NoResult, HomeResult

\* The innermost search has become g.
LEMMA TopHome ==
  ASSUME result' = NoResult, NEW g, stack'[Len(stack')] = g,
         g.at = "collect" => CollectHome(g, L'.open, marked', parent'),
         g.at # "collect" /\ g.alone => PathHome(g, L'.open, marked', parent', cost')
  PROVE  HomeInv'
BY QuietHome DEF HomeInv, HomeTop

\* A native of a plugin.
LEMMA NativesHome ==
  ASSUME NavInv, Natives
  PROVE  HomeInv'
<1>1. Native
  BY DEF Natives, NativeClear, NativePop, NativeAdd, NativeAddTail, NativeClose, NativeUpdate, NativeSet
<1>2. Stack(stack) /\ NavTyped
  BY DEF NavInv, NavTyped
<1>3. stack # <<>> => stack[Len(stack)].at \in {"start", "cost"}
  BY <1>1, <1>2, TopIs DEF Native, PluginRuns
<1>4. Still(stack') /\ result' = NoResult
  BY <1>1, <1>2, <1>3, StillIs DEF Native
<1>. QED
  BY <1>4, StillHome, QuietHome

\* The start leads to itself.
LEMMA StartLeads ==
  ASSUME NEW a \in Areas, NEW p
  PROVE  Home(a, a, p)
<1>1. [x \in Areas |-> 0] \in [Areas -> Nat] /\ {a} \in SUBSET Areas
  OBVIOUS
<1>2. Leads({a}, a, p, [x \in Areas |-> 0])
  BY DEF Leads
<1>. QED
  BY <1>1, <1>2 DEF Home

\* A search begins, or returns at once and has touched the parent of its start.
LEMMA BuildPathHome ==
  ASSUME NavConstants, NavInv, NEW q \in Requests, BuildPath(q)
  PROVE  HomeInv'
<1> DEFINE start == q.start
           target == IF q.goal \in Teams[q.team] THEN NoArea ELSE q.goal
           f == [start |-> start, goal |-> target, pos |-> q.pos, team |-> q.team, limit |-> q.limit,
                 at |-> "start", area |-> start, i |-> 0, closest |-> start, nearest |-> 0, alone |-> TRUE]
<1>1. start \in Areas
  BY DEF NavConstants, SearchConstantsOK
<1>2. stack # <<>> => Top.at \in {"start", "cost"}
  BY DEF BuildPath, MaySearch, PluginRuns
<1>3. \/ /\ stack' = Disturbed(stack)
         /\ \/ result' = [NoResult EXCEPT !.by = "path", !.found = FALSE, !.start = start,
                                          !.closest = start, !.alone = TRUE]
            \/ result' = [NoResult EXCEPT !.by = "path", !.found = TRUE, !.start = start,
                                          !.closest = start, !.alone = TRUE]
      \/ /\ L' = ClearSearchLists(L) /\ marked' = {} /\ result' = NoResult
         /\ stack' = Append(Disturbed(stack), f)
  BY DEF BuildPath
<1>4. NavTyped /\ Stack(stack) /\ L \in OpenLists
  BY DEF NavInv, NavTyped
<1>5. stack # <<>> => stack[Len(stack)].at \in {"start", "cost"}
  BY <1>2, <1>4, TopIs
<1>6. CASE /\ stack' = Disturbed(stack)
           /\ \/ result' = [NoResult EXCEPT !.by = "path", !.found = FALSE, !.start = start,
                                            !.closest = start, !.alone = TRUE]
              \/ result' = [NoResult EXCEPT !.by = "path", !.found = TRUE, !.start = start,
                                            !.closest = start, !.alone = TRUE]
  <2>1. result'.by = "path" /\ result'.start = start /\ result'.closest = start
    BY <1>6 DEF NoResult
  <2>2. Home(result'.closest, result'.start, parent')
    BY <1>1, <2>1, StartLeads
  <2>3. HomeResult(result', parent')
    BY <2>1, <2>2 DEF HomeResult
  <2>4. Still(stack')
    BY <1>4, <1>5, <1>6, StillIs
  <2>. QED
    BY <2>3, <2>4, StillHome
<1>7. CASE /\ L' = ClearSearchLists(L) /\ marked' = {} /\ result' = NoResult
           /\ stack' = Append(Disturbed(stack), f)
  <2>1. f.at = "start" /\ f.closest = f.start
    OBVIOUS
  <2> HIDE DEF f
  <2>2. L'.open = {}
    BY <1>4, <1>7 DEF ClearSearchLists, OpenLists
  <2>3. PathHome(f, L'.open, marked', parent', cost')
    BY <1>7, <2>1, <2>2 DEF PathHome, Reach
  <2>4. stack'[Len(stack')] = f
    <3>1. Disturbed(stack) \in Seq(Frames)
      BY <1>4, StackDisturbed DEF Stack
    <3>. QED
      BY <1>7, <3>1
  <2>. QED
    BY <1>7, <2>1, <2>3, <2>4, TopHome
<1>. QED
  BY <1>3, <1>6, <1>7

\* A search of a path returns an area that it has reached.
LEMMA ReturnHome ==
  ASSUME NavConstants, NavInv, Sane, stack # <<>>, Top.at # "collect", NEW found \in BOOLEAN, NEW a,
         Top.alone => PathHome(Top, L.open, marked, parent, cost) /\ a \in Reach(Top, L.open, marked),
         SearchReturns(found, a), parent' = parent
  PROVE  HomeInv'
<1> DEFINE f == Top
<1>1. f \in PathFrames /\ NavTyped /\ Stack(stack)
  BY RunningIs DEF NavInv, NavTyped
<1>2. f.start \in Areas /\ f.area \in Areas
  <2> HIDE DEF f
  <2>. QED BY <1>1 DEF PathFrames
<1>3. /\ stack' = Front(stack)
      /\ result'.by = "path" /\ result'.start = f.start /\ result'.closest = a /\ result'.alone = f.alone
  BY DEF SearchReturns, NoResult
<1>4. L.open \in SUBSET Areas /\ marked \in SUBSET Areas /\ cost \in [Areas -> Nat]
  BY <1>1 DEF NavTyped, OpenLists
<1>5. HomeResult(result', parent')
  <2>1. ASSUME f.alone PROVE Home(a, f.start, parent)
    <3>1. PathHome(f, L.open, marked, parent, cost) /\ a \in Reach(f, L.open, marked)
      BY <2>1
    <3> HIDE DEF f
    <3>. QED
      BY <1>2, <1>4, <3>1, PathLeads
  <2>. QED
    BY <1>3, <2>1 DEF HomeResult
<1>6. Still(stack')
  BY <1>1, <1>3, StillIs
<1>. QED
  BY <1>5, <1>6, StillHome

\* The list of a running search.
LEMMA RunningHome ==
  ASSUME NavInv, HomeInv, stack # <<>>
  PROVE  /\ Top = stack[Len(stack)] /\ Proper(L, FALSE) /\ NavTyped /\ Stack(stack)
         /\ Top.at = "collect" => CollectHome(Top, L.open, marked, parent)
         /\ Top.at # "collect" /\ Top.alone => PathHome(Top, L.open, marked, parent, cost)
<1>1. NavTyped /\ Stack(stack) /\ Held(L, ~moved, stack, total, cost)
  BY DEF NavInv, NavTyped
<1>2. Top = stack[Len(stack)]
  BY <1>1, TopIs
<1>3. Proper(L, FALSE)
  BY <1>1 DEF Held, Proper
<1>. QED
  BY <1>1, <1>2, <1>3 DEF HomeInv, HomeTop

\* The cost of the first area.
LEMMA StartCostHome ==
  ASSUME NavConstants, NavInv, HomeInv, Sane, NEW c \in StartCosts, StartCost(c)
  PROVE  HomeInv'
<1> DEFINE f == Top
           g == [f EXCEPT !.at = "pop", !.nearest = total[f.start]]
<1>1. stack # <<>> /\ f.at = "start"
  BY DEF StartCost
<1>2. /\ f = stack[Len(stack)] /\ Proper(L, FALSE) /\ NavTyped /\ Stack(stack) /\ f \in PathFrames
      /\ f.alone => PathHome(f, L.open, marked, parent, cost)
  BY <1>1, RunningHome, RunningIs
<1>3. CASE c = DeadEnd
  <2>1. SearchReturns(FALSE, f.closest) /\ parent' = parent
    BY <1>3 DEF StartCost, search
  <2>2. f.alone => f.closest \in Reach(f, L.open, marked)
    BY <1>2 DEF PathHome
  <2>. QED
    BY <1>1, <1>2, <2>1, <2>2, ReturnHome
<1>4. CASE c # DeadEnd
  <2>1. /\ cost' = [cost EXCEPT ![f.start] = c] /\ L' = AddToOpenList(L, total, f.start)
        /\ stack' = [stack EXCEPT ![Len(stack)] = g] /\ result' = NoResult /\ UNCHANGED <<marked, parent>>
    BY <1>4 DEF StartCost, SetTop
  <2> HIDE DEF f
  <2>2. f.start \in Areas /\ c \in Nat /\ cost \in [Areas -> Nat]
    BY <1>2, <1>4 DEF PathFrames, NavConstants, SearchConstantsOK, Sane, NavTyped
  <2>3. g.at = "pop" /\ g.start = f.start /\ g.closest = f.closest /\ g.alone = f.alone
    BY <1>2 DEF PathFrames
  <2>4. stack'[Len(stack')] = g
    <3>1. stack \in Seq(Frames) /\ Len(stack) \in 1..Len(stack)
      BY <1>1, <1>2, LastKnown DEF Stack
    <3> HIDE DEF g
    <3>. QED
      BY <2>1, <3>1
  <2> HIDE DEF g
  <2>5. ASSUME g.alone PROVE PathHome(g, L'.open, marked', parent', cost')
    <3>1. PathHome(f, L.open, marked, parent, cost)
      BY <1>2, <2>3, <2>5
    <3>2. L.open = {}
      BY <1>1, <3>1 DEF PathHome
    <3>3. L'.open = {f.start}
      <4>1. AreasOK /\ Proper(L, FALSE) /\ f.start \in Areas
        BY <1>2, <2>2 DEF NavConstants
      <4>2. Opens(AddToOpenList(L, total, f.start), L, f.start)
        BY <4>1, OpenIs
      <4>. QED
        BY <2>1, <3>2, <4>2 DEF Opens
    <3>4. PathHome(f, {}, marked, parent, cost) /\ cost[f.start] \in Nat /\ cost'[f.start] \in Nat
      BY <2>1, <2>2, <3>1, <3>2
    <3>5. PathHome(g, {f.start}, marked, parent, cost')
      BY <1>1, <2>3, <3>4, StartHome
    <3>. QED
      BY <2>1, <3>3, <3>5
  <2>. QED
    BY <2>1, <2>3, <2>4, <2>5, TopHome
<1>. QED
  BY <1>3, <1>4

\* The next area.
LEMMA PopHome ==
  ASSUME NavConstants, NavInv, HomeInv, Sane, Pop
  PROVE  HomeInv'
<1> DEFINE f == Top
           a == L.head
           g == [f EXCEPT !.at = "next", !.area = a, !.i = 1]
<1>1. /\ stack # <<>> /\ f.at = "pop" /\ a # NoArea /\ L' = PopOpenList(L)
      /\ UNCHANGED <<marked, parent, cost>>
  BY DEF Pop
<1>2. \/ a \in Blocked(f) /\ result' = NoResult /\ stack' = stack
      \/ a \notin Blocked(f) /\ SearchReturns(TRUE, a)
      \/ a \notin Blocked(f) /\ result' = NoResult /\ stack' = [stack EXCEPT ![Len(stack)] = g]
  BY DEF Pop, SetTop
<1>3. /\ f = stack[Len(stack)] /\ Proper(L, FALSE) /\ Stack(stack) /\ f \in PathFrames
      /\ f.alone => PathHome(f, L.open, marked, parent, cost)
  BY <1>1, RunningHome, RunningIs
<1>4. a \in L.open /\ L'.open = L.open \ {a}
  <2>1. f.start \in Areas
    <3> HIDE DEF f
    <3>. QED BY <1>3 DEF PathFrames
  <2>. QED
    BY <1>1, <1>3, <2>1, OpenIs DEF NavConstants
<1>5. CASE a \in Blocked(f) /\ result' = NoResult /\ stack' = stack
  <2> HIDE DEF f, a
  <2>1. ASSUME f.alone PROVE PathHome(f, L'.open, marked', parent', cost')
    BY <1>1, <1>3, <1>4, <1>5, <2>1, BlockedHome
  <2>2. stack'[Len(stack')] = f /\ f.at # "collect"
    BY <1>1, <1>3, <1>5
  <2>. QED
    BY <1>5, <2>1, <2>2, TopHome
<1>6. CASE a \notin Blocked(f) /\ SearchReturns(TRUE, a)
  <2>1. a \in Reach(f, L.open, marked)
    BY <1>4 DEF Reach
  <2>2. parent' = parent /\ f.at # "collect"
    BY <1>1
  <2>. QED
    BY <1>1, <1>3, <1>6, <2>1, <2>2, ReturnHome
<1>7. CASE a \notin Blocked(f) /\ result' = NoResult /\ stack' = [stack EXCEPT ![Len(stack)] = g]
  <2> HIDE DEF f, a
  <2>1. /\ g.at = "next" /\ g.area = a /\ g.start = f.start /\ g.closest = f.closest /\ g.alone = f.alone
        /\ g.team = f.team
    BY <1>3 DEF PathFrames
  <2> HIDE DEF g
  <2>2. stack'[Len(stack')] = g
    <3>1. stack \in Seq(Frames) /\ Len(stack) \in 1..Len(stack)
      BY <1>1, <1>3, LastKnown DEF Stack
    <3>. QED
      BY <1>7, <3>1
  <2>3. ASSUME g.alone PROVE PathHome(g, L'.open, marked', parent', cost')
    <3>1. PathHome(f, L.open, marked, parent, cost)
      BY <1>3, <2>1, <2>3
    <3>2. PathHome(g, L.open \ {a}, marked, parent, cost)
      BY <1>1, <1>4, <1>7, <2>1, <3>1, PoppedHome
    <3>. QED
      BY <1>1, <1>4, <3>2
  <2>. QED
    BY <1>7, <2>1, <2>2, <2>3, TopHome
<1>. QED
  BY <1>2, <1>5, <1>6, <1>7

\* The open list is empty.
LEMMA ExhaustedHome ==
  ASSUME NavConstants, NavInv, HomeInv, Sane, Exhausted
  PROVE  HomeInv'
<1>1. stack # <<>> /\ Top.at = "pop" /\ SearchReturns(FALSE, Top.closest) /\ parent' = parent
  BY DEF Exhausted, search
<1>2. Top.alone => PathHome(Top, L.open, marked, parent, cost)
  BY <1>1, RunningHome
<1>3. Top.alone => Top.closest \in Reach(Top, L.open, marked)
  BY <1>2 DEF PathHome
<1>. QED
  BY <1>1, <1>2, <1>3, ReturnHome

\* The next neighbour.
LEMMA NeighbourHome ==
  ASSUME NavConstants, NavInv, HomeInv, Neighbour
  PROVE  HomeInv'
<1> DEFINE f == Top
           left == { j \in f.i .. Len(Adjacent(f.area)) : ~ Skipped(f, Adjacent(f.area)[j]) }
           gp == [f EXCEPT !.at = "pop"]
           gc == [f EXCEPT !.at = "cost", !.i = Min(left)]
<1>1. /\ stack # <<>> /\ f.at = "next" /\ result' = NoResult /\ UNCHANGED <<L, parent, cost>>
  BY DEF Neighbour
<1>2. \/ left = {} /\ marked' = marked \cup {f.area} /\ stack' = [stack EXCEPT ![Len(stack)] = gp]
      \/ left # {} /\ marked' = marked /\ stack' = [stack EXCEPT ![Len(stack)] = gc]
  BY DEF Neighbour, SetTop, AddToClosedList
<1>3. /\ f = stack[Len(stack)] /\ Stack(stack) /\ f \in PathFrames
      /\ f.alone => PathHome(f, L.open, marked, parent, cost)
  BY <1>1, RunningHome, RunningIs
<1>4. f.area \in Areas /\ f.i \in Nat /\ f.i >= 1
  <2> HIDE DEF f
  <2>. QED BY <1>1, <1>3 DEF PathFrames
<1>5. /\ left \in SUBSET Nat
      /\ \A j \in left : Adjacent(f.area)[j] # f.area /\ Adjacent(f.area)[j] \notin Blocked(f)
  BY <1>4, AdjacentIs DEF Skipped
<1>6. stack \in Seq(Frames) /\ Len(stack) \in 1..Len(stack)
  BY <1>1, <1>3, LastKnown DEF Stack
<1> HIDE DEF left, f
<1>7. CASE left = {} /\ marked' = marked \cup {f.area} /\ stack' = [stack EXCEPT ![Len(stack)] = gp]
  <2>1. gp.at = "pop" /\ gp.start = f.start /\ gp.closest = f.closest /\ gp.alone = f.alone /\ gp.team = f.team
    BY <1>3 DEF PathFrames
  <2> HIDE DEF gp
  <2>2. stack'[Len(stack')] = gp
    BY <1>6, <1>7
  <2>3. ASSUME gp.alone PROVE PathHome(gp, L'.open, marked', parent', cost')
    <3>1. PathHome(f, L.open, marked, parent, cost)
      BY <1>3, <2>1, <2>3
    <3>2. PathHome(gp, L.open, marked \cup {f.area}, parent, cost)
      BY <1>1, <2>1, <3>1, ClosedHome
    <3>. QED
      BY <1>1, <1>7, <3>2
  <2>. QED
    BY <1>1, <2>1, <2>2, <2>3, TopHome
<1>8. CASE left # {} /\ marked' = marked /\ stack' = [stack EXCEPT ![Len(stack)] = gc]
  <2>1. Min(left) \in left
    BY <1>5, <1>8, MinIs
  <2>2. /\ gc.at = "cost" /\ gc.start = f.start /\ gc.closest = f.closest /\ gc.alone = f.alone
        /\ gc.team = f.team /\ gc.area = f.area /\ gc.i = Min(left)
    BY <1>3 DEF PathFrames
  <2> HIDE DEF gc
  <2>3. stack'[Len(stack')] = gc
    BY <1>6, <1>8
  <2>4. ASSUME gc.alone PROVE PathHome(gc, L'.open, marked', parent', cost')
    <3>1. PathHome(f, L.open, marked, parent, cost)
      BY <1>3, <2>2, <2>4
    <3>2. PathHome(gc, L.open, marked, parent, cost)
      BY <1>1, <1>5, <2>1, <2>2, <3>1, OnwardHome
    <3>. QED
      BY <1>1, <1>8, <3>2
  <2>. QED
    BY <1>1, <2>2, <2>3, <2>4, TopHome
<1>. QED
  BY <1>2, <1>7, <1>8

\* The new cost is more than that of the area which the search comes from.
LEMMA NewCostGrows ==
  ASSUME NEW a, cost[a] \in Nat, NEW c \in Nat \cup {DeadEnd, NaN}, c # DeadEnd
  PROVE  NewCost(c, a) \in Nat /\ NewCost(c, a) > cost[a]
<1> DEFINE x == IF c = NaN THEN Huge ELSE c
           y == Plus(cost[a], 1)
<1>1. x \in Nat
  BY DEF Huge
<1>4. y = cost[a] + 1
  BY DEF Plus, NaN
<1>2. NewCost(c, a) = IF Below(y, x) THEN x ELSE y
  BY DEF NewCost, Greater
<1>3. Below(y, x) => y < x
  BY DEF Below
<1> HIDE DEF x, y
<1>. QED
  BY <1>1, <1>2, <1>3, <1>4

\* The cost of a connection.
LEMMA CostHome ==
  ASSUME NavConstants, NavInv, HomeInv, Sane, NEW c \in Nat \cup {DeadEnd, NaN}, Cost(c)
  PROVE  HomeInv'
<1> DEFINE f == Top
           a == Adjacent(f.area)[f.i]
           x == NewCost(c, f.area)
           left == Distance(a, Target(f))
           t == [total EXCEPT ![a] = Plus(x, left)]
           gs == [f EXCEPT !.at = "next", !.i = @ + 1]
           gr == [f EXCEPT !.at = "next", !.i = @ + 1,
                           !.closest = IF Nearer(f, a, x) THEN a ELSE @,
                           !.nearest = IF Nearer(f, a, x) THEN left ELSE @]
<1>1. stack # <<>> /\ f.at = "cost" /\ result' = NoResult /\ marked' = marked
  BY DEF Cost
<1>2. /\ f = stack[Len(stack)] /\ Proper(L, FALSE) /\ NavTyped /\ Stack(stack) /\ f \in PathFrames
      /\ f.alone => PathHome(f, L.open, marked, parent, cost)
  BY <1>1, RunningHome, RunningIs
<1>3. \/ UNCHANGED <<L, parent, cost>> /\ stack' = [stack EXCEPT ![Len(stack)] = gs]
      \/ /\ c # DeadEnd /\ ~Worse(a, x) /\ cost' = [cost EXCEPT ![a] = x]
         /\ L' = IF a \in L.open THEN UpdateOnOpenList(L, t, a) ELSE AddToOpenList(L, t, a)
         /\ parent' = [parent EXCEPT ![a] = f.area]
         /\ stack' = [stack EXCEPT ![Len(stack)] = gr]
  BY DEF Cost, Relax, SetTop
<1>4. f.start \in Areas /\ f.area \in Areas /\ f.i \in 1..Len(Adjacent(f.area))
  <2> HIDE DEF f
  <2>. QED BY <1>1, <1>2 DEF PathFrames
<1>5. a \in Areas
  BY <1>4, AdjacentIs
<1>6. stack \in Seq(Frames) /\ Len(stack) \in 1..Len(stack)
  BY <1>1, <1>2, LastKnown DEF Stack
<1>7. /\ L.open \in SUBSET Areas /\ marked \in SUBSET Areas /\ cost \in [Areas -> Nat]
      /\ parent \in [Areas -> Areas \cup {NoArea}]
  BY <1>2 DEF NavTyped, OpenLists
<1> HIDE DEF f, a, t, left
<1>8. CASE UNCHANGED <<L, parent, cost>> /\ stack' = [stack EXCEPT ![Len(stack)] = gs]
  <2>1. /\ gs.at = "next" /\ gs.start = f.start /\ gs.closest = f.closest /\ gs.alone = f.alone
        /\ gs.team = f.team /\ gs.area = f.area
    BY <1>2 DEF PathFrames
  <2> HIDE DEF gs
  <2>2. stack'[Len(stack')] = gs
    BY <1>6, <1>8
  <2>3. ASSUME gs.alone PROVE PathHome(gs, L'.open, marked', parent', cost')
    <3>1. PathHome(f, L.open, marked, parent, cost)
      BY <1>2, <2>1, <2>3
    <3>2. PathHome(gs, L.open, marked, parent, cost)
      BY <1>1, <2>1, <3>1, OnwardHome
    <3>. QED
      BY <1>1, <1>8, <3>2
  <2>. QED
    BY <1>1, <2>1, <2>2, <2>3, TopHome
<1>9. CASE /\ c # DeadEnd /\ ~Worse(a, x) /\ cost' = [cost EXCEPT ![a] = x]
           /\ L' = IF a \in L.open THEN UpdateOnOpenList(L, t, a) ELSE AddToOpenList(L, t, a)
           /\ parent' = [parent EXCEPT ![a] = f.area]
           /\ stack' = [stack EXCEPT ![Len(stack)] = gr]
  <2>1. cost[f.area] \in Nat /\ x \in Nat /\ x > cost[f.area]
    BY <1>4, <1>7, <1>9, NewCostGrows
  <2>2. ASSUME a \in L.open \cup marked PROVE x < cost[a]
    <3> HIDE DEF x
    <3>1. cost[a] \in Nat /\ cost[a] # NaN /\ x # NaN
      BY <1>5, <1>7, <2>1 DEF NaN
    <3>2. ~(cost[a] <= x)
      BY <1>9, <2>2, <3>1 DEF Worse, IsClosed
    <3>. QED
      BY <2>1, <3>1, <3>2
  <2>3. /\ gr.at = "next" /\ gr.start = f.start /\ gr.closest \in {f.closest, a} /\ gr.alone = f.alone
        /\ gr.team = f.team /\ gr.area = f.area
    BY <1>2 DEF PathFrames
  <2> HIDE DEF gr, x
  <2>4. stack'[Len(stack')] = gr
    BY <1>6, <1>9
  <2>5. L'.open = L.open \cup {a}
    <3>1. AreasOK /\ Proper(L, FALSE)
      BY <1>2 DEF NavConstants
    <3>2. /\ Opens(AddToOpenList(L, t, a), L, a)
          /\ a \in L.open => Opens(UpdateOnOpenList(L, t, a), L, a)
      BY <1>5, <3>1, OpenIs
    <3>3. L' = IF a \in L.open THEN UpdateOnOpenList(L, t, a) ELSE AddToOpenList(L, t, a)
      BY <1>9
    <3>. QED
      BY <3>2, <3>3 DEF Opens
  <2>6. But(parent', parent, a, f.area) /\ But(cost', cost, a, x)
    BY <1>7, <1>9 DEF But
  <2>7. ASSUME gr.alone PROVE PathHome(gr, L'.open, marked', parent', cost')
    <3>1. PathHome(f, L.open, marked, parent, cost)
      BY <1>2, <2>3, <2>7
    <3>2. a = Adjacent(f.area)[f.i]
      BY DEF a
    <3>3. PathHome(gr, L.open \cup {a}, marked, parent', cost')
      BY <1>1, <1>4, <1>5, <1>7, <2>1, <2>2, <2>3, <2>6, <3>1, <3>2, RelaxedHome
    <3>. QED
      BY <1>1, <2>5, <3>3
  <2>. QED
    BY <1>1, <2>3, <2>4, <2>7, TopHome
<1>. QED
  BY <1>3, <1>8, <1>9

\* A collection begins.
LEMMA CollectStartHome ==
  ASSUME NavConstants, NavInv, NEW q \in Surveys, Collect(q.start, q.limit, q.rise)
  PROVE  HomeInv'
<1> DEFINE start == q.start
           f == [at |-> "collect", start |-> start, limit |-> q.limit, rise |-> q.rise, nearby |-> <<>>, alone |-> TRUE]
<1>1. start \in Areas /\ AreasOK
  BY DEF NavConstants, SearchConstantsOK
<1>2. /\ result' = NoResult /\ marked' = {start}
      /\ L' = AddToOpenList(ClearSearchLists(L), total', start)
      /\ parent' = [parent EXCEPT ![start] = NoArea]
      /\ stack' = Append(Disturbed(stack), f)
  BY DEF Collect
<1>3. NavTyped /\ Stack(stack) /\ L \in OpenLists
  BY DEF NavInv, NavTyped
<1>4. f.at = "collect" /\ f.start = start /\ f.nearby = <<>>
  OBVIOUS
<1> HIDE DEF start, f
<1>5. stack'[Len(stack')] = f
  <2>1. Disturbed(stack) \in Seq(Frames)
    BY <1>3, StackDisturbed DEF Stack
  <2>. QED
    BY <1>2, <2>1
<1>6. L'.open = {start}
  <2>1. Proper(ClearSearchLists(L), FALSE) /\ ClearSearchLists(L).open = {}
    BY <1>3, ClearProper DEF ClearSearchLists, OpenLists
  <2> DEFINE Q == ClearSearchLists(L)
  <2>2. Opens(AddToOpenList(Q, total', start), Q, start)
    <3> HIDE DEF Q
    <3>1. Proper(Q, FALSE)
      BY <2>1 DEF Q
    <3>. QED
      BY <1>1, <3>1, OpenIs
  <2>. QED
    BY <1>2, <2>1, <2>2 DEF Opens
<1>7. ToSet(f.nearby) = {}
  BY <1>4 DEF ToSet
<1>8. CollectHome(f, L'.open, marked', parent')
  <2>1. [y \in Areas |-> 0] \in [Areas -> Nat] /\ 0 \in Nat
    OBVIOUS
  <2>2. Collected({}, start, {start}, parent', [y \in Areas |-> 0])
    BY DEF Collected
  <2>3. \A y \in {} : [b \in Areas |-> 0][y] < 0
    OBVIOUS
  <2>. QED
    BY <1>2, <1>4, <1>6, <1>7, <2>1, <2>2, <2>3 DEF CollectHome
<1>. QED
  BY <1>2, <1>4, <1>5, <1>8, TopHome

\* q is p but for a at the areas of S.
Renewed(q, p, S, a) == \A b \in Areas : q[b] = IF b \in S THEN a ELSE p[b]

\* The areas of S are next to a, and neither in M nor a.
Fresh(S, a, M) == S \subseteq Areas /\ S \cap (M \cup {a}) = {} /\ \A b \in S : b \in ToSet(Adjacent(a))

\* An area is collected, and its unmarked neighbours are listed.
LEMMA CollectedHome ==
  ASSUME NEW f, NEW g, NEW O, NEW M, NEW p, CollectHome(f, O, M, p), NEW a \in Areas, a \in O,
         NEW unmarked, Fresh(unmarked, a, M),
         g.start = f.start, ToSet(g.nearby) = ToSet(f.nearby) \cup {a},
         NEW P, P \subseteq (O \ {a}) \cup unmarked, M \subseteq Areas, O \subseteq Areas,
         NEW q, Renewed(q, p, unmarked, a)
  PROVE  CollectHome(g, P, M \cup {a}, q)
<1> DEFINE N == ToSet(f.nearby)
<1>1. N \subseteq M /\ f.start \in M /\ O \cap N = {} /\ N \subseteq Areas /\ a \notin N
  BY DEF CollectHome
<1>2. PICK rank \in [Areas -> Nat], k \in Nat : /\ \A x \in N : rank[x] < k
                                                /\ Collected(N, f.start, O, p, rank)
  BY DEF CollectHome
<1>3. ToSet(g.nearby) = N \cup {a}
  OBVIOUS
<1>10. /\ unmarked \subseteq Areas /\ unmarked \cap (M \cup {a}) = {}
       /\ \A b \in unmarked : b \in ToSet(Adjacent(a))
       /\ \A b \in Areas : q[b] = IF b \in unmarked THEN a ELSE p[b]
  BY DEF Fresh, Renewed
<1> HIDE DEF N
<1> DEFINE r == [rank EXCEPT ![a] = k]
<1>4. /\ r \in [Areas -> Nat] /\ k + 1 \in Nat /\ r[a] = k /\ \A x \in N : r[x] = rank[x] /\ rank[x] \in Nat
  BY <1>1, <1>2
<1> HIDE DEF r
<1>5. \A x \in N \cup {a} : r[x] < k + 1
  BY <1>2, <1>4
<1>6. P \cap (N \cup {a}) = {}
  BY <1>1, <1>10
<1>7. ASSUME NEW x \in P \cup (N \cup {a}), x # f.start
      PROVE  q[x] \in N \cup {a} /\ x \in ToSet(Adjacent(q[x])) /\ (x \in N \cup {a} => r[q[x]] < r[x])
  <2>1. CASE x \in unmarked
    BY <1>1, <1>10, <2>1
  <2>2. CASE x \notin unmarked
    <3>1. x \in O \cup N /\ x \in Areas /\ q[x] = p[x]
      BY <1>1, <1>7, <1>10, <2>2
    <3>2. p[x] \in N /\ x \in ToSet(Adjacent(p[x])) /\ (x \in N => rank[p[x]] < rank[x])
      BY <1>2, <1>7, <3>1 DEF Collected
    <3>3. CASE x = a
      BY <1>2, <1>4, <3>1, <3>2, <3>3
    <3>4. CASE x # a
      BY <1>4, <3>1, <3>2, <3>4
    <3>. QED
      BY <3>3, <3>4
  <2>. QED
    BY <2>1, <2>2
<1>8. Collected(N \cup {a}, f.start, P, q, r)
  BY <1>7 DEF Collected
<1> DEFINE K == N \cup {a}
<1>9. /\ K \subseteq M \cup {a} /\ f.start \in M \cup {a} /\ P \cap K = {}
      /\ \A x \in K : r[x] < k + 1
      /\ Collected(K, f.start, P, q, r)
      /\ g.start = f.start /\ ToSet(g.nearby) = K
  BY <1>1, <1>3, <1>5, <1>6, <1>8
<1> HIDE DEF K
<1>. QED
  BY <1>4, <1>9 DEF CollectHome

\* What is in a sequence is in a longer one.
LEMMA FirstPart ==
  ASSUME NEW S, NEW s \in Seq(S), NEW u \in Seq(S), NEW b \in ToSet(s)
  PROVE  b \in S /\ b \in ToSet(s \o u)
<1>1. PICK i \in 1..Len(s) : s[i] = b
  BY DEF ToSet
<1>2. (s \o u) \in Seq(S) /\ i \in 1..Len(s \o u) /\ (s \o u)[i] = s[i] /\ s[i] \in S
  OBVIOUS
<1> DEFINE h == s \o u
<1>3. h \in Seq(S) /\ i \in 1..Len(h) /\ h[i] = b
  BY <1>1, <1>2
<1> HIDE DEF h
<1>4. b \in ToSet(h)
  BY <1>3 DEF ToSet
<1>. QED
  BY <1>1, <1>2, <1>4 DEF h

\* The next area of a collection.
LEMMA CollectNextHome ==
  ASSUME NavConstants, NavInv, HomeInv, CollectNext
  PROVE  HomeInv'
<1> DEFINE f == Top
           a == L.head
           unmarked == { b \in ToSet(Floor[a]) : b \notin Teams["any"] /\ b \notin marked \cup {a} }
           g == [f EXCEPT !.nearby = Append(@, a)]
<1>1. stack # <<>> /\ f.at = "collect" /\ a # NoArea /\ result' = NoResult
  BY DEF CollectNext
<1>2. \/ L' = PopOpenList(L) /\ UNCHANGED <<stack, marked, parent>>
      \/ /\ stack' = [stack EXCEPT ![Len(stack)] = g]
         /\ marked' = marked \cup {a}
         /\ parent' = [b \in Areas |-> IF b \in unmarked THEN a ELSE parent[b]]
         /\ L' = AddFresh(PopOpenList(L), total', unmarked, Floor[a])
  BY DEF CollectNext, SetTop, Mark
<1>3. /\ f = stack[Len(stack)] /\ Proper(L, FALSE) /\ NavTyped /\ Stack(stack)
      /\ CollectHome(f, L.open, marked, parent)
  BY <1>1, RunningHome
<1>4. f \in CollectFrames /\ AreasOK
  BY <1>1, <1>3, TopIs, CollectFrameIs DEF NavConstants
<1>5. a \in L.open /\ PopOpenList(L).open = L.open \ {a} /\ L.open \subseteq Areas /\ a \in Areas
  <2>1. f.start \in Areas
    BY <1>4 DEF CollectFrames
  <2>2. a \in L.open /\ PopOpenList(L).open = L.open \ {a} /\ L.open \subseteq Areas
    BY <1>1, <1>3, <1>4, <2>1, OpenIs
  <2>. QED
    BY <2>2
<1>6. marked \subseteq Areas
  BY <1>3 DEF NavTyped
<1>7. /\ unmarked \cap (marked \cup {a}) = {} /\ unmarked \subseteq Areas
      /\ \A b \in unmarked : b \in ToSet(Adjacent(a))
  <2>1. Floor[a] \in Seq(Areas) /\ Climbs[a] \in Seq(Areas)
    BY <1>5 DEF NavConstants, SearchConstantsOK
  <2>2. ASSUME NEW b \in ToSet(Floor[a]) PROVE b \in Areas /\ b \in ToSet(Adjacent(a))
    <3>1. b \in Areas /\ b \in ToSet(Floor[a] \o Climbs[a])
      BY <2>1, FirstPart
    <3>. QED
      BY <3>1 DEF Adjacent
  <2>. QED
    BY <2>2
<1> HIDE DEF f, a, unmarked
<1>8. CASE L' = PopOpenList(L) /\ UNCHANGED <<stack, marked, parent>>
  <2>1. CollectHome(f, L'.open, marked', parent')
    <3>1. L'.open \subseteq L.open
      BY <1>5, <1>8 DEF a
    <3>. QED
      BY <1>3, <1>8, <3>1 DEF CollectHome, Collected
  <2>2. stack'[Len(stack')] = f
    BY <1>3, <1>8
  <2>. QED
    BY <1>1, <2>1, <2>2, TopHome
<1>9. CASE /\ stack' = [stack EXCEPT ![Len(stack)] = g]
           /\ marked' = marked \cup {a}
           /\ parent' = [b \in Areas |-> IF b \in unmarked THEN a ELSE parent[b]]
           /\ L' = AddFresh(PopOpenList(L), total', unmarked, Floor[a])
  <2>1. g.at = "collect" /\ g.start = f.start /\ g.nearby = Append(f.nearby, a) /\ f.nearby \in Seq(Areas)
    BY <1>4 DEF CollectFrames
  <2> HIDE DEF g
  <2>2. ToSet(g.nearby) = ToSet(f.nearby) \cup {a}
    <3>1. /\ g.nearby \in Seq(Areas) /\ Len(g.nearby) = Len(f.nearby) + 1
          /\ \A i \in 1..Len(f.nearby) : g.nearby[i] = f.nearby[i]
          /\ g.nearby[Len(f.nearby) + 1] = a /\ Len(f.nearby) \in Nat
      BY <1>5, <2>1, AppendKnown
    <3>2. \A i \in 1..(Len(f.nearby) + 1) : i \in 1..Len(f.nearby) \/ i = Len(f.nearby) + 1
      BY <3>1
    <3>3. ToSet(g.nearby) = {g.nearby[i] : i \in 1..(Len(f.nearby) + 1)}
      BY <3>1 DEF ToSet
    <3>4. ToSet(f.nearby) = {f.nearby[i] : i \in 1..Len(f.nearby)}
      BY <2>1 DEF ToSet
    <3>. QED
      BY <3>1, <3>2, <3>3, <3>4
  <2>3. stack'[Len(stack')] = g
    <3>1. stack \in Seq(Frames) /\ Len(stack) \in 1..Len(stack)
      BY <1>1, <1>3, LastKnown DEF Stack
    <3>. QED
      BY <1>9, <3>1
  <2>4. L'.open \subseteq (L.open \ {a}) \cup unmarked
    <3>1. Floor[a] \in Seq(Areas)
      BY <1>5, AdjacentIs DEF NavConstants
    <3>2. Proper(PopOpenList(L), FALSE) /\ FALSE \in BOOLEAN
      BY <1>1, <1>3, <1>4, PopProper DEF a
    <3>3. AddFresh(PopOpenList(L), total', unmarked, Floor[a]).open \subseteq PopOpenList(L).open \cup unmarked
      BY <1>4, <3>1, <3>2, AddFreshProper
    <3>. QED
      BY <1>5, <1>9, <3>3 DEF a
  <2>5. Renewed(parent', parent, unmarked, a)
    BY <1>9 DEF Renewed
  <2>6. CollectHome(g, L'.open, marked \cup {a}, parent')
    <3>1. CollectHome(f, L.open, marked, parent) /\ a \in Areas /\ a \in L.open
      BY <1>3, <1>5
    <3>2. Fresh(unmarked, a, marked) /\ marked \subseteq Areas /\ L.open \subseteq Areas
      BY <1>5, <1>6, <1>7 DEF Fresh
    <3>. QED
      BY <2>1, <2>2, <2>4, <2>5, <3>1, <3>2, CollectedHome
  <2>. QED
    BY <1>1, <1>9, <2>1, <2>3, <2>6, TopHome
<1>. QED
  BY <1>2, <1>8, <1>9

\* The end of a collection.
LEMMA CollectEndHome ==
  ASSUME NavInv, HomeInv, CollectEnd
  PROVE  HomeInv'
<1> DEFINE f == Top
<1>1. /\ stack # <<>> /\ f.at = "collect" /\ stack' = Front(stack) /\ parent' = parent
      /\ result' = [NoResult EXCEPT !.by = "collect", !.start = f.start, !.nearby = f.nearby, !.alone = TRUE]
  BY DEF CollectEnd, search
<1>2. f = stack[Len(stack)] /\ NavTyped /\ Stack(stack) /\ CollectHome(f, L.open, marked, parent)
  BY <1>1, RunningHome
<1>3. f.start \in Areas /\ marked \in SUBSET Areas
  <2>1. f \in CollectFrames
    BY <1>1, <1>2, TopIs, CollectFrameIs
  <2> HIDE DEF f
  <2>. QED
    BY <1>2, <2>1 DEF NavTyped, CollectFrames
<1> HIDE DEF f
<1>4. \A a \in ToSet(f.nearby) : Home(a, f.start, parent)
  BY <1>2, <1>3, CollectLeads
<1>5. result'.by = "collect" /\ result'.start = f.start /\ result'.nearby = f.nearby
  BY <1>1 DEF NoResult
<1>6. HomeResult(result', parent')
  BY <1>1, <1>4, <1>5 DEF HomeResult
<1>7. Still(stack')
  BY <1>1, <1>2, StillIs
<1>. QED
  BY <1>6, <1>7, StillHome

\* Every step keeps the way home.
LEMMA HomeNext ==
  ASSUME NavConstants, NavInv, HomeInv, Sane, [SearchNext]_searchVars
  PROVE  HomeInv'
<1>1. CASE UNCHANGED searchVars
  BY <1>1 DEF searchVars, HomeInv
<1>2. CASE Natives
  BY <1>2, NativesHome
<1>3. CASE PluginSearches
  BY <1>3, BuildPathHome, CollectStartHome DEF PluginSearches
<1>4. CASE Run
  <2>1. ASSUME NEW c \in Costs, Cost(c) PROVE HomeInv'
    <3>1. c \in Nat \cup {DeadEnd, NaN}
      BY DEF NavConstants, SearchConstantsOK
    <3>. QED
      BY <2>1, <3>1, CostHome
  <2>2. ASSUME stack # <<>>, Top.at = "cost",
               Cost(OwnCost(Top.area, Adjacent(Top.area)[Top.i]))
        PROVE  HomeInv'
    BY <2>2, OwnCostIs, CostHome
  <2>. QED
    BY <1>4, <2>1, <2>2, StartCostHome, PopHome, ExhaustedHome, NeighbourHome, CollectNextHome,
       CollectEndHome DEF Run
<1>. QED
  BY <1>1, <1>2, <1>3, <1>4 DEF SearchNext

\* If the first area always costs a number, the parents lead from wherever a search
\* that was not disturbed has ended, and from every area that was collected, over
\* connections of the mesh to its start, in no more steps than there are areas.
THEOREM ParentsAlwaysLeadHome ==
  ASSUME NaN \notin StartCosts
  PROVE  SearchSpec => []ParentsLeadHome
<1>1. NavConstants /\ Sane
  BY AreasOK, SearchConstantsOK DEF NavConstants, Sane
<1>2. SearchInit => HomeInv
  BY DEF SearchInit, NoResult, HomeInv, HomeResult, HomeTop
<1>3. NavInv /\ HomeInv /\ [SearchNext]_searchVars => HomeInv'
  BY <1>1, HomeNext
<1>4. NavInv /\ HomeInv => ParentsLeadHome
  <2> SUFFICES ASSUME NavInv, HomeInv PROVE ParentsLeadHome
    OBVIOUS
  <2>1. parent \in [Areas -> Areas \cup {NoArea}] /\ HomeResult(result, parent)
    BY DEF NavInv, NavTyped, HomeInv
  <2>2. \A a : Home(a, result.start, parent) => LeadsHome(a)
    BY <1>1, <2>1, HomeIs DEF NavConstants
  <2>3. \A i \in DOMAIN result.nearby : result.nearby[i] \in ToSet(result.nearby)
    BY DEF ToSet
  <2>. QED
    BY <2>1, <2>2, <2>3 DEF HomeResult, ParentsLeadHome
<1>. QED
  BY <1>2, <1>3, <1>4, NavAlways, PTL DEF SearchSpec
=============================================================================
