---------------------------- MODULE NavOpenList ----------------------------
(***************************************************************************)
(* The open list of the area searches (sourcesdk/nav_area.cpp): a doubly   *)
(* linked list threaded through the areas, in a record                     *)
(*   head, tail   m_openList and m_openListTail                            *)
(*   prev, next   m_prevOpen and m_nextOpen of every area                  *)
(*   open         the areas whose m_openMarker is the master marker        *)
(* The total costs are an argument t: they belong to the search.           *)
(***************************************************************************)
EXTENDS Integers, Sequences, SequencesExt, FiniteSets

CONSTANTS
  Areas,     \* the areas of the mesh
  NoArea     \* a null pointer

ASSUME AreasOK == IsFiniteSet(Areas) /\ NoArea \notin Areas

AreaOrNull == Areas \cup {NoArea}

OpenLists == [head : AreaOrNull, tail : AreaOrNull, prev : [Areas -> AreaOrNull],
              next : [Areas -> AreaOrNull], open : SUBSET Areas]

\* A comparison with a cost that is not a number is false.
NaN == -1
Below(x, y) == x # NaN /\ y # NaN /\ x < y

\* ClearSearchLists: a new marker and empty ends; the links stay in the areas.
ClearSearchLists(L) == [L EXCEPT !.head = NoArea, !.tail = NoArea, !.open = {}]

\* The areas from the head on, as far as the links lead.
Follow(L, s) ==
  IF s = <<>> \/ L.next[Last(s)] = NoArea THEN s ELSE Append(s, L.next[Last(s)])

Listed(L) ==
  LET s[i \in 0 .. Cardinality(Areas)] ==
        IF i = 0 THEN IF L.head = NoArea THEN <<>> ELSE <<L.head>> ELSE Follow(L, s[i - 1])
  IN s[Cardinality(Areas)]

\* A store through a pointer that the code has tested.
Put(f, a, v) == IF a = NoArea THEN f ELSE [f EXCEPT ![a] = v]

\* Between an area and its successor, either of which may be missing.
InsertAfter(L, a, before, after) ==
  [L EXCEPT !.head = IF before = NoArea THEN a ELSE @,
            !.tail = IF after = NoArea THEN a ELSE @,
            !.prev = Put(Put(@, a, before), after, a),
            !.next = Put(Put(@, a, after), before, a),
            !.open = @ \cup {a}]

FirstOpen(L, a) == InsertAfter(L, a, NoArea, NoArea)

\* AddToOpenList: before the first area with a greater total cost.
AddUnordered(L, t, a) ==   \* mutant: the walk stops at the first area
  IF a \in L.open THEN L
  ELSE IF L.head = NoArea THEN FirstOpen(L, a)
  ELSE InsertAfter(L, a, NoArea, L.head)

AddToOpenList(L, t, a) ==
  LET s == Listed(L)
      dearer == { j \in 1 .. Len(s) : Below(t[a], t[s[j]]) }
      i == Min(dearer)
  IN IF a \in L.open THEN L
     ELSE IF L.head = NoArea THEN FirstOpen(L, a)
     ELSE IF dearer # {} THEN InsertAfter(L, a, L.prev[s[i]], s[i])
     ELSE InsertAfter(L, a, Last(s), NoArea)

\* AddToOpenListTail trusts m_openListTail.
AddToOpenListTail(L, a) ==
  IF a \in L.open THEN L
  ELSE IF L.head = NoArea THEN FirstOpen(L, a)
  ELSE [L EXCEPT !.tail = a, !.prev[a] = L.tail, !.open = @ \cup {a},
                 !.next = Put(Put(@, L.tail, a), a, NoArea)]

\* PopOpenList of a list that is not empty, and RemoveFromOpenList in it.
PopKeepsBack(L) ==   \* mutant: the new head keeps its link to the old one
  LET a == L.head
  IN [L EXCEPT !.head = L.next[a], !.tail = IF L.next[a] = NoArea THEN NoArea ELSE @,
               !.next[a] = NoArea, !.open = @ \ {a}]

PopOpenList(L) ==
  LET a == L.head
      after == L.next[a]
  IN [L EXCEPT !.head = after,
               !.tail = IF after = NoArea THEN L.prev[a] ELSE @,
               !.prev = Put(Put(@, after, L.prev[a]), a, NoArea),
               !.next = Put(@, a, NoArea), !.open = @ \ {a}]

\* One round of UpdateOnOpenList: a changes places with its predecessor.  When
\* a was the last, m_openListTail becomes a, though the predecessor is last now.
SwapUp(L, a) ==
  LET other == L.prev[a]
      beyond == L.prev[other]
      after == L.next[a]
  IN [L EXCEPT
        !.head = IF beyond = NoArea THEN a ELSE @,
        !.tail = IF after = NoArea THEN a ELSE @,
        !.next = Put(Put(Put(@, a, other), other, after), beyond, a),
        !.prev = Put(Put(Put(@, a, beyond), other, a), after, other)]

\* The round is made while the predecessor costs more.
Raise(L, t, a) == IF L.prev[a] # NoArea /\ Below(t[a], t[L.prev[a]]) THEN SwapUp(L, a) ELSE L

UpdateOnOpenList(L, t, a) ==
  LET l[i \in 0 .. Cardinality(Areas)] == IF i = 0 THEN L ELSE Raise(l[i - 1], t, a)
  IN l[Cardinality(Areas)]

(***************************************************************************)
(* What the list should be                                                 *)
(***************************************************************************)

\* The links from the head run through every open area once, forth and back.
Linked(L) ==
  LET s == Listed(L)
  IN /\ Len(s) = Cardinality(L.open) /\ ToSet(s) = L.open
     /\ \A i \in 1 .. Len(s) : L.prev[s[i]] = IF i = 1 THEN NoArea ELSE s[i - 1]

\* m_openListTail is the end of the list.
TailIsLast(L) == L.tail = IF L.open = {} THEN NoArea ELSE Last(Listed(L))

\* The list in the order of the total costs.
Ordered(L, t) ==
  LET s == Listed(L) IN \A i \in 1 .. Len(s) - 1 : ~ Below(t[s[i + 1]], t[s[i]])
=============================================================================
