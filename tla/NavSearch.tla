----------------------------- MODULE NavSearch -----------------------------
(***************************************************************************)
(* Searches over the nav mesh: NavAreaBuildPath (sourcesdk/nav_mesh.cpp),  *)
(* CollectSurroundingAreas (nav_mesh.h) and the natives that give a plugin *)
(* the same lists (natives/nav.cpp, natives/nav/area.cpp).                 *)
(*                                                                         *)
(* The markers, the open list, the parents and the costs are kept in the   *)
(* areas and in static members, one set for every search.  The cost of a   *)
(* connection comes from a plugin callback, and a callback may start a     *)
(* search of its own: stack holds the searches that are running.           *)
(*                                                                         *)
(* A marker is current or not: marked and L.open are the areas whose       *)
(* m_marker and m_openMarker equal m_masterMarker.  Costs and distances    *)
(* are small integers, one is the least increment, NaN is not a number.    *)
(***************************************************************************)
EXTENDS NavOpenList, FiniteSetsExt

CONSTANTS
  Floor,       \* area -> its neighbours in the four directions
  Climbs,      \* area -> the areas at the ends of its ladders and its elevator
  Place,       \* area -> where its centre is, on a line
  Height,      \* area -> height of its floor
  Teams,       \* team, or "any" -> the areas blocked for it
  Requests,    \* the paths asked for: start, goal, pos, team and limit, 0 for none
  Surveys,     \* the collections asked for: start, limit and the highest step and drop
  Costs,       \* what a cost callback returns: negative (DeadEnd), NaN or a cost
  StartCosts,  \* what it returns for the first area
  MaxDepth,    \* bound: searches that run inside each other
  Offers,      \* what a plugin writes into an area: parent, cost and total cost
  MaxCalls,    \* bound: searches in one behaviour
  MaxNatives   \* bound: list natives in a behaviour of one search

DeadEnd == -2
Huge == 1000   \* 1e30

ASSUME SearchConstantsOK ==
  /\ Floor \in [Areas -> Seq(Areas)] /\ Climbs \in [Areas -> Seq(Areas)]
  /\ Place \in [Areas -> Int] /\ Height \in [Areas -> Int]
  /\ "any" \in DOMAIN Teams /\ \A n \in DOMAIN Teams : Teams[n] \subseteq Areas
  /\ Requests \subseteq [start : Areas, goal : AreaOrNull, pos : AreaOrNull, team : DOMAIN Teams, limit : Nat]
  /\ Surveys \subseteq [start : Areas, limit : Nat, rise : Nat]
  /\ Offers \subseteq [parent : AreaOrNull, cost : Nat, total : Nat]
  /\ MaxDepth \in Nat /\ MaxCalls \in Nat /\ MaxNatives \in Nat
  /\ Costs \subseteq Nat \cup {DeadEnd, NaN} /\ StartCosts \subseteq Nat \cup {DeadEnd, NaN}

VARIABLES
  L,         \* the open list
  marked,    \* areas with the current marker
  parent,    \* m_parent
  cost,      \* m_costSoFar
  total,     \* m_totalCost
  length,    \* m_pathLengthSoFar
  stack,     \* the running searches, the innermost last
  result,    \* what a search has just returned
  calls,     \* searches that may still be asked for
  natives,   \* natives that may still be called
  moved      \* ghost: UpdateOnOpenList was used since the lists were cleared

search == <<L, marked, parent, cost, total, length>>
searchVars == <<L, marked, parent, cost, total, length, stack, result, calls, natives, moved>>

\* by: what has just returned; alone: nothing else has touched the lists meanwhile.
NoResult == [by |-> "none", found |-> FALSE, start |-> NoArea, closest |-> NoArea,
             limit |-> 0, nearby |-> <<>>, alone |-> FALSE]

SearchInit ==
  /\ L = [head |-> NoArea, tail |-> NoArea, prev |-> [a \in Areas |-> NoArea],
          next |-> [a \in Areas |-> NoArea], open |-> {}]
  /\ marked = {} /\ parent = [a \in Areas |-> NoArea]
  /\ cost = [a \in Areas |-> 0] /\ total = [a \in Areas |-> 0] /\ length = [a \in Areas |-> 0]
  /\ stack = <<>> /\ result = NoResult /\ moved = FALSE
  /\ \/ calls = MaxCalls /\ natives = 0
     \/ calls = 1 /\ natives = MaxNatives

\* Floor connections first, then ladders up and down, then the elevator.
Adjacent(a) == Floor[a] \o Climbs[a]

(***************************************************************************)
(* Who runs                                                                *)
(***************************************************************************)
Top == Last(stack)

\* A plugin has control between searches and inside a cost callback.
PluginRuns == stack # <<>> => Top.at \in {"start", "cost"}
MaySearch == PluginRuns /\ calls > 0

\* Another search or a native of a plugin touches the lists.
Disturbed(s) == [i \in DOMAIN s |-> [s[i] EXCEPT !.alone = FALSE]]

SetTop(f) == stack' = [stack EXCEPT ![Len(stack)] = f]

Distance(a, b) == IF Place[a] < Place[b] THEN Place[b] - Place[a] ELSE Place[a] - Place[b]
Plus(x, d) == IF x = NaN THEN NaN ELSE x + d
Greater(x, y) == IF Below(y, x) THEN x ELSE y   \* Max

Blocked(f) == Teams[f.team]
\* Where the search wants to go: the given position, else the goal's centre.
Target(f) == IF f.pos # NoArea THEN f.pos ELSE f.goal

(***************************************************************************)
(* NavAreaBuildPath                                                        *)
(***************************************************************************)
SearchReturns(found, closest) ==
  /\ stack' = Front(stack)
  /\ result' = [NoResult EXCEPT !.by = "path", !.found = found, !.start = Top.start,
                                !.closest = closest, !.limit = Top.limit, !.alone = Top.alone]

\* Everything up to the first call of the cost functor.  pos is the area that
\* contains the goal position, NoArea when no position is given.  A search that
\* returns at once has cut its start off from the parent another search gave it.
BuildPath(r) ==
  LET start == r.start
      goal == IF r.goal \in Teams[r.team] THEN NoArea ELSE r.goal
      frame == [start |-> start, goal |-> goal, pos |-> r.pos, team |-> r.team, limit |-> r.limit,
                at |-> "start", area |-> start, i |-> 0, closest |-> start,
                nearest |-> 0, alone |-> TRUE]
      Trivial(found) == /\ UNCHANGED <<L, marked, total, moved>> /\ stack' = Disturbed(stack)
                        /\ result' = [NoResult EXCEPT !.by = "path", !.found = found, !.start = start,
                                                      !.closest = start, !.alone = TRUE]
  IN /\ MaySearch /\ Len(stack) < MaxDepth
     /\ calls' = calls - 1
     /\ parent' = [parent EXCEPT ![start] = NoArea]
     /\ IF goal = NoArea /\ r.pos = NoArea THEN Trivial(FALSE)
        ELSE IF start = goal THEN Trivial(TRUE)
        ELSE /\ L' = ClearSearchLists(L) /\ marked' = {}
             /\ total' = [total EXCEPT ![start] = Distance(start, Target(frame))]
             /\ stack' = Append(Disturbed(stack), frame)
             /\ result' = NoResult /\ moved' = FALSE
     /\ UNCHANGED <<cost, length, natives>>

\* The functor has returned the cost of the first area.
StartCost(c) ==
  LET f == Top
  IN /\ stack # <<>> /\ f.at = "start"
     /\ IF c = DeadEnd
        THEN SearchReturns(FALSE, f.closest) /\ UNCHANGED search
        ELSE /\ cost' = [cost EXCEPT ![f.start] = c]
             /\ length' = [length EXCEPT ![f.start] = 0]
             /\ L' = AddToOpenList(L, total, f.start)
             /\ SetTop([f EXCEPT !.at = "pop", !.nearest = total[f.start]])
             /\ result' = NoResult /\ UNCHANGED <<marked, parent, total>>
     /\ UNCHANGED <<calls, natives, moved>>

\* The next area of the open list: the goal, a blocked one, or one to expand.
Pop ==
  LET f == Top
      a == L.head
      reached == a = f.goal \/ (f.goal = NoArea /\ a = f.pos)
  IN /\ stack # <<>> /\ f.at = "pop" /\ L.head # NoArea
     /\ L' = PopOpenList(L)
     /\ \/ a \in Blocked(f) /\ result' = NoResult /\ UNCHANGED stack
        \/ a \notin Blocked(f) /\ reached /\ SearchReturns(TRUE, a)
        \/ /\ a \notin Blocked(f) /\ ~ reached /\ result' = NoResult
           /\ SetTop([f EXCEPT !.at = "next", !.area = a, !.i = 1])
     /\ UNCHANGED <<marked, parent, cost, total, length, calls, natives, moved>>

Exhausted ==
  /\ stack # <<>> /\ Top.at = "pop" /\ L.head = NoArea
  /\ SearchReturns(FALSE, Top.closest)
  /\ UNCHANGED <<search, calls, natives, moved>>

\* The next neighbour: not the parent, not itself, not a blocked one.  After
\* the last one the area is closed.
AddToClosedList(a) == marked \cup {a}
Skipped(f, a) == a = parent[f.area] \/ a = f.area \/ a \in Blocked(f)

Neighbour ==
  LET f == Top
      left == { j \in f.i .. Len(Adjacent(f.area)) : ~ Skipped(f, Adjacent(f.area)[j]) }
  IN /\ stack # <<>> /\ f.at = "next"
     /\ IF left = {}
        THEN marked' = AddToClosedList(f.area) /\ SetTop([f EXCEPT !.at = "pop"])
        ELSE SetTop([f EXCEPT !.at = "cost", !.i = Min(left)]) /\ UNCHANGED marked
     /\ result' = NoResult
     /\ UNCHANGED <<L, parent, cost, total, length, calls, natives, moved>>

\* What becomes of the cost that the functor returned for going on from a.
NewCostKeepsNaN(c, a) ==   \* mutant: what is not a number is not clamped
  IF c = NaN THEN NaN ELSE Greater(c, Plus(cost[a], 1))
NewCost(c, a) == Greater(IF c = NaN THEN Huge ELSE c, Plus(cost[a], 1))

IsClosed(a) == a \in marked /\ a \notin L.open
WorseOnlyOpen(a, c) == a \in L.open /\ cost[a] <= c   \* mutant: a closed area takes any path
Worse(a, c) == (a \in L.open \/ IsClosed(a)) /\ cost[a] # NaN /\ c # NaN /\ cost[a] <= c

\* Is the area nearer to the target than the nearest so far?
NearerInTotal(f, a, c) == c + Distance(a, Target(f)) < f.nearest   \* mutant: by the total cost
Nearer(f, a, c) == Distance(a, Target(f)) < f.nearest

\* The neighbour is reached at cost c, by a path of the given length: a worse
\* path is skipped, otherwise it is put into its place on the open list.
Relax(f, a, c) ==
  LET left == Distance(a, Target(f))
      t == [total EXCEPT ![a] = Plus(c, left)]
  IN IF Worse(a, c)
     THEN /\ SetTop([f EXCEPT !.at = "next", !.i = @ + 1])
          /\ UNCHANGED <<L, parent, cost, total, moved>>
     ELSE /\ cost' = [cost EXCEPT ![a] = c] /\ total' = t
          /\ L' = IF a \in L.open THEN UpdateOnOpenList(L, t, a) ELSE AddToOpenList(L, t, a)
          /\ parent' = [parent EXCEPT ![a] = f.area] /\ moved' = (moved \/ a \in L.open)
          /\ SetTop([f EXCEPT !.at = "next", !.i = @ + 1,
                              !.closest = IF Nearer(f, a, c) THEN a ELSE @,
                              !.nearest = IF Nearer(f, a, c) THEN left ELSE @])

\* The functor has returned the cost of the connection: SMPathCost passes on
\* the plugin's answer, or adds the distance to the cost so far.
OwnCost(a, b) == Plus(cost[a], Distance(a, b))

Cost(c) ==
  LET f == Top
      a == Adjacent(f.area)[f.i]
      far == length[f.area] + Distance(a, f.area)
      limited == f.limit > 0
  IN /\ stack # <<>> /\ f.at = "cost"
     /\ IF c = DeadEnd \/ (limited /\ far > f.limit)
        THEN /\ SetTop([f EXCEPT !.at = "next", !.i = @ + 1])
             /\ UNCHANGED <<L, parent, cost, total, length, moved>>
        ELSE /\ length' = IF limited THEN [length EXCEPT ![a] = far] ELSE length
             /\ Relax(f, a, NewCost(c, f.area))
     /\ result' = NoResult
     /\ UNCHANGED <<marked, calls, natives>>

(***************************************************************************)
(* CollectSurroundingAreas: no callback, but the same lists                *)
(***************************************************************************)
Collect(start, limit, rise) ==
  /\ MaySearch /\ Len(stack) < MaxDepth
  /\ calls' = calls - 1 /\ moved' = FALSE /\ result' = NoResult
  /\ total' = [total EXCEPT ![start] = 0]
  /\ L' = AddToOpenList(ClearSearchLists(L), total', start)
  /\ cost' = [cost EXCEPT ![start] = 0]
  /\ parent' = [parent EXCEPT ![start] = NoArea]
  /\ marked' = {start}
  /\ stack' = Append(Disturbed(stack), [at |-> "collect", start |-> start, limit |-> limit,
                                        rise |-> rise, nearby |-> <<>>, alone |-> TRUE])
  /\ UNCHANGED <<length, natives>>

\* ComputeAdjacentConnectionHeightChange, FLT_MAX when the two are not connected.
HeightChange(a, b) == IF b = a \/ b \in ToSet(Floor[a]) THEN Height[b] - Height[a] ELSE Huge

TooFar(f, a) ==
  \/ f.limit > 0 /\ Below(f.limit, cost[a])
  \/ parent[a] # NoArea /\ HeightChange(parent[a], a) \notin (-f.rise) .. f.rise

\* Marked here, so that every marked area is in the collection.
MarkListed(a, fresh) == marked \cup {a} \cup fresh   \* mutant: marked when listed
Mark(a, fresh) == marked \cup {a}

\* Those areas of s that are fresh are listed, one after the other.
AddFresh(l, t, fresh, s) ==
  LET f[i \in 0 .. Len(s)] ==
        IF i = 0 THEN l ELSE IF s[i] \in fresh THEN AddToOpenList(f[i - 1], t, s[i]) ELSE f[i - 1]
  IN f[Len(s)]

\* The unmarked neighbours of a collected area are listed with its cost.
CollectNext ==
  LET f == Top
      a == L.head
      fresh == { b \in ToSet(Floor[a]) : b \notin Teams["any"] /\ b \notin marked \cup {a} }
  IN /\ stack # <<>> /\ f.at = "collect" /\ L.head # NoArea
     /\ IF TooFar(f, a)
        THEN L' = PopOpenList(L) /\ UNCHANGED <<stack, marked, parent, cost, total>>
        ELSE /\ SetTop([f EXCEPT !.nearby = Append(@, a)])
             /\ marked' = Mark(a, fresh)
             /\ parent' = [b \in Areas |-> IF b \in fresh THEN a ELSE parent[b]]
             /\ cost' = [b \in Areas |-> IF b \in fresh THEN Plus(cost[a], Distance(a, b)) ELSE cost[b]]
             /\ total' = [b \in Areas |-> IF b \in fresh THEN 0 ELSE total[b]]
             /\ L' = AddFresh(PopOpenList(L), total', fresh, Floor[a])
     /\ result' = NoResult
     /\ UNCHANGED <<length, calls, natives, moved>>

CollectEnd ==
  /\ stack # <<>> /\ Top.at = "collect" /\ L.head = NoArea
  /\ stack' = Front(stack)
  /\ result' = [NoResult EXCEPT !.by = "collect", !.start = Top.start, !.nearby = Top.nearby, !.alone = TRUE]
  /\ UNCHANGED <<search, calls, natives, moved>>

(***************************************************************************)
(* The natives of CNavArea that change the lists (natives/nav/area.cpp)    *)
(***************************************************************************)
Native ==
  /\ PluginRuns /\ natives > 0 /\ natives' = natives - 1
  /\ stack' = Disturbed(stack) /\ result' = NoResult /\ UNCHANGED calls

NativeClear ==
  /\ Native /\ L' = ClearSearchLists(L) /\ marked' = {} /\ moved' = FALSE
  /\ UNCHANGED <<parent, cost, total, length>>

NativePop ==
  /\ Native /\ L.head # NoArea /\ L' = PopOpenList(L)
  /\ UNCHANGED <<marked, parent, cost, total, length, moved>>

NativeAdd(a) ==
  /\ Native /\ L' = AddToOpenList(L, total, a)
  /\ UNCHANGED <<marked, parent, cost, total, length, moved>>

NativeAddTail(a) ==
  /\ Native /\ L' = AddToOpenListTail(L, a)
  /\ UNCHANGED <<marked, parent, cost, total, length, moved>>

\* As documented, of an area that is on the list and whose cost has fallen.
NativeUpdate(a, v) ==
  /\ Native /\ a \in L.open /\ Below(v, total[a])
  /\ total' = [total EXCEPT ![a] = v]
  /\ L' = UpdateOnOpenList(L, total', a) /\ moved' = TRUE
  /\ UNCHANGED <<marked, parent, cost, length>>

NativeClose(a) ==
  /\ Native /\ marked' = AddToClosedList(a)
  /\ UNCHANGED <<L, parent, cost, total, length, moved>>

NativeSet(a, o) ==
  /\ Native /\ a \notin L.open
  /\ parent' = [parent EXCEPT ![a] = o.parent]
  /\ cost' = [cost EXCEPT ![a] = o.cost]
  /\ total' = [total EXCEPT ![a] = o.total]
  /\ UNCHANGED <<L, marked, length, moved>>

(***************************************************************************)
(* The behaviour                                                           *)
(***************************************************************************)
Run ==
  \/ \E c \in StartCosts : StartCost(c)
  \/ Pop
  \/ Exhausted
  \/ Neighbour
  \/ \E c \in Costs : Cost(c)
  \/ stack # <<>> /\ Top.at = "cost" /\ Cost(OwnCost(Top.area, Adjacent(Top.area)[Top.i]))
  \/ CollectNext
  \/ CollectEnd

PluginSearches ==
  \/ \E r \in Requests : BuildPath(r)
  \/ \E r \in Surveys : Collect(r.start, r.limit, r.rise)

\* AddToOpenListTail is not called after UpdateOnOpenList: the tail may be off by then
\* (SwapUp), the list loses areas, and nothing in nav.inc says so.
Natives ==
  \/ NativeClear
  \/ NativePop
  \/ \E a \in Areas :
       \/ NativeAdd(a)
       \/ moved = FALSE /\ NativeAddTail(a)
       \/ NativeClose(a)
       \/ \E o \in Offers : NativeUpdate(a, o.total) \/ NativeSet(a, o)

SearchNext == Run \/ PluginSearches \/ Natives

\* Fairness: a running search goes on and a cost callback returns, unless it is
\* over.  It is WF_searchVars(Run) written out: Run is enabled while a search runs.
Fair == []<>(stack = <<>>) \/ []<><<Run>>_searchVars

SearchSpec == SearchInit /\ [][SearchNext]_searchVars /\ Fair

(***************************************************************************)
(* Properties                                                              *)
(***************************************************************************)

Frame(f) ==
  /\ f.start \in Areas /\ f.alone \in BOOLEAN /\ f.limit \in Nat
  /\ \/ /\ f.at = "collect" /\ f.rise \in Nat /\ ToSet(f.nearby) \subseteq Areas
     \/ /\ f.at \in {"start", "pop", "next", "cost"}
        /\ f.goal \in AreaOrNull /\ f.pos \in AreaOrNull /\ Target(f) \in Areas
        /\ f.team \in DOMAIN Teams /\ f.goal \notin Blocked(f)
        /\ f.area \in Areas /\ f.closest \in Areas
        /\ f.at = "cost" => f.i \in 1 .. Len(Adjacent(f.area))

\* Every variable has its type, a search that is not the innermost waits in a
\* cost callback, and every cost is a number unless the first one was none.
SearchTypeOK ==
  /\ L \in OpenLists /\ marked \subseteq Areas /\ parent \in [Areas -> AreaOrNull]
  /\ length \in [Areas -> Nat]
  /\ NaN \notin StartCosts => cost \in [Areas -> Nat] /\ total \in [Areas -> Nat]
  /\ Len(stack) <= MaxDepth /\ calls \in 0 .. MaxCalls + 1 /\ natives \in 0 .. MaxNatives
  /\ \A i \in DOMAIN stack : Frame(stack[i])
  /\ \A i \in 1 .. Len(stack) - 1 : stack[i].at \in {"start", "cost"}

\* Whatever searches and natives a cost callback nests in a search, the open
\* list that the search goes on with is a proper list: each area with the
\* current open marker is on it once, the links agree (nav_area.cpp:643), and
\* m_openListTail is its last area until UpdateOnOpenList has moved an area.
OpenListLinked == Linked(L) /\ (~moved => TailIsLast(L))

\* Nothing else has touched the lists of the innermost search.
Undisturbed == stack # <<>> /\ Top.alone /\ Top.at # "collect"

\* A search that is not disturbed pops the areas in the order of their total
\* costs: the list is sorted whenever it pops ("update the list order to keep
\* costs sorted", nav_mesh.cpp:442).
OpenListOrdered == Undisturbed /\ Top.at = "pop" /\ NaN \notin StartCosts => Ordered(L, total)

\* The areas from a along the parents, as far as they lead.
Further(s) ==
  IF Last(s) = result.start \/ parent[Last(s)] = NoArea THEN s ELSE Append(s, parent[Last(s)])

Ancestors(a) ==
  LET s[i \in 0 .. Cardinality(Areas)] == IF i = 0 THEN <<a>> ELSE Further(s[i - 1])
  IN s[Cardinality(Areas)]

LeadsHome(a) ==
  LET s == Ancestors(a)
  IN /\ Last(s) = result.start
     /\ \A i \in 2 .. Len(s) : s[i - 1] \in ToSet(Adjacent(s[i]))

\* Path::Compute walks from the closest area along the parents without a bound
\* (NextBotPath.h:205): after a search that was not disturbed, found or not, the
\* walk ends at the start and each of its links is a connection of the mesh.  The
\* same holds of every area collected.
ParentsLeadHome ==
  /\ result.by = "path" /\ result.alone => LeadsHome(result.closest)
  /\ result.by = "collect" => \A i \in DOMAIN result.nearby : LeadsHome(result.nearby[i])

\* "closestArea: if path fails, this contains the closest area to goal"
\* (nav.inc:316): of the areas that the running search has reached, none is nearer
\* to its target than the one it keeps as the closest.
ClosestIsNearest ==
  Undisturbed /\ Top.at \in {"pop", "next", "cost"} =>
    \A a \in L.open \cup marked \cup {Top.start} :
      Distance(Top.closest, Target(Top)) <= Distance(a, Target(Top))

\* "mark here to ensure all marked areas are also valid areas that are in the
\* collection" (nav_mesh.h:85): when a collection returns, the marked areas
\* are those collected, each of them once.
MarkedAreCollected ==
  result.by = "collect" =>
    marked = ToSet(result.nearby) /\ Cardinality(marked) = Len(result.nearby)

\* The length of the walk from the closest area to the start.
WalkLength == LET s == Ancestors(result.closest)
              IN FoldLeft(LAMBDA n, i : n + Distance(s[i], s[i + 1]), 0,
                                       [i \in 1 .. Len(s) - 1 |-> i])

\* "maxPathLength: if non-zero, the maximum length of the path" (nav.inc:317):
\* violated.  The length kept with an area is overwritten by that of a worse path
\* before the path is skipped (nav_mesh.cpp:412).
FoundWithinLimit ==
  result.by = "path" /\ result.found /\ result.alone /\ result.limit > 0
    => WalkLength <= result.limit

\* Every search returns when the callbacks nest searches in it only a limited number of
\* times (MaxCalls) and the cost of its first area is a number, whatever they answer
\* otherwise: dead ends, what is not a number, or costs below the cost so far.  Without the
\* premises it need not.  A first cost that is not a number makes every later cost one
\* (nav_mesh.cpp:185), and areas are reopened for ever; and a callback that nests a
\* search each time wipes the markers (nav_mesh.cpp:179), so that the outer search meets its
\* closed areas as new ones and may go round a ring of areas for ever.
SearchEnds == NaN \notin StartCosts => (stack # <<>> ~> stack = <<>>)

\* The open list is one list of the open areas, in the order of their costs.  It
\* excludes the one sequence of natives that breaks the list (see Natives).
OpenListSound == OpenListLinked /\ OpenListOrdered
=============================================================================
