-------------------------- MODULE InterfaceProofs --------------------------
(***************************************************************************)
(* The invariants of the tree of displayed items, and what the parts of    *)
(* Interface promise: groups of annotations, drags on the canvas, the side *)
(* panel and the view.  Each is proved about by itself, for every value of *)
(* its constants.                                                          *)
(***************************************************************************)
EXTENDS Interface, ItemTree, DisplayedItemTreeProofs, FiniteSetTheorems

-----------------------------------------------------------------------------
(* The tree of displayed items *)

\* In every build: a tree of nodes that shows each item once.
ItemsInv == Shows(items, Refs, RefsOf(items))

\* The empty tree shows no item.
LEMMA InitShows == Init => ItemsInv
<1>1. RefsOf(<<>>) = {}
  BY DEF RefsOf
<1>2. QED
  BY <1>1, NothingShows DEF Init, ItemsInv

\* Every method leaves a tree of nodes that shows each item once, whether or
\* not the levels of its nodes go in by one.
LEMMA NextShows == ItemsInv /\ [Next]_vars => ItemsInv'
<1>1. SUFFICES ASSUME ItemsInv, [Next]_vars PROVE ItemsInv'
  OBVIOUS
<1>2. PICK held : held = RefsOf(items) /\ Shows(items, Refs, held)
  BY <1>1 DEF ItemsInv
<1>3. DOMAIN items = 1..Len(items) /\ Len(items) \in Nat
  BY <1>2 DEF Shows
<1>4. ASSUME NEW ref \in Refs, NEW target \in TargetPosition(Len(items)),
             InsertItem(ref, target)
      PROVE  \E shown : Shows(items', Refs, shown)
  <2>1. target.before \in Nat \ {0}
    BY <1>3 DEF TargetPosition
  <2>2. ref \notin held /\ CheckLocation(items, target)
    BY <1>2, <1>4 DEF InsertItem
  <2>3. QED
    BY <1>2, <1>4, <2>1, <2>2, InsertShows DEF InsertItem
<1>5. ASSUME NEW i \in DOMAIN items, RemoveItem(i)
      PROVE  \E shown : Shows(items', Refs, shown)
  BY <1>2, <1>3, <1>5, RemoveShows DEF RemoveItem
<1>6. ASSUME NEW i \in DOMAIN items, DissolveItem(i)
      PROVE  \E shown : Shows(items', Refs, shown)
  BY <1>2, <1>3, <1>6, DissolveShows DEF DissolveItem
<1>7. ASSUME NEW i \in DOMAIN items, NEW target \in TargetPosition(Len(items)),
             MoveOne(i, target)
      PROVE  \E shown : Shows(items', Refs, shown)
  <2>1. target.before \in Nat \ {0}
    BY <1>3 DEF TargetPosition
  <2>2. QED
    BY <1>2, <1>3, <1>7, <2>1, MoveSubtreeShows DEF MoveOne
<1>8. ASSUME NEW i \in DOMAIN items, NEW unfolded \in BOOLEAN,
             Fold(i, unfolded) \/ FoldRecursive(i, unfolded)
      PROVE  \E shown : Shows(items', Refs, shown)
  BY <1>2, <1>3, <1>8, FoldShows, FoldRecursiveShows DEF Fold, FoldRecursive
<1>9. ASSUME NEW refs \in SUBSET Refs, DrainIf(refs)
      PROVE  \E shown : Shows(items', Refs, shown)
  BY <1>2, <1>9, DrainedShows DEF DrainIf
<1>10. ASSUME NEW v \in DOMAIN items, NEW direction \in {"Up", "Down"},
              MoveVisible(v, direction)
       PROVE  \E shown : Shows(items', Refs, shown)
  BY <1>2, <1>10, MoveItemShows DEF MoveVisible
<1>11. ASSUME NEW unfolded \in BOOLEAN, FoldAll(unfolded)
       PROVE  \E shown : Shows(items', Refs, shown)
  BY <1>2, <1>11, FoldAllShows DEF FoldAll
<1>12. ASSUME NEW positions \in SUBSET VisiblePositions(items),
              NEW selected \in BOOLEAN, Select(positions, selected)
       PROVE  \E shown : Shows(items', Refs, shown)
  BY <1>2, <1>12, SelectShows DEF Select
<1>13. CASE UNCHANGED vars
  BY <1>1, <1>13 DEF vars, ItemsInv
<1>14. CASE Next
  <2>1. \E shown : Shows(items', Refs, shown)
    BY <1>4, <1>5, <1>6, <1>7, <1>8, <1>9, <1>10, <1>11, <1>12, <1>14, Zenon DEF Next
  <2>2. QED
    BY <2>1 DEF Shows, ItemsInv
<1>15. QED
  BY <1>1, <1>13, <1>14

LEMMA AlwaysShows == Spec => []ItemsInv
BY InitShows, NextShows, PTL DEF Spec

\* The methods of DisplayedItemTree produce nodes of known items only, with a
\* level a u8 holds, in both builds and also in a move that fails half way.
THEOREM TypeCorrect == Spec => []TypeOK
<1>1. ItemsInv => TypeOK
  BY DEF ItemsInv, Shows, TypeOK
<1>2. QED
  BY <1>1, AlwaysShows, PTL

\* No sequence of method calls shows an item twice, also where levels wrap.
THEOREM RefsCorrect == Spec => []UniqueRefs
<1>1. ItemsInv => UniqueRefs
  BY DEF ItemsInv, Shows, UniqueRefs
<1>2. QED
  BY <1>1, AlwaysShows, PTL

\* The inductive invariant for the levels: they are natural numbers only in a
\* tree of nodes, and a move finds the nodes it leaves behind by their
\* references, so the three invariants go together.
TreeInv == WellFormed(items, Refs)

\* No addition of levels wraps around in the step.
NoWrap == OverflowChecks \/ NoGroupAtLimit

\* The empty tree is well formed.
LEMMA InitWellFormed == Init => TreeInv
<1>1. SUFFICES ASSUME Init PROVE TreeInv
  OBVIOUS
<1>2. items \in Seq(NodeOf(Refs)) /\ items = <<>>
  BY <1>1, EmptySeq, Zenon DEF Init
<1>3. QED
  BY <1>2 DEF TreeInv, WellFormed, LevelsMonotone, RefsUnique

\* Every method keeps the tree well formed, unless a level wraps around.
LEMMA NextWellFormed == TreeInv /\ NoWrap /\ [Next]_vars => TreeInv'
<1>1. SUFFICES ASSUME TreeInv, NoWrap, [Next]_vars PROVE TreeInv'
  OBVIOUS
<1>2. WellFormed(items, Refs) /\ DOMAIN items = 1..Len(items)
  BY <1>1 DEF TreeInv, WellFormed
<1>3. ASSUME NEW ref \in Refs, NEW target \in TargetPosition(Len(items)),
             InsertItem(ref, target)
      PROVE  WellFormed(items', Refs)
  <2>1. target.before \in 1..Len(items)+1
    BY DEF TargetPosition
  <2>2. ref \in Refs \ RefsOf(items) /\ CheckLocation(items, target)
    BY <1>3 DEF InsertItem
  <2>3. WellFormed(InsertNode(items, ref, target), Refs)
    BY <1>2, <2>1, <2>2, InsertTree, Zenon
  <2>4. QED
    BY <1>3, <2>3 DEF InsertItem
<1>4. ASSUME NEW i \in DOMAIN items, RemoveItem(i)
      PROVE  WellFormed(items', Refs)
  BY <1>2, <1>4, RemoveTree DEF RemoveItem
<1>5. ASSUME NEW i \in DOMAIN items, DissolveItem(i)
      PROVE  WellFormed(items', Refs)
  BY <1>2, <1>5, DissolveTree DEF DissolveItem
<1>6. ASSUME NEW i \in DOMAIN items, NEW target \in TargetPosition(Len(items)),
             MoveOne(i, target)
      PROVE  WellFormed(items', Refs)
  <2>1. target.before \in 1..Len(items)+1 /\ target.level \in Nat
    BY MaxLevelAssumption DEF TargetPosition, Level
  <2>2. QED
    BY <1>2, <1>6, <2>1, MoveSubtreeTree DEF MoveOne
<1>7. ASSUME NEW i \in DOMAIN items, NEW unfolded \in BOOLEAN, Fold(i, unfolded)
      PROVE  WellFormed(items', Refs)
  BY <1>2, <1>7, FoldTree DEF Fold
<1>8. ASSUME NEW i \in DOMAIN items, NEW unfolded \in BOOLEAN,
             FoldRecursive(i, unfolded)
      PROVE  WellFormed(items', Refs)
  BY <1>2, <1>8, FoldRecursiveTree DEF FoldRecursive
<1>9. ASSUME NEW refs \in SUBSET Refs, DrainIf(refs)
      PROVE  WellFormed(items', Refs)
  BY <1>2, <1>9, DrainedTree DEF DrainIf
<1>10. ASSUME NEW v \in DOMAIN items, NEW direction \in {"Up", "Down"},
              MoveVisible(v, direction)
       PROVE  WellFormed(items', Refs)
  <2>1. OverflowChecks \/ GroupsAboveLimit(items, Groups)
    BY <1>1 DEF NoWrap, NoGroupAtLimit, GroupsAboveLimit
  <2>2. QED
    BY <1>2, <1>10, <2>1, MoveItemTree DEF MoveVisible
<1>11. ASSUME NEW unfolded \in BOOLEAN, FoldAll(unfolded)
       PROVE  WellFormed(items', Refs)
  BY <1>2, <1>11, FoldAllTree DEF FoldAll
<1>12. ASSUME NEW positions \in SUBSET VisiblePositions(items),
              NEW selected \in BOOLEAN, Select(positions, selected)
       PROVE  WellFormed(items', Refs)
  BY <1>2, <1>12, SelectTree DEF Select
<1>13. CASE UNCHANGED vars
  BY <1>2, <1>13 DEF vars, TreeInv
<1>14. CASE Next
  <2>1. WellFormed(items', Refs)
    BY <1>3, <1>4, <1>5, <1>6, <1>7, <1>8, <1>9, <1>10, <1>11, <1>12, <1>14,
       Zenon DEF Next
  <2>2. QED
    BY <2>1 DEF TreeInv
<1>15. QED
  BY <1>1, <1>13, <1>14

\* The documented invariant of DisplayedItemTree holds after every sequence of
\* method calls, for a tree of any size and depth: in a build that checks the
\* addition of levels always, in another one while no group has got to the
\* largest level.
THEOREM LevelsCorrect == Spec /\ [](OverflowChecks \/ NoGroupAtLimit) => []LevelsOK
<1>1. TreeInv => LevelsOK
  BY DEF TreeInv, WellFormed, LevelsOK
<1>2. OverflowChecks \/ NoGroupAtLimit <=> NoWrap
  BY DEF NoWrap
<1>3. Spec /\ []NoWrap => []TreeInv
  BY InitWellFormed, NextWellFormed, PTL DEF Spec
<1>4. QED
  BY <1>1, <1>2, <1>3, PTL

-----------------------------------------------------------------------------
(* Drags on the canvas *)

\* While an annotation is drawn, the origin that is remembered is that of the
\* drag under way: the tool cannot be changed during a drag, and every drag that
\* begins while a tool is chosen sets the origin.
DragInv ==
  /\ button \in {"none", "Primary", "Middle"}
  /\ button # "none" /\ kind # "None" => start = press
  /\ gestures!AnnotationFromThisDrag

LEMMA DragStarts == gestures!Init => DragInv
BY DEF gestures!Init, DragInv, gestures!AnnotationFromThisDrag

LEMMA DragStep == DragInv /\ [gestures!Next]_(gestures!vars) => DragInv'
<1>1. SUFFICES ASSUME DragInv, [gestures!Next]_(gestures!vars) PROVE DragInv'
  OBVIOUS
<1>2. ASSUME NEW b \in {"Primary", "Middle"}, NEW below \in BOOLEAN,
             gestures!DragStarted(b, below)
      PROVE  DragInv'
  <2>1. kind # "None" => gestures!StartsAt(b)
    BY DEF gestures!StartsAt, gestures!Gesture, gestures!Annotating
  <2>2. QED
    BY <1>1, <1>2, <2>1
    DEF DragInv, gestures!DragStarted, gestures!AnnotationFromThisDrag
<1>3. ASSUME NEW m \in SUBSET {"Command", "Shift"}, gestures!SetModifiers(m)
      PROVE  DragInv'
  BY <1>1, <1>3 DEF DragInv, gestures!SetModifiers, gestures!AnnotationFromThisDrag
<1>4. ASSUME NEW k \in gestures!Kinds, gestures!SetMouseGestureAnnotation(k)
      PROVE  DragInv'
  BY <1>1, <1>4 DEF DragInv, gestures!SetMouseGestureAnnotation, gestures!AnnotationFromThisDrag
<1>5. ASSUME NEW pointer \in BOOLEAN, NEW moved \in BOOLEAN, NEW onItem \in BOOLEAN,
             NEW zone \in {"north", "east", "northeast"},
             gestures!DragStopped(pointer, moved, zone, onItem)
      PROVE  DragInv'
  <2>1. CASE UNCHANGED done
    BY <1>1, <1>5, <2>1 DEF DragInv, gestures!DragStopped, gestures!AnnotationFromThisDrag
  <2>2. CASE done' # done
    <3>1. /\ button # "none" /\ button' = "none"
          /\ done' = [what |-> IF moved
                               THEN gestures!StopMessages(kind, zone, onItem, gestures!DefaultZones)
                               ELSE {},
                      from |-> start, at |-> press]
      BY <1>5, <2>2 DEF gestures!DragStopped
    <3>2. CASE kind # "None"
      BY <1>1, <3>1, <3>2 DEF DragInv, gestures!AnnotationFromThisDrag
    <3>3. CASE kind = "None"
      <4>1. gestures!StopMessages(kind, zone, onItem, gestures!DefaultZones)
              = gestures!GestureMessages(zone, gestures!DefaultZones)
        BY <3>3 DEF gestures!StopMessages
      <4>2. gestures!GestureMessages(zone, gestures!DefaultZones)
              \cap {"RectangleAdded", "ArrowAdded"} = {}
        BY DEF gestures!GestureMessages, gestures!DefaultZones
      <4>3. QED
        BY <3>1, <4>1, <4>2 DEF DragInv, gestures!AnnotationFromThisDrag
    <3>4. QED
      BY <3>2, <3>3
  <2>3. QED
    BY <2>1, <2>2
<1>6. CASE UNCHANGED gestures!vars
  BY <1>1, <1>6 DEF DragInv, gestures!vars, gestures!AnnotationFromThisDrag
<1>7. QED
  BY <1>1, <1>2, <1>3, <1>4, <1>5, <1>6 DEF gestures!Next

\* An annotation starts where the drag that draws it started, whatever buttons,
\* modifiers and tools earlier drags left behind (mousegestures.rs).
THEOREM AnnotationsOfTheirDrag == gestures!Spec => []AnnotationFromThisDrag
<1>1. DragInv => AnnotationFromThisDrag
  BY DEF DragInv, AnnotationFromThisDrag
<1>2. QED
  BY <1>1, DragStarts, DragStep, PTL DEF gestures!Spec
-----------------------------------------------------------------------------
(* The view *)

\* A view is a record of four fields; nothing else is needed of it here.
Formed(v) ==
  v = [left |-> v.left, right |-> v.right, strategy |-> v.strategy, move |-> v.move]

\* An operation that sends the view somewhere ends no movement.
Sends(v, r) == Formed(v) => Formed(r) /\ (view!IsMoving(v) => view!IsMoving(r))

LEMMA TargetsSend == \A v, a, b : Sends(v, view!SetTargets(v, a, b))
<1>1. SUFFICES ASSUME NEW v, NEW a, NEW b, Formed(v)
               PROVE  LET r == view!SetTargets(v, a, b)
                      IN  Formed(r) /\ (view!IsMoving(v) => view!IsMoving(r))
  BY DEF Sends
<1>2. CASE v.strategy = "Instant"
  BY <1>1, <1>2 DEF Formed, view!SetTargets, view!IsMoving
<1>3. CASE v.strategy # "Instant"
  <2>1. view!Move(v, a, b) # view!Still
    BY DEF view!Move, view!Still
  <2>2. QED
    BY <1>1, <1>3, <2>1 DEF Formed, view!SetTargets, view!IsMoving
<1>4. QED
  BY <1>2, <1>3

LEMMA ClippingSends ==
  /\ \A v, a, b : Sends(v, view!SetClippedNoWidthCheck(v, a, b))
  /\ \A v, a, b, m : Sends(v, view!SetClipped(v, a, b, m))
<1>1. \A v, a, b : Sends(v, view!SetClippedNoWidthCheck(v, a, b))
  BY TargetsSend, Zenon DEF view!SetClippedNoWidthCheck
<1>2. \A v, a, b, m : Sends(v, view!SetClipped(v, a, b, m))
  BY <1>1, Zenon DEF view!SetClipped
<1>3. QED
  BY <1>1, <1>2

\* A message of the user sends the view somewhere or leaves it.
LEMMA MessagesSend ==
  ASSUME Formed(vp), view!Zoom \/ view!Range \/ view!Scroll \/ view!Go
  PROVE  Sends(vp, vp')
<1>1. \A v : Sends(v, v)
  BY DEF Sends
<1>2. CASE view!Zoom
  BY <1>2, ClippingSends, Zenon
  DEF view!Zoom, view!Apply, view!CanvasZoom, view!CanvasZoomAt, view!ZoomToTime, view!Around
<1>3. CASE view!Range
  BY <1>3, ClippingSends, Zenon DEF view!Range, view!Apply, view!ZoomToRange
<1>4. CASE view!Scroll
  <2>1. PICK delta \in {-1000, 1000} : vp' = view!CanvasScroll(vp, delta)
    BY <1>4 DEF view!Scroll, view!Apply
  <2>2. QED
    BY <2>1, ClippingSends DEF view!CanvasScroll
<1>5. CASE view!Go
  BY <1>1, <1>5, TargetsSend, ClippingSends, Zenon
  DEF view!Go, view!Apply, view!ZoomToFit, view!GoToStart, view!GoToEnd, view!GoToTime,
      view!GoToCursorIfNotInView, view!Around
<1>6. QED
  BY <1>2, <1>3, <1>4, <1>5

\* Only the last step of a movement and a reload end one.
LEMMA ViewStep ==
  ASSUME Formed(vp), [view!Next]_(view!vars)
  PROVE  /\ Formed(vp)'
         /\ view!IsMoving(vp) /\ ~view!IsMoving(vp') /\ max' = max
              => vp'.left = vp.move[1].left /\ vp'.right = vp.move[1].right
<1>1. CASE view!Zoom \/ view!Range \/ view!Scroll \/ view!Go
  BY <1>1, MessagesSend DEF Sends
<1>2. CASE view!Animate
  <2>1. vp' = view!MoveViewport(vp)
    BY <1>2 DEF view!Animate, view!Apply
  <2>2. CASE vp' = view!At(vp, vp.move[1].left, vp.move[1].right)
    BY <2>2 DEF Formed, view!At
  <2>3. CASE vp' = view!Advance(vp)
    <3>1. /\ Formed(vp')
          /\ vp'.move = <<[vp.move[1] EXCEPT !.n = @ + 1]>>
      BY <2>3 DEF Formed, view!Advance
    <3>2. vp'.move # <<>>
      BY <3>1
    <3>3. QED
      BY <3>1, <3>2 DEF view!IsMoving, view!Still
  <2>4. QED
    BY <2>1, <2>2, <2>3 DEF view!MoveViewport
<1>3. CASE view!SetStrategy
  BY <1>3 DEF view!SetStrategy, view!Apply, Formed, view!IsMoving
<1>4. CASE view!Reload
  BY <1>4 DEF view!Reload, view!ClipTo, view!At, Formed
<1>5. CASE UNCHANGED view!vars
  BY <1>5 DEF view!vars, Formed
<1>6. QED
  BY <1>1, <1>2, <1>3, <1>4, <1>5 DEF view!Next

\* A movement of the view that ends has arrived where it was last sent, whatever
\* zooms, scrolls and changes of the strategy came in between, unless a reload
\* moved the view (move_viewport).
THEOREM MovementsArrive == view!Spec => ArrivesAtTarget
<1>1. view!Init => Formed(vp)
  BY DEF view!Init, view!Default, Formed
<1>2. Formed(vp) /\ [view!Next]_(view!vars) => Formed(vp)'
  BY ViewStep
<1>3. Formed(vp) /\ [view!Next]_(view!vars) =>
        [view!IsMoving(vp) /\ ~view!IsMoving(vp') /\ max' = max
           => vp'.left = vp.move[1].left /\ vp'.right = vp.move[1].right]_(view!vars)
  BY ViewStep
<1>4. QED
  BY <1>1, <1>2, <1>3, PTL DEF view!Spec, ArrivesAtTarget, view!ArrivesAtTarget
-----------------------------------------------------------------------------
(* The side panel *)

\* The cache of the filter knows whether its pattern is one.
Honest(cache) ==
  \A t, x : cache.pattern = <<<<t, x>>>> => cache.error = (t = "Regex" /\ x = "(")

\* A request to expand a scope has forgotten what was closed.
ScopesInv ==
  /\ style \in {"Separate", "Tree", "Variables"}
  /\ expand # <<>> => shut = {}
  /\ hierarchy!ClosedStaysClosed

LEMMA PatternsDiffer ==
  /\ \A t, x : <<>> # <<<<t, x>>>>
  /\ \A t, x, u, y : <<<<t, x>>>> = <<<<u, y>>>> => t = u /\ x = y
OBVIOUS

LEMMA PanelStarts == hierarchy!Init => Honest(regex) /\ ScopesInv
<1>1. SUFFICES ASSUME hierarchy!Init PROVE Honest(regex) /\ ScopesInv
  OBVIOUS
<1>2. regex.pattern = <<>> /\ shut = {} /\ style = "Separate"
  BY <1>1 DEF hierarchy!Init
<1>3. QED
  BY <1>2, PatternsDiffer DEF Honest, ScopesInv, hierarchy!ClosedStaysClosed

\* What a use of the filter leaves in its cache speaks of the filter.
LEMMA CacheOfPattern ==
  ASSUME Honest(regex), NEW c, c = hierarchy!NameFilterCache(filter)
  PROVE  Honest(c) /\ (filter.type = "Regex" => c.error = ~hierarchy!IsValid(filter))
<1> DEFINE pattern == <<<<filter.type, filter.text>>>>
<1>1. CASE filter.text = ""
  <2>1. CASE filter.type = "Regex"
    <3>1. c = [pattern |-> <<>>, error |-> FALSE]
      BY <1>1, <2>1 DEF hierarchy!NameFilterCache
    <3>2. c.pattern = <<>> /\ c.error = FALSE
      BY <3>1
    <3>3. QED
      BY <1>1, <3>2, PatternsDiffer DEF hierarchy!IsValid, Honest
  <2>2. CASE filter.type # "Regex"
    BY <1>1, <2>2 DEF hierarchy!NameFilterCache
  <2>3. QED
    BY <2>1, <2>2
<1>2. CASE filter.text # "" /\ regex.pattern = pattern /\ ~regex.error
  <2>1. c = regex
    BY <1>2 DEF hierarchy!NameFilterCache
  <2>2. regex.error = FALSE /\ ~(filter.type = "Regex" /\ filter.text = "(")
    BY <1>2 DEF Honest
  <2>3. QED
    BY <1>2, <2>1, <2>2 DEF hierarchy!IsValid
<1>3. CASE filter.text # "" /\ ~(regex.pattern = pattern /\ ~regex.error)
  <2>1. c = [pattern |-> pattern, error |-> ~hierarchy!IsValid(filter)]
    BY <1>3 DEF hierarchy!NameFilterCache
  <2>2. c.pattern = pattern /\ c.error = ~hierarchy!IsValid(filter)
    BY <2>1
  <2>3. QED
    BY <2>2, PatternsDiffer DEF hierarchy!IsValid, Honest
<1>4. QED
  BY <1>1, <1>2, <1>3

\* A frame opens what is not closed.
LEMMA FrameKeepsScopes ==
  ASSUME ScopesInv, NEW clicked, hierarchy!Frame(clicked)
  PROVE  ScopesInv'
<1>1. CASE style = "Variables"
  BY <1>1 DEF hierarchy!Frame, hierarchy!ExpandAfterFrame, ScopesInv, hierarchy!ClosedStaysClosed
<1>2. CASE style \in {"Separate", "Tree"}
  <2>1. PICK drawn, closed :
          /\ closed = clicked \cap drawn
          /\ open' = (drawn \ closed) \cup (clicked \ drawn)
          /\ shut' = IF hierarchy!StaysPending THEN {} ELSE (shut \ clicked) \cup closed
          /\ expand = <<>> => drawn \subseteq open
    BY <1>2 DEF hierarchy!Frame, hierarchy!Opened
  <2>2. shut = {} \/ drawn \subseteq open
    BY <2>1 DEF ScopesInv
  <2>3. shut' \cap open' = {}
    BY <2>1, <2>2 DEF ScopesInv, hierarchy!ClosedStaysClosed
  <2>4. expand' # <<>> => hierarchy!StaysPending
    <3>1. expand' = hierarchy!ExpandAfterFrame
      BY DEF hierarchy!Frame
    <3>2. expand = <<>> => expand' = <<>>
      BY <3>1 DEF hierarchy!ExpandAfterFrame
    <3>3. QED
      BY <1>2, <3>1, <3>2 DEF hierarchy!ExpandAfterFrame, hierarchy!StaysPending
  <2>5. style' = style
    BY DEF hierarchy!Frame
  <2>6. QED
    BY <2>1, <2>3, <2>4, <2>5 DEF ScopesInv, hierarchy!ClosedStaysClosed
<1>3. QED
  BY <1>1, <1>2 DEF ScopesInv

\* Only a frame uses the filter.
LEMMA PanelStep ==
  ASSUME Honest(regex), [hierarchy!Next]_(hierarchy!vars)
  PROVE  Honest(regex)'
<1>1. ASSUME NEW clicked, hierarchy!Frame(clicked)
      PROVE  Honest(regex)'
  BY <1>1, CacheOfPattern DEF hierarchy!Frame, Honest
<1>2. CASE UNCHANGED regex
  BY <1>2 DEF Honest
<1>3. \/ \E clicked : hierarchy!Frame(clicked)
      \/ UNCHANGED regex
  <2>1. CASE UNCHANGED hierarchy!vars
    BY <2>1 DEF hierarchy!vars
  <2>2. CASE hierarchy!Next
    BY <2>2, Zenon
    DEF hierarchy!Next, hierarchy!Draw, hierarchy!ToggleHeader, hierarchy!AddFilteredVariables,
        hierarchy!SetText, hierarchy!SetVariableNameFilterType, hierarchy!SetVariableIOFilter,
        hierarchy!SetVariableGroupByDirection, hierarchy!SetFilter, hierarchy!SetHierarchyStyle,
        hierarchy!SetActiveScope, hierarchy!ExpandScope, hierarchy!OpenFile,
        hierarchy!ReloadWaveform, hierarchy!Load, hierarchy!FileChanges
  <2>3. QED
    BY <2>1, <2>2
<1>4. QED
  BY <1>1, <1>2, <1>3

LEMMA ScopesStep ==
  ASSUME ScopesInv, [hierarchy!Next]_(hierarchy!vars)
  PROVE  ScopesInv'
<1>1. ASSUME UNCHANGED <<style, expand, open, shut>>
      PROVE  ScopesInv'
  BY <1>1 DEF ScopesInv, hierarchy!ClosedStaysClosed
<1>2. CASE hierarchy!Draw \/ hierarchy!ToggleHeader
  BY <1>2, FrameKeepsScopes DEF hierarchy!Draw, hierarchy!ToggleHeader
<1>3. CASE hierarchy!AddFilteredVariables
  BY <1>1, <1>3 DEF hierarchy!AddFilteredVariables
<1>4. CASE \/ hierarchy!SetText \/ hierarchy!SetVariableNameFilterType
           \/ hierarchy!SetVariableIOFilter \/ hierarchy!SetVariableGroupByDirection
  BY <1>1, <1>4
  DEF hierarchy!SetText, hierarchy!SetVariableNameFilterType, hierarchy!SetVariableIOFilter,
      hierarchy!SetVariableGroupByDirection, hierarchy!SetFilter
<1>5. CASE hierarchy!SetHierarchyStyle
  BY <1>5, StylesAssumption DEF hierarchy!SetHierarchyStyle, ScopesInv, hierarchy!ClosedStaysClosed
<1>6. CASE hierarchy!SetActiveScope
  BY <1>1, <1>6 DEF hierarchy!SetActiveScope
<1>7. CASE hierarchy!ExpandScope
  BY <1>7 DEF hierarchy!ExpandScope, ScopesInv, hierarchy!ClosedStaysClosed
<1>8. CASE hierarchy!OpenFile \/ hierarchy!ReloadWaveform
  BY <1>1, <1>8 DEF hierarchy!OpenFile, hierarchy!ReloadWaveform, hierarchy!Load
<1>9. CASE hierarchy!FileChanges
  BY <1>1, <1>9 DEF hierarchy!FileChanges
<1>10. CASE UNCHANGED hierarchy!vars
  BY <1>1, <1>10 DEF hierarchy!vars
<1>11. QED
  BY <1>2, <1>3, <1>4, <1>5, <1>6, <1>7, <1>8, <1>9, <1>10 DEF hierarchy!Next

\* In every style a scope that the user closes stays closed until a scope is asked
\* for, whatever is drawn, filtered, loaded or selected in between (hierarchy.rs).
\* What is closed while the tree keeps a request for a root scope is not counted.
THEOREM ClosedScopesStay == hierarchy!Spec => []ClosedStaysClosed
<1>1. ScopesInv => ClosedStaysClosed
  BY DEF ScopesInv, ClosedStaysClosed
<1>2. QED
  BY <1>1, PanelStarts, ScopesStep, PTL DEF hierarchy!Spec

\* Different numbers below n for n elements are all the numbers below n.
LEMMA NumbersFilled ==
  ASSUME NEW S, IsFiniteSet(S), NEW number \in [S -> 0..Cardinality(S)-1],
         \A v, w \in S : number[v] = number[w] => v = w
  PROVE  \A k \in 0..Cardinality(S)-1 : \E v \in S : number[v] = k
<1> DEFINE n == Cardinality(S)
<1>1. n \in Nat
  BY FS_CardinalityType
<1>2. IsFiniteSet(0..n-1) /\ Cardinality(0..n-1) = n
  BY <1>1, FS_Interval
<1>3. number \in Injection(S, 0..n-1)
  BY DEF Injection, IsInjective
<1> HIDE DEF n
<1>4. number \in Surjection(S, 0..n-1)
  BY <1>2, <1>3, FS_Injection DEF n
<1>5. QED
  BY <1>4 DEF Surjection, n

\* A strict order of all elements of a set, as a set of pairs.
Orders(R, S) ==
  /\ \A v \in S : <<v, v>> \notin R
  /\ \A u, v, w \in S : <<u, v>> \in R /\ <<v, w>> \in R => <<u, w>> \in R
  /\ \A v, w \in S : v = w \/ <<v, w>> \in R \/ <<w, v>> \in R

Below(R, S, v) == {w \in S : <<w, v>> \in R}

\* The number of elements below one is its place.
LEMMA PlacesByOrder ==
  ASSUME NEW S, IsFiniteSet(S), NEW R, Orders(R, S)
  PROVE  /\ \A v \in S : Cardinality(Below(R, S, v)) \in 0..Cardinality(S)-1
         /\ \A v, w \in S : <<v, w>> \in R
                <=> Cardinality(Below(R, S, v)) < Cardinality(Below(R, S, w))
         /\ \A k \in 0..Cardinality(S)-1 : \E v \in S : Cardinality(Below(R, S, v)) = k
<1>1. \A v \in S : /\ IsFiniteSet(Below(R, S, v)) /\ Cardinality(Below(R, S, v)) \in Nat
                   /\ Cardinality(Below(R, S, v)) < Cardinality(S)
  <2>1. TAKE v \in S
  <2>2. Below(R, S, v) \in SUBSET S /\ v \notin Below(R, S, v)
    BY DEF Below, Orders
  <2>3. QED
    BY <2>2, FS_Subset, FS_CardinalityType
<1>2. Cardinality(S) \in Nat
  BY FS_CardinalityType
<1>3. ASSUME NEW v \in S, NEW w \in S, <<v, w>> \in R
      PROVE  Cardinality(Below(R, S, v)) < Cardinality(Below(R, S, w))
  <2>1. Below(R, S, v) \in SUBSET Below(R, S, w)
    BY <1>3 DEF Below, Orders
  <2>2. v \in Below(R, S, w) /\ v \notin Below(R, S, v)
    BY <1>3 DEF Below, Orders
  <2>3. Cardinality(Below(R, S, v)) <= Cardinality(Below(R, S, w))
        /\ Cardinality(Below(R, S, v)) # Cardinality(Below(R, S, w))
    BY <1>1, <2>1, <2>2, FS_Subset
  <2>4. QED
    BY <1>1, <2>3
<1>4. \A v, w \in S : <<v, w>> \in R
         <=> Cardinality(Below(R, S, v)) < Cardinality(Below(R, S, w))
  <2>1. TAKE v, w \in S
  <2>2. CASE <<v, w>> \in R
    BY <1>3, <2>2
  <2>3. CASE v = w
    BY <1>1, <2>3 DEF Orders
  <2>4. CASE <<w, v>> \in R
    <3>1. Cardinality(Below(R, S, w)) < Cardinality(Below(R, S, v))
      BY <1>3, <2>4
    <3>2. <<v, w>> \notin R
      BY <2>4 DEF Orders
    <3>3. QED
      BY <1>1, <3>1, <3>2
  <2>5. QED
    BY <2>2, <2>3, <2>4 DEF Orders
<1>5. \A k \in 0..Cardinality(S)-1 : \E v \in S : Cardinality(Below(R, S, v)) = k
  <2> DEFINE number == [v \in S |-> Cardinality(Below(R, S, v))]
  <2>1. number \in [S -> 0..Cardinality(S)-1]
    BY <1>1, <1>2
  <2>2. ASSUME NEW v \in S, NEW w \in S, number[v] = number[w]
        PROVE  v = w
    <3>1. ~(<<v, w>> \in R) /\ ~(<<w, v>> \in R)
      BY <1>1, <1>4, <2>2
    <3>2. QED
      BY <3>1 DEF Orders
  <2>3. \A k \in 0..Cardinality(S)-1 : \E v \in S : number[v] = k
    <3> HIDE DEF number
    <3>1. QED
      BY <2>1, <2>2, NumbersFilled
  <2>4. QED
    BY <2>3
<1>6. QED
  BY <1>1, <1>2, <1>4, <1>5

\* A list with each element at its place.
Lists(list, R, S) ==
  /\ list \in [1..Cardinality(S) -> S]
  /\ \A i \in 1..Cardinality(S) : Cardinality(Below(R, S, list[i])) = i - 1

LEMMA ListedByOrder ==
  ASSUME NEW S, IsFiniteSet(S), NEW R, Orders(R, S), NEW list, Lists(list, R, S)
  PROVE  /\ hierarchy!ToSet(list) = S
         /\ \A v, w \in S : hierarchy!Before(list, v, w) <=> <<v, w>> \in R
<1>1. Cardinality(S) \in Nat
  BY FS_CardinalityType
<1>2. \A v \in S : \E i \in DOMAIN list : list[i] = v
  <2>1. TAKE v \in S
  <2> DEFINE i == Cardinality(Below(R, S, v)) + 1
  <2>2. i \in 1..Cardinality(S) /\ i \in DOMAIN list
    BY <1>1, PlacesByOrder DEF Lists
  <2>3. list[i] \in S /\ Cardinality(Below(R, S, list[i])) = Cardinality(Below(R, S, v))
    <3>1. Cardinality(Below(R, S, v)) \in Nat
      BY <1>1, PlacesByOrder
    <3>2. QED
      BY <2>2, <3>1 DEF Lists
  <2>4. \A w \in S : Cardinality(Below(R, S, w)) \in Int
    BY <1>1, PlacesByOrder
  <2>5. <<list[i], v>> \notin R /\ <<v, list[i]>> \notin R
    <3> HIDE DEF i
    <3>1. QED
      BY <2>3, <2>4, PlacesByOrder
  <2>6. list[i] = v
    <3> HIDE DEF i
    <3>1. QED
      BY <2>3, <2>5 DEF Orders
  <2>7. QED
    BY <2>2, <2>6
<1>3. \A i \in DOMAIN list : list[i] \in S
  BY DEF Lists
<1>4. hierarchy!ToSet(list) = S
  BY <1>2, <1>3 DEF hierarchy!ToSet
<1>5. ASSUME NEW v \in S, NEW w \in S
      PROVE  hierarchy!Before(list, v, w) <=> <<v, w>> \in R
  <2>1. \A i \in DOMAIN list : i \in Int /\ Cardinality(Below(R, S, list[i])) = i - 1
    BY DEF Lists
  <2>2. PICK i \in DOMAIN list : list[i] = v
    BY <1>2
  <2>3. PICK j \in DOMAIN list : list[j] = w
    BY <1>2
  <2>4. \A k \in DOMAIN list : (list[k] = v => k = i) /\ (list[k] = w => k = j)
    BY <2>1, <2>2, <2>3
  <2>5. hierarchy!Before(list, v, w) <=> i < j
    BY <2>2, <2>3, <2>4 DEF hierarchy!Before
  <2>6. i < j <=> <<v, w>> \in R
    <3>1. Cardinality(Below(R, S, v)) = i - 1 /\ Cardinality(Below(R, S, w)) = j - 1
      BY <2>1, <2>2, <2>3
    <3>2. QED
      BY <2>1, <3>1, PlacesByOrder
  <2>7. QED
    BY <2>5, <2>6
<1>6. QED
  BY <1>4, <1>5
\* The order of what the button adds, and that of the rows of the list.
ByName(f, S) == {p \in S \X S : hierarchy!VariableLess(f, p[1], p[2])}
ByPriority(f, S) == {p \in S \X S : hierarchy!RowLess(f, p[1], p[2])}

\* What the panel knows of variables.
Sortable(S) ==
  /\ IsFiniteSet(S) /\ DOMAIN Order \subseteq Nat
  /\ \A v \in S : /\ v.dir \in hierarchy!Dirs /\ Priority[v] \in Int
                  /\ \E i \in DOMAIN Order : Order[i] = v

LEMMA DirectionsRanked ==
  /\ \A d \in hierarchy!Dirs : hierarchy!DirRank[d] \in Int
  /\ \A d, e \in hierarchy!Dirs : hierarchy!DirRank[d] = hierarchy!DirRank[e] => d = e
BY DEF hierarchy!DirRank, hierarchy!Dirs

LEMMA NamesRanked ==
  ASSUME NEW S, Sortable(S)
  PROVE  /\ \A v \in S : hierarchy!Rank(v) \in Nat
         /\ \A v, w \in S : hierarchy!Rank(v) = hierarchy!Rank(w) => v = w
<1>1. \A v \in S : hierarchy!Rank(v) \in DOMAIN Order /\ Order[hierarchy!Rank(v)] = v
  BY DEF Sortable, hierarchy!Rank
<1>2. QED
  BY <1>1 DEF Sortable

\* variable_cmp is an order, with directions first or without.
LEMMA NamesOrdered ==
  ASSUME NEW S, Sortable(S), NEW f
  PROVE  Orders(ByName(f, S), S)
<1> DEFINE dir(v) == hierarchy!DirRank[v.dir]
           rank(v) == hierarchy!Rank(v)
<1>1. \A v \in S : dir(v) \in Int /\ rank(v) \in Int
  BY DirectionsRanked, NamesRanked DEF Sortable
<1>2. \A v, w \in S : (dir(v) = dir(w) => v.dir = w.dir) /\ (rank(v) = rank(w) => v = w)
  BY DirectionsRanked, NamesRanked DEF Sortable
<1>3. \A v, w \in S : <<v, w>> \in ByName(f, S) <=>
         IF f.grouped /\ v.dir # w.dir THEN dir(v) < dir(w) ELSE rank(v) < rank(w)
  BY DEF ByName, hierarchy!VariableLess
<1> HIDE DEF dir, rank
<1>4. \A v \in S : <<v, v>> \notin ByName(f, S)
  BY <1>1, <1>3
<1>5. ASSUME NEW u \in S, NEW v \in S, NEW w \in S,
             <<u, v>> \in ByName(f, S), <<v, w>> \in ByName(f, S)
      PROVE  <<u, w>> \in ByName(f, S)
  <2>1. \A a, b \in S : a.dir = b.dir => dir(a) = dir(b)
    BY DEF dir
  <2>2. CASE f.grouped
    <3>1. dir(u) <= dir(v) /\ dir(v) <= dir(w)
      BY <1>1, <1>3, <1>5, <2>1, <2>2
    <3>2. CASE u.dir = w.dir
      BY <1>1, <1>2, <1>3, <1>5, <2>1, <2>2, <3>1, <3>2
    <3>3. CASE u.dir # w.dir
      BY <1>1, <1>2, <1>3, <2>2, <3>1, <3>3
    <3>4. QED
      BY <3>2, <3>3
  <2>3. CASE ~f.grouped
    BY <1>1, <1>3, <1>5, <2>3
  <2>4. QED
    BY <2>2, <2>3
<1>6. ASSUME NEW v \in S, NEW w \in S
      PROVE  v = w \/ <<v, w>> \in ByName(f, S) \/ <<w, v>> \in ByName(f, S)
  BY <1>1, <1>2, <1>3
<1>7. QED
  BY <1>4, <1>5, <1>6 DEF Orders

\* Rows of one priority are in the order of their names.
LEMMA RowsOrdered ==
  ASSUME NEW S, Sortable(S), NEW f
  PROVE  /\ Orders(ByPriority(f, S), S)
         /\ \A v, w \in S : Priority[v] = Priority[w] =>
              (<<v, w>> \in ByPriority(f, S) <=> <<v, w>> \in ByName(f, S))
<1>1. \A v, w \in S : <<v, w>> \in ByPriority(f, S) <=>
         \/ Priority[v] > Priority[w]
         \/ Priority[v] = Priority[w] /\ <<v, w>> \in ByName(f, S)
  BY DEF ByPriority, ByName, hierarchy!RowLess
<1>2. \A v \in S : Priority[v] \in Int
  BY DEF Sortable
<1>3. \A v \in S : <<v, v>> \notin ByPriority(f, S)
  <2>1. \A v \in S : <<v, v>> \notin ByName(f, S)
    BY NamesOrdered DEF Orders
  <2>2. \A v \in S : ~(Priority[v] > Priority[v])
    BY <1>2
  <2>3. QED
    BY <1>1, <2>1, <2>2
<1>4. ASSUME NEW u \in S, NEW v \in S, NEW w \in S,
             <<u, v>> \in ByPriority(f, S), <<v, w>> \in ByPriority(f, S)
      PROVE  <<u, w>> \in ByPriority(f, S)
  BY <1>1, <1>2, <1>4, NamesOrdered DEF Orders
<1>5. ASSUME NEW v \in S, NEW w \in S
      PROVE  v = w \/ <<v, w>> \in ByPriority(f, S) \/ <<w, v>> \in ByPriority(f, S)
  BY <1>1, <1>2, NamesOrdered DEF Orders
<1>6. \A v, w \in S : Priority[v] = Priority[w] =>
              (<<v, w>> \in ByPriority(f, S) <=> <<v, w>> \in ByName(f, S))
  BY <1>1, <1>2
<1>7. QED
  BY <1>3, <1>4, <1>5, <1>6 DEF Orders

LEMMA CountedAlike == \A S : hierarchy!Cardinality(S) = Cardinality(S)
BY DEF hierarchy!Cardinality, Cardinality

\* Sorting puts every element at its place.
LEMMA RowsListed ==
  ASSUME NEW f, NEW variables, NEW full, NEW S, S = hierarchy!MatchingVariables(f, variables, full),
         Sortable(S)
  PROVE  Lists(hierarchy!VariableRows(f, variables, full), ByPriority(f, S), S)
<1>1. Cardinality(S) \in Nat
  BY FS_CardinalityType DEF Sortable
<1>2. \A v \in S : Below(ByPriority(f, S), S, v) = {w \in S : hierarchy!RowLess(f, w, v)}
  BY DEF Below, ByPriority
<1>3. hierarchy!VariableRows(f, variables, full) =
        [i \in 1..hierarchy!Cardinality(S) |->
           CHOOSE v \in S : hierarchy!Cardinality({w \in S : hierarchy!RowLess(f, w, v)}) = i - 1]
  BY DEF hierarchy!VariableRows, hierarchy!Sorted
<1>4. ASSUME NEW i \in 1..Cardinality(S)
      PROVE  LET v == CHOOSE v \in S : hierarchy!Cardinality({w \in S : hierarchy!RowLess(f, w, v)}) = i - 1
             IN  v \in S /\ Cardinality(Below(ByPriority(f, S), S, v)) = i - 1
  <2>1. i - 1 \in 0..Cardinality(S)-1
    BY <1>1
  <2>2. \E v \in S : Cardinality(Below(ByPriority(f, S), S, v)) = i - 1
    BY <2>1, PlacesByOrder, RowsOrdered DEF Sortable
  <2>3. \E v \in S : hierarchy!Cardinality({w \in S : hierarchy!RowLess(f, w, v)}) = i - 1
    BY <1>2, <2>2, CountedAlike
  <2>4. QED
    BY <1>2, <2>3, CountedAlike
<1>5. QED
  BY <1>1, <1>3, <1>4, CountedAlike DEF Lists

LEMMA AddedListed ==
  ASSUME NEW f, NEW variables, NEW full, NEW S, S = hierarchy!MatchingVariables(f, variables, full),
         Sortable(S)
  PROVE  Lists(hierarchy!FilteredVariables(f, variables, full), ByName(f, S), S)
<1>1. Cardinality(S) \in Nat
  BY FS_CardinalityType DEF Sortable
<1>2. \A v \in S : Below(ByName(f, S), S, v) = {w \in S : hierarchy!VariableLess(f, w, v)}
  BY DEF Below, ByName
<1>3. hierarchy!FilteredVariables(f, variables, full) =
        [i \in 1..hierarchy!Cardinality(S) |->
           CHOOSE v \in S : hierarchy!Cardinality({w \in S : hierarchy!VariableLess(f, w, v)}) = i - 1]
  BY DEF hierarchy!FilteredVariables, hierarchy!Sorted
<1>4. ASSUME NEW i \in 1..Cardinality(S)
      PROVE  LET v == CHOOSE v \in S : hierarchy!Cardinality({w \in S : hierarchy!VariableLess(f, w, v)}) = i - 1
             IN  v \in S /\ Cardinality(Below(ByName(f, S), S, v)) = i - 1
  <2>1. i - 1 \in 0..Cardinality(S)-1
    BY <1>1
  <2>2. \E v \in S : Cardinality(Below(ByName(f, S), S, v)) = i - 1
    BY <2>1, PlacesByOrder, NamesOrdered DEF Sortable
  <2>3. \E v \in S : hierarchy!Cardinality({w \in S : hierarchy!VariableLess(f, w, v)}) = i - 1
    BY <1>2, <2>2, CountedAlike
  <2>4. QED
    BY <1>2, <2>3, CountedAlike
<1>5. QED
  BY <1>1, <1>3, <1>4, CountedAlike DEF Lists
\* What is listed beside the scopes is of the scope selected, filtered as it is now.
ListInv ==
  /\ version \in DOMAIN Contents
  /\ waves # <<>> => /\ DOMAIN waves[1] = {"content", "generation", "scope"}
                     /\ Sortable(waves[1].content)
  /\ style = "Separate" /\ listed # <<>> =>
       /\ waves # <<>>
       /\ listed = hierarchy!VariableRows(filter, hierarchy!VariablesInScope(waves[1].scope), FALSE)

LEMMA ContentsSortable == \A n \in DOMAIN Contents : Sortable(Contents[n])
BY ContentsAssumption DEF Sortable

LEMMA ListStarts == hierarchy!Init => ListInv
BY ContentsAssumption DEF hierarchy!Init, ListInv

LEMMA ListStep ==
  ASSUME ListInv, [hierarchy!Next]_(hierarchy!vars)
  PROVE  ListInv'
<1>1. ASSUME NEW clicked, hierarchy!Frame(clicked)
      PROVE  ListInv'
  <2>1. UNCHANGED <<version, waves, style, filter>> /\ waves # <<>>
    BY <1>1 DEF hierarchy!Frame, hierarchy!Loaded
  <2>2. style = "Separate" =>
          listed' = hierarchy!VariableRows(filter, hierarchy!VariablesInScope(waves[1].scope), FALSE)
    BY <1>1 DEF hierarchy!Frame, hierarchy!ActiveScope
  <2>3. hierarchy!VariablesInScope(waves[1].scope)' = hierarchy!VariablesInScope(waves[1].scope)
    BY <2>1 DEF hierarchy!VariablesInScope, hierarchy!Variables
  <2>4. QED
    BY <2>1, <2>2, <2>3 DEF ListInv
<1>2. CASE UNCHANGED <<version, waves, style, filter, listed>>
  <2>1. hierarchy!VariablesInScope(waves[1].scope)' = hierarchy!VariablesInScope(waves[1].scope)
    BY <1>2 DEF hierarchy!VariablesInScope, hierarchy!Variables
  <2>2. QED
    BY <1>2, <2>1 DEF ListInv
<1>3. CASE UNCHANGED <<version, waves>> /\ listed' = <<>>
  BY <1>3 DEF ListInv
<1>4. ASSUME waves # <<>>, NEW s, waves' = <<[waves[1] EXCEPT !.scope = s]>>,
             UNCHANGED version, listed' = <<>>
      PROVE  ListInv'
  <2>1. waves'[1] = [waves[1] EXCEPT !.scope = s] /\ waves' # <<>>
    BY <1>4
  <2>2. DOMAIN waves'[1] = DOMAIN waves[1] /\ waves'[1].content = waves[1].content
    BY <1>4, <2>1 DEF ListInv
  <2>3. QED
    BY <1>4, <2>1, <2>2 DEF ListInv
<1>5. ASSUME NEW keep, hierarchy!Load(keep)
      PROVE  ListInv'
  <2>1. PICK generation, scope :
          waves' = <<[content |-> Contents[version], generation |-> generation, scope |-> scope]>>
    BY <1>5 DEF hierarchy!Load
  <2>2. /\ DOMAIN waves'[1] = {"content", "generation", "scope"}
        /\ waves'[1].content = Contents[version]
    BY <2>1
  <2>3. version' = version /\ listed' = <<>>
    BY <1>5 DEF hierarchy!Load
  <2>4. QED
    BY <2>2, <2>3, ContentsSortable DEF ListInv
<1>6. CASE hierarchy!Draw \/ hierarchy!ToggleHeader
  BY <1>1, <1>6 DEF hierarchy!Draw, hierarchy!ToggleHeader
<1>7. CASE hierarchy!AddFilteredVariables
  BY <1>2, <1>7 DEF hierarchy!AddFilteredVariables
<1>8. CASE \/ hierarchy!SetText \/ hierarchy!SetVariableNameFilterType
           \/ hierarchy!SetVariableIOFilter \/ hierarchy!SetVariableGroupByDirection
  BY <1>3, <1>8
  DEF hierarchy!SetText, hierarchy!SetVariableNameFilterType, hierarchy!SetVariableIOFilter,
      hierarchy!SetVariableGroupByDirection, hierarchy!SetFilter
<1>9. CASE hierarchy!SetHierarchyStyle
  BY <1>3, <1>9 DEF hierarchy!SetHierarchyStyle
<1>10. CASE hierarchy!SetActiveScope
  BY <1>4, <1>10 DEF hierarchy!SetActiveScope, hierarchy!Loaded
<1>11. CASE hierarchy!ExpandScope
  <2>1. PICK s : waves' = IF s \in hierarchy!Scopes THEN <<[waves[1] EXCEPT !.scope = s]>> ELSE waves
    BY <1>11 DEF hierarchy!ExpandScope
  <2>2. waves # <<>> /\ UNCHANGED version /\ listed' = <<>>
    BY <1>11 DEF hierarchy!ExpandScope, hierarchy!Loaded
  <2>3. QED
    BY <1>3, <1>4, <2>1, <2>2
<1>12. CASE hierarchy!OpenFile \/ hierarchy!ReloadWaveform
  BY <1>5, <1>12 DEF hierarchy!OpenFile, hierarchy!ReloadWaveform
<1>13. CASE hierarchy!FileChanges
  <2>1. version' \in DOMAIN Contents /\ UNCHANGED <<waves, style, filter, listed>>
    BY <1>13 DEF hierarchy!FileChanges
  <2>2. hierarchy!VariablesInScope(waves[1].scope)' = hierarchy!VariablesInScope(waves[1].scope)
    BY <2>1 DEF hierarchy!VariablesInScope, hierarchy!Variables
  <2>3. QED
    BY <2>1, <2>2 DEF ListInv
<1>14. CASE UNCHANGED hierarchy!vars
  BY <1>2, <1>14 DEF hierarchy!vars
<1>15. QED
  BY <1>6, <1>7, <1>8, <1>9, <1>10, <1>11, <1>12, <1>13, <1>14 DEF hierarchy!Next

\* The button filters and sorts for itself, and adds what is listed.
LEMMA ButtonAddsListed ==
  ASSUME ListInv, hierarchy!ButtonPressed
  PROVE  /\ hierarchy!ToSet(added') = hierarchy!ToSet(listed)
         /\ \A v, w \in hierarchy!ToSet(listed) :
              Priority[v] = Priority[w] /\ hierarchy!Before(listed, v, w)
                => hierarchy!Before(added', v, w)
<1> DEFINE variables == hierarchy!VariablesInScope(waves[1].scope)
           S == hierarchy!MatchingVariables(filter, variables, FALSE)
<1>1. /\ waves # <<>>
      /\ listed = hierarchy!VariableRows(filter, variables, FALSE)
      /\ added' = hierarchy!FilteredVariables(filter, variables, FALSE)
  BY DEF hierarchy!ButtonPressed, hierarchy!AddFilteredVariables, hierarchy!ActiveScope, ListInv
<1>2. Sortable(S)
  <2>1. Sortable(waves[1].content)
    BY <1>1 DEF ListInv
  <2>2. S \in SUBSET waves[1].content
    BY DEF hierarchy!MatchingVariables, hierarchy!VariablesInScope, hierarchy!Variables
  <2> HIDE DEF S
  <2>3. QED
    BY <2>1, <2>2, FS_Subset DEF Sortable
<1>3. Lists(listed, ByPriority(filter, S), S) /\ Orders(ByPriority(filter, S), S)
  BY <1>1, <1>2, RowsListed, RowsOrdered
<1>4. Lists(added', ByName(filter, S), S) /\ Orders(ByName(filter, S), S)
  BY <1>1, <1>2, AddedListed, NamesOrdered
<1> HIDE DEF S
<1>5. IsFiniteSet(S)
  BY <1>2 DEF Sortable
<1>6. hierarchy!ToSet(listed) = S
      /\ \A v, w \in S : hierarchy!Before(listed, v, w) <=> <<v, w>> \in ByPriority(filter, S)
  BY <1>3, <1>5, ListedByOrder
<1>7. hierarchy!ToSet(added') = S
      /\ \A v, w \in S : hierarchy!Before(added', v, w) <=> <<v, w>> \in ByName(filter, S)
  BY <1>4, <1>5, ListedByOrder
<1>8. \A v, w \in S : Priority[v] = Priority[w] =>
         (<<v, w>> \in ByPriority(filter, S) <=> <<v, w>> \in ByName(filter, S))
  BY <1>2, RowsOrdered
<1>9. QED
  BY <1>6, <1>7, <1>8

\* For any variables, matches and styles: a filter is marked as wrong exactly when
\* it is, although what it was compiled to is kept from frame to frame; and the
\* button, which filters and sorts for itself, adds the variables that are listed,
\* those of one priority in the order of the list (variable_filter.rs, hierarchy.rs).
THEOREM FilterTellsTheTruth == hierarchy!Spec => FilterHonest
<1>1. hierarchy!Init => Honest(regex) /\ ListInv
  BY PanelStarts, ListStarts
<1>2. Honest(regex) /\ ListInv /\ [hierarchy!Next]_(hierarchy!vars) => Honest(regex)' /\ ListInv'
  BY PanelStep, ListStep
<1>3. Honest(regex) => (hierarchy!Draw /\ filter.type = "Regex" /\ style # "Variables"
                          => regex'.error = ~hierarchy!IsValid(filter))
  BY CacheOfPattern DEF hierarchy!Draw, hierarchy!Frame
<1>4. Honest(regex) => [hierarchy!Draw /\ filter.type = "Regex" /\ style # "Variables"
                          => regex'.error = ~hierarchy!IsValid(filter)]_(hierarchy!vars)
  BY <1>3
<1>5. ListInv => [hierarchy!ButtonPressed =>
          /\ hierarchy!ToSet(added') = hierarchy!ToSet(listed)
          /\ \A v, w \in hierarchy!ToSet(listed) :
                Priority[v] = Priority[w] /\ hierarchy!Before(listed, v, w)
                  => hierarchy!Before(added', v, w)]_(hierarchy!vars)
  BY ButtonAddsListed
<1>6. QED
  BY <1>1, <1>2, <1>4, <1>5, PTL
  DEF hierarchy!Spec, FilterHonest, hierarchy!MarkedWhenInvalid, hierarchy!AddsWhatIsListed
-----------------------------------------------------------------------------
(* Groups of annotations *)

\* A group whose counter points at one of its entries, or at the first place.
Group ==
  {g \in [name : Names \cup {annotations!Ungrouped}, cycle : Nat, ids : Seq(Nat)] :
     g.cycle = 0 \/ g.cycle < Len(g.ids)}

\* A canvas with such groups only.
Counted(c) ==
  /\ DOMAIN c = {"ann", "groups", "list", "sel", "items", "folded"}
  /\ c.groups \in Seq(Group)

\* The canvas shown and those that undo, redo and a state file bring back.
Kept(canvases) ==
  /\ \A c \in canvases : Counted(c)
  /\ canvas \in canvases /\ undo \in Seq(canvases) /\ redo \in Seq(canvases)
  /\ savedCanvas # <<>> => savedCanvas[1].w \in canvases
  /\ nextId \in Nat

GroupsInv == \E canvases : Kept(canvases)

\* The entries of one group change.
LEMMA OneGroupChanges ==
  ASSUME NEW groups \in Seq(Group), NEW k \in DOMAIN groups, NEW ids \in Seq(Nat),
         NEW cycle \in Nat, cycle = 0 \/ cycle < Len(ids), NEW other,
         other = [groups EXCEPT ![k] = [@ EXCEPT !.ids = ids, !.cycle = cycle]]
  PROVE  other \in Seq(Group)
<1>1. groups[k] \in Group
  BY ElementOfSeq
<1>2. [groups[k] EXCEPT !.ids = ids, !.cycle = cycle] \in Group
  BY <1>1 DEF Group
<1>3. QED
  BY <1>2, ExceptSeq

LEMMA EmptyGroups ==
  ASSUME NEW name \in Names \cup {annotations!Ungrouped}
  PROVE  annotations!EmptyGroup(name) \in Group
BY EmptySeq DEF Group, annotations!EmptyGroup

\* The first of some places is one of them.
LEMMA FirstPlace ==
  ASSUME NEW T, NEW n \in Nat, T \subseteq 1..n, T # {}
  PROVE  (CHOOSE k \in T : \A j \in T : k <= j) \in T
<1>1. T \subseteq Nat
  OBVIOUS
<1>2. \E k \in T : \A j \in T : k <= j
  BY <1>1, LeastNat
<1>3. QED
  BY <1>2

LEMMA FirstNamedIsGroup ==
  ASSUME NEW groups \in Seq(Group), NEW name
  PROVE  annotations!FirstNamed(groups, name) \in {0} \cup DOMAIN groups
<1> DEFINE named == {k \in DOMAIN groups : groups[k].name = name}
<1>1. named \subseteq 1..Len(groups) /\ Len(groups) \in Nat
  BY LenProperties
<1>2. CASE named = {}
  BY <1>2 DEF annotations!FirstNamed
<1>3. CASE named # {}
  <2>1. annotations!FirstNamed(groups, name) \in named
    BY <1>1, <1>3, FirstPlace DEF annotations!FirstNamed
  <2>2. QED
    BY <2>1
<1>4. QED
  BY <1>2, <1>3

LEMMA AddedToGroup ==
  ASSUME NEW groups \in Seq(Group), NEW name, NEW id \in Nat
  PROVE  annotations!AddAnnotationToGroup(groups, name, id) \in Seq(Group)
<1> DEFINE k == annotations!FirstNamed(groups, name)
<1>1. CASE k = 0
  BY <1>1 DEF annotations!AddAnnotationToGroup
<1>2. CASE k \in DOMAIN groups /\ k # 0
  <2>1. groups[k] \in Group
    BY <1>2, ElementOfSeq
  <2>2. /\ Append(groups[k].ids, id) \in Seq(Nat)
        /\ groups[k].cycle \in Nat
        /\ groups[k].cycle = 0 \/ groups[k].cycle < Len(Append(groups[k].ids, id))
    BY <2>1, AppendProperties DEF Group
  <2>3. PICK ids, cycle, other :
          /\ ids = Append(groups[k].ids, id) /\ cycle = groups[k].cycle
          /\ other = [groups EXCEPT ![k] = [@ EXCEPT !.ids = ids, !.cycle = cycle]]
    OBVIOUS
  <2>4. annotations!AddAnnotationToGroup(groups, name, id) = other
    BY <1>2, <2>1, <2>3 DEF annotations!AddAnnotationToGroup, Group
  <2>5. other \in Seq(Group)
    <3> HIDE DEF k
    <3>1. QED
      BY <1>2, <2>2, <2>3, OneGroupChanges
  <2>6. QED
    BY <2>4, <2>5
<1>3. QED
  BY <1>1, <1>2, FirstNamedIsGroup

\* An entry that is dropped leaves a sequence of the others.
LEMMA DroppedFirst ==
  ASSUME NEW ids \in Seq(Nat), NEW id \in Range(ids)
  PROVE  annotations!DropFirst(ids, id) \in Seq(Nat)
<1> DEFINE places == {i \in DOMAIN ids : ids[i] = id}
<1> DEFINE i == CHOOSE i \in DOMAIN ids : ids[i] = id /\ \A j \in 1..(i - 1) : ids[j] # id
<1>1. places \subseteq Nat /\ places # {} /\ DOMAIN ids = 1..Len(ids) /\ Len(ids) \in Nat
  BY DEF Range
<1>2. PICK n \in places : \A m \in places : n <= m
  BY <1>1, LeastNat
<1>3. n \in DOMAIN ids /\ ids[n] = id /\ \A j \in 1..(n - 1) : ids[j] # id
  BY <1>1, <1>2
<1>4. i \in DOMAIN ids
  BY <1>3
<1>5. QED
  <2> HIDE DEF i
  <2>1. SubSeq(ids, 1, i - 1) \in Seq(Nat) /\ SubSeq(ids, i + 1, Len(ids)) \in Seq(Nat)
    BY <1>1, <1>4, SubSeqProperties
  <2>2. SubSeq(ids, 1, i - 1) \o SubSeq(ids, i + 1, Len(ids)) \in Seq(Nat)
    BY <2>1, ConcatProperties
  <2>3. QED
    BY <2>2 DEF annotations!DropFirst, i

LEMMA RemovedFromGroup ==
  ASSUME NEW groups \in Seq(Group), NEW id
  PROVE  annotations!RemoveAnnotationFromGroup(groups, id) \in Seq(Group)
<1> DEFINE holding == annotations!Holding(groups, id)
<1> DEFINE k == CHOOSE k \in holding : \A j \in holding : k <= j
<1>1. CASE holding = {}
  BY <1>1 DEF annotations!RemoveAnnotationFromGroup
<1>2. CASE holding # {}
  <2>1. holding \subseteq 1..Len(groups) /\ Len(groups) \in Nat
    BY LenProperties DEF annotations!Holding
  <2>2. k \in holding
    BY <1>2, <2>1, FirstPlace
  <2> HIDE DEF k
  <2>3. k \in DOMAIN groups /\ groups[k] \in Group /\ id \in Range(groups[k].ids)
    <3>1. k \in DOMAIN groups /\ id \in Range(groups[k].ids)
      BY <2>2 DEF annotations!Holding, annotations!Range, Range
    <3>2. QED
      BY <3>1, ElementOfSeq
  <2>4. PICK ids, cycle, other :
          /\ ids = annotations!DropFirst(groups[k].ids, id) /\ cycle = 0
          /\ other = [groups EXCEPT ![k] = [@ EXCEPT !.ids = ids, !.cycle = cycle]]
    OBVIOUS
  <2>5. ids \in Seq(Nat)
    BY <2>3, <2>4, DroppedFirst DEF Group
  <2>6. annotations!RemoveAnnotationFromGroup(groups, id) = other
    <3>1. annotations!RemoveAnnotationFromGroup(groups, id)
            = [groups EXCEPT ![k].ids = annotations!DropFirst(@, id), ![k].cycle = 0]
      BY <1>2 DEF annotations!RemoveAnnotationFromGroup, k
    <3>2. QED
      BY <2>3, <2>4, <3>1 DEF Group
  <2>7. cycle \in Nat /\ (cycle = 0 \/ cycle < Len(ids))
    BY <2>4
  <2>8. other \in Seq(Group)
    BY <2>3, <2>4, <2>5, <2>7, OneGroupChanges
  <2>9. QED
    BY <2>6, <2>8
<1>3. QED
  BY <1>1, <1>2

LEMMA GroupDeleted ==
  ASSUME NEW groups \in Seq(Group), NEW name
  PROVE  annotations!DeleteGroup(groups, name) \in Seq(Group)
<1>1. PICK k : k = annotations!FirstNamed(groups, name)
  OBVIOUS
<1>2. CASE k = 0
  BY <1>1, <1>2 DEF annotations!DeleteGroup
<1>3. CASE k # 0
  <2>1. k \in DOMAIN groups /\ DOMAIN groups = 1..Len(groups) /\ Len(groups) \in Nat
    BY <1>1, <1>3, FirstNamedIsGroup, LenProperties
  <2>2. SubSeq(groups, 1, k - 1) \in Seq(Group) /\ SubSeq(groups, k + 1, Len(groups)) \in Seq(Group)
    BY <2>1, SubSeqProperties, ElementOfSeq
  <2>3. SubSeq(groups, 1, k - 1) \o SubSeq(groups, k + 1, Len(groups)) \in Seq(Group)
    BY <2>2, ConcatProperties
  <2>4. QED
    BY <1>1, <1>3, <2>3 DEF annotations!DeleteGroup
<1>4. QED
  BY <1>2, <1>3

LEMMA GroupEmptied ==
  ASSUME NEW c, Counted(c), NEW name \in Names
  PROVE  Counted(annotations!RemoveAllAnnotationsFromGroup(c, name))
<1>1. PICK other : other = [k \in DOMAIN c.groups |->
                              IF c.groups[k].name = name THEN annotations!EmptyGroup(name)
                              ELSE c.groups[k]]
  OBVIOUS
<1>2. DOMAIN c.groups = 1..Len(c.groups) /\ Len(c.groups) \in Nat
  BY LenProperties DEF Counted
<1>3. other \in [1..Len(c.groups) -> Group]
  BY <1>1, <1>2, EmptyGroups, ElementOfSeq DEF Counted
<1>4. other \in Seq(Group)
  BY <1>2, <1>3
<1>5. QED
  BY <1>1, <1>4 DEF Counted, annotations!RemoveAllAnnotationsFromGroup

\* The canvases among which those of the history are may be more.
LEMMA MoreCanvases ==
  ASSUME NEW S, NEW T, S \subseteq T, NEW q \in Seq(S)
  PROVE  q \in Seq(T)
OBVIOUS

\* A canvas is shown in the place of another, which may be saved.
LEMMA CanvasShown ==
  ASSUME GroupsInv, Counted(canvas'), nextId' \in Nat,
         savedCanvas' = savedCanvas,
         annotations!SaveCurrentCanvas \/ (undo' = undo /\ redo' = redo)
  PROVE  GroupsInv'
<1>1. PICK canvases : Kept(canvases)
  BY DEF GroupsInv
<1>2. PICK more : more = canvases \cup {canvas'}
  OBVIOUS
<1>3. (\A c \in more : Counted(c)) /\ canvases \subseteq more /\ canvas' \in more
  BY <1>1, <1>2 DEF Kept
<1>4. canvas \in more /\ undo \in Seq(more) /\ redo \in Seq(more)
  BY <1>1, <1>3, MoreCanvases DEF Kept
<1>5. undo' \in Seq(more) /\ redo' \in Seq(more)
  <2>1. CASE undo' = undo /\ redo' = redo
    BY <1>4, <2>1
  <2>2. CASE annotations!SaveCurrentCanvas
    <3>1. redo' \in Seq(more)
      BY <2>2, EmptySeq DEF annotations!SaveCurrentCanvas
    <3>2. Append(undo, canvas) \in Seq(more) /\ Append(undo, canvas) # <<>>
      BY <1>4
    <3>3. undo' \in Seq(more)
      BY <2>2, <3>2 DEF annotations!SaveCurrentCanvas
    <3>4. QED
      BY <3>1, <3>3
  <2>3. QED
    BY <2>1, <2>2
<1>6. savedCanvas' # <<>> => savedCanvas'[1].w \in more
  BY <1>1, <1>3 DEF Kept
<1>7. QED
  BY <1>3, <1>5, <1>6 DEF GroupsInv, Kept

LEMMA ShownIsCounted ==
  ASSUME GroupsInv
  PROVE  Counted(canvas) /\ nextId \in Nat
BY DEF GroupsInv, Kept

\* A canvas whose groups are others.
LEMMA GroupsReplaced ==
  ASSUME NEW c, Counted(c), NEW other, DOMAIN other = DOMAIN c, other.groups \in Seq(Group)
  PROVE  Counted(other)
BY DEF Counted

USE DEF annotations!Saving, annotations!Unsaved

LEMMA AnnotationAddedStep ==
  ASSUME GroupsInv, NEW sort, NEW item,
         annotations!AnnotationAdded(sort, item)
  PROVE  GroupsInv'
<1>1. annotations!AddAnnotationToGroup(canvas.groups, annotations!Ungrouped, nextId) \in Seq(Group)
  BY ShownIsCounted, AddedToGroup DEF Counted
<1>2. Counted(canvas')
  BY <1>1, ShownIsCounted DEF Counted, annotations!AnnotationAdded
<1>3. QED
  BY <1>2, ShownIsCounted, CanvasShown DEF annotations!AnnotationAdded

LEMMA RemoveAnnotationStep ==
  ASSUME GroupsInv, NEW id, annotations!RemoveAnnotation(id)
  PROVE  GroupsInv'
<1>1. annotations!RemoveAnnotationFromGroup(canvas.groups, id) \in Seq(Group)
  BY ShownIsCounted, RemovedFromGroup DEF Counted
<1>2. Counted(canvas')
  BY <1>1, ShownIsCounted DEF Counted, annotations!RemoveAnnotation
<1>3. QED
  BY <1>2, ShownIsCounted, CanvasShown DEF annotations!RemoveAnnotation

\* An annotation that a group holds has an identifier that was given to it.
LEMMA ListedHasNumber ==
  ASSUME Counted(canvas), NEW id, annotations!Listed(id)
  PROVE  id \in Nat
<1>1. PICK k \in DOMAIN canvas.groups : id \in Range(canvas.groups[k].ids)
  BY DEF annotations!Listed, annotations!Holding, annotations!Range, Range
<1>2. canvas.groups[k] \in Group
  BY <1>1, ElementOfSeq DEF Counted
<1>3. canvas.groups[k].ids \in Seq(Nat)
  BY <1>2 DEF Group
<1>4. QED
  BY <1>1, <1>3, ElementOfSeq DEF Range

LEMMA UpdateAnnotationGroupStep ==
  ASSUME GroupsInv, NEW id, NEW name,
         annotations!UpdateAnnotationGroup(id, name)
  PROVE  GroupsInv'
<1>1. id \in Nat
  BY ShownIsCounted, ListedHasNumber DEF annotations!UpdateAnnotationGroup
<1>2. annotations!AddAnnotationToGroup(
        annotations!RemoveAnnotationFromGroup(canvas.groups, id), name, id) \in Seq(Group)
  BY <1>1, ShownIsCounted, RemovedFromGroup, AddedToGroup DEF Counted
<1>3. Counted(canvas')
  BY <1>2, ShownIsCounted DEF Counted, annotations!UpdateAnnotationGroup
<1>4. QED
  BY <1>3, ShownIsCounted, CanvasShown DEF annotations!UpdateAnnotationGroup

LEMMA CreateAnnotationGroupStep ==
  ASSUME GroupsInv, NEW name \in Names,
         annotations!CreateAnnotationGroup(name)
  PROVE  GroupsInv'
<1>1. Append(canvas.groups, annotations!EmptyGroup(name)) \in Seq(Group)
  BY ShownIsCounted, EmptyGroups, AppendProperties DEF Counted
<1>2. Counted(canvas')
  BY <1>1, ShownIsCounted DEF Counted, annotations!CreateAnnotationGroup
<1>3. QED
  BY <1>2, ShownIsCounted, CanvasShown DEF annotations!CreateAnnotationGroup

LEMMA DeleteAnnotationGroupStep ==
  ASSUME GroupsInv, NEW name, annotations!DeleteAnnotationGroup(name)
  PROVE  GroupsInv'
<1>1. annotations!DeleteGroup(canvas.groups, name) \in Seq(Group)
  BY ShownIsCounted, GroupDeleted DEF Counted
<1>2. Counted(canvas')
  BY <1>1, ShownIsCounted DEF Counted, annotations!DeleteAnnotationGroup
<1>3. QED
  BY <1>2, ShownIsCounted, CanvasShown DEF annotations!DeleteAnnotationGroup

LEMMA DeleteAllAnnotationInGroupStep ==
  ASSUME GroupsInv, NEW name \in Names,
         annotations!DeleteAllAnnotationInGroup(name)
  PROVE  GroupsInv'
<1>1. Counted(annotations!RemoveAllAnnotationsFromGroup(canvas, name))
  BY ShownIsCounted, GroupEmptied
<1>2. QED
  BY <1>1, ShownIsCounted, CanvasShown DEF annotations!DeleteAllAnnotationInGroup

\* The counter of a group goes round over its entries.
LEMMA CycleGroupStep ==
  ASSUME GroupsInv, NEW k \in DOMAIN canvas.groups,
         annotations!CycleGroup(k)
  PROVE  GroupsInv'
<1>1. canvas.groups \in Seq(Group) /\ canvas.groups[k] \in Group
  BY ShownIsCounted, ElementOfSeq DEF Counted
<1>2. PICK ids, cycle, other :
        /\ ids = canvas.groups[k].ids
        /\ cycle = (IF canvas.groups[k].cycle + 1 >= Len(ids) THEN 0
                    ELSE canvas.groups[k].cycle + 1)
        /\ other = [canvas.groups EXCEPT ![k] = [@ EXCEPT !.ids = ids, !.cycle = cycle]]
  OBVIOUS
<1>3. ids \in Seq(Nat) /\ cycle \in Nat /\ (cycle = 0 \/ cycle < Len(ids))
  BY <1>1, <1>2, LenProperties DEF Group
<1>4. other \in Seq(Group)
  BY <1>1, <1>2, <1>3, OneGroupChanges
<1>5. [canvas.groups EXCEPT ![k].cycle = cycle] = other
  BY <1>1, <1>2 DEF Group
<1>6. canvas' = [canvas EXCEPT !.groups = [canvas.groups EXCEPT ![k].cycle = cycle]]
  BY <1>2 DEF annotations!CycleGroup
<1>7. Counted(canvas')
  BY <1>4, <1>5, <1>6, ShownIsCounted DEF Counted
<1>8. QED
  BY <1>7, ShownIsCounted, CanvasShown DEF annotations!CycleGroup

\* The other messages keep the groups of the canvas.
LEMMA GroupsAlone ==
  ASSUME GroupsInv, canvas'.groups = canvas.groups,
         DOMAIN canvas' = DOMAIN canvas, nextId' = nextId, savedCanvas' = savedCanvas,
         annotations!SaveCurrentCanvas \/ (undo' = undo /\ redo' = redo)
  PROVE  GroupsInv'
<1>1. Counted(canvas')
  BY ShownIsCounted, GroupsReplaced DEF Counted
<1>2. QED
  BY <1>1, ShownIsCounted, CanvasShown

LEMMA SavingKeepsGroups ==
  ASSUME GroupsInv, NEW id, NEW item, NEW place,
         \/ annotations!ToggleAnnotationVisibility(id) \/ annotations!SetGroupVisibility(place)
         \/ annotations!RemoveItem(item) \/ annotations!GroupFold(item)
  PROVE  GroupsInv'
<1>1. /\ canvas'.groups = canvas.groups /\ DOMAIN canvas' = DOMAIN canvas
      /\ nextId' = nextId /\ savedCanvas' = savedCanvas /\ annotations!SaveCurrentCanvas
  <2>1. CASE annotations!ToggleAnnotationVisibility(id)
    BY <2>1, ShownIsCounted DEF Counted, annotations!ToggleAnnotationVisibility
  <2>2. CASE annotations!SetGroupVisibility(place)
    BY <2>2, ShownIsCounted DEF Counted, annotations!SetGroupVisibility
  <2>3. CASE annotations!RemoveItem(item)
    BY <2>3, ShownIsCounted DEF Counted, annotations!RemoveItem
  <2>4. CASE annotations!GroupFold(item)
    BY <2>4, ShownIsCounted DEF Counted, annotations!GroupFold
  <2>5. QED
    BY <2>1, <2>2, <2>3, <2>4
<1>2. QED
  BY <1>1, GroupsAlone

LEMMA UnsavedKeepsGroups ==
  ASSUME GroupsInv, NEW id, NEW message,
         \/ annotations!AnnotationClicked(id) \/ annotations!ClickedBeside
         \/ annotations!ToggleCommentVisibility(id) \/ annotations!AddCommentMessage(id)
         \/ annotations!RemoveCommentMessage(id, message)
         \/ annotations!ToggleAnnotationlistVisibility
  PROVE  GroupsInv'
<1>1. /\ canvas'.groups = canvas.groups /\ DOMAIN canvas' = DOMAIN canvas
      /\ nextId' = nextId /\ savedCanvas' = savedCanvas /\ undo' = undo /\ redo' = redo
  <2>1. CASE annotations!AnnotationClicked(id)
    BY <2>1, ShownIsCounted DEF Counted, annotations!AnnotationClicked
  <2>2. CASE annotations!ClickedBeside
    BY <2>2, ShownIsCounted DEF Counted, annotations!ClickedBeside
  <2>3. CASE annotations!ToggleCommentVisibility(id)
    BY <2>3, ShownIsCounted DEF Counted, annotations!ToggleCommentVisibility
  <2>4. CASE annotations!AddCommentMessage(id)
    BY <2>4, ShownIsCounted DEF Counted, annotations!AddCommentMessage
  <2>5. CASE annotations!RemoveCommentMessage(id, message)
    BY <2>5, ShownIsCounted DEF Counted, annotations!RemoveCommentMessage
  <2>6. CASE annotations!ToggleAnnotationlistVisibility
    BY <2>6, ShownIsCounted DEF Counted, annotations!ToggleAnnotationlistVisibility
  <2>7. QED
    BY <2>1, <2>2, <2>3, <2>4, <2>5, <2>6
<1>2. QED
  BY <1>1, GroupsAlone

LEMMA ReloadWaveformStep ==
  ASSUME GroupsInv, annotations!ReloadWaveform
  PROVE  GroupsInv'
<1>1. Counted(canvas')
  BY ShownIsCounted, EmptySeq DEF Counted, annotations!ReloadWaveform
<1>2. QED
  BY <1>1, ShownIsCounted, CanvasShown DEF annotations!ReloadWaveform

LEMMA UndoStep ==
  ASSUME GroupsInv, annotations!Undo \/ annotations!Redo
  PROVE  GroupsInv'
<1>1. PICK canvases : Kept(canvases)
  BY DEF GroupsInv
<1>2. CASE annotations!Undo
  <2>1. undo[Len(undo)] \in canvases
    BY <1>1, <1>2, LenProperties, ElementOfSeq DEF Kept, annotations!Undo
  <2>2. SubSeq(undo, 1, Len(undo) - 1) \in Seq(canvases)
    BY <1>1, ElementOfSeq DEF Kept
  <2>3. Append(redo, canvas) \in Seq(canvases)
    BY <1>1, AppendProperties DEF Kept
  <2>4. Kept(canvases)'
    BY <1>1, <1>2, <2>1, <2>2, <2>3 DEF Kept, annotations!Undo
  <2>5. QED
    BY <2>4 DEF GroupsInv
<1>3. CASE annotations!Redo
  <2>1. redo[Len(redo)] \in canvases
    BY <1>1, <1>3, LenProperties, ElementOfSeq DEF Kept, annotations!Redo
  <2>2. SubSeq(redo, 1, Len(redo) - 1) \in Seq(canvases)
    BY <1>1, ElementOfSeq DEF Kept
  <2>3. Append(undo, canvas) \in Seq(canvases)
    BY <1>1, AppendProperties DEF Kept
  <2>4. Kept(canvases)'
    BY <1>1, <1>3, <2>1, <2>2, <2>3 DEF Kept, annotations!Redo
  <2>5. QED
    BY <2>4 DEF GroupsInv
<1>4. QED
  BY <1>2, <1>3

LEMMA NewCanvasCounted == Counted(annotations!NewCanvas)
<1>1. <<annotations!EmptyGroup(annotations!Ungrouped)>> \in Seq(Group)
  BY EmptyGroups
<1>2. QED
  BY <1>1 DEF Counted, annotations!NewCanvas

LEMMA StateFileStep ==
  ASSUME GroupsInv,
         \/ annotations!SaveState \/ annotations!LoadState \/ annotations!Restart
         \/ UNCHANGED annotations!vars
  PROVE  GroupsInv'
<1>1. PICK canvases : Kept(canvases)
  BY DEF GroupsInv
<1>2. CASE annotations!SaveState
  BY <1>1, <1>2 DEF Kept, GroupsInv, annotations!SaveState
<1>3. CASE annotations!LoadState
  BY <1>1, <1>3 DEF Kept, GroupsInv, annotations!LoadState
<1>4. CASE annotations!Restart
  <2>1. PICK more : more = canvases \cup {annotations!NewCanvas}
    OBVIOUS
  <2>2. \A c \in more : Counted(c)
    BY <1>1, <2>1, NewCanvasCounted DEF Kept
  <2>3. Kept(more)'
    <3>1. \A c \in more : Counted(c)'
      BY <2>2 DEF Counted
    <3>2. undo' \in Seq(more) /\ redo' \in Seq(more) /\ nextId' \in Nat
      BY <1>4, EmptySeq DEF annotations!Restart
    <3>3. canvas' \in more /\ (savedCanvas' # <<>> => savedCanvas'[1].w \in more)
      BY <1>1, <1>4, <2>1 DEF Kept, annotations!Restart
    <3>4. QED
      BY <2>2, <3>2, <3>3 DEF Kept
  <2>4. QED
    BY <2>3 DEF GroupsInv
<1>5. CASE UNCHANGED annotations!vars
  BY <1>5 DEF GroupsInv, Kept, Counted, annotations!vars
<1>6. QED
  BY <1>2, <1>3, <1>4, <1>5

LEMMA GroupsInit == annotations!Init => GroupsInv
<1>1. SUFFICES ASSUME annotations!Init PROVE Kept({annotations!NewCanvas})
  BY DEF GroupsInv
<1>2. QED
  BY <1>1, NewCanvasCounted, EmptySeq DEF annotations!Init, Kept

LEMMA GroupsNext ==
  ASSUME GroupsInv, [annotations!Next]_annotations!vars
  PROVE  GroupsInv'
<1>1. \/ \E sort \in AnnotationKinds, item \in Items : annotations!AnnotationAdded(sort, item)
      \/ \E id \in annotations!Ids : annotations!RemoveAnnotation(id)
      \/ \E id \in annotations!Ids, name \in Names \cup {annotations!Ungrouped} :
            annotations!UpdateAnnotationGroup(id, name)
      \/ \E name \in Names : annotations!CreateAnnotationGroup(name)
      \/ \E name \in Names \cup {annotations!Ungrouped} : annotations!DeleteAnnotationGroup(name)
      \/ \E name \in Names : annotations!DeleteAllAnnotationInGroup(name)
      \/ \E k \in DOMAIN canvas.groups : annotations!CycleGroup(k)
      \/ annotations!ReloadWaveform
    => GroupsInv'
  BY AnnotationAddedStep, RemoveAnnotationStep, UpdateAnnotationGroupStep,
     CreateAnnotationGroupStep, DeleteAnnotationGroupStep, DeleteAllAnnotationInGroupStep,
     CycleGroupStep, ReloadWaveformStep
<1>2. \/ \E id \in annotations!Ids : annotations!ToggleAnnotationVisibility(id)
      \/ \E k \in DOMAIN canvas.groups : annotations!SetGroupVisibility(k)
      \/ \E item \in Items : annotations!RemoveItem(item) \/ annotations!GroupFold(item)
    => GroupsInv'
  BY SavingKeepsGroups
<1>3. \/ \E id \in annotations!Ids : \/ annotations!AnnotationClicked(id)
                                     \/ annotations!ToggleCommentVisibility(id)
                                     \/ annotations!AddCommentMessage(id)
      \/ \E id \in annotations!Ids, m \in 0..MaxMessages : annotations!RemoveCommentMessage(id, m)
      \/ annotations!ClickedBeside \/ annotations!ToggleAnnotationlistVisibility
    => GroupsInv'
  BY UnsavedKeepsGroups
<1>4. QED
  BY <1>1, <1>2, <1>3, UndoStep, StateFileStep DEF annotations!Next

\* The group list indexes a group with its cycle counter (render_group_section):
\* whatever messages, undo, redo, reloads and state files do to the groups, the
\* counter points at an entry of its group, or at the first place of an empty one.
THEOREM CyclesInRange == annotations!Spec => []CycleInRange
<1>1. annotations!Init => GroupsInv
  BY GroupsInit
<1>2. GroupsInv /\ [annotations!Next]_annotations!vars => GroupsInv'
  BY GroupsNext
<1>3. GroupsInv => CycleInRange
  <2>1. SUFFICES ASSUME GroupsInv, NEW k \in DOMAIN canvas.groups
                 PROVE  canvas.groups[k] \in Group
    BY DEF CycleInRange, annotations!CycleInRange, Group
  <2>2. canvas.groups \in Seq(Group)
    BY <2>1, ShownIsCounted DEF Counted
  <2>3. QED
    BY <2>1, <2>2, ElementOfSeq
<1>4. QED
  BY <1>1, <1>2, <1>3, PTL DEF annotations!Spec
=============================================================================
