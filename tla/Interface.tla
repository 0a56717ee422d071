----------------------------- MODULE Interface -----------------------------
(***************************************************************************)
(* Parts of the user interface that remember something from one message or *)
(* frame and use it in another: the view and its movements, the groups of  *)
(* annotations, drags on the canvas, and the hierarchy panel.  They share  *)
(* no variable; what each of them promises is stated here.                 *)
(***************************************************************************)
EXTENDS Integers, Sequences, FiniteSets

CONSTANTS
  Unit, Lengths, Duration,                    \* of the view
  Items, AnnotationKinds, Names,              \* of annotations
  MaxAnnotations, MaxGroups, MaxMessages, MaxId, UndoSize,
  MeasureByDefault, MaxPresses,               \* of gestures
  Contents, Order, Priority, Texts, Hits(_, _), Styles, MaxLoads   \* of the panel

ASSUME UnitAssumption ==
  /\ Unit \in Nat /\ Unit % 10 = 0 /\ Unit > 0
  /\ Lengths \subseteq {n \in Nat : n > 0}
  /\ Duration \in Nat

\* The styles that can be chosen.
ASSUME StylesAssumption == Styles \subseteq {"Separate", "Tree", "Variables"}

VARIABLES
  vp, max,
  canvas, menu, panel, nextId, undo, redo, savedCanvas,
  button, mods, press, start, low, measure, kind, done,
  version, waves, translators, filter, regex, style, variableRows, expand, open, shut, listed,
  added

viewportVars == <<vp, max>>
annotationVars == <<canvas, menu, panel, nextId, undo, redo, savedCanvas>>
gestureVars == <<button, mods, press, start, low, measure, kind, done>>
hierarchyVars == <<version, waves, translators, filter, regex, style, variableRows, expand,
                   open, shut, listed, added>>

view        == INSTANCE Viewport
annotations == INSTANCE Annotations WITH w <- canvas, file <- savedCanvas, Kinds <- AnnotationKinds
gestures    == INSTANCE Gestures
hierarchy   == INSTANCE Hierarchy WITH rows <- variableRows

\* Every version of the file holds variables that have a place in the order of names.
ASSUME ContentsAssumption ==
  /\ 1 \in DOMAIN Contents
  /\ DOMAIN Order \subseteq Nat
  /\ \A n \in DOMAIN Contents :
       /\ IsFiniteSet(Contents[n])
       /\ \A v \in Contents[n] : /\ v.dir \in hierarchy!Dirs /\ Priority[v] \in Int
                                 /\ \E i \in DOMAIN Order : Order[i] = v
-----------------------------------------------------------------------------
\* However zooming, scrolling, easing and reloads follow each other, the view
\* never collapses and never leaves the surroundings of the file
\* (set_viewport_to_clipped).
ViewStaysNear == view!ViewStaysNear

\* A movement of the view that ends has arrived where it was sent (move_viewport).
ArrivesAtTarget == view!ArrivesAtTarget

\* The counter that cycles through a group of annotations points into the group,
\* whatever removes members from it (render_group_section).
CycleInRange == annotations!CycleInRange

\* An annotation starts where the drag that draws it started (mousegestures.rs).
AnnotationFromThisDrag == gestures!AnnotationFromThisDrag

\* A scope the user closes stays closed until a scope is asked for, unless the tree
\* still has a request it does not drop (hierarchy.rs).
ClosedStaysClosed == hierarchy!ClosedStaysClosed

\* A filter is marked as wrong when it is, and the button adds what the list of the
\* selected scope shows and keeps the order of names of one priority
\* (variable_filter.rs, hierarchy.rs).
FilterHonest == hierarchy!MarkedWhenInvalid /\ hierarchy!AddsWhatIsListed
=============================================================================
