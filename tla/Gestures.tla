------------------------------ MODULE Gestures ------------------------------
(* Dragging on the canvas (mousegestures.rs and draw_items): mouse gestures,  *)
(* measuring, and drawing annotations share the buttons of the mouse, told    *)
(* apart by modifiers, by the tool chosen in the toolbar and by what earlier  *)
(* frames remembered.                                                         *)
EXTENDS Integers, FiniteSets, Sequences

CONSTANTS MeasureByDefault, \* primary_button_drag_behavior is Measure
          MaxPresses        \* bound: drags in a behaviour

VARIABLES button,  \* the button of the drag, or "none"
          mods,    \* the modifiers held: a subset of {"Command", "Shift"}
          press,   \* the number of the last drag: names its origin
          start,   \* gesture_start_location: 0 or the drag it is the origin of
          low,     \* whether that origin lies below the items
          measure, \* measure_start_location: 0 or the drag it is the origin of
          kind,    \* annotation_kind, or "None"
          done     \* the last thing a release did: [what, from, at]

vars == <<button, mods, press, start, low, measure, kind, done>>

Compass == {"north", "northeast", "east", "southeast",
            "south", "southwest", "west", "northwest"}

-----------------------------------------------------------------------------
(* gesture_type.  TAN_22_5_DEGREES is 41421357 / 10^8; y grows downwards.     *)

Tan(n) == 41421357 * n
One(n) == 100000000 * n
Magnitude(n) == IF n < 0 THEN -n ELSE n

Mut_GestureZone(x, y) == IF Tan(Magnitude(x)) > One(Magnitude(y))
                         THEN IF x < 0 THEN "west" ELSE "east"
                         ELSE IF y < 0 THEN "north" ELSE "south"

GestureZone(x, y) ==
    IF x < 0
    THEN CASE One(Magnitude(y)) < -Tan(x) -> "west"
           [] One(Magnitude(y)) >= -Tan(x) /\ y < 0 /\ One(x) < Tan(y) -> "northwest"
           [] One(Magnitude(y)) >= -Tan(x) /\ y > 0 /\ One(x) < -Tan(y) -> "southwest"
           [] OTHER -> IF y < 0 THEN "north" ELSE "south"
    ELSE CASE Tan(x) > One(Magnitude(y)) -> "east"
           [] Tan(x) <= One(Magnitude(y)) /\ y < 0 /\ One(x) > -Tan(y) -> "northeast"
           [] Tan(x) <= One(Magnitude(y)) /\ y > 0 /\ One(x) > Tan(y) -> "southeast"
           [] OTHER -> IF y < 0 THEN "north" ELSE "south"

(* The direction of the compass nearest to a vector, by exact arithmetic:     *)
(* |y| / |x| is below tan 22.5 degrees when (|x| + |y|)^2 < 2 |x|^2.          *)
NearestDirection(x, y) ==
    LET flat(a, b) == (Magnitude(a) + Magnitude(b)) * (Magnitude(a) + Magnitude(b)) < 2 * a * a
    IN  CASE flat(x, y) -> IF x < 0 THEN "west" ELSE "east"
          [] flat(y, x) -> IF y < 0 THEN "north" ELSE "south"
          [] ~flat(x, y) /\ ~flat(y, x) /\ y < 0 -> IF x < 0 THEN "northwest" ELSE "northeast"
          [] OTHER -> IF x < 0 THEN "southwest" ELSE "southeast"

(* gesture_type picks the zone of the nearest direction of the compass for    *)
(* every drag of a length in pixels, although its constant is rounded.        *)
ZoneIsNearest(x, y) == (x # 0 \/ y # 0) => GestureZone(x, y) = NearestDirection(x, y)

-----------------------------------------------------------------------------
(* What a gesture does and what is drawn while it is made. *)

(* [gesture.mapping] of default_config.toml. *)
DefaultZones == [north |-> "Cancel", northeast |-> "ZoomOut", east |-> "ZoomIn",
                 southeast |-> "GoToEnd", south |-> "Cancel", southwest |-> "GoToStart",
                 west |-> "ZoomIn", northwest |-> "ZoomToFit"]

Kinds == {"Rectangle", "ArrowSingleHead", "ArrowDoubleHead"}

(* stop_dragging: the messages of a drag that left the dead zone.  A          *)
(* rectangle is always added, an arrow only when it ends on an item.          *)
GestureMessages(zone, zones) ==
    CASE zones[zone] = "ZoomToFit" -> {"ZoomToFit"}
      [] zones[zone] = "ZoomIn" -> {"ZoomToRange"}
      [] zones[zone] = "GoToStart" -> {"GoToStart"}
      [] zones[zone] = "GoToEnd" -> {"GoToEnd"}
      [] zones[zone] = "ZoomOut" -> {"CanvasZoom"}
      [] zones[zone] = "Cancel" -> {}

StopMessages(k, zone, onItem, zones) ==
    CASE k = "Rectangle" -> {"RectangleAdded"}
      [] k \in {"ArrowSingleHead", "ArrowDoubleHead"} -> IF onItem THEN {"ArrowAdded"} ELSE {}
      [] k = "None" -> GestureMessages(zone, zones)

(* start_dragging: the text drawn beside the pointer. *)
Feedback(k, zone, zones) ==
    CASE k = "Rectangle" -> "rectangle"
      [] k \in {"ArrowSingleHead", "ArrowDoubleHead"} -> "Add arrow"
      [] k = "None" ->
           CASE zones[zone] = "ZoomToFit" -> "Zoom to fit"
             [] zones[zone] = "ZoomIn" -> "Zoom in"
             [] zones[zone] = "GoToStart" -> "Go to start"
             [] zones[zone] = "GoToEnd" -> "Go to end"
             [] zones[zone] = "ZoomOut" -> "Zoom out"
             [] zones[zone] = "Cancel" -> "Cancel"

-----------------------------------------------------------------------------

Init ==
    /\ button = "none" /\ mods = {} /\ press = 0
    /\ start = 0 /\ low = FALSE /\ measure = 0 /\ kind = "None"
    /\ done = [what |-> {}, from |-> 0, at |-> 0]

DoMeasure == IF MeasureByDefault THEN "Shift" \notin mods ELSE "Shift" \in mods

(* What a drag with the primary button stands for. *)
Gesture(b) == b = "Middle" \/ ("Command" \in mods /\ b = "Primary")
Annotating(b) == kind # "None" /\ b = "Primary"

Mut_StartsAt(b) == Gesture(b) /\ kind = "None"

StartsAt(b) == Gesture(b) \/ Annotating(b)

(* draw_items, the frame in which a drag starts. *)
DragStarted(b, below) ==
    /\ button = "none" /\ press < MaxPresses
    /\ button' = b
    /\ press' = press + 1
    /\ IF StartsAt(b) THEN start' = press' /\ low' = below ELSE UNCHANGED <<start, low>>
    /\ measure' = IF DoMeasure /\ b = "Primary" THEN press' ELSE measure
    /\ UNCHANGED <<mods, kind, done>>

SetModifiers(m) ==
    /\ mods # m
    /\ mods' = m
    /\ UNCHANGED <<button, press, start, low, measure, kind, done>>

(* The buttons of the toolbar: choose a tool, or cancel it. *)
SetMouseGestureAnnotation(k) ==
    /\ button = "none"
    /\ kind' = IF kind = k THEN "None" ELSE k
    /\ UNCHANGED <<button, mods, press, start, low, measure, done>>

(* draw_measure_widget runs only while no annotation is drawn. *)
MeasureStopped(b) ==
    measure' = IF kind = "None" /\ b = "Primary" THEN 0 ELSE measure

(* draw_mouse_gesture_widget and stop_dragging, the frame in which the button *)
(* is released: in the dead zone nothing happens, but both are cleared.  When *)
(* the frame has no position of the pointer, both are kept for a later drag.  *)
DragStopped(pointer, moved, zone, onItem) ==
    /\ button # "none"
    /\ button' = "none"
    /\ MeasureStopped(button)
    /\ IF /\ start # 0
          /\ ~(kind = "Rectangle" /\ low)
          /\ Gesture(button) \/ Annotating(button)
          /\ pointer
       THEN /\ start' = 0
            /\ kind' = "None"
            /\ done' = [what |-> IF moved THEN StopMessages(kind, zone, onItem, DefaultZones)
                                 ELSE {},
                        from |-> start, at |-> press]
       ELSE UNCHANGED <<start, kind, done>>
    /\ UNCHANGED <<mods, press, low>>

Next ==
    \/ \E b \in {"Primary", "Middle"}, below \in BOOLEAN : DragStarted(b, below)
    \/ \E m \in SUBSET {"Command", "Shift"} : SetModifiers(m)
    \/ \E k \in Kinds : SetMouseGestureAnnotation(k)
    \/ \E pointer, moved, onItem \in BOOLEAN, zone \in {"north", "east", "northeast"} :
           DragStopped(pointer, moved, zone, onItem)

Spec == Init /\ [][Next]_vars

-----------------------------------------------------------------------------

(* The start of a drag is remembered in messages and used frames later, and a *)
(* start may be left over (Ctrl is let go before the button, or a rectangle   *)
(* begins below the items): an annotation is never drawn from a start that is *)
(* not the origin of the very drag that is released.                          *)
AnnotationFromThisDrag ==
    done.what \cap {"RectangleAdded", "ArrowAdded"} # {} => done.from = done.at
=============================================================================
