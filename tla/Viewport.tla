------------------------------ MODULE Viewport ------------------------------
(* A viewport of the waveform canvas (viewport.rs): the part of the file it   *)
(* shows, how the zoom and scroll messages move it, the eased movement that   *)
(* a frame advances, and how it survives a reload with another length.        *)
(*                                                                            *)
(* Positions relative to the file (f64, 0 is its start and 1 its end) are     *)
(* integers in steps of 1 / Unit; a result between two steps is rounded       *)
(* down.  Times are absolute.                                                 *)
EXTENDS Integers, Sequences

CONSTANTS Unit,      \* the relative position 1.0
          Lengths,   \* last timestamps a file may have
          Duration   \* frames that an eased movement takes

VARIABLES vp,      \* the viewport
          max      \* max_timestamp of the loaded file

vars == <<vp, max>>

Still == <<>>    \* no movement under way
Strategies == {"Instant", "EaseInOut"}
EdgeSpace == Unit \div 5

(* Absolute positions are in steps of 1 / Unit too. *)
absolute(r, m) == r * m
relative(a, m) == a \div m
TimePos(t, m) == relative(t * Unit, m)

(* Where the view is, how it moves, and the movement under way: where it      *)
(* started, where it goes and the frames it has run.  The targets kept from   *)
(* an earlier movement are never read and left out.                           *)
Default == [left |-> 0, right |-> Unit, strategy |-> "Instant", move |-> Still]

Move(v, left, right) ==
    <<[fromLeft |-> v.left, fromRight |-> v.right, left |-> left, right |-> right, n |-> 0]>>

width(v) == v.right - v.left
midpoint(v) == (v.left + v.right) \div 2
IsMoving(v) == v.move # Still

(* Half of the absolute time that must stay visible. *)
MinWidth(m) == Unit \div (2 * m)

SetTargets(v, left, right) ==
    IF v.strategy = "Instant"
    THEN [v EXCEPT !.left = left, !.right = right]
    ELSE [v EXCEPT !.move = Move(v, left, right)]

SetClippedNoWidthCheck(v, left, right) ==
    LET w == right - left
        margin == w \div 5
    IN  IF w > Unit + 2 * EdgeSpace
        THEN SetTargets(v, -EdgeSpace, Unit + EdgeSpace)
        ELSE IF left < -margin
        THEN SetTargets(v, -margin, w - margin)
        ELSE IF right > Unit + margin
        THEN SetTargets(v, Unit + margin - w, Unit + margin)
        ELSE SetTargets(v, left, right)

Mut_SetClipped(v, left, right, m) == SetClippedNoWidthCheck(v, left, right)

SetClipped(v, left, right, m) ==
    LET center == (left + right) \div 2
    IN  IF right - left <= MinWidth(m)
        THEN SetClippedNoWidthCheck(v, center - MinWidth(m), center + MinWidth(m))
        ELSE SetClippedNoWidthCheck(v, left, right)

ZoomToFit(v) == SetTargets(v, 0, Unit)
GoToStart(v) == SetTargets(v, 0, width(v))
GoToEnd(v) == SetTargets(v, Unit - width(v), Unit)

Around(v, center, half, m) == SetClipped(v, center - half, center + half, m)
GoToTime(v, t, m) == Around(v, TimePos(t, m), width(v) \div 2, m)

(* A zoom of num / den around the middle, or under the mouse pointer, where   *)
(* the same factor zooms the other way.                                       *)
CanvasZoom(v, num, den, m) ==
    Around(v, midpoint(v), (width(v) * num) \div (2 * den), m)
CanvasZoomAt(v, t, num, den, m) ==
    LET at == TimePos(t, m)
        Pull(edge) == ((edge - at) * den) \div num + at
    IN  SetClipped(v, Pull(v.left), Pull(v.right), m)
ZoomToTime(v, t, num, den, m) ==
    Around(v, TimePos(t, m), (width(v) * num) \div (2 * den), m)

(* One scroll event is 50 units of delta, a twentieth of the width. *)
CanvasScroll(v, delta) ==
    LET step == (-width(v) * delta) \div 1000
    IN  SetClippedNoWidthCheck(v, v.left + step, v.right + step)

ZoomToRange(v, from, to, m) == SetClipped(v, TimePos(from, m), TimePos(to, m), m)

InView(v, t, m) ==
    absolute(v.left, m) < t * Unit /\ t * Unit < absolute(v.right, m)
GoToCursorIfNotInView(v, t, m) == IF InView(v, t, m) THEN v ELSE GoToTime(v, t, m)

At(v, left, right) == [v EXCEPT !.left = left, !.right = right, !.move = Still]

ClipTo(v, old, new) ==
    LET left == absolute(v.left, old)
        size == absolute(v.right, old) - left
        moved == relative(left + size, new)
    IN  IF 5 * size > 2 * new * Unit
        THEN At(v, -EdgeSpace, Unit + EdgeSpace)
        ELSE IF moved <= Unit + EdgeSpace
        THEN At(v, relative(left, new), moved)
        ELSE At(v, Unit + EdgeSpace - relative(size, new), Unit + EdgeSpace)

(* The share of the way of an eased movement: (1 - cos(pi * t)) / 2 grows     *)
(* from 0 to 1; its values are abstracted to the share of the frames.         *)
Ease(from, to, n) == from + ((to - from) * n) \div Duration

Advance(v) ==
    LET m == v.move[1]
    IN  [v EXCEPT !.move = <<[m EXCEPT !.n = @ + 1]>>,
                  !.left = Ease(m.fromLeft, m.left, m.n + 1),
                  !.right = Ease(m.fromRight, m.right, m.n + 1)]

Mut_MoveViewport(v) ==
    IF v.strategy = "Instant" \/ v.move[1].n + 1 >= Duration
    THEN [v EXCEPT !.move = Still]
    ELSE Advance(v)

MoveViewport(v) ==
    IF v.strategy = "Instant" \/ v.move[1].n + 1 >= Duration
    THEN At(v, v.move[1].left, v.move[1].right)
    ELSE Advance(v)

-----------------------------------------------------------------------------

Init == vp = Default /\ max \in Lengths

Times == 0..max

Apply(v) == vp' = v /\ UNCHANGED max

Zoom ==
    \E f \in {<<1, 2>>, <<2, 1>>} :
        \/ Apply(CanvasZoom(vp, f[1], f[2], max))
        \/ \E t \in Times : \/ Apply(CanvasZoomAt(vp, t, f[1], f[2], max))
                            \/ Apply(ZoomToTime(vp, t, f[1], f[2], max))

Range == \E from, to \in Times : Apply(ZoomToRange(vp, from, to, max))

Scroll == \E delta \in {-1000, 1000} : Apply(CanvasScroll(vp, delta))

Go == \/ Apply(ZoomToFit(vp))
      \/ Apply(GoToStart(vp))
      \/ Apply(GoToEnd(vp))
      \/ \E t \in Times : \/ Apply(GoToTime(vp, t, max))
                          \/ Apply(GoToCursorIfNotInView(vp, t, max))

Animate == IsMoving(vp) /\ Apply(MoveViewport(vp))

SetStrategy == \E s \in Strategies : Apply([vp EXCEPT !.strategy = s])

(* update_viewports, once the length of the reloaded file is known. *)
Reload ==
    \E new \in Lengths :
        /\ new # max
        /\ max' = new
        /\ vp' = ClipTo(vp, max, new)

Next == Zoom \/ Range \/ Scroll \/ Go \/ Animate \/ SetStrategy \/ Reload

Spec == Init /\ [][Next]_vars /\ WF_vars(Animate)

-----------------------------------------------------------------------------

Sane(left, right) ==
    /\ left < right
    /\ right - left <= Unit + 2 * EdgeSpace + 1
    /\ left >= -(2 * EdgeSpace) - 1 /\ right <= Unit + 2 * EdgeSpace + 1

(* However zooming, scrolling, easing, a change of strategy and a reload      *)
(* follow each other, the view never collapses or inverts, never spans more   *)
(* than the file and its margins, and never leaves the surroundings of the    *)
(* file (set_viewport_to_clipped).                                            *)
ViewStaysNear == Sane(vp.left, vp.right)

(* A movement that ends has arrived where it was sent, unless a reload moved  *)
(* the view (move_viewport).                                                  *)
ArrivesAtTarget ==
    [][IsMoving(vp) /\ ~IsMoving(vp') /\ max' = max
         => vp'.left = vp.move[1].left /\ vp'.right = vp.move[1].right]_vars

(* The doc of clip_to: "If zoom is not possible it will zoom in as much as    *)
(* needed to keep border margins": a reload never shows more time than        *)
(* before.                                                                    *)
ReloadZoomsIn ==
    [][max' # max => absolute(width(vp'), max') <= absolute(width(vp), max) + max']_vars
=============================================================================
