------------------------------- MODULE Toolbar -------------------------------
(* The toolbar (toolbar.rs): groups of buttons arranged in rows, which a user *)
(* drags, hides and moves, and which come and go with the session.            *)
EXTENDS Integers, Sequences, FiniteSets, SequencesExt

CONSTANTS Specs,     \* TOOLBAR_GROUP_SPECS: the ids of the groups, in order
          ConfigRow, \* layout.toolbar.row: the row (from 0) of a group
          MaxRow     \* bound: the largest row SetToolbarGroupRow is given

VARIABLES rows,     \* user.toolbar_group_rows
          hidden,   \* the groups toolbar_group_enabled says are off
          session,  \* [menu, waves, simulation]: what decides which are visible
          dragging, \* toolbar_dragging_group, <<>> or <<id>>
          target    \* toolbar_drop_row, _index and _new_row, <<>> or <<row, index, new>>

vars == <<rows, hidden, session, dragging, target>>

Groups == Range(Specs)

NonEmpty(rs) == SelectSeq(rs, LAMBDA r : r # <<>>)
Without(rs, S) == [k \in DOMAIN rs |-> SelectSeq(rs[k], LAMBDA id : id \notin S)]
InsertedAt(s, i, x) == SubSeq(s, 1, i) \o <<x>> \o SubSeq(s, i + 1, Len(s))
Smaller(a, b) == IF a < b THEN a ELSE b
Larger(a, b) == IF a > b THEN a ELSE b

-----------------------------------------------------------------------------

VisibleToolbarGroups(s) ==
    {g \in Groups : /\ g = "menu" => ~s.menu
                    /\ g = "cxxrtl" => s.waves /\ s.simulation
                    /\ g = "time" => s.waves}

Active == VisibleToolbarGroups(session) \ hidden

DefaultToolbarRows ==
    LET last == CHOOSE n \in {ConfigRow[g] : g \in Groups} : \A g \in Groups : n >= ConfigRow[g]
    IN  [k \in 1..(last + 1) |-> SelectSeq(Specs, LAMBDA g : ConfigRow[g] = k - 1)]

EnsureToolbarRows(rs) == IF rs = <<>> THEN DefaultToolbarRows ELSE rs

(* What is drawn: the rows without what is not shown, and every group no row  *)
(* holds (it was hidden during an earlier drop) at the end of the first.      *)
ActiveToolbarRows(rs) ==
    LET all == EnsureToolbarRows(rs)
        kept == NonEmpty(Without(all, Groups \ Active))
        base == IF kept = <<>> THEN <<<<>>>> ELSE kept
        present == UNION {Range(base[k]) : k \in DOMAIN base}
    IN  [base EXCEPT ![1] = @ \o SelectSeq(Specs, LAMBDA g : g \in Active \ present)]

Mut_SimulateGroupDrop(rs, id, t) ==
    IF t[3] THEN InsertedAt(rs, Smaller(t[1], Len(rs)), <<id>>)
    ELSE [rs EXCEPT ![t[1] + 1] = InsertedAt(@, Smaller(t[2], Len(@)), id)]

SimulateGroupDrop(rs, id, t) ==
    LET next == NonEmpty(Without(rs, {id}))
        row == IF t[3] THEN Smaller(t[1], Len(next))
               ELSE Smaller(t[1], Larger(Len(next) - 1, 0))
    IN  IF t[3] \/ next = <<>>
        THEN InsertedAt(next, row, <<id>>)
        ELSE [next EXCEPT ![row + 1] = InsertedAt(@, Smaller(t[2], Len(@)), id)]

(* Where a pointer can drop: beside a group of a row, or in a new row above,  *)
(* between or below the rows.                                                 *)
ComputeDropTarget(rs) ==
    UNION {{<<r - 1, i, FALSE>> : i \in 0..Len(rs[r])} : r \in DOMAIN rs}
      \cup {<<r, 0, TRUE>> : r \in 0..Len(rs)}

-----------------------------------------------------------------------------

Init ==
    /\ rows = <<>>
    /\ hidden = {}
    /\ session = [menu |-> TRUE, waves |-> FALSE, simulation |-> FALSE]
    /\ dragging = <<>>
    /\ target = <<>>

DraggedVisible == dragging # <<>> /\ dragging[1] \in Active

(* draw_group_container: the handle of a drawn group is picked up.  The frame *)
(* ends with the handling of the pointer, as every frame does.                *)
StartDrag(id) ==
    /\ id \in Active
    /\ ~DraggedVisible
    /\ dragging' = <<id>>
    /\ rows' = EnsureToolbarRows(rows)
    /\ target' \in {target} \cup ComputeDropTarget(ActiveToolbarRows(rows))
    /\ UNCHANGED <<hidden, session>>

(* draw_toolbar: the pointer moves over the toolbar. *)
Hover ==
    /\ DraggedVisible
    /\ target' \in ComputeDropTarget(ActiveToolbarRows(rows))
    /\ rows' = EnsureToolbarRows(rows)
    /\ UNCHANGED <<hidden, session, dragging>>

ClearToolbarDragState == dragging' = <<>> /\ target' = <<>>

(* draw_toolbar: the button is released, perhaps outside the window (then the *)
(* target is the one of an earlier frame, or none).                           *)
Release ==
    /\ DraggedVisible
    /\ \E t \in {target} \cup ComputeDropTarget(ActiveToolbarRows(rows)) :
           rows' = IF t = <<>> THEN EnsureToolbarRows(rows)
                   ELSE SimulateGroupDrop(ActiveToolbarRows(rows), dragging[1], t)
    /\ ClearToolbarDragState
    /\ UNCHANGED <<hidden, session>>

SetToolbarGroupEnabled(id, on) ==
    /\ hidden' = IF on THEN hidden \ {id} ELSE hidden \cup {id}
    /\ UNCHANGED <<rows, session, dragging, target>>

SetToolbarGroupRow(id, row) ==
    LET kept == NonEmpty(Without(EnsureToolbarRows(rows), {id}))
        padded == kept \o [k \in 1..Larger(row + 1 - Len(kept), 0) |-> <<>>]
    IN  /\ rows' = [padded EXCEPT ![row + 1] = Append(@, id)]
        /\ UNCHANGED <<hidden, session, dragging, target>>

(* Showing the menu bar, loading a waveform, a simulation that starts. *)
SetSession(s) ==
    /\ s # session
    /\ session' = s
    /\ UNCHANGED <<rows, hidden, dragging, target>>

Sessions == {s \in [menu : BOOLEAN, waves : BOOLEAN, simulation : BOOLEAN] :
               s.simulation => s.waves}

Next ==
    \/ \E id \in Groups : StartDrag(id)
    \/ Hover
    \/ Release
    \/ \E id \in Groups, on \in BOOLEAN : SetToolbarGroupEnabled(id, on)
    \/ \E id \in Groups, row \in 0..MaxRow : SetToolbarGroupRow(id, row)
    \/ \E s \in Sessions : SetSession(s)

Spec == Init /\ [][Next]_vars

-----------------------------------------------------------------------------
(* The buttons of a group: the message each one sends and when it can be      *)
(* pressed.  u is [waves, cursor, focused, viewports, undo, redo, surver,     *)
(* simulation, status, annotation].                                           *)

Button(msg, when) == IF when THEN {msg} ELSE {}

FileButtons(u) ==
    {"OpenFileDialog", "SetUrlEntryVisible", "OpenCommandFileDialog"}
      \cup Button("ReloadWaveform", u.waves)
      \cup Button("SetSurverFileWindowVisible", u.surver)
      \cup Button("VariableValueToClipbord", u.waves /\ u.focused /\ u.cursor)

ZoomButtons(u) ==
    Button("CanvasZoom", u.waves) \cup Button("ZoomToFit", u.waves)
      \cup Button("ZoomToCursor", u.waves /\ u.cursor)

NavigationButtons(u) ==
    IF u.waves THEN {"GoToStart", "CanvasScroll", "GoToEnd"} ELSE {}

TransitionButtons(u) ==
    Button("MoveCursorToTransition", u.waves /\ u.focused /\ u.cursor)
      \cup Button("AddDivider", u.waves) \cup Button("AddTimeLine", u.waves)

ViewportButtons(u) ==
    Button("AddViewport", u.waves) \cup Button("RemoveViewport", u.waves /\ u.viewports > 1)

HistoryButtons(u) == Button("Undo", u.undo > 0) \cup Button("Redo", u.redo > 0)

SimulationButtons(u) ==
    IF ~(u.waves /\ u.simulation) THEN {}
    ELSE CASE u.status = "Paused" -> {"UnpauseSimulation"}
           [] u.status = "Running" -> {"PauseSimulation"}
           [] u.status = "Finished" -> {}

(* The button of the kind that is being drawn cancels it. *)
AnnotationButtons(u) ==
    IF u.waves
    THEN {<<"SetMouseGestureAnnotation", IF k = u.annotation THEN "None" ELSE k>> :
            k \in {"Rectangle", "ArrowSingleHead", "ArrowDoubleHead"}}
    ELSE {}

-----------------------------------------------------------------------------

TypeOK ==
    /\ rows \in Seq(Seq(Groups))
    /\ hidden \subseteq Groups
    /\ session \in Sessions
    /\ dragging \in {<<>>} \cup {<<g>> : g \in Groups}

(* However the groups were dragged, moved between rows, switched off and on,  *)
(* and whatever came and went with the session in between, the toolbar draws  *)
(* every group that is visible and switched on in exactly one place, nothing  *)
(* else, and no empty row beside another.                                     *)
EveryGroupShownOnce ==
    LET shown == ActiveToolbarRows(rows)
        flat == FlattenSeq(shown)
    IN  /\ Range(flat) = Active
        /\ Len(flat) = Cardinality(Active)
        /\ \A k \in DOMAIN shown : shown[k] = <<>> => Len(shown) = 1
=============================================================================
