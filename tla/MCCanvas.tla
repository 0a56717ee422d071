------------------------------ MODULE MCCanvas ------------------------------
(***************************************************************************)
(* Canvas for TLC: the same messages in smaller selections, each the       *)
(* messages of one kind of session, so that a run can afford larger        *)
(* canvases.                                                               *)
(***************************************************************************)
EXTENDS Canvas

CONSTANTS
    x,
    Sessions    \* kinds of session: of "edit", "drag" and "undo"

VARIABLE session

\* State files: an empty canvas, and a folded group that holds the variable x.
SavedCanvases ==
  {CanvasOf(FreshWaves({})),
   [focused_item |-> 1, markers |-> {},
    items_tree |-> <<[NewNode(2, 0) EXCEPT !.unfolded = FALSE], NewNode(1, 1)>>,
    displayed_items |-> <<Variable(x), Group>>]}

\* Everything but drags, dividers, decoders and undo.
EditNext ==
  /\ Running
  /\ \/ \E z \in waves.inner :
          AddVariables(<<z>>) \/ \E scopes \in Scopes(z) : AddScopeAsGroup(scopes)
     \/ AddMarker(TRUE)
     \/ \E m \in MarkerIndex : SetMarker(m)
     \/ RemoveNext \/ FocusNext \/ SelectNext \/ MoveNext \/ GroupNext \/ LoadNext

\* Undo and redo between edits that save the canvas and some that do not.
UndoRunNext ==
  /\ Running
  /\ \/ \E z \in waves.inner : AddVariables(<<z>>) \/ AddVariables(<<z, z>>)
     \/ \E v \in 0..Len(waves.items_tree) : AddDivider(v)
     \/ \E move_focus \in BOOLEAN : AddMarker(move_focus)
     \/ \E lanes \in Lane, refs \in {{}} \cup {{r} : r \in DOMAIN waves.displayed_items} :
          DecoderAdd(lanes, refs)
     \/ GroupNew(0) \/ UndoNext
     \/ \E v \in DOMAIN waves.items_tree : RemoveVisibleItem(v) \/ FocusItem(v)
     \/ \E m \in MarkerIndex : RemoveMarker(m)
     \/ GroupDissolve(0)
     \/ \E unfolded \in BOOLEAN : GroupFold(0, unfolded, FALSE)

\* Drags between the messages that build groups, fold and select.
DragRunNext ==
  /\ Running
  /\ \/ DragNext
     \/ /\ Undisturbed
        /\ \/ \E z \in waves.inner :
                AddVariables(<<z>>) \/ AddScopeAsGroup(<<Scope(0, <<z>>)>>)
           \/ GroupNew(0) \/ DecoderAdd(2, {})
           \/ \E v \in DOMAIN waves.items_tree :
                FocusItem(v) \/ SetItemSelected(v, TRUE)
           \/ \E unfolded \in BOOLEAN : GroupFoldAll(unfolded)

SessionNext ==
  /\ \/ session = "edit" /\ EditNext
     \/ session = "undo" /\ UndoRunNext
     \/ session = "drag" /\ DragRunNext
  /\ UNCHANGED session
SessionInit == Init /\ session \in Sessions
SessionSpec == SessionInit /\ [][SessionNext]_<<vars, session>>

\* What the views rely on between any two messages: only groups have children,
\* a variable that the waveform lacks is a placeholder, and what is folded away
\* is not selected (wave_data.rs, lib.rs).
Consistent == TypeOK /\ GroupsOnly /\ PlaceholdersForMissing /\ HiddenNotSelected
=============================================================================
