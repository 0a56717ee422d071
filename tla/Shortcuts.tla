------------------------------ MODULE Shortcuts ------------------------------
(* Keyboard shortcuts (keyboard_shortcuts.rs) and the keys with a fixed       *)
(* meaning (keys.rs): which messages a key press sends.                       *)
(*                                                                            *)
(* A press or a binding is a set of modifiers and a key.  A session is what   *)
(* the actions look at: [waves, active, items, cursor, marked, focused,       *)
(* count, side, toolbar, menu, zoom, factors, prompt, widget, arrows].        *)
EXTENDS Integers, Sequences, FiniteSets

Modifiers == {"Shift", "Alt", "Command"}

On(mods, key) == [mods |-> mods, key |-> key]
Plain(key) == On({}, key)

(* The actions in the order of the dispatch table, with the bindings of       *)
(* default_config.toml.                                                       *)
Default == <<
    <<"OpenFile", <<On({"Command"}, "O")>>>>,
    <<"SwitchFile", <<On({"Command", "Shift"}, "O")>>>>,
    <<"Redo", <<On({"Command", "Shift"}, "Z"), On({"Command"}, "Y")>>>>,
    <<"Undo", <<On({"Command"}, "Z"), Plain("U")>>>>,
    <<"ToggleSidePanel", <<Plain("B")>>>>,
    <<"ToggleToolbar", <<Plain("T")>>>>,
    <<"GoToEnd", <<Plain("E")>>>>,
    <<"GoToStart", <<Plain("S")>>>>,
    <<"SaveStateFile", <<On({"Command"}, "S")>>>>,
    <<"GoToTop", <<Plain("Home")>>>>,
    <<"GoToBottom", <<Plain("End")>>>>,
    <<"GroupNew", <<Plain("G")>>>>,
    <<"ItemFocus", <<Plain("F")>>>>,
    <<"SelectAll", <<On({"Command"}, "A")>>>>,
    <<"SelectToggle", <<Plain("A")>>>>,
    <<"ReloadWaveform", <<Plain("R")>>>>,
    <<"ZoomIn", <<Plain("Plus"), Plain("Equals")>>>>,
    <<"ZoomOut", <<Plain("Minus")>>>>,
    <<"UiZoomIn", <<On({"Command"}, "Plus")>>>>,
    <<"UiZoomOut", <<On({"Command"}, "Minus")>>>>,
    <<"ScrollUp", <<Plain("PageUp")>>>>,
    <<"ScrollDown", <<Plain("PageDown")>>>>,
    <<"DeleteSelected", <<Plain("Delete"), Plain("X")>>>>,
    <<"MarkerAdd", <<Plain("M")>>>>,
    <<"ToggleMenu", <<On({"Alt"}, "M")>>>>,
    <<"ShowCommandPrompt", <<Plain("Space")>>>>,
    <<"RenameItem", <<Plain("F2")>>>>,
    <<"DividerAdd", <<Plain("D")>>>>,
    <<"ZoomToFit", <<On({"Shift"}, "F")>>>>,
    <<"ZoomToCursor", <<On({"Shift"}, "Z")>>>>,
    <<"GoToTime", <<On({"Command"}, "G")>>>>,
    <<"FocusVariableNameFilter", <<Plain("V")>>>> >>

-----------------------------------------------------------------------------

(* egui: a press may hold more of Shift and Alt than the binding asks for. *)
Matches(press, binding) ==
    /\ press.key = binding.key
    /\ binding.mods \subseteq press.mods
    /\ "Command" \in press.mods => "Command" \in binding.mods

BindingPriority(b) ==
    CASE {"Shift", "Alt"} \subseteq b.mods -> 0
      [] "Alt" \in b.mods /\ "Shift" \notin b.mods -> 1
      [] "Shift" \in b.mods /\ "Alt" \notin b.mods -> 2
      [] OTHER -> 3

Mut_ModifierPriority(bindings) == BindingPriority(bindings[1]) \div 2

(* The priority of an action is that of its first binding with Shift or Alt. *)
ModifierPriority(bindings) ==
    LET held == {i \in DOMAIN bindings : BindingPriority(bindings[i]) < 3}
    IN  IF held = {} THEN 3
        ELSE BindingPriority(bindings[CHOOSE i \in held : \A j \in held : i <= j])

(* The place of entry i in the stable sort by priority. *)
Rank(table, i) ==
    LET P(k) == ModifierPriority(table[k][2])
    IN  Cardinality({k \in DOMAIN table : P(k) < P(i) \/ (P(k) = P(i) /\ k < i)})

(* Each entry in turn consumes the presses it matches: the first one wins. *)
Fired(table, press) ==
    LET hits == {i \in DOMAIN table :
                   \E b \in {table[i][2][k] : k \in DOMAIN table[i][2]} : Matches(press, b)}
    IN  IF hits = {} THEN "none"
        ELSE table[CHOOSE i \in hits : \A j \in hits : Rank(table, i) <= Rank(table, j)][1]

-----------------------------------------------------------------------------

Msg(name, arg) == <<name, arg>>

NextZoom(s) == {f \in s.factors : f > s.zoom}
PrevZoom(s) == {f \in s.factors : f < s.zoom}
Least(S) == CHOOSE x \in S : \A y \in S : x <= y
Greatest(S) == CHOOSE x \in S : \A y \in S : x >= y

(* Messages about the view name the viewport that was last active. *)
ViewportIdx(s) == IF s.waves THEN s.active ELSE 0

ViewAction(a, s) ==
    CASE a \in {"GoToEnd", "GoToStart", "ZoomIn", "ZoomOut", "ZoomToFit"} ->
             <<Msg(a, ViewportIdx(s))>>
      [] a \in {"ScrollUp", "ScrollDown", "ZoomToCursor"} -> <<Msg(a, 0)>>
      [] a = "UiZoomIn" ->
             IF NextZoom(s) = {} THEN <<>> ELSE <<Msg("SetUIZoomFactor", Least(NextZoom(s)))>>
      [] a = "UiZoomOut" ->
             IF PrevZoom(s) = {} THEN <<>> ELSE <<Msg("SetUIZoomFactor", Greatest(PrevZoom(s)))>>

ItemAction(a, s) ==
    CASE a = "GoToTop" -> <<Msg("ScrollToItem", 0)>>
      [] a = "GoToBottom" ->
             IF s.waves /\ s.items > 1 THEN <<Msg("ScrollToItem", s.items - 1)>> ELSE <<>>
      [] a = "GroupNew" ->
             <<Msg("GroupNew", 0), Msg("ShowCommandPrompt", "item_rename ")>>
      [] a = "ItemFocus" -> <<Msg("ShowCommandPrompt", "item_focus ")>>
      [] a = "RenameItem" ->
             IF s.waves /\ s.focused THEN <<Msg("ShowCommandPrompt", "item_rename ")>> ELSE <<>>
      [] a = "MarkerAdd" ->
             IF s.waves /\ s.cursor /\ ~s.marked THEN <<Msg("AddMarker", 0)>> ELSE <<>>
      [] a \in {"SelectAll", "SelectToggle", "DeleteSelected", "DividerAdd"} -> <<Msg(a, 0)>>

SessionAction(a, s) ==
    CASE a \in {"OpenFile", "SwitchFile", "SaveStateFile", "ReloadWaveform"} -> <<Msg(a, 0)>>
      [] a \in {"Undo", "Redo"} -> <<Msg(a, s.count)>>
      [] a = "ToggleSidePanel" -> <<Msg("SetSidePanelVisible", ~s.side)>>
      [] a = "ToggleToolbar" -> <<Msg("SetToolbarVisible", ~s.toolbar)>>
      [] a = "ToggleMenu" -> <<Msg("SetMenuVisible", ~s.menu)>>
      [] a = "ShowCommandPrompt" -> <<Msg("ShowCommandPrompt", "")>>
      [] a = "GoToTime" -> <<Msg("SetRequestTextEditFocus", "toolbar-time")>>
      [] a = "FocusVariableNameFilter" -> <<Msg("SetRequestTextEditFocus", "variable-filter")>>

ViewActions == {"GoToEnd", "GoToStart", "ZoomIn", "ZoomOut", "ZoomToFit", "ScrollUp",
                "ScrollDown", "ZoomToCursor", "UiZoomIn", "UiZoomOut"}
ItemActions == {"GoToTop", "GoToBottom", "GroupNew", "ItemFocus", "RenameItem",
                "MarkerAdd", "SelectAll", "SelectToggle", "DeleteSelected", "DividerAdd"}

ExecuteAction(a, s) ==
    IF a = "none" THEN <<>>
    ELSE IF a \in ViewActions THEN ViewAction(a, s)
    ELSE IF a \in ItemActions THEN ItemAction(a, s)
    ELSE SessionAction(a, s)

Process(table, press, s) ==
    IF s.prompt \/ s.widget THEN <<>> ELSE ExecuteAction(Fired(table, press), s)

-----------------------------------------------------------------------------
(* The keys with a fixed meaning see the presses no shortcut consumed. *)

KeyToDigit == [Num0 |-> 0, Num1 |-> 1, Num2 |-> 2, Num3 |-> 3, Num4 |-> 4,
               Num5 |-> 5, Num6 |-> 6, Num7 |-> 7, Num8 |-> 8, Num9 |-> 9]

HandleDigit(d, mods) ==
    IF "Alt" \in mods THEN <<Msg("AddCount", d)>>
    ELSE IF "Command" \in mods THEN <<Msg("MoveMarkerToCursor", d)>>
    ELSE <<Msg("GoToMarkerPosition", d)>>

Vertical(dir, mods, s) ==
    << IF "Alt" \in mods THEN Msg("MoveFocus", <<dir, s.count, "Shift" \in mods>>)
       ELSE IF "Command" \in mods THEN Msg("MoveFocusedItem", <<dir, s.count>>)
       ELSE Msg("VerticalScroll", <<dir, s.count>>),
       Msg("InvalidateCount", 0) >>

Transition(next, mods) == <<Msg("MoveCursorToTransition", <<next, "Shift" \in mods>>)>>

Sideways(next, mods, s) ==
    IF s.arrows = "Edge" THEN Transition(next, mods) ELSE <<Msg("CanvasScroll", next)>>

PromptKey(press) ==
    CASE press.key = "Escape" -> <<Msg("HideCommandPrompt", 0)>>
      [] press.key = "G" /\ "Command" \in press.mods -> <<Msg("HideCommandPrompt", 0)>>
      [] press.key = "ArrowDown" \/ (press.key = "N" /\ "Command" \in press.mods) ->
             <<Msg("SelectNextCommand", 0)>>
      [] press.key = "ArrowUp" \/ (press.key = "P" /\ "Command" \in press.mods) ->
             <<Msg("SelectPrevCommand", 0)>>
      [] OTHER -> <<>>

FixedKey(press, s) ==
    CASE press.key \in DOMAIN KeyToDigit -> HandleDigit(KeyToDigit[press.key], press.mods)
      [] press.key = "Escape" -> <<Msg("InvalidateCount", 0), Msg("ItemSelectionClear", 0)>>
      [] press.key = "H" -> Transition(FALSE, press.mods)
      [] press.key = "L" -> Transition(TRUE, press.mods)
      [] press.key \in {"J", "ArrowDown"} -> Vertical("Down", press.mods, s)
      [] press.key \in {"K", "ArrowUp"} -> Vertical("Up", press.mods, s)
      [] press.key = "ArrowRight" -> Sideways(TRUE, press.mods, s)
      [] press.key = "ArrowLeft" -> Sideways(FALSE, press.mods, s)
      [] press.key = "F11" -> <<Msg("ToggleFullscreen", 0)>>
      [] OTHER -> <<>>

HandlePressedKey(table, press, s) ==
    IF s.widget
    THEN IF press.key = "Escape" THEN <<Msg("ClearAllTextEditFocuses", 0)>>
         ELSE IF press.key = "F11" /\ ~s.prompt THEN <<Msg("ToggleFullscreen", 0)>> ELSE <<>>
    ELSE IF s.prompt THEN PromptKey(press)
    ELSE IF Fired(table, press) # "none" THEN Process(table, press, s)
    ELSE FixedKey(press, s)

-----------------------------------------------------------------------------

Bindings(table) ==
    UNION {{<<table[i][1], table[i][2][k]>> : k \in DOMAIN table[i][2]} : i \in DOMAIN table}

(* "the more modifiers, the earlier the short cut must be checked"            *)
(* (modifier_priority): pressing exactly the keys of a binding runs the       *)
(* action they are bound to and no other, although a binding with fewer       *)
(* modifiers matches the press too.                                           *)
ExactBindingWins(table) ==
    \A ab \in Bindings(table) : Fired(table, ab[2]) = ab[1]

(* No binding takes a key that has a fixed meaning, with whatever modifiers it *)
(* is pressed: digits, arrows and the rest send what they always do.           *)
FixedKeysKeepMeaning(table) ==
    LET s == [prompt |-> FALSE, widget |-> FALSE, count |-> 1, arrows |-> "Scroll"]
        fixed == DOMAIN KeyToDigit \cup {"Escape", "H", "J", "K", "L", "F11", "ArrowUp",
                                        "ArrowDown", "ArrowLeft", "ArrowRight"}
    IN \A key \in fixed, mods \in SUBSET Modifiers :
          HandlePressedKey(table, On(mods, key), s) = FixedKey(On(mods, key), s)
=============================================================================
