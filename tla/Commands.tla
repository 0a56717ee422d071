------------------------------ MODULE Commands ------------------------------
(* The command language of the prompt and of command files: the tree of       *)
(* commands (command_parser.rs), parsing and fuzzy expansion of a query       *)
(* (fzcmd.rs) and the reading of command files (batch_commands.rs).           *)
(*                                                                            *)
(* A query is a sequence of words and whether it ends in a blank.  A          *)
(* parameter is the sequence of the words it takes.  A node of the command    *)
(* tree is found by the parameters that lead to it.  A session s is what the  *)
(* parser reads from the application: [waves, transactions, active, scopes,   *)
(* variables, inScope, arrays, items, markers, viewports, viewport, files,    *)
(* scripts, remote, wcp, menu, side, ticks, groups, formats, colors, heights, *)
(* themes, state, keep].                                                      *)
EXTENDS Integers, Sequences, FiniteSets, SequencesExt

CONSTANTS
    Score(_, _),    \* the fuzzy matcher's score of an option for a text
    Length(_),      \* the number of characters of an option
    Numbers,        \* number words and the numbers they stand for
    Units,          \* the words that are time units
    Special         \* words with leading punctuation, and what follows it

None == [kind |-> "None"]
Terminal(msg, arg) == [kind |-> "Terminal", msg |-> msg, arg |-> arg]
NonTerminal(greed, options) ==
    [kind |-> "NonTerminal", greed |-> greed, options |-> options]

Words(list) == [i \in DOMAIN list |-> <<list[i]>>]

Choose(enabled, node) == IF enabled THEN node ELSE None

Flag(b) == IF b THEN "true" ELSE "false"

(* What holds of every session the parser gathers from the application: the   *)
(* parts of a waveform are missing without one.                               *)
IsGathered(s) ==
    /\ ~s.waves =>
         /\ {s.scopes, s.variables, s.arrays, s.items, s.markers, s.viewports,
             s.inScope, s.active} = {<<>>}
         /\ ~s.transactions
         /\ s.viewport = "0"
    /\ s.active = <<>> => s.inScope = <<>>
    /\ Len(s.active) <= 1
    /\ s.themes[1] = "default"
    /\ \A i \in DOMAIN s.markers : s.markers[i].idx \in DOMAIN Numbers

-----------------------------------------------------------------------------

(* Commands without a parameter, and the messages they send. *)
Simple(s) == [
    create_default_config |-> <<"DownloadDefaultConfig">>,
    config_reload |-> <<"ReloadConfig">>,
    scroll_to_start |-> <<"GoToStart", s.viewport>>,
    goto_start |-> <<"GoToStart", s.viewport>>,
    scroll_to_end |-> <<"GoToEnd", s.viewport>>,
    goto_end |-> <<"GoToEnd", s.viewport>>,
    zoom_in |-> <<"CanvasZoom", "0.5", s.viewport>>,
    zoom_out |-> <<"CanvasZoom", "2.0", s.viewport>>,
    zoom_fit |-> <<"ZoomToFit", s.viewport>>,
    toggle_menu |-> <<"SetMenuVisible", Flag(~s.menu)>>,
    toggle_side_panel |-> <<"SetSidePanelVisible", Flag(~s.side)>>,
    toggle_fullscreen |-> <<"ToggleFullscreen">>,
    toggle_tick_lines |-> <<"SetTickLines", Flag(~s.ticks)>>,
    scope_select_root |-> <<"SetActiveScope">>,
    stream_select_root |-> <<"SetActiveScope">>,
    reload |-> <<"ReloadWaveform", Flag(s.keep)>>,
    remove_unavailable |-> <<"RemovePlaceholders">>,
    item_unset_color |-> <<"ItemColorChange">>,
    item_unset_background_color |-> <<"ItemBackgroundColorChange">>,
    transaction_next |-> <<"MoveTransaction", "true">>,
    transaction_prev |-> <<"MoveTransaction", "false">>,
    item_unfocus |-> <<"UnfocusItem">>,
    timeline_add |-> <<"AddTimeLine">>,
    goto_cursor |-> <<"GoToCursorIfNotInView">>,
    dump_tree |-> <<"DumpTree">>,
    group_dissolve |-> <<"GroupDissolve">>,
    group_fold_recursive |-> <<"GroupFoldRecursive">>,
    group_unfold_recursive |-> <<"GroupUnfoldRecursive">>,
    group_fold_all |-> <<"GroupFoldAll">>,
    group_unfold_all |-> <<"GroupUnfoldAll">>,
    show_controls |-> <<"SetKeyHelpVisible", "true">>,
    show_mouse_gestures |-> <<"SetGestureHelpVisible", "true">>,
    show_quick_start |-> <<"SetQuickStartVisible", "true">>,
    show_marker_window |-> <<"SetCursorWindowVisible", "true">>,
    show_logs |-> <<"SetLogsVisible", "true">>,
    save_state |-> <<"SaveStateFile">> \o s.state,
    viewport_add |-> <<"AddViewport">>,
    viewport_remove |-> <<"RemoveViewport">>,
    pause_simulation |-> <<"PauseSimulation">>,
    unpause_simulation |-> <<"UnpauseSimulation">>,
    undo |-> <<"Undo", "1">>,
    redo |-> <<"Redo", "1">>,
    wcp_server_start |-> <<"StartWcpServer">>,
    wcp_server_stop |-> <<"StopWcpServer">>,
    exit |-> <<"Exit">>]

NameTypes == <<"Local", "Unique", "Global">>

(* Commands whose one parameter, the rest of the line, becomes the argument   *)
(* of the message as it is: the message and the suggestions.                  *)
OneWord(s) == [
    load_file |-> <<<<"LoadFile", "Clear">>, s.files>>,
    switch_file |-> <<<<"LoadFile", "KeepAll">>, s.files>>,
    load_url |-> <<<<"LoadWaveformFileFromUrl", "Clear">>, <<>>>>,
    run_command_file |-> <<<<"LoadCommandFile">>, s.scripts>>,
    run_command_file_from_url |-> <<<<"LoadCommandFileFromUrl">>, <<>>>>,
    theme_select |-> <<<<"SelectTheme">>, s.themes>>,
    surver_select_file |-> <<<<"LoadSurverFileByName", "Clear">>, s.remote>>,
    surver_switch_file |-> <<<<"LoadSurverFileByName", "KeepAll">>, s.remote>>,
    item_set_color |-> <<<<"ItemColorChange">>, s.colors>>,
    item_set_background_color |-> <<<<"ItemBackgroundColorChange">>, s.colors>>,
    item_set_format |-> <<<<"VariableFormatChange">>, s.formats>>,
    item_rename |-> <<<<"ItemNameChange">>, <<>>>>,
    frame_buffer_set_array |-> <<<<"SetFrameBufferArray">>, s.arrays>>,
    frame_buffer_set_variable |-> <<<<"SetFrameBufferVariable">>, s.variables>>,
    memory_viewer_open |-> <<<<"OpenMemoryViewer">>, s.arrays>>,
    save_state_as |-> <<<<"SaveStateFile">>, <<>>>>,
    load_state |-> <<<<"LoadStateFile">>, <<>>>>]

(* Commands whose parameter is a name of a list; any other word stands for    *)
(* the default.                                                               *)
WithDefault == [
    variable_set_name_type |->
        <<"ChangeVariableNameType", NameTypes, "Local">>,
    variable_force_name_type |->
        <<"ForceVariableNameTypes", NameTypes, "Local">>,
    preference_set_clock_highlight |->
        <<"SetClockHighlightType", <<"Line", "Cycle", "None">>, "Line">>,
    preference_set_hierarchy_style |->
        <<"SetHierarchyStyle", <<"Separate", "Tree", "Variables">>, "Separate">>,
    preference_set_arrow_key_bindings |->
        <<"SetArrowKeyBindings", <<"Edge", "Scroll">>, "Edge">>]

(* Commands about a displayed item, named by its place in the list. *)
OfItem == [
    item_focus |-> <<"FocusItem">>,
    transition_next |-> <<"MoveCursorToTransition", "true">>,
    transition_previous |-> <<"MoveCursorToTransition", "false">>,
    copy_value |-> <<"VariableValueToClipbord">>]

(* The commands the prompt suggests. *)
Offered(s) ==
    (IF s.waves THEN <<
        "load_file", "load_url", "load_state", "run_command_file",
        "run_command_file_from_url", "switch_file", "variable_add",
        "generator_add", "item_focus", "item_set_color",
        "item_set_background_color", "item_set_format", "item_set_height",
        "item_set_analog", "item_unset_color", "item_unset_background_color",
        "item_unfocus", "item_rename", "zoom_fit", "scope_add",
        "create_default_config", "scope_add_recursive", "scope_add_as_group",
        "scope_add_as_group_recursive", "scope_select", "scope_select_root",
        "stream_add", "stream_select", "stream_select_root", "divider_add",
        "config_reload", "theme_select", "reload", "remove_unavailable",
        "show_controls", "show_mouse_gestures", "show_quick_start",
        "show_logs", "scroll_to_start", "scroll_to_end", "goto_start",
        "goto_end", "zoom_in", "zoom_out", "zoom_to", "toggle_menu",
        "toggle_side_panel", "toggle_fullscreen", "toggle_tick_lines",
        "toolbar_set_visible", "toolbar_set_row", "variable_add_from_scope",
        "generator_add_from_stream", "variable_set_name_type",
        "variable_force_name_type", "preference_set_clock_highlight",
        "preference_set_hierarchy_style", "preference_set_arrow_key_bindings",
        "goto_cursor", "goto_marker", "dump_tree", "decoder_add",
        "group_marked", "group_dissolve", "group_fold_recursive",
        "group_unfold_recursive", "group_fold_all", "group_unfold_all",
        "save_state", "save_state_as", "timeline_add", "cursor_set",
        "goto_time", "marker_set", "marker_set_at", "marker_remove",
        "show_marker_window", "viewport_add", "viewport_remove",
        "viewport_set_active", "transition_next", "transition_previous",
        "transaction_next", "transaction_prev", "copy_value",
        "frame_buffer_set_array", "frame_buffer_set_variable",
        "frame_buffer_set_mode", "frame_buffer_set_width",
        "frame_buffer_set_range", "memory_viewer_open", "pause_simulation",
        "unpause_simulation", "undo", "redo",
        IF s.wcp THEN "wcp_server_stop" ELSE "wcp_server_start", "exit">>
     ELSE <<
        "load_file", "load_url", "load_state", "run_command_file",
        "run_command_file_from_url", "config_reload", "theme_select",
        "toggle_menu", "toggle_side_panel", "toggle_fullscreen",
        "toolbar_set_visible", "toolbar_set_row",
        "preference_set_clock_highlight", "preference_set_hierarchy_style",
        "preference_set_arrow_key_bindings", "show_controls",
        "show_mouse_gestures", "show_quick_start", "show_logs",
        "create_default_config",
        IF s.wcp THEN "wcp_server_stop" ELSE "wcp_server_start", "exit">>)
    \o (IF s.remote # <<>> THEN <<"surver_select_file", "surver_switch_file">>
        ELSE <<>>)

-----------------------------------------------------------------------------

Number(w) == IF w \in DOMAIN Numbers THEN <<Numbers[w]>> ELSE <<>>
InRange(n, low, high) == n # <<>> /\ n[1] >= low /\ n[1] <= high
IsByte(w) == InRange(Number(w), 0, 255)

(* parse_time_string_to_ticks, or the plain number when there is no waveform: *)
(* the parts are a number, and a unit written apart from it.                  *)
IsTime(s, parts) ==
    /\ parts # <<>>
    /\ Number(parts[1]) # <<>>
    /\ s.waves => Number(parts[1])[1] >= 0
    /\ \/ Len(parts) = 1
       \/ Len(parts) = 2 /\ s.waves /\ parts[2] \in Units

StartsTime(w) == w \in DOMAIN Numbers
StartsWithDigit(w) == w \in DOMAIN Numbers /\ Numbers[w] >= 0

(* The first two times of a zoom_to: a word that does not start with a digit  *)
(* is taken for the unit of the number before it.                             *)
TwoTimes[ws \in Seq(STRING)] ==
    IF ws = <<>> THEN <<>>
    ELSE IF ~StartsTime(ws[1]) THEN TwoTimes[Tail(ws)]
    ELSE IF Len(ws) > 1 /\ ~StartsWithDigit(ws[2])
         THEN <<SubSeq(ws, 1, 2)>> \o TwoTimes[SubSeq(ws, 3, Len(ws))]
    ELSE <<SubSeq(ws, 1, 1)>> \o TwoTimes[Tail(ws)]

ZoomTo(s, ws) ==
    LET times == TwoTimes[ws] IN
    Choose(/\ Len(ws) >= 2
           /\ Len(times) >= 2
           /\ IsTime(s, times[1])
           /\ IsTime(s, times[2]),
           Terminal("ZoomToRange", times[1] \o times[2] \o <<s.viewport>>))

ParseMarker(s, ws) ==
    IF Len(ws) = 1 /\ ws[1] \in DOMAIN Special /\ Special[ws[1]][1] = "#"
    THEN IF IsByte(Special[ws[1]][2]) THEN <<Special[ws[1]][2]>> ELSE <<>>
    ELSE LET named == SelectSeq(s.markers, LAMBDA m : m.name = ws)
         IN  IF ws # <<>> /\ named # <<>> THEN <<named[1].idx>> ELSE <<>>

MarkerSuggestions(s) ==
    FlattenSeq([i \in DOMAIN s.markers |->
        (IF s.markers[i].name = <<>> THEN <<>> ELSE <<s.markers[i].name>>)
        \o <<<<s.markers[i].hash>>>>])

(* marker_set_at: the time may be two words, a number and its unit. *)
MarkerSetAt(s, ws) ==
    LET two == Len(ws) >= 3 /\ s.waves /\ IsTime(s, SubSeq(ws, 1, 2))
        n == IF two THEN 2 ELSE 1
        time == SubSeq(ws, 1, n)
        marker == SubSeq(ws, n + 1, Len(ws))
        id == ParseMarker(s, marker)
    IN  Choose(Len(ws) >= 2 /\ IsTime(s, time),
               IF id # <<>> THEN Terminal("SetMarker", id \o time)
               ELSE Terminal("AddMarker", time \o marker))

FrameBufferMode(mode, ws) ==
    IF mode = "grayscale"
    THEN Choose(Len(ws) = 1 /\ InRange(Number(ws[1]), 1, 8),
                Terminal("SetFrameBufferMode", <<mode, ws[1], "0", "0">>))
    ELSE Choose(/\ Len(ws) = 3
                /\ \A i \in 1..3 : InRange(Number(ws[i]), 0, 8),
                Terminal("SetFrameBufferMode", <<mode>> \o ws))

-----------------------------------------------------------------------------

AddScopeCommands == {"scope_add", "module_add", "stream_add", "scope_add_recursive"}
AddGroupCommands == {"scope_add_as_group", "scope_add_as_group_recursive"}
SelectCommands == {"scope_select", "stream_select"}
AddCommands == {"variable_add", "generator_add"}
FromScopeCommands == {"variable_add_from_scope", "generator_add_from_stream"}
ToolbarCommands == {"toolbar_set_visible", "toolbar_set_row"}
OptionalCommands == {"divider_add", "group_marked"}
FreeCommands == {"zoom_to", "cursor_set", "goto_time", "marker_set_at",
                 "frame_buffer_set_width", "frame_buffer_set_range"}
Protocols == <<"SPI", "I2C", "UART">>
Modes == <<"grayscale", "rgb", "ycbcr">>

(* What follows the name of a command. *)
AfterCommand(s, c) ==
    CASE c \in DOMAIN Simple(s) ->
            Terminal(Simple(s)[c][1], Tail(Simple(s)[c]))
      [] c \in DOMAIN OneWord(s) ->
            NonTerminal("Rest", Words(OneWord(s)[c][2]))
      [] c \in DOMAIN WithDefault ->
            NonTerminal("Rest", Words(WithDefault[c][2]))
      [] c \in DOMAIN OfItem -> NonTerminal("Rest", Words(s.items))
      [] c \in AddScopeCommands \cup SelectCommands ->
            NonTerminal("Rest", Words(s.scopes))
      [] c \in AddGroupCommands ->
            Choose(~s.transactions, NonTerminal("Rest", Words(s.scopes)))
      [] c \in AddCommands -> NonTerminal("Rest", Words(s.variables))
      [] c \in FromScopeCommands -> NonTerminal("Rest", Words(s.inScope))
      [] c \in ToolbarCommands -> NonTerminal("Word", Words(s.groups))
      [] c \in OptionalCommands -> NonTerminal("OptionalWord", <<>>)
      [] c \in FreeCommands -> NonTerminal("Rest", <<>>)
      [] c = "item_set_height" -> NonTerminal("Rest", Words(s.heights))
      [] c = "item_set_analog" ->
            NonTerminal("Rest", Words(<<"off", "step", "interpolated">>))
      [] c \in {"goto_marker", "marker_remove"} ->
            NonTerminal("Rest", MarkerSuggestions(s))
      [] c = "frame_buffer_set_mode" -> NonTerminal("Word", Words(Modes))
      [] c = "decoder_add" -> NonTerminal("Word", Words(Protocols))
      [] c = "marker_set" -> NonTerminal("AtSpace", <<>>)
      [] c = "viewport_set_active" -> NonTerminal("Rest", Words(s.viewports))
      [] OTHER -> None

(* Commands whose parameter is a number, a time or one of a few words. *)
AfterValue(s, c, p) ==
    LET word == IF Len(p) = 1 THEN p[1] ELSE "" IN
    CASE c = "divider_add" -> Terminal("AddDivider", p)
      [] c = "group_marked" ->
            Terminal("GroupNew", IF p = <<" ">> THEN <<>> ELSE p)
      [] c = "zoom_to" -> ZoomTo(s, p)
      [] c = "cursor_set" ->
            Choose(IsTime(s, p), Terminal("CursorSet, GoToCursorIfNotInView", p))
      [] c = "goto_time" -> Choose(IsTime(s, p), Terminal("GoToTime", p))
      [] c = "marker_set_at" -> MarkerSetAt(s, p)
      [] c = "frame_buffer_set_width" ->
            Choose(InRange(Number(word), 0, 1000),
                   Terminal("SetFrameBufferWidth",
                            <<IF word = "0" THEN "1" ELSE word>>))
      [] c = "frame_buffer_set_range" ->
            Choose(/\ p # <<>> /\ Len(p) % 2 = 0
                   /\ \A i \in DOMAIN p : Number(p[i]) # <<>>,
                   Terminal("SetFrameBufferRange", p))
      [] c = "item_set_height" ->
            Choose(Number(word) # <<>>,
                   Terminal("ItemHeightScalingFactorChange", p))
      [] c = "item_set_analog" ->
            Choose(word \in {"off", "step", "interpolated"},
                   Terminal("SetAnalogSettings",
                            IF word = "off" THEN <<>> ELSE p))
      [] c = "goto_marker" ->
            Choose(ParseMarker(s, p) # <<>>,
                   Terminal("GoToMarkerPosition", ParseMarker(s, p)))
      [] c = "marker_remove" -> Terminal("ResolveMarkerRemove", p)
      [] c = "frame_buffer_set_mode" ->
            Choose(word \in ToSet(Modes), NonTerminal("Rest", <<>>))
      [] c = "decoder_add" ->
            Choose(word \in ToSet(Protocols), Terminal("DecoderAdd", p))
      [] c = "marker_set" -> NonTerminal("Word", <<>>)
      [] c = "viewport_set_active" ->
            Choose(InRange(Number(word), 0, 1000),
                   Terminal("SetActiveViewport", p))
      [] OTHER -> None

(* What follows the first parameter of a command. *)
AfterParameter(s, c, p) ==
    LET word == IF Len(p) = 1 THEN p[1] ELSE "" IN
    CASE c \in DOMAIN OneWord(s) ->
            Terminal(OneWord(s)[c][1][1], Tail(OneWord(s)[c][1]) \o p)
      [] c \in DOMAIN WithDefault ->
            Terminal(WithDefault[c][1],
                     <<IF word \in ToSet(WithDefault[c][2]) THEN word
                       ELSE WithDefault[c][3]>>)
      [] c \in DOMAIN OfItem ->
            Choose(p # <<>> /\ p[1] \in ToSet(s.items),
                   Terminal(OfItem[c][1], Tail(OfItem[c]) \o <<p[1]>>))
      [] c \in AddScopeCommands ->
            IF s.transactions THEN Terminal("AddAllFromStreamScope", p)
            ELSE Terminal("AddScope", p \o <<Flag(c = "scope_add_recursive")>>)
      [] c \in AddGroupCommands ->
            Terminal("AddScopeAsGroup",
                     p \o <<Flag(c = "scope_add_as_group_recursive")>>)
      [] c \in SelectCommands ->
            Terminal("SetActiveScope",
                     IF ~s.transactions THEN p
                     ELSE IF p = <<"tr">> THEN <<"root stream">>
                     ELSE <<"stream">> \o p)
      [] c \in AddCommands ->
            Terminal(IF s.transactions THEN "AddStreamOrGeneratorFromName"
                     ELSE "AddVariables", p)
      [] c \in FromScopeCommands ->
            Choose(s.active # <<>>,
                   Terminal(IF s.transactions
                            THEN "AddStreamOrGeneratorFromName"
                            ELSE "AddVariables", s.active \o p))
      [] c \in ToolbarCommands ->
            Choose(word \in ToSet(s.groups),
                   NonTerminal("Word", IF c = "toolbar_set_visible"
                                       THEN Words(<<"true", "false">>)
                                       ELSE <<>>))
      [] OTHER -> AfterValue(s, c, p)

AfterSecond(c, p, q) ==
    CASE c = "toolbar_set_visible" ->
            Choose(q \in {<<"true">>, <<"false">>},
                   Terminal("SetToolbarGroupEnabled", p \o q))
      [] c = "toolbar_set_row" ->
            Choose(IsByte(q[1]), Terminal("SetToolbarGroupRow", p \o q))
      [] c = "frame_buffer_set_mode" -> FrameBufferMode(p[1], q)
      [] c = "marker_set" ->
            Choose(Number(q[1]) # <<>>, Terminal("ResolveMarkerSet", p \o q))
      [] OTHER -> None

(* The node the parameters so far lead to. *)
Node(s) ==
  [params \in Seq(Seq(STRING)) |->
    CASE Len(params) = 0 -> NonTerminal("Word", Words(Offered(s)))
      [] Len(params) = 1 -> AfterCommand(s, params[1][1])
      [] Len(params) = 2 -> AfterParameter(s, params[1][1], params[2])
      [] OTHER -> AfterSecond(params[1][1], params[2], params[3])]

-----------------------------------------------------------------------------

Queries == [words : Seq(STRING), blank : BOOLEAN]
Query(words, blank) == [words |-> words, blank |-> blank]

(* The text a parameter takes from the words of a query.  The first word of   *)
(* "Word" starts at a letter or a digit; a blank is a valid optional word.    *)
Section(greed, words) ==
    IF greed = "Rest" THEN words
    ELSE IF words = <<>> THEN IF greed = "OptionalWord" THEN <<" ">> ELSE <<>>
    ELSE IF greed # "AtSpace" /\ words[1] \in DOMAIN Special
         THEN <<Special[words[1]][2]>>
    ELSE <<words[1]>>

Remaining(greed, words) ==
    IF greed = "Rest" \/ words = <<>> THEN <<>> ELSE Tail(words)

Error(what) == [kind |-> what]

RECURSIVE ParseFrom(_, _, _)
ParseFrom(s, params, words) ==
    LET node == Node(s)[params]
        section == Section(node.greed, words)
    IN  CASE node.kind = "None" -> Error("InvalidParameter")
          [] node.kind = "Terminal" ->
                IF words = <<>> THEN node ELSE Error("ExtraParameters")
          [] OTHER ->
                IF section = <<>> THEN Error("MissingParameters")
                ELSE ParseFrom(s, Append(params, section),
                               Remaining(node.greed, words))

ParseCommand(s, words) == ParseFrom(s, <<>>, words)

(* The options, best match first; among equals the shorter and then the       *)
(* earlier one.  An option that does not match has the score zero.            *)
Better(text, x, y) ==
    \/ Score(x[1], text) > Score(y[1], text)
    \/ /\ Score(x[1], text) = Score(y[1], text)
       /\ \/ Length(x[1]) < Length(y[1])
          \/ Length(x[1]) = Length(y[1]) /\ x[2] < y[2]

Mut_FuzzyMatch(options, text) ==
    LET indexed == [i \in DOMAIN options |-> <<options[i], i>>]
        sorted == SortSeq(indexed,
                          LAMBDA x, y : \/ Score(x[1], text) > Score(y[1], text)
                                        \/ /\ Score(x[1], text) = Score(y[1], text)
                                           /\ x[2] > y[2])
    IN  [i \in DOMAIN sorted |-> sorted[i][1]]

FuzzyMatch(options, text) ==
    LET indexed == [i \in DOMAIN options |-> <<options[i], i>>]
        sorted == SortSeq(indexed, LAMBDA x, y : Better(text, x, y))
    IN  [i \in DOMAIN options |-> sorted[i][1]]

Output(expanded, blank, options, error) ==
    [expanded |-> Query(expanded, blank), options |-> options, error |-> error]

Best(matches, section) == IF matches # <<>> THEN matches[1] ELSE section

Rest(greed, query) ==
    Query(Remaining(greed, query.words),
          query.words # <<>> /\ greed # "Rest" /\ query.blank)

(* A section is replaced by its best match: what follows it is a command, a   *)
(* further parameter or nothing that exists.                                  *)
Replaced(expanded, full, rest, matches, after, further) ==
    LET open == rest.words # <<>> \/ rest.blank
    IN  CASE after.kind = "None" ->
                Output(expanded, expanded # <<>>, <<>>, "MalformedCommand")
          [] \/ after.kind = "Terminal"
             \/ after.kind = "NonTerminal" /\ further.error = "NoMoreInput" ->
                Output(full, open, matches, "")
          [] OTHER -> further

Replace(s, fuzz, params, expanded, rest, matches, best) ==
    Replaced(expanded, expanded \o best, rest, matches,
             IF best = <<>> THEN None ELSE Node(s)[Append(params, best)],
             fuzz[Append(params, best), expanded \o best, rest])

ReplaceSection(s, fuzz, params, expanded, rest, matches, section) ==
    Replace(s, fuzz, params, expanded, rest, matches, Best(matches, section))

(* handle_non_terminal_fuzz: replaces each section by its best match.         *)
FuzzNode(s, fuzz, params, expanded, query, node) ==
    LET section == Section(node.greed, query.words)
        leading == node.greed # "Rest" /\ query.words = <<>> /\ query.blank
    IN  IF section # <<>> \/ leading
        THEN ReplaceSection(s, fuzz, params, expanded, Rest(node.greed, query),
                            FuzzyMatch(node.options, section), section)
        ELSE Output(expanded, query.blank, node.options,
                    IF query.blank THEN "" ELSE "NoMoreInput")

Fuzz(s) ==
    LET fuzz[params \in Seq(Seq(STRING)), expanded \in Seq(STRING), query \in Queries] ==
            FuzzNode(s, fuzz, params, expanded, query, Node(s)[params])
    IN  fuzz

(* expand_command: without any input, what there is to choose from. *)
Expand(s, query) ==
    [Fuzz(s)[<<>>, <<>>, query] EXCEPT !.error = IF @ = "NoMoreInput" THEN "" ELSE @]

-----------------------------------------------------------------------------

(* parse_batch_commands: files maps the name of a command file to its         *)
(* commands.  All commands are parsed before the first one runs, and a        *)
(* command file named in a command is read while its parent is being parsed.  *)
IsInclude(words) == Len(words) = 2 /\ words[1] = "run_command_file"

RECURSIVE BatchQueue(_, _, _)
BatchQueue(s, files, commands) ==
    LET included(words) == BatchQueue(s, files, files[words[2]])
        first == [i \in DOMAIN commands |->
                    IF IsInclude(commands[i]) THEN included(commands[i]) ELSE <<>>]
        own == [i \in DOMAIN commands |->
                    IF IsInclude(commands[i]) THEN Error("Include")
                    ELSE ParseCommand(s, commands[i])]
    IN  FlattenSeq(first)
        \o SelectSeq(own, LAMBDA r : r.kind = "Terminal")

-----------------------------------------------------------------------------

(* A command the prompt offers, alone and with each parameter it suggests. *)
Typed(s, c) ==
    LET node == AfterCommand(s, c)
    IN  {[words |-> <<c>>, node |-> node]}
        \cup (IF node.kind # "NonTerminal" THEN {}
              ELSE {[words |-> <<c>> \o node.options[i],
                     node |-> AfterParameter(s, c, node.options[i])] :
                       i \in DOMAIN node.options})

(* Every command the prompt offers, with every parameter it suggests, runs    *)
(* as what it says: typing it in full expands to itself and not to a longer   *)
(* command or another parameter that contains it (fuzzy_match).               *)
OfferedCommandRuns(s, c) ==
    \A typed \in Typed(s, c) :
        /\ typed.node.kind # "None"
        /\ typed.node.kind = "Terminal" =>
             \A out \in {Expand(s, Query(typed.words, FALSE))} :
                 ParseCommand(s, out.expanded.words) = typed.node

(* The commands of a command file with the files it includes put in place. *)
RECURSIVE Inlined(_, _)
Inlined(files, commands) ==
    FlattenSeq([i \in DOMAIN commands |->
        IF IsInclude(commands[i]) THEN Inlined(files, files[commands[i][2]])
        ELSE <<commands[i]>>])

(* The commands of an included file run in the place of the command that      *)
(* includes it, as the comment in parse_batch_commands says.                  *)
IncludedInPlace(s, files, commands) ==
    BatchQueue(s, files, commands) = BatchQueue(s, files, Inlined(files, commands))
=============================================================================
