------------------------------ MODULE Hierarchy ------------------------------
(* The side panel: scopes, variable lists, the variable filter and the button *)
(* that adds what is listed (hierarchy.rs, variable_filter.rs).               *)
(*                                                                            *)
(* A scope is the sequence of its names; a variable is [scope, name, dir].    *)
(* One Draw is one frame; the messages a frame sends are handled after it.    *)
EXTENDS Integers, Sequences, FiniteSets, SequencesExt

CONSTANTS
    Contents,       \* What the versions of the file hold: version -> set of variables.
    Order,          \* All variables in the order of numeric_sort on their names.
    Texts,          \* The texts of the filter; "" is empty and "(" no valid pattern.
    Priority,       \* variable -> the priority of the name a translator gives it, or 0.
    Hits(_, _),     \* Hits(text, word): the pattern matches a name, text not "".
    Styles,         \* The hierarchy styles: "Separate", "Tree", "Variables".
    MaxLoads        \* Bound on loads of the file.

VARIABLES
    version,        \* The content on disk.
    waves,          \* <<>> or <<[content, generation, scope]>>: the data loaded.
    translators,    \* translator_generation
    filter,         \* [text, type, dirs, grouped]
    regex,          \* The cache of the filter: [pattern, error]; <<>> for none.
    style,
    rows,           \* all_variable_rows_cache: <<>> or <<[key, rows]>>
    expand,         \* scope_ref_to_expand: <<>> or <<request>>
    open,           \* The scopes whose header is open.
    shut,           \* The scopes the user closed since the last request to expand,
                    \* without those closed while a request stays pending in the tree.
    listed,         \* The variables the last frame showed, as one list.
    added           \* The variables the last frame's button added, <<>> for none.
vars == <<version, waves, translators, filter, regex, style, rows, expand, open, shut,
          listed, added>>

Dirs == {"Input", "Output", "InOut", "Other"}
Types == {"Regex", "Contain"}
Loaded == waves # <<>>
Variables == waves[1].content
PrefixesOf(s) == {SubSeq(s, 1, n) : n \in 1..Len(s)}
Scopes == IF Loaded THEN UNION {PrefixesOf(v.scope) : v \in Variables} ELSE {}

(* Scopes that can be opened: in the tree all of them, their variables are in *)
(* them; next to the list of variables those with scopes in them.             *)
Headers ==
    {s \in Scopes : style = "Tree" \/ \E t \in Scopes : s \in PrefixesOf(t) \ {t}}

-----------------------------------------------------------------------------

IsValid(f) == f.type # "Regex" \/ f.text # "("

(* name_filter_fn: what the cache of the filter is after a use of it.  An     *)
(* empty text clears it only when the filter is a regular expression.         *)
(* Wrong: a pattern that compiles leaves the error of the one before it.      *)
Mut_NameFilterCache(f) ==
    IF f.text = "" THEN IF f.type = "Regex" THEN [pattern |-> <<>>, error |-> FALSE] ELSE regex
    ELSE [pattern |-> <<<<f.type, f.text>>>>, error |-> ~IsValid(f) \/ regex.error]

NameFilterCache(f) ==
    IF f.text = "" THEN IF f.type = "Regex" THEN [pattern |-> <<>>, error |-> FALSE] ELSE regex
    ELSE IF regex.pattern = <<<<f.type, f.text>>>> /\ ~regex.error THEN regex
    ELSE [pattern |-> <<<<f.type, f.text>>>>, error |-> ~IsValid(f)]

(* The closure of name_filter_fn, on a name or on a full path. *)
NameFilter(f, v, full_path) ==
    \/ f.text = ""
    \/ /\ IsValid(f)
       /\ \/ Hits(f.text, v.name)
          \/ full_path /\ \E i \in DOMAIN v.scope : Hits(f.text, v.scope[i])

KindFilter(f, v) == v.dir \in f.dirs
MatchingVariables(f, variables, full_path) ==
    {v \in variables : KindFilter(f, v) /\ NameFilter(f, v, full_path)}

(* variable_cmp: by direction first when the filter groups by it. *)
Rank(v) == CHOOSE i \in DOMAIN Order : Order[i] = v
DirRank == [d \in Dirs |-> CASE d = "Input" -> 1 [] d = "Output" -> 2
                             [] d = "InOut" -> 3 [] d = "Other" -> 4]
VariableLess(f, a, b) ==
    IF f.grouped /\ a.dir # b.dir THEN DirRank[a.dir] < DirRank[b.dir] ELSE Rank(a) < Rank(b)

(* The rows of a list: by the priority of the names first.                    *)
RowLess(f, a, b) ==
    \/ Priority[a] > Priority[b]
    \/ Priority[a] = Priority[b] /\ VariableLess(f, a, b)

(* The variables in order: the place of one is the number of those before it. *)
Sorted(Less(_, _), variables) ==
    [i \in 1..Cardinality(variables) |->
        CHOOSE v \in variables : Cardinality({w \in variables : Less(w, v)}) = i - 1]

(* What the button adds: filtered_variables.                                  *)
FilteredVariables(f, variables, full_path) ==
    Sorted(LAMBDA a, b : VariableLess(f, a, b), MatchingVariables(f, variables, full_path))

(* What a list shows: build_variable_rows on filtered_variables_unsorted.     *)
VariableRows(f, variables, full_path) ==
    Sorted(LAMBDA a, b : RowLess(f, a, b), MatchingVariables(f, variables, full_path))

VariablesInScope(scope) == {v \in Variables : v.scope = scope}
ActiveScope == waves[1].scope

-----------------------------------------------------------------------------

(* make_all_variable_cache_key: the source is always the one file. *)
AllVariableCacheKey == [generation |-> waves[1].generation,
                        translators |-> translators, filter |-> filter]

(* draw_all_variables *)
AllVariableRows ==
    IF rows # <<>> /\ rows[1].key = AllVariableCacheKey THEN rows
    ELSE <<[key |-> AllVariableCacheKey, rows |-> VariableRows(filter, Variables, TRUE)]>>

(* should_open_header_and_scroll_to, over all the scopes a frame draws.  The  *)
(* parent of the requested scope is the last header that is opened.           *)
Opened ==
    IF expand = <<>> THEN {}
    ELSE IF expand[1] = <<"all">> THEN Headers
    ELSE IF expand[1] = <<"none">> THEN {}
    ELSE LET prefixes == PrefixesOf(expand[1]) \cap Headers
         IN  IF Len(expand[1]) = 1 THEN prefixes ELSE prefixes \ {expand[1]}
Reached == /\ expand # <<>> /\ expand[1] \notin {<<"all">>, <<"none">>}
           /\ Len(expand[1]) > 1
           /\ SubSeq(expand[1], 1, Len(expand[1]) - 1) \in Scopes

(* Wrong: the view with two lists leaves the request for the next frame. *)
Mut_ExpandAfterFrame == IF style # "Variables" /\ Reached THEN <<>> ELSE expand

(* separate clears the request at its end, the tree only where it is reached, *)
(* the list of all variables never.                                           *)
ExpandAfterFrame ==
    IF style = "Separate" \/ (style = "Tree" /\ Reached) THEN <<>> ELSE expand

(* A request that the tree keeps opens the same headers in every frame.       *)
StaysPending == style = "Tree" /\ expand # <<>> /\ ~Reached

(* A frame of the panel, separate, tree or variable_list, in which the user   *)
(* clicks the headers of the scopes in clicked.                               *)
Frame(clicked) ==
    LET drawn == IF expand = <<<<"none">>>> THEN {} ELSE open \cup Opened
        closed == clicked \cap drawn
    IN
    /\ Loaded
    /\ IF style = "Variables"
       THEN /\ rows' = AllVariableRows
            /\ listed' = AllVariableRows[1].rows
            /\ regex' = IF AllVariableRows = rows THEN regex ELSE NameFilterCache(filter)
            /\ UNCHANGED <<open, shut>>
       ELSE /\ listed' = IF style = "Separate"
                         THEN VariableRows(filter, VariablesInScope(ActiveScope), FALSE)
                         ELSE <<>>
            /\ regex' = NameFilterCache(filter)
            /\ open' = (drawn \ closed) \cup (clicked \ drawn)
            /\ shut' = IF StaysPending THEN {} ELSE (shut \ clicked) \cup closed
            /\ UNCHANGED rows
    /\ expand' = ExpandAfterFrame
    /\ added' = <<>>
    /\ UNCHANGED <<version, waves, translators, filter, style>>
Draw == Frame({})
ToggleHeader == style # "Variables" /\ \E s \in Headers : Frame({s})

(* Wrong: the button matches the scopes as well. *)
Mut_AddFilteredVariables ==
    /\ Loaded /\ ActiveScope # <<>>
    /\ added' = FilteredVariables(filter, VariablesInScope(ActiveScope), TRUE)
    /\ UNCHANGED <<version, waves, translators, filter, regex, style, rows, expand, open,
                   shut, listed>>

(* add_filtered_variables and Message::AddVariables.  The button matches the  *)
(* name, also where the list of all variables matches the full path.          *)
AddFilteredVariables ==
    /\ Loaded
    /\ added' = IF style = "Variables" THEN FilteredVariables(filter, Variables, FALSE)
                ELSE IF ActiveScope = <<>> THEN <<>>
                ELSE FilteredVariables(filter, VariablesInScope(ActiveScope), FALSE)
    /\ UNCHANGED <<version, waves, translators, filter, regex, style, rows, expand, open,
                   shut, listed>>

(* A change of the filter.  The list is drawn after it, in the same frame. *)
SetFilter(f) ==
    /\ filter' = f
    /\ listed' = <<>> /\ added' = <<>>
    /\ UNCHANGED <<version, waves, translators, regex, style, rows, expand, open, shut>>
SetText == \E t \in Texts : SetFilter([filter EXCEPT !.text = t])
SetVariableNameFilterType == \E t \in Types : SetFilter([filter EXCEPT !.type = t])
SetVariableIOFilter ==
    \E d \in Dirs, b \in BOOLEAN :
        SetFilter([filter EXCEPT !.dirs = IF b THEN @ \cup {d} ELSE @ \ {d}])
SetVariableGroupByDirection == SetFilter([filter EXCEPT !.grouped = ~@])

SetHierarchyStyle ==
    /\ style' \in Styles
    /\ listed' = <<>> /\ added' = <<>>
    /\ UNCHANGED <<version, waves, translators, filter, regex, rows, expand, open, shut>>

(* The scope labels: a click selects the scope or selects none. *)
SetActiveScope ==
    /\ Loaded
    /\ \E s \in Scopes :
          waves' = <<[waves[1] EXCEPT !.scope = IF @ = s THEN <<>> ELSE s]>>
    /\ listed' = <<>> /\ added' = <<>>
    /\ UNCHANGED <<version, translators, filter, regex, style, rows, expand, open, shut>>

(* Message::ExpandScope, from the buttons of the separate view or from the    *)
(* menu of a displayed variable, which also selects its scope.                *)
ExpandScope ==
    /\ Loaded
    /\ \E s \in Scopes \cup (IF style = "Separate" THEN {<<"all">>, <<"none">>} ELSE {}) :
          /\ expand' = <<s>>
          /\ waves' = IF s \in Scopes THEN <<[waves[1] EXCEPT !.scope = s]>> ELSE waves
    /\ shut' = {}
    /\ listed' = <<>> /\ added' = <<>>
    /\ UNCHANGED <<version, translators, filter, regex, style, rows, open>>

(* on_waves_loaded: a reload and a load that keeps the items count the        *)
(* generation on, a load that replaces them starts it again.                  *)
Load(keep) ==
    /\ waves' = <<[content |-> Contents[version],
                   generation |-> IF keep THEN waves[1].generation + 1 ELSE 0,
                   scope |-> IF keep THEN waves[1].scope ELSE <<>>]>>
    /\ listed' = <<>> /\ added' = <<>>
    /\ UNCHANGED <<version, filter, regex, style, rows, expand, open, shut>>
Bounded == IF Loaded THEN waves[1].generation + translators < MaxLoads ELSE TRUE
OpenFile == Bounded /\ Load(FALSE) /\ UNCHANGED translators
ReloadWaveform == Loaded /\ Bounded /\ Load(TRUE) /\ translators' = translators + 1

FileChanges ==
    /\ version' \in DOMAIN Contents
    /\ UNCHANGED <<waves, translators, filter, regex, style, rows, expand, open, shut,
                   listed, added>>

Init ==
    /\ version = 1 /\ waves = <<>> /\ translators = 0
    /\ filter = [text |-> "", type |-> "Contain", dirs |-> Dirs, grouped |-> FALSE]
    /\ regex = [pattern |-> <<>>, error |-> FALSE]
    /\ style = "Separate" /\ rows = <<>> /\ expand = <<>>
    /\ open = {} /\ shut = {} /\ listed = <<>> /\ added = <<>>

Next ==
    \/ Draw \/ AddFilteredVariables
    \/ SetText \/ SetVariableNameFilterType \/ SetVariableIOFilter
    \/ SetVariableGroupByDirection \/ SetHierarchyStyle \/ SetActiveScope
    \/ ExpandScope \/ ToggleHeader \/ OpenFile \/ ReloadWaveform \/ FileChanges

Spec == Init /\ [][Next]_vars

-----------------------------------------------------------------------------

(* A header that the user closes stays closed until something asks again for  *)
(* a scope to be expanded: the request is dropped with the frame that serves  *)
(* it.  The tree never drops a request for a root scope or for all scopes and *)
(* opens them again in every frame; what is closed while it does does not     *)
(* count, what is closed before or after does.                                *)
ClosedStaysClosed == shut \cap open = {}

(* A filter text is marked as wrong exactly when it is a regular expression   *)
(* that is, once a frame has used it: the cache of the last pattern never     *)
(* speaks for another.                                                        *)
MarkedWhenInvalid ==
    [][Draw /\ filter.type = "Regex" /\ style # "Variables"
          => regex'.error = ~IsValid(filter)]_vars

(* The button adds what the list of the selected scope shows, and keeps the   *)
(* order of names of one priority.                                            *)
ButtonPressed == AddFilteredVariables /\ style = "Separate" /\ listed # <<>> /\ ActiveScope # <<>>
Before(list, v, w) == \E i, j \in DOMAIN list : i < j /\ list[i] = v /\ list[j] = w
AddsWhatIsListed ==
    [][ButtonPressed =>
          /\ ToSet(added') = ToSet(listed)
          /\ \A v, w \in ToSet(listed) :
                Priority[v] = Priority[w] /\ Before(listed, v, w) => Before(added', v, w)]_vars

(* "Iterate over the reversed list to get waves in the same order as the      *)
(* variable list" (variable_filter.rs:345-347).  This does not hold: only the *)
(* list looks at the priorities.                                              *)
AddsInListOrder == [][ButtonPressed => added' = listed]_vars

(* The list of all variables shows those of the waveform that is loaded. *)
RowsAreCurrent ==
    [][Draw /\ style = "Variables"
          => listed' = VariableRows(filter, Variables, TRUE)]_vars

==============================================================================
