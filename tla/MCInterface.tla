---------------------------- MODULE MCInterface ----------------------------
(***************************************************************************)
(* The parts of the user interface, each by itself: the view, annotations, *)
(* gestures and the hierarchy panel (Interface), the toolbar, the command  *)
(* prompt, the time field, the memory and frame buffer viewers, and the    *)
(* attributes of displayed items.  A behaviour is a behaviour of one part, *)
(* with at most Steps[part] steps where the part has many states.          *)
(***************************************************************************)
EXTENDS Interface, Integers, Sequences, FiniteSets

CONSTANTS Parts,     \* the parts explored
          Steps(_)   \* bound: the steps of a part

VARIABLES part, steps,
  toolbarRows, hidden, session, dragging, target,
  visible, promptText, suggestions, selected, newSelection, previous, ran,
  timeText, parsed, inputUnit, normalizedUnit, selectedUnit, sent,
  viewed, cursor, marker, memory, memoryCache, content, settings, arrayCache, pixelCache,
  inner, rows, focused_item, undo_stack, redo_stack, stateFile

toolbarVars == <<toolbarRows, hidden, session, dragging, target>>
promptVars == <<visible, promptText, suggestions, selected, newSelection, previous, ran>>
timeVars == <<timeText, parsed, inputUnit, normalizedUnit, selectedUnit, sent>>
viewerVars == <<viewed, cursor, marker, memory, memoryCache, content, settings, arrayCache,
                pixelCache>>
itemVars == <<inner, rows, focused_item, undo_stack, redo_stack, stateFile>>

\* The steps of the parts whose states keep growing.
Budgets(p) ==
  CASE p \in {"viewport", "annotations"} -> 7
    [] p \in {"hierarchy", "viewers"} -> 6
    [] p = "items" -> 4
    [] OTHER -> 0

-----------------------------------------------------------------------------
(* Three groups: one that hides with the menu, one that is always there and *)
(* one that needs a waveform; the last starts in a row of its own.          *)
toolbar == INSTANCE Toolbar WITH rows <- toolbarRows,
  Specs <- <<"menu", "files", "time">>, ConfigRow <- [menu |-> 0, files |-> 0, time |-> 1],
  MaxRow <- 2

(* The prompt without a waveform.  A text matches itself and what contains  *)
(* it; options are sequences of words.                                      *)
Folding == INSTANCE SequencesExt
Contains == {<<<<"dark">>, <<"dar">>>>, <<<<"dark+">>, <<"dar">>>>}
Score(option, text) == IF option = text \/ <<option, text>> \in Contains THEN 1 ELSE 0
Length(option) == Folding!FoldLeft(LAMBDA n, word : n + Len(word), Len(option), option)
NoWaves ==
  [waves |-> FALSE, transactions |-> FALSE, active |-> <<>>, scopes |-> <<>>,
   variables |-> <<>>, inScope |-> <<>>, arrays |-> <<>>, items |-> <<>>, markers |-> <<>>,
   viewports |-> <<>>, viewport |-> "0", files |-> <<"a.vcd">>, scripts |-> <<>>,
   remote |-> <<>>, wcp |-> FALSE, menu |-> TRUE, side |-> TRUE, ticks |-> TRUE,
   groups |-> <<>>, formats |-> <<>>, colors |-> <<>>, heights |-> <<>>,
   themes |-> <<"default", "dark", "dark+">>, state |-> <<>>, keep |-> FALSE]
prompt == INSTANCE CommandPrompt WITH text <- promptText,
  Numbers <- [x \in {} |-> 0], Units <- {}, Special <- [x \in {} |-> <<>>],
  Session <- NoWaves, MaxRuns <- 2,
  Texts <- {[words |-> <<"exit">>, blank |-> FALSE],
            [words |-> <<"theme_select", "dar">>, blank |-> FALSE],
            [words |-> <<>>, blank |-> FALSE]}

(* A time step of 10 us; times typed with and without units.                *)
timeField == INSTANCE TimeInput WITH MantissaBits <- 53, text <- timeText,
  Scale <- [unit |-> "us", mult |-> 10], Units <- {"ms", "us"},
  Texts <- [sign : {"", "-"}, whole : {0, 20}, frac : {<<>>, <<5>>}, unit : {"", "us", "ms"}]

(* Two versions of a file with a scope and one in it.  A variable has the   *)
(* name of its scope; the name of another is given priority.                *)
Var(scope, name, dir) == [scope |-> scope, name |-> name, dir |-> dir]
a == Var(<<"a">>, "a", "Input")
b == Var(<<"a", "sub">>, "b", "Other")
c == Var(<<"a">>, "c", "Output")
Files == <<{a, b, c}, {b, c}>>
InOrder == <<a, b, c>>
Priorities == [v \in {a, b, c} |-> IF v = c THEN 1 ELSE 0]
Same(text, word) == text = word

(* An array of two by two elements of two bits in two versions of a file.   *)
viewers == INSTANCE Viewers WITH file <- viewed,
  Scopes <- {0, 1}, Elements <- {0, 1}, Times <- {0, 1}, Versions <- {1, 2}, Width <- 2,
  Value <- LAMBDA v, s, e, t : 1 + ((v + s + 2 * e + t) % 3),
  Changed <- LAMBDA v, s, e, t : t = 0 \/ (e + t) % 2 = 0,
  Pattern <- LAMBDA v : v # 2
Settings == {[mode |-> "Grayscale", bits |-> <<2>>], [mode |-> "Rgb", bits |-> <<1, 0, 2>>],
             [mode |-> "Rgb", bits |-> <<0, 0, 0>>]}

(* A variable that is a word or a bit or gone, and a group.  "Struct" shows *)
(* a word as a compound with a field; only "Hex" is numeric.                *)
items == INSTANCE ItemAttributes WITH
  Items <- <<"v", "group">>,
  Contents <- {[v |-> "word"], [v |-> "bit", w |-> "bit"], [w |-> "bit"]},
  Formats <- {"Hex", "Struct"}, Values <- {"a"}, UndoStackSize <- 1,
  Preferred <- LAMBDA type : IF type = "word" THEN "Hex" ELSE "Bit",
  InfoOf <- LAMBDA format, type :
              IF format = "Struct" /\ type = "word" THEN "Compound"
              ELSE IF type = "bit" THEN "Bool" ELSE "Bits",
  Subfields <- LAMBDA info : IF info = "Compound" THEN {"f"} ELSE {},
  HasRange <- LAMBDA format, type : format = "Hex"
-----------------------------------------------------------------------------
InterfaceInit ==
  /\ part \in Parts /\ steps = Steps(part)
  /\ view!Init /\ toolbar!Init /\ prompt!Init /\ timeField!Init /\ annotations!Init
  /\ gestures!Init /\ hierarchy!Init /\ viewers!Init /\ items!Init
  \* what starts in several ways does so in its own part only
  /\ part # "viewport" => \A n \in Lengths : max <= n
  /\ part # "items" => inner = [v |-> "word"]

Budget == steps > 0 /\ steps' = steps - 1

ViewportStep == part = "viewport" /\ view!Next /\ Budget
ToolbarStep == part = "toolbar" /\ toolbar!Next /\ UNCHANGED steps
PromptStep ==
  /\ part = "prompt" /\ prompt!Next /\ UNCHANGED steps
  /\ selected' <= 2 /\ Len(previous') <= 2
TimeStep == part = "time" /\ timeField!Next /\ UNCHANGED steps
AnnotationStep == part = "annotations" /\ annotations!Next /\ Budget
GestureStep == part = "gestures" /\ gestures!Next /\ UNCHANGED steps
HierarchyStep == part = "hierarchy" /\ hierarchy!Next /\ Budget
ViewerStep == part = "viewers" /\ viewers!Next(Settings) /\ Budget
ItemStep == part = "items" /\ items!Next /\ Budget

OthersStay ==
  /\ part # "viewport" => UNCHANGED viewportVars
  /\ part # "toolbar" => UNCHANGED toolbarVars
  /\ part # "prompt" => UNCHANGED promptVars
  /\ part # "time" => UNCHANGED timeVars
  /\ part # "annotations" => UNCHANGED annotationVars
  /\ part # "gestures" => UNCHANGED gestureVars
  /\ part # "hierarchy" => UNCHANGED hierarchyVars
  /\ part # "viewers" => UNCHANGED viewerVars
  /\ part # "items" => UNCHANGED itemVars

InterfaceNext ==
  /\ \/ ViewportStep \/ ToolbarStep \/ PromptStep \/ TimeStep \/ AnnotationStep
     \/ GestureStep \/ HierarchyStep \/ ViewerStep \/ ItemStep
  /\ OthersStay /\ UNCHANGED part

InterfaceSpec ==
  InterfaceInit /\ [][InterfaceNext]_<<part, steps, viewportVars, toolbarVars, promptVars,
     timeVars, annotationVars, gestureVars, hierarchyVars, viewerVars, itemVars>>
-----------------------------------------------------------------------------
\* However groups are dragged, moved, hidden and shown, each that is active is
\* drawn in one place (draw_toolbar).
EveryGroupShownOnce == toolbar!TypeOK /\ toolbar!EveryGroupShownOnce

\* Enter runs the command of the highlighted row (command_prompt.rs).
EnterRunsHighlighted == prompt!EnterRunsHighlighted

\* A time typed with a unit is gone to in that unit (time_input_widget).
TypedUnitUsed == timeField!TypedUnitUsed

\* Find selects a match, and another one when there is one; every element has
\* its place in the picture (memory_viewer.rs, frame_buffer.rs).
ViewersFaithful == viewers!TypeOK /\ viewers!FindMovesOn /\ viewers!ElementsInPlace

\* A reload leaves the look of the rows that stay as it was (wave_data.rs).
LooksSurviveReload == []items!TypeOK /\ items!LooksSurviveReload
=============================================================================
