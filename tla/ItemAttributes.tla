--------------------------- MODULE ItemAttributes ---------------------------
(***************************************************************************)
(* How the displayed items look: format, colors, name, height and analog   *)
(* drawing, under the messages that change them, translators that fail,    *)
(* reloads, undo and state files (lib.rs, displayed_item.rs, wave_data.rs, *)
(* state.rs).  Canvas models where items come from and go to; here they    *)
(* are rows in a fixed order that only a reload may remove.                *)
(***************************************************************************)
EXTENDS Naturals, Sequences, FiniteSets, SequencesExt

CONSTANTS
    Items,              \* the items at the start: a sequence of Variable(v), Other("marker"), ...
    Contents,           \* waveforms: functions from their variables to types
    Formats,            \* the translators' names
    Preferred(_),       \* the one a type is shown with when none is chosen
    InfoOf(_, _),       \* what a translator makes of a type
    Subfields(_),       \* the fields of that
    HasRange(_, _),     \* whether it has a numeric range for the type
    Values,             \* colors, names and heights to choose from
    UndoStackSize

VARIABLES
    inner,              \* the waveform that is loaded
    rows,               \* what is displayed, with its selection
    focused_item,       \* a row, 0 for none
    undo_stack, redo_stack,
    stateFile           \* <<>> or what a state file holds
vars == <<inner, rows, focused_item, undo_stack, redo_stack, stateFile>>

Attributes == {"color", "background", "name", "height", "format", "analog", "fields"}
Plain == [color |-> <<>>, background |-> <<>>, name |-> <<>>, height |-> <<>>, format |-> <<>>,
          analog |-> <<>>, fields |-> {}, selected |-> FALSE]
Other(kind) == [kind |-> kind, of |-> kind, info |-> "none"] @@ Plain
(* add_variables: an item starts with the translator its type prefers.     *)
Variable(v, content) ==
    [kind |-> "variable", of |-> v, info |-> InfoOf(Preferred(content[v]), content[v])] @@ Plain

Init ==
    /\ inner \in Contents
    /\ rows = [i \in DOMAIN Items |-> IF Items[i] \in DOMAIN inner THEN Variable(Items[i], inner)
                                      ELSE Other(Items[i])]
    /\ \A i \in DOMAIN Items : Items[i] \in {"marker", "group"} \cup DOMAIN inner
    /\ focused_item = 0
    /\ undo_stack = <<>> /\ redo_stack = <<>> /\ stateFile = <<>>

-----------------------------------------------------------------------------
(* The messages of an edit *)

Canvas == [rows |-> rows, focus |-> focused_item]
(* save_current_canvas *)
SaveCurrentCanvas ==
    /\ undo_stack' = LET pushed == Append(undo_stack, Canvas) IN
                     IF Len(pushed) > UndoStackSize THEN Tail(pushed) ELSE pushed
    /\ redo_stack' = <<>>

Selected == {v \in DOMAIN rows : rows[v].selected}
(* The rows a message is for.  One that is for the selection goes to the   *)
(* focused row too; when that row is gone the handler returns before it    *)
(* comes to the selection.                                                 *)
Explicit(v) == {v} \cap DOMAIN rows
CurrentSelection ==
    IF focused_item = 0 THEN Selected
    ELSE IF focused_item \in DOMAIN rows THEN Selected \cup {focused_item} ELSE {}
Targets == {Explicit(v) : v \in DOMAIN rows} \cup {CurrentSelection}

(* The translator a variable is shown with: variable_translator.           *)
TranslatorOf(row) ==
    IF row.format # <<>> THEN row.format[1]
    ELSE IF row.of \in DOMAIN inner THEN Preferred(inner[row.of]) ELSE "default"

(* downgrade_type_limits_if_unsupported                                    *)
Downgraded(row, format, type) ==
    IF row.analog = <<"TypeLimits">> /\ ~HasRange(format, type)
    THEN [row EXCEPT !.analog = <<"Global">>] ELSE row

Change(targets, to(_)) == rows' = [v \in DOMAIN rows |-> IF v \in targets THEN to(rows[v]) ELSE rows[v]]

(* ItemColorChange, ItemBackgroundColorChange, ItemHeightScalingFactorChange:
   what has no height ignores it.                                          *)
SetAttribute(attribute, value, targets) ==
    /\ SaveCurrentCanvas
    /\ Change(targets, LAMBDA row :
           IF attribute = "height" /\ row.kind \notin {"variable", "placeholder"} THEN row
           ELSE [row EXCEPT ![attribute] = value])
    /\ UNCHANGED <<inner, focused_item, stateFile>>

(* set_name: a group always has a name.                                    *)
Named(row, name) ==
    [row EXCEPT !.name = IF row.kind = "group" /\ name = <<>> THEN <<"">> ELSE name]
ItemNameChange(v, name) ==
    /\ SaveCurrentCanvas
    /\ Change(Explicit(IF v = 0 THEN focused_item ELSE v), LAMBDA row : Named(row, name))
    /\ UNCHANGED <<inner, focused_item, stateFile>>
ItemNameReset(targets) ==
    /\ SaveCurrentCanvas
    /\ Change(targets, LAMBDA row : Named(row, <<>>))
    /\ UNCHANGED <<inner, focused_item, stateFile>>

(* VariableFormatChange does not save the canvas.  A variable that is not  *)
(* in the waveform keeps its format.                                       *)
WithFormat(row, format) ==
    IF row.kind # "variable" \/ row.of \notin DOMAIN inner THEN row
    ELSE Downgraded([row EXCEPT !.format = <<format>>, !.info = InfoOf(format, inner[row.of])],
                    format, inner[row.of])
VariableFormatChange(format, targets) ==
    /\ Change(targets, LAMBDA row : WithFormat(row, format))
    /\ UNCHANGED <<inner, focused_item, undo_stack, redo_stack, stateFile>>
(* The focus is looked up without an early return here.                    *)
FormatSelection == Selected \cup Explicit(focused_item)

FieldFormatChange(v, field, format) ==
    /\ v \in DOMAIN rows /\ rows[v].kind = "variable" /\ field \in Subfields(rows[v].info)
    /\ rows' = [rows EXCEPT ![v].fields = {f \in @ : f[1] # field} \cup {<<field, format>>}]
    /\ UNCHANGED <<inner, focused_item, undo_stack, redo_stack, stateFile>>

(* SetAnalogSettings: turning it on makes the row higher.                  *)
WithAnalog(row, scale) ==
    IF row.kind # "variable" THEN row
    ELSE IF scale # <<>> /\ row.analog = <<>>
         THEN [row EXCEPT !.analog = scale, !.height = <<"analog">>]
         ELSE [row EXCEPT !.analog = scale]
SetAnalogSettings(v, targets, scale) ==
    /\ v \in DOMAIN rows /\ rows[v].kind = "variable"
    /\ scale = <<"TypeLimits">> => /\ rows[v].of \in DOMAIN inner
                                   /\ HasRange(TranslatorOf(rows[v]), inner[rows[v].of])
    /\ SaveCurrentCanvas
    /\ Change(targets, LAMBDA row : WithAnalog(row, scale))
    /\ UNCHANGED <<inner, focused_item, stateFile>>

(* ResetVariableFormat: sent when a translator fails while drawing.        *)
ResetVariableFormat(v) ==
    /\ v \in DOMAIN rows /\ rows[v].kind = "variable" /\ rows[v].format # <<>>
    /\ rows' = [rows EXCEPT ![v].format = <<>>]
    /\ UNCHANGED <<inner, focused_item, undo_stack, redo_stack, stateFile>>

Select(v, selected) ==
    /\ v \in DOMAIN rows /\ rows[v].selected # selected
    /\ rows' = [rows EXCEPT ![v].selected = selected]
    /\ UNCHANGED <<inner, focused_item, undo_stack, redo_stack, stateFile>>
FocusItem(v) ==
    /\ v \in DOMAIN rows /\ focused_item # v
    /\ focused_item' = v
    /\ UNCHANGED <<inner, rows, undo_stack, redo_stack, stateFile>>

Undo ==
    /\ undo_stack # <<>>
    /\ rows' = Last(undo_stack).rows /\ focused_item' = Last(undo_stack).focus
    /\ undo_stack' = Front(undo_stack) /\ redo_stack' = Append(redo_stack, Canvas)
    /\ UNCHANGED <<inner, stateFile>>
Redo ==
    /\ redo_stack # <<>>
    /\ rows' = Last(redo_stack).rows /\ focused_item' = Last(redo_stack).focus
    /\ redo_stack' = Front(redo_stack) /\ undo_stack' = Append(undo_stack, Canvas)
    /\ UNCHANGED <<inner, stateFile>>

-----------------------------------------------------------------------------
(* Reloads and state files *)

(* into_placeholder, into_variable: everything but the reference is kept.  *)
(* A plausible slip: the height is not passed on.                          *)
Mut_IntoPlaceholder(row) == [row EXCEPT !.kind = "placeholder", !.info = "none", !.height = <<>>]
IntoPlaceholder(row) == [row EXCEPT !.kind = "placeholder", !.info = "none"]
IntoVariable(row, content) ==
    LET format == IF row.format # <<>> THEN row.format[1] ELSE Preferred(content[row.of]) IN
    [row EXCEPT !.kind = "variable", !.info = InfoOf(format, content[row.of])]

(* update_displayed_items                                                  *)
Updated(row, content) ==
    CASE row.kind = "variable" /\ row.of \notin DOMAIN content -> IntoPlaceholder(row)
      [] row.kind = "placeholder" /\ row.of \in DOMAIN content -> IntoVariable(row, content)
      [] OTHER -> row
UpdateDisplayedItems(old, content, keep) ==
    LET kept == SelectSeq(old, LAMBDA row : \/ keep
                                            \/ row.kind \notin {"variable", "placeholder"}
                                            \/ row.of \in DOMAIN content)
    IN [v \in DOMAIN kept |-> Updated(kept[v], content)]

(* A plausible slip: the limits are left as they are.                      *)
Mut_UpdateMetadata(row, content) ==
    IF row.kind # "variable" THEN row
    ELSE LET type == content[row.of]
             format == IF row.format # <<>> THEN row.format[1] ELSE Preferred(type)
         IN [row EXCEPT !.fields = {f \in @ : f[1] \in Subfields(InfoOf(format, type))}]
(* update_metadata: the info is worked out but only the formats of fields  *)
(* and the limits follow it.                                               *)
UpdateMetadata(row, content) ==
    IF row.kind # "variable" THEN row
    ELSE LET type == content[row.of]
             format == IF row.format # <<>> THEN row.format[1] ELSE Preferred(type)
         IN Downgraded([row EXCEPT !.fields = {f \in @ : f[1] \in Subfields(InfoOf(format, type))}],
                       format, type)
UpdateAll(old, content, keep) ==
    LET items == UpdateDisplayedItems(old, content, keep)
    IN [v \in DOMAIN items |-> UpdateMetadata(items[v], content)]

(* update_with_waves: another version of the file, with or without the     *)
(* items it does not have.                                                 *)
Reload(content, keep) ==
    /\ inner' = content
    /\ rows' = UpdateAll(rows, content, keep)
    /\ UNCHANGED <<focused_item, undo_stack, redo_stack, stateFile>>

(* SaveStateFile: the info is not part of the file.                        *)
SaveState ==
    /\ stateFile' = <<[rows |-> [v \in DOMAIN rows |->
                                    [rows[v] EXCEPT !.info = IF rows[v].kind = "variable"
                                                             THEN "String" ELSE @]],
                       focus |-> focused_item]>>
    /\ UNCHANGED <<inner, rows, focused_item, undo_stack, redo_stack>>
(* load_state with a waveform loaded, which is kept.                       *)
LoadState ==
    /\ stateFile # <<>>
    /\ rows' = UpdateAll(stateFile[1].rows, inner, TRUE)
    /\ focused_item' = stateFile[1].focus
    /\ UNCHANGED <<inner, undo_stack, redo_stack, stateFile>>

Edit ==
    \/ \E attribute \in {"color", "background", "height"}, value \in Values, targets \in Targets :
           SetAttribute(attribute, <<value>>, targets)
    \/ \E v \in 0..Len(rows), name \in {<<>>} \cup {<<value>> : value \in Values} : ItemNameChange(v, name)
    \/ \E targets \in Targets \cup {Selected} : ItemNameReset(targets)
    \/ \E format \in Formats, targets \in Targets \cup {FormatSelection} :
           VariableFormatChange(format, targets)
    \/ \E v \in DOMAIN rows, format \in Formats :
           \E field \in Subfields(rows[v].info) : FieldFormatChange(v, field, format)
    \/ \E v \in DOMAIN rows, scale \in {<<>>, <<"Global">>, <<"TypeLimits">>} :
           \E targets \in {Explicit(v), CurrentSelection} : SetAnalogSettings(v, targets, scale)
    \/ \E v \in DOMAIN rows : ResetVariableFormat(v)
Next ==
    \/ Edit
    \/ \E v \in DOMAIN rows, selected \in BOOLEAN : Select(v, selected)
    \/ \E v \in DOMAIN rows : FocusItem(v)
    \/ Undo \/ Redo
    \/ \E content \in Contents, keep \in BOOLEAN : Reload(content, keep)
    \/ SaveState \/ LoadState

-----------------------------------------------------------------------------
TypeOK ==
    /\ inner \in Contents
    /\ \A v \in DOMAIN rows : /\ rows[v].kind \in {"variable", "placeholder", "marker", "group"}
                              /\ rows[v].analog \in {<<>>, <<"Global">>, <<"TypeLimits">>}
    /\ Len(undo_stack) + Len(redo_stack) <= 2 * UndoStackSize

(* What a reload may change (displayed_item.rs, update_metadata): a row    *)
(* that stays keeps what it shows and every attribute, through a time as a *)
(* placeholder too, but for formats of fields its translator no longer has *)
(* and for type limits where there is no range; and no row is left with    *)
(* either.                                                                 *)
Rows(kind) == {v \in DOMAIN rows : rows[v].kind = kind}
KeepsLook(old, new) ==
    /\ new.of = old.of
    /\ \A a \in {"color", "background", "name", "height", "format", "selected"} : new[a] = old[a]
    /\ new.fields \subseteq old.fields
    /\ new.kind = "placeholder" => new.fields = old.fields /\ new.analog = old.analog
    /\ (new.analog = <<>>) = (old.analog = <<>>)
LooksSurviveReload ==
    [][\A content \in Contents : Reload(content, TRUE) =>
          /\ Len(rows') = Len(rows)
          /\ \A v \in DOMAIN rows : KeepsLook(rows[v], rows'[v])
          /\ \A v \in Rows("variable")' :
                 LET format == TranslatorOf(rows[v])'
                     type == content[rows'[v].of] IN
                 /\ rows'[v].analog = <<"TypeLimits">> => HasRange(format, type)
                 /\ \A f \in rows'[v].fields : f[1] \in Subfields(InfoOf(format, type))]_vars

(* The code says of the info a state file leaves out that translators      *)
(* clear it out with the actual value: after a state is loaded each        *)
(* variable has the info of its translator.                                *)
LoadedInfoIsActual ==
    [][LoadState => \A v \in Rows("variable")' :
          rows'[v].info = InfoOf(TranslatorOf(rows[v]), inner[rows[v].of])']_vars
=============================================================================
