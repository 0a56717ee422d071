------------------------------ MODULE TimeInput ------------------------------
(* The time field of the toolbar (time_input_widget): a text, the unit chosen *)
(* in the list beside it, and what was parsed when the text last changed.     *)
EXTENDS Times

CONSTANTS Texts, Scale, Units

VARIABLES text, parsed, inputUnit, normalizedUnit, selectedUnit, sent

vars == <<text, parsed, inputUnit, normalizedUnit, selectedUnit, sent>>

NoText == [sign |-> "", whole |-> 0, frac |-> <<>>, unit |-> ""]

Init ==
    /\ text = NoText
    /\ parsed = <<>>
    /\ inputUnit = <<>>
    /\ normalizedUnit = <<>>
    /\ selectedUnit = "ns"
    /\ sent = <<>>

(* update_input *)
UpdateInput(t) ==
    LET unit == IF t.unit = "" THEN selectedUnit ELSE t.unit
        n == Normalize(t, unit)
    IN  /\ text' = t
        /\ inputUnit' = (IF t.unit = "" THEN <<>> ELSE <<t.unit>>)
        /\ parsed' = (IF n = <<>> THEN <<>> ELSE <<n[1].value>>)
        /\ normalizedUnit' = (IF n = <<>> THEN <<>> ELSE <<n[1].unit>>)
        /\ UNCHANGED <<selectedUnit, sent>>

(* The list of units, shown while the text has none. *)
SelectUnit(u) ==
    /\ inputUnit = <<>>
    /\ selectedUnit' = u
    /\ UNCHANGED <<text, parsed, inputUnit, normalizedUnit, sent>>

Mut_EffectiveUnit ==
    IF inputUnit # <<>> THEN inputUnit[1] ELSE selectedUnit

EffectiveUnit ==
    IF normalizedUnit # <<>> THEN normalizedUnit[1]
    ELSE IF inputUnit # <<>> THEN inputUnit[1] ELSE selectedUnit

(* to_timescale_ticks, sent by Enter and by the two buttons. *)
ToTimescaleTicks ==
    LET base == IF EffectiveUnit = "None" THEN Scale.unit ELSE EffectiveUnit
    IN  ScaleTime(parsed[1], Exponent(base) - Exponent(Scale.unit), Scale)

Commit ==
    /\ parsed # <<>>
    /\ sent' = <<ToTimescaleTicks>>
    /\ UNCHANGED <<text, parsed, inputUnit, normalizedUnit, selectedUnit>>

Next ==
    \/ \E t \in Texts : UpdateInput(t)
    \/ \E u \in Units : SelectUnit(u)
    \/ Commit

Spec == Init /\ [][Next]_vars

-----------------------------------------------------------------------------

(* The unit of the list is the unit of a number that is typed without one, as *)
(* the comment on selected_unit says: "used when no unit in input".           *)
SelectedUnitUsed ==
    [][Commit /\ inputUnit = <<>>
       => sent' = ParseTicks([text EXCEPT !.unit = selectedUnit], Scale)]_vars

(* A number typed with a unit goes to that time, whatever the list says.      *)
TypedUnitUsed ==
    [][Commit /\ inputUnit # <<>> => sent' = ParseTicks(text, Scale)]_vars
=============================================================================
