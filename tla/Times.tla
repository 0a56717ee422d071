-------------------------------- MODULE Times --------------------------------
(* Times and their texts (time.rs): units, parsing of a time, formatting in a *)
(* wanted unit, and the ticks of a viewport.                                  *)
(*                                                                            *)
(* The text of a time is [sign, whole, frac, unit]: the integer part, the     *)
(* digits after the point and the unit, "" when there is none.  A time scale  *)
(* is [unit, mult].  An optional result is <<>> or <<value>>.                 *)
EXTENDS Integers, Sequences, FiniteSets, SequencesExt

CONSTANT MantissaBits       \* of the numbers times are divided in, 53 for f64

Seconds == <<"zs", "as", "fs", "ps", "ns", "us", "ms", "s">>
TimeUnits == ToSet(Seconds) \cup {"None", "Auto"}

Exponent(unit) ==
    IF unit \in {"None", "Auto"} THEN 0
    ELSE LET i == CHOOSE i \in DOMAIN Seconds : Seconds[i] = unit
         IN  3 * (i - Len(Seconds))

FromExponent(exponent) ==
    IF \E u \in ToSet(Seconds) : Exponent(u) = exponent
    THEN <<CHOOSE u \in ToSet(Seconds) : Exponent(u) = exponent>>
    ELSE <<>>

Pow10[n \in Nat] == IF n = 0 THEN 1 ELSE 10 * Pow10[n - 1]

(* The digits of the multiplier of a scale: 1, 10 or 100. *)
MultiplierDigits(scale) ==
    CASE scale.mult = 1 -> 0 [] scale.mult = 10 -> 1 [] OTHER -> 2

-----------------------------------------------------------------------------

(* parse_time_input and split_numeric_parts: the texts they accept.  Another  *)
(* unit stays part of the number, which is then not a number.                 *)
IsTimeText(text) ==
    /\ text.sign # "-"
    /\ text.unit \in ToSet(Seconds) \cup {""}
    /\ \A i \in DOMAIN text.frac : text.frac[i] \in 0..9

TrimZeros[digits \in Seq(0..9)] ==
    IF digits # <<>> /\ Last(digits) = 0 THEN TrimZeros[Front(digits)] ELSE digits

AppendDigits(n, digits) == FoldLeft(LAMBDA acc, d : 10 * acc + d, n, digits)

(* normalize_numeric_with_unit: a fraction is written in a smaller unit. *)
Normalize(text, unit) ==
    LET frac == TrimZeros[text.frac]
        steps == (Len(frac) + 2) \div 3
        smaller == FromExponent(Exponent(unit) - 3 * steps)
        zeros == 3 * steps - Len(frac)
    IN  IF ~IsTimeText(text) THEN <<>>
        ELSE IF frac = <<>> THEN <<[value |-> text.whole, unit |-> unit]>>
        ELSE IF Len(frac) > 21 \/ smaller = <<>> THEN <<>>
        ELSE <<[value |-> AppendDigits(text.whole, frac) * Pow10[zeros],
                unit |-> smaller[1]]>>

(* scale_time: times are not negative here, so division rounds towards zero. *)
Mut_ScaleTime(value, diff, scale) ==
    IF diff >= 0 THEN value * Pow10[diff] ELSE value \div Pow10[-diff]

ScaleTime(value, diff, scale) ==
    LET d == diff - MultiplierDigits(scale)
    IN  IF d >= 0 THEN value * Pow10[d] ELSE value \div Pow10[-d]

(* parse_time_string_to_ticks *)
ParseTicks(text, scale) ==
    LET unit == IF text.unit = "" THEN "None" ELSE text.unit
        n == Normalize(text, unit)
    IN  IF n = <<>> THEN <<>>
        ELSE IF n[1].unit = "None" THEN <<n[1].value>>
        ELSE <<ScaleTime(n[1].value,
                         Exponent(n[1].unit) - Exponent(scale.unit), scale)>>

-----------------------------------------------------------------------------

(* find_auto_scale: the largest unit in which the time is a whole number. *)
FindAutoScale(time, scale) ==
    LET start == -Exponent(scale.unit)
        fits == {e \in 3..start :
                    /\ e % 3 = 0
                    /\ time % Pow10[e - MultiplierDigits(scale)] = 0
                    /\ FromExponent(e - start) # <<>>}
    IN  IF scale.unit = "s" \/ fits = {} THEN scale.unit
        ELSE FromExponent((CHOOSE e \in fits : \A f \in fits : f <= e) - start)[1]

DigitsOf(n, count) ==
    [i \in 1..count |-> (n \div Pow10[count - i]) % 10]

(* The integer nearest to a / b, of two the even one. *)
RoundedDiv(a, b) ==
    LET down == a \div b
        twice == 2 * (a % b)
    IN  IF twice > b \/ (twice = b /\ down % 2 = 1) THEN down + 1 ELSE down

(* to_f64 of a / b, printed with as many digits as b has zeros: what is       *)
(* printed, in parts of 1 / b.  The mantissa has MantissaBits bits and counts *)
(* a power of two, 2^n or 1 / 2^n with n up to 1074.                          *)
Printed(a, b) ==
    LET largest == b * 2^(MantissaBits - 1)
        First(Reaches(_)) == CHOOSE n \in 0..1074 : Reaches(n) /\ \A i \in 0..(n - 1) : ~Reaches(i)
        coarse == First(LAMBDA n : a < 2 * largest * 2^n)
        fine == First(LAMBDA n : a * 2^n >= largest)
    IN  IF a = 0 THEN 0
        ELSE IF a >= largest
        THEN RoundedDiv(a, b * 2^coarse) * 2^coarse * b
        ELSE RoundedDiv(RoundedDiv(a * 2^fine, b) * b, 2^fine)

UnitText(unit) == IF unit = "None" THEN "No unit" ELSE unit

(* TimeFormatter::format, without grouping of digits. *)
Format(time, scale, wanted) ==
    LET unit == IF wanted = "Auto" THEN FindAutoScale(time, scale) ELSE wanted
        diff == Exponent(unit) - Exponent(scale.unit)
        ticks == time * scale.mult
        printed == Printed(ticks, Pow10[diff])
        Text(whole, frac) ==
            [sign |-> "", whole |-> whole, frac |-> frac, unit |-> UnitText(unit)]
    IN  IF wanted = "None"
        THEN [sign |-> "", whole |-> time, frac |-> <<>>, unit |-> ""]
        ELSE IF diff >= 0
        THEN Text(printed \div Pow10[diff], TrimZeros[DigitsOf(printed, diff)])
        ELSE Text(ticks * Pow10[-diff], <<>>)

-----------------------------------------------------------------------------

(* Ticks: a position is a number of parts of one unit of time; PartsPerUnit   *)
(* parts are one unit.  TICK_STEPS is written in tenths.                      *)
PartsPerUnit == 10000
TickSteps == <<10, 20, 25, 50, 100, 200, 250, 500>>

CeilDiv(a, b) == -((-a) \div b)

(* The largest power of ten (in tenths of a part) of at most width / labels. *)
TickScale(width, labels) ==
    LET fits == {e \in 0..7 : Pow10[e] * labels <= width}
    IN  Pow10[CHOOSE e \in fits : \A f \in fits : f <= e]

FirstLabel(left, step) == (left \div step) * step
LabelCount(left, right, step) ==
    CeilDiv(right - FirstLabel(left, step), step) + 1

(* get_ticks_internal: the times of the ticks, which are whole units. *)
GetTicks(left, right, labels) ==
    LET scale == TickScale(right - left, labels)
        steps == SelectSeq(TickSteps, LAMBDA t :
                    LET step == (scale * t) \div 10
                    IN  (scale * t) % 10 = 0
                        /\ LabelCount(left, right, step) <= labels)
        step == (scale * steps[1]) \div 10
        time(v) == (v * step + FirstLabel(left, step)) \div PartsPerUnit
        all == [v \in 1..LabelCount(left, right, step) |-> time(v - 1)]
    IN  IF steps = <<>> THEN <<>>
        ELSE FoldLeft(LAMBDA acc, t : IF t \in ToSet(acc) THEN acc
                                      ELSE Append(acc, t), <<>>, all)

(* draw_divider_text: the distance between two texts is a multiple of the     *)
(* distance of the first two ticks; the code divides by it.                   *)
StampDelta(ticks) ==
    (IF Len(ticks) > 1 THEN ticks[2] ELSE 1) - (IF ticks # <<>> THEN ticks[1] ELSE 0)

-----------------------------------------------------------------------------

(* Whether a time keeps all its digits: its mantissa has a bit to spare, or   *)
(* it is not divided, because the wanted unit is finer.                       *)
DigitsSurvive(time, scale, wanted) ==
    \/ time * scale.mult <= 2^(MantissaBits - 1)
    \/ wanted = "None"
    \/ wanted # "Auto" /\ Exponent(wanted) < Exponent(scale.unit)

(* A time that is shown and typed again is the same time (TimeFormatter and   *)
(* parse_time_string_to_ticks), in every unit and for every scale with a      *)
(* unit, if it is not too long for a floating point number.                   *)
ShownTimeParses(time, scale, wanted) ==
    scale.unit # "None" /\ DigitsSurvive(time, scale, wanted) =>
        ParseTicks(Format(time, scale, wanted), scale) = <<time>>

(* A text without a unit is a number of ticks, as the comment on              *)
(* parse_time_string_to_ticks says: the number of digits after the point      *)
(* makes no difference of more than one tick.                                 *)
PlainIsTicks(text, scale) ==
    LET ticks == ParseTicks(text, scale)
    IN  text.unit = "" /\ text.sign = "" /\ ticks # <<>> =>
            ticks[1] \in text.whole..(text.whole + 1)

(* The texts of a divider can be placed for every view (draw_divider_text     *)
(* divides by the distance of the ticks).                                     *)
DividerTextPlaced(left, right, labels) ==
    StampDelta(GetTicks(left, right, labels)) # 0
=============================================================================
