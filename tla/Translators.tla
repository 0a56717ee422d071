----------------------------- MODULE Translators -----------------------------
(* Translation of values into text (surfer-translation-types/src/lib.rs and   *)
(* translator.rs; translation/basic_translators.rs, numeric_translators.rs,   *)
(* fixed_point.rs, color_translators.rs; the choice of a translator in        *)
(* wave_data.rs).                                                             *)
(*                                                                            *)
(* A value is a number ([form |-> "number", n]) or a text of one character    *)
(* per bit ([form |-> "text", bits]).  A translation is [text, kind]; its     *)
(* text is a sequence of digits or of words.  A number for plotting is <<>>   *)
(* or one word: a number or a quiet NaN, "undef" or "highimp".                *)
EXTENDS Integers, Sequences, SequencesExt, FiniteSetsExt, TLC

Number(n) == [form |-> "number", n |-> n]
Text(bits) == [form |-> "text", bits |-> bits]
Result(text, kind) == [text |-> text, kind |-> kind]
Decimal(n) == <<ToString(n)>>

Pow2[n \in Nat] == IF n = 0 THEN 1 ELSE 2 * Pow2[n - 1]
DivCeil(a, b) == (a + b - 1) \div b
NumBits(v) == CHOOSE n \in 0..31 : v < Pow2[n] /\ (n > 0 => v >= Pow2[n - 1])

(* The digits of v in base 2^k, the most significant first, at least width.   *)
Hex == <<"0", "1", "2", "3", "4", "5", "6", "7",
         "8", "9", "a", "b", "c", "d", "e", "f">>
Digits(v, k, width) ==
    LET len == Max({width, 1, DivCeil(NumBits(v), k)})
    IN  [i \in 1..len |-> Hex[1 + ((v \div Pow2[k * (len - i)]) % Pow2[k])]]
FromBits(s) == FoldLeft(LAMBDA n, c : 2 * n + (IF c = "1" THEN 1 ELSE 0), 0, s)
AllBits(s) == \A i \in DOMAIN s : s[i] \in {"0", "1"}

(* The characters other than 0 and 1, the one that names a vector first.      *)
Special == <<"x", "z", "-", "u", "w", "h", "l">>
KindOf == [c \in ToSet(Special) |->
              CASE c \in {"x", "u", "w"} -> "Undef" [] c = "z" -> "HighImp"
                [] c = "-" -> "DontCare" [] c \in {"h", "l"} -> "Weak"]
WordOf == [c \in ToSet(Special) |->
              CASE c \in {"x", "u"} -> "UNDEF" [] c = "z" -> "HIGHIMP"
                [] c = "-" -> "DON'T CARE" [] c = "w" -> "UNDEF WEAK"
                [] c \in {"h", "l"} -> "WEAK"]

(* The first special character, in that order, that occurs in s, or "". *)
Leading(s) ==
    LET found == {i \in DOMAIN Special : \E j \in DOMAIN s : s[j] = Special[i]}
    IN  IF found = {} THEN "" ELSE Special[Min(found)]

KindForBinaryRepresentation(s) ==
    IF Leading(s) = "" THEN "Normal" ELSE KindOf[Leading(s)]

(* check_vector_variable: <<>> for a text of 0 and 1 only. *)
CheckVectorVariable(s) ==
    IF Leading(s) # "" THEN <<Result(<<WordOf[Leading(s)]>>, KindOf[Leading(s)])>>
    ELSE IF AllBits(s) THEN <<>> ELSE <<Result(<<"UNKNOWN VALUES">>, "Undef")>>

(* map_vector_variable and parse_biguint: the number, or what is shown. *)
ParseBiguint(value) ==
    IF value.form = "number" THEN [ok |-> TRUE, n |-> value.n]
    ELSE IF value.bits # <<>> /\ AllBits(value.bits)
    THEN [ok |-> TRUE, n |-> FromBits(value.bits)]
    ELSE [ok |-> FALSE,
          shown |-> IF Leading(value.bits) # "" THEN CheckVectorVariable(value.bits)[1]
                    ELSE Result(<<"UNKNOWN VALUES">>, "Undef")]

ParseValueToNumeric(value, ToNum(_)) ==
    LET p == ParseBiguint(value)
    IN  IF p.ok THEN Decimal(ToNum(p.n))
        ELSE IF p.shown.kind = "HighImp" THEN <<"highimp">> ELSE <<"undef">>

(* extend_string: the characters to put before a text to make it num_bits. *)
ExtendString(s, num_bits) ==
    LET pad == IF s = <<>> THEN ""
               ELSE IF s[1] \in {"0", "1"} THEN "0"
               ELSE IF s[1] \in ToSet(Special) THEN s[1] ELSE ""
    IN  IF num_bits > Len(s) /\ pad # "" THEN [i \in 1..(num_bits - Len(s)) |-> pad]
        ELSE <<>>
Extended(s, num_bits) == ExtendString(s, num_bits) \o s

(* Wrong: groups from the left, as if the length were a multiple of radix. *)
Mut_GroupNChars(s, n) ==
    [g \in 1..DivCeil(Len(s), n) |->
        SubSeq(s, n * (g - 1) + 1, IF n * g < Len(s) THEN n * g ELSE Len(s))]

GroupNChars(s, n) ==
    LET groups == DivCeil(Len(s), n)
    IN  [g \in 1..groups |->
            SubSeq(s, Max({1, Len(s) - n * (groups - g + 1) + 1}),
                      Len(s) - n * (groups - g))]

MapToRadix(s, radix, num_bits) ==
    LET Digit(g) == IF Leading(g) # "" THEN Leading(g)
                    ELSE IF AllBits(g) THEN Hex[1 + FromBits(g)] ELSE "?"
        groups == GroupNChars(Extended(s, num_bits), radix)
        formatted == [i \in DOMAIN groups |-> Digit(groups[i])]
    IN  Result(formatted,
               IF \E i \in DOMAIN formatted : formatted[i] = "?" THEN "Error"
               ELSE KindForBinaryRepresentation(formatted))

-----------------------------------------------------------------------------

(* Each translator: the number of bits of the variable and the value.  *)

HexTranslator(num_bits, value) ==
    IF value.form = "number"
    THEN Result(Digits(value.n, 4, DivCeil(num_bits, 4)), "Normal")
    ELSE MapToRadix(value.bits, 4, num_bits)

OctalTranslator(num_bits, value) ==
    IF value.form = "number"
    THEN Result(Digits(value.n, 3, DivCeil(num_bits, 3)), "Normal")
    ELSE MapToRadix(value.bits, 3, num_bits)

BitTranslator(num_bits, value) ==
    IF value.form = "number"
    THEN Result(<<IF value.n > 1 THEN "-" ELSE Hex[1 + value.n]>>, "Normal")
    ELSE Result(value.bits, KindForBinaryRepresentation(value.bits))

BinaryTranslator(num_bits, value) ==
    IF value.form = "number" THEN Result(Digits(value.n, 1, num_bits), "Normal")
    ELSE Result(Extended(value.bits, num_bits), KindForBinaryRepresentation(value.bits))

(* The same with a blank between groups of four. *)
GroupingBinaryTranslator(num_bits, value) ==
    LET val == BinaryTranslator(num_bits, value)
        groups == GroupNChars(val.text, 4)
    IN  [val EXCEPT !.text =
            FoldLeft(LAMBDA out, g : IF out = <<>> THEN g ELSE out \o <<" ">> \o g,
                     <<>>, groups)]

(* The bytes of a number, at least one; a text has a group for every 8 bits.  *)
ToBytesBe(v) ==
    LET len == Max({1, DivCeil(NumBits(v), 8)})
    IN  [i \in 1..len |-> (v \div Pow2[8 * (len - i)]) % 256]
ASCIITranslator(num_bits, value) ==
    IF value.form = "number"
    THEN Result(FlattenSeq([i \in DOMAIN ToBytesBe(value.n) |->
                               Decimal(ToBytesBe(value.n)[i])]), "Normal")
    ELSE IF CheckVectorVariable(value.bits) # <<>> THEN CheckVectorVariable(value.bits)[1]
    ELSE LET groups == GroupNChars(value.bits, 8)
         IN  Result(FlattenSeq([i \in DOMAIN groups |-> Decimal(FromBits(groups[i]))]),
                    "Normal")

(* decode_lebxxx: the top bit of every byte but the first says whether the    *)
(* value read so far is not zero.                                             *)
DecodeLeb(v) ==
    LET bytes == ToBytesBe(v)
    IN  IF bytes[1] >= 128 THEN [ok |-> FALSE, error |-> "invalid MSB"]
        ELSE FoldLeft(LAMBDA r, b :
                         IF ~r.ok THEN r
                         ELSE IF (b < 128) = (r.n = 0)
                         THEN [ok |-> TRUE, n |-> 128 * r.n + (b % 128)]
                         ELSE [ok |-> FALSE, error |-> "invalid flag"],
                      [ok |-> TRUE, n |-> bytes[1]], Tail(bytes))
LebTranslator(num_bits, value) ==
    LET shown == IF value.form = "text" THEN CheckVectorVariable(value.bits) ELSE <<>>
        p == ParseBiguint(value)
        decoded == DecodeLeb(p.n)
    IN  IF shown # <<>> THEN shown[1]
        ELSE IF ~p.ok THEN Result(<<"INVALID">>, "Warn")
        ELSE IF decoded.ok THEN Result(Decimal(decoded.n), "Normal")
        ELSE Result(<<decoded.error>> \o GroupingBinaryTranslator(num_bits, value).text,
                    "Warn")

(* The counting translators: what is counted in a text and in a number. *)
Run(s, c) == LET other == {i \in DOMAIN s : s[i] # c}
             IN  IF other = {} THEN Len(s) ELSE Min(other) - 1
Counted(n, s) == Result(Decimal(n), KindForBinaryRepresentation(s))
BitsOf(num_bits, value) ==
    IF value.form = "number" THEN Digits(value.n, 1, num_bits) ELSE value.bits

CountOnes(v) == Quantify(DOMAIN Digits(v, 1, 1), LAMBDA i : Digits(v, 1, 1)[i] = "1")
NumberOfOnesTranslator(num_bits, value) ==
    IF value.form = "number" THEN Result(Decimal(CountOnes(value.n)), "Normal")
    ELSE Counted(Quantify(DOMAIN value.bits, LAMBDA i : value.bits[i] = "1"), value.bits)
NumberOfOnesNumeric(num_bits, value) == ParseValueToNumeric(value, CountOnes)

TrailingOnes(v) == Run(Reverse(Digits(v, 1, 1)), "1")
TrailingOnesTranslator(num_bits, value) ==
    IF value.form = "number" THEN Result(Decimal(TrailingOnes(value.n)), "Normal")
    ELSE Counted(Run(Reverse(value.bits), "1"), value.bits)
TrailingOnesNumeric(num_bits, value) == ParseValueToNumeric(value, TrailingOnes)

TrailingZeros(v, num_bits) == IF v = 0 THEN num_bits ELSE Run(Reverse(Digits(v, 1, 1)), "0")
TrailingZerosTranslator(num_bits, value) ==
    IF value.form = "number"
    THEN Result(Decimal(TrailingZeros(value.n, num_bits)), "Normal")
    ELSE Counted(Run(Reverse(Extended(value.bits, num_bits)), "0"), value.bits)
TrailingZerosNumeric(num_bits, value) ==
    ParseValueToNumeric(value, LAMBDA v : TrailingZeros(v, num_bits))

(* Wrong: a number of exactly num_bits bits has no leading one. *)
Mut_LeadingOnes(v, num_bits) ==
    IF NumBits(v) <= num_bits THEN 0
    ELSE Max({0, num_bits - NumBits(Pow2[num_bits] - 1 - v)})

(* leading_ones: mask ^ v has a one for every zero of v. *)
LeadingOnes(v, num_bits) ==
    IF NumBits(v) < num_bits THEN 0
    ELSE Max({0, num_bits - NumBits(Pow2[num_bits] - 1 - v)})
LeadingOnesTranslator(num_bits, value) ==
    LET s == BitsOf(num_bits, value)
    IN  Counted(IF Len(s) = num_bits THEN Run(s, "1") ELSE 0, s)
LeadingOnesNumeric(num_bits, value) ==
    ParseValueToNumeric(value, LAMBDA v : LeadingOnes(v, num_bits))

LeadingZerosTranslator(num_bits, value) ==
    LET s == BitsOf(num_bits, value)
    IN  Counted(Run(Extended(s, num_bits), "0"), s)
LeadingZerosNumeric(num_bits, value) ==
    ParseValueToNumeric(value, LAMBDA v : Max({0, num_bits - NumBits(v)}))

IdenticalMSBsTranslator(num_bits, value) ==
    LET s == BitsOf(num_bits, value)
        e == Extended(s, num_bits)
    IN  Counted(Max({Run(e, "0"), Run(e, "1")}), s)
IdenticalMSBsNumeric(num_bits, value) ==
    ParseValueToNumeric(value,
        LAMBDA v : Max({0, num_bits - NumBits(v), LeadingOnes(v, num_bits)}))

-----------------------------------------------------------------------------

TranslateNumeric(Show(_), value) ==
    LET p == ParseBiguint(value)
    IN  IF p.ok THEN Result(Show(p.n), "Normal") ELSE p.shown

UnsignedTranslator(num_bits, value) == TranslateNumeric(Decimal, value)
UnsignedNumeric(num_bits, value) == ParseValueToNumeric(value, LAMBDA v : v)

(* compute_signed_value, and the same computation for plotting. *)
SignedValue(v, num_bits) ==
    IF v < Pow2[num_bits - 1] THEN v ELSE -(Pow2[num_bits] - v)
SignedTranslator(num_bits, value) ==
    TranslateNumeric(LAMBDA v : Decimal(SignedValue(v, num_bits)), value)
SignedNumeric(num_bits, value) ==
    ParseValueToNumeric(value, LAMBDA v : SignedValue(v, num_bits))

(* integer_numeric_range, of two's complement or of unsigned numbers. *)
IntegerNumericRange(num_bits, signed) ==
    IF num_bits = 0 THEN {}
    ELSE IF signed THEN -Pow2[num_bits - 1]..(Pow2[num_bits - 1] - 1)
    ELSE 0..(Pow2[num_bits] - 1)

(* decode_e5m2_f64 and decode_e4m3_f64: mant * 2^exp with a sign, or a class. *)
Float(v, mantissa, exponents, bias, SpecialClass(_, _)) ==
    LET mant == v % Pow2[mantissa]
        exp == (v \div Pow2[mantissa]) % Pow2[exponents]
        class == SpecialClass(exp, mant)
        sign == IF v >= 128 THEN "-" ELSE ""
    IN  CASE class = "NaN" -> <<"NaN">>
          [] class = "inf" -> <<sign, "inf">>
          [] exp = 0 /\ mant = 0 -> <<sign, "0">>
          [] class = "" /\ exp = 0 /\ mant # 0 ->
                <<sign, ToString(mant), ToString(1 - bias - mantissa)>>
          [] class = "" /\ exp # 0 ->
                <<sign, ToString(Pow2[mantissa] + mant), ToString(exp - bias - mantissa)>>
E5M2Translator(num_bits, value) ==
    TranslateNumeric(LAMBDA v : Float(v % 256, 2, 5, 15,
        LAMBDA exp, mant : IF exp # 31 THEN "" ELSE IF mant = 0 THEN "inf" ELSE "NaN"), value)
E4M3Translator(num_bits, value) ==
    TranslateNumeric(LAMBDA v : Float(v % 256, 3, 4, 7,
        LAMBDA exp, mant : IF exp = 15 /\ mant = 7 THEN "NaN" ELSE ""), value)

(* big_uint_to_ufixed: the integer part and the digits after the point. *)
(* Wrong: one digit less than the scaling factor. *)
Mut_BigUintToUfixed(uint, lg) ==
    LET scale == Pow2[lg]
        step == FoldLeft(LAMBDA r, k :
                            IF r.rem = 0 THEN r
                            ELSE [rem |-> (10 * r.rem) % scale,
                                  digits |-> Append(r.digits, (10 * r.rem) \div scale)],
                         [rem |-> uint % scale, digits |-> <<>>],
                         [k \in 1..(lg - 1) |-> k])
    IN  IF lg <= 0 THEN [whole |-> uint * Pow2[-lg], digits |-> <<>>]
        ELSE [whole |-> uint \div scale, digits |-> step.digits]

BigUintToUfixed(uint, lg) ==
    IF lg <= 0 THEN [whole |-> uint * Pow2[-lg], digits |-> <<>>]
    ELSE LET scale == Pow2[lg]
             step == FoldLeft(LAMBDA r, k :
                                 IF r.rem = 0 THEN r
                                 ELSE [rem |-> (10 * r.rem) % scale,
                                       digits |-> Append(r.digits, (10 * r.rem) \div scale)],
                              [rem |-> uint % scale, digits |-> <<>>],
                              [k \in 1..lg |-> k])
         IN  [whole |-> uint \div scale, digits |-> step.digits]

BigUintToSfixed(uint, num_bits, lg) ==
    IF num_bits > 0 /\ uint >= Pow2[num_bits - 1]
    THEN [sign |-> "-", magnitude |-> BigUintToUfixed(Pow2[num_bits] - uint, lg)]
    ELSE [sign |-> "", magnitude |-> BigUintToUfixed(uint, lg)]

(* Colours: each channel of a third of the bits, scaled to a byte.  A text is *)
(* shown as it is.                                                            *)
Channel(v, length) ==
    LET c == v % Pow2[length]
    IN  IF length >= 8 THEN c \div Pow2[length - 8] ELSE c * Pow2[8 - length]
RGBTranslator(num_bits, value) ==
    LET length == DivCeil(num_bits, 3)
    IN  IF value.form = "text"
        THEN Result(value.bits, KindForBinaryRepresentation(value.bits))
        ELSE Result(FlattenSeq([i \in 1..3 |->
                        Decimal(Channel(value.n \div Pow2[(3 - i) * length], length))]),
                    "Custom")
(* The same digits; only the colour is another. *)
YCbCrTranslator(num_bits, value) == RGBTranslator(num_bits, value)
GrayScaleTranslator(num_bits, value) ==
    IF value.form = "text" THEN Result(value.bits, KindForBinaryRepresentation(value.bits))
    ELSE Result(Decimal(Channel(value.n, num_bits)), "Custom")

-----------------------------------------------------------------------------

(* translates: what the translators that may be preferred say of a variable,  *)
(* [num_bits, type, integer, enum, event, encoding]; the others never say     *)
(* Prefer.                                                                    *)
Prefers(t, meta) ==
    CASE t = "Bit" -> meta.num_bits = 1
      [] t = "Unsigned" -> meta.type = "unsigned"
      [] t = "Signed" -> meta.integer \/ meta.type = "signed"
      [] t = "FP: 64-bit IEEE 754" -> meta.encoding = "Real"
      [] t = "Unsigned fixed point" -> meta.type = "ufixed"
      [] t = "Signed fixed point" -> meta.type = "sfixed"
      [] t = "Enum" -> meta.enum
      [] t = "Event" -> meta.num_bits = 0 /\ meta.event
      [] t = "String" -> meta.encoding = "String"
      [] OTHER -> FALSE

(* The translators by name, which is the order in which one is picked. *)
ByName == <<"Bit", "Enum", "Event", "FP: 64-bit IEEE 754", "Signed",
            "Signed fixed point", "String", "Unsigned", "Unsigned fixed point">>

SelectPreferredTranslator(meta) ==
    LET preferred == {t \in ToSet(ByName) : Prefers(t, meta)}
        many == Cardinality(preferred) > 1
        unsigned == preferred \ {"Signed"}
        left == IF ~many THEN preferred
                ELSE IF meta.num_bits = 1 THEN preferred \ {"Bit"}
                ELSE IF Cardinality(unsigned) > 1 THEN unsigned \ {"Enum"}
                ELSE unsigned
    IN  IF left = {} THEN "Hexadecimal"
        ELSE ByName[Max({i \in DOMAIN ByName : ByName[i] \in left})]

(* variable_translator: format is <<>> or the name chosen for the field. *)
VariableTranslator(format, field, meta) ==
    IF format # <<>> THEN format[1]
    ELSE IF field = <<>> THEN SelectPreferredTranslator(meta) ELSE "Hexadecimal"

-----------------------------------------------------------------------------

TextTranslators == <<"Hexadecimal", "Octal", "Binary", "Binary (with groups)", "LEBxxx",
    "Unsigned", "Signed", "E5M2", "E4M3", "Number of ones", "Trailing ones",
    "Trailing zeros", "Leading ones", "Leading zeros", "Identical MSBs">>

(* get_translator and basic_translate. *)
BasicTranslate(t, n, value) ==
    CASE t = "Hexadecimal" -> HexTranslator(n, value)
      [] t = "Octal" -> OctalTranslator(n, value)
      [] t = "Bit" -> BitTranslator(n, value)
      [] t = "Binary" -> BinaryTranslator(n, value)
      [] t = "Binary (with groups)" -> GroupingBinaryTranslator(n, value)
      [] t = "ASCII" -> ASCIITranslator(n, value)
      [] t = "LEBxxx" -> LebTranslator(n, value)
      [] t = "Unsigned" -> UnsignedTranslator(n, value)
      [] t = "Signed" -> SignedTranslator(n, value)
      [] t = "E5M2" -> E5M2Translator(n, value)
      [] t = "E4M3" -> E4M3Translator(n, value)
      [] t = "Number of ones" -> NumberOfOnesTranslator(n, value)
      [] t = "Trailing ones" -> TrailingOnesTranslator(n, value)
      [] t = "Trailing zeros" -> TrailingZerosTranslator(n, value)
      [] t = "Leading ones" -> LeadingOnesTranslator(n, value)
      [] t = "Leading zeros" -> LeadingZerosTranslator(n, value)
      [] t = "Identical MSBs" -> IdenticalMSBsTranslator(n, value)
      [] t = "RGB" -> RGBTranslator(n, value)
      [] t = "YCbCr" -> YCbCrTranslator(n, value)
      [] t = "Grayscale" -> GrayScaleTranslator(n, value)

(* parse_numeric_string: the number a text of digits stands for, <<>> when it *)
(* has other characters.                                                      *)
ParseNumericString(digits, base) ==
    LET Value(c) == (CHOOSE i \in DOMAIN Hex : Hex[i] = c) - 1
    IN  IF \A i \in DOMAIN digits :
               digits[i] \in ToSet(Hex) /\ Value(digits[i]) < base
        THEN Decimal(FoldLeft(LAMBDA n, c : base * n + Value(c), 0, digits))
        ELSE <<>>

(* basic_translate_numeric: octal digits are read as decimal ones, and a text *)
(* in groups is not a number.                                                 *)
BasicTranslateNumeric(t, n, value) ==
    LET shown == BasicTranslate(t, n, value)
        base == IF t = "Hexadecimal" THEN 16
                ELSE IF t \in {"Binary", "Binary (with groups)"} THEN 2 ELSE 10
    IN  CASE t = "Unsigned" -> UnsignedNumeric(n, value)
          [] t = "Signed" -> SignedNumeric(n, value)
          [] t = "Number of ones" -> NumberOfOnesNumeric(n, value)
          [] t = "Trailing ones" -> TrailingOnesNumeric(n, value)
          [] t = "Trailing zeros" -> TrailingZerosNumeric(n, value)
          [] t = "Leading ones" -> LeadingOnesNumeric(n, value)
          [] t = "Leading zeros" -> LeadingZerosNumeric(n, value)
          [] t = "Identical MSBs" -> IdenticalMSBsNumeric(n, value)
          [] t \in {"Hexadecimal", "Octal", "Binary", "Binary (with groups)"} ->
                IF shown.kind = "HighImp" THEN <<"highimp">>
                ELSE IF shown.kind = "Undef" THEN <<"undef">>
                ELSE ParseNumericString(shown.text, base)

-----------------------------------------------------------------------------

AsText(v, num_bits) == Text(Digits(v, 1, num_bits))

(* A value is shown the same whether the file kept it as a number or as a     *)
(* text of zeros and ones, with or without its leading zeros: a signal with   *)
(* one unknown bit anywhere, and every field of a compound value, arrives as  *)
(* text.                                                                      *)
SameInBothForms(num_bits, v) ==
    \A i \in DOMAIN TextTranslators :
        LET shown == BasicTranslate(TextTranslators[i], num_bits, Number(v))
        IN  \A width \in {1, num_bits} :
               BasicTranslate(TextTranslators[i], num_bits, AsText(v, width)) = shown

(* The counts and integers plotted as an analog signal are the ones shown, in *)
(* both forms of the value.                                                   *)
PlottedAsShown(num_bits, v) ==
    \A t \in {"Unsigned", "Signed", "Number of ones", "Trailing ones", "Trailing zeros",
               "Leading ones", "Leading zeros", "Identical MSBs"} :
        \A value \in {Number(v), AsText(v, num_bits)} :
            BasicTranslateNumeric(t, num_bits, value) = BasicTranslate(t, num_bits, value).text

(* The text of a fixed point number is exactly its value: the digits after    *)
(* the point always suffice.                                                  *)
(* What is plotted lies within the limits an axis by type is given, and the *)
(* limits are values that occur (integer_numeric_range).                    *)
PlottedWithinLimits(num_bits) ==
    \A signed \in BOOLEAN :
        {IF signed THEN SignedValue(v, num_bits) ELSE v : v \in 0..(Pow2[num_bits] - 1)}
            = IntegerNumericRange(num_bits, signed)

FixedPointExact(v, lg) ==
    LET shown == BigUintToUfixed(v, lg)
        k == Len(shown.digits)
        Pow10 == FoldLeft(LAMBDA p, d : 10 * p, 1, shown.digits)
        frac == FoldLeft(LAMBDA n, d : 10 * n + d, 0, shown.digits)
    IN  v * Pow10 = (shown.whole * Pow10 + frac) * Pow2[lg]

(* A negative fixed point number is shown as a sign and its magnitude.      *)
SignedFixedPointExact(num_bits, v, lg) ==
    LET shown == BigUintToSfixed(v, num_bits, lg)
        value == SignedValue(v, num_bits)
    IN  /\ shown.sign = (IF value < 0 THEN "-" ELSE "")
        /\ shown.magnitude = BigUintToUfixed(IF value < 0 THEN -value ELSE value, lg)

(* A variable with names for its values is shown with them, also when the     *)
(* file reports it as a signed integer.                                       *)
EnumShownAsEnum(meta) ==
    meta.enum /\ meta.type \in {"signed", "other"} => SelectPreferredTranslator(meta) = "Enum"

==============================================================================
