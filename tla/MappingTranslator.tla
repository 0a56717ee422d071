-------------------------- MODULE MappingTranslator --------------------------
(* Mapping files: lines that give values a label and a kind                   *)
(* (translation/mapping_translators.rs).                                      *)
(*                                                                            *)
(* A line is [what |-> "blank"], [what |-> "name", name],                     *)
(* [what |-> "bits", n], n <<>> when it is not a number, or                   *)
(* [what |-> "entry", radix, digits, kind, label]: radix is "0b", "0o", "0x"  *)
(* or "", digits the characters after it without underscores, kind <<>> or    *)
(* the word in brackets, label <<>> or the rest of the line.  The outcome of  *)
(* reading a file is [outcome |-> "ok", name, bits, entries], "error" or      *)
(* "panic".                                                                   *)
EXTENDS Translators

CONSTANT Colors     \* The names and the six digit codes of colours.

Value(c) == (CHOOSE i \in DOMAIN Hex : Hex[i] = c) - 1
Base == [r \in {"0b", "0o", "0x", ""} |->
            CASE r = "0b" -> 2 [] r = "0o" -> 8 [] r = "0x" -> 16 [] r = "" -> 10]

(* BigUint::parse_bytes: a text without digits is not a number. *)
IsNumber(digits, base) ==
    digits # <<>> /\ \A i \in DOMAIN digits : digits[i] \in ToSet(Hex) /\ Value(digits[i]) < base
ParseBytes(digits, base) == FoldLeft(LAMBDA n, c : base * n + Value(c), 0, digits)

(* parse_key_value: <<>> or the value and its length in bits. *)
ParseKeyValue(radix, digits) ==
    LET base == Base[radix]
        n == ParseBytes(digits, base)
    IN  IF IsNumber(digits, base)
        THEN <<[value |-> Number(n), len |-> IF radix = "0b" THEN Len(digits) ELSE NumBits(n)]>>
        ELSE IF radix = "0b" /\ \A i \in DOMAIN digits :
                                   digits[i] \in {"0", "1"} \cup ToSet(Special)
        THEN <<[value |-> Text(digits), len |-> Len(digits)]>>
        ELSE <<>>

Kinds == {"normal", "default", "undef", "highimp", "warn", "dontcare", "weak", "error"}
(* parse_key_with_kind and parse_color_kind: <<>> for a kind that is unknown. *)
ParseColorKind(kind) ==
    IF kind = <<>> \/ kind[1] \in {"normal", "default"} THEN <<"Normal">>
    ELSE IF kind[1] \in Kinds \cup Colors THEN <<kind[1]>> ELSE <<>>

(* parse_line *)
ParseLine(line) ==
    LET key == ParseKeyValue(line.radix, line.digits)
        kind == ParseColorKind(line.kind)
    IN  IF key = <<>> \/ kind = <<>> \/ line.label = <<>> THEN <<>>
        ELSE <<[value |-> key[1].value, len |-> key[1].len,
                kind |-> kind[1], label |-> line.label[1]]>>

(* normalize_first_column: [outcome, key]. *)
NormalizeFirstColumn(value, len, bit_width) ==
    IF len > bit_width THEN [outcome |-> "error"]
    ELSE IF value.form = "number" THEN [outcome |-> "ok", key |-> value]
    ELSE IF value.bits = <<>> THEN [outcome |-> "panic"]
    ELSE [outcome |-> "ok", key |-> Text(Extended(value.bits, bit_width))]

(* Wrong: a later line replaces an earlier one with the same value. *)
Mut_AddEntry(map, raw) ==
    LET k == NormalizeFirstColumn(raw.value, raw.len, map.bits)
    IN  IF map.outcome # "ok" THEN map
        ELSE IF k.outcome # "ok" THEN [map EXCEPT !.outcome = k.outcome]
        ELSE [map EXCEPT !.entries = <<[key |-> k.key, label |-> raw.label, kind |-> raw.kind]>> \o @]

AddEntry(map, raw) ==
    LET k == NormalizeFirstColumn(raw.value, raw.len, map.bits)
    IN  IF map.outcome # "ok" THEN map
        ELSE IF k.outcome # "ok" THEN [map EXCEPT !.outcome = k.outcome]
        ELSE [map EXCEPT !.entries = Append(@, [key |-> k.key, label |-> raw.label, kind |-> raw.kind])]

(* parse_content_with_default_name *)
ParseContent(lines, default_name) ==
    LET Of(what) == SelectSeq(lines, LAMBDA l : l.what = what)
        names == Of("name")
        bits == Of("bits")
        raw == [i \in DOMAIN Of("entry") |-> ParseLine(Of("entry")[i])]
        bad == \/ Len(names) > 1 \/ Len(bits) > 1
               \/ \E i \in DOMAIN bits : bits[i].n = <<>>
               \/ \E i \in DOMAIN raw : raw[i] = <<>>
        entries == [i \in DOMAIN raw |-> raw[i][1]]
        width == IF bits # <<>> THEN bits[1].n[1]
                 ELSE Max({0} \cup {entries[i].len : i \in DOMAIN entries})
    IN  IF bad THEN [outcome |-> "error"]
        ELSE FoldLeft(AddEntry,
                      [outcome |-> "ok", bits |-> width, entries |-> <<>>,
                       name |-> IF names # <<>> THEN names[1].name ELSE default_name],
                      entries)

(* basic_translate: a value is looked up in the form it arrives in.  The      *)
(* entries keep the first line of a value.                                    *)
Lookup(map, key) ==
    LET found == {i \in DOMAIN map.entries : /\ map.entries[i].key.form = key.form
                                             /\ map.entries[i].key = key}
    IN  IF found = {} THEN <<>> ELSE <<map.entries[Min(found)]>>
BasicTranslateMapping(map, num_bits, value) ==
    LET key == IF value.form = "number" THEN value ELSE Text(Extended(value.bits, num_bits))
        entry == Lookup(map, key)
        shown == BitsOf(num_bits, key)
    IN  IF entry # <<>> THEN Result(<<entry[1].label>>, entry[1].kind)
        ELSE Result(shown, KindForBinaryRepresentation(shown))

-----------------------------------------------------------------------------

(* A value of a variable matches a line when both stand for the same bits. *)
Names(line, value, num_bits) ==
    LET key == ParseKeyValue(line.radix, line.digits)[1].value
    IN  Extended(BitsOf(num_bits, key), num_bits) = Extended(BitsOf(num_bits, value), num_bits)

FirstNaming(lines, value, num_bits) ==
    LET entries == SelectSeq(lines, LAMBDA l : l.what = "entry")
        found == {i \in DOMAIN entries : Names(entries[i], value, num_bits)}
    IN  IF found = {} THEN <<>> ELSE <<entries[Min(found)]>>

(* In a file that is accepted, the first line that names a value gives the    *)
(* variable its label, whatever the radix it is written in, the leading       *)
(* zeros it leaves out and the width the file states or implies.              *)
FirstLineDecides(lines, value) ==
    \A map \in {ParseContent(lines, "file")} : map.outcome = "ok" =>
        \A line \in {FirstNaming(lines, value, map.bits)} :
            BasicTranslateMapping(map, map.bits, value).text =
                IF line = <<>> THEN Extended(BitsOf(map.bits, value), map.bits)
                ELSE line[1].label

(* docs/plugins/mapping.md: the kinds a line may give. *)
DocumentedKinds == {"default", "dontcare", "error", "event", "highimp", "normal",
                    "undef", "weak"}
KindsAccepted == \A k \in DocumentedKinds : ParseColorKind(<<k>>) # <<>>

(* A file is read or refused, never the end of the program. *)
FileReadOrRefused(lines) == ParseContent(lines, "file").outcome \in {"ok", "error"}

==============================================================================
