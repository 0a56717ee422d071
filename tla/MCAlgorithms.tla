---------------------------- MODULE MCAlgorithms ----------------------------
(***************************************************************************)
(* The pure algorithms of the program against reference definitions: every *)
(* small item tree (MCTreeAlgorithms), and for the others one input after  *)
(* the other, chosen by the first step.                                    *)
(***************************************************************************)
EXTENDS MCTreeAlgorithms, Integers

VARIABLE input     \* what an algorithm is applied to, named by its field "of"

None == [of |-> "none"]
Take(inputs) == items = <<>> /\ input = None /\ input' \in inputs /\ UNCHANGED items

SeqsOf(S, n) == UNION {[1..k -> S] : k \in 1..n}

-----------------------------------------------------------------------------
(* Protocol decoders.  The inputs leave out what is known to be decoded     *)
(* wrongly: a clock that stops with a word cut short, an invalid bit before *)
(* the last of an I2C byte, a parity bit on a line that idles low.          *)
sender == INSTANCE DecoderSenders

SpiSettings == [cpol : BOOLEAN, cpha : BOOLEAN, cs_active_low : BOOLEAN, word_size : {2, 3},
                bit_order : {"MsbFirst", "LsbFirst"}, format : {"Binary"}]
Bit == {0, 1, sender!Invalid}
SpiInputs ==
  [of : {"spi"}, s : SpiSettings, gap : {2}, free : {TRUE},
   transfers : {<<t>> : t \in SeqsOf(Bit, 3)} \cup {<<<<1, 0>>, t>> : t \in SeqsOf({0, 1}, 3)}]
    \cup
  {i \in [of : {"spi"}, s : SpiSettings, gap : {2}, free : {FALSE},
          transfers : {<<t, u>> : t, u \in [1..2 -> {0, 1}]}] : i.s.word_size = 2}
SpiFaithful == input.of = "spi" => sender!SpiFaithful(input)

UartInputs ==
  {i \in [of : {"uart"}, gap : {0, 1}, period : {2, 3},
          frames : {<<f>> : f \in [1..3 -> Bit]} \cup {<<<<1, 0, 1>>, f>> : f \in [1..3 -> {0, 1}]},
          s : [idle_high : BOOLEAN, parity : {"None", "Even", "Odd"}, stop_bits : {1, 2},
               data_bits : {3}, bit_period : {2, 3}, bit_order : {"MsbFirst", "LsbFirst"},
               format : {"Decimal"}]] :
     i.period = i.s.bit_period /\ (i.s.idle_high \/ i.s.parity = "None")}
UartFaithful == input.of = "uart" => sender!UartFaithful(input)

Byte(v, ack) == [bits |-> sender!Bits8(v), ack |-> ack]
I2cInputs ==
  [of : {"i2c"}, stop : BOOLEAN, s : [split_address : BOOLEAN, format : {"Hex"}],
   messages : {<<<<Byte(v, ack)>>>> : v \in {0, 131, 254}, ack \in {0, 1}}
         \cup {<<<<Byte(160, 0), Byte(v, 1)>>>> : v \in {1, 255}}
         \cup {<<<<Byte(160, 0), Byte(9, 0)>>, <<Byte(161, 0), Byte(76, 1)>>>>}
         \cup {<<<<[bits |-> <<1, 0, 1, 0, 0, 0, 0, sender!Invalid>>, ack |-> 0]>>>>}]
I2cFaithful == input.of = "i2c" => sender!I2cFaithful(input)

-----------------------------------------------------------------------------
(* The range queries behind analog rows: all signals of few samples, one of *)
(* which may be no number, in blocks of one or two.                         *)
analog == INSTANCE SignalRMQ WITH NaN <- 99, Infinity <- 100
RmqInputs == [of : {"rmq"}, values : SeqsOf({1, 2, 99}, 5), size : {1, 2}]
AnalogRangeCorrect ==
  input.of = "rmq" =>
    LET n == Len(input.values)
        rmq == analog!Build([i \in 1..n |-> 2 * i], input.values, input.size) IN
    \A from \in 1..(2 * n + 1) :
       /\ analog!PointCorrect(rmq, from)
       /\ \A to \in from..(2 * n + 1) : analog!RangeCorrect(rmq, from, to)

-----------------------------------------------------------------------------
(* What is drawn.  Values "1" and "2" are shown as the same text.           *)
drawing == INSTANCE Navigation WITH
  Translate <- LAMBDA value : IF value = "2" THEN "1" ELSE value, Grain <- 1000,
  IsZero <- LAMBDA value : value = "0"

Views == {v \in [left : {-2, 0, 1}, right : {2, 4, 7}, width : {2, 3}, extra : {1}, max : {6}] :
            v.left < v.right}
Ascending(S) == [i \in 1..Cardinality(S) |->
                   CHOOSE t \in S : Cardinality({u \in S : u < t}) = i - 1]
Signals ==
  UNION {[1..Cardinality(S) -> {"0", "1", "2"}] \X {Ascending(S)} :
           S \in {S \in SUBSET {0, 1, 2, 4, 5} : Cardinality(S) \in 1..2}}
SignalOf(p) == [i \in DOMAIN p[1] |-> [time |-> p[2][i], value |-> p[1][i]]]
DrawInputs ==
  {[of |-> "draw", view |-> v, signal |-> SignalOf(p), info |-> i] :
     v \in Views, p \in Signals, i \in {"Bool", "Clock"}}
Intervals(S) ==   \* consecutive pairs of the times in S
  LET t == Ascending(S) IN
  [k \in 1..(Cardinality(S) \div 2) |->
     [start |-> t[2 * k - 1], end |-> t[2 * k], text |-> IF k <= 2 THEN "w" ELSE "v"]]
TransferInputs ==
  {[of |-> "transfers", view |-> v, words |-> Intervals(S)] :
     v \in Views, S \in {S \in SUBSET (0..6) : Cardinality(S) \in {2, 4, 6}}}

\* Up to three transactions of a generator, in the order in which they start.
StartInOrder(transactions) ==
  /\ \A j \in DOMAIN transactions : transactions[j].start <= transactions[j].end
  /\ \A j \in 2..Len(transactions) : transactions[j - 1].start <= transactions[j].start
GeneratorInputs ==
  {i \in [of : {"generator"}, view : Views, transactions : SeqsOf([start : 0..3, end : 0..4], 3)] :
     StartInOrder(i.transactions)}

ClockInputs ==
  [of : {"clocks"}, clocks : SeqsOf({Ascending(S) : S \in SUBSET {0, 2, 12, 14}}, 3)]

NoTwoZeros(signal) ==
  \A i \in 2..Len(signal) : signal[i].value = "0" => signal[i - 1].value # "0"
SessionAt(cursor) == [cursor |-> <<cursor>>, focused |-> TRUE, left |-> 0, right |-> 6, end |-> 6]
CursorInputs ==
  {i \in [of : {"cursor"}, cursor : 0..6, signal :
          {SignalOf(p) : p \in UNION {[1..Cardinality(S) -> {"0", "1", "2"}] \X {Ascending(S)} :
             S \in {S \in SUBSET {0, 1, 3, 5} : S # {}}}}] : NoTwoZeros(i.signal)}
\* Identifiers are handed out among three generators of two streams.
Streams == [s1 |-> <<1, 2>>, s2 |-> <<3>>]
FocusInputs ==
  [of : {"focus"}, owner : [1..4 -> 1..3],
   rows : {<<[stream |-> "s1", gen |-> <<>>]>>,
           <<[stream |-> "s2", gen |-> <<3>>], [stream |-> "s1", gen |-> <<>>]>>,
           <<[stream |-> "s1", gen |-> <<2>>], [stream |-> "s2", gen |-> <<>>],
             [stream |-> "s1", gen |-> <<1>>]>>}]
GeneratorsOf(owner) == [g \in 1..3 |-> SelectSeq(<<4, 2, 1, 3>>, LAMBDA id : owner[id] = g)]
RowInputs ==
  {i \in [of : {"rows"}, transactions : SeqsOf([start : 0..3, end : 1..4], 3)] :
     StartInOrder(i.transactions)}

\* Every pixel of a row shows what was recorded for its time, of a signal, of a
\* decoder and of transactions of which none lies inside another (for the others
\* see FirstVisibleFound of Drawing), the cursor snaps to the nearest change, and the
\* next and previous commands visit all of it (drawing_canvas.rs,
\* set_cursor_at_transition, move_to_transaction, calculate_rows_of_stream).
DrawnAsRecorded ==
  /\ input.of = "draw" =>
       /\ drawing!DrawnAsRecorded(input.view, input)
       /\ input.signal[1].time = 0 =>
            \A x \in 0..(input.view.width - 1) : drawing!SnapsToNearest(input.view, input.signal, x, 1)
  /\ input.of = "transfers" => drawing!WordsShown(input.view, input.words)
  /\ input.of = "generator" /\ drawing!EndInOrder(input.transactions) =>
       drawing!TransactionsShown(input.view, input.transactions)
  /\ input.of = "clocks" => drawing!ClockModesAgree(input.clocks)
  /\ input.of = "cursor" => drawing!VisitsChanges(SessionAt(input.cursor), input.signal)
  /\ input.of = "focus" =>
       drawing!VisitsTransactions(input.rows, Streams, GeneratorsOf(input.owner))
  /\ input.of = "rows" => drawing!RowsKeepApart(input.transactions)

-----------------------------------------------------------------------------
(* Translators: all values of up to nine bits, all variables a file can     *)
(* describe, and mapping files of two lines.                                *)
mapping == INSTANCE MappingTranslator WITH Colors <- {"red"}

ValueInputs == {i \in [of : {"value"}, bits : 1..9, v : 0..300] : i.v < 2^i.bits}
MetaInputs ==   \* names for values come with vectors of bits
  {i \in [of : {"meta"}, meta : [num_bits : {0, 2, 8},
            type : {"signed", "unsigned", "ufixed", "sfixed", "other"}, integer : BOOLEAN,
            enum : BOOLEAN, event : BOOLEAN, encoding : {"BitVector", "Real", "String"}]] :
     i.meta.enum => ~i.meta.event /\ i.meta.encoding = "BitVector"}
Entry(radix, digits) ==
  {[what |-> "entry", radix |-> radix, digits |-> digits, kind |-> <<>>, label |-> <<label>>] :
     label \in {"first", "second"}}
Entries ==
  UNION {Entry("0b", d) : d \in {<<"0">>, <<"1">>, <<"0", "1">>, <<"1", "x">>, <<"x">>, <<"0", "x">>}}
    \cup UNION {Entry(r, d) : r \in {"0o", "0x", ""}, d \in {<<"1">>, <<"2">>, <<"0", "1">>}}
Widths == {<<>>} \cup {<<[what |-> "bits", n |-> <<n>>]>> : n \in {2, 3}}
Values == {mapping!Number(n) : n \in 0..3}
            \cup {mapping!Text(t) : t \in {<<"x">>, <<"x", "x">>, <<"0", "x">>, <<"z", "1">>}}
MappingInputs ==
  {[of |-> "mapping", lines |-> w \o <<k, l>>, value |-> v] :
     w \in Widths, k, l \in Entries, v \in Values}

\* A value is shown, plotted and labelled as what it is in every form it can
\* arrive in (basic_translators.rs, numeric_translators.rs, fixed_point.rs,
\* mapping_translators.rs, translation.rs).
TranslationsAgree ==
  /\ input.of = "value" =>
       /\ mapping!SameInBothForms(input.bits, input.v)
       /\ mapping!PlottedAsShown(input.bits, input.v)
       /\ input.v = 0 => mapping!PlottedWithinLimits(input.bits)
       /\ \A lg \in 0..6 : /\ mapping!FixedPointExact(input.v, lg)
                          /\ mapping!SignedFixedPointExact(input.bits, input.v, lg)
  /\ input.of = "meta" => mapping!EnumShownAsEnum(input.meta)
  /\ input.of = "mapping" => mapping!FirstLineDecides(input.lines, input.value)

-----------------------------------------------------------------------------
(* Shortcuts and gestures: the default table, tables of three actions with  *)
(* two keys, and drags of up to twenty pixels in both directions.           *)
shortcut == INSTANCE Shortcuts
gesture == INSTANCE Gestures WITH
  MeasureByDefault <- FALSE, MaxPresses <- 0, button <- input, mods <- input, press <- input,
  start <- input, low <- input, measure <- input, kind <- input, done <- input
Mods == SUBSET {"Shift", "Command"} \cup {{"Alt"}, {"Alt", "Shift"}}
Keys == [mods : Mods, key : {"P", "Q"}]
ShortcutInputs ==
  {[of |-> "shortcut", table |-> shortcut!Default]}
    \cup {[of |-> "shortcut", table |-> <<<<"One", <<k>>>>, <<"Two", <<l>>>>, <<"Three", <<m>>>>>>] :
            k, l, m \in Keys}
DragInputs == [of : {"drag"}, x : -20..20]
Distinct(table) == \A i, j \in DOMAIN table : table[i][2] = table[j][2] => i = j
\* The keys of a binding run its action, and a drag is the gesture of the
\* nearest direction (shortcuts.rs, mousegestures.rs).
InputUnderstood ==
  /\ input.of = "shortcut" => /\ Distinct(input.table) => shortcut!ExactBindingWins(input.table)
                              /\ shortcut!FixedKeysKeepMeaning(input.table)
  /\ input.of = "drag" => \A y \in -20..20 : gesture!ZoneIsNearest(input.x, y)

-----------------------------------------------------------------------------
(* Names: up to four variables of the same name in nested scopes.           *)
naming == INSTANCE UniqueNames
Variables == [path : SeqsOf({1, 2}, 3) \cup {<<>>}, name : {1}]
NameInputs ==
  {[of |-> "names", variables |-> vs] : vs \in UNION {kSubset(k, Variables) : k \in 2..4}}
\* The unique names of the variables on display differ (variable_name_type.rs).
NamesTellApart ==
  input.of = "names" =>
    LET order == SetToSeq(input.variables) IN
    naming!NamesTellApart([i \in DOMAIN order |-> [variable |-> order[i], type |-> "Unique"]])

-----------------------------------------------------------------------------
(* The command prompt in a session with a waveform: every command that is   *)
(* offered.  A text matches itself and what it is a part of.                *)
IsPartOf(text, option) ==
  /\ Len(option) = 1 /\ Len(text) = 1
  /\ \E i \in 1..Len(option[1]) :
        /\ i + Len(text[1]) - 1 <= Len(option[1])
        /\ SubSeq(option[1], i, i + Len(text[1]) - 1) = text[1]
commands == INSTANCE Commands WITH
  Score <- LAMBDA option, text : IF option = text \/ IsPartOf(text, option) THEN 1 ELSE 0,
  Length <- LAMBDA option : FoldLeft(LAMBDA n, word : n + Len(word), Len(option), option),
  Numbers <- [x \in {"0", "1", "2", "10"} |->
                CASE x = "0" -> 0 [] x = "1" -> 1 [] x = "2" -> 2 [] x = "10" -> 10],
  Units <- {"ns"}, Special <- [x \in {"#1", "#10"} |->
                                 <<"#", IF x = "#1" THEN "1" ELSE "10">>]

Session ==
  [waves |-> TRUE, transactions |-> FALSE, active |-> <<"top">>,
   scopes |-> <<"top", "top.cpu">>, variables |-> <<"top.clk", "top.clk_en">>,
   inScope |-> <<"clk_en", "clk">>, arrays |-> <<"top.mem">>, items |-> <<"0_clk", "10_clk_en">>,
   markers |-> <<[name |-> <<"stop">>, idx |-> "10", hash |-> "#10"],
                 [name |-> <<>>, idx |-> "1", hash |-> "#1"]>>,
   viewports |-> <<"0", "1">>, viewport |-> "0", files |-> <<"a.vcd.gz", "a.vcd">>,
   scripts |-> <<"a.sucl">>, remote |-> <<"b.fst">>, wcp |-> FALSE, menu |-> TRUE,
   side |-> TRUE, ticks |-> FALSE, groups |-> <<"files", "view">>,
   formats |-> <<"Signed", "Unsigned">>, colors |-> <<"DarkRed", "Red">>,
   heights |-> <<"10", "1", "2">>, themes |-> <<"default", "dark+", "dark">>,
   state |-> <<>>, keep |-> FALSE]
WithTransactions ==
  [Session EXCEPT !.transactions = TRUE, !.variables = <<"tr.gen", "tr">>, !.arrays = <<>>,
                  !.wcp = TRUE]
Sessions == {s \in {Session, WithTransactions} : commands!IsGathered(s)}
\* With transactions scopes are offered as groups, though that is refused.
CommandInputs ==
  UNION {{[of |-> "command", session |-> s, command |-> c] :
            c \in ToSet(commands!Offered(s))
                     \ (IF s.transactions THEN commands!AddGroupCommands ELSE {})} :
           s \in Sessions}

\* What the prompt completes to is the command and the parameter that were
\* typed, not a longer one (command_parser.rs, fuzzy_match).
OfferedCommandRuns ==
  input.of = "command" => commands!OfferedCommandRuns(input.session, input.command)

\* Command files of one or two commands, one of which may include another file.
Included == [f \in {"a.sucl"} |-> <<<<"zoom_in">>, <<"toggle_menu">>>>]
BatchInputs ==
  [of : {"batch"}, commands : SeqsOf({<<"zoom_fit">>, <<"exit">>, <<"run_command_file", "a.sucl">>}, 2)]

\* A command file is run in the place of the command that names it ("Load
\* commands from other file in place", parse_batch_commands).
IncludedInPlace ==
  input.of = "batch" => commands!IncludedInPlace(Session, Included, input.commands)

-----------------------------------------------------------------------------
(* Times: ticks of some size, shown in a unit and typed in again, by way of *)
(* numbers of ten bits.                                                     *)
times == INSTANCE Times WITH MantissaBits <- 10
TimeInputs ==
  [of : {"time"}, time : 0..20 \cup 500..515 \cup {100, 101, 1000, 1050, 1500},
   scale : [unit : {"ms", "us"}, mult : {1, 10, 100}], wanted : {"s", "ms", "us", "None", "Auto"}]
\* A time that is shown is typed again as the same time (time.rs), as long as its
\* digits fit into the floating point number it is divided in.
ShownTimeParses ==
  input.of = "time" => times!ShownTimeParses(input.time, input.scale, input.wanted)

-----------------------------------------------------------------------------
GrowTree == input = None /\ Grow /\ UNCHANGED input
TakeTransfer == Take(SpiInputs \cup UartInputs \cup I2cInputs)
TakeSamples == Take(RmqInputs)
TakeView == Take(DrawInputs \cup TransferInputs \cup GeneratorInputs \cup ClockInputs)
TakeMove == Take(CursorInputs \cup FocusInputs \cup RowInputs)
TakeValue == Take(ValueInputs \cup MetaInputs \cup MappingInputs)
TakeTable == Take(ShortcutInputs \cup DragInputs)
TakeNames == Take(NameInputs)
TakeCommand == Take(CommandInputs \cup BatchInputs)
TakeTime == Take(TimeInputs)

AlgorithmsInit == Init /\ input = None
AlgorithmsNext ==
  \/ GrowTree
  \/ TakeTransfer
  \/ TakeSamples
  \/ TakeView
  \/ TakeMove
  \/ TakeValue
  \/ TakeTable
  \/ TakeNames
  \/ TakeCommand
  \/ TakeTime
AlgorithmsSpec == AlgorithmsInit /\ [][AlgorithmsNext]_<<vars, input>>

\* A decoder writes down what was sent, in order and without overlap (spi.rs,
\* uart.rs, i2c.rs).
DecodesWhatWasSent == SpiFaithful /\ UartFaithful /\ I2cFaithful

\* The tree the panels show and let the user drop into: what the iterators
\* visit, no insertion at an accepted place takes a child from its parent, and
\* what is offered as a drop is accepted (displayed_item_tree.rs).
PlacesKeepParents == VisibleAsIterated /\ InsertKeepsParents /\ OfferedDropsAccepted

\* Items move as the comment of move_items describes; a step up or down reports
\* the item it moved, and a step down undoes a step up (displayed_item_tree.rs).
ItemsMoveAsDocumented == MoveAsDocumented /\ MoveReportsItem /\ DownUndoesUp
=============================================================================
