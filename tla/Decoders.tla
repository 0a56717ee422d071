------------------------------ MODULE Decoders ------------------------------
(***************************************************************************)
(* The protocol decoders of decoders/: SPI, I2C and UART, as functions     *)
(* from the transitions of the bound signals to decoded words.             *)
(*                                                                         *)
(* A lane is a sequence of <<time, bit>> with increasing times; a bit is   *)
(* 0, 1 or Invalid (x, z or a vector). A word is a record of its start,    *)
(* its end, its text and its kind. A text is a sequence of digits; the     *)
(* decoder's remarks begin with a negative number.                         *)
(***************************************************************************)
EXTENDS Integers, Sequences, SequencesExt, FiniteSetsExt

Invalid == 2
None == -1                        \* no value yet, no bit period
NoLane == <<<<0, None>>>>         \* the lane of an unbound role

Bad       == <<-1>>               \* "x"
Parity    == <<-2>>               \* "parity"
Framing   == <<-3>>               \* "framing"
Partial(n, size) == <<-4, n, size>>  \* "n of size bits"
Char(c)   == <<-5, c>>            \* 'c'

Word(start, end, text, kind) ==
    [start |-> start, end |-> end, text |-> text, kind |-> kind]

\* A finite set in increasing order of a numeric key, distinct on the set.
\* (SetToSortSeq enumerates the sequences over the set.)
Sorted(S, Key(_)) ==
    [k \in 1 .. Cardinality(S) |->
        CHOOSE x \in S : Cardinality({y \in S : Key(y) < Key(x)}) = k - 1]

(***************************************************************************)
(* BitLane.                                                                *)
(***************************************************************************)
\* The value set by the last transition at or before t.
ValueAt(lane, t) ==
    LET idx == Cardinality({i \in DOMAIN lane : lane[i][1] <= t})
    IN  IF idx > 0 THEN lane[idx][2] ELSE None

\* The times of the transitions to a level; the first value is no transition.
EdgesTo(lane, to) ==
    LET edges == {i \in 2 .. Len(lane) : lane[i][2] = to /\ lane[i - 1][2] # to}
        is == Sorted(edges, LAMBDA i : i)
    IN  [k \in DOMAIN is |-> lane[is[k]][1]]

(***************************************************************************)
(* WordFormat::format, as digits: hexadecimal and binary are padded to the *)
(* width of the word, a printable byte is shown as a character.            *)
(***************************************************************************)
MaxDigits == 7        \* of a value that is not padded

Digits(value, base, width) ==
    LET places == 1 .. width \cup {k \in 1 .. MaxDigits : value >= base ^ (k - 1)}
        n == Max(places \cup {1})
    IN  [k \in 1 .. n |-> (value \div base ^ (n - k)) % base]

Format(format, value, bits) ==
    CASE format = "Hex"     -> Digits(value, 16, (bits + 3) \div 4)
      [] format = "Decimal" -> Digits(value, 10, 1)
      [] format = "Binary"  -> Digits(value, 2, bits)
      [] format = "Ascii" /\ value \in 32 .. 126 -> Char(value)
      [] format = "Ascii" /\ value \notin 32 .. 126 -> Digits(value, 16, 2)

Shifted(order, acc, count, b) ==
    IF order = "MsbFirst" THEN 2 * acc + b ELSE acc + b * 2 ^ count

(***************************************************************************)
(* SPI: a bit of data per sampling edge of the clock while chip select is  *)
(* active, word_size bits to a word.                                       *)
(***************************************************************************)
Mut_SamplingLevel(s) == IF s.cpol THEN 0 ELSE 1     \* forgets the phase
SamplingLevel(s) == IF (~s.cpol) = (~s.cpha) THEN 1 ELSE 0

IsSelected(s, cs, t) == ValueAt(cs, t) = IF s.cs_active_low THEN 0 ELSE 1

SpiTruncated(w, end, size) ==
    Word(w.start, end, Partial(w.count, size), "Error")

\* One iteration of the loop of decode_one, for the sampling edge at t.
SpiSample(s, data, cs, size, w, t) ==
    LET selected == cs = NoLane \/ IsSelected(s, cs, t)
        cut == w.selected /\ ~selected /\ w.count > 0
        bit == ValueAt(data, t)
        good == bit \in {0, 1}
        acc == IF good THEN Shifted(s.bit_order, w.acc, w.count, bit) ELSE w.acc
        bad == w.invalid \/ ~good
        start == IF w.count = 0 THEN t ELSE w.start
        full == w.count + 1 = size
        word == Word(start, t, IF bad THEN Bad ELSE Format(s.format, acc, size),
                     IF bad THEN "Error" ELSE "Data")
    IN  CASE cut -> [w EXCEPT !.words = Append(@, SpiTruncated(w, t, size)),
                              !.acc = 0, !.count = 0, !.invalid = FALSE,
                              !.selected = FALSE]
          [] ~cut /\ ~selected -> [w EXCEPT !.selected = FALSE]
          [] selected /\ full ->
                [words |-> Append(w.words, word), acc |-> 0, count |-> 0,
                 start |-> start, invalid |-> FALSE, selected |-> TRUE]
          [] selected /\ ~full ->
                [w EXCEPT !.acc = acc, !.count = @ + 1, !.start = start,
                          !.invalid = bad, !.selected = TRUE]

\* Each word but the last is stretched to the start of the next one.
Stretched(words) ==
    [i \in DOMAIN words |->
        IF i < Len(words) THEN [words[i] EXCEPT !.end = words[i + 1].start]
                          ELSE words[i]]

SpiDecodeOne(s, data, cs, times) ==
    LET size == Max({1, Min({64, s.word_size})})
        w == FoldLeft(LAMBDA acc, t : SpiSample(s, data, cs, size, acc, t),
                      [words |-> <<>>, acc |-> 0, count |-> 0, start |-> 0,
                       invalid |-> FALSE, selected |-> FALSE], times)
        all == IF w.count > 0
               THEN Append(w.words, SpiTruncated(w, Last(times), size))
               ELSE w.words
    IN  Stretched(all)

\* One lane of words for MOSI and one for MISO; an unbound role gives none.
SpiDecode(s, lanes) ==
    [k \in 1 .. 2 |->
        IF lanes.sclk = NoLane \/ lanes.data[k] = NoLane THEN <<>>
        ELSE SpiDecodeOne(s, lanes.data[k], lanes.cs,
                          EdgesTo(lanes.sclk, SamplingLevel(s)))]

(***************************************************************************)
(* UART: frames of a start bit, data bits, a parity bit and stop bits,     *)
(* sampled in the middle of each bit.                                      *)
(***************************************************************************)
Idle(u) == IF u.idle_high THEN 1 ELSE 0
Start(u) == IF u.idle_high THEN 0 ELSE 1

\* The configured period, or the narrowest pulse of the line.
ResolveBitPeriod(u, line) ==
    LET widths == {line[i + 1][1] - line[i][1] : i \in 1 .. Len(line) - 1} \ {0}
    IN  CASE u.bit_period > 0 -> u.bit_period
          [] u.bit_period = 0 -> None
          [] u.bit_period = None -> IF widths = {} THEN None ELSE Min(widths)

\* A frame that starts at `start`, with its data bits, parity and stop bits.
\* The parity bit is compared as it is on the line, the data bits relative
\* to the idle level.
UartFrame(u, line, period, start) ==
    LET Bit(i) == ValueAt(line, start + i * period + period \div 2)
        n == Max({1, Min({9, u.data_bits})})
        parity == IF u.parity = "None" THEN 0 ELSE 1
        stops == Max({1, Min({2, u.stop_bits})})
        one == [i \in 1 .. n |-> IF Bit(i) = Idle(u) THEN 1 ELSE 0]
        value == FoldLeft(LAMBDA acc, i :
                            IF Bit(i) \in {0, 1}
                            THEN Shifted(u.bit_order, acc, i - 1, one[i]) ELSE acc,
                          0, [i \in 1 .. n |-> i])
        ones == Cardinality({i \in 1 .. n : one[i] = 1})
        expected == (ones % 2 = 1) = (u.parity = "Even")
        error == IF \E i \in 1 .. n : Bit(i) \notin {0, 1} THEN Bad
                 ELSE IF parity = 1 /\ (Bit(n + 1) = 1) # expected THEN Parity
                 ELSE IF \E i \in 1 .. stops : Bit(n + parity + i) # Idle(u)
                 THEN Framing ELSE <<>>
        end == start + (1 + n + parity + stops) * period
    IN  IF error = <<>> THEN Word(start, end, Format(u.format, value, n), "Data")
                          ELSE Word(start, end, error, "Error")

\* One iteration of decode's loop over the edges to the start level: edges
\* within the frame before are data, short pulses are glitches.
UartEdge(u, line, period, w, start) ==
    IF \/ start < w.next_free
       \/ ValueAt(line, start + period \div 2) # Start(u)
    THEN w
    ELSE LET frame == UartFrame(u, line, period, start)
         IN  [words |-> Append(w.words, frame), next_free |-> frame.end]

UartDecode(u, line) ==
    LET period == ResolveBitPeriod(u, line)
    IN  IF line = NoLane \/ period = None THEN <<>>
        ELSE FoldLeft(LAMBDA w, start : UartEdge(u, line, period, w, start),
                      [words |-> <<>>, next_free |-> 0],
                      EdgesTo(line, Start(u))).words

(***************************************************************************)
(* I2C: a start or stop is SDA moving while SCL is high; a rising edge of  *)
(* SCL samples SDA unless SDA moves before SCL falls again.                *)
(***************************************************************************)
SdaConditions(scl, sda) ==
    {[time |-> sda[i][1], rank |-> 1,
      event |-> IF sda[i][2] = 0 THEN "Start" ELSE "Stop", bit |-> None] :
        i \in {j \in 2 .. Len(sda) : /\ sda[j][2] # sda[j - 1][2]
                                    /\ sda[j][2] # Invalid
                                    /\ ValueAt(scl, sda[j][1]) = 1}}

SclSamples(scl, sda) ==
    LET rises == ToSet(EdgesTo(scl, 1))
        Held(t) == ~ \E i \in DOMAIN sda :
                        /\ sda[i][1] > t
                        /\ \A f \in ToSet(EdgesTo(scl, 0)) : f > t => sda[i][1] < f
        Bit(t) == IF ValueAt(sda, t) = None THEN Invalid ELSE ValueAt(sda, t)
    IN  {[time |-> t, rank |-> 2, event |-> "Sample", bit |-> Bit(t)] :
            t \in {r \in rises : Held(r)}}

\* Sorted by time; the sort is stable and the conditions were found first.
Events(scl, sda) ==
    Sorted(SdaConditions(scl, sda) \cup SclSamples(scl, sda),
           LAMBDA e : 2 * e.time + e.rank)

ClockPeriod(scl) ==
    LET r == EdgesTo(scl, 1)
        gaps == {r[i + 1] - r[i] : i \in 1 .. Len(r) - 1}
    IN  IF gaps = {} THEN 1 ELSE Min(gaps)

I2cByte(s, acc, address) ==
    IF address /\ s.split_address
    THEN Format(s.format, acc \div 2, 7) \o Char(IF acc % 2 = 0 THEN 87 ELSE 82)
    ELSE Format(s.format, acc, 8)

\* One iteration of the loop of decode. The mark of an unreliable byte is bit
\* 63 of the accumulator, which the shift for the next bit drops.
I2cEvent(s, period, w, e) ==
    LET Push(words, start, text, kind) ==
            Append(words, Word(start, start + period, text, kind))
        acc == 2 * w.acc + (IF e.bit = 1 THEN 1 ELSE 0)
        bad == e.bit = Invalid
        start == IF w.bits = 0 THEN e.time ELSE w.start
        byte == Word(start, e.time, IF bad THEN Bad ELSE I2cByte(s, acc, w.address),
                     IF bad THEN "Error" ELSE "Data")
    IN  CASE e.event = "Start" ->
                [w EXCEPT !.words = Push(@, e.time, Char(IF w.in THEN 115 ELSE 83), "Data"),
                          !.in = TRUE, !.address = TRUE,
                          !.bits = 0, !.acc = 0]
          [] e.event = "Stop" ->
                LET cut == IF w.bits > 0
                           THEN Push(w.words, w.start, Partial(w.bits, 8), "Error")
                           ELSE w.words
                IN  [w EXCEPT !.words = Push(cut, e.time, Char(80), "Data"),
                              !.in = FALSE, !.bits = 0, !.acc = 0]
          [] e.event = "Sample" /\ ~w.in -> w
          [] e.event = "Sample" /\ w.in /\ w.bits = 8 ->
                [w EXCEPT !.words = Push(@, e.time, Char(IF e.bit = 0 THEN 65 ELSE 78),
                                         IF e.bit = 0 THEN "Data" ELSE "Error"),
                          !.bits = 0, !.acc = 0, !.address = FALSE]
          [] e.event = "Sample" /\ w.in /\ w.bits # 8 ->
                [w EXCEPT !.words = IF w.bits = 7 THEN Append(@, byte) ELSE @,
                          !.bits = @ + 1, !.acc = acc, !.start = start]

\* A token is closed at the next one when that is at most two clocks away.
Closed(words, period) ==
    [i \in DOMAIN words |->
        IF /\ i < Len(words)
           /\ words[i + 1].start > words[i].start
           /\ words[i + 1].start - words[i].start <= 2 * period
        THEN [words[i] EXCEPT !.end = words[i + 1].start]
        ELSE words[i]]

I2cDecode(s, scl, sda) ==
    LET period == ClockPeriod(scl)
        w == FoldLeft(LAMBDA acc, e : I2cEvent(s, period, acc, e),
                      [words |-> <<>>, in |-> FALSE, address |-> FALSE, bits |-> 0,
                       acc |-> 0, start |-> 0], Events(scl, sda))
        all == IF w.bits > 0
               THEN Append(w.words, Word(w.start, w.start + period,
                                         Partial(w.bits, 8), "Error"))
               ELSE w.words
    IN  IF scl = NoLane \/ sda = NoLane THEN <<>> ELSE Closed(all, period)

(***************************************************************************)
(* References: the lines a sender drives, and what it sent.                *)
(***************************************************************************)
\* The changes of a line that is set to given levels at given times.
Line(settings) ==
    SelectSeq([i \in DOMAIN settings |->
                IF i > 1 /\ settings[i][2] = settings[i - 1][2]
                THEN NoLane[1] ELSE settings[i]],
              LAMBDA c : c # NoLane[1])

Texts(words) == [i \in DOMAIN words |-> <<words[i].text, words[i].kind>>]

\* Words are in order and do not overlap, which drawing them relies on.
InOrder(words) == \A i \in 1 .. Len(words) - 1 : words[i].end <= words[i + 1].start

\* The value of bits in the order in which they are sent.
ValueOf(order, bits) ==
    FoldLeft(LAMBDA acc, i : Shifted(order, acc, i - 1, bits[i]), 0,
             [i \in DOMAIN bits |-> i])
=============================================================================
