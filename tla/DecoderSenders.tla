--------------------------- MODULE DecoderSenders ---------------------------
(***************************************************************************)
(* Reference for the protocol decoders: the lines that a sender of each    *)
(* protocol drives, and the words a reader of the bus would write down.    *)
(* Nothing here looks at how the decoders work.                            *)
(***************************************************************************)
EXTENDS Decoders

\* Levels of a line, one per half period of the clock, as changes.
Wave(levels) == Line([i \in DOMAIN levels |-> <<i, levels[i]>>])

Flat(seqs) == FoldLeft(LAMBDA a, b : a \o b, <<>>, seqs)
Map(F(_), seq) == [i \in DOMAIN seq |-> F(seq[i])]
Times(n, x) == [i \in 1 .. n |-> x]

(***************************************************************************)
(* SPI. A transfer is a sequence of bits of one data line. Every bit takes *)
(* two half periods; chip select is released for `gap` half periods after  *)
(* each transfer, in which the clock runs on if `free` is TRUE.  A half    *)
(* period takes two ticks.                                                 *)
(***************************************************************************)
Halves(delay, levels) == Line([i \in DOMAIN levels |-> <<2 * i + delay, levels[i]>>])

SpiClock(s, transfers, gap, free) ==
    LET idle == IF s.cpol THEN 1 ELSE 0
        Pulse == <<1 - idle, idle>>
        Bits(tr) == Flat(Map(LAMBDA b : Pulse, tr))
        Gap == IF free THEN Flat(Times(gap \div 2, Pulse)) ELSE Times(gap, idle)
    IN  Halves(0, <<idle>> \o Flat(Map(LAMBDA tr : Bits(tr) \o Gap, transfers)))

\* Data is stable around the sampling edge: it changes a tick before the
\* leading edge, or a tick after it when the trailing edge samples.
SpiData(s, transfers, gap) ==
    LET Bits(tr) == Flat(Map(LAMBDA b : <<b, b>>, tr))
        all == Flat(Map(LAMBDA tr : Bits(tr) \o Times(gap, 0), transfers))
    IN  Halves(IF s.cpha THEN 1 ELSE -1, <<0>> \o all)

SpiSelect(s, transfers, gap) ==
    LET on == IF s.cs_active_low THEN 0 ELSE 1
        all == Flat(Map(LAMBDA tr : Times(2 * Len(tr), on) \o Times(gap, 1 - on), transfers))
    IN  Halves(0, <<1 - on>> \o all)

\* What was sent: whole words of each transfer, and what is left of it.
SpiSent(s, tr) ==
    LET n == s.word_size
        chunks == [k \in 1 .. (Len(tr) + n - 1) \div n |->
                    SubSeq(tr, (k - 1) * n + 1, Min({k * n, Len(tr)}))]
    IN  Map(LAMBDA c :
              IF Len(c) < n THEN <<Partial(Len(c), n), "Error">>
              ELSE IF Invalid \in ToSet(c) THEN <<Bad, "Error">>
              ELSE <<Format(s.format, ValueOf(s.bit_order, c), n), "Data">>, chunks)

\* A chip select released in the middle of a word ends that word.
SpiFaithful(i) ==
    LET lanes == [sclk |-> SpiClock(i.s, i.transfers, i.gap, i.free),
                  data |-> <<SpiData(i.s, i.transfers, i.gap), NoLane>>,
                  cs |-> SpiSelect(i.s, i.transfers, i.gap)]
        words == SpiDecode(i.s, lanes)[1]
    IN  /\ Texts(words) = Flat(Map(LAMBDA tr : SpiSent(i.s, tr), i.transfers))
        /\ InOrder(words)

(***************************************************************************)
(* UART. A frame is a sequence of data bits; the line idles for `gap` bit  *)
(* times after it. One bit takes `period` ticks.                           *)
(***************************************************************************)
UartLevels(u, frames, gap) ==
    LET Level(b) == IF b = Invalid THEN b ELSE IF b = 1 THEN Idle(u) ELSE 1 - Idle(u)
        Ones(f) == Cardinality({i \in DOMAIN f : f[i] = 1})
        Check(f) == CASE u.parity = "None" -> <<>>
                      [] u.parity = "Even" -> <<Ones(f) % 2>>
                      [] u.parity = "Odd"  -> <<1 - (Ones(f) % 2)>>
        Frame(f) == <<0>> \o f \o Check(f) \o Times(u.stop_bits + gap, 1)
    IN  Map(Level, <<1>> \o Flat(Map(Frame, frames)))

UartLine(u, frames, gap, period) ==
    LET levels == UartLevels(u, frames, gap)
    IN  Line([i \in DOMAIN levels |-> <<(i - 1) * period, levels[i]>>])

UartSent(u, f) ==
    IF Invalid \in ToSet(f) THEN <<Bad, "Error">>
    ELSE <<Format(u.format, ValueOf(u.bit_order, f), Len(f)), "Data">>

UartFaithful(i) ==
    LET words == UartDecode(i.s, UartLine(i.s, i.frames, i.gap, i.period))
    IN  /\ Texts(words) = Map(LAMBDA f : UartSent(i.s, f), i.frames)
        /\ InOrder(words)

(***************************************************************************)
(* I2C. A transaction is a sequence of messages, each begun by a start; a  *)
(* message is a sequence of bytes with their acknowledge; a stop ends the  *)
(* transaction, or the trace ends in the middle of it. A symbol takes four *)
(* quarter periods: SDA changes while SCL is low, but for S and P.         *)
(***************************************************************************)
Bits8(v) == [i \in 1 .. 8 |-> (v \div 2 ^ (8 - i)) % 2]

\* Quarter periods of <<SCL, SDA>> for a start, a bit and a stop.
StartQuarters == <<<<0, 1>>, <<1, 1>>, <<1, 0>>, <<0, 0>>>>
BitQuarters(b) == <<<<0, b>>, <<1, b>>, <<1, b>>, <<0, b>>>>
StopQuarters == <<<<0, 0>>, <<1, 0>>, <<1, 1>>, <<1, 1>>>>

MessageQuarters(m) ==
    StartQuarters \o
    Flat(Map(LAMBDA byte : Flat(Map(BitQuarters, byte.bits)) \o BitQuarters(byte.ack), m))

I2cQuarters(messages, stop) ==
    <<<<1, 1>>, <<1, 1>>>> \o Flat(Map(MessageQuarters, messages))
        \o IF stop THEN StopQuarters ELSE <<>>

I2cSent(s, messages, stop) ==
    LET Byte(byte, first) ==
          <<IF Invalid \in ToSet(byte.bits) THEN <<Bad, "Error">>
            ELSE <<I2cByte(s, ValueOf("MsbFirst", byte.bits), first), "Data">>,
            IF byte.ack = 0 THEN <<Char(65), "Data">> ELSE <<Char(78), "Error">>>>
        Message(k) ==
          <<<<Char(IF k = 1 THEN 83 ELSE 115), "Data">>>> \o
          Flat([j \in DOMAIN messages[k] |-> Byte(messages[k][j], j = 1)])
    IN  Flat([k \in DOMAIN messages |-> Message(k)])
          \o IF stop THEN <<<<Char(80), "Data">>>> ELSE <<>>

I2cFaithful(i) ==
    LET q == I2cQuarters(i.messages, i.stop)
        words == I2cDecode(i.s, Wave([k \in DOMAIN q |-> q[k][1]]),
                                Wave([k \in DOMAIN q |-> q[k][2]]))
    IN  /\ Texts(words) = I2cSent(i.s, i.messages, i.stop)
        /\ InOrder(words)
=============================================================================
