------------------------------ MODULE Drawing ------------------------------
(***************************************************************************)
(* From recorded data to what is drawn per pixel (drawing_canvas.rs,       *)
(* clock_highlighting.rs): the regions of a variable, the words of a       *)
(* decoder, the boxes of transactions, the clock edges that are            *)
(* highlighted and the transition the cursor snaps to.  A view shows the   *)
(* times from left to right on width pixels, and extra pixels to either    *)
(* side; times and pixels are compared as the exact fractions the floating *)
(* point numbers of the code stand for.  A signal is a sequence of         *)
(* [time, value].                                                          *)
(***************************************************************************)
EXTENDS Integers, Sequences, FiniteSets, SequencesExt, FiniteSetsExt

CONSTANTS
    Translate(_),           \* the text a value is shown as
    Grain                   \* places in a pixel a 32-bit number tells apart

(* x is left of the pixel of time t.                                       *)
LeftOf(view, x, t) == x * (view.right - view.left) < (t - view.left) * view.width
(* The distance from pixel x to that of t, in parts of a pixel.            *)
Distance(view, x, t) ==
    LET d == x * (view.right - view.left) - (t - view.left) * view.width IN IF d < 0 THEN -d ELSE d

(* generate_wave_draw_commands: the time of each pixel that is inside the  *)
(* recorded time.                                                          *)
Timestamps(view) ==
    LET at(x) == view.left * view.width + (view.right - view.left) * x
        shown == SelectSeq([i \in 1..(view.width + 2 * view.extra) |-> i - 1 - view.extra],
                           LAMBDA x : at(x) >= 0 /\ at(x) <= view.max * view.width)
    IN [i \in DOMAIN shown |-> [pixel |-> shown[i], time |-> at(shown[i]) \div view.width]]

(* query_variable: the last change up to a time and the first after it.    *)
QueryVariable(signal, time) ==
    LET upto == {i \in DOMAIN signal : signal[i].time <= time}
        after == {i \in DOMAIN signal : signal[i].time > time}
    IN [current |-> IF upto = {} THEN <<>> ELSE <<signal[Max(upto)]>>,
        next |-> IF after = {} THEN <<>> ELSE <<signal[Min(after)].time>>]

-----------------------------------------------------------------------------
(* A plausible slip: the pixel at which the change is due is skipped too.  *)
Mut_Skips(view, state, pixel) ==
    IF state.nextChange = <<>> THEN TRUE
    ELSE pixel * (view.right - view.left) <= (state.nextChange[1] - view.left) * view.width

(* wants_anti_aliasing: so does every container.                           *)
WantsAntiAliasing == TRUE

(* variable_digital_draw_commands of a variable [signal, info].  state: the*)
(* time up to which nothing new is expected (none: to the end), the text   *)
(* drawn last, the regions and the edges of a clock.                       *)
Skips(view, state, pixel) ==
    IF state.nextChange = <<>> THEN TRUE ELSE LeftOf(view, pixel, state.nextChange[1])

DrawPixel(view, stamps, variable, state, k) ==
    LET here == stamps[k]
        prevTime == stamps[k - 1].time
        first == k = 2
        last == k = Len(stamps)
        query == QueryVariable(variable.signal, here.time)
        looked == [state EXCEPT !.nextChange = query.next]
        text == Translate(query.current[1].value)
        antiAlias == query.current[1].time > prevTime /\ WantsAntiAliasing
        new == state.prev # <<text>>
    IN IF Skips(view, state, here.pixel) /\ ~first /\ ~last THEN state
       ELSE IF query.current = <<>> THEN looked
       ELSE IF query.current[1].time < prevTime /\ ~first /\ ~last THEN looked
       ELSE IF ~new /\ ~last /\ ~antiAlias THEN looked
       ELSE [looked EXCEPT
                !.prev = <<text>>,
                !.regions = Append(@, [pixel |-> here.pixel, text |-> text,
                                       antiAlias |-> antiAlias /\ ~new]),
                !.edges = IF variable.info = "Clock" /\ text = "1" /\ ~last /\ ~first
                          THEN Append(@, here.pixel) ELSE @]

DigitalDrawCommands(view, variable) ==
    LET stamps == Timestamps(view) IN
    FoldLeft(LAMBDA state, k : DrawPixel(view, stamps, variable, state, k),
             [nextChange |-> <<0>>, prev |-> <<>>, regions |-> <<>>, edges |-> <<>>],
             [i \in 1..(Len(stamps) - 1) |-> i + 1])

(* variable_draw_commands: nothing is drawn before the signal is loaded;   *)
(* analog drawing is for what is more than one bit.                        *)
VariableDrawCommands(view, variable) ==
    IF ~variable.loaded THEN <<>>
    ELSE IF variable.analog /\ variable.info = "Vector" THEN <<[kind |-> "Analog"]>>
    ELSE <<[kind |-> "Digital", commands |-> DigitalDrawCommands(view, variable)]>>

(* The region a pixel shows: regions last until the next one starts.       *)
RegionAt(regions, pixel) ==
    LET upto == {i \in DOMAIN regions : regions[i].pixel <= pixel} IN
    IF upto = {} THEN <<>> ELSE <<regions[Max(upto)].text>>

(* What is drawn is what was recorded: every pixel shows the value its     *)
(* time has, and where the signal changed since the pixel before, a region *)
(* starts, so that no glitch between two pixels goes unseen.  A clock has  *)
(* an edge at every pixel but the first and the last where it goes high.   *)
DrawnAsRecorded(view, variable) ==
    LET stamps == Timestamps(view)
        drawn == DigitalDrawCommands(view, variable)
        at(k) == RegionAt(drawn.regions, stamps[k].pixel) IN
    /\ \A k \in 2..Len(stamps) :
          LET current == QueryVariable(variable.signal, stamps[k].time).current IN
          IF current = <<>> THEN at(k) = <<>>
          ELSE /\ at(k) = <<Translate(current[1].value)>>
               /\ current[1].time > stamps[k - 1].time
                     => \E i \in DOMAIN drawn.regions : drawn.regions[i].pixel = stamps[k].pixel
    /\ variable.info = "Clock" =>
          \A k \in 3..(Len(stamps) - 1) :
             at(k) = <<"1">> /\ at(k - 1) # <<"1">> => stamps[k].pixel \in Range(drawn.edges)

(* bool_drawing_spec: the height a one-bit value is drawn at, in halves.   *)
BoolHeight(kind, text) ==
    CASE kind \in {"HighImp", "Undef", "DontCare", "Warn", "Error", "Custom"} -> 1
      [] kind = "Weak" -> IF text \in {"l", "L"} THEN 0 ELSE 2
      [] kind = "Normal" -> IF text = "0" THEN 0 ELSE 2
      [] kind = "Event" -> 2

-----------------------------------------------------------------------------
(* bit_lane_for: what is not a clean 0 or 1 is invalid.                    *)
BitLaneFor(signal) ==
    [i \in DOMAIN signal |->
        [time |-> signal[i].time,
         bit |-> CASE signal[i].value = "0" -> "Zero" [] signal[i].value = "1" -> "One"
                   [] OTHER -> "Invalid"]]

(* lane_draw_commands: one region per word, gaps are regions of no text.   *)
WordAt(words, time) ==
    LET ahead == {i \in DOMAIN words : words[i].end > time} IN
    IF ahead = {} THEN 0 ELSE IF words[Min(ahead)].start <= time THEN Min(ahead) ELSE 0

(* A plausible slip: a region lasts as long as the text is the same.       *)
Mut_LaneDrawCommands(view, words) ==
    LET stamps == Timestamps(view)
        word(k) == WordAt(words, stamps[k].time)
        text(k) == IF word(k) = 0 THEN "" ELSE words[word(k)].text
        starts == SelectSeq([k \in DOMAIN stamps |-> k],
                            LAMBDA k : IF k = 1 THEN TRUE ELSE text(k) # text(k - 1))
    IN [i \in DOMAIN starts |-> [pixel |-> stamps[starts[i]].pixel, text |-> text(starts[i])]]
       \o (IF stamps = <<>> THEN <<>> ELSE <<[pixel |-> Last(stamps).pixel, text |-> ""]>>)

LaneDrawCommands(view, words) ==
    LET stamps == Timestamps(view)
        word(k) == WordAt(words, stamps[k].time)
        starts == SelectSeq([k \in DOMAIN stamps |-> k],
                            LAMBDA k : IF k = 1 THEN TRUE ELSE word(k) # word(k - 1))
    IN [i \in DOMAIN starts |-> [pixel |-> stamps[starts[i]].pixel,
                                 text |-> IF word(starts[i]) = 0 THEN "" ELSE words[word(starts[i])].text]]
       \o (IF stamps = <<>> THEN <<>> ELSE <<[pixel |-> Last(stamps).pixel, text |-> ""]>>)

(* Every pixel but the last, which only closes the row, shows the word     *)
(* transferred at its time, and words of the same text stay apart.         *)
WordsShown(view, words) ==
    LET stamps == Timestamps(view)
        regions == LaneDrawCommands(view, words) IN
    \A k \in 1..(Len(stamps) - 1) :
        LET w == WordAt(words, stamps[k].time) IN
        /\ RegionAt(regions, stamps[k].pixel) = <<IF w = 0 THEN "" ELSE words[w].text>>
        /\ k > 1 /\ w # WordAt(words, stamps[k - 1].time)
              => \E i \in DOMAIN regions : regions[i].pixel = stamps[k].pixel

-----------------------------------------------------------------------------
(* The slice search of the standard library: 0-based, of the values with   *)
(* index Ok, or where it would be inserted Err.                            *)
BinarySearch(values, wanted) ==
    LET base[size \in 1..Len(values), from \in 0..Len(values)] ==
            IF size <= 1 THEN from
            ELSE LET half == size \div 2 IN
                 base[size - half, IF values[from + half + 1] > wanted THEN from ELSE from + half]
        found == base[Len(values), 0]
    IN IF values = <<>> THEN 0
       ELSE IF values[found + 1] < wanted THEN found + 1 ELSE found

(* A plausible slip: transactions are looked for by the time they start.   *)
Mut_FirstVisible(transactions, time) ==
    BinarySearch([i \in DOMAIN transactions |-> transactions[i].start], time)

(* The index of the first transaction that is not over, and one before it. *)
FirstVisible(transactions, time) ==
    LET i == BinarySearch([j \in DOMAIN transactions |-> transactions[j].end], time) IN
    IF i = 0 THEN 0 ELSE i - 1

(* Where a box of a transaction starts or ends.                            *)
PixelOf(view, t) ==
    ((t - view.left) * (view.width - 1) * Grain) \div (view.right - view.left)

(* generate_transaction_draw_commands, one generator: until the first that *)
(* starts right of the view, without those that are as narrow as a point   *)
(* and lie where the one before ends.                                      *)
DisplayedTransactions(view, transactions) ==
    LET from == FirstVisible(transactions, IF view.left < 0 THEN 0 ELSE view.left)
        beyond == {i \in DOMAIN transactions : i > from /\ transactions[i].start > view.right}
        until == IF beyond = {} THEN Len(transactions) ELSE Min(beyond) - 1
        min(i) == PixelOf(view, transactions[i].start)
        max(i) == PixelOf(view, transactions[i].end)
    IN {i \in (from + 1)..until : ~(min(i) = max(i) /\ i > from + 1 /\ min(i) = max(i - 1))}

(* The transactions the focused one is related to, known when it is drawn. *)
Relations(view, transactions, focused) ==
    IF focused \in DisplayedTransactions(view, transactions)
    THEN [inc |-> transactions[focused].inc, out |-> transactions[focused].out]
    ELSE [inc |-> {}, out |-> {}]

(* The transactions with a part inside the view; of several that end where *)
(* it begins, none counts.                                                 *)
Visible(view, transactions) ==
    LET left == IF view.left < 0 THEN 0 ELSE view.left IN
    {i \in DOMAIN transactions :
        /\ transactions[i].start <= view.right
        /\ \/ transactions[i].end > left
           \/ \A j \in DOMAIN transactions : transactions[j].end = left <=> j = i}

(* The transactions end in the order in which they start: they may overlap,*)
(* but none lies inside another.                                           *)
EndInOrder(transactions) ==
    \A i \in 2..Len(transactions) : transactions[i - 1].end <= transactions[i].end

(* Every visible transaction is drawn, or is a point at the end of one that*)
(* is drawn.                                                               *)
TransactionsShown(view, transactions) ==
    LET drawn == DisplayedTransactions(view, transactions) IN
    \A i \in Visible(view, transactions) :
        i \in drawn \/ \E j \in drawn : /\ j < i
                                       /\ PixelOf(view, transactions[j].end)
                                              = PixelOf(view, transactions[i].start)

(* "find first visible transaction" (drawing_canvas.rs:615): none of the   *)
(* visible transactions is before the place where the search ends.  This   *)
(* does not hold when one transaction contains later ones.                 *)
FirstVisibleFound(view, transactions) ==
    \A i \in Visible(view, transactions) :
        i > FirstVisible(transactions, IF view.left < 0 THEN 0 ELSE view.left)

-----------------------------------------------------------------------------
(* Clock highlighting.  A clock is the sequence of the pixels of its       *)
(* edges; those with edges that lie too dense are counted, not marked.     *)
MinimumGap == 20
Marks(edges) == Len(edges) = 1 \/ (Len(edges) > 1 /\ edges[2] - edges[1] > MinimumGap)
ClockIndex(clocks, c) == Cardinality({d \in 1..(c - 1) : clocks[d] # <<>>})
Marked(clocks) == {c \in DOMAIN clocks : Marks(clocks[c])}

(* group_clock_edges_by_time: the clocks with an edge at each pixel.       *)
GroupClockEdgesByTime(clocks) ==
    LET at == UNION {Range(clocks[c]) : c \in Marked(clocks)} IN
    [x \in at |-> {ClockIndex(clocks, c) : c \in {d \in Marked(clocks) : x \in Range(clocks[d])}}]
(* dense_clock_edges_by_clock                                              *)
DenseClockEdgesByClock(clocks) ==
    LET indices == {ClockIndex(clocks, c) : c \in Marked(clocks)} IN
    [i \in 0..(IF indices = {} THEN -1 ELSE Max(indices)) |->
        LET of == {c \in Marked(clocks) : ClockIndex(clocks, c) = i} IN
        IF of = {} THEN <<>> ELSE clocks[Max(of)]]

(* clock_highlight_color: the place in the list of colors, 0 is the one    *)
(* used for a single clock.                                                *)
ClockHighlightColor(clocks, c, colors) ==
    IF Cardinality(Marked(clocks)) <= 1 THEN 0 ELSE ClockIndex(clocks, c) % (colors + 1)

(* Drawn as lines or as cycles, the same edges of a clock are marked, and  *)
(* no two clocks share a place, whichever of them have no edge in view.    *)
ClockModesAgree(clocks) ==
    LET byTime == GroupClockEdgesByTime(clocks)
        byClock == DenseClockEdgesByClock(clocks)
        at(c) == {x \in DOMAIN byTime : ClockIndex(clocks, c) \in byTime[x]}
    IN \A c \in DOMAIN clocks :
          IF c \in Marked(clocks)
          THEN /\ at(c) = Range(clocks[c])
               /\ Range(byClock[ClockIndex(clocks, c)]) = Range(clocks[c])
          ELSE clocks[c] # <<>> =>
               /\ at(c) = {}
               /\ ClockIndex(clocks, c) \in DOMAIN byClock => byClock[ClockIndex(clocks, c)] = <<>>

(* The Cycle mode fills every other cycle.                                 *)
FilledCycles(edges) == {<<edges[2 * k - 1], edges[2 * k]>> : k \in 1..(Len(edges) \div 2)}

(* The color of a clock is stable: while several clocks are marked, it is  *)
(* that of the clock's place in the original order, whatever is in view.   *)
ClockColorStable(clocks, colors) ==
    Cardinality(Marked(clocks)) > 1
        => \A c \in Marked(clocks) : ClockHighlightColor(clocks, c, colors) = (c - 1) % (colors + 1)

-----------------------------------------------------------------------------
(* A plausible slip: the nearer side is not compared, only tried first.    *)
Mut_SnapToEdge(view, signal, x, snap) ==
    LET time == (view.left * view.width + (view.right - view.left) * x) \div view.width
        query == QueryVariable(signal, time)
        prev == IF query.current = <<>> THEN 0 ELSE query.current[1].time
        next == IF query.next = <<>> THEN 0 ELSE query.next[1]
        near(t) == Distance(view, x, t) <= snap * (view.right - view.left)
    IN IF time < 0 THEN time
       ELSE IF near(prev) THEN prev ELSE IF near(next) THEN next ELSE time

(* snap_to_edge at pixel x: the nearer of the changes to either side, when *)
(* it is within the snap distance, or else the time under the pointer.     *)
SnapToEdge(view, signal, x, snap) ==
    LET time == (view.left * view.width + (view.right - view.left) * x) \div view.width
        query == QueryVariable(signal, time)
        prev == IF query.current = <<>> THEN 0 ELSE query.current[1].time
        next == IF query.next = <<>> THEN 0 ELSE query.next[1]
        near(t) == Distance(view, x, t) <= snap * (view.right - view.left)
    IN IF time < 0 THEN time
       ELSE IF Distance(view, x, prev) < Distance(view, x, next)
            THEN IF near(prev) THEN prev ELSE time
            ELSE IF near(next) THEN next ELSE time

(* The pointer snaps to the nearest transition within reach, and to none   *)
(* that is out of reach.                                                   *)
SnapsToNearest(view, signal, x, snap) ==
    LET t == SnapToEdge(view, signal, x, snap)
        inReach == {signal[i].time : i \in {j \in DOMAIN signal :
                       Distance(view, x, signal[j].time) <= snap * (view.right - view.left)}}
    IN view.left * view.width + (view.right - view.left) * x >= 0 =>
       IF inReach # {} THEN t \in inReach /\ \A u \in inReach : Distance(view, x, t) <= Distance(view, x, u)
       ELSE t = (view.left * view.width + (view.right - view.left) * x) \div view.width
=============================================================================
