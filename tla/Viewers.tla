------------------------------ MODULE Viewers ------------------------------
(***************************************************************************)
(* The memory viewer (memory_viewer.rs) and the frame buffer               *)
(* (frame_buffer.rs): two windows that show the elements of an array at    *)
(* the cursor, the one as rows of values, the other as pixels.  Opening    *)
(* one starts loading the signals of the array; what a window shows is     *)
(* kept from frame to frame under a key.  The array has two levels: scopes *)
(* that are numbers, and in each of them variables that are numbers.       *)
(***************************************************************************)
EXTENDS Integers, Sequences, FiniteSets, SequencesExt, FiniteSetsExt

CONSTANTS
    Scopes, Elements,   \* the indices of the two levels
    Width,              \* the bits of an element
    Value(_, _, _, _),  \* the value in a version of the file, of scope, element, at a time
    Changed(_, _, _, _),\* whether it changes there
    Times, Versions,
    Pattern(_)          \* the values the search text matches

VARIABLES
    file,       \* [version, loaded]: the elements whose signals have arrived
    cursor, marker,     \* <<>> or <<time>>
    memory,     \* [open, scope, filter, highlight, columns, selected]
    memoryCache,        \* <<>> or <<[key, rows]>>
    content,    \* <<>> or what the frame buffer shows: [kind, scope, levels]
    settings,   \* [mode, bits]: bits of the channels of a pixel
    arrayCache, \* <<>> or <<[key, bits]>>
    pixelCache  \* <<>> or <<[key, pixels]>>

vars == <<file, cursor, marker, memory, memoryCache, content, settings, arrayCache, pixelCache>>
frameVars == <<content, settings, arrayCache, pixelCache>>
memoryVars == <<memory, memoryCache>>

Modes == {"AllValues", "ChangedAtCursor", "ChangedBtwCursorAndMarker"}
All == Scopes \X Elements
FullRange(S) == [min |-> Min(S), max |-> Max(S), first |-> Min(S), last |-> Max(S)]

Init ==
    /\ file = [version |-> Min(Versions), loaded |-> {}]
    /\ cursor = <<>> /\ marker = <<>>
    /\ memory = [open |-> FALSE, scope |-> Min(Scopes), filter |-> "AllValues",
                 highlight |-> "AllValues", columns |-> 1, selected |-> <<>>]
    /\ memoryCache = <<>> /\ content = <<>>
    /\ settings = [mode |-> "Grayscale", bits |-> <<1>>]
    /\ arrayCache = <<>> /\ pixelCache = <<>>

-----------------------------------------------------------------------------
(* The memory viewer.                                                      *)

(* change_range: the two ends in order, when there is a marker.            *)
ChangeRange(mode) ==
    IF mode # "ChangedBtwCursorAndMarker" \/ marker = <<>> THEN <<>>
    ELSE IF cursor[1] <= marker[1] THEN <<cursor[1], marker[1]>> ELSE <<marker[1], cursor[1]>>

ChangedIn(range, s, e) ==
    IF range = <<>> THEN FALSE
    ELSE \E t \in Times : t > range[1] /\ t < range[2] /\ Changed(file.version, s, e, t)

(* One row per element whose signal has arrived.                           *)
Row(e) ==
    [index |-> e, value |-> Value(file.version, memory.scope, e, cursor[1]),
     atCursor |-> Changed(file.version, memory.scope, e, cursor[1]),
     forFilter |-> ChangedIn(ChangeRange(memory.filter), memory.scope, e),
     forHighlight |-> ChangedIn(ChangeRange(memory.highlight), memory.scope, e)]
BuildRows ==
    LET loaded == {e \in Elements : <<memory.scope, e>> \in file.loaded} IN
    [i \in 1..Cardinality(loaded) |-> Row(SortSeq(SetToSeq(loaded), <)[i])]

MemoryViewerCacheKey ==
    [scope |-> memory.scope, cursor |-> cursor[1], filter |-> memory.filter,
     highlight |-> memory.highlight]

(* The rows kept are used while the key is the same, unless there are none.*)
CacheHit == IF memoryCache = <<>> THEN FALSE
            ELSE memoryCache[1].key = MemoryViewerCacheKey /\ memoryCache[1].rows # <<>>
Rows == IF CacheHit THEN memoryCache[1].rows ELSE BuildRows

VisibleRows(rows) ==
    SelectSeq(rows, LAMBDA r : CASE memory.filter = "AllValues" -> TRUE
                                 [] memory.filter = "ChangedAtCursor" -> r.atCursor
                                 [] OTHER -> r.forFilter)
MatchingPositions(rows) == {i \in DOMAIN rows : Pattern(rows[i].value)}

DrawMemoryViewer ==
    /\ memory.open /\ cursor # <<>> /\ ~CacheHit
    /\ memoryCache' = <<[key |-> MemoryViewerCacheKey, rows |-> BuildRows]>>
    /\ UNCHANGED <<file, cursor, marker, memory, frameVars>>

Drawn == memory.open /\ cursor # <<>> /\ CacheHit

(* The arrows: the nearest match beyond the selected row, or else the      *)
(* first match from the other end.                                         *)
Matches == MatchingPositions(VisibleRows(Rows))
NextMatch(selected) ==
    LET beyond == IF selected = <<>> THEN {} ELSE {p \in Matches : p > selected[1]} IN
    Min(IF beyond # {} THEN beyond ELSE Matches)

Mut_PreviousMatch(selected) ==
    LET beyond == IF selected = <<>> THEN {} ELSE {p \in Matches : p <= selected[1]} IN
    Max(IF beyond # {} THEN beyond ELSE Matches)

PreviousMatch(selected) ==
    LET beyond == IF selected = <<>> THEN {} ELSE {p \in Matches : p < selected[1]} IN
    Max(IF beyond # {} THEN beyond ELSE Matches)

FindNext ==
    /\ Drawn /\ Matches # {}
    /\ memory' = [memory EXCEPT !.selected = <<NextMatch(memory.selected)>>]
    /\ UNCHANGED <<file, cursor, marker, memoryCache, frameVars>>

FindPrevious ==
    /\ Drawn /\ Matches # {}
    /\ memory' = [memory EXCEPT !.selected = <<PreviousMatch(memory.selected)>>]
    /\ UNCHANGED <<file, cursor, marker, memoryCache, frameVars>>

(* closest_row_index: the first of the rows with the least distance.       *)
ClosestRow(rows, target) ==
    LET distance(i) == IF rows[i].index < target THEN target - rows[i].index
                       ELSE rows[i].index - target
        nearest == {i \in DOMAIN rows : \A j \in DOMAIN rows : distance(i) <= distance(j)}
    IN Min(nearest)
JumpToIndex(target) ==
    /\ Drawn /\ VisibleRows(Rows) # <<>>
    /\ memory' = [memory EXCEPT !.selected = <<ClosestRow(VisibleRows(Rows), target)>>]
    /\ UNCHANGED <<file, cursor, marker, memoryCache, frameVars>>

(* More than one column switches the filter off; there are never more      *)
(* columns than rows to see.                                               *)
SetColumns(n) ==
    LET rows == Len(VisibleRows(Rows)) IN
    /\ Drawn
    /\ memory' = [memory EXCEPT !.columns = IF n > rows THEN Max({rows, 1}) ELSE n,
                                !.filter = IF n > 1 THEN "AllValues" ELSE @]
    /\ UNCHANGED <<file, cursor, marker, memoryCache, frameVars>>

SetModes(filter, highlight) ==
    /\ Drawn /\ filter # memory.filter => memory.columns = 1
    /\ memory' = [memory EXCEPT !.filter = filter, !.highlight = highlight]
    /\ UNCHANGED <<file, cursor, marker, memoryCache, frameVars>>

(* OpenMemoryViewer asks for the signals of the scope.                     *)
OpenMemoryViewer(s) ==
    /\ memory' = [memory EXCEPT !.open = TRUE, !.scope = s]
    /\ UNCHANGED <<file, cursor, marker, memoryCache, frameVars>>

-----------------------------------------------------------------------------
(* The frame buffer.                                                       *)

(* resolve_leaf_scopes_and_variables: the elements in the chosen ranges,   *)
(* scope by scope, each in the order of the indices.                       *)
Selected(level) == SortSeq(SetToSeq(level.first .. level.last), <)
ResolveVariables(c) ==
    LET scopes == SelectSeq(Selected(c.levels[1]), LAMBDA s : s \in Scopes)
        elements == SelectSeq(Selected(c.levels[2]), LAMBDA e : e \in Elements)
    IN FlattenSeq([i \in DOMAIN scopes |-> [j \in DOMAIN elements |-> <<scopes[i], elements[j]>>]])

(* The low bits of a value, most significant first.                        *)
BitsOf(value) == [k \in 1..Width |-> (value \div 2^(Width - k)) % 2]

(* A plausible slip: an element without a value takes no room.             *)
Mut_CachedValue(variables, f, t) ==
    FlattenSeq([i \in DOMAIN variables |->
        IF variables[i] \in f.loaded
        THEN BitsOf(Value(f.version, variables[i][1], variables[i][2], t)) ELSE <<>>])

(* build_cached_variable_value: an element without a value is all zeros.   *)
CachedValue(variables, f, t) ==
    FlattenSeq([i \in DOMAIN variables |->
        IF variables[i] \in f.loaded
        THEN BitsOf(Value(f.version, variables[i][1], variables[i][2], t))
        ELSE [k \in 1..Width |-> 0]])

(* decode_grayscale_pixels, decode_rgb_pixels, decode_ycbcr_pixels: the    *)
(* channels of a pixel follow each other; a last pixel without all its     *)
(* bits is filled with zeros; each channel is scaled to 255.               *)
BitsToNumber(bits) == FoldLeft(LAMBDA n, b : 2 * n + b, 0, bits)
ScaleToU8(n, width) == IF width = 0 THEN 0 ELSE (n * 255) \div (2^width - 1)
DecodePixels(bits, s) ==
    LET step == FoldLeft(+, 0, s.bits)
        bit(k) == IF k <= Len(bits) THEN bits[k] ELSE 0
        offset(c) == FoldLeft(+, 0, SubSeq(s.bits, 1, c - 1))
        channel(p, c) == ScaleToU8(BitsToNumber([k \in 1..s.bits[c] |->
                                       bit((p - 1) * step + offset(c) + k)]), s.bits[c])
    IN IF step = 0 THEN <<>>
       ELSE [p \in 1..((Len(bits) + step - 1) \div step) |-> [c \in DOMAIN s.bits |-> channel(p, c)]]

ContentKey == [content |-> content[1], cursor |-> cursor[1]]
Shown == IF arrayCache = <<>> THEN FALSE ELSE arrayCache[1].key = ContentKey

(* A variable without a value is not shown and nothing is kept; an array   *)
(* is kept whatever has arrived of it.                                     *)
Bits(c) ==
    IF c.kind = "Array" THEN CachedValue(ResolveVariables(c), file, cursor[1])
    ELSE BitsOf(Value(file.version, c.levels[1].first, c.levels[2].first, cursor[1]))
DrawFrameBuffer ==
    /\ content # <<>> /\ cursor # <<>>
    /\ content[1].kind = "Variable"
          => Shown \/ <<content[1].levels[1].first, content[1].levels[2].first>> \in file.loaded
    /\ arrayCache' = IF Shown THEN arrayCache ELSE <<[key |-> ContentKey, bits |-> Bits(content[1])]>>
    /\ LET key == [array |-> ContentKey, settings |-> settings] IN
       pixelCache' = IF FoldLeft(+, 0, settings.bits) = 0 THEN pixelCache
                     ELSE IF pixelCache # <<>> /\ pixelCache[1].key = key THEN pixelCache
                     ELSE <<[key |-> key, pixels |-> DecodePixels(arrayCache'[1].bits, settings)]>>
    /\ UNCHANGED <<file, cursor, marker, memoryVars, content, settings>>

(* SetFrameBufferArray, SetFrameBufferVariable, SetFrameBufferVisibleVariable *)
SetContent(c) ==
    /\ content' = c
    /\ UNCHANGED <<file, cursor, marker, memoryVars, settings, arrayCache, pixelCache>>
ArrayContent == <<[kind |-> "Array", levels |-> <<FullRange(Scopes), FullRange(Elements)>>]>>
VariableContent(s, e) == <<[kind |-> "Variable", levels |-> <<FullRange({s}), FullRange({e})>>]>>

(* SetFrameBufferRange: both ends clamped, then put in order.              *)
Clamp(n, level) == IF n < level.min THEN level.min ELSE IF n > level.max THEN level.max ELSE n
SetFrameBufferRange(k, first, last) ==
    /\ content # <<>> /\ content[1].kind = "Array"
    /\ LET level == content[1].levels[k]
           ends == {Clamp(first, level), Clamp(last, level)} IN
       content' = <<[content[1] EXCEPT !.levels[k] = [level EXCEPT !.first = Min(ends), !.last = Max(ends)]]>>
    /\ UNCHANGED <<file, cursor, marker, memoryVars, settings, arrayCache, pixelCache>>

SetFrameBufferMode(s) ==
    /\ settings' = s /\ pixelCache' = <<>>
    /\ UNCHANGED <<file, cursor, marker, memoryVars, content, arrayCache>>

(* The controls of the window itself leave the pixels to the key.          *)
EditSettings(s) ==
    /\ settings' = s
    /\ UNCHANGED <<file, cursor, marker, memoryVars, content, arrayCache, pixelCache>>

-----------------------------------------------------------------------------
(* The waveform: signals arrive, the file is reloaded, the cursor and the  *)
(* marker are moved.                                                       *)
SignalsLoaded(some) ==
    /\ some # {} /\ some \cap file.loaded = {}
    /\ file' = [file EXCEPT !.loaded = @ \cup some]
    /\ UNCHANGED <<cursor, marker, memoryVars, frameVars>>
Reload(v) ==
    /\ v > file.version /\ file' = [file EXCEPT !.version = v]
    /\ UNCHANGED <<cursor, marker, memoryVars, frameVars>>
SetCursor(t) == cursor' = <<t>> /\ UNCHANGED <<file, marker, memoryVars, frameVars>>
SetMarker(t) == marker' = <<t>> /\ UNCHANGED <<file, cursor, memoryVars, frameVars>>

Next(settingsChoices) ==
    \/ DrawMemoryViewer \/ FindNext \/ FindPrevious \/ DrawFrameBuffer
    \/ \E e \in Elements : JumpToIndex(e)
    \/ \E n \in 1..3 : SetColumns(n)
    \/ \E f, h \in Modes : SetModes(f, h)
    \/ \E s \in Scopes : OpenMemoryViewer(s)
    \/ \E c \in {<<>>, ArrayContent} \cup {VariableContent(s, e) : s \in Scopes, e \in Elements} :
          SetContent(c)
    \/ \E first, last \in Elements : SetFrameBufferRange(2, first, last)
    \/ \E s \in settingsChoices : SetFrameBufferMode(s) \/ EditSettings(s)
    \/ \E s \in Scopes : SignalsLoaded({s} \X Elements) \/ SignalsLoaded({<<s, Min(Elements)>>})
    \/ \E v \in Versions : Reload(v)
    \/ \E t \in Times : SetCursor(t) \/ SetMarker(t)

-----------------------------------------------------------------------------
TypeOK ==
    /\ memory.filter \in Modes /\ memory.highlight \in Modes /\ memory.columns >= 1
    /\ memory.columns > 1 => memory.filter = "AllValues"
    /\ file.loaded \subseteq All /\ Len(content) <= 1

(* Finding takes a match on display, another one when there is another,    *)
(* also from a selection that the filter or a reload made stale, and       *)
(* finding forwards and backwards undo each other: no match is skipped.    *)
FindMovesOn ==
    Drawn /\ Matches # {} =>
        /\ \A found \in {NextMatch(memory.selected), PreviousMatch(memory.selected)} :
              /\ found \in Matches
              /\ Cardinality(Matches) > 1 => memory.selected # <<found>>
        /\ \A p \in Matches : /\ PreviousMatch(<<NextMatch(<<p>>)>>) = p
                              /\ NextMatch(<<PreviousMatch(<<p>>)>>) = p

(* Every element of the array has its own place in the picture, whatever   *)
(* the others have: what is missing is zeros, and nothing moves.           *)
ElementsInPlace ==
    (IF arrayCache = <<>> THEN FALSE ELSE arrayCache[1].key.content.kind = "Array")
        => LET c == arrayCache[1].key.content
               variables == ResolveVariables(c) IN
           /\ Len(arrayCache[1].bits) = Width * Len(variables)
           /\ \A i \in DOMAIN variables :
                 LET bits == SubSeq(arrayCache[1].bits, Width * (i - 1) + 1, Width * i) IN
                 BitsToNumber(bits) \in
                     {0} \cup {Value(v, variables[i][1], variables[i][2], arrayCache[1].key.cursor) :
                                  v \in Versions}

(* The rows on display are those of the waveform as it is.                 *)
RowsAreCurrent == Drawn => Rows = BuildRows

(* The pixels on display are those of the waveform as it is.               *)
PixelsAreCurrent ==
    (IF pixelCache = <<>> \/ content = <<>> \/ cursor = <<>> THEN FALSE
     ELSE pixelCache[1].key = [array |-> ContentKey, settings |-> settings] /\ content[1].kind = "Array")
        => pixelCache[1].pixels = DecodePixels(Bits(content[1]), settings)
=============================================================================
