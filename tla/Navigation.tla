----------------------------- MODULE Navigation -----------------------------
(***************************************************************************)
(* Moving through what was recorded: the cursor from change to change of a *)
(* variable (set_cursor_at_transition), the focus from one transaction to  *)
(* the next (move_to_transaction), and the rows that keep transactions     *)
(* apart (calculate_rows_of_stream).  That the view follows the cursor is  *)
(* GoToCursorIfNotInView of Viewport.                                      *)
(*                                                                         *)
(* A session s is [cursor, focused, left, right, end]: the cursor, <<>> or *)
(* <<time>>, whether a row is focused, the edges of the first viewport and *)
(* the last recorded time, 0 before the body is loaded.  An item is        *)
(* [kind, loaded, signal].                                                 *)
(***************************************************************************)
EXTENDS Drawing

CONSTANT IsZero(_)          \* whether a value is the number zero

Clamped(time) == IF time < 0 THEN 0 ELSE time

(* A plausible slip: on a change, the value before it is not looked at.    *)
Mut_Transition(signal, end, cursor, next) ==
    LET query == QueryVariable(signal, Clamped(cursor))
    IN IF next THEN IF query.next = <<>> THEN <<end>> ELSE query.next
       ELSE IF query.current = <<>> THEN <<>>
       ELSE <<query.current[1].time>>

(* One move without skip_zero, from the cursor at a time; there is none,   *)
(* and res.current.unwrap() panics, when the signal has no value yet.      *)
Transition(signal, end, cursor, next) ==
    LET query == QueryVariable(signal, Clamped(cursor))
        start == query.current[1].time
        before == QueryVariable(signal, Clamped(cursor - 1)).current
    IN IF next THEN IF query.next = <<>> THEN <<end>> ELSE query.next
       ELSE IF query.current = <<>> THEN <<>>
       ELSE IF start # cursor \/ cursor < 1 THEN <<start>>
       ELSE IF before = <<>> THEN <<cursor>> ELSE <<before[1].time>>

(* set_cursor_at_transition: with skip_zero, one more move when the value  *)
(* reached is zero.                                                        *)
SetCursorAtTransition(signal, end, cursor, next, skipZero) ==
    LET moved == Transition(signal, end, cursor, next)
        reached == QueryVariable(signal, Clamped(moved[1])).current
    IN IF ~skipZero \/ moved = <<>> THEN moved
       ELSE IF reached = <<>> THEN moved
       ELSE IF IsZero(reached[1].value) THEN Transition(signal, end, moved[1], next)
       ELSE moved

(* Message::MoveCursorToTransition: the cursor it leaves, "panic" for none.*)
MoveCursorToTransition(s, item, next, skipZero) ==
    LET cursor == IF s.cursor # <<>> \/ ~s.focused THEN s.cursor
                  ELSE IF next THEN <<s.left>> ELSE <<s.right>>
        moved == SetCursorAtTransition(item.signal, s.end, cursor[1], next, skipZero)
    IN IF s.end = 0 THEN s.cursor
       ELSE IF cursor = <<>> \/ item.kind # "variable" \/ ~item.loaded THEN cursor
       ELSE IF moved = <<>> THEN <<"panic">> ELSE moved

-----------------------------------------------------------------------------
(* get_transactions_from_generator, get_transactions_from_stream: what a   *)
(* displayed row holds; streams maps a stream to its generators and        *)
(* generators a generator to its transactions.                             *)
TransactionsOf(row, streams, generators) ==
    IF row.gen # <<>> THEN generators[row.gen[1]]
    ELSE FlattenSeq([i \in DOMAIN streams[row.stream] |-> generators[streams[row.stream][i]]])

(* move_to_transaction over all visible rows; len - 1 is computed also     *)
(* when it is not needed, and overflows when there is nothing.  focused is *)
(* <<>> or <<id>>.                                                         *)
MoveToTransaction(rows, streams, generators, focused, next) ==
    LET ids == SortSeq(FlattenSeq([i \in DOMAIN rows |->
                          TransactionsOf(rows[i], streams, generators)]), <)
        at == {i \in DOMAIN ids : ids[i] = focused[1]}
        to == IF at = {} THEN IF next THEN Len(ids) ELSE 1
              ELSE IF next THEN Min({Min(at) + 1, Len(ids)})
              ELSE Max({Min(at) - 1, 1})
    IN IF focused = <<>> THEN IF ids = <<>> THEN <<>> ELSE <<ids[1]>>
       ELSE IF ids = <<>> THEN <<"panic">> ELSE <<ids[to]>>

(* calculate_rows_of_stream: each transaction goes to the first row whose  *)
(* last one is over; lasts are the ends of the last ones, and placed the   *)
(* rows given.                                                             *)
PlaceTransaction(state, transaction) ==
    LET free == {r \in DOMAIN state.lasts : state.lasts[r] <= transaction.start}
        row == IF free = {} THEN Len(state.lasts) + 1 ELSE Min(free)
    IN [lasts |-> IF free = {} THEN Append(state.lasts, transaction.end)
                  ELSE [state.lasts EXCEPT ![row] = transaction.end],
        placed |-> Append(state.placed, row)]

CalculateRowsOfStream(transactions) ==
    FoldLeft(PlaceTransaction, [lasts |-> <<0>>, placed |-> <<>>], transactions)

-----------------------------------------------------------------------------
(* The cursor visits the changes of a variable one by one: the first after *)
(* it, or the end, and the last before it, or the first of all; with       *)
(* skip_zero the next of them that is not zero.  Two zeros in a row are    *)
(* not skipped.                                                            *)
VisitsChanges(s, signal) ==
    LET item == [kind |-> "variable", loaded |-> TRUE, signal |-> signal]
        times(skip) == {signal[i].time : i \in {j \in DOMAIN signal : ~skip \/ ~IsZero(signal[j].value)}}
        after(skip) == {t \in times(skip) : t > s.cursor[1]}
        before(skip) == {t \in times(skip) : t < s.cursor[1]}
    IN \A skip \in BOOLEAN :
       /\ MoveCursorToTransition(s, item, TRUE, skip)
              = <<IF after(skip) = {} THEN s.end ELSE Min(after(skip))>>
       /\ signal[1].time <= s.cursor[1]
              => MoveCursorToTransition(s, item, FALSE, skip)
                     = <<IF before(skip) # {} THEN Max(before(skip)) ELSE signal[1].time>>

(* The focus visits every transaction that is shown, in the order of their *)
(* identifiers, and stays at the ends, when no transaction is shown twice. *)
VisitsTransactions(rows, streams, generators) ==
    LET ids == UNION {Range(TransactionsOf(rows[i], streams, generators)) : i \in DOMAIN rows}
        move(focused, next) == MoveToTransaction(rows, streams, generators, focused, next)
    IN \A id \in ids :
       LET above == {x \in ids : x > id}   below == {x \in ids : x < id} IN
       /\ move(<<id>>, TRUE) = <<IF above = {} THEN id ELSE Min(above)>>
       /\ move(<<id>>, FALSE) = <<IF below = {} THEN id ELSE Max(below)>>

(* Transactions of a row do not overlap, and no row is more than needed:   *)
(* as many are open at once somewhere.                                     *)
RowsKeepApart(transactions) ==
    LET placed == CalculateRowsOfStream(transactions).placed
        overlap(i, j) == /\ transactions[i].start < transactions[j].end
                         /\ transactions[j].start < transactions[i].end
    IN \A i, j \in DOMAIN transactions :
          i < j => /\ placed[i] = placed[j] => ~overlap(i, j)
                   /\ \A r \in 1..(placed[j] - 1) :
                         \E k \in 1..(j - 1) : placed[k] = r /\ transactions[k].end > transactions[j].start
=============================================================================
