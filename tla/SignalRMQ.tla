------------------------------ MODULE SignalRMQ ------------------------------
(***************************************************************************)
(* The blocked range-minimum structure of analog_signal_cache.rs: samples  *)
(* at strictly increasing timestamps, summaries of blocks of samples, and  *)
(* a sparse table whose level k summarises 2^k blocks. A sample is a       *)
(* natural number, or NaN for every value that is not finite.              *)
(*                                                                         *)
(* Indices of samples and blocks start at 0, as in the source.             *)
(***************************************************************************)
EXTENDS Integers, Sequences, FiniteSetsExt, Folds

CONSTANTS NaN,        \* a value that is not finite
          Infinity    \* larger than every sample

None == [some |-> FALSE]
Some(x) == [some |-> TRUE, val |-> x]

(***************************************************************************)
(* MinMax. A value that is not finite contributes the identities of min    *)
(* and max and a flag.                                                     *)
(***************************************************************************)
New(v) ==
    IF v # NaN THEN [min |-> v, max |-> v, non_finite |-> FALSE]
               ELSE [min |-> Infinity, max |-> -Infinity, non_finite |-> TRUE]

Combine(a, b) ==
    [min |-> Min({a.min, b.min}), max |-> Max({a.max, b.max}),
     non_finite |-> a.non_finite \/ b.non_finite]

\* MinMax::from_slice over the samples l .. r, counted from 0.
FromSlice(values, l, r) ==
    MapThenFoldSet(Combine, New(values[l + 1]),
                   LAMBDA i : New(values[i + 1]),
                   LAMBDA S : CHOOSE i \in S : TRUE, l .. r)

(***************************************************************************)
(* Construction.                                                           *)
(***************************************************************************)
NumBlocks(n, size) == (n + size - 1) \div size

Summaries(values, size) ==
    [b \in 0 .. NumBlocks(Len(values), size) - 1 |->
        FromSlice(values, b * size, Min({(b + 1) * size, Len(values)}) - 1)]

\* usize::ilog2 of a positive number.
ILog2(n) == CHOOSE k \in 0 .. n : 2 ^ k <= n /\ n < 2 ^ (k + 1)

\* Level k + 1 combines pairs of entries of level k; without a right
\* partner an entry is kept.
BuildSparseTable(blocks) ==
    LET n == Cardinality(DOMAIN blocks)
        table[k \in 0 .. ILog2(n)] ==
            IF k = 0 THEN blocks
            ELSE [i \in DOMAIN blocks |->
                    LET partner == i + 2 ^ (k - 1)
                    IN  IF partner \in DOMAIN blocks
                        THEN Combine(table[k - 1][i], table[k - 1][partner])
                        ELSE table[k - 1][i]]
    IN  table

Build(times, values, size) ==
    [timestamps |-> times, values |-> values, block_size |-> size,
     sparse_table |-> BuildSparseTable(Summaries(values, size))]

(***************************************************************************)
(* Queries.                                                                *)
(***************************************************************************)
QueryBlocks(rmq, l, r) ==
    LET level == ILog2(r - l + 1)
    IN  IF l = r THEN rmq.sparse_table[0][l]
        ELSE Combine(rmq.sparse_table[level][l],
                     rmq.sparse_table[level][r - 2 ^ level + 1])

\* A single full block in the middle is left out.
Mut_QueryIndexRange(rmq, l, r) ==
    LET lb == l \div rmq.block_size
        rb == r \div rmq.block_size
    IN  IF lb = rb THEN FromSlice(rmq.values, l, r)
        ELSE LET ends == Combine(
                   FromSlice(rmq.values, l, Min({(lb + 1) * rmq.block_size - 1, r})),
                   FromSlice(rmq.values, rb * rmq.block_size, r))
             IN  IF lb + 1 < rb - 1
                 THEN Combine(ends, QueryBlocks(rmq, lb + 1, rb - 1))
                 ELSE ends

QueryIndexRange(rmq, l, r) ==
    LET lb == l \div rmq.block_size
        rb == r \div rmq.block_size
    IN  IF lb = rb THEN FromSlice(rmq.values, l, r)
        ELSE LET ends == Combine(
                   FromSlice(rmq.values, l, Min({(lb + 1) * rmq.block_size - 1, r})),
                   FromSlice(rmq.values, rb * rmq.block_size, r))
             IN  IF lb + 1 <= rb - 1
                 THEN Combine(ends, QueryBlocks(rmq, lb + 1, rb - 1))
                 ELSE ends

\* binary_search: Ok(idx) when t is a timestamp, else Err(the place for it).
Place(rmq, t) == Cardinality({i \in DOMAIN rmq.timestamps : rmq.timestamps[i] < t})
Found(rmq, t) == t \in Range(rmq.timestamps)

QueryTimeRange(rmq, from, to) ==
    LET l == Place(rmq, from)
        r == IF Found(rmq, to) THEN Place(rmq, to) ELSE Place(rmq, to) - 1
    IN  IF from > to \/ r < 0 \/ l > r \/ l >= Len(rmq.values) THEN None
        ELSE Some(QueryIndexRange(rmq, l, r))

QueryAtTime(rmq, t) ==
    LET i == IF Found(rmq, t) THEN Place(rmq, t) + 1 ELSE Place(rmq, t)
        At(k) == IF k \in DOMAIN rmq.timestamps THEN Some(rmq.timestamps[k]) ELSE None
    IN  [current |-> IF i = 0 THEN None
                     ELSE Some(<<rmq.timestamps[i], rmq.values[i]>>),
         next |-> At(i + 1)]

\* AnalogSignalCache::query_time_range: a range with a value that is not
\* finite has no maximum.
CacheQuery(rmq, from, to) ==
    LET q == QueryTimeRange(rmq, from, to)
    IN  IF ~q.some THEN None
        ELSE Some(<<q.val.min, IF q.val.non_finite THEN NaN ELSE q.val.max>>)

\* AnalogSignalCache::build: the global extremes of a signal with samples.
Global(rmq) ==
    QueryTimeRange(rmq, rmq.timestamps[1], rmq.timestamps[Len(rmq.timestamps)]).val

(***************************************************************************)
(* What the queries promise, stated from the samples alone.                *)
(***************************************************************************)
SamplesIn(rmq, from, to) ==
    {i \in DOMAIN rmq.timestamps : from <= rmq.timestamps[i] /\ rmq.timestamps[i] <= to}

\* A range query has an answer exactly when a sample lies in the range, and
\* the answer covers exactly the samples of the range, whatever the blocks.
RangeCorrect(rmq, from, to) ==
    LET in == SamplesIn(rmq, from, to)
        finite == {rmq.values[i] : i \in in} \ {NaN}
        q == QueryTimeRange(rmq, from, to)
    IN  /\ q.some <=> in # {}
        /\ q.some => /\ q.val.non_finite = (\E i \in in : rmq.values[i] = NaN)
                     /\ finite # {} => q.val.min = Min(finite) /\ q.val.max = Max(finite)
                     /\ finite = {} => q.val.min = Infinity /\ q.val.max = -Infinity
        /\ CacheQuery(rmq, from, to) =
             IF in = {} THEN None
             ELSE Some(<<IF finite = {} THEN Infinity ELSE Min(finite),
                         IF \E i \in in : rmq.values[i] = NaN THEN NaN ELSE Max(finite)>>)

\* The value at a time is the last sample not after it, and the next
\* transition is the first sample after it.
PointCorrect(rmq, t) ==
    LET before == {i \in DOMAIN rmq.timestamps : rmq.timestamps[i] <= t}
        after == DOMAIN rmq.timestamps \ before
        q == QueryAtTime(rmq, t)
    IN  /\ q.current = IF before = {} THEN None
                       ELSE Some(<<rmq.timestamps[Max(before)], rmq.values[Max(before)]>>)
        /\ q.next = IF after = {} THEN None ELSE Some(rmq.timestamps[Min(after)])
=============================================================================
