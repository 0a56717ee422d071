---------------------------- MODULE CanvasProofs ----------------------------
(***************************************************************************)
(* The canvas under every message of Canvas, for waveforms, canvases and   *)
(* undo stacks of any size: the tree and the map of displayed items, also  *)
(* those that undo brings back, hold the same items, each once, every      *)
(* displayed marker has a time, a new reference is one that no canvas      *)
(* holds, and undo and redo are inverse to each other.                     *)
(*                                                                         *)
(* The inductive invariant bounds the references on screen and on the      *)
(* stacks by the counter, and says that displayed markers differ: else a   *)
(* removal would take the time of a marker that stays.                     *)
(***************************************************************************)
EXTENDS Canvas, DisplayedItemTreeProofs, FiniteSetTheorems

-----------------------------------------------------------------------------
(* What the helpers of Canvas make of sound waves: the tree still shows the *)
(* displayed items, each once, and every displayed marker has a time, for   *)
(* waves of any size and also when a helper panics.                         *)

Panics == {"no", "insert", "move failed", "slice", "assert", "Inconsistent state"}

\* Some displayed items, by their references.
Displays == UNION {[S -> Item] : S \in SUBSET Nat}

CanvasType ==
  [focused_item : Int, items_tree : Seq(NodeOf(Nat)), displayed_items : Displays,
   markers : SUBSET MarkerIndex]

WavesType ==
  [focused_item : Int, items_tree : Seq(NodeOf(Nat)), displayed_items : Displays,
   markers : SUBSET MarkerIndex, display_item_ref_counter : Nat,
   inner : SUBSET Vars, panic : Panics]

\* The references of displayed markers, in a map of displayed items.
MarkersIn(d) == {r \in DOMAIN d : d[r].kind = "marker"}

\* The displayed markers have different indices, all of them in `times'.
Timed(d, times) ==
  /\ \A r \in MarkersIn(d) : d[r].of \in times
  /\ \A r, s \in MarkersIn(d) : d[r].of = d[s].of => r = s

\* The canvas or waves c, with these times: a reference is at most n.
KeptWith(c, n, times) ==
  /\ Shows(c.items_tree, Nat, DOMAIN c.displayed_items)
  /\ DOMAIN c.displayed_items \subseteq 1..n
  /\ Timed(c.displayed_items, times)

Kept(c, n) == KeptWith(c, n, c.markers)

SoundCanvas(n) == {c \in CanvasType : Kept(c, n)}

\* Waves that have handed out at least n references.
SoundWaves(n) ==
  {w \in WavesType : /\ Kept(w, w.display_item_ref_counter)
                     /\ w.display_item_ref_counter >= n}

-----------------------------------------------------------------------------
(* Displayed items and rows *)

\* A map of displayed items is a function from natural numbers to items.
LEMMA DisplaysAre ==
  ASSUME NEW d
  PROVE  d \in Displays <=> DOMAIN d \subseteq Nat /\ d \in [DOMAIN d -> Item]
<1>1. ASSUME DOMAIN d \subseteq Nat, d \in [DOMAIN d -> Item]
      PROVE  d \in Displays
  BY <1>1 DEF Displays
<1>2. ASSUME NEW S \in SUBSET Nat, d \in [S -> Item]
      PROVE  DOMAIN d \subseteq Nat /\ d \in [DOMAIN d -> Item]
  BY <1>2
<1>3. QED
  BY <1>1, <1>2 DEF Displays

\* A restriction of displayed items.
LEMMA RestrictIs ==
  ASSUME NEW d \in Displays, NEW S \in SUBSET DOMAIN d
  PROVE  /\ Restrict(d, S) \in Displays
         /\ DOMAIN Restrict(d, S) = S
         /\ \A r \in S : Restrict(d, S)[r] = d[r]
<1>1. DOMAIN d \subseteq Nat /\ d \in [DOMAIN d -> Item]
  BY DisplaysAre
<1>2. Restrict(d, S) \in [S -> Item] /\ \A r \in S : Restrict(d, S)[r] = d[r]
  BY <1>1 DEF Restrict
<1>3. DOMAIN Restrict(d, S) = S
  BY <1>2
<1>4. QED
  BY <1>1, <1>2, <1>3, DisplaysAre

\* The visible rows of a tree can be counted.
LEMMA RowsAreNumbers ==
  ASSUME NEW refs, NEW t \in Seq(NodeOf(refs)), NEW i
  PROVE  VisibleIndex(t, i) \in Nat /\ VisibleCount(t) \in Nat
<1>1. PICK visible : visible = VisiblePositions(t)
  OBVIOUS
<1>2. IsFiniteSet(1..Len(t)) /\ visible \in SUBSET (1..Len(t))
  BY <1>1, FS_Interval DEF VisiblePositions
<1>3. IsFiniteSet(visible) /\ IsFiniteSet({j \in visible : j <= i})
  <2>1. {j \in visible : j <= i} \in SUBSET (1..Len(t))
    BY <1>2
  <2>2. QED
    BY <1>2, <2>1, FS_Subset
<1>4. Cardinality(visible) \in Nat /\ RowIn(visible, i) \in Nat
  BY <1>3, FS_CardinalityType DEF RowIn
<1>5. VisibleIndex(t, i) \in Nat
  BY <1>1, <1>4, Zenon DEF VisibleIndex
<1>6. VisibleCount(t) \in Nat
  BY <1>1, <1>4 DEF VisibleCount
<1>7. QED
  BY <1>5, <1>6

LEMMA RowOfIsNumber ==
  ASSUME NEW refs, NEW t \in Seq(NodeOf(refs)), NEW ref
  PROVE  RowOf(t, ref) \in Nat
<1> DEFINE rows == {VisibleIndex(t, i) :
                      i \in {j \in VisiblePositions(t) : t[j].item_ref = ref}}
<1>1. rows \subseteq Nat
  BY RowsAreNumbers
<1>2. rows # {} => Min(rows) \in Nat
  BY <1>1, MinNat
<1>3. RowOf(t, ref) = IF rows = {} THEN 0 ELSE Min(rows)
  BY Zenon DEF RowOf
<1> HIDE DEF rows
<1>4. QED
  BY <1>2, <1>3

\* The smaller and the greater of two numbers.
LEMMA MinOfInts ==
  ASSUME NEW x \in Int, NEW y \in Int
  PROVE  Min({x, y}) \in Int /\ Max({x, y}) \in Int
<1>1. \E z \in {x, y} : \A s \in {x, y} : z <= s
  <2>1. CASE x <= y
    BY <2>1
  <2>2. CASE ~(x <= y)
    <3>1. y <= x
      BY <2>2
    <3>2. QED
      BY <3>1
  <2>3. QED
    BY <2>1, <2>2
<1>2. \E z \in {x, y} : \A s \in {x, y} : s <= z
  <2>1. CASE x <= y
    BY <2>1
  <2>2. CASE ~(x <= y)
    <3>1. y <= x
      BY <2>2
    <3>2. QED
      BY <3>1
  <2>3. QED
    BY <2>1, <2>2
<1>3. Min({x, y}) \in {x, y} /\ Max({x, y}) \in {x, y}
  BY <1>1, <1>2 DEF Min, Max
<1>4. QED
  BY <1>3

-----------------------------------------------------------------------------
(* Inserting *)

\* A place before a position, at some level.
IsPlace(p) ==
  p = [before |-> p.before, level |-> p.level] /\ p.before \in Nat \ {0}

\* Every place an item is inserted at is one.
LEMMA PlacesArePlaces ==
  ASSUME NEW w, w.items_tree \in Seq(NodeOf(Nat)), NEW v
  PROVE  /\ HasInsertPosition(w, v) => IsPlace(InsertPosition(w, v))
         /\ IsPlace(EndInsertPosition(w))
         /\ IsPlace(FocusPosition(w))
         /\ IsPlace(InsertPositionOr(w, v, FocusPosition(w)))
<1>1. ASSUME NEW u, HasInsertPosition(w, u)
      PROVE  IsPlace(InsertPosition(w, u))
  <2>1. PICK t, i, next : t = w.items_tree /\ i = ToDisplayed(t, u) /\ next = ToDisplayed(t, u + 1)
    OBVIOUS
  <2>2. t \in Seq(NodeOf(Nat)) /\ Len(t) \in Nat /\ DOMAIN t = 1..Len(t)
    BY <2>1
  <2>3. i # 0
    BY <1>1, <2>1 DEF HasInsertPosition, RowItem
  <2>4. i \in 1..Len(t) /\ next \in 0..Len(t)
    BY <2>1, <2>2, <2>3, DisplayedIs
  <2>5. PICK b : b = IF next = 0 THEN Len(t) + 1 ELSE next
    OBVIOUS
  <2>6. b \in Nat \ {0} /\ i + 1 \in Nat \ {0}
    BY <2>2, <2>4, <2>5
  <2>7. \/ \E l : InsertPosition(w, u) = [before |-> i + 1, level |-> l]
        \/ \E l : InsertPosition(w, u) = [before |-> b, level |-> l]
    BY <2>1, <2>5, Zenon DEF InsertPosition
  <2>8. QED
    BY <2>6, <2>7 DEF IsPlace
<1>2. IsPlace(EndInsertPosition(w))
  BY DEF EndInsertPosition, IsPlace
<1>3. IsPlace(FocusPosition(w))
  BY <1>1, <1>2, Zenon DEF FocusPosition, InsertPositionOr
<1>4. QED
  BY <1>1, <1>2, <1>3, Zenon DEF InsertPositionOr

\* insert_item, for any item but a marker that is displayed or has no time.
LEMMA InsertedKeeps ==
  ASSUME NEW w \in WavesType, NEW times, NEW item \in Item, NEW target, NEW move_focus,
         KeptWith(w, w.display_item_ref_counter, times),
         target.before \in Nat \ {0},
         item.kind = "marker" =>
            /\ item.of \in times
            /\ \A r \in MarkersIn(w.displayed_items) : w.displayed_items[r].of # item.of
  PROVE  \E u \in WavesType :
           /\ u = Inserted(w, item, target, move_focus)
           /\ KeptWith(u, u.display_item_ref_counter, times)
           /\ u.markers = w.markers /\ u.inner = w.inner
           /\ u.display_item_ref_counter >= w.display_item_ref_counter
<1>1. PICK t, d, ref : /\ t = w.items_tree /\ d = w.displayed_items
                       /\ ref = w.display_item_ref_counter + 1
  OBVIOUS
<1>2. /\ t \in Seq(NodeOf(Nat)) /\ d \in Displays
      /\ w.display_item_ref_counter \in Nat /\ ref \in Nat \ {0}
      /\ Shows(t, Nat, DOMAIN d) /\ DOMAIN d \subseteq 1..ref-1 /\ Timed(d, times)
  BY <1>1 DEF WavesType, KeptWith
<1>3. CASE ~CheckLocation(t, target)
  <2>1. Inserted(w, item, target, move_focus) = [w EXCEPT !.panic = "insert"]
    BY <1>1, <1>3, Zenon DEF Inserted, Panic
  <2>2. PICK u : u = [w EXCEPT !.panic = "insert"]
    OBVIOUS
  <2>3. /\ u \in WavesType
        /\ u.items_tree = w.items_tree /\ u.displayed_items = w.displayed_items
        /\ u.display_item_ref_counter = w.display_item_ref_counter
        /\ u.markers = w.markers /\ u.inner = w.inner
    BY <2>2 DEF WavesType, Panics
  <2>4. KeptWith(u, u.display_item_ref_counter, times)
    BY <2>3 DEF KeptWith
  <2>5. u = Inserted(w, item, target, move_focus)
    BY <2>1, <2>2, Zenon
  <2>6. u.display_item_ref_counter >= w.display_item_ref_counter
    BY <1>2, <2>3
  <2>7. QED
    BY <2>3, <2>4, <2>5, <2>6, Zenon
<1>4. CASE CheckLocation(t, target)
  <2>1. PICK tree, shown, e, focus :
          /\ tree = InsertNode(t, ref, target)
          /\ shown = XSelectAllVisible(tree, FALSE)
          /\ e = [r \in DOMAIN d \cup {ref} |-> IF r = ref THEN item ELSE d[r]]
          /\ focus = IF move_focus /\ w.focused_item # 0
                     THEN VisibleIndex(tree, target.before) ELSE w.focused_item
    OBVIOUS
  <2>2. Inserted(w, item, target, move_focus) =
          [w EXCEPT !.display_item_ref_counter = ref, !.items_tree = shown,
                    !.displayed_items = e, !.focused_item = focus]
    BY <1>1, <1>4, <2>1 DEF Inserted
  <2>3. ref \notin DOMAIN d
    BY <1>2
  <2>4. Shows(tree, Nat, DOMAIN d \cup {ref})
    BY <1>2, <1>4, <2>1, <2>3, InsertShows
  <2>5. Shows(shown, Nat, DOMAIN d \cup {ref})
    BY <2>1, <2>4, SelectShows DEF XSelectAllVisible
  <2>6. /\ DOMAIN e = DOMAIN d \cup {ref} /\ e[ref] = item
        /\ \A r \in DOMAIN d : e[r] = d[r]
    BY <2>1, <2>3
  <2>7. e \in Displays
    <3>1. DOMAIN d \subseteq Nat /\ d \in [DOMAIN d -> Item]
      BY <1>2, DisplaysAre
    <3>2. e \in [DOMAIN e -> Item]
      BY <2>1, <2>6, <3>1
    <3>3. QED
      BY <1>2, <2>6, <3>1, <3>2, DisplaysAre
  <2>8. DOMAIN e \subseteq 1..ref
    <3>1. 1..ref-1 \subseteq 1..ref /\ ref \in 1..ref
      BY <1>2
    <3>2. QED
      BY <1>2, <2>6, <3>1
  <2>9. Timed(e, times)
    <3>1. ASSUME NEW r \in MarkersIn(e)
          PROVE  \/ r = ref /\ item.kind = "marker" /\ e[r].of = item.of
                 \/ r \in MarkersIn(d) /\ e[r].of = d[r].of /\ r # ref
      BY <2>3, <2>6 DEF MarkersIn
    <3>2. QED
      BY <1>1, <1>2, <3>1 DEF Timed
  <2>10. focus \in Int
    <3>1. VisibleIndex(tree, target.before) \in Nat
      BY <2>4, RowsAreNumbers DEF Shows
    <3>2. w.focused_item \in Int
      BY DEF WavesType
    <3>3. QED
      BY <2>1, <3>1, <3>2
  <2>11. PICK u : u = Inserted(w, item, target, move_focus)
    OBVIOUS
  <2>12. shown \in Seq(NodeOf(Nat))
    BY <2>5 DEF Shows
  <2>13. /\ u \in WavesType
         /\ u.items_tree = shown /\ u.displayed_items = e /\ u.markers = w.markers
         /\ u.display_item_ref_counter = ref /\ u.inner = w.inner
    BY <1>2, <2>2, <2>7, <2>10, <2>11, <2>12 DEF WavesType
  <2>14. KeptWith(u, u.display_item_ref_counter, times)
    BY <2>5, <2>6, <2>8, <2>9, <2>13 DEF KeptWith
  <2>15. ref >= w.display_item_ref_counter
    BY <1>1, <1>2
  <2>16. QED
    BY <2>11, <2>13, <2>14, <2>15
<1>5. QED
  BY <1>3, <1>4

\* What a recursion ends with, when each turn stays in a set.
LEMMA RecursionStays ==
  ASSUME NEW S, NEW a \in S, NEW n \in Nat, NEW g, g[0] = a,
         \A k \in 1..n : g[k-1] \in S => g[k] \in S
  PROVE  g[n] \in S
<1>1. PICK T : T = {k \in 0..n : g[k] \in S}
  OBVIOUS
<1>2. 0 \in T
  <2>1. 0 \in 0..n
    OBVIOUS
  <2>2. QED
    BY <1>1, <2>1
<1>3. \A k \in 1..n : k-1 \in T => k \in T
  <2>1. \A k \in 1..n : k \in 0..n
    OBVIOUS
  <2>2. QED
    BY <1>1, <2>1
<1>4. \A k \in 0..n : k \in T
  BY <1>2, <1>3, UpTo
<1>5. n \in T
  BY <1>4
<1>6. QED
  BY <1>1, <1>5

\* An item that is no marker goes in with the times that there are.
LEMMA InsertedSound ==
  ASSUME NEW n, NEW w \in SoundWaves(n), n \in Nat, NEW item \in Item, item.kind # "marker",
         NEW target, target.before \in Nat \ {0}, NEW move_focus
  PROVE  Inserted(w, item, target, move_focus) \in SoundWaves(n)
<1>1. PICK times : times = w.markers
  OBVIOUS
<1>2. /\ w \in WavesType /\ KeptWith(w, w.display_item_ref_counter, times)
      /\ w.display_item_ref_counter >= n /\ w.display_item_ref_counter \in Nat
  BY <1>1 DEF SoundWaves, Kept, WavesType
<1>3. PICK u \in WavesType :
        /\ u = Inserted(w, item, target, move_focus)
        /\ KeptWith(u, u.display_item_ref_counter, times)
        /\ u.markers = w.markers /\ u.inner = w.inner
        /\ u.display_item_ref_counter >= w.display_item_ref_counter
  <2>1. item.kind = "marker" =>
            /\ item.of \in times
            /\ \A r \in MarkersIn(w.displayed_items) : w.displayed_items[r].of # item.of
    OBVIOUS
  <2>2. QED
    BY <1>2, <2>1, InsertedKeeps
<1>4. u.display_item_ref_counter >= n
  BY <1>2, <1>3 DEF WavesType
<1>5. QED
  BY <1>1, <1>3, <1>4 DEF SoundWaves, Kept

\* The loop of add_variables.
LEMMA InsertedAllSound ==
  ASSUME NEW n \in Nat, NEW w \in SoundWaves(n), NEW items \in Seq(Item),
         \A k \in 1..Len(items) : items[k].kind # "marker",
         NEW target, IsPlace(target)
  PROVE  InsertedAll(w, items, target) \in SoundWaves(n)
<1> DEFINE added[k \in 0..Len(items)] ==
             IF k = 0 THEN w
             ELSE LET last == added[k-1] IN
                  IF last.panic # "no" THEN last
                  ELSE Inserted(last, items[k], [target EXCEPT !.before = @ + k - 1], TRUE)
           turn(k, s) ==
             IF s.panic # "no" THEN s
             ELSE Inserted(s, items[k], [target EXCEPT !.before = @ + k - 1], TRUE)
<1>1. PICK m \in Nat : m = Len(items)
  OBVIOUS
<1>2. PICK S : S = SoundWaves(n)
  OBVIOUS
<1>3. \A k \in 1..m, s \in S : turn(k, s) \in S
  <2>1. ASSUME NEW k \in 1..m, NEW s \in S
        PROVE  turn(k, s) \in S
    <3>1. items[k] \in Item /\ items[k].kind # "marker"
      BY <1>1
    <3>2. PICK p : p = [target EXCEPT !.before = @ + k - 1]
      OBVIOUS
    <3>3. p.before \in Nat \ {0}
      BY <3>2 DEF IsPlace
    <3>4. Inserted(s, items[k], p, TRUE) \in S
      BY <1>2, <3>1, <3>3, InsertedSound
    <3>5. QED
      BY <3>2, <3>4
  <2>2. QED
    BY <2>1
<1>4. added = [k \in 0..m |-> IF k = 0 THEN w ELSE turn(k, added[k-1])]
  <2>1. PICK step : step = [k \in 1..m |-> [s \in S |-> turn(k, s)]]
    OBVIOUS
  <2>2. step \in [1..m -> [S -> S]]
    BY <1>3, <2>1, Zenon
  <2>3. PICK f \in [0..m -> S] : Solves(f, m, w, step)
    BY <1>2, <2>2, RecursionOnPrefix, Zenon
  <2>4. ASSUME NEW k \in 0..m
        PROVE  f[k] = IF k = 0 THEN w ELSE turn(k, f[k-1])
    <3>1. CASE k = 0
      BY <2>3, <3>1 DEF Solves
    <3>2. CASE k # 0
      <4>1. k \in 1..m /\ k-1 \in 0..m
        BY <3>2
      <4>2. f[k-1] \in S /\ f[k] = step[k][f[k-1]]
        BY <2>3, <3>2, <4>1 DEF Solves
      <4>3. step[k][f[k-1]] = turn(k, f[k-1])
        BY <2>1, <4>1, <4>2, Zenon
      <4>4. QED
        BY <3>2, <4>2, <4>3
    <3>3. QED
      BY <3>1, <3>2
  <2>5. f = [k \in 0..m |-> IF k = 0 THEN w ELSE turn(k, f[k-1])]
    BY <2>3, <2>4, Zenon
  <2>6. QED
    BY <1>1, <2>5, Zenon
<1>5. InsertedAll(w, items, target) = added[m]
  BY <1>1, Zenon DEF InsertedAll
<1> HIDE DEF added
<1>6. added[0] = w
  <2>1. 0 \in 0..m
    OBVIOUS
  <2>2. QED
    BY <1>4, <2>1
<1>7. \A k \in 1..m : added[k] = turn(k, added[k-1])
  <2>1. \A k \in 1..m : k \in 0..m /\ k # 0
    OBVIOUS
  <2>2. QED
    BY <1>4, <2>1
<1>8. added[m] \in S
  <2>1. \A k \in 1..m : added[k-1] \in S => added[k] \in S
    BY <1>3, <1>7
  <2>2. QED
    BY <1>2, <1>6, <2>1, RecursionStays
<1>9. QED
  BY <1>2, <1>5, <1>8

-----------------------------------------------------------------------------
(* Changing the tree, and removing *)

\* Another tree of the same items, another row for the focus.
LEMMA TreeChanged ==
  ASSUME NEW n \in Nat, NEW w \in SoundWaves(n), NEW f \in Int,
         NEW t, Shows(t, Nat, DOMAIN w.displayed_items)
  PROVE  /\ [w EXCEPT !.items_tree = t] \in SoundWaves(n)
         /\ [w EXCEPT !.focused_item = f] \in SoundWaves(n)
         /\ [w EXCEPT !.items_tree = t, !.focused_item = f] \in SoundWaves(n)
<1>1. t \in Seq(NodeOf(Nat))
  BY DEF Shows
<1>2. w \in WavesType
  BY DEF SoundWaves
<1>3. PICK u, v, x : /\ u = [w EXCEPT !.items_tree = t]
                     /\ v = [w EXCEPT !.focused_item = f]
                     /\ x = [w EXCEPT !.items_tree = t, !.focused_item = f]
  OBVIOUS
<1>4. u \in WavesType /\ v \in WavesType /\ x \in WavesType
  BY <1>1, <1>2, <1>3 DEF WavesType
<1>5. \A y \in {u, v, x} :
        /\ y.items_tree \in {t, w.items_tree}
        /\ y.displayed_items = w.displayed_items /\ y.markers = w.markers
        /\ y.display_item_ref_counter = w.display_item_ref_counter
  BY <1>2, <1>3 DEF WavesType
<1>6. QED
  BY <1>3, <1>4, <1>5 DEF SoundWaves, Kept, KeptWith

LEMMA PanicSound ==
  ASSUME NEW n \in Nat, NEW w \in SoundWaves(n), NEW reason \in Panics
  PROVE  Panic(w, reason) \in SoundWaves(n)
<1>1. w \in WavesType
  BY DEF SoundWaves
<1>2. PICK u : u = Panic(w, reason)
  OBVIOUS
<1>3. /\ u \in WavesType /\ u.items_tree = w.items_tree
      /\ u.displayed_items = w.displayed_items /\ u.markers = w.markers
      /\ u.display_item_ref_counter = w.display_item_ref_counter
  BY <1>1, <1>2 DEF Panic, WavesType
<1>4. QED
  BY <1>2, <1>3 DEF SoundWaves, Kept, KeptWith

\* Fewer items: those that stay keep their markers' times.
LEMMA FewerSound ==
  ASSUME NEW n \in Nat, NEW w \in SoundWaves(n), NEW f \in Int, NEW gone,
         NEW t, Shows(t, Nat, DOMAIN w.displayed_items \ gone),
         NEW lost, \A r \in MarkersIn(w.displayed_items) :
                     w.displayed_items[r].of \in lost => r \in gone
  PROVE  /\ [w EXCEPT !.items_tree = t,
                      !.displayed_items = Restrict(@, DOMAIN @ \ gone),
                      !.markers = @ \ lost,
                      !.focused_item = f] \in SoundWaves(n)
         /\ [w EXCEPT !.items_tree = t,
                      !.displayed_items = Restrict(@, DOMAIN @ \ gone)] \in SoundWaves(n)
<1>1. /\ w \in WavesType /\ w.display_item_ref_counter >= n
      /\ DOMAIN w.displayed_items \subseteq 1..w.display_item_ref_counter
      /\ Timed(w.displayed_items, w.markers)
  BY DEF SoundWaves, Kept, KeptWith
<1>2. PICK d, e : d = w.displayed_items /\ e = Restrict(d, DOMAIN d \ gone)
  OBVIOUS
<1>3. d \in Displays /\ DOMAIN d \ gone \in SUBSET DOMAIN d
  BY <1>1, <1>2 DEF WavesType
<1>4. /\ e \in Displays /\ DOMAIN e = DOMAIN d \ gone
      /\ \A r \in DOMAIN e : e[r] = d[r]
  BY <1>2, <1>3, RestrictIs
<1>5. \A r \in MarkersIn(e) : r \in MarkersIn(d) /\ r \notin gone /\ e[r] = d[r]
  BY <1>4 DEF MarkersIn
<1>6. Timed(e, w.markers \ lost) /\ Timed(e, w.markers)
  <2>1. \A r \in MarkersIn(e) : e[r].of \in w.markers /\ e[r].of \notin lost
    BY <1>1, <1>2, <1>5 DEF Timed
  <2>2. ASSUME NEW r \in MarkersIn(e), NEW s \in MarkersIn(e), e[r].of = e[s].of
        PROVE  r = s
    <3>1. /\ r \in MarkersIn(d) /\ e[r] = d[r]
          /\ s \in MarkersIn(d) /\ e[s] = d[s]
      BY <1>5
    <3>2. d[r].of = d[s].of
      BY <2>2, <3>1
    <3>3. QED
      BY <1>1, <1>2, <3>1, <3>2 DEF Timed
  <2>3. QED
    BY <2>1, <2>2 DEF Timed
<1>7. t \in Seq(NodeOf(Nat)) /\ w.markers \ lost \in SUBSET MarkerIndex
  BY <1>1 DEF Shows, WavesType
<1>8. PICK u, v : /\ u = [w EXCEPT !.items_tree = t, !.displayed_items = e,
                                   !.markers = @ \ lost, !.focused_item = f]
                  /\ v = [w EXCEPT !.items_tree = t, !.displayed_items = e]
  OBVIOUS
<1>9. u \in WavesType /\ v \in WavesType
  BY <1>1, <1>4, <1>7, <1>8 DEF WavesType
<1>10. /\ u.items_tree = t /\ u.displayed_items = e /\ u.markers = w.markers \ lost
       /\ u.display_item_ref_counter = w.display_item_ref_counter
       /\ v.items_tree = t /\ v.displayed_items = e /\ v.markers = w.markers
       /\ v.display_item_ref_counter = w.display_item_ref_counter
  BY <1>1, <1>8 DEF WavesType
<1>11. DOMAIN e \subseteq 1..w.display_item_ref_counter
  BY <1>1, <1>2, <1>4
<1>12. u \in SoundWaves(n) /\ v \in SoundWaves(n)
  BY <1>1, <1>2, <1>4, <1>6, <1>9, <1>10, <1>11 DEF SoundWaves, Kept, KeptWith
<1>13. QED
  BY <1>2, <1>8, <1>12

\* remove_displayed_item takes the times of just the markers it removes.
LEMMA RemovedSound ==
  ASSUME NEW n \in Nat, NEW w \in SoundWaves(n), NEW ref
  PROVE  Removed(w, ref) \in SoundWaves(n)
<1> DEFINE t == w.items_tree
           i == PositionOf(t, ref)
           tree == RemoveRecursive(t, i)
           gone == {t[k].item_ref : k \in i..SubtreeEnd(t, i)-1}
           lost == {w.displayed_items[r].of :
                      r \in {x \in gone : KindOf(w, x) = "marker"}}
           rows == {RowOf(tree, r) : r \in FocusedItem(w)}
           some == CHOOSE v \in rows : TRUE
           last == Min({w.focused_item, VisibleCount(tree)})
           f == IF FocusedItem(w) = {} THEN 0
                ELSE IF rows # {0} THEN some ELSE last
<1>1. Removed(w, ref) =
        IF i = 0 THEN w
        ELSE [w EXCEPT !.items_tree = tree,
                       !.displayed_items = Restrict(@, DOMAIN @ \ gone),
                       !.markers = @ \ lost,
                       !.focused_item = f]
  BY DEF Removed
<1>2. PICK d : d = w.displayed_items
  OBVIOUS
<1>3. /\ w \in WavesType /\ Shows(t, Nat, DOMAIN d) /\ Timed(d, w.markers)
      /\ t \in Seq(NodeOf(Nat)) /\ Len(t) \in Nat
  BY <1>2 DEF SoundWaves, Kept, KeptWith, Shows
<1>4. CASE i # 0
  <2>1. i \in 1..Len(t)
    <3>1. PositionOf(t, ref) \in 0..Len(t)
      BY <1>3, PositionIs
    <3>2. QED
      BY <1>3, <1>4, <3>1
  <2>2. Shows(tree, Nat, DOMAIN d \ gone)
    BY <1>3, <2>1, RemoveShows DEF ItemsIn
  <2>3. ASSUME NEW r \in MarkersIn(d), d[r].of \in lost
        PROVE  r \in gone
    <3>1. PICK s \in gone : KindOf(w, s) = "marker" /\ d[s].of = d[r].of
      BY <1>2, <2>3
    <3>2. s \in MarkersIn(d)
      BY <1>2, <3>1 DEF KindOf, MarkersIn
    <3>3. QED
      BY <1>3, <2>3, <3>1, <3>2 DEF Timed
  <2>4. f \in Int
    <3>1. tree \in Seq(NodeOf(Nat))
      BY <2>2 DEF Shows
    <3>2. rows \subseteq Nat
      BY <3>1, RowOfIsNumber
    <3>3. FocusedItem(w) # {} => rows # {}
      OBVIOUS
    <3>4. rows # {} => some \in Nat
      <4> HIDE DEF rows
      <4>1. ASSUME rows # {}
            PROVE  some \in rows
        <5>1. \E v \in rows : TRUE
          BY <4>1
        <5>2. QED
          BY <5>1, Zenon
      <4>2. QED
        BY <3>2, <4>1
    <3>5. last \in Int
      <4>1. w.focused_item \in Int
        BY <1>3 DEF WavesType
      <4>2. VisibleCount(tree) \in Int
        BY <3>1, RowsAreNumbers
      <4>3. QED
        BY <4>1, <4>2, MinOfInts
    <3> HIDE DEF rows, some, last
    <3>6. QED
      BY <3>3, <3>4, <3>5
  <2>5. /\ Shows(tree, Nat, DOMAIN w.displayed_items \ gone)
        /\ \A r \in MarkersIn(w.displayed_items) :
             w.displayed_items[r].of \in lost => r \in gone
    BY <1>2, <2>2, <2>3
  <2> HIDE DEF t, i, tree, gone, lost, f
  <2>6. [w EXCEPT !.items_tree = tree,
                  !.displayed_items = Restrict(@, DOMAIN @ \ gone),
                  !.markers = @ \ lost,
                  !.focused_item = f] \in SoundWaves(n)
    BY <2>4, <2>5, FewerSound
  <2>7. QED
    BY <1>1, <1>4, <2>6
<1>5. QED
  BY <1>1, <1>4

\* The loop of RemoveVisibleItems.
LEMMA RemovedRowsSound ==
  ASSUME NEW n \in Nat, NEW w \in SoundWaves(n), NEW rows
  PROVE  RemovedRows(w, rows) \in SoundWaves(n)
<1> DEFINE t == w.items_tree
           left[k \in 0..Len(t)] ==
             IF k = 0 THEN w
             ELSE LET last == left[k-1] IN
                  IF k \in rows THEN Removed(last, t[k].item_ref) ELSE last
           turn(k, s) == IF k \in rows THEN Removed(s, t[k].item_ref) ELSE s
<1>1. PICK m \in Nat : m = Len(t)
  BY DEF SoundWaves, Kept, KeptWith, Shows
<1>2. PICK S : S = SoundWaves(n)
  OBVIOUS
<1>3. \A k \in 1..m, s \in S : turn(k, s) \in S
  BY <1>2, RemovedSound
<1>4. left = [k \in 0..m |-> IF k = 0 THEN w ELSE turn(k, left[k-1])]
  <2>1. PICK step : step = [k \in 1..m |-> [s \in S |-> turn(k, s)]]
    OBVIOUS
  <2>2. step \in [1..m -> [S -> S]]
    BY <1>3, <2>1, Zenon
  <2>3. PICK f \in [0..m -> S] : Solves(f, m, w, step)
    BY <1>2, <2>2, RecursionOnPrefix, Zenon
  <2>4. ASSUME NEW k \in 0..m
        PROVE  f[k] = IF k = 0 THEN w ELSE turn(k, f[k-1])
    <3>1. CASE k = 0
      BY <2>3, <3>1 DEF Solves
    <3>2. CASE k # 0
      <4>1. k \in 1..m /\ k-1 \in 0..m
        BY <3>2
      <4>2. f[k-1] \in S /\ f[k] = step[k][f[k-1]]
        BY <2>3, <3>2, <4>1 DEF Solves
      <4>3. step[k][f[k-1]] = turn(k, f[k-1])
        BY <2>1, <4>1, <4>2, Zenon
      <4>4. QED
        BY <3>2, <4>2, <4>3
    <3>3. QED
      BY <3>1, <3>2
  <2>5. f = [k \in 0..m |-> IF k = 0 THEN w ELSE turn(k, f[k-1])]
    BY <2>3, <2>4, Zenon
  <2>6. QED
    BY <1>1, <2>5, Zenon
<1>5. RemovedRows(w, rows) = left[m]
  BY <1>1, Zenon DEF RemovedRows
<1> HIDE DEF left
<1>6. left[0] = w
  <2>1. 0 \in 0..m
    OBVIOUS
  <2>2. QED
    BY <1>4, <2>1
<1>7. \A k \in 1..m : left[k] = turn(k, left[k-1])
  <2>1. \A k \in 1..m : k \in 0..m /\ k # 0
    OBVIOUS
  <2>2. QED
    BY <1>4, <2>1
<1>8. left[m] \in S
  <2>1. \A k \in 1..m : left[k-1] \in S => left[k] \in S
    BY <1>3, <1>7
  <2>2. QED
    BY <1>2, <1>6, <2>1, RecursionStays
<1>9. QED
  BY <1>2, <1>5, <1>8

\* The loop of RemoveItems.
LEMMA RemovedRefsSound ==
  ASSUME NEW n \in Nat, NEW w \in SoundWaves(n), NEW refs
  PROVE  RemovedRefs(w, refs) \in SoundWaves(n)
<1> DEFINE left[k \in 0..MaxRef] ==
             IF k = 0 THEN w
             ELSE LET last == left[k-1]
                      ref  == MaxRef + 1 - k
                  IN IF ref \in refs THEN Removed(last, ref) ELSE last
           turn(k, s) == IF MaxRef + 1 - k \in refs THEN Removed(s, MaxRef + 1 - k) ELSE s
<1>1. PICK m \in Nat : m = MaxRef
  BY CanvasAssumption
<1>2. PICK S : S = SoundWaves(n)
  OBVIOUS
<1>3. \A k \in 1..m, s \in S : turn(k, s) \in S
  BY <1>2, RemovedSound
<1>4. left = [k \in 0..m |-> IF k = 0 THEN w ELSE turn(k, left[k-1])]
  <2>1. PICK step : step = [k \in 1..m |-> [s \in S |-> turn(k, s)]]
    OBVIOUS
  <2>2. step \in [1..m -> [S -> S]]
    BY <1>3, <2>1, Zenon
  <2>3. PICK f \in [0..m -> S] : Solves(f, m, w, step)
    BY <1>2, <2>2, RecursionOnPrefix, Zenon
  <2>4. ASSUME NEW k \in 0..m
        PROVE  f[k] = IF k = 0 THEN w ELSE turn(k, f[k-1])
    <3>1. CASE k = 0
      BY <2>3, <3>1 DEF Solves
    <3>2. CASE k # 0
      <4>1. k \in 1..m /\ k-1 \in 0..m
        BY <3>2
      <4>2. f[k-1] \in S /\ f[k] = step[k][f[k-1]]
        BY <2>3, <3>2, <4>1 DEF Solves
      <4>3. step[k][f[k-1]] = turn(k, f[k-1])
        BY <2>1, <4>1, <4>2, Zenon
      <4>4. QED
        BY <3>2, <4>2, <4>3
    <3>3. QED
      BY <3>1, <3>2
  <2>5. f = [k \in 0..m |-> IF k = 0 THEN w ELSE turn(k, f[k-1])]
    BY <2>3, <2>4, Zenon
  <2>6. QED
    BY <1>1, <2>5, Zenon
<1>5. RemovedRefs(w, refs) = left[m]
  BY <1>1, Zenon DEF RemovedRefs
<1> HIDE DEF left
<1>6. left[0] = w
  <2>1. 0 \in 0..m
    OBVIOUS
  <2>2. QED
    BY <1>4, <2>1
<1>7. \A k \in 1..m : left[k] = turn(k, left[k-1])
  <2>1. \A k \in 1..m : k \in 0..m /\ k # 0
    OBVIOUS
  <2>2. QED
    BY <1>4, <2>1
<1>8. left[m] \in S
  <2>1. \A k \in 1..m : left[k-1] \in S => left[k] \in S
    BY <1>3, <1>7
  <2>2. QED
    BY <1>2, <1>6, <2>1, RecursionStays
<1>9. QED
  BY <1>2, <1>5, <1>8

-----------------------------------------------------------------------------
(* Moving *)

\* move_items of any positions to any place.
LEMMA MovedItemsSound ==
  ASSUME NEW n \in Nat, NEW w \in SoundWaves(n), NEW positions,
         NEW target, target.before \in Nat \ {0}
  PROVE  MovedItems(w, positions, target) \in SoundWaves(n)
<1>1. PICK r : r = MoveItems(w.items_tree, positions, target)
  OBVIOUS
<1>2. Shows(w.items_tree, Nat, DOMAIN w.displayed_items) /\ w.focused_item \in Int
  BY DEF SoundWaves, Kept, KeptWith, WavesType
<1>3. Shows(r.tree, Nat, DOMAIN w.displayed_items)
  BY <1>1, <1>2, MoveItemsShows
<1>4. [w EXCEPT !.items_tree = r.tree] \in SoundWaves(n)
  BY <1>2, <1>3, TreeChanged
<1>5. Panic(w, "slice") \in SoundWaves(n)
  BY PanicSound DEF Panics
<1>6. QED
  BY <1>1, <1>4, <1>5 DEF MovedItems

\* One step of MoveFocusedItem.
LEMMA MovedFocusedSound ==
  ASSUME NEW n \in Nat, NEW w \in SoundWaves(n), NEW direction
  PROVE  MovedFocused(w, direction) \in SoundWaves(n)
<1>1. PICK r : r = MoveItem(w.items_tree, w.focused_item, direction, Groups(w))
  OBVIOUS
<1>2. Shows(w.items_tree, Nat, DOMAIN w.displayed_items) /\ w.focused_item \in Int
  BY DEF SoundWaves, Kept, KeptWith, WavesType
<1>3. Shows(r.tree, Nat, DOMAIN w.displayed_items)
  BY <1>1, <1>2, MoveItemShows
<1>4. r.vidx \in Int
  <2>1. PICK v \in Int : v = w.focused_item
    BY <1>2
  <2>2. PICK t, groups : t = w.items_tree /\ groups = Groups(w)
    OBVIOUS
  <2>3. MoveUp(t, v, groups).vidx \in Int
    BY DEF MoveUp, Overflown
  <2>4. MoveDown(t, v, groups).vidx \in Int
    BY DEF MoveDown, Overflown
  <2>5. MoveItem(t, v, direction, groups).vidx \in Int
    BY <2>3, <2>4 DEF MoveItem
  <2>6. QED
    BY <1>1, <2>1, <2>2, <2>5
<1>5. [w EXCEPT !.items_tree = r.tree, !.focused_item = r.vidx] \in SoundWaves(n)
  BY <1>3, <1>4, TreeChanged
<1>6. Panic(w, "move failed") \in SoundWaves(n)
  BY PanicSound DEF Panics
<1>7. QED
  BY <1>1, <1>5, <1>6 DEF MovedFocused

-----------------------------------------------------------------------------
(* Another waveform *)

\* An order of a finite set is a sequence of all its elements.
LEMMA OrdersHoldAll ==
  ASSUME NEW D, IsFiniteSet(D), NEW order \in Orders(D)
  PROVE  Len(order) \in Nat /\ D = {order[j] : j \in 1..Len(order)}
<1>1. PICK c \in Nat : c = Cardinality(D)
  BY FS_CardinalityType
<1>2. order \in [1..c -> D] /\ \A i, j \in 1..c : i # j => order[i] # order[j]
  BY <1>1 DEF Orders, SetToSeqs
<1>3. order \in Injection(1..c, D)
  BY <1>2 DEF Injection, IsInjective
<1>4. IsFiniteSet(1..c) /\ Cardinality(1..c) = c
  BY FS_Interval
<1>5. order \in Surjection(1..c, D)
  BY <1>1, <1>3, <1>4, FS_Injection
<1>6. \A x \in D : \E j \in 1..c : order[j] = x
  BY <1>5 DEF Surjection
<1>7. Len(order) = c
  BY <1>2
<1>8. QED
  BY <1>2, <1>6, <1>7

\* Draining one item of a tree in which no other is under it.
LEMMA DrainedOne ==
  ASSUME NEW items, NEW t, Shows(t, Nat, items), NEW ref,
         ~ \E i, j \in {k \in DOMAIN t : Gone(t, {ref}, k)} : i # j
  PROVE  Shows(Drained(t, {ref}), Nat, items \ {ref})
<1>1. t \in Seq(NodeOf(Nat)) /\ Len(t) \in Nat /\ DOMAIN t = 1..Len(t) /\ RefsOf(t) = items
  BY DEF Shows
<1>2. ASSUME NEW k \in 1..Len(t), t[k].item_ref = ref
      PROVE  Gone(t, {ref}, k)
  <2>1. SubtreeEnd(t, k) \in k+1..Len(t)+1
    BY <1>1, SubtreeEndIs
  <2>2. k \in 1..k /\ k < SubtreeEnd(t, k)
    BY <2>1
  <2>3. QED
    BY <1>2, <2>2 DEF Gone
<1>3. ASSUME NEW k \in 1..Len(t), Gone(t, {ref}, k)
      PROVE  t[k].item_ref = ref
  <2>1. PICK i \in 1..k : t[i].item_ref = ref
    BY <1>3 DEF Gone
  <2>2. i \in 1..Len(t)
    BY <1>1
  <2>3. Gone(t, {ref}, i)
    BY <1>2, <2>1, <2>2
  <2>4. i = k
    BY <1>1, <1>3, <2>2, <2>3
  <2>5. QED
    BY <2>1, <2>4
<1>4. Staying(t, {ref}, Len(t)) = items \ {ref}
  BY <1>1, <1>2, <1>3 DEF Staying, RefsOf
<1>5. QED
  BY <1>4, DrainedShows

\* The order names the elements of D, whatever order it is.
Lists(order, D) == Len(order) \in Nat /\ D = {order[j] : j \in 1..Len(order)}

\* Waves that show just the items of d, or fewer, with these times for markers,
\* after w.
ShowsFrom(w, d, times) ==
  {u \in WavesType :
     /\ Shows(u.items_tree, Nat, DOMAIN u.displayed_items)
     /\ DOMAIN u.displayed_items \subseteq DOMAIN d
     /\ Timed(u.displayed_items, times)
     /\ u.markers = w.markers
     /\ u.display_item_ref_counter = w.display_item_ref_counter}

\* update_displayed_items drops the missing items from tree and map alike, or
\* fails its assertion before it has changed anything.
LEMMA UpdatedKeeps ==
  ASSUME NEW w \in WavesType, w.panic = "no", NEW d \in Displays, NEW inner \in SUBSET Vars,
         Shows(w.items_tree, Nat, DOMAIN d), NEW times, Timed(d, times),
         NEW keep_unavailable, NEW order, Lists(order, Dropped(d, inner, keep_unavailable))
  PROVE  \/ /\ UpdatedItems(w, d, inner, keep_unavailable, order) = Panic(w, "assert")
            /\ Len(order) # 0
         \/ UpdatedItems(w, d, inner, keep_unavailable, order) \in ShowsFrom(w, d, times)
<1> DEFINE rows(t, k) == {i \in DOMAIN t : Gone(t, {order[k]}, i)}
           left[k \in 0..Len(order)] ==
             IF k = 0 THEN w
             ELSE LET last == left[k-1]
                      t    == last.items_tree
                      rs   == {i \in DOMAIN t : Gone(t, {order[k]}, i)}
                  IN IF last.panic # "no" THEN last
                     ELSE IF \E i, j \in rs : i # j THEN Panic(w, "assert")
                     ELSE [last EXCEPT !.items_tree = Drained(@, {order[k]})]
           turn(k, s) ==
             IF s.panic # "no" THEN s
             ELSE IF \E i, j \in rows(s.items_tree, k) : i # j THEN Panic(w, "assert")
             ELSE [s EXCEPT !.items_tree = Drained(@, {order[k]})]
           e == [ref \in DOMAIN d \ Dropped(d, inner, keep_unavailable) |-> Update(d[ref], inner)]
<1>1. PICK m \in Nat : m = Len(order)
  BY DEF Lists
<1>2. PICK S : S = {u \in WavesType :
                      /\ RefsUnique(u.items_tree)
                      /\ u.markers = w.markers
                      /\ u.display_item_ref_counter = w.display_item_ref_counter}
  OBVIOUS
<1>3. w \in S /\ Panic(w, "assert") \in S
  <2>1. PICK u : u = Panic(w, "assert")
    OBVIOUS
  <2>2. /\ u \in WavesType /\ u.items_tree = w.items_tree /\ u.markers = w.markers
        /\ u.display_item_ref_counter = w.display_item_ref_counter
    BY <2>1 DEF Panic, WavesType, Panics
  <2>3. QED
    BY <1>2, <2>1, <2>2 DEF Shows
<1>4. \A k \in 1..m, s \in S : turn(k, s) \in S
  <2>1. ASSUME NEW k \in 1..m, NEW s \in S
        PROVE  [s EXCEPT !.items_tree = Drained(@, {order[k]})] \in S
    <3>1. PICK t, A : t = Drained(s.items_tree, {order[k]})
                      /\ A = Staying(s.items_tree, {order[k]}, Len(s.items_tree))
      OBVIOUS
    <3>2. Shows(s.items_tree, Nat, RefsOf(s.items_tree))
      BY <1>2 DEF Shows, WavesType
    <3>3. Shows(t, Nat, A)
      BY <3>1, <3>2, DrainedShows
    <3>4. PICK u : u = [s EXCEPT !.items_tree = t]
      OBVIOUS
    <3>5. /\ u \in WavesType /\ u.items_tree = t /\ u.markers = s.markers
          /\ u.display_item_ref_counter = s.display_item_ref_counter
      BY <1>2, <3>3, <3>4 DEF WavesType, Shows
    <3>6. u \in S
      BY <1>2, <3>3, <3>5 DEF Shows
    <3>7. QED
      BY <3>1, <3>4, <3>6
  <2>2. QED
    BY <1>3, <2>1
<1>5. left = [k \in 0..m |-> IF k = 0 THEN w ELSE turn(k, left[k-1])]
  <2>1. PICK step : step = [k \in 1..m |-> [s \in S |-> turn(k, s)]]
    OBVIOUS
  <2>2. step \in [1..m -> [S -> S]]
    BY <1>4, <2>1, Zenon
  <2>3. PICK f \in [0..m -> S] : Solves(f, m, w, step)
    BY <1>3, <2>2, RecursionOnPrefix, Zenon
  <2>4. ASSUME NEW k \in 0..m
        PROVE  f[k] = IF k = 0 THEN w ELSE turn(k, f[k-1])
    <3>1. CASE k = 0
      BY <2>3, <3>1 DEF Solves
    <3>2. CASE k # 0
      <4>1. k \in 1..m /\ k-1 \in 0..m
        BY <3>2
      <4>2. f[k-1] \in S /\ f[k] = step[k][f[k-1]]
        BY <2>3, <3>2, <4>1 DEF Solves
      <4>3. step[k][f[k-1]] = turn(k, f[k-1])
        BY <2>1, <4>1, <4>2, Zenon
      <4>4. QED
        BY <3>2, <4>2, <4>3
    <3>3. QED
      BY <3>1, <3>2
  <2>5. f = [k \in 0..m |-> IF k = 0 THEN w ELSE turn(k, f[k-1])]
    BY <2>3, <2>4, Zenon
  <2>6. QED
    BY <1>1, <2>5, Zenon
<1> DEFINE updated == left[Len(order)]
<1>6. UpdatedItems(w, d, inner, keep_unavailable, order) =
        IF updated.panic # "no" THEN updated
        ELSE [updated EXCEPT !.displayed_items = e, !.inner = inner]
  BY Zenon DEF UpdatedItems
<1> HIDE DEF left, e
<1>7. left[0] = w
  <2>1. 0 \in 0..m
    OBVIOUS
  <2>2. QED
    BY <1>5, <2>1
<1>8. \A k \in 1..m : left[k] = turn(k, left[k-1])
  <2>1. \A k \in 1..m : k \in 0..m /\ k # 0
    OBVIOUS
  <2>2. QED
    BY <1>5, <2>1
<1> DEFINE Left(u, k) ==
             \/ u = Panic(w, "assert")
             \/ /\ u \in S /\ u.panic = "no"
                /\ RefsOf(u.items_tree) = DOMAIN d \ {order[j] : j \in 1..k}
<1>9. PICK T : T = {k \in 0..m : Left(left[k], k)}
  OBVIOUS
<1>10. 0 \in T
  <2>1. 0 \in 0..m /\ {order[j] : j \in 1..0} = {}
    OBVIOUS
  <2>2. Left(w, 0)
    BY <1>3, <2>1 DEF Shows
  <2>3. QED
    BY <1>7, <1>9, <2>1, <2>2
<1>11. ASSUME NEW k \in 1..m, k-1 \in T
       PROVE  k \in T
  <2>1. PICK s : s = left[k-1]
    OBVIOUS
  <2>2. Left(s, k-1)
    BY <1>9, <1>11, <2>1
  <2>3. left[k] = turn(k, s)
    <3> HIDE DEF turn
    <3>1. QED
      BY <1>8, <2>1
  <2>4. Left(turn(k, s), k)
    <3>1. CASE s = Panic(w, "assert")
      <4>1. s.panic = "assert"
        BY <3>1 DEF Panic, WavesType
      <4>2. QED
        BY <3>1, <4>1
    <3>2. CASE s # Panic(w, "assert")
      <4>1. s \in S /\ s.panic = "no"
            /\ RefsOf(s.items_tree) = DOMAIN d \ {order[j] : j \in 1..k-1}
        BY <2>2, <3>2
      <4>2. CASE \E i, j \in rows(s.items_tree, k) : i # j
        <5>1. turn(k, s) = Panic(w, "assert")
          BY <4>1, <4>2
        <5>2. QED
          BY <5>1
      <4>3. CASE ~ \E i, j \in rows(s.items_tree, k) : i # j
        <5>1. PICK t, A : t = s.items_tree /\ A = RefsOf(t)
          OBVIOUS
        <5>2. Shows(t, Nat, A)
          BY <1>2, <4>1, <5>1 DEF Shows, WavesType
        <5>3. ~ \E i, j \in {x \in DOMAIN t : Gone(t, {order[k]}, x)} : i # j
          BY <4>3, <5>1
        <5>4. Shows(Drained(t, {order[k]}), Nat, A \ {order[k]})
          BY <5>2, <5>3, DrainedOne
        <5>5. turn(k, s) = [s EXCEPT !.items_tree = Drained(t, {order[k]})]
          BY <4>1, <4>3, <5>1
        <5>6. turn(k, s) \in S
          BY <1>4, <4>1
        <5>7. turn(k, s).items_tree = Drained(t, {order[k]}) /\ turn(k, s).panic = "no"
          BY <1>2, <4>1, <5>5 DEF WavesType
        <5>8. 1..k = (1..k-1) \cup {k}
          OBVIOUS
        <5>9. A \ {order[k]} = DOMAIN d \ {order[j] : j \in 1..k}
          BY <4>1, <5>1, <5>8
        <5>10. RefsOf(turn(k, s).items_tree) = DOMAIN d \ {order[j] : j \in 1..k}
          BY <5>4, <5>7, <5>9 DEF Shows
        <5> HIDE DEF turn
        <5>11. QED
          BY <5>6, <5>7, <5>10
      <4>4. QED
        BY <4>2, <4>3
    <3>3. QED
      BY <3>1, <3>2
  <2>5. k \in 0..m
    OBVIOUS
  <2>6. QED
    BY <1>9, <2>3, <2>4, <2>5
<1>12. Left(updated, m)
  <2>1. \A k \in 0..m : k \in T
    BY <1>10, <1>11, UpTo
  <2>2. m \in T
    BY <2>1
  <2>3. QED
    BY <1>1, <1>9, <2>2
<1>13. m = 0 => updated = w
  BY <1>1, <1>7
<1> HIDE DEF updated
<1>14. CASE updated = Panic(w, "assert")
  <2>1. updated.panic = "assert"
    BY <1>14 DEF Panic, WavesType
  <2>2. m # 0
    BY <1>13, <2>1
  <2>3. QED
    BY <1>1, <1>6, <1>14, <2>1, <2>2
<1>15. CASE updated # Panic(w, "assert")
  <2>1. updated \in S /\ updated.panic = "no"
        /\ RefsOf(updated.items_tree) = DOMAIN d \ Dropped(d, inner, keep_unavailable)
    BY <1>1, <1>12, <1>15 DEF Lists
  <2>2. PICK u : u = [updated EXCEPT !.displayed_items = e, !.inner = inner]
    OBVIOUS
  <2>3. u = UpdatedItems(w, d, inner, keep_unavailable, order)
    BY <1>6, <2>1, <2>2
  <2>4. /\ DOMAIN e = DOMAIN d \ Dropped(d, inner, keep_unavailable)
        /\ \A r \in DOMAIN e : e[r] = Update(d[r], inner)
    BY DEF e
  <2>5. /\ DOMAIN d \subseteq Nat /\ d \in [DOMAIN d -> Item]
    BY DisplaysAre
  <2>6. ASSUME NEW r \in DOMAIN e
        PROVE  /\ e[r] \in Item
               /\ e[r].kind = "marker" => d[r].kind = "marker" /\ e[r] = d[r]
    <3>1. PICK item \in Item : item = d[r]
      BY <2>4, <2>5
    <3>2. CASE item.kind \in {"variable", "placeholder"}
      <4>1. item.of \in Vars
        BY <3>2 DEF Item
      <4>2. PICK kind \in {"variable", "placeholder"} : Update(item, inner) = [item EXCEPT !.kind = kind]
        BY <3>2, Zenon DEF Update
      <4>3. [item EXCEPT !.kind = kind] = [kind |-> kind, of |-> item.of]
        BY <3>2 DEF Item
      <4>4. QED
        BY <2>4, <3>1, <4>1, <4>2, <4>3 DEF Item
    <3>3. CASE item.kind \notin {"variable", "placeholder"}
      <4>1. Update(item, inner) = item
        BY <3>3 DEF Update
      <4>2. QED
        BY <2>4, <3>1, <4>1
    <3>4. QED
      BY <3>2, <3>3
  <2>7. e \in Displays
    <3>1. DOMAIN e \subseteq Nat
      BY <2>4, <2>5
    <3>2. e \in [DOMAIN e -> Item]
      BY <2>4, <2>6 DEF e
    <3>3. QED
      BY <3>1, <3>2, DisplaysAre
  <2>8. Timed(e, times)
    <3>1. \A r \in MarkersIn(e) : r \in MarkersIn(d) /\ e[r] = d[r]
      BY <2>4, <2>6 DEF MarkersIn
    <3>2. \A r \in MarkersIn(e) : e[r].of \in times
      BY <3>1 DEF Timed
    <3>3. ASSUME NEW r \in MarkersIn(e), NEW s \in MarkersIn(e), e[r].of = e[s].of
          PROVE  r = s
      <4>1. /\ r \in MarkersIn(d) /\ e[r] = d[r]
            /\ s \in MarkersIn(d) /\ e[s] = d[s]
        BY <3>1
      <4>2. d[r].of = d[s].of
        BY <3>3, <4>1
      <4>3. QED
        BY <4>1, <4>2 DEF Timed
    <3>4. QED
      BY <3>2, <3>3 DEF Timed
  <2>9. /\ updated \in WavesType /\ RefsUnique(updated.items_tree)
        /\ updated.markers = w.markers
        /\ updated.display_item_ref_counter = w.display_item_ref_counter
    BY <1>2, <2>1
  <2>10. /\ u \in WavesType /\ u.items_tree = updated.items_tree /\ u.displayed_items = e
         /\ u.markers = updated.markers
         /\ u.display_item_ref_counter = updated.display_item_ref_counter
    BY <2>2, <2>7, <2>9 DEF WavesType
  <2>11. Shows(u.items_tree, Nat, DOMAIN e)
    BY <2>1, <2>4, <2>9, <2>10 DEF Shows, WavesType
  <2>12. QED
    BY <2>3, <2>4, <2>8, <2>9, <2>10, <2>11 DEF ShowsFrom
<1>16. QED
  BY <1>14, <1>15

-----------------------------------------------------------------------------
(* The inductive invariant *)

\* A state file holds a canvas that was once on screen.
StateFilesSound == \A c \in StateFiles : \E n \in Nat : c \in SoundCanvas(n)

\* A step that replaces the waves, and starts counting references anew, finds
\* no canvas on the stacks with a reference past the new count.  A step that
\* finds one breaks FreshRefs by itself; every other step is left free.
ReplacesNothingSaved ==
  (LoadStateNext \/ \E inner \in SUBSET Vars : LoadClear(inner)) =>
    \A c \in ToSet(undo_stack) \cup ToSet(redo_stack) :
      \A ref \in DOMAIN c.displayed_items : ref <= waves'.display_item_ref_counter

IInv ==
  LET n == waves.display_item_ref_counter IN
  /\ waves \in SoundWaves(0)
  /\ undo_stack \in Seq(SoundCanvas(n))
  /\ redo_stack \in Seq(SoundCanvas(n))
  /\ UndoBound
  /\ drag # <<>> => IsPlace(drag[2])

-----------------------------------------------------------------------------
(* Saving, undo and redo *)

\* More references may be handed out while a canvas is saved.
LEMMA LaterCanvas ==
  ASSUME NEW n \in Nat, NEW m \in Nat, n <= m
  PROVE  Seq(SoundCanvas(n)) \subseteq Seq(SoundCanvas(m))
<1>1. 1..n \subseteq 1..m
  OBVIOUS
<1>2. SoundCanvas(n) \subseteq SoundCanvas(m)
  BY <1>1 DEF SoundCanvas, Kept, KeptWith
<1>3. QED
  BY <1>2

LEMMA CanvasSound ==
  ASSUME NEW k, NEW w \in SoundWaves(k)
  PROVE  CanvasOf(w) \in SoundCanvas(w.display_item_ref_counter)
<1>1. w \in WavesType /\ Kept(w, w.display_item_ref_counter)
  BY DEF SoundWaves
<1>2. PICK c : c = CanvasOf(w)
  OBVIOUS
<1>3. /\ c \in CanvasType /\ c.items_tree = w.items_tree
      /\ c.displayed_items = w.displayed_items /\ c.markers = w.markers
  BY <1>1, <1>2 DEF CanvasOf, CanvasType, WavesType
<1>4. QED
  BY <1>1, <1>2, <1>3 DEF SoundCanvas, Kept, KeptWith

\* save_current_canvas before a change to later waves.
LEMMA SaveSound ==
  ASSUME IInv, SaveCurrentCanvas, waves' \in SoundWaves(waves.display_item_ref_counter)
  PROVE  LET n == waves.display_item_ref_counter' IN
         /\ waves' \in SoundWaves(0)
         /\ undo_stack' \in Seq(SoundCanvas(n)) /\ redo_stack' \in Seq(SoundCanvas(n))
         /\ UndoBound'
<1>1. PICK n, m : n = waves.display_item_ref_counter /\ m = waves.display_item_ref_counter'
  OBVIOUS
<1>2. n \in Nat /\ m \in Nat /\ n <= m
  BY <1>1 DEF IInv, SoundWaves, WavesType
<1>3. PICK S : S = SoundCanvas(n)
  OBVIOUS
<1>4. CanvasOf(waves) \in S /\ undo_stack \in Seq(S) /\ redo_stack \in Seq(S)
  BY <1>1, <1>3, CanvasSound DEF IInv
<1>5. PICK pushed \in Seq(S) : /\ pushed = Append(undo_stack, CanvasOf(waves))
                               /\ Len(pushed) = Len(undo_stack) + 1
  <2>1. PICK c \in S : c = CanvasOf(waves)
    BY <1>4
  <2>2. Append(undo_stack, c) \in Seq(S) /\ Len(Append(undo_stack, c)) = Len(undo_stack) + 1
    BY <1>4
  <2>3. QED
    BY <2>1, <2>2
<1>6. Len(undo_stack) <= UndoStackSize /\ Len(undo_stack) \in Nat
  BY <1>4, CanvasAssumption DEF IInv, UndoBound
<1>7. undo_stack' = IF Len(pushed) > UndoStackSize THEN Tail(pushed) ELSE pushed
  BY <1>5 DEF SaveCurrentCanvas
<1>8. Tail(pushed) \in Seq(S) /\ Len(Tail(pushed)) = Len(undo_stack)
  <2>1. pushed # <<>>
    BY <1>5, <1>6
  <2>2. QED
    BY <1>5, <1>6, <2>1
<1>9. undo_stack' \in Seq(S) /\ Len(undo_stack') <= UndoStackSize
  BY <1>5, <1>6, <1>7, <1>8, CanvasAssumption
<1>10. redo_stack' \in Seq(S) /\ Len(redo_stack') = 0
  BY DEF SaveCurrentCanvas
<1>11. UndoBound'
  BY <1>9, <1>10 DEF UndoBound
<1>12. waves' \in SoundWaves(0)
  BY <1>1, <1>2 DEF SoundWaves
<1>13. Seq(S) \subseteq Seq(SoundCanvas(m))
  BY <1>2, <1>3, LaterCanvas
<1>14. QED
  BY <1>1, <1>9, <1>10, <1>11, <1>12, <1>13

LEMMA RecordedInvariant ==
  ASSUME IInv, NEW w \in SoundWaves(waves.display_item_ref_counter), Recorded(w)
  PROVE  IInv'
BY SaveSound DEF Recorded, IInv

\* A change that keeps the stacks, and a drag that points at a place.
LEMMA KeptStacksInvariant ==
  ASSUME IInv, waves' \in SoundWaves(waves.display_item_ref_counter),
         UNCHANGED <<undo_stack, redo_stack>>,
         drag' # <<>> => IsPlace(drag'[2])
  PROVE  IInv'
<1>1. PICK n, m : n = waves.display_item_ref_counter /\ m = waves.display_item_ref_counter'
  OBVIOUS
<1>2. n \in Nat /\ m \in Nat /\ n <= m
  BY <1>1 DEF IInv, SoundWaves, WavesType
<1>3. waves' \in SoundWaves(0)
  BY <1>1, <1>2 DEF SoundWaves
<1>4. undo_stack' \in Seq(SoundCanvas(m)) /\ redo_stack' \in Seq(SoundCanvas(m))
  BY <1>1, <1>2, LaterCanvas DEF IInv
<1>5. UndoBound'
  BY DEF IInv, UndoBound
<1>6. QED
  BY <1>1, <1>3, <1>4, <1>5 DEF IInv

LEMMA UnrecordedInvariant ==
  ASSUME IInv, NEW w \in SoundWaves(waves.display_item_ref_counter), Unrecorded(w)
  PROVE  IInv'
<1>1. drag' # <<>> => IsPlace(drag'[2])
  BY DEF Unrecorded, IInv
<1>2. QED
  BY <1>1, KeptStacksInvariant DEF Unrecorded

\* What the loops of undo and redo go through: n references are handed out.
UndoStates(n) ==
  {s \in {w \in SoundWaves(0) : w.display_item_ref_counter = n}
            \X Seq(SoundCanvas(n)) \X Seq(SoundCanvas(n)) :
     Len(s[2]) + Len(s[3]) <= UndoStackSize}

LEMMA StacksSound ==
  ASSUME IInv
  PROVE  Stacks \in UndoStates(waves.display_item_ref_counter)
BY DEF IInv, Stacks, UndoStates, UndoBound

LEMMA UndoStatesSound ==
  ASSUME IInv, NEW s \in UndoStates(waves.display_item_ref_counter),
         waves' = s[1], undo_stack' = s[2], redo_stack' = s[3], drag' = drag
  PROVE  IInv'
<1>1. waves.display_item_ref_counter' = waves.display_item_ref_counter
  BY DEF UndoStates
<1>2. QED
  BY <1>1 DEF UndoStates, IInv, UndoBound

LEMMA RestoredSound ==
  ASSUME NEW n \in Nat, NEW w \in SoundWaves(0), w.display_item_ref_counter = n,
         NEW c \in SoundCanvas(n)
  PROVE  /\ Restored(w, c) \in SoundWaves(0)
         /\ Restored(w, c).display_item_ref_counter = n
<1>1. w \in WavesType /\ c \in CanvasType /\ Kept(c, n)
  BY DEF SoundWaves, SoundCanvas
<1>2. PICK u : u = Restored(w, c)
  OBVIOUS
<1>3. /\ u \in WavesType /\ u.items_tree = c.items_tree
      /\ u.displayed_items = c.displayed_items /\ u.markers = c.markers
      /\ u.display_item_ref_counter = n
  BY <1>1, <1>2 DEF Restored, CanvasType, WavesType
<1>4. QED
  BY <1>1, <1>2, <1>3 DEF SoundWaves, Kept, KeptWith

\* One turn of either loop.
LEMMA UndoneSound ==
  ASSUME NEW n \in Nat, NEW s \in UndoStates(n)
  PROVE  Undone(s) \in UndoStates(n) /\ Redone(s) \in UndoStates(n)
<1>1. PICK C : C = SoundCanvas(n)
  OBVIOUS
<1>2. PICK w, u, r : w = s[1] /\ u = s[2] /\ r = s[3]
  OBVIOUS
<1>3. /\ w \in SoundWaves(0) /\ w.display_item_ref_counter = n
      /\ u \in Seq(C) /\ r \in Seq(C) /\ Len(u) + Len(r) <= UndoStackSize
  BY <1>1, <1>2 DEF UndoStates
<1>4. CanvasOf(w) \in C
  BY <1>1, <1>3, CanvasSound
<1>5. ASSUME NEW p \in Seq(C), NEW q \in Seq(C), p # <<>>, Len(p) + Len(q) <= UndoStackSize
      PROVE  /\ Restored(w, Last(p)) \in SoundWaves(0)
             /\ Restored(w, Last(p)).display_item_ref_counter = n
             /\ Front(p) \in Seq(C) /\ Append(q, CanvasOf(w)) \in Seq(C)
             /\ Len(Front(p)) + Len(Append(q, CanvasOf(w))) <= UndoStackSize
  <2>1. Last(p) \in C
    BY <1>5 DEF Last
  <2>2. Front(p) \in Seq(C) /\ Len(Front(p)) = Len(p) - 1
    <3>1. Len(p) \in Nat \ {0}
      BY <1>5
    <3>2. /\ SubSeq(p, 1, Len(p)-1) \in Seq(C)
          /\ Len(SubSeq(p, 1, Len(p)-1)) = Len(p) - 1
      <4>1. 1 \in 1..Len(p)+1 /\ Len(p)-1 \in 1-1..Len(p) /\ (Len(p)-1) - 1 + 1 = Len(p) - 1
        BY <3>1
      <4>2. QED
        BY <4>1, SubSeqProperties
    <3>3. QED
      BY <3>2 DEF Front
  <2>3. Append(q, CanvasOf(w)) \in Seq(C) /\ Len(Append(q, CanvasOf(w))) = Len(q) + 1
    BY <1>4
  <2>4. QED
    BY <1>1, <1>3, <1>5, <2>1, <2>2, <2>3, RestoredSound
<1>6. ASSUME NEW x \in SoundWaves(0), x.display_item_ref_counter = n,
             NEW p \in Seq(C), NEW q \in Seq(C), Len(p) + Len(q) <= UndoStackSize
      PROVE  <<x, p, q>> \in UndoStates(n)
  BY <1>1, <1>6 DEF UndoStates
<1>7. Undone(s) \in UndoStates(n)
  <2>1. CASE u = <<>>
    BY <1>2, <2>1 DEF Undone
  <2>2. CASE u # <<>>
    <3>1. Undone(s) = <<Restored(w, Last(u)), Front(u), Append(r, CanvasOf(w))>>
      BY <1>2, <2>2 DEF Undone
    <3>2. /\ Restored(w, Last(u)) \in SoundWaves(0)
          /\ Restored(w, Last(u)).display_item_ref_counter = n
          /\ Front(u) \in Seq(C) /\ Append(r, CanvasOf(w)) \in Seq(C)
          /\ Len(Front(u)) + Len(Append(r, CanvasOf(w))) <= UndoStackSize
      BY <1>3, <1>5, <2>2
    <3>3. QED
      BY <1>6, <3>1, <3>2
  <2>3. QED
    BY <2>1, <2>2
<1>8. Redone(s) \in UndoStates(n)
  <2>1. CASE r = <<>>
    BY <1>2, <2>1 DEF Redone
  <2>2. CASE r # <<>>
    <3>1. Redone(s) = <<Restored(w, Last(r)), Append(u, CanvasOf(w)), Front(r)>>
      BY <1>2, <2>2 DEF Redone
    <3>2. Len(r) + Len(u) <= UndoStackSize
      BY <1>3
    <3>3. /\ Restored(w, Last(r)) \in SoundWaves(0)
          /\ Restored(w, Last(r)).display_item_ref_counter = n
          /\ Front(r) \in Seq(C) /\ Append(u, CanvasOf(w)) \in Seq(C)
          /\ Len(Front(r)) + Len(Append(u, CanvasOf(w))) <= UndoStackSize
      BY <1>3, <1>5, <2>2, <3>2
    <3>4. Len(Append(u, CanvasOf(w))) + Len(Front(r)) <= UndoStackSize
      BY <3>3
    <3>5. QED
      BY <1>6, <3>1, <3>3, <3>4
  <2>3. QED
    BY <2>1, <2>2
<1>9. QED
  BY <1>7, <1>8

\* Undo: `count' turns of its loop.
LEMMA UndoInvariant ==
  ASSUME IInv, NEW count \in Nat, Undo(count)
  PROVE  IInv'
<1> DEFINE undone[k \in 0..count] == IF k = 0 THEN Stacks ELSE Undone(undone[k-1])
           turn(k, s) == Undone(s)
<1>1. PICK m \in Nat : m = count
  OBVIOUS
<1>2. PICK S : S = UndoStates(waves.display_item_ref_counter)
  OBVIOUS
<1>3. Stacks \in S
  BY <1>2, StacksSound
<1>4. \A k \in 1..m, s \in S : turn(k, s) \in S
  <2>1. waves.display_item_ref_counter \in Nat
    BY DEF IInv, SoundWaves, WavesType
  <2>2. QED
    BY <1>2, <2>1, UndoneSound
<1>5. undone = [k \in 0..m |-> IF k = 0 THEN Stacks ELSE turn(k, undone[k-1])]
  <2>1. PICK step : step = [k \in 1..m |-> [s \in S |-> turn(k, s)]]
    OBVIOUS
  <2>2. step \in [1..m -> [S -> S]]
    BY <1>4, <2>1, Zenon
  <2>3. PICK f \in [0..m -> S] : Solves(f, m, Stacks, step)
    BY <1>3, <2>2, RecursionOnPrefix, Zenon
  <2>4. ASSUME NEW k \in 0..m
        PROVE  f[k] = IF k = 0 THEN Stacks ELSE turn(k, f[k-1])
    <3>1. CASE k = 0
      BY <2>3, <3>1 DEF Solves
    <3>2. CASE k # 0
      <4>1. k \in 1..m /\ k-1 \in 0..m
        BY <3>2
      <4>2. f[k-1] \in S /\ f[k] = step[k][f[k-1]]
        BY <2>3, <3>2, <4>1 DEF Solves
      <4>3. step[k][f[k-1]] = turn(k, f[k-1])
        BY <2>1, <4>1, <4>2, Zenon
      <4>4. QED
        BY <3>2, <4>2, <4>3
    <3>3. QED
      BY <3>1, <3>2
  <2>5. f = [k \in 0..m |-> IF k = 0 THEN Stacks ELSE turn(k, f[k-1])]
    BY <2>3, <2>4, Zenon
  <2>6. QED
    BY <1>1, <2>5, Zenon
<1>6. UndoTo(undone[m])
  BY <1>1, Zenon DEF Undo
<1> HIDE DEF undone
<1>7. undone[0] = Stacks
  <2>1. 0 \in 0..m
    OBVIOUS
  <2>2. QED
    BY <1>5, <2>1
<1>8. \A k \in 1..m : undone[k] = turn(k, undone[k-1])
  <2>1. \A k \in 1..m : k \in 0..m /\ k # 0
    OBVIOUS
  <2>2. QED
    BY <1>5, <2>1
<1>9. undone[m] \in S
  <2>1. \A k \in 1..m : undone[k-1] \in S => undone[k] \in S
    BY <1>4, <1>8
  <2>2. QED
    BY <1>3, <1>7, <2>1, RecursionStays
<1>10. QED
  BY <1>2, <1>6, <1>9, UndoStatesSound DEF UndoTo

\* Redo: `count' turns of its loop.
LEMMA RedoInvariant ==
  ASSUME IInv, NEW count \in Nat, Redo(count)
  PROVE  IInv'
<1> DEFINE redone[k \in 0..count] == IF k = 0 THEN Stacks ELSE Redone(redone[k-1])
           turn(k, s) == Redone(s)
<1>1. PICK m \in Nat : m = count
  OBVIOUS
<1>2. PICK S : S = UndoStates(waves.display_item_ref_counter)
  OBVIOUS
<1>3. Stacks \in S
  BY <1>2, StacksSound
<1>4. \A k \in 1..m, s \in S : turn(k, s) \in S
  <2>1. waves.display_item_ref_counter \in Nat
    BY DEF IInv, SoundWaves, WavesType
  <2>2. QED
    BY <1>2, <2>1, UndoneSound
<1>5. redone = [k \in 0..m |-> IF k = 0 THEN Stacks ELSE turn(k, redone[k-1])]
  <2>1. PICK step : step = [k \in 1..m |-> [s \in S |-> turn(k, s)]]
    OBVIOUS
  <2>2. step \in [1..m -> [S -> S]]
    BY <1>4, <2>1, Zenon
  <2>3. PICK f \in [0..m -> S] : Solves(f, m, Stacks, step)
    BY <1>3, <2>2, RecursionOnPrefix, Zenon
  <2>4. ASSUME NEW k \in 0..m
        PROVE  f[k] = IF k = 0 THEN Stacks ELSE turn(k, f[k-1])
    <3>1. CASE k = 0
      BY <2>3, <3>1 DEF Solves
    <3>2. CASE k # 0
      <4>1. k \in 1..m /\ k-1 \in 0..m
        BY <3>2
      <4>2. f[k-1] \in S /\ f[k] = step[k][f[k-1]]
        BY <2>3, <3>2, <4>1 DEF Solves
      <4>3. step[k][f[k-1]] = turn(k, f[k-1])
        BY <2>1, <4>1, <4>2, Zenon
      <4>4. QED
        BY <3>2, <4>2, <4>3
    <3>3. QED
      BY <3>1, <3>2
  <2>5. f = [k \in 0..m |-> IF k = 0 THEN Stacks ELSE turn(k, f[k-1])]
    BY <2>3, <2>4, Zenon
  <2>6. QED
    BY <1>1, <2>5, Zenon
<1>6. UndoTo(redone[m])
  BY <1>1, Zenon DEF Redo
<1> HIDE DEF redone
<1>7. redone[0] = Stacks
  <2>1. 0 \in 0..m
    OBVIOUS
  <2>2. QED
    BY <1>5, <2>1
<1>8. \A k \in 1..m : redone[k] = turn(k, redone[k-1])
  <2>1. \A k \in 1..m : k \in 0..m /\ k # 0
    OBVIOUS
  <2>2. QED
    BY <1>5, <2>1
<1>9. redone[m] \in S
  <2>1. \A k \in 1..m : redone[k-1] \in S => redone[k] \in S
    BY <1>4, <1>8
  <2>2. QED
    BY <1>3, <1>7, <2>1, RecursionStays
<1>10. QED
  BY <1>2, <1>6, <1>9, UndoStatesSound DEF UndoTo

-----------------------------------------------------------------------------
(* Adding *)

LEMMA Here ==
  ASSUME IInv
  PROVE  /\ waves.display_item_ref_counter \in Nat
         /\ waves \in SoundWaves(waves.display_item_ref_counter)
         /\ waves \in WavesType
         /\ Shows(waves.items_tree, Nat, DOMAIN waves.displayed_items)
         /\ waves.items_tree \in Seq(NodeOf(Nat))
         /\ waves.focused_item \in Int
BY DEF IInv, SoundWaves, WavesType, Kept, KeptWith

\* The variables of a message are items to insert.
LEMMA VariableItems ==
  ASSUME NEW xs \in Seq(Vars)
  PROVE  LET items == [k \in 1..Len(xs) |-> Variable(xs[k])] IN
         /\ items \in Seq(Item)
         /\ \A k \in 1..Len(items) : items[k].kind # "marker"
<1>1. PICK items : items = [k \in 1..Len(xs) |-> Variable(xs[k])]
  OBVIOUS
<1>2. \A k \in 1..Len(xs) : Variable(xs[k]) \in Item /\ Variable(xs[k]).kind # "marker"
  BY DEF Variable, Item
<1>3. items \in [1..Len(xs) -> Item] /\ Len(xs) \in Nat
  BY <1>1, <1>2
<1>4. items \in Seq(Item) /\ Len(items) = Len(xs)
  BY <1>3
<1>5. \A k \in 1..Len(items) : items[k].kind # "marker"
  BY <1>1, <1>2, <1>4
<1>6. QED
  BY <1>1, <1>4, <1>5

LEMMA VariablesInserted ==
  ASSUME NEW n \in Nat, NEW w \in SoundWaves(n), NEW xs \in Seq(Vars),
         NEW target, IsPlace(target)
  PROVE  InsertedAll(w, [k \in 1..Len(xs) |-> Variable(xs[k])], target) \in SoundWaves(n)
<1>1. PICK items : items = [k \in 1..Len(xs) |-> Variable(xs[k])]
  OBVIOUS
<1>2. items \in Seq(Item) /\ \A k \in 1..Len(items) : items[k].kind # "marker"
  BY <1>1, VariableItems
<1>3. QED
  BY <1>1, <1>2, InsertedAllSound

LEMMA AddVariablesInvariant ==
  ASSUME IInv, NEW xs \in Seq(Vars), AddVariables(xs)
  PROVE  IInv'
<1>1. IsPlace(FocusPosition(waves))
  BY Here, PlacesArePlaces
<1>2. InsertedAll(waves, [k \in 1..Len(xs) |-> Variable(xs[k])], FocusPosition(waves))
        \in SoundWaves(waves.display_item_ref_counter)
  BY <1>1, Here, VariablesInserted
<1>3. QED
  BY <1>2, RecordedInvariant DEF AddVariables

ScopeType == [depth : Nat, vars : Seq(Vars)]

\* The group and the variables of each scope go in one after the other.
LEMMA AddScopeInvariant ==
  ASSUME IInv, NEW scopes \in Seq(ScopeType), AddScopeAsGroup(scopes)
  PROVE  IInv'
<1> DEFINE pos == FocusPosition(waves)
           start == [waves |-> waves, before |-> pos.before]
           added[k \in 0..Len(scopes)] ==
             IF k = 0 THEN [waves |-> waves, before |-> pos.before]
             ELSE LET scope == scopes[k]
                      last  == added[k-1]
                      level == Below(pos.level, scope.depth)
                      group == Inserted(last.waves, Group,
                                        [before |-> last.before, level |-> level], TRUE)
                  IN IF last.waves.panic # "no" THEN last
                     ELSE [waves  |-> IF group.panic # "no" THEN group
                                      ELSE InsertedAll(group,
                                        [j \in 1..Len(scope.vars) |-> Variable(scope.vars[j])],
                                        [before |-> last.before + 1, level |-> Below(level, 1)]),
                           before |-> last.before + 1 + Len(scope.vars)]
           turn(k, s) ==
             LET level == Below(pos.level, scopes[k].depth)
                 group == Inserted(s.waves, Group,
                                   [before |-> s.before, level |-> level], TRUE)
             IN IF s.waves.panic # "no" THEN s
                ELSE [waves  |-> IF group.panic # "no" THEN group
                                 ELSE InsertedAll(group,
                                   [j \in 1..Len(scopes[k].vars) |-> Variable(scopes[k].vars[j])],
                                   [before |-> s.before + 1, level |-> Below(level, 1)]),
                      before |-> s.before + 1 + Len(scopes[k].vars)]
<1>1. PICK m \in Nat : m = Len(scopes)
  OBVIOUS
<1>2. PICK n : n = waves.display_item_ref_counter
  OBVIOUS
<1>3. PICK S : S = [waves : SoundWaves(n), before : Nat \ {0}]
  OBVIOUS
<1>4. start \in S
  BY <1>2, <1>3, Here, PlacesArePlaces DEF IsPlace
<1>5. \A k \in 1..m, s \in S : turn(k, s) \in S
  <2>1. ASSUME NEW k \in 1..m, NEW s \in S
        PROVE  turn(k, s) \in S
    <3>1. PICK xs, level : xs = scopes[k].vars /\ level = Below(pos.level, scopes[k].depth)
      OBVIOUS
    <3>2. xs \in Seq(Vars) /\ Len(xs) \in Nat
      <4>1. scopes[k] \in ScopeType
        BY <1>1
      <4>2. xs \in Seq(Vars)
        BY <3>1, <4>1 DEF ScopeType
      <4>3. QED
        BY <4>2
    <3>3. s.waves \in SoundWaves(n) /\ s.before \in Nat \ {0} /\ n \in Nat
      BY <1>2, <1>3, Here
    <3>4. PICK at, inside : /\ at = [before |-> s.before, level |-> level]
                            /\ inside = [before |-> s.before + 1, level |-> Below(level, 1)]
      OBVIOUS
    <3>5. at.before \in Nat \ {0} /\ IsPlace(inside)
      BY <3>3, <3>4 DEF IsPlace
    <3>6. PICK group : group = Inserted(s.waves, Group, at, TRUE)
      OBVIOUS
    <3>7. Group \in Item /\ Group.kind # "marker"
      BY DEF Group, Item
    <3>8. group \in SoundWaves(n)
      BY <3>3, <3>5, <3>6, <3>7, InsertedSound
    <3>9. PICK w : w = InsertedAll(group, [j \in 1..Len(xs) |-> Variable(xs[j])], inside)
      OBVIOUS
    <3>10. w \in SoundWaves(n)
      BY <3>2, <3>3, <3>5, <3>8, <3>9, VariablesInserted
    <3>11. turn(k, s) = IF s.waves.panic # "no" THEN s
                        ELSE [waves  |-> IF group.panic # "no" THEN group ELSE w,
                              before |-> s.before + 1 + Len(xs)]
      BY <3>1, <3>4, <3>6, <3>9, Zenon
    <3> HIDE DEF turn
    <3>12. s.before + 1 + Len(xs) \in Nat \ {0}
      BY <3>2, <3>3
    <3>13. QED
      BY <1>3, <3>8, <3>10, <3>11, <3>12
  <2>2. QED
    BY <2>1
<1>6. added = [k \in 0..m |-> IF k = 0 THEN start ELSE turn(k, added[k-1])]
  <2>1. PICK step : step = [k \in 1..m |-> [s \in S |-> turn(k, s)]]
    OBVIOUS
  <2>2. step \in [1..m -> [S -> S]]
    BY <1>5, <2>1, Zenon
  <2>3. PICK f \in [0..m -> S] : Solves(f, m, start, step)
    BY <1>4, <2>2, RecursionOnPrefix, Zenon
  <2>4. ASSUME NEW k \in 0..m
        PROVE  f[k] = IF k = 0 THEN start ELSE turn(k, f[k-1])
    <3>1. CASE k = 0
      BY <2>3, <3>1 DEF Solves
    <3>2. CASE k # 0
      <4>1. k \in 1..m /\ k-1 \in 0..m
        BY <3>2
      <4>2. f[k-1] \in S /\ f[k] = step[k][f[k-1]]
        BY <2>3, <3>2, <4>1 DEF Solves
      <4>3. step[k][f[k-1]] = turn(k, f[k-1])
        BY <2>1, <4>1, <4>2, Zenon
      <4>4. QED
        BY <3>2, <4>2, <4>3
    <3>3. QED
      BY <3>1, <3>2
  <2>5. f = [k \in 0..m |-> IF k = 0 THEN start ELSE turn(k, f[k-1])]
    BY <2>3, <2>4, Zenon
  <2>6. QED
    BY <1>1, <2>5, Zenon
<1>7. Recorded(added[m].waves) \/ Recorded(Panic(added[m].waves, "insert"))
  BY <1>1, Zenon DEF AddScopeAsGroup
<1> HIDE DEF added, start
<1>8. added[0] = start
  <2>1. 0 \in 0..m
    OBVIOUS
  <2>2. QED
    BY <1>6, <2>1
<1>9. \A k \in 1..m : added[k] = turn(k, added[k-1])
  <2>1. \A k \in 1..m : k \in 0..m /\ k # 0
    OBVIOUS
  <2>2. QED
    BY <1>6, <2>1
<1>10. added[m] \in S
  <2>1. \A k \in 1..m : added[k-1] \in S => added[k] \in S
    BY <1>5, <1>9
  <2>2. QED
    BY <1>4, <1>8, <2>1, RecursionStays
<1>11. added[m].waves \in SoundWaves(n)
  BY <1>3, <1>10
<1>12. Panic(added[m].waves, "insert") \in SoundWaves(n)
  BY <1>2, <1>11, Here, PanicSound DEF Panics
<1>13. QED
  BY <1>2, <1>7, <1>11, <1>12, RecordedInvariant

LEMMA AddDividerInvariant ==
  ASSUME IInv, NEW v, AddDivider(v)
  PROVE  IInv'
<1>1. Divider \in Item /\ Divider.kind # "marker"
  BY DEF Divider, Item
<1>2. PICK target : target = InsertPositionOr(waves, v, FocusPosition(waves))
  OBVIOUS
<1>3. target.before \in Nat \ {0}
  BY <1>2, Here, PlacesArePlaces DEF IsPlace
<1>4. Inserted(waves, Divider, target, TRUE) \in SoundWaves(waves.display_item_ref_counter)
  BY <1>1, <1>3, Here, InsertedSound
<1>5. QED
  BY <1>2, <1>4, RecordedInvariant DEF AddDivider

\* A marker without a time is not displayed, so it may be inserted together
\* with its time.
LEMMA MarkerInserted ==
  ASSUME IInv, NEW m \in MarkerIndex, m \notin waves.markers, NEW move_focus
  PROVE  [Inserted(waves, Marker(m), FocusPosition(waves), move_focus)
            EXCEPT !.markers = @ \cup {m}] \in SoundWaves(waves.display_item_ref_counter)
<1>1. PICK times : times = waves.markers \cup {m}
  OBVIOUS
<1>2. Marker(m) \in Item /\ Marker(m).of = m
  BY DEF Marker, Item
<1>3. PICK target : target = FocusPosition(waves) /\ target.before \in Nat \ {0}
  BY Here, PlacesArePlaces DEF IsPlace
<1>4. Timed(waves.displayed_items, waves.markers)
      /\ KeptWith(waves, waves.display_item_ref_counter, waves.markers)
  BY DEF IInv, SoundWaves, Kept, KeptWith
<1>5. KeptWith(waves, waves.display_item_ref_counter, times)
  BY <1>1, <1>4 DEF KeptWith, Timed
<1>6. \A r \in MarkersIn(waves.displayed_items) : waves.displayed_items[r].of # m
  BY <1>4 DEF Timed
<1>7. PICK u \in WavesType :
        /\ u = Inserted(waves, Marker(m), target, move_focus)
        /\ KeptWith(u, u.display_item_ref_counter, times)
        /\ u.markers = waves.markers /\ u.inner = waves.inner
        /\ u.display_item_ref_counter >= waves.display_item_ref_counter
  <2>1. PICK item \in Item : item = Marker(m)
    BY <1>2
  <2>2. item.kind = "marker" =>
          /\ item.of \in times
          /\ \A r \in MarkersIn(waves.displayed_items) : waves.displayed_items[r].of # item.of
    BY <1>1, <1>2, <1>6, <2>1
  <2>3. waves \in WavesType
    BY Here
  <2>4. QED
    BY <1>3, <1>5, <2>1, <2>2, <2>3, InsertedKeeps
<1>8. PICK x : x = [u EXCEPT !.markers = @ \cup {m}]
  OBVIOUS
<1>9. /\ x \in WavesType /\ x.markers = times /\ x.items_tree = u.items_tree
      /\ x.displayed_items = u.displayed_items
      /\ x.display_item_ref_counter = u.display_item_ref_counter
  BY <1>1, <1>7, <1>8 DEF WavesType
<1>10. x \in SoundWaves(waves.display_item_ref_counter)
  BY <1>7, <1>9 DEF SoundWaves, Kept, KeptWith
<1>11. QED
  BY <1>3, <1>7, <1>8, <1>10

LEMMA AddMarkerInvariant ==
  ASSUME IInv, NEW move_focus, AddMarker(move_focus)
  PROVE  IInv'
<1>1. PICK free : free = MarkerIndex \ waves.markers
  OBVIOUS
<1>2. CASE free = {}
  BY <1>1, <1>2, Here, RecordedInvariant DEF AddMarker
<1>3. CASE free # {}
  <2>1. free \subseteq Nat
    BY <1>1, CanvasAssumption DEF MarkerIndex
  <2>2. PICK m : m = Min(free)
    OBVIOUS
  <2>3. m \in MarkerIndex /\ m \notin waves.markers
    BY <1>1, <1>3, <2>1, <2>2, MinNat
  <2>4. PICK w : w = [Inserted(waves, Marker(m), FocusPosition(waves), move_focus)
                       EXCEPT !.markers = @ \cup {m}]
    OBVIOUS
  <2>5. w \in SoundWaves(waves.display_item_ref_counter)
    BY <2>3, <2>4, MarkerInserted
  <2>6. Recorded(w)
    BY <1>1, <1>3, <2>2, <2>4 DEF AddMarker
  <2>7. QED
    BY <2>5, <2>6, RecordedInvariant
<1>4. QED
  BY <1>2, <1>3

LEMMA SetMarkerInvariant ==
  ASSUME IInv, NEW m \in MarkerIndex, SetMarker(m)
  PROVE  IInv'
<1>1. CASE m \in waves.markers
  <2>1. [waves EXCEPT !.markers = @ \cup {m}] = waves
    BY <1>1, Here DEF WavesType
  <2>2. Recorded(waves)
    BY <1>1, <2>1 DEF SetMarker
  <2>3. QED
    BY <2>2, Here, RecordedInvariant
<1>2. CASE m \notin waves.markers
  <2>1. PICK w : w = [Inserted(waves, Marker(m), FocusPosition(waves), TRUE)
                       EXCEPT !.markers = @ \cup {m}]
    OBVIOUS
  <2>2. w \in SoundWaves(waves.display_item_ref_counter)
    BY <1>2, <2>1, MarkerInserted
  <2>3. Recorded(w)
    BY <1>2, <2>1 DEF SetMarker
  <2>4. QED
    BY <2>2, <2>3, RecordedInvariant
<1>3. QED
  BY <1>1, <1>2

\* The rows of a decoder.
LEMMA DecoderAddInvariant ==
  ASSUME IInv, NEW lanes \in Lane, NEW refs, DecoderAdd(lanes, refs)
  PROVE  IInv'
<1> DEFINE place(w) == IF HasInsertPosition(waves, waves.focused_item)
                       THEN InsertPosition(waves, waves.focused_item)
                       ELSE FocusPosition(w)
           inserted[k \in 0..lanes] ==
             IF k = 0 THEN waves
             ELSE LET w == inserted[k-1] IN
                  IF w.panic # "no" THEN w
                  ELSE Inserted(w, Decoder(lanes + 1 - k), place(w), k = lanes)
           turn(k, w) ==
             IF w.panic # "no" THEN w
             ELSE Inserted(w, Decoder(lanes + 1 - k), place(w), k = lanes)
<1>1. PICK m \in Nat : m = lanes
  BY DEF Lane
<1>2. PICK n : n = waves.display_item_ref_counter
  OBVIOUS
<1>3. PICK S : S = SoundWaves(n)
  OBVIOUS
<1>4. waves \in S
  BY <1>2, <1>3, Here
<1>5. \A k \in 1..m, w \in S : turn(k, w) \in S
  <2>1. ASSUME NEW k \in 1..m, NEW w \in S
        PROVE  turn(k, w) \in S
    <3>1. PICK item : item = Decoder(lanes + 1 - k)
      OBVIOUS
    <3>2. lanes + 1 - k \in Lane
      BY <1>1 DEF Lane
    <3>3. item \in Item /\ item.kind # "marker"
      BY <3>1, <3>2 DEF Decoder, Item
    <3>4. w.items_tree \in Seq(NodeOf(Nat)) /\ n \in Nat
      BY <1>2, <1>3, Here DEF SoundWaves, WavesType
    <3>5. place(w).before \in Nat \ {0}
      <4>1. IsPlace(FocusPosition(w))
        BY <3>4, PlacesArePlaces
      <4>2. HasInsertPosition(waves, waves.focused_item)
              => IsPlace(InsertPosition(waves, waves.focused_item))
        BY Here, PlacesArePlaces
      <4>3. QED
        BY <4>1, <4>2 DEF IsPlace
    <3> HIDE DEF place
    <3>6. Inserted(w, item, place(w), k = lanes) \in S
      BY <1>3, <3>3, <3>4, <3>5, InsertedSound
    <3>7. QED
      BY <3>1, <3>6
  <2>2. QED
    BY <2>1
<1>6. inserted = [k \in 0..m |-> IF k = 0 THEN waves ELSE turn(k, inserted[k-1])]
  <2>1. PICK step : step = [k \in 1..m |-> [s \in S |-> turn(k, s)]]
    OBVIOUS
  <2>2. step \in [1..m -> [S -> S]]
    BY <1>5, <2>1, Zenon
  <2>3. PICK f \in [0..m -> S] : Solves(f, m, waves, step)
    BY <1>4, <2>2, RecursionOnPrefix, Zenon
  <2>4. ASSUME NEW k \in 0..m
        PROVE  f[k] = IF k = 0 THEN waves ELSE turn(k, f[k-1])
    <3>1. CASE k = 0
      BY <2>3, <3>1 DEF Solves
    <3>2. CASE k # 0
      <4>1. k \in 1..m /\ k-1 \in 0..m
        BY <3>2
      <4>2. f[k-1] \in S /\ f[k] = step[k][f[k-1]]
        BY <2>3, <3>2, <4>1 DEF Solves
      <4>3. step[k][f[k-1]] = turn(k, f[k-1])
        BY <2>1, <4>1, <4>2, Zenon
      <4>4. QED
        BY <3>2, <4>2, <4>3
    <3>3. QED
      BY <3>1, <3>2
  <2>5. f = [k \in 0..m |-> IF k = 0 THEN waves ELSE turn(k, f[k-1])]
    BY <2>3, <2>4, Zenon
  <2>6. QED
    BY <1>1, <2>5, Zenon
<1>7. Recorded(inserted[m]) \/ Recorded(waves)
  BY <1>1, Zenon DEF DecoderAdd
<1> HIDE DEF inserted
<1>8. inserted[0] = waves
  <2>1. 0 \in 0..m
    OBVIOUS
  <2>2. QED
    BY <1>6, <2>1
<1>9. \A k \in 1..m : inserted[k] = turn(k, inserted[k-1])
  <2>1. \A k \in 1..m : k \in 0..m /\ k # 0
    OBVIOUS
  <2>2. QED
    BY <1>6, <2>1
<1>10. inserted[m] \in S
  <2>1. \A k \in 1..m : inserted[k-1] \in S => inserted[k] \in S
    BY <1>5, <1>9
  <2>2. QED
    BY <1>4, <1>8, <2>1, RecursionStays
<1>11. QED
  BY <1>2, <1>3, <1>4, <1>7, <1>10, RecordedInvariant

-----------------------------------------------------------------------------
(* Removing *)

LEMMA RemoveVisibleInvariant ==
  ASSUME IInv, NEW v, RemoveVisibleItem(v)
  PROVE  IInv'
BY Here, RemovedRowsSound, RecordedInvariant DEF RemoveVisibleItem

LEMMA RemoveSelectionInvariant ==
  ASSUME IInv, RemoveSelection
  PROVE  IInv'
<1>1. PICK n : n = waves.display_item_ref_counter
  OBVIOUS
<1>2. PICK left, f, ref :
        /\ left = RemovedRows(waves, SelectedVisible(waves.items_tree))
        /\ f = ToDisplayed(waves.items_tree, waves.focused_item)
        /\ ref = waves.items_tree[f].item_ref
  OBVIOUS
<1>3. n \in Nat /\ left \in SoundWaves(n)
  BY <1>1, <1>2, Here, RemovedRowsSound
<1>4. Removed(left, ref) \in SoundWaves(n)
  BY <1>3, RemovedSound
<1>5. Recorded(left) \/ Recorded(Removed(left, ref))
  BY <1>2 DEF RemoveSelection
<1>6. QED
  BY <1>1, <1>3, <1>4, <1>5, RecordedInvariant

LEMMA RemoveItemsInvariant ==
  ASSUME IInv, NEW refs, RemoveItems(refs)
  PROVE  IInv'
BY Here, RemovedRefsSound, RecordedInvariant DEF RemoveItems

LEMMA RemoveMarkerInvariant ==
  ASSUME IInv, NEW m, RemoveMarker(m)
  PROVE  IInv'
BY Here, RemovedSound, UnrecordedInvariant DEF RemoveMarker

LEMMA RemovePlaceholdersInvariant ==
  ASSUME IInv, RemovePlaceholders
  PROVE  IInv'
<1>1. PICK t, d, tree, gone :
        /\ t = waves.items_tree /\ d = waves.displayed_items
        /\ tree = Drained(t, {r \in RefsOf(t) : KindOf(waves, r) = "placeholder"})
        /\ gone = RefsOf(t) \ RefsOf(tree)
  OBVIOUS
<1>2. Shows(t, Nat, DOMAIN d)
  BY <1>1, Here
<1>3. PICK A : A = Staying(t, {r \in RefsOf(t) : KindOf(waves, r) = "placeholder"}, Len(t))
  OBVIOUS
<1>4. Shows(tree, Nat, A)
  BY <1>1, <1>2, <1>3, DrainedShows
<1>5. A \subseteq RefsOf(t)
  <2>1. DOMAIN t = 1..Len(t)
    BY <1>2 DEF Shows
  <2>2. QED
    BY <1>3, <2>1 DEF Staying, RefsOf
<1>6. A = DOMAIN d \ gone
  BY <1>1, <1>2, <1>4, <1>5 DEF Shows
<1>7. PICK w : w = [waves EXCEPT !.items_tree = tree,
                                 !.displayed_items = Restrict(@, DOMAIN @ \ gone)]
  OBVIOUS
<1>8. w \in SoundWaves(waves.display_item_ref_counter)
  <2> DEFINE none == {}
  <2>1. PICK n \in Nat : n = waves.display_item_ref_counter
    BY Here
  <2>2. waves \in SoundWaves(n) /\ Shows(tree, Nat, DOMAIN waves.displayed_items \ gone)
    BY <1>1, <1>4, <1>6, <2>1, Here
  <2>3. \A r \in MarkersIn(waves.displayed_items) :
          waves.displayed_items[r].of \in none => r \in gone
    OBVIOUS
  <2> HIDE DEF none
  <2>5. 0 \in Int
    OBVIOUS
  <2>4. [waves EXCEPT !.items_tree = tree,
                      !.displayed_items = Restrict(@, DOMAIN @ \ gone)] \in SoundWaves(n)
    BY <2>2, <2>3, <2>5, FewerSound
  <2>6. QED
    BY <1>7, <2>1, <2>4
<1>9. Unrecorded(w)
  BY <1>1, <1>7 DEF RemovePlaceholders
<1>10. QED
  BY <1>8, <1>9, UnrecordedInvariant

-----------------------------------------------------------------------------
(* Focus, selection and moves *)

\* Another row for the focus, and another selection.
LEMMA FocusSelectSound ==
  ASSUME IInv, NEW f \in Int, NEW positions, NEW selected \in BOOLEAN
  PROVE  LET n == waves.display_item_ref_counter
             t == XSelect(waves.items_tree, positions, selected)
         IN /\ [waves EXCEPT !.focused_item = f] \in SoundWaves(n)
            /\ [waves EXCEPT !.items_tree = t] \in SoundWaves(n)
            /\ [waves EXCEPT !.focused_item = f, !.items_tree = t] \in SoundWaves(n)
<1>1. PICK t, n : /\ t = XSelect(waves.items_tree, positions, selected)
                  /\ n = waves.display_item_ref_counter
  OBVIOUS
<1>2. n \in Nat /\ waves \in SoundWaves(n) /\ waves \in WavesType
      /\ Shows(waves.items_tree, Nat, DOMAIN waves.displayed_items)
  BY <1>1, Here
<1>3. Shows(t, Nat, DOMAIN waves.displayed_items)
  BY <1>1, <1>2, SelectShows
<1>4. [waves EXCEPT !.focused_item = f, !.items_tree = t]
        = [waves EXCEPT !.items_tree = t, !.focused_item = f]
  BY <1>2 DEF WavesType
<1>5. /\ [waves EXCEPT !.focused_item = f] \in SoundWaves(n)
      /\ [waves EXCEPT !.items_tree = t] \in SoundWaves(n)
      /\ [waves EXCEPT !.items_tree = t, !.focused_item = f] \in SoundWaves(n)
  BY <1>2, <1>3, TreeChanged
<1>6. QED
  BY <1>1, <1>4, <1>5

LEMMA FocusItemInvariant ==
  ASSUME IInv, NEW v \in Int, FocusItem(v) \/ UnfocusItem
  PROVE  IInv'
<1>1. \A f \in Int : [waves EXCEPT !.focused_item = f] \in SoundWaves(waves.display_item_ref_counter)
  BY FocusSelectSound
<1>2. PICK f \in Int : Unrecorded([waves EXCEPT !.focused_item = f])
  BY DEF FocusItem, UnfocusItem
<1>3. QED
  BY <1>1, <1>2, UnrecordedInvariant

LEMMA MoveFocusInvariant ==
  ASSUME IInv, NEW direction, NEW count \in Nat, NEW select, MoveFocus(direction, count, select)
  PROVE  IInv'
<1> DEFINE n == VisibleCount(waves.items_tree)
           up == (IF waves.focused_item = 0 THEN n + 1 ELSE waves.focused_item) - count
           row == IF direction = "Up" THEN Max({1, up})
                  ELSE Min({n, waves.focused_item + count})
           marked == {ToDisplayed(waves.items_tree, v) : v \in {waves.focused_item, row}}
<1>1. Unrecorded([waves EXCEPT !.focused_item = row,
                    !.items_tree = IF select THEN XSelect(@, marked, TRUE) ELSE @])
  BY Zenon DEF MoveFocus
<1>2. row \in Int
  <2>1. n \in Nat /\ waves.focused_item \in Int
    BY Here, RowsAreNumbers DEF WavesType
  <2>2. up \in Int /\ waves.focused_item + count \in Int /\ n \in Int
    BY <2>1
  <2>3. PICK a \in Int, b \in Int, c \in Int, d \in Int :
          a = 1 /\ b = up /\ c = n /\ d = waves.focused_item + count
    <3> HIDE DEF up, n
    <3>1. QED
      BY <2>2
  <2>4. Max({a, b}) \in Int /\ Min({c, d}) \in Int
    BY MinOfInts
  <2>5. Max({1, up}) \in Int /\ Min({n, waves.focused_item + count}) \in Int
    BY <2>3, <2>4
  <2> HIDE DEF up, n
  <2>6. QED
    BY <2>5
<1> HIDE DEF row, marked
<1>3. PICK f, t : f \in Int /\ f = row /\ t = XSelect(waves.items_tree, marked, TRUE)
  BY <1>2
<1>4. \/ Unrecorded([waves EXCEPT !.focused_item = f, !.items_tree = t])
      \/ Unrecorded([waves EXCEPT !.focused_item = f])
  <2>1. CASE select
    BY <1>1, <1>3, <2>1
  <2>2. CASE ~select
    <3>1. [waves EXCEPT !.focused_item = f, !.items_tree = @] = [waves EXCEPT !.focused_item = f]
      BY Here DEF WavesType
    <3>2. QED
      BY <1>1, <1>3, <2>2, <3>1
  <2>3. QED
    BY <2>1, <2>2
<1>5. /\ [waves EXCEPT !.focused_item = f, !.items_tree = t]
           \in SoundWaves(waves.display_item_ref_counter)
      /\ [waves EXCEPT !.focused_item = f] \in SoundWaves(waves.display_item_ref_counter)
  BY <1>3, FocusSelectSound
<1>6. QED
  BY <1>4, <1>5, UnrecordedInvariant

LEMMA SelectInvariant ==
  ASSUME IInv, NEW v, NEW selected \in BOOLEAN,
         ItemSelectRange(v) \/ ItemSelectAll(selected) \/ SetItemSelected(v, selected)
  PROVE  IInv'
<1>1. \A positions : \A flag \in BOOLEAN :
        [waves EXCEPT !.items_tree = XSelect(waves.items_tree, positions, flag)]
          \in SoundWaves(waves.display_item_ref_counter)
  <2>1. 0 \in Int
    OBVIOUS
  <2>2. QED
    BY <2>1, FocusSelectSound
<1>2. \E positions : \E flag \in BOOLEAN :
        Unrecorded([waves EXCEPT !.items_tree = XSelect(waves.items_tree, positions, flag)])
  <2>1. CASE ItemSelectRange(v)
    BY <2>1, Zenon DEF ItemSelectRange, XSelectVisibleRange
  <2>2. CASE ItemSelectAll(selected)
    BY <2>2, Zenon DEF ItemSelectAll, XSelectAllVisible
  <2>3. CASE SetItemSelected(v, selected)
    BY <2>3, Zenon DEF SetItemSelected
  <2>4. QED
    BY <2>1, <2>2, <2>3
<1>3. QED
  BY <1>1, <1>2, UnrecordedInvariant

LEMMA MoveFocusedInvariant ==
  ASSUME IInv, NEW direction, NEW count \in Nat, MoveFocusedItem(direction, count)
  PROVE  IInv'
<1> DEFINE moved[k \in 0..count] ==
             IF k = 0 THEN waves ELSE MovedFocused(moved[k-1], direction)
           turn(k, w) == MovedFocused(w, direction)
<1>1. PICK m \in Nat : m = count
  OBVIOUS
<1>2. PICK n : n = waves.display_item_ref_counter
  OBVIOUS
<1>3. PICK S : S = SoundWaves(n)
  OBVIOUS
<1>4. waves \in S /\ n \in Nat
  BY <1>2, <1>3, Here
<1>5. \A k \in 1..m, w \in S : turn(k, w) \in S
  BY <1>3, <1>4, MovedFocusedSound
<1>6. moved = [k \in 0..m |-> IF k = 0 THEN waves ELSE turn(k, moved[k-1])]
  <2>1. PICK step : step = [k \in 1..m |-> [s \in S |-> turn(k, s)]]
    OBVIOUS
  <2>2. step \in [1..m -> [S -> S]]
    BY <1>5, <2>1, Zenon
  <2>3. PICK f \in [0..m -> S] : Solves(f, m, waves, step)
    BY <1>4, <2>2, RecursionOnPrefix, Zenon
  <2>4. ASSUME NEW k \in 0..m
        PROVE  f[k] = IF k = 0 THEN waves ELSE turn(k, f[k-1])
    <3>1. CASE k = 0
      BY <2>3, <3>1 DEF Solves
    <3>2. CASE k # 0
      <4>1. k \in 1..m /\ k-1 \in 0..m
        BY <3>2
      <4>2. f[k-1] \in S /\ f[k] = step[k][f[k-1]]
        BY <2>3, <3>2, <4>1 DEF Solves
      <4>3. step[k][f[k-1]] = turn(k, f[k-1])
        BY <2>1, <4>1, <4>2, Zenon
      <4>4. QED
        BY <3>2, <4>2, <4>3
    <3>3. QED
      BY <3>1, <3>2
  <2>5. f = [k \in 0..m |-> IF k = 0 THEN waves ELSE turn(k, f[k-1])]
    BY <2>3, <2>4, Zenon
  <2>6. QED
    BY <1>1, <2>5, Zenon
<1>7. Recorded(moved[m]) \/ Recorded(waves)
  BY <1>1, Zenon DEF MoveFocusedItem
<1> HIDE DEF moved
<1>8. moved[0] = waves
  <2>1. 0 \in 0..m
    OBVIOUS
  <2>2. QED
    BY <1>6, <2>1
<1>9. \A k \in 1..m : moved[k] = turn(k, moved[k-1])
  <2>1. \A k \in 1..m : k \in 0..m /\ k # 0
    OBVIOUS
  <2>2. QED
    BY <1>6, <2>1
<1>10. moved[m] \in S
  <2>1. \A k \in 1..m : moved[k-1] \in S => moved[k] \in S
    BY <1>5, <1>9
  <2>2. QED
    BY <1>4, <1>8, <2>1, RecursionStays
<1>11. QED
  BY <1>2, <1>3, <1>4, <1>7, <1>10, RecordedInvariant
-----------------------------------------------------------------------------
(* Dragging *)

\* A drag points before a row, or behind the last one.
LEMMA DragInvariant ==
  ASSUME IInv, NEW source, NEW v, NEW level, Drag(source, v, level)
  PROVE  IInv'
<1>1. PICK t, at : t = waves.items_tree /\ at = ToDisplayed(t, v)
  OBVIOUS
<1>2. t \in Seq(NodeOf(Nat)) /\ Len(t) \in Nat
  BY <1>1, Here
<1>3. at \in 0..Len(t)
  BY <1>1, <1>2, DisplayedIs
<1>4. PICK before : before = IF at = 0 THEN Len(t) + 1 ELSE at
  OBVIOUS
<1>5. before \in Nat \ {0}
  BY <1>2, <1>3, <1>4
<1>6. drag' = <<source, [before |-> before, level |-> level]>>
      /\ UNCHANGED <<waves, undo_stack, redo_stack>>
  BY <1>1, <1>4, Zenon DEF Drag
<1>7. IsPlace(drag'[2])
  BY <1>5, <1>6 DEF IsPlace
<1>8. waves' \in SoundWaves(waves.display_item_ref_counter)
  BY <1>6, Here
<1>9. QED
  BY <1>6, <1>7, <1>8, KeptStacksInvariant

\* The row that shows the first of some items is a number.
LEMMA SomeRow ==
  ASSUME NEW tree \in Seq(NodeOf(Nat)), NEW refs,
         NEW rows, rows = {RowOf(tree, r) : r \in refs}
  PROVE  (IF rows = {} THEN 0 ELSE CHOOSE v \in rows : TRUE) \in Int
<1>1. rows \subseteq Nat
  BY RowOfIsNumber
<1>2. ASSUME rows # {}
      PROVE  (CHOOSE v \in rows : TRUE) \in rows
  <2>1. \E v \in rows : TRUE
    BY <1>2
  <2>2. QED
    BY <2>1, Zenon
<1>3. QED
  BY <1>1, <1>2

LEMMA DragFinishedInvariant ==
  ASSUME IInv, VariableDragFinished
  PROVE  IInv'
<1>1. PICK t, moved : /\ t = waves.items_tree
                      /\ moved = (SelectedVisible(t) \cup {ToDisplayed(t, waves.focused_item),
                                    ToDisplayed(t, drag[1])}) \ {0}
  OBVIOUS
<1>2. PICK w : w = MovedItems(waves, moved, drag[2])
  OBVIOUS
<1>3. PICK rows : rows = {RowOf(w.items_tree, r) : r \in FocusedItem(waves)}
  OBVIOUS
<1>4. PICK f : f = IF rows = {} THEN 0 ELSE CHOOSE v \in rows : TRUE
  OBVIOUS
<1>5. /\ drag # <<>> /\ drag' = <<>> /\ SaveCurrentCanvas
      /\ waves' = [w EXCEPT !.focused_item = f]
  BY <1>1, <1>2, <1>3, <1>4, Zenon DEF VariableDragFinished
<1>6. PICK n \in Nat : n = waves.display_item_ref_counter
  BY Here
<1>7. waves \in SoundWaves(n) /\ drag[2].before \in Nat \ {0}
  BY <1>5, <1>6, Here DEF IInv, IsPlace
<1>8. w \in SoundWaves(n)
  BY <1>2, <1>7, MovedItemsSound
<1>9. /\ w.items_tree \in Seq(NodeOf(Nat))
      /\ Shows(w.items_tree, Nat, DOMAIN w.displayed_items)
  BY <1>8 DEF SoundWaves, WavesType, Kept, KeptWith
<1>10. f \in Int
  BY <1>3, <1>4, <1>9, SomeRow
<1>11. waves' \in SoundWaves(n)
  BY <1>5, <1>8, <1>9, <1>10, TreeChanged
<1>12. QED
  BY <1>5, <1>6, <1>11, SaveSound DEF IInv

LEMMA AddDraggedInvariant ==
  ASSUME IInv, NEW xs \in Seq(Vars), AddDraggedVariables(xs)
  PROVE  IInv'
<1>1. PICK w : w = [waves EXCEPT !.focused_item = 0]
  OBVIOUS
<1>2. PICK target : target = IF drag = <<>> THEN EndInsertPosition(w) ELSE drag[2]
  OBVIOUS
<1>3. /\ waves' = InsertedAll(w, [k \in 1..Len(xs) |-> Variable(xs[k])], target)
      /\ drag' = <<>>
      /\ UNCHANGED <<undo_stack, redo_stack>>
  BY <1>1, <1>2, Zenon DEF AddDraggedVariables
<1>4. PICK n \in Nat : n = waves.display_item_ref_counter
  BY Here
<1>5. w \in SoundWaves(n)
  <2>1. 0 \in Int
    OBVIOUS
  <2>2. QED
    BY <1>1, <1>4, <2>1, Here, TreeChanged
<1>6. w.items_tree \in Seq(NodeOf(Nat))
  BY <1>5 DEF SoundWaves, WavesType
<1>7. IsPlace(target)
  BY <1>2, <1>6, PlacesArePlaces DEF IInv
<1>8. waves' \in SoundWaves(n)
  BY <1>3, <1>5, <1>7, VariablesInserted
<1>9. QED
  BY <1>3, <1>4, <1>8, KeptStacksInvariant

-----------------------------------------------------------------------------
(* Groups *)

\* The items a new group takes in move, whichever they are.
LEMMA GroupNewInvariant ==
  ASSUME IInv, NEW before \in {0} \cup VisiblePositions(waves.items_tree), GroupNew(before)
  PROVE  IInv'
<1> DEFINE t == waves.items_tree
           byFocus == before = 0 /\ HasInsertPosition(waves, waves.focused_item)
           target == IF before # 0 THEN [before |-> before, level |-> t[before].level]
                     ELSE FocusPosition(waves)
           refs == {t[i].item_ref : i \in SelectedVisible(t)}
                     \cup (IF byFocus THEN FocusedItem(waves) ELSE {})
           group == Inserted(waves, Group, target, TRUE)
           inside == {i \in DOMAIN group.items_tree :
                        group.items_tree[i].item_ref \in refs}
           place == [before |-> target.before + 1,
                     level  |-> Min({target.level + 1, MaxLevel})]
           w == MovedItems(group, inside, place)
           tree == XSelectAllVisible(w.items_tree, FALSE)
           f == RowOf(tree, waves.display_item_ref_counter + 1)
<1>1. \/ Recorded(waves)
      \/ Recorded(group)
      \/ Recorded(w)
      \/ Recorded([w EXCEPT !.items_tree = tree, !.focused_item = f])
  <2>1. Recorded(IF refs = {} THEN waves
                 ELSE IF group.panic # "no" THEN group
                 ELSE IF w.panic # "no" THEN w
                 ELSE [w EXCEPT !.items_tree = tree, !.focused_item = f])
    BY Zenon DEF GroupNew
  <2> HIDE DEF refs, group, w, tree, f
  <2>2. QED
    BY <2>1, Zenon
<1>2. PICK n \in Nat : n = waves.display_item_ref_counter
  BY Here
<1>3. waves \in SoundWaves(n)
  BY <1>2, Here
<1>4. target.before \in Nat \ {0}
  <2>1. IsPlace(FocusPosition(waves))
    BY Here, PlacesArePlaces
  <2>2. before # 0 => before \in Nat \ {0}
    BY Here DEF VisiblePositions
  <2>3. CASE before # 0
    BY <2>2, <2>3
  <2>4. CASE before = 0
    BY <2>1, <2>4 DEF IsPlace
  <2>5. QED
    BY <2>3, <2>4
<1>5. Group \in Item /\ Group.kind # "marker"
  BY DEF Group, Item
<1> HIDE DEF target, refs
<1>6. group \in SoundWaves(n)
  BY <1>3, <1>4, <1>5, InsertedSound
<1>7. place.before \in Nat \ {0}
  BY <1>4
<1> HIDE DEF group, inside, place
<1>8. w \in SoundWaves(n)
  BY <1>6, <1>7, MovedItemsSound
<1> HIDE DEF w
<1>9. Shows(w.items_tree, Nat, DOMAIN w.displayed_items)
  BY <1>8 DEF SoundWaves, Kept, KeptWith
<1>10. Shows(tree, Nat, DOMAIN w.displayed_items)
  BY <1>9, SelectShows DEF XSelectAllVisible
<1> HIDE DEF tree
<1>11. f \in Int
  BY <1>10, RowOfIsNumber DEF Shows
<1> HIDE DEF f
<1>12. [w EXCEPT !.items_tree = tree, !.focused_item = f] \in SoundWaves(n)
  BY <1>8, <1>10, <1>11, TreeChanged
<1>13. QED
  BY <1>1, <1>2, <1>3, <1>6, <1>8, <1>12, RecordedInvariant

\* The position a group message is about is one of the tree.
LEMMA GroupPositionIs ==
  ASSUME IInv, NEW ref
  PROVE  GroupPosition(ref) \in 0..Len(waves.items_tree)
BY Here, PositionIs, DisplayedIs DEF GroupPosition

\* Only the node goes, and its own item: what it held stays.
LEMMA GroupDissolveInvariant ==
  ASSUME IInv, NEW ref \in {0} \cup Groups(waves), GroupDissolve(ref)
  PROVE  IInv'
<1>1. PICK t, i, n : /\ t = waves.items_tree /\ i = GroupPosition(ref)
                     /\ n = waves.display_item_ref_counter
  OBVIOUS
<1>2. /\ n \in Nat /\ waves \in SoundWaves(n) /\ i \in 0..Len(t) /\ Len(t) \in Nat
      /\ Shows(t, Nat, DOMAIN waves.displayed_items)
  BY <1>1, Here, GroupPositionIs
<1>3. PICK gone : gone = {t[i].item_ref}
  OBVIOUS
<1>4. Recorded(IF i = 0 THEN waves
               ELSE [waves EXCEPT !.items_tree = RemoveDissolve(t, i),
                                  !.displayed_items = Restrict(@, DOMAIN @ \ gone)])
  BY <1>1, <1>3, Zenon DEF GroupDissolve
<1>5. CASE i = 0
  BY <1>1, <1>2, <1>4, <1>5, RecordedInvariant
<1>6. CASE i # 0
  <2>1. i \in 1..Len(t)
    BY <1>2, <1>6
  <2>2. Shows(RemoveDissolve(t, i), Nat, DOMAIN waves.displayed_items \ gone)
    BY <1>2, <1>3, <2>1, DissolveShows
  <2> DEFINE none == {}
  <2>3. \A r \in MarkersIn(waves.displayed_items) :
          waves.displayed_items[r].of \in none => r \in gone
    OBVIOUS
  <2> HIDE DEF none
  <2>4. 0 \in Int
    OBVIOUS
  <2>5. [waves EXCEPT !.items_tree = RemoveDissolve(t, i),
                      !.displayed_items = Restrict(@, DOMAIN @ \ gone)] \in SoundWaves(n)
    BY <1>2, <2>2, <2>3, <2>4, FewerSound
  <2>6. QED
    BY <1>1, <1>4, <1>6, <2>5, RecordedInvariant
<1>7. QED
  BY <1>5, <1>6

\* The waves with another tree of the same items, when the focus stays or goes.
LEMMA FoldedInvariant ==
  ASSUME IInv, NEW t, Shows(t, Nat, DOMAIN waves.displayed_items),
         NEW f \in Int,
         \/ Recorded(waves)
         \/ Recorded(Panic(waves, "Inconsistent state"))
         \/ Recorded([waves EXCEPT !.items_tree = t, !.focused_item = f])
  PROVE  IInv'
<1>1. PICK n \in Nat : n = waves.display_item_ref_counter /\ waves \in SoundWaves(n)
  BY Here
<1>2. [waves EXCEPT !.items_tree = t, !.focused_item = f] \in SoundWaves(n)
  BY <1>1, TreeChanged
<1>3. Panic(waves, "Inconsistent state") \in SoundWaves(n)
  BY <1>1, PanicSound DEF Panics
<1>4. QED
  BY <1>1, <1>2, <1>3, RecordedInvariant

LEMMA GroupFoldInvariant ==
  ASSUME IInv, NEW ref, NEW unfolded \in BOOLEAN, NEW recursive \in BOOLEAN,
         GroupFold(ref, unfolded, recursive)
  PROVE  IInv'
<1>1. PICK i : i = GroupPosition(ref)
  OBVIOUS
<1>2. PICK t : t = IF recursive THEN XFoldRecursive(waves.items_tree, i, unfolded)
                   ELSE XFold(waves.items_tree, i, unfolded)
  OBVIOUS
<1>3. PICK f : f = IF waves.focused_item # 0
                      /\ SubtreeContains(waves.items_tree, i,
                                         ToDisplayed(waves.items_tree, waves.focused_item))
                   THEN 0 ELSE waves.focused_item
  OBVIOUS
<1>4. f \in Int
  BY <1>3, Here
<1>5. Recorded(IF i = 0 THEN waves
               ELSE IF waves.focused_item # 0
                       /\ ToDisplayed(waves.items_tree, waves.focused_item) = 0
                    THEN Panic(waves, "Inconsistent state")
               ELSE [waves EXCEPT !.items_tree = t, !.focused_item = f])
  BY <1>1, <1>2, <1>3, Zenon DEF GroupFold
<1>6. CASE i = 0
  BY <1>5, <1>6, Here, RecordedInvariant
<1>7. CASE i # 0
  <2>1. i \in 1..Len(waves.items_tree)
    BY <1>1, <1>7, Here, GroupPositionIs
  <2>2. Shows(t, Nat, DOMAIN waves.displayed_items)
    BY <1>2, <2>1, Here, FoldShows, FoldRecursiveShows
  <2>3. \/ Recorded(Panic(waves, "Inconsistent state"))
        \/ Recorded([waves EXCEPT !.items_tree = t, !.focused_item = f])
    BY <1>5, <1>7, Zenon
  <2>4. QED
    BY <1>4, <2>2, <2>3, FoldedInvariant
<1>8. QED
  BY <1>6, <1>7

LEMMA GroupFoldAllInvariant ==
  ASSUME IInv, NEW unfolded \in BOOLEAN, GroupFoldAll(unfolded)
  PROVE  IInv'
<1>1. PICK t : t = XFoldAll(waves.items_tree, unfolded)
  OBVIOUS
<1>2. PICK row : row = ToDisplayed(waves.items_tree, waves.focused_item)
  OBVIOUS
<1>3. PICK f : f = IF waves.focused_item # 0 /\ ~unfolded /\ waves.items_tree[row].level > 0
                   THEN 0 ELSE waves.focused_item
  OBVIOUS
<1>4. f \in Int
  BY <1>3, Here
<1>5. Recorded(IF waves.focused_item # 0 /\ row = 0
               THEN Panic(waves, "Inconsistent state")
               ELSE [waves EXCEPT !.items_tree = t, !.focused_item = f])
  BY <1>1, <1>2, <1>3, Zenon DEF GroupFoldAll
<1>6. \/ Recorded(Panic(waves, "Inconsistent state"))
      \/ Recorded([waves EXCEPT !.items_tree = t, !.focused_item = f])
  BY <1>5, Zenon
<1>7. Shows(t, Nat, DOMAIN waves.displayed_items)
  BY <1>1, Here, FoldAllShows
<1>8. QED
  BY <1>4, <1>6, <1>7, FoldedInvariant

-----------------------------------------------------------------------------
(* Another waveform *)

\* A reload fails its assertion, or drops items and keeps the others.
LEMMA ReloadInvariant ==
  ASSUME IInv, waves.panic = "no", NEW inner \in SUBSET Vars, NEW keep_unavailable,
         Reload(inner, keep_unavailable)
  PROVE  IInv'
<1>1. PICK d : d = waves.displayed_items
  OBVIOUS
<1>2. PICK order \in Orders(Dropped(d, inner, keep_unavailable)) :
        Unrecorded(UpdatedItems(waves, d, inner, keep_unavailable, order))
  BY <1>1 DEF Reload
<1>3. PICK n \in Nat : n = waves.display_item_ref_counter
  BY Here
<1>4. /\ waves \in SoundWaves(n) /\ waves \in WavesType /\ d \in Displays
      /\ Shows(waves.items_tree, Nat, DOMAIN d)
      /\ DOMAIN d \subseteq 1..n /\ Timed(d, waves.markers)
  BY <1>1, <1>3, Here DEF SoundWaves, WavesType, Kept, KeptWith
<1>5. IsFiniteSet(Dropped(d, inner, keep_unavailable))
  <2>1. Dropped(d, inner, keep_unavailable) \subseteq 1..n
    BY <1>4 DEF Dropped
  <2>2. IsFiniteSet(1..n)
    BY FS_Interval
  <2>3. QED
    BY <2>1, <2>2, FS_Subset
<1>6. Lists(order, Dropped(d, inner, keep_unavailable))
  BY <1>5, OrdersHoldAll DEF Lists
<1>7. PICK u : u = UpdatedItems(waves, d, inner, keep_unavailable, order)
  OBVIOUS
<1>8. u = Panic(waves, "assert") \/ u \in ShowsFrom(waves, d, waves.markers)
  BY <1>4, <1>6, <1>7, UpdatedKeeps
<1>9. u \in SoundWaves(n)
  <2>1. CASE u = Panic(waves, "assert")
    BY <1>4, <2>1, PanicSound DEF Panics
  <2>2. CASE u \in ShowsFrom(waves, d, waves.markers)
    BY <1>3, <1>4, <2>2 DEF ShowsFrom, SoundWaves, Kept, KeptWith
  <2>3. QED
    BY <1>8, <2>1, <2>2
<1>10. QED
  BY <1>2, <1>3, <1>7, <1>9, UnrecordedInvariant

\* Nothing is displayed over a waveform that was just loaded.
LEMMA FreshSound ==
  ASSUME NEW inner \in SUBSET Vars
  PROVE  FreshWaves(inner) \in SoundWaves(0)
<1>1. PICK w : w = FreshWaves(inner)
  OBVIOUS
<1>2. <<>> \in Displays
  <2>1. DOMAIN <<>> = {}
    OBVIOUS
  <2>2. <<>> \in [DOMAIN <<>> -> Item]
    BY <2>1
  <2>3. QED
    BY <2>1, <2>2, DisplaysAre
<1>3. /\ w.items_tree = <<>> /\ w.displayed_items = <<>>
      /\ w.display_item_ref_counter = 0
  BY <1>1 DEF FreshWaves
<1>4. w \in WavesType
  BY <1>1, <1>2 DEF FreshWaves, WavesType, Panics
<1>5. Shows(w.items_tree, Nat, DOMAIN w.displayed_items)
  BY <1>3, NothingShows
<1>6. Timed(w.displayed_items, w.markers)
  BY <1>3 DEF Timed, MarkersIn
<1>7. QED
  BY <1>1, <1>3, <1>4, <1>5, <1>6 DEF SoundWaves, Kept, KeptWith

\* Where the saved canvases hold only references it counts, the counter may
\* start anew.
LEMMA ReplacedInvariant ==
  ASSUME IInv, waves' \in SoundWaves(0),
         \A c \in ToSet(undo_stack) \cup ToSet(redo_stack) :
           \A ref \in DOMAIN c.displayed_items : ref <= waves'.display_item_ref_counter,
         UNCHANGED <<undo_stack, redo_stack>>, drag' # <<>> => IsPlace(drag'[2])
  PROVE  IInv'
<1>1. PICK n, m : n = waves.display_item_ref_counter /\ m = waves.display_item_ref_counter'
  OBVIOUS
<1>2. undo_stack \in Seq(SoundCanvas(n)) /\ redo_stack \in Seq(SoundCanvas(n)) /\ UndoBound
  BY <1>1 DEF IInv
<1>3. m \in Nat /\ n \in Nat
  BY <1>1, Here DEF SoundWaves, WavesType
<1>4. ASSUME NEW c \in SoundCanvas(n),
             \A ref \in DOMAIN c.displayed_items : ref <= m
      PROVE  c \in SoundCanvas(m)
  <2>1. DOMAIN c.displayed_items \subseteq 1..n
    BY <1>4 DEF SoundCanvas, Kept, KeptWith
  <2>2. DOMAIN c.displayed_items \subseteq 1..m
    BY <1>3, <1>4, <2>1
  <2>3. QED
    BY <2>2 DEF SoundCanvas, Kept, KeptWith
<1>5. ASSUME NEW stack \in Seq(SoundCanvas(n)),
             \A c \in ToSet(stack) : \A ref \in DOMAIN c.displayed_items : ref <= m
      PROVE  stack \in Seq(SoundCanvas(m))
  <2>1. ASSUME NEW k \in 1..Len(stack)
        PROVE  stack[k] \in SoundCanvas(m)
    <3>1. stack[k] \in SoundCanvas(n) /\ stack[k] \in ToSet(stack)
      BY DEF ToSet
    <3>2. QED
      BY <1>4, <1>5, <3>1
  <2>2. QED
    BY <2>1
<1>6. undo_stack' \in Seq(SoundCanvas(m)) /\ redo_stack' \in Seq(SoundCanvas(m))
  BY <1>1, <1>2, <1>5
<1>7. UndoBound'
  BY <1>2 DEF UndoBound
<1>8. QED
  BY <1>1, <1>6, <1>7 DEF IInv

LEMMA LoadClearInvariant ==
  ASSUME ReplacesNothingSaved, IInv, NEW inner \in SUBSET Vars, LoadClear(inner)
  PROVE  IInv'
<1>1. waves' = FreshWaves(inner) /\ UNCHANGED <<undo_stack, redo_stack, drag>>
  BY DEF LoadClear, Unrecorded
<1>2. waves' \in SoundWaves(0) /\ (drag' # <<>> => IsPlace(drag'[2]))
  BY <1>1, FreshSound DEF IInv
<1>3. \A c \in ToSet(undo_stack) \cup ToSet(redo_stack) :
        \A ref \in DOMAIN c.displayed_items : ref <= waves'.display_item_ref_counter
  BY Zenon DEF ReplacesNothingSaved
<1>4. QED
  BY <1>1, <1>2, <1>3, ReplacedInvariant

\* The references count on from the largest one of the state file.
LEMMA LoadStateInvariant ==
  ASSUME StateFilesSound, ReplacesNothingSaved, IInv, waves.panic = "no",
         NEW canvas \in StateFiles, LoadState(canvas)
  PROVE  IInv'
<1>1. PICK d : d = canvas.displayed_items
  OBVIOUS
<1>2. PICK w : w = [waves EXCEPT !.items_tree = canvas.items_tree]
  OBVIOUS
<1>3. PICK u : u = UpdatedItems(w, d, waves.inner, TRUE, <<>>)
  OBVIOUS
<1>4. PICK counter : counter = Max({0} \cup DOMAIN d)
  OBVIOUS
<1>5. /\ waves' = [u EXCEPT !.focused_item = canvas.focused_item,
                            !.markers = canvas.markers,
                            !.display_item_ref_counter = counter]
      /\ drag' = <<>>
      /\ UNCHANGED <<undo_stack, redo_stack>>
  BY <1>1, <1>2, <1>3, <1>4, Zenon DEF LoadState
<1>6. PICK n \in Nat : canvas \in SoundCanvas(n)
  BY DEF StateFilesSound
<1>7. /\ canvas \in CanvasType /\ d \in Displays
      /\ Shows(canvas.items_tree, Nat, DOMAIN d)
      /\ DOMAIN d \subseteq 1..n /\ Timed(d, canvas.markers)
  BY <1>1, <1>6 DEF SoundCanvas, CanvasType, Kept, KeptWith
<1>8. counter \in Nat /\ DOMAIN d \subseteq 1..counter
  <2>1. PICK T : T = {0} \cup DOMAIN d
    OBVIOUS
  <2>2. T \subseteq 0..n /\ T # {}
    BY <1>7, <2>1
  <2>3. Max(T) \in T /\ \A m \in T : m <= Max(T)
    BY <2>2, MaxUpTo
  <2>4. QED
    BY <1>4, <1>7, <2>1, <2>2, <2>3
<1>9. w \in WavesType /\ w.panic = "no" /\ w.items_tree = canvas.items_tree
      /\ waves.inner \in SUBSET Vars
  BY <1>2, <1>7, Here DEF WavesType, CanvasType
<1>10. PICK order : order = <<>>
  OBVIOUS
<1>11. PICK inner \in SUBSET Vars : inner = waves.inner
  BY <1>9
<1>12. PICK keep_unavailable : keep_unavailable = TRUE
  OBVIOUS
<1>13. Len(order) = 0 /\ Lists(order, Dropped(d, inner, keep_unavailable))
  BY <1>10, <1>12 DEF Dropped, Lists
<1>14. u \in ShowsFrom(w, d, canvas.markers)
  <2>1. u = UpdatedItems(w, d, inner, keep_unavailable, order)
    BY <1>3, <1>10, <1>11, <1>12
  <2>2. Shows(w.items_tree, Nat, DOMAIN d)
    BY <1>7, <1>9
  <2>3. QED
    BY <1>7, <1>9, <1>13, <2>1, <2>2, UpdatedKeeps
<1>15. PICK v : v = [u EXCEPT !.focused_item = canvas.focused_item,
                              !.markers = canvas.markers,
                              !.display_item_ref_counter = counter]
  OBVIOUS
<1>16. /\ v \in WavesType /\ v.items_tree = u.items_tree
       /\ v.displayed_items = u.displayed_items
       /\ v.markers = canvas.markers /\ v.display_item_ref_counter = counter
  BY <1>7, <1>8, <1>14, <1>15 DEF WavesType, CanvasType, ShowsFrom
<1>17. v \in SoundWaves(0)
  <2>1. /\ Shows(v.items_tree, Nat, DOMAIN v.displayed_items)
        /\ DOMAIN v.displayed_items \subseteq DOMAIN d
        /\ Timed(v.displayed_items, v.markers)
    BY <1>14, <1>16 DEF ShowsFrom
  <2>2. QED
    BY <1>8, <1>16, <2>1 DEF SoundWaves, Kept, KeptWith
<1>18. \A c \in ToSet(undo_stack) \cup ToSet(redo_stack) :
         \A ref \in DOMAIN c.displayed_items : ref <= waves'.display_item_ref_counter
  BY Zenon DEF ReplacesNothingSaved, LoadStateNext
<1>19. QED
  BY <1>5, <1>15, <1>17, <1>18, ReplacedInvariant

-----------------------------------------------------------------------------
(* Every step *)

LEMMA InitInvariant ==
  ASSUME Init
  PROVE  IInv
<1>1. PICK inner \in SUBSET Vars : waves = FreshWaves(inner)
  BY DEF Init
<1>2. waves \in SoundWaves(0)
  BY <1>1, FreshSound
<1>3. undo_stack = <<>> /\ redo_stack = <<>> /\ drag = <<>>
  BY DEF Init
<1>4. UndoBound
  BY <1>3, CanvasAssumption DEF UndoBound
<1>5. QED
  BY <1>2, <1>3, <1>4 DEF IInv

LEMMA AddNextInvariant ==
  ASSUME IInv, AddNext
  PROVE  IInv'
<1>1. waves.inner \subseteq Vars
  BY Here DEF WavesType
<1>2. CASE \E x \in waves.inner : AddVariables(<<x>>)
  <2>1. \A x \in waves.inner : <<x>> \in Seq(Vars)
    BY <1>1
  <2>2. QED
    BY <1>2, <2>1, AddVariablesInvariant
<1>3. CASE \E x \in waves.inner : \E scopes \in Scopes(x) : AddScopeAsGroup(scopes)
  <2>1. PICK x, scopes : x \in Vars /\ scopes \in Scopes(x) /\ AddScopeAsGroup(scopes)
    BY <1>1, <1>3
  <2>2. PICK a, b, c, d : /\ a = Scope(0, <<x>>) /\ b = Scope(0, <<>>)
                          /\ c = Scope(1, <<x>>) /\ d = Scope(1, <<>>)
    OBVIOUS
  <2>3. scopes \in Seq(ScopeType)
    <3>1. {a, b, c, d} \subseteq ScopeType
      <4>1. x \in Vars
        BY <2>1
      <4>2. QED
        BY <4>1, <2>2 DEF Scope, ScopeType
    <3>2. scopes \in {<<a>>, <<b, c>>, <<a, d>>}
      BY <2>1, <2>2, Zenon DEF Scopes
    <3>3. PICK S : S = ScopeType
      OBVIOUS
    <3>4. <<a>> \in Seq(S) /\ <<b, c>> \in Seq(S) /\ <<a, d>> \in Seq(S)
      BY <3>1, <3>3
    <3>5. QED
      BY <3>2, <3>3, <3>4
  <2>4. QED
    BY <2>1, <2>3, AddScopeInvariant
<1>4. CASE \E x, y \in waves.inner : AddVariables(<<x, y>>)
  <2>1. \A x, y \in waves.inner : <<x, y>> \in Seq(Vars)
    BY <1>1
  <2>2. QED
    BY <1>4, <2>1, AddVariablesInvariant
<1>5. CASE \E v \in 0..Len(waves.items_tree) : AddDivider(v)
  BY <1>5, AddDividerInvariant
<1>6. CASE \E move_focus \in BOOLEAN : AddMarker(move_focus)
  BY <1>6, AddMarkerInvariant
<1>7. CASE \E m \in MarkerIndex : SetMarker(m)
  BY <1>7, SetMarkerInvariant
<1>8. CASE \E lanes \in Lane, refs \in {{}} \cup {{r} : r \in DOMAIN waves.displayed_items} :
             DecoderAdd(lanes, refs)
  BY <1>8, DecoderAddInvariant
<1>9. QED
  BY <1>2, <1>3, <1>4, <1>5, <1>6, <1>7, <1>8 DEF AddNext

LEMMA RemoveNextInvariant ==
  ASSUME IInv, RemoveNext
  PROVE  IInv'
BY RemoveVisibleInvariant, RemoveSelectionInvariant, RemoveItemsInvariant,
   RemoveMarkerInvariant, RemovePlaceholdersInvariant DEF RemoveNext

LEMMA FocusNextInvariant ==
  ASSUME IInv, FocusNext
  PROVE  IInv'
<1>1. CASE \E v \in Ref : FocusItem(v)
  <2>1. Ref \subseteq Int
    BY DEF Ref
  <2>2. QED
    BY <1>1, <2>1, FocusItemInvariant
<1>2. CASE UnfocusItem
  <2>1. 0 \in Int
    OBVIOUS
  <2>2. QED
    BY <1>2, <2>1, FocusItemInvariant
<1>3. CASE \E direction \in {"Up", "Down"}, count \in 1..MaxCount, select \in BOOLEAN :
             MoveFocus(direction, count, select)
  <2>1. 1..MaxCount \subseteq Nat
    BY CanvasAssumption
  <2>2. QED
    BY <1>3, <2>1, MoveFocusInvariant
<1>4. QED
  BY <1>1, <1>2, <1>3 DEF FocusNext

LEMMA SelectNextInvariant ==
  ASSUME IInv, SelectNext
  PROVE  IInv'
<1>1. ASSUME NEW selected \in BOOLEAN, ItemSelectAll(selected)
      PROVE  IInv'
  BY <1>1, SelectInvariant
<1>2. ASSUME NEW selected \in BOOLEAN, NEW v, SetItemSelected(v, selected)
      PROVE  IInv'
  BY <1>2, SelectInvariant
<1>3. ASSUME NEW v, ItemSelectRange(v)
      PROVE  IInv'
  BY <1>3, SelectInvariant
<1>4. QED
  BY <1>1, <1>2, <1>3 DEF SelectNext

LEMMA DragNextInvariant ==
  ASSUME IInv, DragNext
  PROVE  IInv'
<1>1. ASSUME NEW source, NEW v, NEW level, Drag(source, v, level)
      PROVE  IInv'
  BY <1>1, DragInvariant
<1>2. CASE VariableDragFinished
  BY <1>2, DragFinishedInvariant
<1>3. CASE \E x \in waves.inner : AddDraggedVariables(<<x>>)
  <2>1. \A x \in waves.inner : <<x>> \in Seq(Vars)
    BY Here DEF WavesType
  <2>2. QED
    BY <1>3, <2>1, AddDraggedInvariant
<1>4. QED
  BY <1>1, <1>2, <1>3 DEF DragNext

LEMMA GroupNextInvariant ==
  ASSUME IInv, GroupNext
  PROVE  IInv'
BY GroupNewInvariant, GroupDissolveInvariant, GroupFoldInvariant, GroupFoldAllInvariant
   DEF GroupNext

LEMMA LoadNextInvariant ==
  ASSUME StateFilesSound, ReplacesNothingSaved, IInv, waves.panic = "no", LoadNext
  PROVE  IInv'
BY LoadClearInvariant, ReloadInvariant, LoadStateInvariant DEF LoadNext, LoadStateNext

LEMMA NextInvariant ==
  ASSUME StateFilesSound, ReplacesNothingSaved, IInv, [Next]_vars
  PROVE  IInv'
<1>1. CASE Next
  <2>1. waves.panic = "no"
    BY <1>1 DEF Next, Running
  <2>2. CASE MoveNext
    <3>1. 1..MaxCount \subseteq Nat
      BY CanvasAssumption
    <3>2. QED
      BY <2>2, <3>1, MoveFocusedInvariant DEF MoveNext
  <2>3. CASE UndoNext
    <3>1. 1..MaxCount \subseteq Nat
      BY CanvasAssumption
    <3>2. QED
      BY <2>3, <3>1, UndoInvariant, RedoInvariant DEF UndoNext
  <2>4. QED
    BY <1>1, <2>1, <2>2, <2>3, DragNextInvariant, AddNextInvariant, RemoveNextInvariant,
       FocusNextInvariant, SelectNextInvariant, GroupNextInvariant, LoadNextInvariant
       DEF Next
<1>2. CASE UNCHANGED vars
  BY <1>2 DEF vars, IInv, UndoBound
<1>3. QED
  BY <1>1, <1>2

-----------------------------------------------------------------------------
(* What follows *)

\* The references of every canvas, on screen or saved, have been handed out.
LEMMA CanvasesSound ==
  ASSUME IInv, NEW c \in Canvases
  PROVE  c \in SoundCanvas(waves.display_item_ref_counter)
<1>1. PICK n, S : n = waves.display_item_ref_counter /\ S = SoundCanvas(n)
  OBVIOUS
<1>2. undo_stack \in Seq(S) /\ redo_stack \in Seq(S)
  BY <1>1 DEF IInv
<1>3. ToSet(undo_stack) \subseteq S /\ ToSet(redo_stack) \subseteq S
  BY <1>2 DEF ToSet
<1>4. CanvasOf(waves) \in S
  BY <1>1, Here, CanvasSound
<1>5. QED
  BY <1>1, <1>3, <1>4 DEF Canvases

LEMMA InvariantGivesFreshRefs ==
  ASSUME IInv
  PROVE  FreshRefs
<1>1. ASSUME NEW c \in Canvases, NEW ref \in DOMAIN c.displayed_items
      PROVE  ref <= waves.display_item_ref_counter
  BY CanvasesSound, Here DEF SoundCanvas, Kept, KeptWith
<1>2. QED
  BY <1>1 DEF FreshRefs

LEMMA InvariantGivesItemsKept ==
  ASSUME IInv
  PROVE  ItemsKept
<1>1. ASSUME NEW c \in Canvases
      PROVE  /\ RefsOf(c.items_tree) = DOMAIN c.displayed_items
             /\ RefsUnique(c.items_tree)
             /\ \A ref \in DOMAIN c.displayed_items :
                  c.displayed_items[ref].kind = "marker"
                    => c.displayed_items[ref].of \in c.markers
  <2>1. Kept(c, waves.display_item_ref_counter)
    BY CanvasesSound DEF SoundCanvas
  <2>2. QED
    BY <2>1 DEF Kept, KeptWith, Shows, Timed, MarkersIn
<1>2. QED
  BY <1>1 DEF ItemsKept, TreeShowsItems, MarkersHaveTimes

\* The last element of a sequence, put back, and taken away again.
LEMMA LastIs ==
  ASSUME NEW S, NEW s \in Seq(S)
  PROVE  /\ s # <<>> => Append(Front(s), Last(s)) = s /\ Last(s) \in S
         /\ \A x \in S : /\ Append(s, x) # <<>>
                         /\ Front(Append(s, x)) = s /\ Last(Append(s, x)) = x
<1>1. PICK n \in Nat : n = Len(s)
  OBVIOUS
<1>2. ASSUME s # <<>>
      PROVE  Append(Front(s), Last(s)) = s /\ Last(s) \in S
  <2>1. n # 0
    BY <1>1, <1>2
  <2>2. PICK p : p = SubSeq(s, 1, n-1)
    OBVIOUS
  <2>3. 1 \in 1..Len(s)+1 /\ n-1 \in 1-1..Len(s) /\ (n-1) - 1 + 1 = n-1
    BY <1>1, <2>1
  <2>4. p \in Seq(S) /\ Len(p) = n-1 /\ \A k \in 1..n-1 : p[k] = s[k]
    BY <2>2, <2>3, SubSeqProperties
  <2>5. s[n] \in S
    BY <1>1, <2>1
  <2>6. PICK q : q = Append(p, s[n])
    OBVIOUS
  <2>7. /\ q \in Seq(S) /\ Len(q) = n /\ q[n] = s[n]
        /\ \A k \in 1..n-1 : q[k] = p[k]
    BY <2>1, <2>4, <2>5, <2>6
  <2>8. \A k \in 1..n : q[k] = s[k]
    <3>1. \A k \in 1..n : k = n \/ k \in 1..n-1
      OBVIOUS
    <3>2. QED
      BY <2>4, <2>7, <3>1
  <2>9. q = s
    BY <1>1, <2>7, <2>8
  <2>10. QED
    BY <1>1, <2>2, <2>5, <2>6, <2>9 DEF Front, Last
<1>3. ASSUME NEW x \in S
      PROVE  /\ Append(s, x) # <<>>
             /\ Front(Append(s, x)) = s /\ Last(Append(s, x)) = x
  <2>1. PICK q : q = Append(s, x)
    OBVIOUS
  <2>2. /\ q \in Seq(S) /\ Len(q) = n + 1 /\ q[n+1] = x
        /\ \A k \in 1..n : q[k] = s[k]
    BY <1>1, <2>1
  <2>3. PICK p : p = SubSeq(q, 1, n)
    OBVIOUS
  <2>4. 1 \in 1..Len(q)+1 /\ n \in 1-1..Len(q) /\ n - 1 + 1 = n
    BY <2>2
  <2>5. p \in Seq(S) /\ Len(p) = n /\ \A k \in 1..n : p[k] = q[k]
    BY <2>2, <2>3, <2>4, SubSeqProperties
  <2>6. p = s
    BY <1>1, <2>2, <2>5
  <2>7. Len(q) - 1 = n /\ q # <<>>
    BY <2>2
  <2>8. QED
    BY <2>1, <2>2, <2>3, <2>6, <2>7 DEF Front, Last
<1>4. QED
  BY <1>2, <1>3

\* A canvas holds all that undo changes.
LEMMA RestoredBack ==
  ASSUME NEW w \in WavesType, NEW c \in CanvasType
  PROVE  /\ Restored(Restored(w, c), CanvasOf(w)) = w
         /\ CanvasOf(Restored(w, c)) = c
<1>1. PICK u, o : u = Restored(w, c) /\ o = CanvasOf(w)
  OBVIOUS
<1>2. /\ u \in WavesType
      /\ u.focused_item = c.focused_item /\ u.items_tree = c.items_tree
      /\ u.displayed_items = c.displayed_items /\ u.markers = c.markers
      /\ u.display_item_ref_counter = w.display_item_ref_counter
      /\ u.inner = w.inner /\ u.panic = w.panic
  BY <1>1 DEF Restored, CanvasType, WavesType
<1>3. /\ o.focused_item = w.focused_item /\ o.items_tree = w.items_tree
      /\ o.displayed_items = w.displayed_items /\ o.markers = w.markers
  BY <1>1 DEF CanvasOf
<1>4. CanvasOf(u) = c
  BY <1>2 DEF CanvasOf, CanvasType
<1>5. PICK v : v = Restored(u, o)
  OBVIOUS
<1>6. v = w
  BY <1>2, <1>3, <1>5 DEF Restored, WavesType
<1>7. QED
  BY <1>1, <1>4, <1>5, <1>6

LEMMA InvariantGivesUndoRedoInverse ==
  ASSUME IInv
  PROVE  UndoRedoInverse
<1>1. PICK w, u, r : w = waves /\ u = undo_stack /\ r = redo_stack
  OBVIOUS
<1>2. PICK S : S = SoundCanvas(waves.display_item_ref_counter)
  OBVIOUS
<1>3. /\ u \in Seq(S) /\ r \in Seq(S) /\ CanvasOf(w) \in S /\ w \in WavesType
      /\ S \subseteq CanvasType
  BY <1>1, <1>2, Here, CanvasSound DEF IInv, SoundCanvas
<1>4. Stacks = <<w, u, r>>
  BY <1>1 DEF Stacks
<1>5. ASSUME NEW p \in Seq(S), p # <<>>
      PROVE  /\ Restored(Restored(w, Last(p)), CanvasOf(w)) = w
             /\ Append(Front(p), CanvasOf(Restored(w, Last(p)))) = p
  BY <1>3, <1>5, LastIs, RestoredBack
<1>6. ASSUME NEW p \in Seq(S)
      PROVE  /\ Append(p, CanvasOf(w)) # <<>>
             /\ Front(Append(p, CanvasOf(w))) = p
             /\ Last(Append(p, CanvasOf(w))) = CanvasOf(w)
  BY <1>3, LastIs
<1>7. ASSUME u # <<>>
      PROVE  Redone(Undone(Stacks)) = Stacks
  <2>1. PICK x, y, z : x = Restored(w, Last(u)) /\ y = Front(u) /\ z = Append(r, CanvasOf(w))
    OBVIOUS
  <2>2. Undone(Stacks) = <<x, y, z>>
    BY <1>4, <1>7, <2>1 DEF Undone
  <2>3. z # <<>> /\ Front(z) = r /\ Last(z) = CanvasOf(w)
    BY <1>3, <1>6, <2>1
  <2>4. Redone(<<x, y, z>>) = <<Restored(x, Last(z)), Append(y, CanvasOf(x)), Front(z)>>
    BY <2>3 DEF Redone
  <2>5. Restored(x, Last(z)) = w /\ Append(y, CanvasOf(x)) = u
    BY <1>3, <1>5, <1>7, <2>1, <2>3
  <2>6. QED
    BY <1>4, <2>2, <2>3, <2>4, <2>5
<1>8. ASSUME r # <<>>
      PROVE  Undone(Redone(Stacks)) = Stacks
  <2>1. PICK x, y, z : x = Restored(w, Last(r)) /\ y = Front(r) /\ z = Append(u, CanvasOf(w))
    OBVIOUS
  <2>2. Redone(Stacks) = <<x, z, y>>
    BY <1>4, <1>8, <2>1 DEF Redone
  <2>3. z # <<>> /\ Front(z) = u /\ Last(z) = CanvasOf(w)
    BY <1>3, <1>6, <2>1
  <2>4. Undone(<<x, z, y>>) = <<Restored(x, Last(z)), Front(z), Append(y, CanvasOf(x))>>
    BY <2>3 DEF Undone
  <2>5. Restored(x, Last(z)) = w /\ Append(y, CanvasOf(x)) = r
    BY <1>3, <1>5, <1>8, <2>1, <2>3
  <2>6. QED
    BY <1>4, <2>2, <2>3, <2>4, <2>5
<1>9. QED
  BY <1>1, <1>7, <1>8 DEF UndoRedoInverse

\* The inductive invariant, of every behaviour that does not replace the waves
\* under a canvas with later references.
LEMMA CanvasInvariant ==
  ASSUME StateFilesSound
  PROVE  Spec /\ [][ReplacesNothingSaved]_vars => []IInv
<1>1. Init => IInv
  BY InitInvariant
<1>2. IInv /\ [Next]_vars /\ [ReplacesNothingSaved]_vars => IInv'
  <2>1. SUFFICES ASSUME IInv, [Next]_vars, [ReplacesNothingSaved]_vars PROVE IInv'
    OBVIOUS
  <2>2. CASE ReplacesNothingSaved
    BY <2>1, <2>2, NextInvariant
  <2>3. CASE UNCHANGED vars
    BY <2>1, <2>3 DEF vars, IInv, UndoBound
  <2>4. QED
    BY <2>1, <2>2, <2>3
<1>3. QED
  BY <1>1, <1>2, PTL DEF Spec

\* next_displayed_item_ref hands out references that no canvas holds, neither
\* the one on screen nor one that undo or redo may bring back: no message
\* breaks it but one that replaces the waves and counts anew.
THEOREM NewReferencesFresh ==
  ASSUME StateFilesSound
  PROVE  Spec /\ [][ReplacesNothingSaved]_vars => []FreshRefs
<1>1. IInv => FreshRefs
  BY InvariantGivesFreshRefs
<1>2. QED
  BY <1>1, CanvasInvariant, PTL

\* The tree and the map of displayed items hold the same items and every
\* displayed marker has a time, after any messages, also in what undo and redo
\* bring back, and also when a handler ended the program half way, unless the
\* waves were replaced under a saved canvas with later references.
THEOREM DisplayedItemsKept ==
  ASSUME StateFilesSound
  PROVE  Spec /\ [][ReplacesNothingSaved]_vars => []ItemsKept
<1>1. IInv => ItemsKept
  BY InvariantGivesItemsKept
<1>2. QED
  BY <1>1, CanvasInvariant, PTL

\* Undo and redo take back what the other did, to the waves and to both stacks,
\* and save_current_canvas keeps the stacks within the configured size.
THEOREM UndoAndRedoSound ==
  ASSUME StateFilesSound
  PROVE  Spec /\ [][ReplacesNothingSaved]_vars => []UndoStacksSound
<1>1. IInv => UndoStacksSound
  BY InvariantGivesUndoRedoInverse DEF UndoStacksSound, IInv
<1>2. QED
  BY <1>1, CanvasInvariant, PTL
=============================================================================
