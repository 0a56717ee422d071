-------------------------- MODULE MCTreeAlgorithms --------------------------
(***************************************************************************)
(* Every small tree, and for each of them what the algorithms of           *)
(* DisplayedItemTree compute for every argument, against reference         *)
(* definitions.  A tree grows by appending; only groups get children.      *)
(***************************************************************************)
EXTENDS ItemTree, TLC

CONSTANTS g1, g2, g3, a, b

RefSymmetry == Permutations({g1, g2, g3} \cap Refs) \cup Permutations({a, b})

Grow ==
  \E ref \in Refs \ RefsOf(items), level \in Level, unfolded \in BOOLEAN :
    /\ CheckLocation(items, [before |-> Len(items) + 1, level |-> level])
    /\ Len(items) > 0 /\ level > items[Len(items)].level
         => items[Len(items)].item_ref \in Groups
    /\ items' = Append(items, [NewNode(ref, level) EXCEPT !.unfolded = unfolded])

GrowSpec == Init /\ [][Grow]_vars

-----------------------------------------------------------------------------

\* The walk of VisibleItemIterator over next_visible_item.
Walk[i \in 1..Len(items)+1] ==
  IF i > Len(items) THEN {}
  ELSE {i} \cup Walk[IF items[i].unfolded THEN i + 1 ELSE SubtreeEnd(items, i)]

Parent(t, i) == Max({0} \cup {j \in 1..i-1 : t[j].level < t[i].level})
ParentRef(t, ref) ==
  LET p == Parent(t, PositionOf(t, ref)) IN
  IF p = 0 THEN "root" ELSE t[p].item_ref

\* The numbers in S from the least to the greatest.
InOrder(S) ==
  [k \in 1..Cardinality(S) |-> CHOOSE x \in S : RowIn(S, x) = k]

\* The moved nodes in their new order and level, and what stays, as the
\* comment of move_items describes: a moved node that is inside another moved
\* subtree leaves it and comes after it.
Block(t, positions, p, level) ==
  LET inner == {q \in positions : p < q /\ q < SubtreeEnd(t, p)}
      own   == {k \in p..SubtreeEnd(t, p)-1 :
                  \A q \in inner : k \notin q..SubtreeEnd(t, q)-1}
      order == InOrder(own)
  IN [k \in DOMAIN order |->
        [t[order[k]] EXCEPT !.level = @ + level - t[p].level]]

ReferenceMove(t, positions, target) ==
  LET moved(k) == \E p \in positions : k \in p..SubtreeEnd(t, p)-1
      order    == InOrder(positions)
      blocks   == FlattenSeq([k \in DOMAIN order |->
                                Block(t, positions, order[k], target.level)])
      stay     == InOrder({k \in DOMAIN t : ~moved(k)})
      rest     == [k \in DOMAIN stay |-> t[stay[k]]]
      at       == 1 + Cardinality({k \in 1..target.before-1 : ~moved(k)})
      legal    == /\ \A p \in positions :
                       target.before \notin p+1..SubtreeEnd(t, p)-1
                  /\ \A k \in DOMAIN blocks : blocks[k].level \in Level
                  /\ CheckLocation(rest, [before |-> at, level |-> target.level])
  IN IF legal
     THEN [status |-> "ok",
           tree |-> SubSeq(rest, 1, at-1) \o blocks \o SubSeq(rest, at, Len(rest))]
     ELSE [status |-> "err", tree |-> t]

-----------------------------------------------------------------------------

\* The visible positions the model computes are those the iterators visit.
VisibleAsIterated == VisiblePositions(items) = Walk[1]

\* A location check_location accepts changes no other item's parent, the
\* reason its comments give for the ranges.
InsertKeepsParents ==
  \A ref \in Refs \ RefsOf(items), target \in TargetPosition(Len(items)) :
    CheckLocation(items, target) =>
      \A other \in RefsOf(items) :
        ParentRef(InsertNode(items, ref, target), other) = ParentRef(items, other)

\* What the user interface offers as a drop is accepted when it is dropped.
OfferedDropsAccepted ==
  \A v \in 1..VisibleCount(items)+1 :
    LET at == ToDisplayed(items, v) IN
    \A level \in ValidLevelsVisible(items, v, Groups) :
      CheckLocation(items, [before |-> IF at = 0 THEN Len(items) + 1 ELSE at,
                            level  |-> level])

\* The visible index move_item reports is that of the item it moved.
MoveReportsItem ==
  \A v \in 1..VisibleCount(items), direction \in {"Up", "Down"} :
    LET r == MoveItem(items, v, direction, Groups) IN
    r.status = "ok" =>
      ToDisplayed(r.tree, r.vidx) =
        PositionOf(r.tree, items[ToDisplayed(items, v)].item_ref)

\* A step up is undone by a step down, so every indentation is reachable.
DownUndoesUp ==
  \A v \in 1..VisibleCount(items) :
    LET up == MoveItem(items, v, "Up", Groups) IN
    up.status = "ok" /\ up.tree # items =>
      MoveItem(up.tree, up.vidx, "Down", Groups).tree = items

\* move_items of positions none of which is inside another's subtree does
\* what its comment says, fails exactly when that is impossible.
MoveAsDocumented ==
  \A positions \in SUBSET DOMAIN items, target \in TargetPosition(Len(items)) :
    ~Overlapping(items, positions) =>
      MoveItems(items, positions, target) = ReferenceMove(items, positions, target)

\* move_items of any positions fails cleanly or does what its comment says:
\* "If both the root and a node of a subtree are moved, the node is moved out
\* of the subtree and ends up after the root node".
OverlapAsDocumented ==
  \A positions \in SUBSET DOMAIN items, target \in TargetPosition(Len(items)) :
    LET r == MoveItems(items, positions, target) IN
    /\ r.status # "panic"
    /\ r.status = "ok" => r = ReferenceMove(items, positions, target)

=============================================================================
