----------------------------- MODULE Annotations -----------------------------
(* Annotations on the canvas: rectangles and arrows attached to items, their  *)
(* comments, the groups of the annotation list, selection and quick menu,     *)
(* undo, reload and state files (annotation.rs, annotation_list.rs,           *)
(* comment.rs, rectangle.rs, arrow.rs and their handlers in lib.rs).          *)
EXTENDS Integers, Sequences, FiniteSets, SequencesExt

CONSTANTS Items,          \* the items annotations are attached to
          Kinds,          \* of annotations: "Rect" and "Arrow"
          Names,          \* the names of groups a user types
          MaxAnnotations, MaxGroups, MaxMessages, MaxId, UndoSize  \* bounds

VARIABLES w,      \* the canvas: [ann, groups, list, sel, items, folded]
          menu,   \* whether annotation_menu_pos and _time are set
          panel,  \* user.show_annotation_list
          nextId, \* annotation_id_source
          undo, redo, \* the canvases saved
          file    \* the state file: <<>> or <<[w, panel]>>

vars == <<w, menu, panel, nextId, undo, redo, file>>

Ungrouped == "Ungrouped"  \* DEFAULT_GROUP_NAME

EmptyGroup(name) == [name |-> name, cycle |-> 0, ids |-> <<>>]

(* A waveform that is opened starts with the default group. *)
NewCanvas == [ann |-> <<>>, groups |-> <<EmptyGroup(Ungrouped)>>, list |-> FALSE,
              sel |-> <<>>, items |-> Items, folded |-> {}]

Init ==
    /\ w = NewCanvas
    /\ menu = FALSE
    /\ panel = FALSE
    /\ nextId = 0
    /\ undo = <<>> /\ redo = <<>>
    /\ file = <<>>

SaveCurrentCanvas ==
    /\ undo' = LET pushed == Append(undo, w)
               IN  IF Len(pushed) > UndoSize THEN Tail(pushed) ELSE pushed
    /\ redo' = <<>>

-----------------------------------------------------------------------------
(* What the handlers do to annotations and groups. *)

NewAnnotation(id, kind, item) ==
    [id |-> id, kind |-> kind, item |-> item, visible |-> TRUE,
     box |-> FALSE, chain |-> <<>>, source |-> 0]

FirstNamed(groups, name) ==
    LET ks == {k \in DOMAIN groups : groups[k].name = name}
    IN  IF ks = {} THEN 0 ELSE CHOOSE k \in ks : \A j \in ks : k <= j

AddAnnotationToGroup(groups, name, id) ==
    LET k == FirstNamed(groups, name)
    IN  IF k = 0 THEN groups ELSE [groups EXCEPT ![k].ids = Append(@, id)]

DropFirst(ids, id) ==
    LET i == CHOOSE i \in DOMAIN ids : ids[i] = id /\ \A j \in 1..(i - 1) : ids[j] # id
    IN  SubSeq(ids, 1, i - 1) \o SubSeq(ids, i + 1, Len(ids))

Holding(groups, id) == {k \in DOMAIN groups : id \in Range(groups[k].ids)}

Mut_RemoveAnnotationFromGroup(groups, id) ==
    LET ks == Holding(groups, id)
        k == CHOOSE k \in ks : \A j \in ks : k <= j
    IN  IF ks = {} THEN groups ELSE [groups EXCEPT ![k].ids = DropFirst(@, id)]

(* The first group that holds the id loses one occurrence of it. *)
RemoveAnnotationFromGroup(groups, id) ==
    LET ks == Holding(groups, id)
        k == CHOOSE k \in ks : \A j \in ks : k <= j
    IN  IF ks = {} THEN groups
        ELSE [groups EXCEPT ![k].ids = DropFirst(@, id), ![k].cycle = 0]

DeleteGroup(groups, name) ==
    LET k == FirstNamed(groups, name)
    IN  IF k = 0 THEN groups ELSE SubSeq(groups, 1, k - 1) \o SubSeq(groups, k + 1, Len(groups))

(* Every group of the name is emptied, and its annotations are deleted. *)
RemoveAllAnnotationsFromGroup(c, name) ==
    LET Named(k) == c.groups[k].name = name
        ids == UNION {Range(c.groups[k].ids) : k \in {k \in DOMAIN c.groups : Named(k)}}
    IN  [c EXCEPT !.ann = SelectSeq(@, LAMBDA a : a.id \notin ids),
                  !.groups = [k \in DOMAIN @ |-> IF Named(k) THEN EmptyGroup(name) ELSE @[k]]]

IsAttached(a, item) == a.item = item

Ids == {w.ann[k].id : k \in DOMAIN w.ann}

(* The handlers change the first annotation with the id. *)
FirstWith(id) == CHOOSE k \in DOMAIN w.ann :
                    w.ann[k].id = id /\ \A j \in 1..(k - 1) : w.ann[j].id # id

(* The buttons of an annotation: in its quick menu, and in its row of the     *)
(* list, which shows the annotations of the groups.                           *)
QuickMenu(id) == w.sel = <<id>> /\ menu
Listed(id) == panel /\ Holding(w.groups, id) # {}

-----------------------------------------------------------------------------
(* Messages that save the canvas first. *)

Saving(c) == SaveCurrentCanvas /\ w' = c /\ UNCHANGED <<menu, panel, file>>

AnnotationAdded(kind, item) ==
    /\ item \in w.items \ w.folded
    /\ Len(w.ann) < MaxAnnotations /\ nextId < MaxId
    /\ nextId' = nextId + 1
    /\ Saving([w EXCEPT !.ann = Append(@, NewAnnotation(nextId, kind, item)),
                        !.groups = AddAnnotationToGroup(@, Ungrouped, nextId)])

RemoveAnnotation(id) ==
    /\ QuickMenu(id) \/ Listed(id)
    /\ nextId' = nextId
    /\ Saving([w EXCEPT !.ann = SelectSeq(@, LAMBDA a : a.id # id),
                        !.groups = RemoveAnnotationFromGroup(@, id)])

ToggleAnnotationVisibility(id) ==
    /\ QuickMenu(id) \/ Listed(id)
    /\ nextId' = nextId
    /\ Saving([w EXCEPT !.ann[FirstWith(id)].visible = ~@])

SetGroupVisibility(k) ==
    LET ids == Range(w.groups[k].ids)
        any == \E i \in DOMAIN w.ann : w.ann[i].id \in ids /\ w.ann[i].visible
    IN  /\ panel
        /\ nextId' = nextId
        /\ Saving([w EXCEPT !.ann = [i \in DOMAIN @ |->
                       IF @[i].id \in ids THEN [@[i] EXCEPT !.visible = ~any] ELSE @[i]]])

(* The name is checked when it is entered with Enter, not with the button. *)
CreateAnnotationGroup(name) ==
    /\ panel
    /\ Len(w.groups) < MaxGroups
    /\ nextId' = nextId
    /\ Saving([w EXCEPT !.groups = Append(@, EmptyGroup(name))])

DeleteAnnotationGroup(name) ==
    /\ panel
    /\ nextId' = nextId
    /\ Saving([w EXCEPT !.groups = DeleteGroup(@, name)])

(* The bin of a group that is not empty; the default group has none. *)
DeleteAllAnnotationInGroup(name) ==
    /\ panel
    /\ name # Ungrouped
    /\ \E k \in DOMAIN w.groups : w.groups[k].name = name /\ w.groups[k].ids # <<>>
    /\ nextId' = nextId
    /\ Saving(RemoveAllAnnotationsFromGroup(w, name))

(* Only an annotation that is listed, in a group, has the menu of groups. *)
UpdateAnnotationGroup(id, name) ==
    /\ Listed(id)
    /\ FirstNamed(w.groups, name) # 0
    /\ nextId' = nextId
    /\ Saving([w EXCEPT !.groups =
                  AddAnnotationToGroup(RemoveAnnotationFromGroup(@, id), name, id)])

(* Removing an item deletes what is attached to it, not its group entry. *)
RemoveItem(item) ==
    /\ item \in w.items
    /\ nextId' = nextId
    /\ Saving([w EXCEPT !.items = @ \ {item}, !.folded = @ \ {item},
                        !.ann = SelectSeq(@, LAMBDA a : ~IsAttached(a, item))])

GroupFold(item) ==
    /\ item \in w.items
    /\ nextId' = nextId
    /\ Saving([w EXCEPT !.folded = IF item \in @ THEN @ \ {item} ELSE @ \cup {item}])

-----------------------------------------------------------------------------
(* Messages that do not. *)

Unsaved(c) == w' = c /\ UNCHANGED <<panel, nextId, undo, redo, file>>

(* A click on a drawn annotation, or beside all of them. *)
AnnotationClicked(id) ==
    /\ w.ann[FirstWith(id)].item \in w.items \ w.folded
    /\ menu' = TRUE
    /\ Unsaved([w EXCEPT !.sel = <<id>>])

ClickedBeside ==
    /\ w.sel # <<>>
    /\ menu' = menu
    /\ Unsaved([w EXCEPT !.sel = <<>>])

ToggleCommentVisibility(id) ==
    /\ QuickMenu(id) \/ Listed(id)
    /\ w.ann[FirstWith(id)].visible
    /\ menu' = menu
    /\ Unsaved([w EXCEPT !.ann[FirstWith(id)].box = ~@])

AddCommentMessage(id) ==
    LET k == FirstWith(id)
    IN  /\ w.ann[k].box /\ w.ann[k].visible
        /\ w.ann[k].source < MaxMessages
        /\ menu' = menu
        /\ Unsaved([w EXCEPT !.ann[k].chain = Append(@, w.ann[k].source),
                             !.ann[k].source = @ + 1])

RemoveCommentMessage(id, message) ==
    LET k == FirstWith(id)
    IN  /\ message \in Range(w.ann[k].chain)
        /\ menu' = menu
        /\ Unsaved([w EXCEPT !.ann[k].chain = SelectSeq(@, LAMBDA m : m # message)])

(* render_group_section: "Cycle through group". *)
CycleGroup(k) ==
    /\ panel
    /\ Len(w.groups[k].ids) > 1
    /\ menu' = menu
    /\ Unsaved([w EXCEPT !.groups[k].cycle =
                   IF @ + 1 >= Len(w.groups[k].ids) THEN 0 ELSE @ + 1])

ToggleAnnotationlistVisibility ==
    /\ w' = [w EXCEPT !.list = ~@]
    /\ panel' = ~w.list
    /\ UNCHANGED <<menu, nextId, undo, redo, file>>

Undo ==
    /\ undo # <<>>
    /\ w' = undo[Len(undo)]
    /\ undo' = SubSeq(undo, 1, Len(undo) - 1)
    /\ redo' = Append(redo, w)
    /\ UNCHANGED <<menu, panel, nextId, file>>

Redo ==
    /\ redo # <<>>
    /\ w' = redo[Len(redo)]
    /\ redo' = SubSeq(redo, 1, Len(redo) - 1)
    /\ undo' = Append(undo, w)
    /\ UNCHANGED <<menu, panel, nextId, file>>

(* update_with_waves keeps the annotations; the default group is made only    *)
(* for a waveform that is opened, not for one that is reloaded.               *)
ReloadWaveform ==
    /\ w' = [w EXCEPT !.groups = <<>>, !.list = FALSE, !.sel = <<>>]
    /\ menu' = FALSE
    /\ UNCHANGED <<panel, nextId, undo, redo, file>>

SaveState ==
    /\ file' = <<[w |-> w, panel |-> panel]>>
    /\ UNCHANGED <<w, menu, panel, nextId, undo, redo>>

LoadState ==
    /\ file # <<>>
    /\ w' = file[1].w /\ panel' = file[1].panel
    /\ UNCHANGED <<menu, nextId, undo, redo, file>>

(* The program is started again and opens the waveform. *)
Restart ==
    /\ w' = NewCanvas
    /\ menu' = FALSE /\ panel' = FALSE
    /\ nextId' = 0
    /\ undo' = <<>> /\ redo' = <<>>
    /\ file' = file

-----------------------------------------------------------------------------

Next ==
    \/ \E kind \in Kinds, item \in Items : AnnotationAdded(kind, item)
    \/ \E id \in Ids : RemoveAnnotation(id)
    \/ \E id \in Ids : ToggleAnnotationVisibility(id)
    \/ \E id \in Ids : AnnotationClicked(id)
    \/ \E id \in Ids : ToggleCommentVisibility(id)
    \/ \E id \in Ids : AddCommentMessage(id)
    \/ \E id \in Ids, m \in 0..MaxMessages : RemoveCommentMessage(id, m)
    \/ \E id \in Ids, name \in Names \cup {Ungrouped} : UpdateAnnotationGroup(id, name)
    \/ \E k \in DOMAIN w.groups : SetGroupVisibility(k)
    \/ \E k \in DOMAIN w.groups : CycleGroup(k)
    \/ \E name \in Names : CreateAnnotationGroup(name)
    \/ \E name \in Names \cup {Ungrouped} : DeleteAnnotationGroup(name)
    \/ \E name \in Names : DeleteAllAnnotationInGroup(name)
    \/ \E item \in Items : RemoveItem(item)
    \/ \E item \in Items : GroupFold(item)
    \/ ClickedBeside
    \/ ToggleAnnotationlistVisibility
    \/ Undo
    \/ Redo
    \/ ReloadWaveform
    \/ SaveState
    \/ LoadState
    \/ Restart

Spec == Init /\ [][Next]_vars

-----------------------------------------------------------------------------

(* render_group_section indexes a group with its cycle counter, which other   *)
(* messages, undo and state files shorten the group under: the counter always *)
(* points at an entry of the group, or at the first of an empty one.          *)
CycleInRange ==
    \A k \in DOMAIN w.groups :
        w.groups[k].cycle = 0 \/ w.groups[k].cycle < Len(w.groups[k].ids)

(* "Your annotations will be displayed here." (draw_annotation_list): every   *)
(* annotation is an entry of some group of the list.                          *)
AnnotationsListed ==
    \A id \in Ids : Holding(w.groups, id) # {}

(* get_comment_position unwraps the row of the item a rectangle ends on: the  *)
(* comment box that is drawn for a rectangle has a row that is shown.         *)
CommentBoxDrawable ==
    \A k \in DOMAIN w.ann :
        w.ann[k].kind = "Rect" /\ w.ann[k].box /\ w.ann[k].visible
            => w.ann[k].item \in w.items \ w.folded

(* draw_annotations unwraps the position of the quick menu: the annotation    *)
(* that is selected was clicked since the position was last forgotten.        *)
MenuHasPosition == w.sel # <<>> /\ w.sel[1] \in Ids => menu

(* "List of unique group names" (WaveData::annotation_groups). *)
GroupNamesUnique ==
    \A j, k \in DOMAIN w.groups : w.groups[j].name = w.groups[k].name => j = k
=============================================================================
