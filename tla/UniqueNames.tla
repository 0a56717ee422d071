---------------------------- MODULE UniqueNames ----------------------------
(***************************************************************************)
(* The names under which variables are listed (variable_name_type.rs):     *)
(* local, global, or the local name with just enough of the scope before   *)
(* it to tell it from the other variables on display.  A variable is       *)
(* [path, name], the path a sequence of scopes; scopes are numbers, so     *)
(* that the order in which the paths are sorted is theirs.  A shown name   *)
(* is [cut, scope, name, index]: cut is the ellipsis.                      *)
(***************************************************************************)
EXTENDS Naturals, Sequences, FiniteSets, SequencesExt, TLC

NameTypes == {"Local", "Unique", "Global"}

(* An item on display is [variable, type].                                 *)
DisplayName(cut, scope, name) == [cut |-> cut, scope |-> scope, name |-> name, index |-> <<>>]

PathLess(a, b) ==
    \/ \E k \in 1..Len(b) : /\ \A j \in 1..(k - 1) : j <= Len(a) /\ a[j] = b[j]
                            /\ k > Len(a) \/ (k <= Len(a) /\ a[k] < b[k])

CommonPrefixLen(a, b) ==
    CHOOSE n \in 0..Len(a) :
        /\ n <= Len(b) /\ \A j \in 1..n : a[j] = b[j]
        /\ n + 1 \in DOMAIN a /\ n + 1 \in DOMAIN b => a[n + 1] # b[n + 1]

(* A plausible slip: as many scopes as it shares are taken to be enough.    *)
Mut_Need(entries, i) ==
    LET shared == {CommonPrefixLen(entries[i], entries[j]) : j \in {i - 1, i + 1} \cap DOMAIN entries}
    IN CHOOSE n \in shared \cup {0} : \A m \in shared : m <= n

(* How many scopes the i-th of the sorted reversed paths needs: one more   *)
(* than it shares with either neighbour.                                   *)
Need(entries, i) ==
    LET before == IF i > 1 THEN {CommonPrefixLen(entries[i], entries[i - 1]) + 1} ELSE {}
        after == IF i < Len(entries) THEN {CommonPrefixLen(entries[i], entries[i + 1]) + 1} ELSE {}
    IN CHOOSE n \in before \cup after \cup {0} : \A m \in before \cup after : m <= n

(* compute_minimal_display_map: variables -> shown name.                   *)
ComputeMinimalDisplayMap(variables) ==
    LET group(v) == {w \in variables : w.name = v.name}
        entries(v) == SortSeq(SetToSeq({Reverse(w.path) : w \in group(v)}), PathLess)
        shown(v) ==
            LET path == Reverse(v.path)
                i == CHOOSE k \in DOMAIN entries(v) : entries(v)[k] = path
                need == Need(entries(v), i)
                take == IF need < Len(path) THEN need ELSE Len(path)
            IN IF Cardinality(group(v)) = 1 \/ need = 0 \/ path = <<>>
               THEN DisplayName(FALSE, <<>>, v.name)
               ELSE DisplayName(take < Len(path), Reverse(SubSeq(path, 1, take)), v.name)
    IN [v \in variables |-> shown(v)]

(* compute_variable_display_names: indices are appended when the setting   *)
(* says so and the waveform knows one.                                     *)
ComputeVariableDisplayNames(items, withIndex, index) ==
    LET minimal == ComputeMinimalDisplayMap({items[i].variable : i \in DOMAIN items})
        name(item) ==
            CASE item.type = "Local" -> DisplayName(FALSE, <<>>, item.variable.name)
              [] item.type = "Global" -> DisplayName(FALSE, item.variable.path, item.variable.name)
              [] item.type = "Unique" -> minimal[item.variable]
    IN [i \in DOMAIN items |->
            IF withIndex THEN [name(items[i]) EXCEPT !.index = index[items[i].variable]]
            ELSE name(items[i])]

(* force_variable_name_type and change_variable_name_type: all variables,  *)
(* or those picked; a change of one variable renames the others.           *)
ForceVariableNameType(items, type) == [i \in DOMAIN items |-> [items[i] EXCEPT !.type = type]]
ChangeVariableNameType(items, picked, type) ==
    [i \in DOMAIN items |-> IF i \in picked THEN [items[i] EXCEPT !.type = type] ELSE items[i]]

(* Two variables are never listed under the same name, as long as neither  *)
(* was set to its local name.                                              *)
NamesTellApart(items) ==
    LET names == ComputeVariableDisplayNames(items, FALSE, <<>>) IN
    \A i, j \in DOMAIN items :
        /\ "Local" \notin {items[i].type, items[j].type}
        /\ items[i].variable # items[j].variable
        => names[i] # names[j]
=============================================================================
