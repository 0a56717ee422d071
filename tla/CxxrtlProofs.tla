----------------------------- MODULE CxxrtlProofs -----------------------------
(***************************************************************************)
(* Answers of the simulation reach the callbacks of their commands, what   *)
(* is waited for was asked for, and every variable shows its own value,    *)
(* for any number of variables, commands under way and times.              *)
(*                                                                         *)
(* The inductive invariant has two parts.  The answers that arrived and    *)
(* the commands under way match the first callbacks, in order, and all of  *)
(* them while the connection lasts.  Every list of variables that is on    *)
(* its way, known to the simulation or being decoded is a start of the     *)
(* list of all that was ever loaded: so a sample and the list it was asked *)
(* for with agree where both have a variable.                              *)
(***************************************************************************)
EXTENDS Cxxrtl, SequenceTheorems, FiniteSetTheorems, WellFoundedInduction, TLAPS

BoundsNat == MaxCommands \in Nat /\ MaxFills \in Nat

\* The cache of a list that is refused waits for good: what waits was asked for
\* when the simulation refuses no list.
ListCommands == {"list_scopes", "list_items", "list_items of module"}
ListsNotRefused == Refused \cap ListCommands = {}
ListsAwaited == ListsNotRefused => WaitingWasAsked

-----------------------------------------------------------------------------
(* The inductive invariant *)

Kinds == ListCommands \cup {"get_simulation_status", "pause_simulation", "run_simulation",
                            "reference_items", "query_interval"}
Modes == {"paused", "running", "finished"}
Lists == Seq(Variables)
CommandType == [kind : Kinds, arg : Nat, signals : Lists]
MessageType == [type : {"response", "error", "event"}, kind : Kinds \cup {"event"},
                mode : Modes, time : Nat, reference : Lists]
StatusType == [mode : Modes, time : Nat]
CacheSound(x) == Len(x.prev) <= 1 /\ (x.state = "Filled" => x.prev # <<>>)
CacheType == [state : {"Uncached", "Waiting", "Filled"},
              prev : Seq(BOOLEAN \cup Nat \cup StatusType)]
FillType == [variables : Lists, reference : Lists, upto : Nat]

CachesTyped ==
  /\ cache \in [Caches -> CacheType]
  /\ \A c \in Caches : /\ Len(cache[c].prev) <= 1
                       /\ cache[c].state = "Filled" => Known(c)
  /\ Known("status") => cache["status"].prev[1] \in StatusType

Types ==
  /\ CachesTyped
  /\ loaded \in Lists
  /\ callbacks \in Seq(CommandType) /\ Len(callbacks) <= MaxCommands
  /\ cs \in Seq(CommandType) /\ sc \in Seq(MessageType)
  /\ fills \subseteq FillType /\ IsFiniteSet(fills) /\ Cardinality(fills) <= MaxFills
  /\ connected \in BOOLEAN
  /\ sim \in [time : Nat, mode : Modes, until : Nat, reference : Lists]

\* s is a start of t.
StartOf(s, t) == Len(s) <= Len(t) /\ \A i \in 1..Len(s) : s[i] = t[i]

\* Every list of variables is a start of the one that grows.
ListsOf(all) ==
  /\ \A i \in DOMAIN callbacks : StartOf(callbacks[i].signals, all)
  /\ \A i \in DOMAIN cs : StartOf(cs[i].signals, all)
  /\ \A i \in DOMAIN sc : StartOf(sc[i].reference, all)
  /\ \A f \in fills : StartOf(f.variables, all) /\ StartOf(f.reference, all)
  /\ StartOf(sim.reference, all)

\* The answers in a queue whose first n messages come from the simulation.
AnswersIn(queue, n) == {i \in DOMAIN queue : i > n \/ queue[i].type # "event"}

\* The answers are, in order, those of the first m callbacks, at place.
PairedAt(queue, n, calls, m, place) ==
  /\ place \in [1..m -> AnswersIn(queue, n)]
  /\ \A i \in AnswersIn(queue, n) : \E k \in 1..m : place[k] = i
  /\ \A k \in 1..m : queue[place[k]].kind = calls[k].kind
  /\ \A k, l \in 1..m : l < k => place[l] < place[k]
Paired(queue, n, calls, m) == \E place : PairedAt(queue, n, calls, m, place)

Matched ==
  \E m \in 0..Len(callbacks) : /\ connected => m = Len(callbacks)
                               /\ Paired(sc \o cs, Len(sc), callbacks, m)

\* Errors are the answers to commands that are refused.
ErrorsRefused == \A i \in DOMAIN sc : sc[i].type = "error" => sc[i].kind \in Refused

IInv ==
  /\ Types
  /\ ListsOf(loaded)
  /\ Matched
  /\ ErrorsRefused /\ (~connected => cs = <<>>)
  /\ ListsAwaited
  /\ ValuesOfTheirVariable

-----------------------------------------------------------------------------
(* Answers and callbacks in order *)

\* A set of numbers that is not empty has a least one.
LEMMA LeastNumber ==
  ASSUME NEW T, T \subseteq Nat, T # {}
  PROVE  \E k \in T : \A j \in T : k <= j
<1>1. PICK k \in T : \A j \in T : ~(<<j, k>> \in OpToRel(<, Nat))
  BY NatLessThanWellFounded, WFMin
<1>2. \A j \in T : ~(j < k)
  BY <1>1 DEF OpToRel
<1>3. QED
  BY <1>2

\* Commands are sent: they come last in the queue and last among the callbacks.
LEMMA PairedSent ==
  ASSUME NEW S, NEW T, NEW q \in Seq(S), NEW n \in 0..Len(q), NEW calls \in Seq(T),
         NEW m \in Nat, m = Len(calls), NEW more \in Seq(S), more \in Seq(T),
         Paired(q, n, calls, m)
  PROVE  Paired(q \o more, n, calls \o more, Len(calls \o more))
<1>1. PICK place : PairedAt(q, n, calls, m, place)
  BY DEF Paired
<1>2. PICK w \in Nat : w = Len(q) /\ DOMAIN q = 1..w
  OBVIOUS
<1>3. PICK p \in Nat : p = Len(more)
  OBVIOUS
<1>4. PICK r, c : r = q \o more /\ c = calls \o more
  OBVIOUS
<1>5. /\ DOMAIN r = 1..(w + p) /\ Len(c) = m + p
      /\ \A i \in 1..w : r[i] = q[i]
      /\ \A i \in 1..p : r[w + i] = more[i] /\ c[m + i] = more[i]
      /\ \A i \in 1..m : c[i] = calls[i]
  <2>1. DOMAIN r = 1..(w + p) /\ Len(c) = m + p
    BY <1>2, <1>3, <1>4
  <2>2. \A i \in 1..w : r[i] = q[i]
    BY <1>2, <1>4
  <2>3. \A i \in 1..p : r[w + i] = more[i]
    BY <1>2, <1>3, <1>4
  <2>4. \A i \in 1..p : c[m + i] = more[i]
    BY <1>3, <1>4
  <2>5. \A i \in 1..m : c[i] = calls[i]
    BY <1>4
  <2>6. QED
    BY <2>1, <2>2, <2>3, <2>4, <2>5
<1>6. n \in Nat /\ n <= w
  BY <1>2
<1>7. PICK new : new = [k \in 1..(m + p) |-> IF k <= m THEN place[k] ELSE w + (k - m)]
  OBVIOUS
<1>8. \A k \in 1..m : place[k] \in AnswersIn(q, n)
  BY <1>1 DEF PairedAt
<1>9. \A i \in AnswersIn(q, n) : i \in 1..w
  BY <1>2 DEF AnswersIn
<1>10. \A k \in 1..m : /\ k \in 1..(m + p) /\ new[k] = place[k]
                       /\ r[place[k]] = q[place[k]] /\ c[k] = calls[k]
  BY <1>5, <1>7, <1>8, <1>9
<1>11. \A k \in 1..(m + p) : k \notin 1..m =>
         k - m \in 1..p /\ k = m + (k - m) /\ new[k] = w + (k - m)
  BY <1>7
<1>12. \A k \in 1..(m + p) : k \notin 1..m =>
         r[new[k]] = more[k - m] /\ c[k] = more[k - m]
  BY <1>5, <1>11
<1>13. \A i : i \in AnswersIn(r, n) <=> i \in AnswersIn(q, n) \/ i \in (w + 1)..(w + p)
  <2>1. \A i \in 1..(w + p) : i \in 1..w \/ i \in (w + 1)..(w + p)
    OBVIOUS
  <2>2. \A i \in (w + 1)..(w + p) : i \in 1..(w + p) /\ i > n
    BY <1>6
  <2>3. \A i \in 1..w : i \in 1..(w + p)
    OBVIOUS
  <2>4. QED
    BY <1>2, <1>5, <2>1, <2>2, <2>3 DEF AnswersIn
<1>14. new \in [1..(m + p) -> AnswersIn(r, n)]
  <2>1. ASSUME NEW k \in 1..(m + p)
        PROVE  new[k] \in AnswersIn(r, n)
    <3>1. CASE k \in 1..m
      BY <1>8, <1>10, <1>13, <3>1
    <3>2. CASE k \notin 1..m
      <4>1. w + (k - m) \in (w + 1)..(w + p)
        BY <1>11, <3>2
      <4>2. QED
        BY <1>11, <1>13, <3>2, <4>1
    <3>3. QED
      BY <3>1, <3>2
  <2>2. QED
    BY <1>7, <2>1
<1>15. \A i \in AnswersIn(r, n) : \E k \in 1..(m + p) : new[k] = i
  <2>1. ASSUME NEW i \in AnswersIn(q, n)
        PROVE  \E k \in 1..(m + p) : new[k] = i
    <3>1. PICK k \in 1..m : place[k] = i
      BY <1>1 DEF PairedAt
    <3>2. QED
      BY <1>10, <3>1
  <2>2. ASSUME NEW i \in (w + 1)..(w + p)
        PROVE  \E k \in 1..(m + p) : new[k] = i
    <3>1. PICK k : k = m + (i - w)
      OBVIOUS
    <3>2. k \in 1..(m + p) /\ k \notin 1..m /\ i = w + (k - m)
      BY <3>1
    <3>3. QED
      BY <1>11, <3>2
  <2>3. QED
    BY <1>13, <2>1, <2>2
<1>16. \A k \in 1..(m + p) : r[new[k]].kind = c[k].kind
  <2>1. ASSUME NEW k \in 1..(m + p)
        PROVE  r[new[k]].kind = c[k].kind
    <3>1. CASE k \in 1..m
      <4>1. q[place[k]].kind = calls[k].kind
        BY <1>1, <3>1 DEF PairedAt
      <4>2. r[new[k]] = q[place[k]] /\ c[k] = calls[k]
        BY <1>10, <3>1
      <4>3. QED
        BY <4>1, <4>2
    <3>2. CASE k \notin 1..m
      BY <1>12, <3>2
    <3>3. QED
      BY <3>1, <3>2
  <2>2. QED
    BY <2>1
<1>17. \A k, l \in 1..(m + p) : l < k => new[l] < new[k]
  <2>1. ASSUME NEW k \in 1..(m + p), NEW l \in 1..(m + p), l < k
        PROVE  new[l] < new[k]
    <3>1. CASE k \in 1..m
      <4>1. l \in 1..m
        BY <2>1, <3>1
      <4>2. QED
        BY <1>1, <1>10, <2>1, <3>1, <4>1 DEF PairedAt
    <3>2. CASE k \notin 1..m /\ l \in 1..m
      <4>1. new[l] \in 1..w
        <5>1. place[l] \in AnswersIn(q, n)
          BY <1>8, <3>2
        <5>2. place[l] \in 1..w
          BY <1>9, <5>1
        <5>3. QED
          BY <1>10, <3>2, <5>2
      <4>2. k - m \in 1..p /\ new[k] = w + (k - m)
        BY <1>11, <3>2
      <4>3. QED
        BY <4>1, <4>2
    <3>3. CASE k \notin 1..m /\ l \notin 1..m
      BY <1>11, <2>1, <3>3
    <3>4. QED
      BY <3>1, <3>2, <3>3
  <2>2. QED
    BY <2>1
<1>18. PairedAt(r, n, c, m + p, new)
  BY <1>14, <1>15, <1>16, <1>17 DEF PairedAt
<1>19. QED
  BY <1>4, <1>5, <1>18 DEF Paired

\* The answers move in the queue, in the same order: the same callbacks meet them.
LEMMA PairedMoved ==
  ASSUME NEW q, NEW n, NEW r, NEW l, NEW calls, NEW m \in Nat, NEW f,
         Paired(q, n, calls, m),
         \A i \in AnswersIn(q, n) : f[i] \in AnswersIn(r, l) /\ r[f[i]].kind = q[i].kind,
         \A i, j \in AnswersIn(q, n) : i < j => f[i] < f[j],
         \A j \in AnswersIn(r, l) : \E i \in AnswersIn(q, n) : f[i] = j
  PROVE  Paired(r, l, calls, m)
<1>1. PICK place : PairedAt(q, n, calls, m, place)
  BY DEF Paired
<1>2. PICK A, B : A = AnswersIn(q, n) /\ B = AnswersIn(r, l)
  OBVIOUS
<1>3. \A k \in 1..m : place[k] \in A
  BY <1>1, <1>2 DEF PairedAt
<1>4. PICK new : new = [k \in 1..m |-> f[place[k]]]
  OBVIOUS
<1>5. new \in [1..m -> B]
  BY <1>2, <1>3, <1>4
<1>6. \A j \in B : \E k \in 1..m : new[k] = j
  BY <1>1, <1>2, <1>4 DEF PairedAt
<1>7. \A k \in 1..m : r[new[k]].kind = calls[k].kind
  BY <1>1, <1>2, <1>3, <1>4 DEF PairedAt
<1>8. \A k, j \in 1..m : j < k => new[j] < new[k]
  BY <1>1, <1>2, <1>3, <1>4 DEF PairedAt
<1>9. QED
  BY <1>2, <1>5, <1>6, <1>7, <1>8 DEF PairedAt, Paired

\* The first message is an answer: it is the answer of the first callback.
LEMMA PairedAnswered ==
  ASSUME NEW S, NEW T, NEW q \in Seq(S), NEW n \in 1..Len(q), NEW calls \in Seq(T),
         NEW m \in 0..Len(calls), Paired(q, n, calls, m), q[1].type # "event"
  PROVE  /\ m \in 1..Len(calls) /\ q[1].kind = calls[1].kind
         /\ m - 1 \in 0..Len(Tail(calls)) /\ Paired(Tail(q), n - 1, Tail(calls), m - 1)
<1>1. PICK place : PairedAt(q, n, calls, m, place)
  BY DEF Paired
<1>2. PICK w \in Nat : w = Len(q) /\ DOMAIN q = 1..w
  OBVIOUS
<1>3. PICK x \in Nat : x = Len(calls)
  OBVIOUS
<1>4. n \in Nat /\ m \in Nat /\ 1 <= n /\ n <= w /\ m <= x
  BY <1>2, <1>3
<1>5. 1 \in AnswersIn(q, n) /\ \A i \in AnswersIn(q, n) : i \in 1..w
  BY <1>2, <1>4 DEF AnswersIn
<1>6. \A k \in 1..m : place[k] \in AnswersIn(q, n) /\ place[k] \in 1..w
  BY <1>1, <1>5 DEF PairedAt
<1>7. PICK first \in 1..m : place[first] = 1
  BY <1>1, <1>5 DEF PairedAt
<1>8. 1 \in 1..m
  BY <1>4, <1>7
<1>9. place[1] = 1
  <2>1. CASE first = 1
    BY <1>7, <2>1
  <2>2. CASE first # 1
    <3>1. 1 < first
      BY <1>7, <2>2
    <3>2. place[1] < place[first]
      BY <1>1, <1>7, <1>8, <3>1 DEF PairedAt
    <3>3. QED
      BY <1>6, <1>7, <1>8, <3>2
  <2>3. QED
    BY <2>1, <2>2
<1>10. q[1].kind = calls[1].kind
  BY <1>1, <1>8, <1>9 DEF PairedAt
<1>11. PICK r, c : r = Tail(q) /\ c = Tail(calls)
  OBVIOUS
<1>12. /\ DOMAIN r = 1..(w - 1) /\ \A i \in 1..(w - 1) : r[i] = q[i + 1]
       /\ Len(c) = x - 1 /\ \A i \in 1..(x - 1) : c[i] = calls[i + 1]
  BY <1>2, <1>3, <1>4, <1>8, <1>11
<1>13. \A i : i \in AnswersIn(r, n - 1) <=> i \in 1..(w - 1) /\ i + 1 \in AnswersIn(q, n)
  <2>1. \A i \in 1..(w - 1) : i + 1 \in 1..w /\ (i > n - 1 <=> i + 1 > n)
    BY <1>4
  <2>2. QED
    BY <1>2, <1>12, <2>1 DEF AnswersIn
<1>14. PICK new : new = [k \in 1..(m - 1) |-> place[k + 1] - 1]
  OBVIOUS
<1>15. \A k \in 1..(m - 1) : k + 1 \in 1..m /\ k \in 1..(x - 1) /\ place[k + 1] \in 1..w /\ place[k + 1] > 1
  <2>1. ASSUME NEW k \in 1..(m - 1)
        PROVE  k + 1 \in 1..m /\ 1 < k + 1 /\ k \in 1..(x - 1)
    BY <1>4
  <2>2. \A k \in 1..(m - 1) : place[1] < place[k + 1]
    BY <1>1, <1>8, <2>1 DEF PairedAt
  <2>3. QED
    BY <1>6, <1>9, <2>1, <2>2
<1>16. \A k \in 1..(m - 1) : new[k] = place[k + 1] - 1 /\ new[k] \in 1..(w - 1) /\ new[k] + 1 = place[k + 1]
  BY <1>4, <1>14, <1>15
<1>17. new \in [1..(m - 1) -> AnswersIn(r, n - 1)]
  BY <1>6, <1>13, <1>14, <1>15, <1>16
<1>18. \A i \in AnswersIn(r, n - 1) : \E k \in 1..(m - 1) : new[k] = i
  <2>1. ASSUME NEW i \in AnswersIn(r, n - 1)
        PROVE  \E k \in 1..(m - 1) : new[k] = i
    <3>1. i \in 1..(w - 1) /\ i + 1 \in AnswersIn(q, n)
      BY <1>13
    <3>2. PICK k \in 1..m : place[k] = i + 1
      BY <1>1, <3>1 DEF PairedAt
    <3>3. k # 1
      BY <1>9, <3>1, <3>2
    <3>4. k - 1 \in 1..(m - 1) /\ (k - 1) + 1 = k
      BY <1>4, <3>3
    <3>5. new[k - 1] = i
      BY <1>16, <3>1, <3>2, <3>4
    <3>6. QED
      BY <3>4, <3>5
  <2>2. QED
    BY <2>1
<1>19. \A k \in 1..(m - 1) : r[new[k]].kind = c[k].kind
  <2>1. ASSUME NEW k \in 1..(m - 1)
        PROVE  r[new[k]].kind = c[k].kind
    <3>1. q[place[k + 1]].kind = calls[k + 1].kind
      BY <1>1, <1>15 DEF PairedAt
    <3>2. r[new[k]] = q[place[k + 1]] /\ c[k] = calls[k + 1]
      BY <1>12, <1>15, <1>16
    <3>3. QED
      BY <3>1, <3>2
  <2>2. QED
    BY <2>1
<1>20. \A k, l \in 1..(m - 1) : l < k => new[l] < new[k]
  <2>1. ASSUME NEW k \in 1..(m - 1), NEW l \in 1..(m - 1), l < k
        PROVE  new[l] < new[k]
    <3>1. PICK i, j : i = l + 1 /\ j = k + 1
      OBVIOUS
    <3>2. i \in 1..m /\ j \in 1..m /\ i < j
      BY <1>15, <2>1, <3>1
    <3>3. place[i] < place[j]
      BY <1>1, <3>2 DEF PairedAt
    <3>4. new[l] = place[i] - 1 /\ new[k] = place[j] - 1
      BY <1>16, <3>1
    <3>5. QED
      BY <1>6, <3>2, <3>3, <3>4
  <2>2. QED
    BY <2>1
<1>21. Paired(r, n - 1, c, m - 1)
  BY <1>17, <1>18, <1>19, <1>20 DEF PairedAt, Paired
<1>22. m \in 1..x /\ m - 1 \in 0..(x - 1)
  BY <1>4, <1>8
<1>23. QED
  BY <1>3, <1>10, <1>11, <1>12, <1>21, <1>22

\* The commands under way are lost: the answers that arrived are those of the
\* first callbacks still.
LEMMA PairedCut ==
  ASSUME NEW S, NEW q \in Seq(S), NEW more \in Seq(S), NEW calls, NEW m \in Nat,
         Paired(q \o more, Len(q), calls, m)
  PROVE  \E l \in 0..m : Paired(q, Len(q), calls, l)
<1>1. PICK place : PairedAt(q \o more, Len(q), calls, m, place)
  BY DEF Paired
<1>2. PICK w \in Nat : w = Len(q) /\ DOMAIN q = 1..w
  OBVIOUS
<1>3. PICK p \in Nat : p = Len(more)
  OBVIOUS
<1>4. PICK r : r = q \o more
  OBVIOUS
<1>5. DOMAIN r = 1..(w + p) /\ \A i \in 1..w : i \in 1..(w + p) /\ r[i] = q[i]
  BY <1>2, <1>3, <1>4
<1>6. \A i : i \in AnswersIn(q, w) <=> i \in AnswersIn(r, w) /\ i \in 1..w
  BY <1>2, <1>5 DEF AnswersIn
<1>7. \A k \in 1..m : place[k] \in AnswersIn(r, w) /\ place[k] \in 1..(w + p)
  BY <1>1, <1>2, <1>4, <1>5 DEF PairedAt, AnswersIn
<1>8. PICK l \in 0..m : \A k \in 1..m : place[k] <= w <=> k <= l
  <2>1. PICK Later : Later = {k \in 1..m : place[k] > w}
    OBVIOUS
  <2>2. CASE Later = {}
    <3>1. \A k \in 1..m : place[k] <= w
      BY <1>7, <2>1, <2>2
    <3>2. m \in 0..m /\ \A k \in 1..m : k <= m
      OBVIOUS
    <3>3. QED
      BY <3>1, <3>2
  <2>3. CASE Later # {}
    <3>1. PICK k \in Later : \A j \in Later : k <= j
      <4>1. Later \subseteq Nat
        BY <2>1
      <4>2. QED
        BY <2>3, <4>1, LeastNumber
    <3>2. k \in 1..m /\ place[k] > w
      BY <2>1
    <3>3. \A j \in 1..m : j < k => place[j] <= w
      BY <1>7, <2>1, <3>1, <3>2
    <3>4. \A j \in 1..m : j > k => place[j] > w
      BY <1>1, <1>7, <3>2 DEF PairedAt
    <3>5. k - 1 \in 0..m /\ \A j \in 1..m : place[j] <= w <=> j <= k - 1
      BY <1>7, <3>2, <3>3, <3>4
    <3>6. QED
      BY <3>5
  <2>4. QED
    BY <2>2, <2>3
<1>9. PICK new : new = [k \in 1..l |-> place[k]]
  OBVIOUS
<1>10. \A k \in 1..l : k \in 1..m /\ new[k] = place[k] /\ place[k] \in AnswersIn(q, w)
  BY <1>6, <1>7, <1>8, <1>9
<1>11. PairedAt(q, w, calls, l, new)
  <2>1. new \in [1..l -> AnswersIn(q, w)]
    BY <1>9, <1>10
  <2>2. \A i \in AnswersIn(q, w) : \E k \in 1..l : new[k] = i
    <3>1. ASSUME NEW i \in AnswersIn(q, w)
          PROVE  \E k \in 1..l : new[k] = i
      <4>1. i \in AnswersIn(r, w) /\ i \in 1..w
        BY <1>6
      <4>2. PICK k \in 1..m : place[k] = i
        BY <1>1, <1>2, <1>4, <4>1 DEF PairedAt
      <4>3. k \in 1..l
        BY <1>8, <4>1, <4>2
      <4>4. QED
        BY <1>10, <4>2, <4>3
    <3>2. QED
      BY <3>1
  <2>3. \A k \in 1..l : q[new[k]].kind = calls[k].kind
    <3>1. ASSUME NEW k \in 1..l
          PROVE  q[new[k]].kind = calls[k].kind
      <4>1. r[place[k]].kind = calls[k].kind
        BY <1>1, <1>4, <1>10 DEF PairedAt
      <4>2. r[place[k]] = q[place[k]] /\ new[k] = place[k]
        BY <1>5, <1>6, <1>10
      <4>3. QED
        BY <4>1, <4>2
    <3>2. QED
      BY <3>1
  <2>4. \A k, j \in 1..l : j < k => new[j] < new[k]
    BY <1>1, <1>10 DEF PairedAt
  <2>5. QED
    BY <2>1, <2>2, <2>3, <2>4 DEF PairedAt
<1>12. QED
  BY <1>2, <1>11 DEF Paired

-----------------------------------------------------------------------------
(* Lists, and the caches *)

\* A start of a start is a start.
LEMMA StartOfLater ==
  ASSUME NEW s \in Lists, NEW t \in Lists, NEW u \in Lists, StartOf(s, t), StartOf(t, u)
  PROVE  StartOf(s, u)
<1>1. QED
  BY DEF StartOf, Lists

\* What the lists are starts of may grow.
LEMMA ListsLater ==
  ASSUME Types, ListsOf(loaded), NEW all \in Lists, StartOf(loaded, all)
  PROVE  ListsOf(all)
<1>1. \A s \in Lists : StartOf(s, loaded) => StartOf(s, all)
  BY StartOfLater DEF Types
<1>2. /\ \A i \in DOMAIN callbacks : callbacks[i] \in CommandType
      /\ \A i \in DOMAIN cs : cs[i] \in CommandType
      /\ \A i \in DOMAIN sc : sc[i] \in MessageType
      /\ \A f \in fills : f \in FillType
  BY DEF Types
<1>3. \A command \in CommandType : command.signals \in Lists
  BY DEF CommandType
<1>4. \A m \in MessageType : m.reference \in Lists
  BY DEF MessageType
<1>5. \A f \in FillType : f.variables \in Lists /\ f.reference \in Lists
  BY DEF FillType
<1>6. sim.reference \in Lists
  BY DEF Types
<1>7. QED
  BY <1>1, <1>2, <1>3, <1>4, <1>5, <1>6 DEF ListsOf

\* The command that fills a cache of the hierarchy.
ListKind(c) ==
  CASE c = "scopes" -> "list_scopes" [] c = "items" -> "list_items"
    [] c = "module" -> "list_items of module"
ListCaches == {"scopes", "items", "module"}

\* A cache waits only if it did, or is asked for now.
LEMMA FetchCaches ==
  ASSUME CachesTyped, NEW asked \in SUBSET Caches, cache' = Fetch(asked)
  PROVE  /\ CachesTyped'
         /\ \A c \in Caches : cache'[c].state = "Waiting"
                                => cache[c].state = "Waiting" \/ (c \in asked /\ Needed(c))
<1>1. ASSUME NEW c \in Caches
      PROVE  /\ cache'[c] \in CacheType /\ cache'[c].prev = cache[c].prev
             /\ cache'[c].state = cache[c].state
                \/ (c \in asked /\ Needed(c) /\ cache'[c].state = "Waiting")
  <2>1. cache[c] \in CacheType
    BY DEF CachesTyped
  <2>2. PICK x : x = [cache[c] EXCEPT !.state = "Waiting"]
    OBVIOUS
  <2>3. x \in CacheType /\ x.prev = cache[c].prev /\ x.state = "Waiting"
    BY <2>1, <2>2 DEF CacheType
  <2>4. cache'[c] = IF c \in asked /\ Needed(c) THEN x ELSE cache[c]
    BY <2>2 DEF Fetch
  <2>5. QED
    BY <2>1, <2>3, <2>4
<1>2. cache' \in [Caches -> CacheType]
  BY <1>1 DEF Fetch
<1>3. \A c \in Caches : Len(cache'[c].prev) <= 1 /\ (Known(c)' <=> Known(c))
  BY <1>1 DEF CachesTyped, Known
<1>4. \A c \in Caches : cache'[c].state = "Filled" => Known(c)'
  BY <1>1, <1>3 DEF CachesTyped
<1>5. "status" \in Caches
  BY DEF Caches
<1>6. Known("status")' => cache'["status"].prev[1] \in StatusType
  BY <1>1, <1>3, <1>5 DEF CachesTyped
<1>7. QED
  BY <1>1, <1>2, <1>3, <1>4, <1>6 DEF CachesTyped

\* A status that arrives fills its cache, and the samples are asked for anew.
LEMMA StatusCaches ==
  ASSUME CachesTyped, NEW status \in StatusType, StatusUpdate(status)
  PROVE  CachesTyped' /\ \A c \in ListCaches : cache'[c] = cache[c]
<1>1. PICK old, x, y : /\ old = cache["query"] /\ x = Filled(status) /\ y = MakeUncached(old)
  OBVIOUS
<1>2. /\ cache \in [Caches -> CacheType] /\ old \in CacheType
      /\ "status" \in Caches /\ "query" \in Caches
  BY <1>1 DEF CachesTyped, Caches
<1>3. x \in CacheType /\ x.prev = <<status>> /\ x.prev # <<>> /\ Len(x.prev) = 1
  BY <1>1 DEF Filled, CacheType
<1>4. y \in CacheType /\ y.prev = old.prev /\ y.state = "Uncached"
  BY <1>1, <1>2 DEF MakeUncached, CacheType
<1>5. cache' = [cache EXCEPT !["status"] = x, !["query"] = y]
  BY <1>1 DEF StatusUpdate
<1>6. /\ cache' \in [Caches -> CacheType] /\ cache'["status"] = x /\ cache'["query"] = y
      /\ \A c \in Caches : c \notin {"status", "query"} => cache'[c] = cache[c]
  BY <1>2, <1>3, <1>4, <1>5
<1>7. \A c \in Caches : CacheSound(cache'[c])
  <2>1. \A c \in Caches : CacheSound(cache[c])
    BY DEF CachesTyped, Known, CacheSound
  <2>2. CacheSound(x)
    BY <1>3 DEF CacheSound
  <2>3. CacheSound(y)
    BY <1>1, <1>2, <1>4, <2>1 DEF CacheSound
  <2>4. QED
    BY <1>6, <2>1, <2>2, <2>3
<1>8. cache'["status"].prev[1] \in StatusType
  BY <1>3, <1>6
<1>9. \A c \in ListCaches : c \in Caches /\ c \notin {"status", "query"}
  BY DEF ListCaches, Caches
<1>10. QED
  BY <1>6, <1>7, <1>8, <1>9 DEF CachesTyped, Known, CacheSound

\* One cache other than the status is filled, or made uncached.
LEMMA OtherCaches ==
  ASSUME CachesTyped, NEW k \in Caches, k # "status", NEW x \in CacheType, Len(x.prev) <= 1,
         x.state = "Filled" => x.prev # <<>>, cache' = [cache EXCEPT ![k] = x]
  PROVE  CachesTyped' /\ \A c \in Caches : cache'[c] = IF c = k THEN x ELSE cache[c]
<1>1. /\ cache' \in [Caches -> CacheType]
      /\ \A c \in Caches : cache'[c] = IF c = k THEN x ELSE cache[c]
  BY DEF CachesTyped
<1>2. "status" \in Caches
  BY DEF Caches
<1>3. cache'["status"] = cache["status"]
  BY <1>1, <1>2
<1>4. QED
  BY <1>1, <1>3 DEF CachesTyped, Known

\* The callback of a list fills its cache; no callback makes one wait.
LEMMA CallbackCaches ==
  ASSUME CachesTyped, NEW cb \in CommandType, NEW m \in MessageType, Callback(cb, m)
  PROVE  /\ CachesTyped'
         /\ \A c \in ListCaches : cache'[c].state = "Waiting"
                                    => cache[c].state = "Waiting" /\ cb.kind # ListKind(c)
<1>1. /\ cb.kind \in Kinds /\ cb.arg \in Nat /\ m.mode \in Modes /\ m.time \in Nat
      /\ \A c \in ListCaches : c \in Caches /\ c # "query"
      /\ {"scopes", "items", "module", "query"} \subseteq Caches
  BY DEF CommandType, MessageType, ListCaches, Caches
<1>2. \A data \in BOOLEAN \cup Nat : /\ Filled(data) \in CacheType /\ Len(Filled(data).prev) <= 1
                                     /\ Filled(data).state = "Filled" /\ Filled(data).prev # <<>>
  <2>1. ASSUME NEW data \in BOOLEAN \cup Nat
        PROVE  <<data>> \in Seq(BOOLEAN \cup Nat \cup StatusType) /\ Len(<<data>>) = 1
    OBVIOUS
  <2>2. QED
    BY <2>1 DEF Filled, CacheType
<1>3. ASSUME NEW k \in ListCaches, cache' = [cache EXCEPT ![k] = Filled(TRUE)], cb.kind = ListKind(k)
      PROVE  /\ CachesTyped'
             /\ \A c \in ListCaches : cache'[c].state = "Waiting"
                                        => cache[c].state = "Waiting" /\ cb.kind # ListKind(c)
  <2>1. TRUE \in BOOLEAN \cup Nat /\ k \in Caches /\ k # "status"
    BY DEF ListCaches, Caches
  <2>2. PICK x : x = Filled(TRUE)
    OBVIOUS
  <2>3. x \in CacheType /\ Len(x.prev) <= 1 /\ x.state = "Filled" /\ x.prev # <<>>
    BY <1>2, <2>1, <2>2
  <2>4. CachesTyped' /\ \A c \in Caches : cache'[c] = IF c = k THEN x ELSE cache[c]
    BY <1>3, <2>1, <2>2, <2>3, OtherCaches
  <2>5. \A c \in ListCaches : c # k => ListKind(c) # ListKind(k)
    BY DEF ListCaches, ListKind
  <2>6. QED
    BY <1>1, <1>3, <2>3, <2>4, <2>5
<1>4. ASSUME cb.kind \notin ListCommands, CachesTyped', \A c \in ListCaches : cache'[c] = cache[c]
      PROVE  \A c \in ListCaches : cache'[c].state = "Waiting"
                                     => cache[c].state = "Waiting" /\ cb.kind # ListKind(c)
  <2>1. \A c \in ListCaches : ListKind(c) \in ListCommands
    BY DEF ListCaches, ListKind, ListCommands
  <2>2. QED
    BY <1>4, <2>1
<1>5. ASSUME NEW x \in CacheType, Len(x.prev) <= 1, x.state = "Filled" => x.prev # <<>>,
             cb.kind \notin ListCommands, cache' = [cache EXCEPT !["query"] = x]
      PROVE  CachesTyped' /\ \A c \in ListCaches : cache'[c] = cache[c]
  <2>1. "query" \in Caches /\ "query" # "status"
    BY <1>1
  <2>2. CachesTyped' /\ \A c \in Caches : cache'[c] = IF c = "query" THEN x ELSE cache[c]
    BY <1>5, <2>1, OtherCaches
  <2>3. QED
    BY <1>1, <2>2
<1>6. CASE cb.kind = "list_scopes"
  <2>1. cache' = [cache EXCEPT !["scopes"] = Filled(TRUE)]
    BY <1>6 DEF Callback
  <2>2. QED
    BY <1>3, <1>6, <2>1 DEF ListCaches, ListKind
<1>7. CASE cb.kind = "list_items"
  <2>1. cache' = [cache EXCEPT !["items"] = Filled(TRUE)]
    BY <1>7 DEF Callback
  <2>2. QED
    BY <1>3, <1>7, <2>1 DEF ListCaches, ListKind
<1>8. CASE cb.kind = "list_items of module"
  <2>1. cache' = [cache EXCEPT !["module"] = Filled(TRUE)]
    BY <1>8 DEF Callback
  <2>2. QED
    BY <1>3, <1>8, <2>1 DEF ListCaches, ListKind
<1>9. CASE cb.kind \in {"get_simulation_status", "pause_simulation"}
  <2>1. \E mode \in Modes : StatusUpdate([mode |-> mode, time |-> m.time])
    BY <1>1, <1>9 DEF Callback, Modes
  <2>2. \A mode \in Modes : [mode |-> mode, time |-> m.time] \in StatusType
    BY <1>1 DEF StatusType
  <2>3. CachesTyped' /\ \A c \in ListCaches : cache'[c] = cache[c]
    BY <2>1, <2>2, StatusCaches
  <2>4. QED
    BY <1>4, <1>9, <2>3 DEF ListCommands
<1>10. CASE cb.kind = "run_simulation"
  <2>1. PICK x : x = Filled([mode |-> "running", time |-> 0])
    OBVIOUS
  <2>2. cache' = [cache EXCEPT !["status"] = x]
    BY <1>10, <2>1 DEF Callback
  <2>3. [mode |-> "running", time |-> 0] \in StatusType
    BY DEF StatusType, Modes
  <2>4. /\ x \in CacheType /\ x.prev[1] \in StatusType /\ x.prev # <<>> /\ Len(x.prev) = 1
    BY <2>1, <2>3 DEF Filled, CacheType
  <2>5. "status" \in Caches /\ \A c \in ListCaches : c # "status"
    BY DEF Caches, ListCaches
  <2>6. /\ cache' \in [Caches -> CacheType]
        /\ \A c \in Caches : cache'[c] = IF c = "status" THEN x ELSE cache[c]
    BY <2>2, <2>4, <2>5 DEF CachesTyped
  <2>7. CachesTyped'
    <3>1. (\A c \in Caches : CacheSound(cache[c])) /\ CacheSound(x)
      BY <2>4 DEF CachesTyped, Known, CacheSound
    <3>2. \A c \in Caches : CacheSound(cache'[c])
      BY <2>6, <3>1
    <3>3. cache'["status"].prev[1] \in StatusType
      BY <2>4, <2>5, <2>6
    <3>4. QED
      BY <2>6, <3>2, <3>3 DEF CachesTyped, Known, CacheSound
  <2>8. \A c \in ListCaches : cache'[c] = cache[c]
    BY <1>1, <2>5, <2>6
  <2>9. QED
    BY <1>4, <1>10, <2>7, <2>8 DEF ListCommands
<1>11. CASE cb.kind = "reference_items"
  <2>1. PICK old, x : old = cache["query"] /\ x = MakeUncached(old)
    OBVIOUS
  <2>2. cache' = [cache EXCEPT !["query"] = x]
    BY <1>11, <2>1 DEF Callback
  <2>3. old \in CacheType /\ Len(old.prev) <= 1
    BY <1>1, <2>1 DEF CachesTyped
  <2>4. x \in CacheType /\ Len(x.prev) <= 1 /\ x.state # "Filled"
    BY <2>1, <2>3 DEF MakeUncached, CacheType
  <2>5. CachesTyped' /\ \A c \in ListCaches : cache'[c] = cache[c]
    BY <1>5, <1>11, <2>2, <2>4 DEF ListCommands
  <2>6. QED
    BY <1>4, <1>11, <2>5 DEF ListCommands
<1>12. CASE cb.kind = "query_interval"
  <2>1. PICK x : x = Filled(cb.arg)
    OBVIOUS
  <2>2. cache' = [cache EXCEPT !["query"] = x]
    BY <1>12, <2>1 DEF Callback
  <2>3. x \in CacheType /\ Len(x.prev) <= 1 /\ x.prev # <<>>
    BY <1>1, <1>2, <2>1
  <2>4. CachesTyped' /\ \A c \in ListCaches : cache'[c] = cache[c]
    BY <1>5, <1>12, <2>2, <2>3 DEF ListCommands
  <2>5. QED
    BY <1>4, <1>12, <2>4 DEF ListCommands
<1>13. QED
  BY <1>1, <1>6, <1>7, <1>8, <1>9, <1>10, <1>11, <1>12 DEF Kinds, ListCommands

-----------------------------------------------------------------------------
(* The steps of the user interface *)

Members(s) == {s[i] : i \in DOMAIN s}

\* What two sequences have, one after the other.
LEMMA MembersOfBoth ==
  ASSUME NEW S, NEW s \in Seq(S), NEW t \in Seq(S)
  PROVE  /\ s \o t \in Seq(S) /\ Members(s \o t) = Members(s) \cup Members(t)
         /\ Len(s \o t) = Len(s) + Len(t)
<1>1. PICK n \in Nat : n = Len(s) /\ DOMAIN s = 1..n
  OBVIOUS
<1>2. PICK m \in Nat : m = Len(t) /\ DOMAIN t = 1..m
  OBVIOUS
<1>3. PICK r : r = s \o t
  OBVIOUS
<1>4. /\ r \in Seq(S) /\ Len(r) = n + m /\ DOMAIN r = 1..(n + m)
      /\ \A i \in 1..n : r[i] = s[i] /\ i \in 1..(n + m)
      /\ \A i \in 1..m : r[n + i] = t[i] /\ n + i \in 1..(n + m)
  BY <1>1, <1>2, <1>3
<1>5. \A i \in 1..(n + m) : i \in 1..n \/ (i - n \in 1..m /\ i = n + (i - n))
  OBVIOUS
<1>6. Members(r) = Members(s) \cup Members(t)
  <2>1. ASSUME NEW x \in Members(r)
        PROVE  x \in Members(s) \cup Members(t)
    <3>1. PICK i \in 1..(n + m) : r[i] = x
      BY <1>4 DEF Members
    <3>2. CASE i \in 1..n
      BY <1>1, <1>4, <3>1, <3>2 DEF Members
    <3>3. CASE i \notin 1..n
      <4>1. i - n \in 1..m /\ r[i] = t[i - n]
        BY <1>4, <1>5, <3>3
      <4>2. QED
        BY <1>2, <3>1, <4>1 DEF Members
    <3>4. QED
      BY <3>2, <3>3
  <2>2. \A x \in Members(s) : x \in Members(r)
    BY <1>1, <1>4 DEF Members
  <2>3. \A x \in Members(t) : x \in Members(r)
    BY <1>2, <1>4 DEF Members
  <2>4. QED
    BY <2>1, <2>2, <2>3
<1>7. QED
  BY <1>1, <1>2, <1>3, <1>4, <1>6

\* Every list that waits was asked for, by the members of the callbacks.
LEMMA WaitingByMembers ==
  WaitingWasAsked <=> \A c \in ListCaches : cache[c].state = "Waiting"
                        => \E cb \in Members(callbacks) : cb.kind = ListKind(c)
<1>1. \A k : (\E i \in DOMAIN callbacks : callbacks[i].kind = k)
              <=> \E cb \in Members(callbacks) : cb.kind = k
  BY DEF Members
<1>2. WaitingWasAsked <=> \A c \in ListCaches : cache[c].state = "Waiting"
                            => \E i \in DOMAIN callbacks : callbacks[i].kind = ListKind(c)
  BY DEF WaitingWasAsked, ListCaches, ListKind
<1>3. QED
  BY <1>1, <1>2

\* Commands are sent with their callbacks, and the caches wait for them.
LEMMA SentInvariant ==
  ASSUME BoundsNat, IInv, NEW commands \in Seq(CommandType), RunCommands(commands),
         UNCHANGED <<values, fills, server>>,
         loaded' \in Lists, StartOf(loaded, loaded'),
         \A x \in Members(commands) : StartOf(x.signals, loaded'),
         CachesTyped',
         \A c \in ListCaches : cache'[c].state = "Waiting"
           => \/ cache[c].state = "Waiting"
              \/ \E x \in Members(commands) : x.kind = ListKind(c)
  PROVE  IInv'
<1>1. /\ callbacks \in Seq(CommandType) /\ cs \in Seq(CommandType) /\ sc \in Seq(MessageType)
      /\ connected \in BOOLEAN
  BY DEF IInv, Types
<1>2. /\ callbacks' = callbacks \o commands
      /\ cs' = (IF connected THEN cs \o commands ELSE cs)
      /\ Len(callbacks) + Len(commands) <= MaxCommands
      /\ UNCHANGED <<sc, sim, connected, fills, values>>
  BY DEF RunCommands, server
<1>3. /\ callbacks' \in Seq(CommandType) /\ Members(callbacks') = Members(callbacks) \cup Members(commands)
      /\ Len(callbacks') = Len(callbacks) + Len(commands)
      /\ cs' \in Seq(CommandType) /\ Members(cs') \subseteq Members(cs) \cup Members(commands)
  BY <1>1, <1>2, MembersOfBoth
<1>4. Types'
  BY <1>2, <1>3 DEF IInv, Types
<1>5. ListsOf(loaded)'
  <2>1. ListsOf(loaded')
    BY ListsLater DEF IInv
  <2>2. /\ \A x \in Members(callbacks) : StartOf(x.signals, loaded')
        /\ \A x \in Members(cs) : StartOf(x.signals, loaded')
    BY <2>1 DEF ListsOf, Members
  <2>3. /\ \A x \in Members(callbacks') : StartOf(x.signals, loaded')
        /\ \A x \in Members(cs') : StartOf(x.signals, loaded')
    BY <1>3, <2>2
  <2>4. /\ \A i \in DOMAIN callbacks' : StartOf(callbacks'[i].signals, loaded')
        /\ \A i \in DOMAIN cs' : StartOf(cs'[i].signals, loaded')
    BY <2>3 DEF Members
  <2>5. QED
    BY <1>2, <2>1, <2>4 DEF ListsOf
<1>6. Matched'
  <2>1. PICK m \in 0..Len(callbacks) : /\ connected => m = Len(callbacks)
                                       /\ Paired(sc \o cs, Len(sc), callbacks, m)
    BY DEF IInv, Matched
  <2>2. CASE connected
    <3>1. m = Len(callbacks) /\ m \in Nat
      BY <1>1, <2>1, <2>2
    <3>2. PICK S : S = CommandType \cup MessageType
      OBVIOUS
    <3>3. sc \in Seq(S) /\ cs \in Seq(S) /\ commands \in Seq(S)
      BY <1>1, <3>2
    <3>4. sc \o cs \in Seq(S) /\ Len(sc) \in 0..Len(sc \o cs)
      BY <3>3
    <3>5. Paired((sc \o cs) \o commands, Len(sc), callbacks \o commands, Len(callbacks \o commands))
      BY <1>1, <2>1, <3>1, <3>3, <3>4, PairedSent
    <3>6. (sc \o cs) \o commands = sc \o (cs \o commands)
      BY <3>3, ConcatAssociative
    <3>7. Len(callbacks') \in 0..Len(callbacks')
      BY <1>3
    <3>8. QED
      BY <1>2, <2>2, <3>5, <3>6, <3>7 DEF Matched
  <2>3. CASE ~connected
    <3>1. m \in 0..Len(callbacks') /\ m \in Nat /\ \A k \in 1..m : callbacks'[k] = callbacks[k]
      BY <1>1, <1>2, <2>1
    <3>2. cs' = cs /\ sc' = sc
      BY <1>2, <2>3
    <3>3. Paired(sc \o cs, Len(sc), callbacks', m)
      BY <2>1, <3>1 DEF Paired, PairedAt
    <3>4. QED
      BY <1>2, <2>3, <3>1, <3>2, <3>3 DEF Matched
  <2>4. QED
    BY <2>2, <2>3
<1>7. ListsAwaited'
  <2> SUFFICES ASSUME ListsNotRefused PROVE WaitingWasAsked'
    BY DEF ListsAwaited
  <2>1. \A c \in ListCaches : cache[c].state = "Waiting"
          => \E cb \in Members(callbacks) : cb.kind = ListKind(c)
    BY WaitingByMembers DEF IInv, ListsAwaited
  <2>2. \A c \in ListCaches : cache'[c].state = "Waiting"
          => \E cb \in Members(callbacks') : cb.kind = ListKind(c)
    BY <1>3, <2>1
  <2>3. \A c \in ListCaches : cache'[c].state = "Waiting"
          => \E i \in DOMAIN callbacks' : callbacks'[i].kind = ListKind(c)
    BY <2>2 DEF Members
  <2>4. QED
    BY <2>3 DEF WaitingWasAsked, ListCaches, ListKind
<1>8. (ErrorsRefused /\ ValuesOfTheirVariable)' /\ (~connected' => cs' = <<>>)
  BY <1>2 DEF IInv, ErrorsRefused, ValuesOfTheirVariable
<1>9. QED
  BY <1>4, <1>5, <1>6, <1>7, <1>8 DEF IInv

\* A request is one command, when its cache is uncached.
LEMMA RequestMembers ==
  ASSUME NEW c, NEW command \in CommandType
  PROVE  /\ Request(c, command) \in Seq(CommandType)
         /\ Members(Request(c, command)) = IF Needed(c) THEN {command} ELSE {}
<1>1. /\ Members(<<>>) = {} /\ <<>> \in Seq(CommandType)
      /\ Members(<<command>>) = {command} /\ <<command>> \in Seq(CommandType)
  BY DEF Members
<1>2. CASE Needed(c)
  BY <1>1, <1>2 DEF Request
<1>3. CASE ~Needed(c)
  BY <1>1, <1>3 DEF Request
<1>4. QED
  BY <1>2, <1>3

\* A command without variables.
LEMMA CommandTyped ==
  ASSUME NEW kind \in Kinds
  PROVE  /\ Command(kind) \in CommandType /\ Command(kind).kind = kind
         /\ Command(kind).signals = <<>> /\ \A t \in Lists : StartOf(Command(kind).signals, t)
<1>1. Command(kind) \in CommandType /\ Command(kind).kind = kind /\ Command(kind).signals = <<>>
  BY DEF Command, CommandType, Lists
<1>2. QED
  BY <1>1 DEF StartOf, Lists

\* Every list is a start of itself.
LEMMA StartOfItself ==
  ASSUME NEW s \in Lists
  PROVE  StartOf(s, s)
<1>1. QED
  BY DEF StartOf, Lists

\* Caches are asked for, with a command for every list that is needed.
LEMMA AskInvariant ==
  ASSUME BoundsNat, IInv, NEW asked \in SUBSET Caches, cache' = Fetch(asked),
         NEW commands \in Seq(CommandType), RunCommands(commands),
         UNCHANGED <<loaded, values, fills, server>>,
         \A x \in Members(commands) : StartOf(x.signals, loaded),
         \A c \in asked \cap ListCaches : Needed(c)
           => \E x \in Members(commands) : x.kind = ListKind(c)
  PROVE  IInv'
<1>1. CachesTyped /\ loaded \in Lists
  BY DEF IInv, Types
<1>2. /\ CachesTyped'
      /\ \A c \in Caches : cache'[c].state = "Waiting"
                             => cache[c].state = "Waiting" \/ (c \in asked /\ Needed(c))
  BY <1>1, FetchCaches
<1>3. \A c \in ListCaches : c \in Caches
  BY DEF ListCaches, Caches
<1>4. \A c \in ListCaches : cache'[c].state = "Waiting"
        => \/ cache[c].state = "Waiting"
           \/ \E x \in Members(commands) : x.kind = ListKind(c)
  BY <1>2, <1>3
<1>5. loaded' \in Lists /\ StartOf(loaded, loaded')
  BY <1>1, StartOfItself
<1>6. QED
  BY <1>2, <1>4, <1>5, SentInvariant

\* The hierarchy asks for one list.
LEMMA ListInvariant ==
  ASSUME BoundsNat, IInv, GetScopes \/ FetchItemsInModule \/ FetchItem
  PROVE  IInv'
<1>1. PICK c \in ListCaches : /\ cache' = Fetch({c}) /\ RunCommands(Request(c, Command(ListKind(c))))
                              /\ UNCHANGED <<loaded, values, fills, server>>
  BY DEF GetScopes, FetchItemsInModule, FetchItem, ListCaches, ListKind
<1>2. ListKind(c) \in Kinds /\ {c} \in SUBSET Caches /\ loaded \in Lists
  BY DEF ListCaches, ListKind, Kinds, ListCommands, Caches, IInv, Types
<1>3. PICK command : command = Command(ListKind(c))
  OBVIOUS
<1>4. command \in CommandType /\ command.kind = ListKind(c) /\ StartOf(command.signals, loaded)
  BY <1>2, <1>3, CommandTyped
<1>5. /\ Request(c, command) \in Seq(CommandType)
      /\ Members(Request(c, command)) = IF Needed(c) THEN {command} ELSE {}
  BY <1>4, RequestMembers
<1>6. \A x \in Members(Request(c, command)) : StartOf(x.signals, loaded)
  BY <1>4, <1>5
<1>7. \A k \in {c} \cap ListCaches : Needed(k)
        => \E x \in Members(Request(c, command)) : x.kind = ListKind(k)
  BY <1>4, <1>5
<1>8. QED
  BY <1>1, <1>2, <1>3, <1>5, <1>6, <1>7, AskInvariant

\* Samples are asked for once the status and the items are known.
LEMMA QueryInvariant ==
  ASSUME BoundsNat, IInv, QueryVariable
  PROVE  IInv'
<1>1. /\ {"status"} \in SUBSET Caches /\ {"status", "items"} \in SUBSET Caches
      /\ {"status", "items", "query"} \in SUBSET Caches
      /\ "items" \in ListCaches /\ ListKind("items") = "list_items"
      /\ \A c \in ListCaches : c \notin {"status", "query"}
  BY DEF Caches, ListCaches, ListKind
<1>2. loaded \in Lists /\ CachesTyped /\ StartOf(loaded, loaded)
  BY StartOfItself DEF IInv, Types
<1>3. PICK a, b, d : /\ a = Command("get_simulation_status") /\ b = Command("list_items")
                     /\ d = [kind |-> "query_interval", arg |-> cache["status"].prev[1].time,
                             signals |-> loaded]
  OBVIOUS
<1>4. PICK status, items, query : /\ status = Request("status", a) /\ items = Request("items", b)
                                  /\ query = Request("query", d)
  OBVIOUS
<1>5. /\ a \in CommandType /\ b \in CommandType /\ b.kind = "list_items"
      /\ StartOf(a.signals, loaded) /\ StartOf(b.signals, loaded)
  BY <1>2, <1>3, CommandTyped DEF Kinds, ListCommands
<1>6. Known("status") => d \in CommandType
  <2>1. ASSUME Known("status")
        PROVE  cache["status"].prev[1].time \in Nat
    BY <1>2, <2>1 DEF CachesTyped, StatusType
  <2>2. QED
    BY <1>2, <1>3, <2>1 DEF CommandType, Kinds
<1>7. d.signals = loaded
  BY <1>3
<1>8. /\ status \in Seq(CommandType) /\ Members(status) \subseteq {a}
      /\ items \in Seq(CommandType) /\ Members(items) \subseteq {b}
      /\ Needed("items") => b \in Members(items)
  BY <1>4, <1>5, RequestMembers
<1>9. Known("status") => query \in Seq(CommandType) /\ Members(query) \subseteq {d}
  BY <1>4, <1>6, RequestMembers
<1>10. /\ UNCHANGED <<loaded, values, fills, server>>
       /\ \/ cache' = Fetch({"status"}) /\ RunCommands(status)
          \/ cache' = Fetch({"status", "items"}) /\ RunCommands(status \o items)
          \/ /\ Known("status") /\ cache' = Fetch({"status", "items", "query"})
             /\ RunCommands(status \o items \o query)
  BY <1>3, <1>4, Zenon DEF QueryVariable
<1>11. /\ status \o items \in Seq(CommandType) /\ Members(status \o items) = Members(status) \cup Members(items)
  BY <1>8, MembersOfBoth
<1>12. ASSUME Known("status")
       PROVE  /\ status \o items \o query \in Seq(CommandType)
              /\ Members(status \o items \o query) = Members(status \o items) \cup Members(query)
  <2>1. PICK both : both = status \o items
    OBVIOUS
  <2>2. both \in Seq(CommandType) /\ query \in Seq(CommandType)
    BY <1>9, <1>11, <1>12, <2>1
  <2>3. both \o query \in Seq(CommandType) /\ Members(both \o query) = Members(both) \cup Members(query)
    BY <2>2, MembersOfBoth
  <2>4. QED
    BY <2>1, <2>3
<1>13. CASE cache' = Fetch({"status"}) /\ RunCommands(status)
  <2>1. \A x \in Members(status) : StartOf(x.signals, loaded)
    BY <1>5, <1>8
  <2>2. \A c \in {"status"} \cap ListCaches : Needed(c)
          => \E x \in Members(status) : x.kind = ListKind(c)
    BY <1>1
  <2>3. QED
    BY <1>1, <1>8, <1>10, <1>13, <2>1, <2>2, AskInvariant
<1>14. CASE cache' = Fetch({"status", "items"}) /\ RunCommands(status \o items)
  <2>1. \A x \in Members(status \o items) : StartOf(x.signals, loaded)
    BY <1>5, <1>8, <1>11
  <2>2. \A c \in {"status", "items"} \cap ListCaches : Needed(c)
          => \E x \in Members(status \o items) : x.kind = ListKind(c)
    BY <1>1, <1>5, <1>8, <1>11
  <2>3. QED
    BY <1>1, <1>10, <1>11, <1>14, <2>1, <2>2, AskInvariant
<1>15. CASE /\ Known("status") /\ cache' = Fetch({"status", "items", "query"})
            /\ RunCommands(status \o items \o query)
  <2>1. \A x \in Members(status \o items \o query) : StartOf(x.signals, loaded)
    BY <1>2, <1>5, <1>7, <1>8, <1>9, <1>11, <1>12, <1>15
  <2>2. \A c \in {"status", "items", "query"} \cap ListCaches : Needed(c)
          => \E x \in Members(status \o items \o query) : x.kind = ListKind(c)
    BY <1>1, <1>5, <1>8, <1>11, <1>12, <1>15
  <2>3. QED
    BY <1>1, <1>10, <1>12, <1>15, <2>1, <2>2, AskInvariant
<1>16. QED
  BY <1>10, <1>13, <1>14, <1>15

\* The simulation is let run, or stopped.
LEMMA RunInvariant ==
  ASSUME BoundsNat, IInv, Unpause \/ Pause
  PROVE  IInv'
<1>1. loaded \in Lists /\ CachesTyped /\ StartOf(loaded, loaded)
  BY StartOfItself DEF IInv, Types
<1>2. PICK a, b, d, from :
        /\ a = Command("get_simulation_status") /\ b = Command("pause_simulation")
        /\ from = IF Known("status") THEN cache["status"].prev[1].time ELSE 0
        /\ d = [Command("run_simulation") EXCEPT !.arg = from + 1]
  OBVIOUS
<1>3. /\ a \in CommandType /\ b \in CommandType
      /\ StartOf(a.signals, loaded) /\ StartOf(b.signals, loaded)
  BY <1>1, <1>2, CommandTyped DEF Kinds
<1>4. from \in Nat
  BY <1>1, <1>2 DEF CachesTyped, StatusType
<1>5. d \in CommandType /\ StartOf(d.signals, loaded)
  <2>1. PICK e : e = Command("run_simulation")
    OBVIOUS
  <2>2. e \in CommandType /\ StartOf(e.signals, loaded)
    BY <1>1, <2>1, CommandTyped DEF Kinds
  <2>3. d = [e EXCEPT !.arg = from + 1]
    BY <1>2, <2>1
  <2>4. d \in CommandType /\ d.signals = e.signals
    BY <1>4, <2>2, <2>3 DEF CommandType
  <2>5. QED
    BY <2>2, <2>4
<1>6. CASE Unpause
  <2>1. /\ cache' = Fetch({"status"}) /\ RunCommands(Request("status", a) \o <<d>>)
        /\ UNCHANGED <<loaded, values, fills, server>>
    BY <1>2, <1>6, Zenon DEF Unpause
  <2>2. PICK x, y : x = Request("status", a) /\ y = <<d>>
    OBVIOUS
  <2>3. x \in Seq(CommandType) /\ Members(x) \subseteq {a}
    BY <1>3, <2>2, RequestMembers
  <2>4. y \in Seq(CommandType) /\ Members(y) = {d}
    BY <1>5, <2>2 DEF Members
  <2>5. x \o y \in Seq(CommandType) /\ Members(x \o y) = Members(x) \cup Members(y)
    BY <2>3, <2>4, MembersOfBoth
  <2>6. {"status"} \in SUBSET Caches /\ {"status"} \cap ListCaches = {}
    BY DEF Caches, ListCaches
  <2>7. \A z \in Members(x \o y) : StartOf(z.signals, loaded)
    BY <1>3, <1>5, <2>3, <2>4, <2>5
  <2>8. QED
    BY <2>1, <2>2, <2>5, <2>6, <2>7, AskInvariant
<1>7. CASE Pause
  <2>1. RunCommands(<<b>>) /\ UNCHANGED <<cache, loaded, values, fills, server>>
    BY <1>2, <1>7, Zenon DEF Pause
  <2>2. <<b>> \in Seq(CommandType) /\ Members(<<b>>) = {b}
    BY <1>3 DEF Members
  <2>3. CachesTyped'
    BY <1>1, <2>1 DEF CachesTyped, Known
  <2>4. QED
    BY <1>1, <1>3, <2>1, <2>2, <2>3, SentInvariant
<1>8. QED
  BY <1>6, <1>7

\* The list of what is loaded grows, and is sent as it is now.
LEMMA LoadVariablesInvariant ==
  ASSUME BoundsNat, IInv, NEW v \in Variables, LoadVariables(v)
  PROVE  IInv'
<1>1. loaded \in Lists /\ CachesTyped
  BY DEF IInv, Types
<1>2. PICK all : all = IF v \in {loaded[i] : i \in DOMAIN loaded} THEN loaded ELSE Append(loaded, v)
  OBVIOUS
<1>3. all \in Lists /\ StartOf(loaded, all)
  BY <1>1, <1>2 DEF Lists, StartOf
<1>4. PICK e, d : e = Command("reference_items") /\ d = [e EXCEPT !.signals = all]
  OBVIOUS
<1>5. d \in CommandType /\ d.signals = all
  <2>1. e \in CommandType
    BY <1>4, CommandTyped DEF Kinds
  <2>2. QED
    BY <1>3, <1>4, <2>1 DEF CommandType
<1>6. /\ loaded' = all /\ RunCommands(<<d>>) /\ UNCHANGED <<cache, values, fills, server>>
  BY <1>2, <1>4, Zenon DEF LoadVariables
<1>7. <<d>> \in Seq(CommandType) /\ Members(<<d>>) = {d}
  BY <1>5 DEF Members
<1>8. CachesTyped'
  BY <1>1, <1>6 DEF CachesTyped, Known
<1>9. StartOf(d.signals, loaded')
  BY <1>3, <1>5, <1>6, StartOfItself
<1>10. QED
  BY <1>3, <1>6, <1>7, <1>8, <1>9, SentInvariant

-----------------------------------------------------------------------------
(* The steps of the frame loop: messages that arrived *)

\* The first of what waits in two queues is the first of the first.
LEMMA TailOfBoth ==
  ASSUME NEW S, NEW s \in Seq(S), NEW t \in Seq(S), s # <<>>
  PROVE  /\ Tail(s) \o t = Tail(s \o t) /\ Len(Tail(s)) = Len(s) - 1
         /\ s \o t \in Seq(S) /\ Len(s) \in 1..Len(s \o t) /\ (s \o t)[1] = Head(s)
<1>1. PICK n \in Nat : n = Len(s) /\ DOMAIN s = 1..n /\ n >= 1
  OBVIOUS
<1>2. PICK m \in Nat : m = Len(t) /\ DOMAIN t = 1..m
  OBVIOUS
<1>3. PICK r : r = s \o t
  OBVIOUS
<1>4. /\ r \in Seq(S) /\ Len(r) = n + m /\ r # <<>>
      /\ \A i \in 1..(n + m) : r[i] = IF i <= n THEN s[i] ELSE t[i - n]
  BY <1>1, <1>2, <1>3
<1>5. PICK a : a = Tail(s)
  OBVIOUS
<1>6. a \in Seq(S) /\ Len(a) = n - 1 /\ \A i \in 1..(n - 1) : a[i] = s[i + 1]
  BY <1>1, <1>5
<1>7. PICK x, y : x = a \o t /\ y = Tail(r)
  OBVIOUS
<1>8. /\ x \in Seq(S) /\ Len(x) = (n - 1) + m
      /\ \A i \in 1..((n - 1) + m) : x[i] = IF i <= n - 1 THEN a[i] ELSE t[i - (n - 1)]
  BY <1>1, <1>2, <1>6, <1>7
<1>9. /\ y \in Seq(S) /\ Len(y) = (n + m) - 1
      /\ \A i \in 1..((n + m) - 1) : y[i] = r[i + 1]
  BY <1>1, <1>2, <1>4, <1>7
<1>10. ASSUME NEW i \in 1..((n - 1) + m)
       PROVE  x[i] = y[i]
  <2>1. y[i] = r[i + 1] /\ i + 1 \in 1..(n + m)
    BY <1>1, <1>2, <1>9
  <2>2. CASE i <= n - 1
    <3>1. x[i] = a[i] /\ a[i] = s[i + 1] /\ r[i + 1] = s[i + 1]
      BY <1>1, <1>4, <1>6, <1>8, <2>1, <2>2
    <3>2. QED
      BY <2>1, <3>1
  <2>3. CASE ~(i <= n - 1)
    <3>1. i - (n - 1) = (i + 1) - n /\ ~(i + 1 <= n)
      BY <1>1, <2>3
    <3>2. x[i] = t[i - (n - 1)] /\ r[i + 1] = t[(i + 1) - n]
      BY <1>4, <1>8, <2>1, <2>3, <3>1
    <3>3. QED
      BY <2>1, <3>1, <3>2
  <2>4. QED
    BY <2>2, <2>3
<1>11. x = y
  <2>1. Len(x) = Len(y) /\ \A i \in 1..Len(x) : x[i] = y[i]
    <3>1. Len(x) = (n - 1) + m /\ Len(y) = (n - 1) + m
      BY <1>1, <1>2, <1>8, <1>9
    <3>2. QED
      BY <1>10, <3>1
  <2>2. QED
    BY <1>8, <1>9, <2>1, SeqEqual
<1>12. 1 \in 1..(n + m) /\ n \in 1..(n + m) /\ r[1] = s[1] /\ s[1] = Head(s)
  BY <1>1, <1>2, <1>4
<1>13. QED
  BY <1>1, <1>3, <1>4, <1>5, <1>6, <1>7, <1>11, <1>12

\* What a sequence has: its first and the others.
LEMMA MembersOfTail ==
  ASSUME NEW S, NEW s \in Seq(S), s # <<>>
  PROVE  /\ Head(s) \in S /\ Head(s) = s[1] /\ Tail(s) \in Seq(S) /\ Len(Tail(s)) = Len(s) - 1
         /\ Members(s) = {Head(s)} \cup Members(Tail(s))
<1>1. PICK n \in Nat : n = Len(s) /\ DOMAIN s = 1..n /\ n >= 1
  OBVIOUS
<1>2. PICK a : a = Tail(s)
  OBVIOUS
<1>3. /\ a \in Seq(S) /\ Len(a) = n - 1 /\ DOMAIN a = 1..(n - 1)
      /\ \A i \in 1..(n - 1) : a[i] = s[i + 1] /\ i + 1 \in 1..n
  BY <1>1, <1>2
<1>4. 1 \in 1..n /\ Head(s) = s[1] /\ Head(s) \in S
  BY <1>1
<1>5. \A i \in 1..n : i = 1 \/ (i - 1 \in 1..(n - 1) /\ (i - 1) + 1 = i)
  BY <1>1
<1>6. \A i \in 1..n : s[i] = s[1] \/ \E j \in 1..(n - 1) : a[j] = s[i]
  BY <1>3, <1>5
<1>7. \A x : x \in Members(s) <=> \E i \in 1..n : s[i] = x
  BY <1>1 DEF Members
<1>8. \A x : x \in Members(a) <=> \E j \in 1..(n - 1) : a[j] = x
  BY <1>3 DEF Members
<1>9. \A x \in Members(s) : x = Head(s) \/ x \in Members(a)
  BY <1>4, <1>6, <1>7, <1>8
<1>10. \A x \in Members(a) : x \in Members(s)
  BY <1>3, <1>7, <1>8
<1>11. Head(s) \in Members(s)
  BY <1>4, <1>7
<1>12. Members(s) = {Head(s)} \cup Members(a)
  BY <1>9, <1>10, <1>11
<1>13. QED
  BY <1>1, <1>2, <1>3, <1>4, <1>12

Queued == CommandType \cup MessageType

\* The first message is taken from the queue.
LEMMA TakenInvariant ==
  ASSUME BoundsNat, IInv, sc # <<>>, sc' = Tail(sc),
         UNCHANGED <<loaded, cs, values, connected, sim>>, CachesTyped',
         callbacks' \in Seq(CommandType), Len(callbacks') <= Len(callbacks),
         Members(callbacks') \subseteq Members(callbacks),
         fills' \subseteq FillType, IsFiniteSet(fills'), Cardinality(fills') <= MaxFills,
         \A f \in fills' : StartOf(f.variables, loaded) /\ StartOf(f.reference, loaded),
         Matched', ListsAwaited'
  PROVE  IInv'
<1>1. /\ sc \in Seq(MessageType) /\ callbacks \in Seq(CommandType)
      /\ Len(callbacks) <= MaxCommands
  BY DEF IInv, Types
<1>2. PICK r : r = Tail(sc)
  OBVIOUS
<1>3. r \in Seq(MessageType) /\ Members(r) \subseteq Members(sc)
  BY <1>1, <1>2, MembersOfTail
<1>4. Types'
  <2>1. Len(callbacks') <= MaxCommands
    BY <1>1 DEF BoundsNat
  <2>2. QED
    BY <1>2, <1>3, <2>1 DEF IInv, Types
<1>5. ListsOf(loaded)'
  <2>1. /\ \A x \in Members(callbacks) : StartOf(x.signals, loaded)
        /\ \A x \in Members(sc) : StartOf(x.reference, loaded)
    BY DEF IInv, ListsOf, Members
  <2>2. /\ \A x \in Members(callbacks') : StartOf(x.signals, loaded)
        /\ \A x \in Members(sc') : StartOf(x.reference, loaded)
    BY <1>2, <1>3, <2>1
  <2>3. /\ \A i \in DOMAIN callbacks' : StartOf(callbacks'[i].signals, loaded)
        /\ \A i \in DOMAIN sc' : StartOf(sc'[i].reference, loaded)
    BY <2>2 DEF Members
  <2>4. QED
    BY <2>3 DEF IInv, ListsOf
<1>6. ErrorsRefused'
  <2>1. \A x \in Members(sc) : x.type = "error" => x.kind \in Refused
    BY DEF IInv, ErrorsRefused, Members
  <2>2. \A x \in Members(sc') : x.type = "error" => x.kind \in Refused
    BY <1>2, <1>3, <2>1
  <2>3. QED
    BY <2>2 DEF ErrorsRefused, Members
<1>7. ValuesOfTheirVariable' /\ (~connected' => cs' = <<>>)
  BY DEF IInv, ValuesOfTheirVariable
<1>8. QED
  BY <1>4, <1>5, <1>6, <1>7 DEF IInv

\* An answer is taken with the first callback, whose command it answers.
LEMMA AnswerTaken ==
  ASSUME BoundsNat, IInv, sc # <<>>, Head(sc).type # "event"
  PROVE  /\ callbacks # <<>> /\ Head(sc).kind = Head(callbacks).kind
         /\ sc' = Tail(sc) /\ callbacks' = Tail(callbacks) /\ UNCHANGED <<cs, connected>> => Matched'
<1>1. sc \in Seq(Queued) /\ cs \in Seq(Queued) /\ callbacks \in Seq(CommandType)
  BY DEF IInv, Types, Queued
<1>2. PICK m \in 0..Len(callbacks) : /\ connected => m = Len(callbacks)
                                     /\ Paired(sc \o cs, Len(sc), callbacks, m)
  BY DEF IInv, Matched
<1>3. PICK q, n : q = sc \o cs /\ n = Len(sc)
  OBVIOUS
<1>4. /\ Tail(sc) \o cs = Tail(q) /\ Len(Tail(sc)) = n - 1
      /\ q \in Seq(Queued) /\ n \in 1..Len(q) /\ q[1] = Head(sc)
  BY <1>1, <1>3, TailOfBoth
<1>5. Paired(q, n, callbacks, m) /\ q[1].type # "event"
  BY <1>2, <1>3, <1>4
<1>6. /\ m \in 1..Len(callbacks) /\ q[1].kind = callbacks[1].kind
      /\ m - 1 \in 0..Len(Tail(callbacks)) /\ Paired(Tail(q), n - 1, Tail(callbacks), m - 1)
  BY <1>1, <1>4, <1>5, PairedAnswered
<1>7. callbacks # <<>>
  BY <1>1, <1>6
<1>8. Head(callbacks) = callbacks[1] /\ Len(Tail(callbacks)) = Len(callbacks) - 1
  BY <1>1, <1>7, MembersOfTail
<1>9. ASSUME sc' = Tail(sc), callbacks' = Tail(callbacks), UNCHANGED <<cs, connected>>
      PROVE  Matched'
  <2>1. m - 1 \in 0..Len(callbacks') /\ (connected' => m - 1 = Len(callbacks'))
    BY <1>2, <1>6, <1>8, <1>9
  <2>2. Paired(sc' \o cs', Len(sc'), callbacks', m - 1)
    BY <1>4, <1>6, <1>9
  <2>3. QED
    BY <2>1, <2>2 DEF Matched
<1>10. QED
  BY <1>4, <1>6, <1>7, <1>8, <1>9

\* A report of the simulation is taken: the answers come one place earlier.
LEMMA EventTaken ==
  ASSUME BoundsNat, IInv, sc # <<>>, Head(sc).type = "event", sc' = Tail(sc),
         UNCHANGED <<cs, callbacks, connected>>
  PROVE  Matched'
<1>1. sc \in Seq(Queued) /\ cs \in Seq(Queued) /\ callbacks \in Seq(CommandType)
  BY DEF IInv, Types, Queued
<1>2. PICK m \in 0..Len(callbacks) : /\ connected => m = Len(callbacks)
                                     /\ Paired(sc \o cs, Len(sc), callbacks, m)
  BY DEF IInv, Matched
<1>3. PICK q, n : q = sc \o cs /\ n = Len(sc)
  OBVIOUS
<1>4. /\ Tail(sc) \o cs = Tail(q) /\ Len(Tail(sc)) = n - 1
      /\ q \in Seq(Queued) /\ n \in 1..Len(q) /\ q[1] = Head(sc)
  BY <1>1, <1>3, TailOfBoth
<1>5. PICK w \in Nat : w = Len(q) /\ DOMAIN q = 1..w /\ w >= 1 /\ n \in 1..w
  BY <1>4
<1>6. PICK r : r = Tail(q)
  OBVIOUS
<1>7. DOMAIN r = 1..(w - 1) /\ \A i \in 1..(w - 1) : r[i] = q[i + 1]
  BY <1>4, <1>5, <1>6
<1>8. q[1].type = "event" /\ ~(1 > n)
  BY <1>4, <1>5
<1>9. \A i \in AnswersIn(q, n) : i \in 1..w /\ i # 1
  BY <1>5, <1>8 DEF AnswersIn
<1>10. \A i \in AnswersIn(q, n) : /\ i - 1 \in 1..(w - 1) /\ (i - 1) + 1 = i /\ r[i - 1] = q[i]
                                  /\ i > n <=> i - 1 > n - 1
  BY <1>5, <1>7, <1>9
<1>11. \A i \in AnswersIn(q, n) : i - 1 \in AnswersIn(r, n - 1) /\ r[i - 1].kind = q[i].kind
  BY <1>7, <1>10 DEF AnswersIn
<1>12. \A j \in AnswersIn(r, n - 1) : j + 1 \in AnswersIn(q, n) /\ (j + 1) - 1 = j
  <2>1. \A j \in AnswersIn(r, n - 1) : j \in 1..(w - 1) /\ (j > n - 1 \/ r[j].type # "event")
    BY <1>7 DEF AnswersIn
  <2>2. \A j \in 1..(w - 1) : /\ j + 1 \in 1..w /\ (j + 1) - 1 = j /\ r[j] = q[j + 1]
                              /\ j > n - 1 <=> j + 1 > n
    BY <1>5, <1>7
  <2>3. QED
    BY <1>5, <2>1, <2>2 DEF AnswersIn
<1>13. PICK f : f = [i \in AnswersIn(q, n) |-> i - 1]
  OBVIOUS
<1>14. \A i \in AnswersIn(q, n) : f[i] \in AnswersIn(r, n - 1) /\ r[f[i]].kind = q[i].kind
  BY <1>11, <1>13
<1>15. \A i, j \in AnswersIn(q, n) : i < j => f[i] < f[j]
  BY <1>9, <1>13
<1>16. \A j \in AnswersIn(r, n - 1) : \E i \in AnswersIn(q, n) : f[i] = j
  BY <1>12, <1>13
<1>17. m \in Nat /\ Paired(q, n, callbacks, m)
  BY <1>1, <1>2, <1>3
<1>18. Paired(r, n - 1, callbacks, m)
  BY <1>14, <1>15, <1>16, <1>17, PairedMoved
<1>19. Paired(sc' \o cs', Len(sc'), callbacks', m)
  BY <1>4, <1>6, <1>18
<1>20. QED
  BY <1>2, <1>19 DEF Matched

\* A message is taken; the lists that wait are still asked for.
LEMMA TickInvariant ==
  ASSUME BoundsNat, IInv, Tick
  PROVE  IInv'
<1>1. PICK m : m = Head(sc)
  OBVIOUS
<1>2. /\ sc # <<>> /\ sc' = Tail(sc) /\ UNCHANGED <<loaded, cs, values, connected, sim>>
      /\ CASE m.type = "response" -> Respond(m)
           [] m.type = "error" -> ReportError
           [] m.type = "event" -> /\ StatusUpdate([mode |-> m.mode, time |-> m.time])
                                  /\ UNCHANGED <<callbacks, fills>>
  BY <1>1, Zenon DEF Tick
<1>3. /\ CachesTyped /\ callbacks \in Seq(CommandType) /\ sc \in Seq(MessageType)
      /\ fills \subseteq FillType /\ IsFiniteSet(fills) /\ Cardinality(fills) <= MaxFills
      /\ loaded \in Lists
      /\ \A f \in fills : StartOf(f.variables, loaded) /\ StartOf(f.reference, loaded)
  BY DEF IInv, Types, ListsOf
<1>4. m \in MessageType /\ m = sc[1] /\ 1 \in DOMAIN sc
  BY <1>1, <1>2, <1>3
<1>5. /\ m.type \in {"response", "error", "event"} /\ m.mode \in Modes /\ m.time \in Nat
      /\ m.reference \in Lists /\ StartOf(m.reference, loaded)
  BY <1>4 DEF MessageType, IInv, ListsOf
<1>6. ListsNotRefused => \A c \in ListCaches : cache[c].state = "Waiting"
        => \E cb \in Members(callbacks) : cb.kind = ListKind(c)
  BY WaitingByMembers DEF IInv, ListsAwaited
<1>7. ASSUME ListsNotRefused => \A c \in ListCaches : cache'[c].state = "Waiting"
               => \E cb \in Members(callbacks') : cb.kind = ListKind(c)
      PROVE  ListsAwaited'
  <2> SUFFICES ASSUME ListsNotRefused PROVE WaitingWasAsked'
    BY DEF ListsAwaited
  <2>1. \A c \in ListCaches : cache'[c].state = "Waiting"
          => \E i \in DOMAIN callbacks' : callbacks'[i].kind = ListKind(c)
    BY <1>7 DEF Members
  <2>2. QED
    BY <2>1 DEF WaitingWasAsked, ListCaches, ListKind
<1>8. CASE m.type = "event"
  <2>1. StatusUpdate([mode |-> m.mode, time |-> m.time]) /\ UNCHANGED <<callbacks, fills>>
    BY <1>2, <1>8
  <2>2. [mode |-> m.mode, time |-> m.time] \in StatusType
    BY <1>5 DEF StatusType
  <2>3. CachesTyped' /\ \A c \in ListCaches : cache'[c] = cache[c]
    BY <1>3, <2>1, <2>2, StatusCaches
  <2>4. Matched'
    BY <1>1, <1>2, <1>8, <2>1, EventTaken
  <2>5. ListsAwaited'
    BY <1>6, <1>7, <2>1, <2>3
  <2>6. /\ callbacks' \in Seq(CommandType) /\ Len(callbacks') <= Len(callbacks)
        /\ Members(callbacks') \subseteq Members(callbacks)
    BY <1>3, <2>1
  <2>7. QED
    BY <1>2, <1>3, <2>1, <2>3, <2>4, <2>5, <2>6, TakenInvariant
<1>9. CASE m.type # "event"
  <2>1. /\ callbacks # <<>> /\ m.kind = Head(callbacks).kind
        /\ sc' = Tail(sc) /\ callbacks' = Tail(callbacks) /\ UNCHANGED <<cs, connected>> => Matched'
    BY <1>1, <1>2, <1>9, AnswerTaken
  <2>2. PICK cb, rest : cb = Head(callbacks) /\ rest = Tail(callbacks)
    OBVIOUS
  <2>3. /\ cb \in CommandType /\ cb = callbacks[1] /\ rest \in Seq(CommandType)
        /\ Len(rest) = Len(callbacks) - 1 /\ Members(callbacks) = {cb} \cup Members(rest)
    BY <1>3, <2>1, <2>2, MembersOfTail
  <2>4. 1 \in DOMAIN callbacks
    BY <1>3, <2>1
  <2>5. StartOf(cb.signals, loaded) /\ cb.signals \in Lists
    BY <2>3, <2>4 DEF IInv, ListsOf, CommandType
  <2>6. Len(rest) <= Len(callbacks)
    BY <1>3, <2>3
  <2>7. ASSUME callbacks' = rest, CachesTyped',
               ListsNotRefused => \A c \in ListCaches : cache'[c].state = "Waiting"
                 => cache[c].state = "Waiting" /\ cb.kind # ListKind(c),
               fills' \subseteq FillType, IsFiniteSet(fills'), Cardinality(fills') <= MaxFills,
               \A f \in fills' : StartOf(f.variables, loaded) /\ StartOf(f.reference, loaded)
        PROVE  IInv'
    <3>1. /\ callbacks' \in Seq(CommandType) /\ Len(callbacks') <= Len(callbacks)
          /\ Members(callbacks') \subseteq Members(callbacks)
      BY <2>3, <2>6, <2>7
    <3>2. Matched'
      BY <1>2, <2>1, <2>2, <2>7
    <3>3. ListsAwaited'
      BY <1>6, <1>7, <2>3, <2>7, <3>1
    <3>4. QED
      BY <1>2, <2>7, <3>1, <3>2, <3>3, TakenInvariant
  <2>8. CASE m.type = "response"
    <3>1. callbacks' = rest /\ Callback(cb, m) /\ Populate(cb, m)
      BY <1>2, <2>1, <2>2, <2>8 DEF Respond
    <3>2. /\ CachesTyped'
          /\ \A c \in ListCaches : cache'[c].state = "Waiting"
                                     => cache[c].state = "Waiting" /\ cb.kind # ListKind(c)
      BY <1>3, <1>4, <2>3, <3>1, CallbackCaches
    <3>3. /\ fills' \subseteq FillType /\ IsFiniteSet(fills') /\ Cardinality(fills') <= MaxFills
          /\ \A f \in fills' : StartOf(f.variables, loaded) /\ StartOf(f.reference, loaded)
      <4>1. CASE cb.kind = "query_interval"
        <5>1. PICK g : g = [variables |-> cb.signals, reference |-> m.reference, upto |-> m.time]
          OBVIOUS
        <5>2. /\ g \in FillType /\ StartOf(g.variables, loaded) /\ StartOf(g.reference, loaded)
          BY <1>5, <2>5, <5>1 DEF FillType
        <5>3. fills' = fills \cup {g} /\ Cardinality(fills) < MaxFills
          BY <3>1, <4>1, <5>1 DEF Populate
        <5>4. /\ IsFiniteSet(fills') /\ Cardinality(fills) \in Nat
              /\ Cardinality(fills') = IF g \in fills THEN Cardinality(fills) ELSE Cardinality(fills) + 1
          BY <1>3, <5>3, FS_AddElement, FS_CardinalityType
        <5>5. Cardinality(fills') <= MaxFills
          BY <5>3, <5>4 DEF BoundsNat
        <5>6. QED
          BY <1>3, <5>2, <5>3, <5>4, <5>5
      <4>2. CASE cb.kind # "query_interval"
        <5>1. UNCHANGED fills
          BY <3>1, <4>2 DEF Populate
        <5>2. QED
          BY <1>3, <5>1
      <4>3. QED
        BY <4>1, <4>2
    <3>4. QED
      BY <2>7, <3>1, <3>2, <3>3
  <2>9. CASE m.type = "error"
    <3>1. callbacks' = rest /\ UNCHANGED <<cache, fills>>
      BY <1>2, <2>1, <2>2, <2>9 DEF ReportError
    <3>2. cb.kind \in Refused
      BY <1>4, <2>1, <2>2, <2>9 DEF IInv, ErrorsRefused
    <3>3. \A c \in ListCaches : ListKind(c) \in ListCommands
      BY DEF ListCaches, ListKind, ListCommands
    <3>4. ListsNotRefused => \A c \in ListCaches : cb.kind # ListKind(c)
      BY <3>2, <3>3 DEF ListsNotRefused
    <3>5. CachesTyped'
      BY <1>3, <3>1 DEF CachesTyped, Known
    <3>6. QED
      BY <1>3, <2>7, <3>1, <3>4, <3>5
  <2>10. QED
    BY <1>5, <1>9, <2>8, <2>9
<1>10. QED
  BY <1>8, <1>9

\* Samples are decoded: word i is the value of variable i of both lists.
LEMMA FillInvariant ==
  ASSUME BoundsNat, IInv, NEW f \in fills, Fill(f)
  PROVE  IInv'
<1>1. fills' = fills \ {f} /\ UNCHANGED <<cache, loaded, callbacks, cs, sc, connected, panicked, sim>>
  BY DEF Fill
<1>2. /\ f \in FillType /\ fills \subseteq FillType /\ IsFiniteSet(fills)
      /\ Cardinality(fills) <= MaxFills
      /\ StartOf(f.variables, loaded) /\ StartOf(f.reference, loaded) /\ loaded \in Lists
  BY DEF IInv, Types, ListsOf
<1>3. IsFiniteSet(fills') /\ Cardinality(fills') <= MaxFills
  <2>1. IsFiniteSet(fills') /\ Cardinality(fills') <= Cardinality(fills)
    BY <1>1, <1>2, FS_Subset
  <2>2. Cardinality(fills') \in Nat /\ Cardinality(fills) \in Nat
    BY <1>2, <2>1, FS_CardinalityType
  <2>3. QED
    BY <1>2, <2>1, <2>2 DEF BoundsNat
<1>4. Types'
  <2>1. CachesTyped'
    BY <1>1 DEF IInv, Types, CachesTyped, Known
  <2>2. QED
    BY <1>1, <1>3, <2>1 DEF IInv, Types
<1>5. ListsOf(loaded)'
  BY <1>1 DEF IInv, ListsOf
<1>6. (Matched /\ ErrorsRefused /\ ListsAwaited)' /\ (~connected' => cs' = <<>>)
  BY <1>1 DEF IInv, Matched, ErrorsRefused, ListsAwaited, WaitingWasAsked
<1>7. ValuesOfTheirVariable'
  <2>1. PICK variables, reference, upto :
          variables = f.variables /\ reference = f.reference /\ upto = f.upto
    OBVIOUS
  <2>2. variables \in Seq(Variables) /\ reference \in Seq(Variables) /\ upto \in Nat
    BY <1>2, <2>1 DEF FillType, Lists
  <2>3. ASSUME Len(variables) <= Len(reference), NEW i \in DOMAIN variables
        PROVE  reference[i] = variables[i]
    <3>1. StartOf(variables, loaded) /\ StartOf(reference, loaded)
      BY <1>2, <2>1
    <3>2. i \in 1..Len(variables) /\ i \in 1..Len(reference)
      BY <2>2, <2>3
    <3>3. variables[i] = loaded[i] /\ reference[i] = loaded[i]
      BY <3>1, <3>2 DEF StartOf
    <3>4. QED
      BY <3>3
  <2>4. CASE values' = values
    BY <2>4 DEF IInv, ValuesOfTheirVariable
  <2>5. CASE /\ Len(variables) <= Len(reference)
             /\ values' = [t \in DOMAIN values \cup 0..upto |->
                             IF t > upto THEN values[t]
                             ELSE [v \in {variables[i] : i \in DOMAIN variables} |->
                                      reference[CHOOSE i \in DOMAIN variables : variables[i] = v]]]
    <3>1. PICK row : row = [v \in {variables[i] : i \in DOMAIN variables} |->
                              reference[CHOOSE i \in DOMAIN variables : variables[i] = v]]
      OBVIOUS
    <3>2. \A v \in DOMAIN row : row[v] = v
      BY <2>3, <2>5, <3>1
    <3>3. values' = [t \in DOMAIN values \cup 0..upto |-> IF t > upto THEN values[t] ELSE row]
      BY <2>5, <3>1
    <3>4. ASSUME NEW t \in DOMAIN values', NEW v \in DOMAIN values'[t]
          PROVE  values'[t][v] = v
      <4>1. t \in DOMAIN values \/ t \in 0..upto
        BY <3>3
      <4>2. CASE t > upto
        <5>1. t \in DOMAIN values /\ values'[t] = values[t]
          BY <2>2, <3>3, <4>1, <4>2
        <5>2. QED
          BY <3>4, <5>1 DEF IInv, ValuesOfTheirVariable
      <4>3. CASE ~(t > upto)
        BY <3>2, <3>3, <3>4, <4>3
      <4>4. QED
        BY <4>2, <4>3
    <3>5. QED
      BY <3>4 DEF ValuesOfTheirVariable
  <2>6. QED
    BY <2>1, <2>2, <2>4, <2>5 DEF Fill
<1>8. QED
  BY <1>4, <1>5, <1>6, <1>7 DEF IInv

-----------------------------------------------------------------------------
(* The steps of the simulation *)

\* Messages are put behind those that arrived: the two queues, place by place.
LEMMA PlacesOfBoth ==
  ASSUME NEW S, NEW s \in Seq(S), NEW t \in Seq(S), NEW x \in S
  PROVE  /\ Append(s, x) \in Seq(S) /\ Len(Append(s, x)) = Len(s) + 1
         /\ Members(Append(s, x)) = Members(s) \cup {x}
         /\ DOMAIN (s \o t) = 1..(Len(s) + Len(t))
         /\ DOMAIN (Append(s, x) \o t) = 1..(Len(s) + 1 + Len(t))
         /\ \A i \in 1..Len(s) : (s \o t)[i] = s[i] /\ (Append(s, x) \o t)[i] = s[i]
         /\ (Append(s, x) \o t)[Len(s) + 1] = x
         /\ \A i \in 1..Len(t) : /\ (s \o t)[Len(s) + i] = t[i]
                                 /\ (Append(s, x) \o t)[Len(s) + 1 + i] = t[i]
<1>1. PICK n \in Nat : n = Len(s) /\ DOMAIN s = 1..n
  OBVIOUS
<1>2. PICK m \in Nat : m = Len(t) /\ DOMAIN t = 1..m
  OBVIOUS
<1>3. PICK a : a = Append(s, x)
  OBVIOUS
<1>4. /\ a \in Seq(S) /\ Len(a) = n + 1 /\ DOMAIN a = 1..(n + 1)
      /\ \A i \in 1..n : a[i] = s[i] /\ i \in 1..(n + 1)
      /\ a[n + 1] = x /\ n + 1 \in 1..(n + 1)
  BY <1>1, <1>3
<1>5. \A i \in 1..(n + 1) : i \in 1..n \/ i = n + 1
  OBVIOUS
<1>6. Members(a) = Members(s) \cup {x}
  <2>1. \A y : y \in Members(s) <=> \E i \in 1..n : s[i] = y
    BY <1>1 DEF Members
  <2>2. \A y : y \in Members(a) <=> \E i \in 1..(n + 1) : a[i] = y
    BY <1>4 DEF Members
  <2>3. \A y \in Members(a) : y \in Members(s) \/ y = x
    BY <1>4, <1>5, <2>1, <2>2
  <2>4. (\A y \in Members(s) : y \in Members(a)) /\ x \in Members(a)
    BY <1>4, <2>1, <2>2
  <2>5. QED
    BY <2>3, <2>4
<1>7. PICK q, r : q = s \o t /\ r = a \o t
  OBVIOUS
<1>8. /\ DOMAIN q = 1..(n + m) /\ \A i \in 1..n : q[i] = s[i]
      /\ \A i \in 1..m : q[n + i] = t[i]
  BY <1>1, <1>2, <1>7
<1>9. /\ DOMAIN r = 1..(n + 1 + m) /\ \A i \in 1..(n + 1) : r[i] = a[i]
      /\ \A i \in 1..m : r[n + 1 + i] = t[i]
  BY <1>2, <1>4, <1>7
<1>10. (\A i \in 1..n : r[i] = s[i]) /\ r[n + 1] = x
  BY <1>4, <1>9
<1>11. QED
  BY <1>1, <1>2, <1>3, <1>4, <1>6, <1>7, <1>8, <1>9, <1>10

\* A command becomes its answer: the same place in the two queues.
LEMMA PairedExecuted ==
  ASSUME NEW S, NEW s \in Seq(S), NEW t \in Seq(S), t # <<>>, NEW x \in S,
         x.kind = Head(t).kind, x.type # "event", NEW calls, NEW m \in Nat,
         Paired(s \o t, Len(s), calls, m)
  PROVE  Paired(Append(s, x) \o Tail(t), Len(Append(s, x)), calls, m)
<1>1. PICK n \in Nat : n = Len(s)
  OBVIOUS
<1>2. PICK rest \in Seq(S) : rest = Tail(t)
  <2>1. Tail(t) \in Seq(S)
    OBVIOUS
  <2>2. QED
    BY <2>1
<1>3. PICK p \in Nat : p = Len(rest)
  BY <1>2
<1>4. Len(t) = p + 1 /\ t[1] = Head(t) /\ \A i \in 1..p : rest[i] = t[i + 1]
  BY <1>2, <1>3
<1>5. PICK q, r : q = s \o t /\ r = Append(s, x) \o rest
  OBVIOUS
<1>6. /\ DOMAIN q = 1..(n + (p + 1)) /\ \A i \in 1..n : q[i] = s[i]
      /\ \A i \in 1..(p + 1) : q[n + i] = t[i]
  <2>1. PICK l \in Nat : l = Len(t)
    OBVIOUS
  <2>2. /\ DOMAIN q = 1..(n + l) /\ \A i \in 1..n : q[i] = s[i]
        /\ \A i \in 1..l : q[n + i] = t[i]
    BY <1>1, <1>5, <2>1, PlacesOfBoth
  <2>3. l = p + 1
    BY <1>4, <2>1
  <2>4. QED
    BY <2>2, <2>3
<1>7. /\ DOMAIN r = 1..(n + 1 + p) /\ \A i \in 1..n : r[i] = s[i]
      /\ r[n + 1] = x /\ \A i \in 1..p : r[n + 1 + i] = rest[i]
      /\ Len(Append(s, x)) = n + 1
  BY <1>1, <1>2, <1>3, <1>5, PlacesOfBoth
<1>8. PICK w \in Nat : w = n + 1 + p
  OBVIOUS
<1>9. DOMAIN q = 1..w /\ DOMAIN r = 1..w
  BY <1>6, <1>7, <1>8
<1>10. \A i \in 1..n : i \in 1..w /\ r[i] = q[i]
  BY <1>6, <1>7, <1>8
<1>11. n + 1 \in 1..w /\ r[n + 1] = x /\ q[n + 1] = Head(t)
  <2>1. 1 \in 1..(p + 1)
    OBVIOUS
  <2>2. QED
    BY <1>4, <1>6, <1>7, <1>8, <2>1
<1>12. \A i \in 1..w : i > n + 1 => r[i] = q[i]
  <2>1. ASSUME NEW i \in 1..w, i > n + 1
        PROVE  r[i] = q[i]
    <3>1. PICK j : j = i - (n + 1)
      OBVIOUS
    <3>2. j \in 1..p /\ i = n + 1 + j /\ j + 1 \in 1..(p + 1) /\ i = n + (j + 1)
      BY <1>8, <2>1, <3>1
    <3>3. r[i] = rest[j] /\ q[i] = t[j + 1] /\ rest[j] = t[j + 1]
      BY <1>4, <1>6, <1>7, <3>2
    <3>4. QED
      BY <3>3
  <2>2. QED
    BY <2>1
<1>13. \A i \in 1..w : r[i].kind = q[i].kind
  <2>1. ASSUME NEW i \in 1..w
        PROVE  r[i].kind = q[i].kind
    <3>1. i \in 1..n \/ i = n + 1 \/ i > n + 1
      OBVIOUS
    <3>2. CASE i = n + 1
      <4>1. r[i].kind = x.kind /\ q[i].kind = Head(t).kind
        BY <1>11, <3>2
      <4>2. QED
        BY <4>1
    <3>3. CASE i # n + 1
      BY <1>10, <1>12, <3>1, <3>3
    <3>4. QED
      BY <3>2, <3>3
  <2>2. QED
    BY <2>1
<1>14. \A i \in 1..w : (i > n + 1 \/ r[i].type # "event") <=> (i > n \/ q[i].type # "event")
  <2>1. \A i \in 1..w : i > n + 1 => i > n
    OBVIOUS
  <2>2. \A i \in 1..w : ~(i > n + 1) /\ i > n => i = n + 1
    OBVIOUS
  <2>3. r[n + 1].type # "event"
    BY <1>11
  <2>4. \A i \in 1..w : ~(i > n) => i \in 1..n
    OBVIOUS
  <2>5. QED
    BY <1>10, <2>1, <2>2, <2>3, <2>4
<1>15. AnswersIn(r, n + 1) = AnswersIn(q, n)
  BY <1>9, <1>14 DEF AnswersIn
<1>16. Paired(q, n, calls, m)
  BY <1>1, <1>5
<1>17. PICK place : PairedAt(q, n, calls, m, place)
  BY <1>16 DEF Paired
<1>18. PairedAt(r, n + 1, calls, m, place)
  <2>1. \A k \in 1..m : place[k] \in 1..w
    BY <1>9, <1>17 DEF PairedAt, AnswersIn
  <2>2. QED
    BY <1>13, <1>15, <1>17, <2>1 DEF PairedAt
<1>19. QED
  BY <1>2, <1>5, <1>7, <1>18 DEF Paired

\* A report is no answer: the commands under way move one place on.
LEMMA PairedReported ==
  ASSUME NEW S, NEW s \in Seq(S), NEW t \in Seq(S), NEW x \in S,
         x.type = "event", NEW calls, NEW m \in Nat,
         Paired(s \o t, Len(s), calls, m)
  PROVE  Paired(Append(s, x) \o t, Len(Append(s, x)), calls, m)
<1>1. PICK n \in Nat : n = Len(s)
  OBVIOUS
<1>2. PICK p \in Nat : p = Len(t)
  OBVIOUS
<1>3. PICK q, r : q = s \o t /\ r = Append(s, x) \o t
  OBVIOUS
<1>4. /\ DOMAIN q = 1..(n + p) /\ DOMAIN r = 1..(n + 1 + p)
      /\ \A i \in 1..n : r[i] = q[i]
      /\ r[n + 1] = x /\ \A i \in 1..p : r[n + 1 + i] = q[n + i]
      /\ Len(Append(s, x)) = n + 1
  BY <1>1, <1>2, <1>3, PlacesOfBoth
<1>5. PICK w \in Nat : w = n + p
  OBVIOUS
<1>6. DOMAIN q = 1..w /\ DOMAIN r = 1..(w + 1) /\ n <= w
  BY <1>4, <1>5
<1>7. \A i \in 1..w : i > n => r[i + 1] = q[i] /\ i + 1 > n + 1
  <2>1. ASSUME NEW i \in 1..w, i > n
        PROVE  r[i + 1] = q[i] /\ i + 1 > n + 1
    <3>1. PICK j : j = i - n
      OBVIOUS
    <3>2. j \in 1..p /\ n + j = i /\ n + 1 + j = i + 1 /\ i + 1 > n + 1
      BY <1>5, <2>1, <3>1
    <3>3. r[n + 1 + j] = q[n + j]
      BY <1>4, <3>2
    <3>4. QED
      BY <3>2, <3>3
  <2>2. QED
    BY <2>1
<1>8. \A i : i \in AnswersIn(q, n) <=> i \in 1..w /\ (i > n \/ q[i].type # "event")
  BY <1>6 DEF AnswersIn
<1>9. \A i : i \in AnswersIn(r, n + 1) <=> i \in 1..(w + 1) /\ (i > n + 1 \/ r[i].type # "event")
  BY <1>6 DEF AnswersIn
<1>10. PICK f : f = [i \in AnswersIn(q, n) |-> IF i <= n THEN i ELSE i + 1]
  OBVIOUS
<1>11. ASSUME NEW i \in AnswersIn(q, n)
       PROVE  f[i] \in AnswersIn(r, n + 1) /\ r[f[i]].kind = q[i].kind
  <2>1. i \in 1..w /\ (i > n \/ q[i].type # "event")
    BY <1>8
  <2>2. CASE i <= n
    <3>1. f[i] = i /\ r[i] = q[i] /\ i \in 1..(w + 1) /\ ~(i > n)
      BY <1>4, <1>10, <2>1, <2>2
    <3>2. QED
      BY <1>9, <2>1, <3>1
  <2>3. CASE ~(i <= n)
    <3>1. f[i] = i + 1 /\ i > n /\ i + 1 \in 1..(w + 1)
      BY <1>10, <2>1, <2>3
    <3>2. QED
      BY <1>7, <1>9, <2>1, <3>1
  <2>4. QED
    BY <2>2, <2>3
<1>12. \A i, j \in AnswersIn(q, n) : i < j => f[i] < f[j]
  BY <1>8, <1>10
<1>13. ASSUME NEW j \in AnswersIn(r, n + 1)
       PROVE  \E i \in AnswersIn(q, n) : f[i] = j
  <2>1. j \in 1..(w + 1) /\ (j > n + 1 \/ r[j].type # "event")
    BY <1>9
  <2>2. j # n + 1
    BY <1>4, <2>1
  <2>3. CASE j <= n
    <3>1. j \in 1..w /\ r[j] = q[j] /\ ~(j > n + 1)
      BY <1>4, <1>6, <2>1, <2>3
    <3>2. j \in AnswersIn(q, n)
      BY <1>8, <2>1, <3>1
    <3>3. QED
      BY <1>10, <2>3, <3>2
  <2>4. CASE ~(j <= n)
    <3>1. j - 1 \in 1..w /\ j - 1 > n /\ (j - 1) + 1 = j /\ ~(j - 1 <= n)
      BY <2>1, <2>2, <2>4
    <3>2. j - 1 \in AnswersIn(q, n)
      BY <1>8, <3>1
    <3>3. f[j - 1] = j
      BY <1>10, <3>1, <3>2
    <3>4. QED
      BY <3>2, <3>3
  <2>5. QED
    BY <2>3, <2>4
<1>14. Paired(q, n, calls, m)
  BY <1>1, <1>3
<1>15. Paired(r, n + 1, calls, m)
  BY <1>11, <1>12, <1>13, <1>14, PairedMoved
<1>16. QED
  BY <1>3, <1>4, <1>15

\* The simulation executes a command and answers it.
LEMMA ExecuteInvariant ==
  ASSUME BoundsNat, IInv, NEW ok \in BOOLEAN, ExecuteCommand(ok)
  PROVE  IInv'
<1>1. PICK c, x : /\ c = Head(cs)
                  /\ x = IF ~ok THEN Message("error", c.kind)
                         ELSE IF c.kind = "query_interval" /\ c.arg < sim.time
                         THEN [Message("response", c.kind) EXCEPT !.time = c.arg]
                         ELSE Message("response", c.kind)
  OBVIOUS
<1>2. /\ connected /\ cs # <<>> /\ cs' = Tail(cs)
      /\ ok = FALSE => c.kind \in Refused
      /\ sim' = IF ~ok THEN sim
                ELSE IF c.kind = "reference_items" THEN [sim EXCEPT !.reference = c.signals]
                ELSE IF c.kind = "run_simulation" THEN [sim EXCEPT !.mode = "running", !.until = c.arg]
                ELSE IF c.kind = "pause_simulation" THEN [sim EXCEPT !.mode = "paused"]
                ELSE sim
      /\ sc' = Append(sc, x)
      /\ UNCHANGED <<cache, loaded, callbacks, values, fills, connected, panicked>>
  BY <1>1, Zenon DEF ExecuteCommand
<1>3. /\ cs \in Seq(CommandType) /\ sc \in Seq(MessageType) /\ callbacks \in Seq(CommandType)
      /\ sim \in [time : Nat, mode : Modes, until : Nat, reference : Lists]
      /\ ListsOf(loaded) /\ loaded \in Lists
  BY DEF IInv, Types
<1>4. /\ c \in CommandType /\ c = cs[1] /\ 1 \in DOMAIN cs /\ cs' \in Seq(CommandType)
      /\ Members(cs') \subseteq Members(cs)
  <2>1. c \in CommandType /\ c = cs[1] /\ Tail(cs) \in Seq(CommandType)
        /\ Members(cs) = {c} \cup Members(Tail(cs))
    BY <1>1, <1>2, <1>3, MembersOfTail
  <2>2. 1 \in DOMAIN cs
    BY <1>2, <1>3
  <2>3. QED
    BY <1>2, <2>1, <2>2
<1>5. c.kind \in Kinds /\ c.arg \in Nat /\ c.signals \in Lists /\ StartOf(c.signals, loaded)
  BY <1>3, <1>4 DEF CommandType, ListsOf
<1>6. \A type \in {"response", "error"} :
        /\ Message(type, c.kind) \in MessageType /\ Message(type, c.kind).kind = c.kind
        /\ Message(type, c.kind).type = type /\ Message(type, c.kind).reference = sim.reference
  BY <1>3, <1>5 DEF Message, MessageType
<1>7. /\ x \in MessageType /\ x.kind = c.kind /\ x.type \in {"response", "error"}
      /\ x.reference = sim.reference /\ (x.type = "error" => c.kind \in Refused)
  <2>1. PICK e, y : e = Message("error", c.kind) /\ y = Message("response", c.kind)
    OBVIOUS
  <2>2. /\ e \in MessageType /\ e.kind = c.kind /\ e.type = "error" /\ e.reference = sim.reference
        /\ y \in MessageType /\ y.kind = c.kind /\ y.type = "response" /\ y.reference = sim.reference
    BY <1>6, <2>1
  <2>3. PICK z : z = [y EXCEPT !.time = c.arg]
    OBVIOUS
  <2>4. /\ z \in MessageType /\ z.kind = c.kind /\ z.type = "response" /\ z.reference = sim.reference
    BY <1>5, <2>2, <2>3 DEF MessageType
  <2>5. x = IF ~ok THEN e ELSE IF c.kind = "query_interval" /\ c.arg < sim.time THEN z ELSE y
    BY <1>1, <2>1, <2>3
  <2>6. CASE ok = FALSE
    BY <1>2, <2>2, <2>5, <2>6
  <2>7. CASE ok = TRUE
    BY <2>2, <2>4, <2>5, <2>7
  <2>8. QED
    BY <2>6, <2>7
<1>8. /\ sim' \in [time : Nat, mode : Modes, until : Nat, reference : Lists]
      /\ sim'.reference \in {sim.reference, c.signals}
  BY <1>2, <1>3, <1>5 DEF Modes
<1>9. sc' \in Seq(MessageType) /\ Members(sc') = Members(sc) \cup {x}
  BY <1>2, <1>3, <1>7, PlacesOfBoth
<1>10. Types'
  <2>1. CachesTyped'
    BY <1>2 DEF IInv, Types, CachesTyped, Known
  <2>2. QED
    BY <1>2, <1>4, <1>8, <1>9, <2>1 DEF IInv, Types
<1>11. ListsOf(loaded)'
  <2>1. /\ \A y \in Members(cs) : StartOf(y.signals, loaded)
        /\ \A y \in Members(sc) : StartOf(y.reference, loaded)
        /\ StartOf(sim.reference, loaded)
    BY <1>3 DEF ListsOf, Members
  <2>2. /\ \A y \in Members(cs') : StartOf(y.signals, loaded)
        /\ \A y \in Members(sc') : StartOf(y.reference, loaded)
        /\ StartOf(sim'.reference, loaded)
    BY <1>4, <1>5, <1>7, <1>8, <1>9, <2>1
  <2>3. /\ \A i \in DOMAIN cs' : StartOf(cs'[i].signals, loaded)
        /\ \A i \in DOMAIN sc' : StartOf(sc'[i].reference, loaded)
    BY <2>2 DEF Members
  <2>4. QED
    BY <1>2, <1>3, <2>2, <2>3 DEF ListsOf
<1>12. Matched'
  <2>1. PICK m \in 0..Len(callbacks) : /\ connected => m = Len(callbacks)
                                       /\ Paired(sc \o cs, Len(sc), callbacks, m)
    BY DEF IInv, Matched
  <2>2. sc \in Seq(Queued) /\ cs \in Seq(Queued) /\ x \in Queued /\ m \in Nat
    BY <1>3, <1>7, <2>1 DEF Queued
  <2>3. x.kind = Head(cs).kind /\ x.type # "event"
    BY <1>1, <1>7
  <2>4. Paired(Append(sc, x) \o Tail(cs), Len(Append(sc, x)), callbacks, m)
    BY <1>2, <2>1, <2>2, <2>3, PairedExecuted
  <2>5. QED
    BY <1>2, <2>1, <2>4 DEF Matched
<1>13. ErrorsRefused'
  <2>1. \A y \in Members(sc) : y.type = "error" => y.kind \in Refused
    BY DEF IInv, ErrorsRefused, Members
  <2>2. \A y \in Members(sc') : y.type = "error" => y.kind \in Refused
    BY <1>7, <1>9, <2>1
  <2>3. QED
    BY <2>2 DEF ErrorsRefused, Members
<1>14. (ListsAwaited /\ ValuesOfTheirVariable)' /\ (~connected' => cs' = <<>>)
  BY <1>2 DEF IInv, ListsAwaited, WaitingWasAsked, ValuesOfTheirVariable
<1>15. QED
  BY <1>10, <1>11, <1>12, <1>13, <1>14 DEF IInv

\* The simulation reports that it stopped.
LEMMA PausedInvariant ==
  ASSUME BoundsNat, IInv, NEW mode \in {"paused", "finished"}, SimulationPaused(mode)
  PROVE  IInv'
<1>1. PICK t, e, x : /\ t = IF sim.until > sim.time THEN sim.until ELSE sim.time
                     /\ e = Message("event", "event") /\ x = [e EXCEPT !.mode = mode, !.time = t]
  OBVIOUS
<1>2. /\ sim' = [sim EXCEPT !.mode = mode, !.time = t] /\ sc' = Append(sc, x)
      /\ UNCHANGED <<cache, loaded, callbacks, cs, values, fills, connected, panicked>>
  BY <1>1, Zenon DEF SimulationPaused
<1>3. /\ cs \in Seq(CommandType) /\ sc \in Seq(MessageType)
      /\ sim \in [time : Nat, mode : Modes, until : Nat, reference : Lists]
      /\ ListsOf(loaded)
  BY DEF IInv, Types
<1>4. t \in Nat /\ mode \in Modes
  BY <1>1, <1>3 DEF Modes
<1>5. x \in MessageType /\ x.type = "event" /\ x.reference = sim.reference
  <2>1. e \in MessageType /\ e.type = "event" /\ e.reference = sim.reference
    BY <1>1, <1>3 DEF Message, MessageType
  <2>2. QED
    BY <1>1, <1>4, <2>1 DEF MessageType
<1>6. /\ sim' \in [time : Nat, mode : Modes, until : Nat, reference : Lists]
      /\ sim'.reference = sim.reference
  BY <1>2, <1>3, <1>4
<1>7. sc' \in Seq(MessageType) /\ Members(sc') = Members(sc) \cup {x}
  BY <1>2, <1>3, <1>5, PlacesOfBoth
<1>8. Types'
  <2>1. CachesTyped'
    BY <1>2 DEF IInv, Types, CachesTyped, Known
  <2>2. QED
    BY <1>2, <1>6, <1>7, <2>1 DEF IInv, Types
<1>9. ListsOf(loaded)'
  <2>1. \A y \in Members(sc') : StartOf(y.reference, loaded)
    BY <1>3, <1>5, <1>7 DEF ListsOf, Members
  <2>2. \A i \in DOMAIN sc' : StartOf(sc'[i].reference, loaded)
    BY <2>1 DEF Members
  <2>3. QED
    BY <1>2, <1>3, <1>6, <2>2 DEF ListsOf
<1>10. Matched'
  <2>1. PICK m \in 0..Len(callbacks) : /\ connected => m = Len(callbacks)
                                       /\ Paired(sc \o cs, Len(sc), callbacks, m)
    BY DEF IInv, Matched
  <2>2. sc \in Seq(Queued) /\ cs \in Seq(Queued) /\ x \in Queued /\ m \in Nat
    BY <1>3, <1>5, <2>1 DEF Queued
  <2>3. Paired(Append(sc, x) \o cs, Len(Append(sc, x)), callbacks, m)
    BY <1>5, <2>1, <2>2, PairedReported
  <2>4. QED
    BY <1>2, <2>1, <2>3 DEF Matched
<1>11. ErrorsRefused'
  <2>1. \A y \in Members(sc) : y.type = "error" => y.kind \in Refused
    BY DEF IInv, ErrorsRefused, Members
  <2>2. \A y \in Members(sc') : y.type = "error" => y.kind \in Refused
    BY <1>5, <1>7, <2>1
  <2>3. QED
    BY <2>2 DEF ErrorsRefused, Members
<1>12. (ListsAwaited /\ ValuesOfTheirVariable)' /\ (~connected' => cs' = <<>>)
  BY <1>2 DEF IInv, ListsAwaited, WaitingWasAsked, ValuesOfTheirVariable
<1>13. QED
  BY <1>8, <1>9, <1>10, <1>11, <1>12 DEF IInv

\* The connection ends: the last callbacks are left without an answer.
LEMMA DisconnectInvariant ==
  ASSUME BoundsNat, IInv, Disconnect
  PROVE  IInv'
<1>1. /\ connected /\ connected' = FALSE /\ cs' = <<>>
      /\ UNCHANGED <<cache, loaded, callbacks, sc, values, fills, panicked, sim>>
  BY DEF Disconnect
<1>2. Types'
  <2>1. CachesTyped'
    BY <1>1 DEF IInv, Types, CachesTyped, Known
  <2>2. cs' \in Seq(CommandType)
    BY <1>1
  <2>3. QED
    BY <1>1, <2>1, <2>2 DEF IInv, Types
<1>3. ListsOf(loaded)'
  BY <1>1 DEF IInv, ListsOf
<1>4. Matched'
  <2>1. PICK m \in 0..Len(callbacks) : Paired(sc \o cs, Len(sc), callbacks, m)
    BY DEF IInv, Matched
  <2>2. /\ sc \in Seq(Queued) /\ cs \in Seq(Queued) /\ m \in Nat
        /\ callbacks \in Seq(CommandType)
    BY <2>1 DEF IInv, Types, Queued
  <2>3. PICK l \in 0..m : Paired(sc, Len(sc), callbacks, l)
    BY <2>1, <2>2, PairedCut
  <2>4. l \in 0..Len(callbacks) /\ sc \o <<>> = sc
    BY <2>1, <2>2
  <2>5. QED
    BY <1>1, <2>3, <2>4 DEF Matched
<1>5. (ErrorsRefused /\ ListsAwaited /\ ValuesOfTheirVariable)' /\ (~connected' => cs' = <<>>)
  BY <1>1 DEF IInv, ErrorsRefused, ListsAwaited, WaitingWasAsked, ValuesOfTheirVariable
<1>6. QED
  BY <1>2, <1>3, <1>4, <1>5 DEF IInv

-----------------------------------------------------------------------------
(* The invariant *)

\* The program starts with nothing asked for.
LEMMA InitInvariant ==
  ASSUME BoundsNat, Init
  PROVE  IInv
<1>1. Empty \in CacheType /\ Empty.state = "Uncached" /\ Empty.prev = <<>>
  BY DEF Empty, CacheType
<1>2. /\ cache \in [Caches -> CacheType] /\ \A c \in Caches : cache[c] = Empty
      /\ "status" \in Caches
  BY <1>1 DEF Init, Caches
<1>3. CachesTyped
  BY <1>1, <1>2 DEF CachesTyped, Known
<1>4. Types
  <2>1. IsFiniteSet({}) /\ Cardinality({}) = 0
    BY FS_EmptySet
  <2>2. /\ loaded \in Lists /\ callbacks \in Seq(CommandType) /\ Len(callbacks) <= MaxCommands
        /\ cs \in Seq(CommandType) /\ sc \in Seq(MessageType) /\ connected \in BOOLEAN
    BY DEF Init, BoundsNat, Lists
  <2>3. sim \in [time : Nat, mode : Modes, until : Nat, reference : Lists]
    BY DEF Init, Modes, Lists
  <2>4. fills \subseteq FillType /\ IsFiniteSet(fills) /\ Cardinality(fills) <= MaxFills
    BY <2>1 DEF Init, BoundsNat
  <2>5. QED
    BY <1>3, <2>2, <2>3, <2>4 DEF Types
<1>5. ListsOf(loaded)
  <2>1. StartOf(sim.reference, loaded)
    BY DEF Init, StartOf
  <2>2. QED
    BY <2>1 DEF Init, ListsOf
<1>6. Matched
  <2>1. sc \o cs = <<>> /\ Len(sc) = 0 /\ callbacks = <<>> /\ 0 \in 0..Len(callbacks) /\ Len(callbacks) = 0
    BY DEF Init
  <2>2. AnswersIn(<<>>, 0) = {}
    BY DEF AnswersIn
  <2>3. PairedAt(<<>>, 0, <<>>, 0, [k \in 1..0 |-> k])
    BY <2>2 DEF PairedAt
  <2>4. Paired(<<>>, 0, <<>>, 0)
    BY <2>3 DEF Paired
  <2>5. QED
    BY <2>1, <2>4 DEF Matched
<1>7. ListsAwaited
  BY <1>1, <1>2 DEF ListsAwaited, WaitingWasAsked, Caches
<1>8. ErrorsRefused /\ ValuesOfTheirVariable /\ (~connected => cs = <<>>)
  BY DEF Init, ErrorsRefused, ValuesOfTheirVariable
<1>9. QED
  BY <1>4, <1>5, <1>6, <1>7, <1>8 DEF IInv

\* Every step of the program and of the simulation keeps the invariant.
LEMMA NextInvariant ==
  ASSUME BoundsNat, IInv, [UiNext \/ OtherNext]_vars
  PROVE  IInv'
<1>1. CASE UiNext
  BY <1>1, ListInvariant, QueryInvariant, RunInvariant, LoadVariablesInvariant DEF UiNext
<1>2. CASE OtherNext
  BY <1>2, TickInvariant, FillInvariant, ExecuteInvariant, PausedInvariant, DisconnectInvariant
  DEF OtherNext
<1>3. CASE UNCHANGED vars
  BY <1>3 DEF vars, IInv, Types, CachesTyped, Known, ListsOf, Matched, ErrorsRefused,
              ListsAwaited, WaitingWasAsked, ValuesOfTheirVariable
<1>4. QED
  BY <1>1, <1>2, <1>3

\* Places of the answers, as the property states them.
LEMMA InvariantMatches ==
  ASSUME IInv
  PROVE  TypeOK /\ AnswersMeetCallbacks
<1>1. TypeOK
  BY DEF IInv, Types, CachesTyped, CacheType, TypeOK
<1>2. ASSUME connected
      PROVE  \E place \in [1..Len(callbacks) -> Answers] : Matches(place, Len(callbacks))
  <2>1. PICK m \in 0..Len(callbacks) : m = Len(callbacks) /\ Paired(sc \o cs, Len(sc), callbacks, m)
    BY <1>2 DEF IInv, Matched
  <2>2. PICK place : PairedAt(sc \o cs, Len(sc), callbacks, m, place)
    BY <2>1 DEF Paired
  <2>3. sc \in Seq(Queued) /\ cs \in Seq(Queued) /\ callbacks \in Seq(CommandType)
    BY DEF IInv, Types, Queued
  <2>4. m \in Nat
    BY <2>1, <2>3
  <2>5. AnswersIn(sc \o cs, Len(sc)) = Answers
    <3>1. \A i \in DOMAIN (sc \o cs) : i > Len(sc) \/ (sc \o cs)[i] = sc[i]
      BY <2>3
    <3>2. QED
      BY <3>1 DEF AnswersIn, Answers, Queue
  <2>6. place \in [1..m -> Answers] /\ {place[k] : k \in 1..m} = Answers
    BY <2>2, <2>5 DEF PairedAt
  <2>7. \A k \in 1..m : /\ Queue[place[k]].kind = callbacks[k].kind
                        /\ \A l \in 1..(k - 1) : place[l] < place[k]
    <3>1. \A k \in 1..m : \A l \in 1..(k - 1) : l \in 1..m /\ l < k
      BY <2>4
    <3>2. QED
      BY <2>2, <3>1 DEF PairedAt, Queue
  <2>8. QED
    BY <2>1, <2>6, <2>7 DEF Matches
<1>3. QED
  BY <1>1, <1>2 DEF AnswersMeetCallbacks

\* cxxrtl_container.rs: an answer does not say what it answers, and reaches
\* the callback of its command all the same; fill_variable_values gives every
\* variable its own word of the sample; and the cache of a list that waits was
\* asked for, unless the simulation refuses lists.
THEOREM AnswersMatched ==
  ASSUME BoundsNat
  PROVE  Spec => [](/\ TypeOK /\ AnswersMeetCallbacks /\ ValuesOfTheirVariable
                    /\ ListsNotRefused => WaitingWasAsked)
<1>1. Init => IInv
  BY InitInvariant
<1>2. IInv /\ [UiNext \/ OtherNext]_vars => IInv'
  BY NextInvariant
<1>3. IInv => /\ TypeOK /\ AnswersMeetCallbacks /\ ValuesOfTheirVariable
              /\ ListsNotRefused => WaitingWasAsked
  BY InvariantMatches DEF IInv, ListsAwaited
<1>4. QED
  BY <1>1, <1>2, <1>3, PTL DEF Spec
=============================================================================
