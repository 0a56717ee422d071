------------------------- MODULE WaveLoadingProofs -------------------------
(***************************************************************************)
(* What a worker or a server answers late changes only the waveform it was *)
(* asked for, and while something is loaded progress is shown, for any     *)
(* files, servers, signals and batch commands and in any order of answers. *)
(*                                                                         *)
(* The inductive invariant follows what is under way: a task, a message in *)
(* the channel or a message of the frame.  At most one request for signals *)
(* of the container shown is under way, and none while the container has   *)
(* its source.  As long as operations do not overlap there is one piece of *)
(* work at most, it belongs to the container shown, and progress is shown  *)
(* for it.                                                                 *)
(***************************************************************************)
EXTENDS MCWaveLoading, SequenceTheorems, FiniteSetTheorems, TLAPS

-----------------------------------------------------------------------------
(* What can be under way *)

Sources == Files \cup Transactions \cup Urls \cup {Server}

Task ==
       [do : {"header"}, of : Sources, keep : BOOLEAN]
  \cup [do : {"body", "time table"}, id : Nat]
  \cup [do : {"signals"}, id : Nat, of : SUBSET Signals, remote : BOOLEAN]
  \cup [do : {"download"}, of : Sources, keep : BOOLEAN, force_switch : BOOLEAN,
        file : Remote \cup {None}]
  \cup [do : {"status"}]
  \cup [do : {"hierarchy", "reload"}, file : Remote \cup {None}, keep : BOOLEAN]

Message ==
       [msg : {"Load", "FileDownloaded"}, of : Sources, keep : BOOLEAN]
  \cup [msg : {"LoadSurverFileByIndex"}, of : Remote, keep : BOOLEAN]
  \cup [msg : {"ReloadWaveform", "Exit", "Error", "StopProgressTracker", "SetSurverStatus"}]
  \cup [msg : {"AddVariables"}, of : Signals]
  \cup [msg : {"WaveHeaderLoaded"}, of : Sources, remote : BOOLEAN, keep : BOOLEAN]
  \cup [msg : {"WaveBodyLoaded"}, remote : BOOLEAN, id : Nat]
  \cup [msg : {"SignalsLoaded"}, id : Nat, of : SUBSET Signals]
  \cup [msg : {"TransactionStreamsLoaded"}, of : Sources]

Item == Task \cup Message

\* Requests for signals of a container, and their answers.
SignalsWork(id) ==
  {x \in Task : x.do = "signals" /\ x.id = id}
    \cup {x \in Message : x.msg = "SignalsLoaded" /\ x.id = id}

\* Bodies and time tables, of all containers and of all but one.
Bodies ==
  {x \in Task : x.do \in {"body", "time table"}} \cup {x \in Message : x.msg = "WaveBodyLoaded"}
OtherBodies(id) == {x \in Bodies : x.id # id}

\* What is for one container.
Numbered ==
  Bodies \cup {x \in Task : x.do = "signals"} \cup {x \in Message : x.msg = "SignalsLoaded"}

Streaming == {x \in Message : x.msg = "TransactionStreamsLoaded"}

\* All that ends an operation or goes on with it.
Working ==
  {x \in Task : x.do # "status"}
    \cup {x \in Message : x.msg \in {"WaveHeaderLoaded", "WaveBodyLoaded", "SignalsLoaded",
                                     "FileDownloaded", "StopProgressTracker"}}
    \cup Streaming

Asking ==
  {x \in Task : x.do = "status"} \cup {x \in Message : x.msg = "SetSurverStatus"}

\* Work on a file of the server, which asks for its status once more.
OfServerFile == {x \in Task : x.do = "reload" \/ (x.do = "download" /\ x.file # None)}

\* A container that answers are for exists.
Known(s, x) ==
  x \in Numbered => x.id \in 1..s.app.unique_ids

-----------------------------------------------------------------------------
(* The inductive invariant *)

BagFree(b, P) == DOMAIN b \cap P = {}
SeqFree(q, P) == \A i \in 1..Len(q) : q[i] \notin P
BagOne(b, P) == /\ \A x, y \in DOMAIN b : x \in P /\ y \in P => x = y
                /\ \A x \in DOMAIN b : x \in P => b[x] = 1
SeqOne(q, P) == \A i, j \in 1..Len(q) : q[i] \in P /\ q[j] \in P => i = j

\* Nothing of P is under way.
Free(s, P) == BagFree(s.tasks, P) /\ SeqFree(s.channel, P) /\ SeqFree(s.msgs, P)

\* At most one thing of P is under way.
AtMostOne(s, P) ==
  /\ BagOne(s.tasks, P) /\ SeqOne(s.channel, P) /\ SeqOne(s.msgs, P)
  /\ BagFree(s.tasks, P) \/ SeqFree(s.channel, P)
  /\ BagFree(s.tasks, P) \/ SeqFree(s.msgs, P)
  /\ SeqFree(s.channel, P) \/ SeqFree(s.msgs, P)

Waves ==
  [kind : {"none", "wellen", "transactions"}, source : Sources \cup {None}, unique_id : Nat,
   remote : BOOLEAN, body : Nat, handle : BOOLEAN,
   signals : SUBSET [of : Signals, from : Nat], to_be_loaded : SUBSET Signals]

App ==
  [waves : Waves, file_infos : SUBSET Remote, displayed : SUBSET Signals,
   progress_tracker : BOOLEAN, selected : Remote \cup {None}, surver_url : BOOLEAN,
   unique_ids : Nat, requests : Nat, overlapped : BOOLEAN, second_body : BOOLEAN,
   trouble : BOOLEAN, panic : {"no", "no variables"}]

\* The containers made so far, and the one shown.
Containers(s) ==
  /\ s.app \in App
  /\ \/ s.app.waves.kind = "wellen" /\ s.app.waves.unique_id \in 1..s.app.unique_ids
     \/ s.app.waves.kind # "wellen" /\ s.app.waves.unique_id = 0 /\ s.app.waves.body = 0
  /\ s.app.waves.kind = "none" => s.app.unique_ids = 0
  /\ s.app.waves.kind # "none" => s.app.waves.source \in Sources
  /\ \A x \in s.app.waves.signals : x.from = s.app.waves.unique_id

Traffic(s) ==
  /\ IsABag(s.tasks) /\ DOMAIN s.tasks \subseteq Task
  /\ s.channel \in Seq(Message) /\ s.msgs \in Seq(Message)
  /\ \A x \in DOMAIN s.tasks : Known(s, x)
  /\ \A i \in 1..Len(s.channel) : Known(s, s.channel[i])
  /\ \A i \in 1..Len(s.msgs) : Known(s, s.msgs[i])

\* The source is with the container or with one request for its signals.
SourceShared(s) ==
  LET P == SignalsWork(s.app.waves.unique_id)
  IN /\ AtMostOne(s, P)
     /\ s.app.waves.handle \/ s.app.waves.body = 0 => Free(s, P)

\* One piece of work, for the container shown, while progress is shown.
OneByOne(s) ==
  ~s.app.overlapped =>
    /\ AtMostOne(s, Working)
    /\ s.app.waves.body \in {0, s.app.waves.unique_id}
    /\ Free(s, OtherBodies(s.app.waves.unique_id))
    /\ ~s.app.progress_tracker => Free(s, Working \ Streaming)
    /\ s.app.selected = None =>
         Free(s, OfServerFile) /\ (Free(s, Working) \/ Free(s, Asking))

\* The states that handlers work on.
Formed(s) == s = [app |-> s.app, tasks |-> s.tasks, channel |-> s.channel, msgs |-> s.msgs]

Good(s) == Formed(s) /\ Containers(s) /\ Traffic(s) /\ SourceShared(s) /\ OneByOne(s)

BatchTyped ==
  /\ batch \in [phase : {"idle", "update"}, messages : Seq(BatchMessage),
                completed : BOOLEAN, should_exit : BOOLEAN, closed : BOOLEAN]
  /\ batch.phase = "idle" => msgs = <<>>

IInv == Good(State) /\ BatchTyped

-----------------------------------------------------------------------------
(* Putting something under way, and taking it away *)

\* c is b with y.
With(b, c, y) ==
  \A P : /\ BagFree(b, P) => BagOne(c, P)
         /\ y \notin P /\ BagOne(b, P) => BagOne(c, P)
         /\ y \notin P /\ BagFree(b, P) <=> BagFree(c, P)

LEMMA BagPut ==
  ASSUME NEW b, IsABag(b), NEW y, NEW c, c = b (+) SetToBag({y})
  PROVE  IsABag(c) /\ DOMAIN c = DOMAIN b \cup {y} /\ With(b, c, y)
<1>1. IsABag(c) /\ DOMAIN c = DOMAIN b \cup {y}
  BY DEF IsABag, (+), SetToBag
<1>2. /\ \A x \in DOMAIN b \ {y} : c[x] = b[x]
      /\ y \notin DOMAIN b => c[y] = 1
  BY DEF IsABag, (+), SetToBag
<1>3. QED
  BY <1>1, <1>2 DEF With, BagFree, BagOne

\* c is b without y.
Without(b, c, y) ==
  \A P : /\ BagOne(b, P) => BagOne(c, P)
         /\ BagFree(b, P) => BagFree(c, P)
         /\ y \in P /\ BagOne(b, P) => BagFree(c, P)
         /\ y \notin P /\ BagFree(c, P) => BagFree(b, P)

LEMMA BagTake ==
  ASSUME NEW b, IsABag(b), NEW y \in BagToSet(b), NEW c, c = b (-) SetToBag({y})
  PROVE  IsABag(c) /\ DOMAIN c \subseteq DOMAIN b /\ Without(b, c, y)
<1>1. IsABag(c) /\ DOMAIN c \subseteq DOMAIN b /\ y \in DOMAIN b
  BY DEF IsABag, (-), SetToBag, BagToSet
<1>2. /\ \A x \in DOMAIN c \ {y} : c[x] = b[x]
      /\ b[y] = 1 => y \notin DOMAIN c
      /\ y \in DOMAIN c => b[y] > 1 /\ c[y] = b[y] - 1
      /\ \A x \in DOMAIN b \ {y} : x \in DOMAIN c
  BY DEF IsABag, (-), SetToBag, BagToSet
<1>3. ASSUME NEW P
      PROVE  /\ BagOne(b, P) => BagOne(c, P)
             /\ BagFree(b, P) => BagFree(c, P)
             /\ y \in P /\ BagOne(b, P) => BagFree(c, P)
             /\ y \notin P /\ BagFree(c, P) => BagFree(b, P)
  BY <1>1, <1>2 DEF BagFree, BagOne
<1>4. QED
  BY <1>1, <1>3 DEF Without

Appended(q, c, y) ==
  /\ Len(c) = Len(q) + 1 /\ c[Len(c)] = y /\ \A i \in 1..Len(q) : c[i] = q[i]
  /\ \A P : /\ SeqFree(q, P) => SeqOne(c, P)
            /\ y \notin P /\ SeqOne(q, P) => SeqOne(c, P)
            /\ y \notin P /\ SeqFree(q, P) <=> SeqFree(c, P)

LEMMA SeqPut ==
  ASSUME NEW S, NEW q \in Seq(S), NEW y \in S, NEW c, c = Append(q, y)
  PROVE  c \in Seq(S) /\ Appended(q, c, y)
<1>1. PICK n : n = Len(q)
  OBVIOUS
<1>2. /\ c \in Seq(S) /\ n \in Nat
      /\ Len(c) = n + 1 /\ c[n + 1] = y /\ \A i \in 1..n : c[i] = q[i]
  BY <1>1
<1>3. \A i \in 1..n + 1 : i \in 1..n \/ i = n + 1
  BY <1>2
<1>4. QED
  BY <1>1, <1>2, <1>3 DEF Appended, SeqFree, SeqOne

Popped(q, c, y) ==
  /\ Len(c) = Len(q) - 1 /\ q[Len(q)] = y /\ \A i \in 1..Len(c) : c[i] = q[i]
  /\ \A P : /\ SeqOne(q, P) => SeqOne(c, P)
            /\ SeqFree(q, P) => SeqFree(c, P) /\ y \notin P
            /\ y \in P /\ SeqOne(q, P) => SeqFree(c, P)
            /\ y \notin P /\ SeqFree(c, P) => SeqFree(q, P)

LEMMA SeqTake ==
  ASSUME NEW S, NEW q \in Seq(S), q # <<>>, NEW y, y = Last(q), NEW c, c = Front(q)
  PROVE  c \in Seq(S) /\ y \in S /\ Popped(q, c, y)
<1>1. PICK n \in Nat : n + 1 = Len(q)
  <2>1. Len(q) \in Nat /\ Len(q) # 0
    BY EmptySeq
  <2>2. QED
    BY <2>1
<1>2. c = SubSeq(q, 1, n) /\ y = q[n + 1]
  BY <1>1 DEF Front, Last
<1>3. /\ c \in Seq(S) /\ Len(c) = n /\ \A i \in 1..n : c[i] = q[i]
  BY <1>1, <1>2, SubSeqProperties
<1>4. 1..n \subseteq 1..n + 1 /\ n + 1 \in 1..n + 1 /\ n + 1 \notin 1..n
  BY <1>1
<1>5. y \in S
  BY <1>1, <1>2, <1>4, ElementOfSeq
<1>6. QED
  BY <1>1, <1>2, <1>3, <1>4, <1>5 DEF Popped, SeqFree, SeqOne

\* r is s with y put under way.
Puts(s, r, y) ==
  \A P : /\ Free(s, P) => AtMostOne(r, P)
         /\ y \notin P /\ Free(s, P) <=> Free(r, P)
         /\ y \notin P /\ AtMostOne(s, P) => AtMostOne(r, P)

\* r is s with y taken away.
Takes(s, r, y) ==
  \A P : /\ Free(s, P) => Free(r, P) /\ y \notin P
         /\ AtMostOne(s, P) => AtMostOne(r, P)
         /\ AtMostOne(s, P) /\ y \in P => Free(r, P)
         /\ Free(r, P) /\ y \notin P => Free(s, P)

\* A task is spawned.
LEMMA SpawnPuts ==
  ASSUME NEW s, NEW r, NEW y \in Task, Traffic(s), Known(s, y), r.app = s.app,
         r.tasks = s.tasks (+) SetToBag({y}), r.channel = s.channel, r.msgs = s.msgs
  PROVE  Puts(s, r, y) /\ Traffic(r)
<1>1. IsABag(s.tasks)
  BY DEF Traffic
<1>2. PICK b, c : b = s.tasks /\ c = r.tasks
  OBVIOUS
<1>3. IsABag(c) /\ DOMAIN c = DOMAIN b \cup {y} /\ With(b, c, y)
  BY <1>1, <1>2, BagPut
<1>4. \A q, P : SeqFree(q, P) => SeqOne(q, P)
  BY DEF SeqFree, SeqOne
<1>5. Puts(s, r, y)
  BY <1>2, <1>3, <1>4 DEF With, Puts, Free, AtMostOne
<1>6. Traffic(r)
  BY <1>2, <1>3 DEF Traffic, Known
<1>7. QED
  BY <1>5, <1>6

\* A message is sent.
LEMMA SendPuts ==
  ASSUME NEW s, NEW r, NEW y \in Message, Traffic(s), Known(s, y), r.app = s.app,
         r.tasks = s.tasks, r.channel = Append(s.channel, y), r.msgs = s.msgs
  PROVE  Puts(s, r, y) /\ Traffic(r)
<1>1. s.channel \in Seq(Message)
  BY DEF Traffic
<1>2. PICK b, c : b = s.channel /\ c = r.channel /\ b \in Seq(Message) /\ c = Append(b, y)
  BY <1>1
<1>3. c \in Seq(Message) /\ Appended(b, c, y)
  BY <1>2, SeqPut
<1>4. /\ \A q, P : SeqFree(q, P) => SeqOne(q, P)
      /\ \A q, P : BagFree(q, P) => BagOne(q, P)
  BY DEF SeqFree, SeqOne, BagFree, BagOne
<1>5. Puts(s, r, y)
  BY <1>2, <1>3, <1>4 DEF Appended, Puts, Free, AtMostOne
<1>6. \A i \in 1..Len(c) : Known(r, c[i])
  <2>1. PICK n \in Nat : n = Len(b) /\ Len(c) = n + 1
    BY <1>1, <1>2, <1>3, LenProperties DEF Appended
  <2>2. \A i \in 1..Len(c) : i \in 1..n \/ i = n + 1
    BY <2>1
  <2>3. QED
    BY <1>2, <1>3, <2>1, <2>2 DEF Appended, Traffic, Known
<1>7. Traffic(r)
  BY <1>2, <1>3, <1>6 DEF Traffic, Known
<1>8. QED
  BY <1>5, <1>7

\* A task ends.
LEMMA EndTakes ==
  ASSUME NEW s, NEW r, NEW y \in BagToSet(s.tasks), Traffic(s), r.app = s.app,
         r.tasks = s.tasks (-) SetToBag({y}), r.channel = s.channel, r.msgs = s.msgs
  PROVE  Takes(s, r, y) /\ Traffic(r) /\ y \in Task /\ Known(r, y)
<1>1. IsABag(s.tasks)
  BY DEF Traffic
<1>2. PICK b, c : b = s.tasks /\ c = r.tasks
  OBVIOUS
<1>3. IsABag(c) /\ DOMAIN c \subseteq DOMAIN b /\ Without(b, c, y)
  BY <1>1, <1>2, BagTake
<1>4. y \in DOMAIN b /\ \A P : BagFree(b, P) => y \notin P
  BY <1>2 DEF BagToSet, BagFree
<1>5. Takes(s, r, y)
  BY <1>2, <1>3, <1>4 DEF Without, Takes, Free, AtMostOne
<1>6. Traffic(r) /\ y \in Task /\ Known(r, y)
  BY <1>2, <1>3, <1>4 DEF Traffic, Known
<1>7. QED
  BY <1>5, <1>6

\* A message is popped.
LEMMA PopTakes ==
  ASSUME NEW s, NEW r, NEW y, Traffic(s), s.msgs # <<>>, y = Last(s.msgs), r.app = s.app,
         r.tasks = s.tasks, r.channel = s.channel, r.msgs = Front(s.msgs)
  PROVE  Takes(s, r, y) /\ Traffic(r) /\ y \in Message /\ Known(r, y)
<1>1. s.msgs \in Seq(Message)
  BY DEF Traffic
<1>2. PICK b, c : /\ b = s.msgs /\ c = r.msgs /\ b \in Seq(Message) /\ b # <<>>
                  /\ c = Front(b) /\ y = Last(b)
  BY <1>1
<1>3. c \in Seq(Message) /\ y \in Message /\ Popped(b, c, y)
  BY <1>2, SeqTake
<1>4. Takes(s, r, y)
  BY <1>2, <1>3 DEF Popped, Takes, Free, AtMostOne
<1>5. PICK n \in Nat : n = Len(c) /\ Len(b) = n + 1
  <2>1. Len(c) \in Nat /\ Len(b) \in Nat
    BY <1>1, <1>2, <1>3, LenProperties
  <2>2. QED
    BY <1>3, <2>1 DEF Popped
<1>6. 1..n \subseteq 1..Len(b) /\ Len(b) \in 1..Len(b)
  BY <1>5
<1>7. Traffic(r) /\ Known(r, y)
  BY <1>2, <1>3, <1>5, <1>6 DEF Popped, Traffic, Known
<1>8. QED
  BY <1>3, <1>4, <1>7

-----------------------------------------------------------------------------
(* The invariant, as something is put under way or taken away *)

\* What was under way beside y when y was.
Fits(s, y) ==
  /\ Known(s, y)
  /\ LET P == SignalsWork(s.app.waves.unique_id)
     IN y \in P => Free(s, P) /\ ~s.app.waves.handle /\ s.app.waves.body # 0
  /\ ~s.app.overlapped =>
       /\ y \in Working => Free(s, Working)
       /\ y \notin OtherBodies(s.app.waves.unique_id)
       /\ y \in Working \ Streaming => s.app.progress_tracker
       /\ s.app.selected = None => /\ y \notin OfServerFile
                                   /\ y \in Working => Free(s, Asking)
                                   /\ y \in Asking => Free(s, Working)

LEMMA FreeIsAtMostOne ==
  ASSUME NEW s, NEW P, Free(s, P)
  PROVE  AtMostOne(s, P)
BY DEF Free, AtMostOne, BagFree, BagOne, SeqFree, SeqOne

LEMMA FreeSubset ==
  ASSUME NEW s, NEW P, NEW Q, Q \subseteq P, Free(s, P)
  PROVE  Free(s, Q)
BY DEF Free, BagFree, SeqFree

LEMMA PutInvariant ==
  ASSUME NEW s, NEW r, NEW y, Good(s), Fits(s, y), Puts(s, r, y), Traffic(r), Formed(r),
         r.app = s.app
  PROVE  Good(r)
<1>1. Containers(r)
  BY DEF Good, Containers
<1>2. SourceShared(r)
  BY DEF Good, SourceShared, Fits, Puts
<1>3. OneByOne(r)
  <2>1. SUFFICES ASSUME ~s.app.overlapped
                 PROVE  /\ AtMostOne(r, Working)
                        /\ Free(r, OtherBodies(s.app.waves.unique_id))
                        /\ ~s.app.progress_tracker => Free(r, Working \ Streaming)
                        /\ s.app.selected = None =>
                             Free(r, OfServerFile) /\ (Free(r, Working) \/ Free(r, Asking))
    BY DEF Good, OneByOne
  <2>2. AtMostOne(r, Working)
    BY <2>1 DEF Good, OneByOne, Fits, Puts
  <2>3. Free(r, OtherBodies(s.app.waves.unique_id))
    BY <2>1 DEF Good, OneByOne, Fits, Puts
  <2>4. ASSUME ~s.app.progress_tracker
        PROVE  Free(r, Working \ Streaming)
    BY <2>1, <2>4 DEF Good, OneByOne, Fits, Puts
  <2>5. ASSUME s.app.selected = None
        PROVE  Free(r, OfServerFile) /\ (Free(r, Working) \/ Free(r, Asking))
    <3>1. /\ Free(s, OfServerFile) /\ (Free(s, Working) \/ Free(s, Asking))
          /\ y \notin OfServerFile
          /\ y \in Working => Free(s, Asking)
          /\ y \in Asking => Free(s, Working)
      BY <2>1, <2>5 DEF Good, OneByOne, Fits
    <3>2. y \notin Working \/ y \notin Asking
      BY DEF Working, Asking, Streaming, Task, Message
    <3>3. QED
      BY <3>1, <3>2 DEF Puts
  <2>6. QED
    BY <2>2, <2>3, <2>4, <2>5
<1>4. QED
  BY <1>1, <1>2, <1>3 DEF Good

LEMMA TakeInvariant ==
  ASSUME NEW s, NEW r, NEW y, Good(s), Takes(s, r, y), Traffic(r), Formed(r), Known(r, y),
         r.app = s.app
  PROVE  Good(r) /\ Fits(r, y)
<1>1. Containers(r)
  BY DEF Good, Containers
<1>2. /\ SourceShared(r)
      /\ LET P == SignalsWork(r.app.waves.unique_id)
         IN y \in P => Free(r, P) /\ ~r.app.waves.handle /\ r.app.waves.body # 0
  BY DEF Good, SourceShared, Takes
<1>3. ASSUME ~s.app.overlapped
      PROVE  /\ AtMostOne(r, Working) /\ (y \in Working => Free(r, Working))
             /\ Free(r, OtherBodies(s.app.waves.unique_id))
             /\ y \notin OtherBodies(s.app.waves.unique_id)
  BY <1>3 DEF Good, OneByOne, Takes
<1>4. ASSUME ~s.app.overlapped
      PROVE  /\ ~s.app.progress_tracker => Free(r, Working \ Streaming)
             /\ y \in Working \ Streaming => s.app.progress_tracker
  BY <1>4 DEF Good, OneByOne, Takes
<1>5. ASSUME ~s.app.overlapped, s.app.selected = None
      PROVE  /\ Free(r, OfServerFile) /\ y \notin OfServerFile
             /\ Free(r, Working) \/ Free(r, Asking)
             /\ y \in Working => Free(r, Asking)
             /\ y \in Asking => Free(r, Working)
  <2>1. Free(s, OfServerFile) /\ (Free(s, Working) \/ Free(s, Asking))
    BY <1>5 DEF Good, OneByOne
  <2>2. QED
    BY <2>1 DEF Takes
<1>6. OneByOne(r)
  BY <1>3, <1>4, <1>5 DEF Good, OneByOne
<1>7. Fits(r, y)
  BY <1>2, <1>3, <1>4, <1>5 DEF Fits
<1>8. QED
  BY <1>1, <1>2, <1>6, <1>7 DEF Good

LEMMA SpawnInvariant ==
  ASSUME NEW s, NEW y \in Task, Good(s), Fits(s, y)
  PROVE  /\ Good(Spawn(s, y)) /\ Puts(s, Spawn(s, y), y)
         /\ Spawn(s, y).app = s.app /\ Spawn(s, y).channel = s.channel
<1>1. PICK r : r = Spawn(s, y)
  OBVIOUS
<1>2. /\ r.app = s.app /\ r.tasks = s.tasks (+) SetToBag({y})
      /\ r.channel = s.channel /\ r.msgs = s.msgs /\ Formed(r)
  BY <1>1 DEF Spawn, Good, Formed
<1>3. Puts(s, r, y) /\ Traffic(r)
  BY <1>2, SpawnPuts DEF Good, Fits
<1>4. QED
  BY <1>1, <1>2, <1>3, PutInvariant

LEMMA SendInvariant ==
  ASSUME NEW s, NEW y \in Message, Good(s), Fits(s, y)
  PROVE  Good(Send(s, y)) /\ Puts(s, Send(s, y), y) /\ Send(s, y).app = s.app
<1>1. PICK r : r = Send(s, y)
  OBVIOUS
<1>2. /\ r.app = s.app /\ r.tasks = s.tasks
      /\ r.channel = Append(s.channel, y) /\ r.msgs = s.msgs /\ Formed(r)
  BY <1>1 DEF Send, Good, Formed
<1>3. Puts(s, r, y) /\ Traffic(r)
  BY <1>2, SendPuts DEF Good, Fits
<1>4. QED
  BY <1>1, <1>2, <1>3, PutInvariant

-----------------------------------------------------------------------------
(* Changes of the application's state *)

\* r differs from s in the application's state only.
SameTraffic(s, r) ==
  Formed(r) /\ r.tasks = s.tasks /\ r.channel = s.channel /\ r.msgs = s.msgs

LEMMA SameTrafficFree ==
  ASSUME NEW s, NEW r, SameTraffic(s, r)
  PROVE  \A P : (Free(r, P) <=> Free(s, P)) /\ (AtMostOne(r, P) <=> AtMostOne(s, P))
BY DEF SameTraffic, Free, AtMostOne

LEMMA TrafficKept ==
  ASSUME NEW s, NEW r, Good(s), SameTraffic(s, r), Containers(r),
         s.app.unique_ids <= r.app.unique_ids
  PROVE  Traffic(r) /\ \A x : Known(s, x) => Known(r, x)
<1>1. s.app.unique_ids \in Nat /\ r.app.unique_ids \in Nat
  BY DEF Good, Containers, App
<1>2. 1..s.app.unique_ids \subseteq 1..r.app.unique_ids
  BY <1>1
<1>3. \A x : Known(s, x) => Known(r, x)
  BY <1>2 DEF Known
<1>4. QED
  BY <1>3 DEF Good, Traffic, SameTraffic

\* The container stays.
LEMMA AppInvariant ==
  ASSUME NEW s, NEW r, Good(s), SameTraffic(s, r), Containers(r),
         r.app.waves.unique_id = s.app.waves.unique_id,
         r.app.unique_ids = s.app.unique_ids,
         r.app.waves.handle \/ r.app.waves.body = 0 =>
           \/ s.app.waves.handle \/ s.app.waves.body = 0
           \/ Free(s, SignalsWork(s.app.waves.unique_id)),
         ~r.app.overlapped => /\ ~s.app.overlapped
                              /\ r.app.waves.body \in {0, s.app.waves.unique_id}
                              /\ \/ r.app.progress_tracker \/ ~s.app.progress_tracker
                                 \/ Free(s, Working \ Streaming)
                              /\ r.app.selected = None =>
                                   \/ s.app.selected = None
                                   \/ Free(s, OfServerFile) /\ (Free(s, Working) \/ Free(s, Asking))
  PROVE  Good(r)
<1>0. s.app.unique_ids \in Nat
  BY DEF Good, Containers, App
<1>1. Traffic(r)
  BY <1>0, TrafficKept
<1>2. SourceShared(r)
  BY SameTrafficFree DEF Good, SourceShared
<1>3. OneByOne(r)
  <2>1. CASE ~r.app.overlapped
    <3>1. \A P : (Free(r, P) <=> Free(s, P)) /\ (AtMostOne(r, P) <=> AtMostOne(s, P))
      BY SameTrafficFree, Zenon
    <3>2. ~s.app.overlapped
      BY <2>1
    <3>3. /\ AtMostOne(r, Working)
          /\ r.app.waves.body \in {0, r.app.waves.unique_id}
          /\ Free(r, OtherBodies(r.app.waves.unique_id))
      BY <2>1, <3>1, <3>2 DEF Good, OneByOne
    <3>4. ~r.app.progress_tracker => Free(r, Working \ Streaming)
      BY <2>1, <3>1, <3>2 DEF Good, OneByOne
    <3>5. r.app.selected = None =>
            Free(r, OfServerFile) /\ (Free(r, Working) \/ Free(r, Asking))
      BY <2>1, <3>1, <3>2 DEF Good, OneByOne
    <3>6. QED
      BY <3>3, <3>4, <3>5 DEF OneByOne
  <2>2. QED
    BY <2>1 DEF OneByOne
<1>4. QED
  BY <1>1, <1>2, <1>3 DEF Good, SameTraffic

\* A new container takes its place, whose identifier nothing under way has.
LEMMA NewContainer ==
  ASSUME NEW s, NEW r, Good(s), SameTraffic(s, r), Containers(r),
         r.app.waves.unique_id \notin 1..s.app.unique_ids,
         s.app.unique_ids <= r.app.unique_ids, r.app.waves.body = 0,
         r.app.overlapped = s.app.overlapped, r.app.selected = s.app.selected,
         r.app.progress_tracker = s.app.progress_tracker,
         ~s.app.overlapped => Free(s, Working)
  PROVE  Good(r)
<1>1. Traffic(r)
  BY TrafficKept
<1>2. \A x : Known(s, x) => x \notin SignalsWork(r.app.waves.unique_id)
  BY DEF Known, SignalsWork, Numbered
<1>3. Free(s, SignalsWork(r.app.waves.unique_id))
  BY <1>2 DEF Good, Traffic, Free, BagFree, SeqFree
<1>4. SourceShared(r)
  BY <1>3, SameTrafficFree, FreeIsAtMostOne DEF SourceShared
<1>5. OneByOne(r)
  <2>1. CASE ~s.app.overlapped
    <3>1. \A P : (Free(r, P) <=> Free(s, P)) /\ (AtMostOne(r, P) <=> AtMostOne(s, P))
      BY SameTrafficFree, Zenon
    <3>2. Free(r, Working) /\ AtMostOne(r, Working)
      BY <2>1, <3>1, FreeIsAtMostOne
    <3>3. OtherBodies(r.app.waves.unique_id) \subseteq Working
      BY DEF OtherBodies, Bodies, Working
    <3>4. Working \ Streaming \subseteq Working
      OBVIOUS
    <3>5. Free(r, OtherBodies(r.app.waves.unique_id)) /\ Free(r, Working \ Streaming)
      BY <3>2, <3>3, <3>4, FreeSubset
    <3>6. s.app.selected = None => Free(r, OfServerFile)
      BY <2>1, <3>1 DEF Good, OneByOne
    <3>7. QED
      BY <3>2, <3>5, <3>6 DEF OneByOne
  <2>2. QED
    BY <2>1 DEF OneByOne
<1>6. QED
  BY <1>1, <1>4, <1>5 DEF Good, SameTraffic

-----------------------------------------------------------------------------
(* What the items are *)

\* In the kinds of work that the invariant tells apart, y is only where x is.
Follows(y, x) ==
  /\ y \in Working => x \in Working
  /\ y \in Working \ Streaming => x \in Working \ Streaming
  /\ y \in Asking => x \in Asking \cup Working
  /\ y \in OfServerFile => x \in OfServerFile
  /\ y \in Numbered => x \in Numbered /\ y.id = x.id
  /\ \A id : /\ y \in SignalsWork(id) => x \in SignalsWork(id)
             /\ y \in OtherBodies(id) => x \in OtherBodies(id)

LEMMA FollowerFits ==
  ASSUME NEW s, NEW x, NEW y, Fits(s, x), Follows(y, x)
  PROVE  Fits(s, y)
<1>1. Known(s, y)
  BY DEF Fits, Follows, Known
<1>2. QED
  BY <1>1 DEF Fits, Follows

\* y is in none of the kinds: it fits everywhere.
Plain(y) == y \notin Working \cup Asking \cup OfServerFile \cup Numbered

LEMMA PlainFits ==
  ASSUME NEW s, NEW y, Plain(y)
  PROVE  Fits(s, y)
<1>1. /\ \A id : SignalsWork(id) \subseteq Numbered
      /\ \A id : OtherBodies(id) \subseteq Numbered
  BY DEF SignalsWork, OtherBodies, Numbered
<1>2. QED
  BY <1>1 DEF Plain, Fits, Known

LEMMA PlainMessages ==
  /\ Error \in Message /\ Plain(Error)
  /\ Exit \in Message /\ Plain(Exit)
<1>1. Error \in Message /\ Exit \in Message
  BY DEF Error, Exit, Message
<1>2. Plain(Error) /\ Plain(Exit)
  BY DEF Error, Exit, Plain, Working, Streaming, Asking, OfServerFile, Numbered, Bodies, Task, Message
<1>3. QED
  BY <1>1, <1>2

LEMMA TasksAreNoMessages ==
  /\ \A x \in Task : "do" \in DOMAIN x /\ "msg" \notin DOMAIN x
  /\ \A x \in Message : "msg" \in DOMAIN x /\ "do" \notin DOMAIN x
  /\ Task \cap Message = {}
<1>1. \A x \in Task : "do" \in DOMAIN x /\ "msg" \notin DOMAIN x
  BY DEF Task
<1>2. \A x \in Message : "msg" \in DOMAIN x /\ "do" \notin DOMAIN x
  BY DEF Message
<1>3. QED
  BY <1>1, <1>2

\* Messages of the user interface and of batch files.
LEMMA BatchMessages ==
  ASSUME NEW m \in BatchMessage
  PROVE  m \in Message /\ Plain(m)
<1>1. m \in Message
  BY DEF BatchMessage, Message, Sources, Exit, Reload, Add, Pick, Load
<1>2. m.msg \in {"Exit", "ReloadWaveform", "AddVariables", "LoadSurverFileByIndex", "Load"}
  BY DEF BatchMessage, Exit, Reload, Add, Pick, Load
<1>3. Plain(m)
  BY <1>1, <1>2, TasksAreNoMessages
  DEF Plain, Working, Streaming, Asking, OfServerFile, Numbered, Bodies
<1>4. QED
  BY <1>1, <1>3

LEMMA UserMessagesTyped ==
  ASSUME app.file_infos \subseteq Remote
  PROVE  \A m \in UserMessages : m \in Message /\ Plain(m)
<1>1. ASSUME NEW m \in UserMessages
      PROVE  m \in BatchMessage
  BY <1>1 DEF UserMessages, BatchMessage, Exit, Reload, Add, Pick, Load
<1>2. QED
  BY <1>1, BatchMessages

\* Work on no container and with no file of the server.
Single(y) == y \in Working \ Streaming /\ y \notin Asking \cup OfServerFile \cup Numbered

LEMMA SingleTasks ==
  ASSUME NEW source \in Sources, NEW file \in Remote \cup {None}, NEW keep \in BOOLEAN
  PROVE  /\ [do |-> "header", of |-> source, keep |-> keep] \in Task
         /\ Single([do |-> "header", of |-> source, keep |-> keep])
         /\ [do |-> "hierarchy", file |-> file, keep |-> keep] \in Task
         /\ Single([do |-> "hierarchy", file |-> file, keep |-> keep])
<1>1. PICK x, y : /\ x = [do |-> "header", of |-> source, keep |-> keep]
                  /\ y = [do |-> "hierarchy", file |-> file, keep |-> keep]
  OBVIOUS
<1>2. x \in Task /\ y \in Task
  BY <1>1 DEF Task
<1>3. Single(x) /\ Single(y)
  BY <1>1, <1>2, TasksAreNoMessages
  DEF Single, Working, Streaming, Asking, OfServerFile, Numbered, Bodies
<1>4. QED
  BY <1>1, <1>2, <1>3

LEMMA SingleMessages ==
  ASSUME NEW source \in Sources, NEW keep \in BOOLEAN, NEW remote \in BOOLEAN
  PROVE  /\ Header(source, remote, keep) \in Message /\ Single(Header(source, remote, keep))
         /\ Downloaded(source, keep) \in Message /\ Single(Downloaded(source, keep))
         /\ Stop \in Message /\ Single(Stop)
<1>1. PICK x, y : x = Header(source, remote, keep) /\ y = Downloaded(source, keep)
  OBVIOUS
<1>2. x \in Message /\ y \in Message /\ Stop \in Message
  BY <1>1 DEF Message, Header, Downloaded, Stop
<1>3. x.msg = "WaveHeaderLoaded" /\ y.msg = "FileDownloaded" /\ Stop.msg = "StopProgressTracker"
  BY <1>1 DEF Header, Downloaded, Stop
<1>4. Single(x) /\ Single(y) /\ Single(Stop)
  BY <1>2, <1>3, TasksAreNoMessages
  DEF Single, Working, Streaming, Asking, OfServerFile, Numbered, Bodies
<1>5. QED
  BY <1>1, <1>2, <1>4

LEMMA DownloadTask ==
  ASSUME NEW source \in Sources, NEW file \in Remote \cup {None}, NEW keep \in BOOLEAN,
         NEW force_switch \in BOOLEAN, NEW y,
         y = [do |-> "download", of |-> source, keep |-> keep,
              force_switch |-> force_switch, file |-> file]
  PROVE  /\ y \in Task /\ y \in Working \ Streaming /\ y \notin Asking \cup Numbered
         /\ y \in OfServerFile <=> file # None
<1>1. y \in Task /\ y.do = "download" /\ y.file = file
  BY DEF Task
<1>2. y \notin Message
  BY <1>1, TasksAreNoMessages
<1>3. y \in Working \ Streaming /\ y \notin Asking \cup Numbered
  BY <1>1, <1>2 DEF Working, Streaming, Asking, Numbered, Bodies
<1>4. y \in OfServerFile <=> file # None
  BY <1>1 DEF OfServerFile
<1>5. QED
  BY <1>1, <1>3, <1>4

LEMMA ReloadTask ==
  ASSUME NEW file \in Remote \cup {None}, NEW keep \in BOOLEAN, NEW y,
         y = [do |-> "reload", file |-> file, keep |-> keep]
  PROVE  /\ y \in Task /\ y \in Working \ Streaming /\ y \notin Asking \cup Numbered
         /\ y \in OfServerFile
<1>1. y \in Task /\ y.do = "reload"
  BY DEF Task
<1>2. y \notin Message
  BY <1>1, TasksAreNoMessages
<1>3. y \in Working \ Streaming /\ y \notin Asking \cup Numbered
  BY <1>1, <1>2 DEF Working, Streaming, Asking, Numbered, Bodies
<1>4. y \in OfServerFile
  BY <1>1 DEF OfServerFile
<1>5. QED
  BY <1>1, <1>3, <1>4

LEMMA StatusItems ==
  /\ [do |-> "status"] \in Task /\ Status \in Message
  /\ [do |-> "status"] \in Asking /\ Status \in Asking
  /\ [do |-> "status"] \notin Working \cup OfServerFile \cup Numbered
  /\ Status \notin Working \cup OfServerFile \cup Numbered
<1>1. PICK x, y : x = [do |-> "status"] /\ y = Status
  OBVIOUS
<1>2. x \in Task /\ y \in Message /\ x.do = "status" /\ y.msg = "SetSurverStatus"
  BY <1>1 DEF Task, Message, Status
<1>3. /\ x \in Asking /\ y \in Asking
      /\ x \notin Working \cup OfServerFile \cup Numbered
      /\ y \notin Working \cup OfServerFile \cup Numbered
  BY <1>2, TasksAreNoMessages DEF Working, Streaming, Asking, OfServerFile, Numbered, Bodies
<1>4. QED
  BY <1>1, <1>2, <1>3

LEMMA StreamsMessage ==
  ASSUME NEW source \in Sources
  PROVE  /\ Streams(source) \in Message /\ Streams(source) \in Working /\ Streams(source) \in Streaming
         /\ Streams(source) \notin Asking \cup OfServerFile \cup Numbered
<1>1. PICK y : y = Streams(source)
  OBVIOUS
<1>2. y \in Message /\ y.msg = "TransactionStreamsLoaded"
  BY <1>1 DEF Message, Streams
<1>3. y \in Working /\ y \in Streaming /\ y \notin Asking \cup OfServerFile \cup Numbered
  BY <1>2, TasksAreNoMessages DEF Working, Streaming, Asking, OfServerFile, Numbered, Bodies
<1>4. QED
  BY <1>1, <1>2, <1>3

\* Bodies and requests for signals, and their answers.
ForBody(x, id) ==
  /\ x \in Working \ Streaming /\ x \notin Asking \cup OfServerFile
  /\ x \in Numbered /\ x.id = id
  /\ \A i : x \notin SignalsWork(i) /\ (x \in OtherBodies(i) <=> id # i)

LEMMA BodyTask ==
  ASSUME NEW id \in Nat, NEW x, x = [do |-> "body", id |-> id] \/ x = [do |-> "time table", id |-> id]
  PROVE  x \in Task /\ ForBody(x, id)
<1>1. x \in Task /\ x.do \in {"body", "time table"} /\ x.id = id
  <2>1. CASE x = [do |-> "body", id |-> id]
    BY <2>1 DEF Task
  <2>2. CASE x = [do |-> "time table", id |-> id]
    BY <2>2 DEF Task
  <2>3. QED
    BY <2>1, <2>2
<1>2. QED
  BY <1>1, TasksAreNoMessages
  DEF ForBody, Working, Streaming, Asking, OfServerFile, Numbered, Bodies, OtherBodies, SignalsWork

LEMMA BodyMessage ==
  ASSUME NEW id \in Nat, NEW remote \in BOOLEAN, NEW x, x = Body(remote, id)
  PROVE  x \in Message /\ ForBody(x, id)
<1>1. x \in Message /\ x.msg = "WaveBodyLoaded" /\ x.id = id
  BY DEF Message, Body
<1>2. QED
  BY <1>1, TasksAreNoMessages
  DEF ForBody, Working, Streaming, Asking, OfServerFile, Numbered, Bodies, OtherBodies, SignalsWork

ForSignals(x, id) ==
  /\ x \in Working \ Streaming /\ x \notin Asking \cup OfServerFile
  /\ x \in Numbered /\ x.id = id
  /\ \A i : x \notin OtherBodies(i) /\ (x \in SignalsWork(i) <=> id = i)

LEMMA SignalsTask ==
  ASSUME NEW id \in Nat, NEW remote \in BOOLEAN, NEW of \in SUBSET Signals,
         NEW x, x = [do |-> "signals", id |-> id, of |-> of, remote |-> remote]
  PROVE  x \in Task /\ ForSignals(x, id)
<1>1. x \in Task /\ x.do = "signals" /\ x.id = id
  BY DEF Task
<1>2. QED
  BY <1>1, TasksAreNoMessages
  DEF ForSignals, Working, Streaming, Asking, OfServerFile, Numbered, Bodies, OtherBodies,
      SignalsWork

LEMMA SignalsMessage ==
  ASSUME NEW id \in Nat, NEW of \in SUBSET Signals, NEW x, x = Loaded(id, of)
  PROVE  x \in Message /\ ForSignals(x, id)
<1>1. x \in Message /\ x.msg = "SignalsLoaded" /\ x.id = id
  BY DEF Message, Loaded
<1>2. QED
  BY <1>1, TasksAreNoMessages
  DEF ForSignals, Working, Streaming, Asking, OfServerFile, Numbered, Bodies, OtherBodies,
      SignalsWork

-----------------------------------------------------------------------------
(* Progress, reports and beginnings *)

\* r differs from s in what is shown to the user.
Alike(s, r) ==
  /\ SameTraffic(s, r)
  /\ r.app.waves = s.app.waves /\ r.app.unique_ids = s.app.unique_ids
  /\ r.app.overlapped = s.app.overlapped /\ r.app.selected = s.app.selected
  /\ r.app.file_infos = s.app.file_infos

\* A piece of work can begin.
Room(s) ==
  ~s.app.overlapped => Free(s, Working) /\ (s.app.selected = None => Free(s, Asking))

LEMMA AlikeFits ==
  ASSUME NEW s, NEW r, Alike(s, r)
  PROVE  /\ Room(s) => Room(r)
         /\ \A y : Fits(s, y) /\ (r.app.progress_tracker \/ y \notin Working \ Streaming)
                     => Fits(r, y)
<1>1. \A P : Free(r, P) <=> Free(s, P)
  BY SameTrafficFree DEF Alike
<1>2. \A y : Known(r, y) <=> Known(s, y)
  BY DEF Alike, Known
<1>3. Room(s) => Room(r)
  BY <1>1 DEF Room, Alike
<1>4. ASSUME NEW y, Fits(s, y), r.app.progress_tracker \/ y \notin Working \ Streaming
      PROVE  Fits(r, y)
  BY <1>1, <1>2, <1>4 DEF Fits, Alike
<1>5. QED
  BY <1>3, <1>4

LEMMA WorkHasRoom ==
  ASSUME NEW s, NEW y \in Working, Fits(s, y)
  PROVE  Room(s)
BY DEF Fits, Room

LEMMA SingleFits ==
  ASSUME NEW s, NEW y, Room(s), s.app.progress_tracker, Single(y)
  PROVE  Fits(s, y)
<1>1. \A id : SignalsWork(id) \subseteq Numbered /\ OtherBodies(id) \subseteq Numbered
  BY DEF SignalsWork, OtherBodies, Numbered
<1>2. QED
  BY <1>1 DEF Single, Fits, Room, Known

LEMMA SingleFollows ==
  ASSUME NEW s, NEW x \in Working \ Streaming, NEW y, Fits(s, x), Single(y)
  PROVE  Fits(s, y)
<1>1. \A id : SignalsWork(id) \subseteq Numbered /\ OtherBodies(id) \subseteq Numbered
  BY DEF SignalsWork, OtherBodies, Numbered
<1>2. Follows(y, x)
  BY <1>1 DEF Single, Follows
<1>3. QED
  BY <1>2, FollowerFits

LEMMA ProgressInvariant ==
  ASSUME NEW s, NEW b \in BOOLEAN, Good(s),
         b \/ s.app.overlapped \/ Free(s, Working \ Streaming)
  PROVE  Good(Progress(s, b)) /\ Alike(s, Progress(s, b)) /\ Progress(s, b).app.progress_tracker = b
<1>1. PICK r : r = Progress(s, b)
  OBVIOUS
<1>2. SameTraffic(s, r) /\ r.app = [s.app EXCEPT !.progress_tracker = b]
  BY <1>1 DEF Progress, SameTraffic, Good, Formed
<1>3. s.app \in App
  BY DEF Good, Containers
<1>4. r.app \in App /\ Alike(s, r) /\ r.app.progress_tracker = b
  BY <1>2, <1>3 DEF App, Alike
<1>5. Containers(r)
  BY <1>4 DEF Good, Containers, Alike
<1>6. Good(r)
  BY <1>2, <1>4, <1>5, AppInvariant DEF Alike, Good, OneByOne
<1>7. QED
  BY <1>1, <1>4, <1>6

LEMMA ReportInvariant ==
  ASSUME NEW s, Good(s)
  PROVE  Good(Report(s)) /\ Alike(s, Report(s))
<1>1. PICK r : r = Report(s)
  OBVIOUS
<1>2. SameTraffic(s, r) /\ r.app = [s.app EXCEPT !.trouble = TRUE]
  BY <1>1 DEF Report, SameTraffic, Good, Formed
<1>3. s.app \in App
  BY DEF Good, Containers
<1>4. r.app \in App /\ Alike(s, r) /\ r.app.progress_tracker = s.app.progress_tracker
  BY <1>2, <1>3 DEF App, Alike
<1>5. Containers(r)
  BY <1>4 DEF Good, Containers, Alike
<1>6. Good(r)
  BY <1>2, <1>4, <1>5, AppInvariant DEF Alike, Good, OneByOne
<1>7. QED
  BY <1>1, <1>4, <1>6

\* An operation that fails sends an error, whatever it was about.
LEMMA OutcomesInvariant ==
  ASSUME NEW s, NEW good, Good(s), Good(good)
  PROVE  \A r \in Outcomes(s, good) : Good(r)
<1>1. PICK t : t = Report(s)
  OBVIOUS
<1>2. Good(t)
  BY <1>1, ReportInvariant
<1>3. Good(Send(t, Error))
  BY <1>2, PlainMessages, PlainFits, SendInvariant
<1>4. QED
  BY <1>1, <1>3 DEF Outcomes, Fail

LEMMA BeginInvariant ==
  ASSUME NEW s, Good(s)
  PROVE  /\ Good(Begin(s)) /\ SameTraffic(s, Begin(s))
         /\ Begin(s).app = [s.app EXCEPT !.overlapped = Begin(s).app.overlapped]
         /\ s.app.overlapped => Begin(s).app.overlapped
         /\ ~Begin(s).app.overlapped => Free(s, Working) /\ Free(s, Asking) /\ Free(s, OfServerFile)
<1>1. PICK r : r = Begin(s)
  OBVIOUS
<1>2. PICK b \in BOOLEAN : b = (s.app.overlapped \/ Work(s) # {})
  OBVIOUS
<1>3. SameTraffic(s, r) /\ r.app = [s.app EXCEPT !.overlapped = b]
  BY <1>1, <1>2 DEF Begin, SameTraffic, Good, Formed
<1>4. s.app \in App
  BY DEF Good, Containers
<1>5. /\ r.app \in App /\ r.app.overlapped = b
      /\ r.app.waves = s.app.waves /\ r.app.unique_ids = s.app.unique_ids
      /\ r.app.selected = s.app.selected /\ r.app.progress_tracker = s.app.progress_tracker
  BY <1>3, <1>4 DEF App
<1>6. Containers(r)
  BY <1>5 DEF Good, Containers
<1>7. Good(r)
  BY <1>2, <1>3, <1>5, <1>6, AppInvariant DEF Good, OneByOne
<1>8. ASSUME ~b
      PROVE  Free(s, Working) /\ Free(s, Asking) /\ Free(s, OfServerFile)
  <2>1. Work(s) = {}
    BY <1>2, <1>8
  <2>2. \A x \in Working \cup Asking \cup OfServerFile : IsWork(x)
    BY TasksAreNoMessages DEF Working, Streaming, Asking, OfServerFile, IsWork
  <2>3. \A x \in Pending(s) : x \notin Working \cup Asking \cup OfServerFile
    BY <2>1, <2>2 DEF Work
  <2>4. /\ DOMAIN s.tasks \subseteq Pending(s)
        /\ \A i \in 1..Len(s.channel) : s.channel[i] \in Pending(s)
        /\ \A i \in 1..Len(s.msgs) : s.msgs[i] \in Pending(s)
    <3>1. s.channel \in Seq(Message) /\ s.msgs \in Seq(Message)
      BY DEF Good, Traffic
    <3>2. DOMAIN s.channel = 1..Len(s.channel) /\ DOMAIN s.msgs = 1..Len(s.msgs)
      BY <3>1, LenProperties
    <3>3. QED
      BY <3>2 DEF Pending, BagToSet, ToSet
  <2>5. QED
    BY <2>3, <2>4 DEF Free, BagFree, SeqFree
<1>9. QED
  BY <1>1, <1>2, <1>3, <1>5, <1>7, <1>8

-----------------------------------------------------------------------------
(* Requests for signals *)

\* The signals that are asked for.
Wanted(s, ids) == s.app.waves.to_be_loaded \cup {x \in ids : ~Has(s.app.waves, x)}

CanRequest(s) == s.app.waves.handle /\ s.app.waves.body # 0

Request(s, ids) ==
  [do |-> "signals", id |-> s.app.waves.unique_id, of |-> Wanted(s, ids),
   remote |-> s.app.waves.remote]

\* The container without the source stays otherwise.
SameContainer(s, r) ==
  /\ r.app.unique_ids = s.app.unique_ids /\ r.app.overlapped = s.app.overlapped
  /\ r.app.selected = s.app.selected /\ r.app.file_infos = s.app.file_infos
  /\ r.app.displayed = s.app.displayed /\ r.app.trouble = s.app.trouble
  /\ r.app.panic = s.app.panic
  /\ r.app.waves.kind = s.app.waves.kind /\ r.app.waves.source = s.app.waves.source
  /\ r.app.waves.unique_id = s.app.waves.unique_id /\ r.app.waves.body = s.app.waves.body
  /\ r.app.waves.remote = s.app.waves.remote /\ r.app.waves.signals = s.app.waves.signals

\* Without a body or a source the signals are queued.
LEMMA SignalsQueued ==
  ASSUME NEW s, NEW ids \in SUBSET Signals, Good(s), ~CanRequest(s) \/ Wanted(s, ids) = {},
         NEW r, r = LoadSignals(s, ids)
  PROVE  /\ Good(r) /\ SameTraffic(s, r) /\ SameContainer(s, r)
         /\ r.app.progress_tracker = s.app.progress_tracker
         /\ r.app.waves.handle = s.app.waves.handle
         /\ r.app.waves.to_be_loaded = Wanted(s, ids)
<1>1. PICK to : to = Wanted(s, ids)
  OBVIOUS
<1>2. r = [s EXCEPT !.app.waves.to_be_loaded = to]
  BY <1>1, Zenon DEF LoadSignals, Wanted, CanRequest
<1>3. PICK w : w = [s.app.waves EXCEPT !.to_be_loaded = to]
  OBVIOUS
<1>4. SameTraffic(s, r) /\ r.app = [s.app EXCEPT !.waves = w]
  BY <1>2, <1>3 DEF SameTraffic, Good, Formed
<1>5. s.app \in App /\ s.app.waves \in Waves
  BY DEF Good, Containers, App
<1>6. to \subseteq Signals
  BY <1>1, <1>5 DEF Wanted, Waves
<1>7. /\ w \in Waves /\ w.to_be_loaded = to /\ w.handle = s.app.waves.handle
      /\ w.kind = s.app.waves.kind /\ w.source = s.app.waves.source
      /\ w.unique_id = s.app.waves.unique_id /\ w.body = s.app.waves.body
      /\ w.remote = s.app.waves.remote /\ w.signals = s.app.waves.signals
  BY <1>3, <1>5, <1>6 DEF Waves
<1>8. /\ r.app \in App /\ r.app.waves = w /\ SameContainer(s, r)
      /\ r.app.progress_tracker = s.app.progress_tracker
  BY <1>4, <1>5, <1>7 DEF App, SameContainer
<1>9. Containers(r)
  BY <1>7, <1>8 DEF Good, Containers, SameContainer
<1>10. Good(r)
  BY <1>4, <1>7, <1>8, <1>9, AppInvariant DEF SameContainer, Good, OneByOne
<1>11. QED
  BY <1>1, <1>4, <1>7, <1>8, <1>10

\* The state with the application's state a and one more task y.
WithTask(s, a, y) ==
  [app |-> a, tasks |-> s.tasks (+) SetToBag({y}), channel |-> s.channel, msgs |-> s.msgs]

Lent(w) == [w EXCEPT !.to_be_loaded = {}, !.handle = FALSE]

LEMMA RequestedState ==
  ASSUME NEW s, NEW ids, Formed(s), s.app \in App, CanRequest(s), Wanted(s, ids) # {}
  PROVE  LoadSignals(s, ids) =
           WithTask(s, [s.app EXCEPT !.waves = Lent(s.app.waves), !.progress_tracker = TRUE],
                    Request(s, ids))
<1>1. PICK y : y = Request(s, ids)
  OBVIOUS
<1>2. PICK w : w = Lent(s.app.waves)
  OBVIOUS
<1>3. PICK c : c = [s EXCEPT !.app.waves.to_be_loaded = {}, !.app.waves.handle = FALSE]
  OBVIOUS
<1>4. LoadSignals(s, ids) = Progress(Spawn(c, y), TRUE)
  BY <1>1, <1>3, Zenon DEF LoadSignals, Wanted, CanRequest, Request
<1>5. PICK d : d = [s.app EXCEPT !.waves = w]
  OBVIOUS
<1>6. c = [s EXCEPT !.app = d]
  BY <1>2, <1>3, <1>5 DEF Lent, App, Formed
<1>7. c.app = d /\ c.tasks = s.tasks /\ c.channel = s.channel /\ c.msgs = s.msgs /\ Formed(c)
  BY <1>6 DEF Formed
<1>8. Progress(Spawn(c, y), TRUE) = WithTask(s, [d EXCEPT !.progress_tracker = TRUE], y)
  <2>1. PICK u : u = Spawn(c, y)
    OBVIOUS
  <2>2. u = WithTask(s, d, y)
    BY <1>7, <2>1 DEF Formed, Spawn, WithTask
  <2>3. PICK r : r = Progress(u, TRUE)
    OBVIOUS
  <2>4. /\ r.app = [u.app EXCEPT !.progress_tracker = TRUE]
        /\ r.tasks = u.tasks /\ r.channel = u.channel /\ r.msgs = u.msgs /\ Formed(r)
    BY <2>2, <2>3 DEF Progress, WithTask, Formed
  <2>5. u.app = d /\ u.tasks = s.tasks (+) SetToBag({y}) /\ u.channel = s.channel /\ u.msgs = s.msgs
    BY <2>2 DEF WithTask
  <2>6. QED
    BY <2>1, <2>3, <2>4, <2>5 DEF WithTask, Formed
<1>9. [d EXCEPT !.progress_tracker = TRUE] = [s.app EXCEPT !.waves = w, !.progress_tracker = TRUE]
  BY <1>5
<1>10. QED
  BY <1>1, <1>2, <1>4, <1>8, <1>9

\* With both the source goes to a task.
LEMMA SignalsRequested ==
  ASSUME NEW s, NEW ids \in SUBSET Signals, Good(s), Room(s), CanRequest(s),
         Wanted(s, ids) # {}, NEW r, r = LoadSignals(s, ids)
  PROVE  /\ Good(r) /\ SameContainer(s, r)
         /\ r.app.waves.handle = FALSE /\ r.app.waves.to_be_loaded = {}
         /\ Request(s, ids) \in SignalsWork(s.app.waves.unique_id)
         /\ r.tasks = s.tasks (+) SetToBag({Request(s, ids)})
         /\ r.channel = s.channel /\ r.msgs = s.msgs
<1>1. PICK y : y = Request(s, ids)
  OBVIOUS
<1>2. PICK a : a = [s EXCEPT !.app.waves.to_be_loaded = {}, !.app.waves.handle = FALSE]
  OBVIOUS
<1>3. r = Progress(Spawn(a, y), TRUE)
  BY <1>1, <1>2, Zenon DEF LoadSignals, Wanted, CanRequest, Request
<1>4. PICK w : w = [s.app.waves EXCEPT !.to_be_loaded = {}, !.handle = FALSE]
  OBVIOUS
<1>5. SameTraffic(s, a) /\ a.app = [s.app EXCEPT !.waves = w]
  BY <1>2, <1>4 DEF SameTraffic, Good, Formed
<1>6. s.app \in App /\ s.app.waves \in Waves
  BY DEF Good, Containers, App
<1>7. /\ w \in Waves /\ w.to_be_loaded = {} /\ w.handle = FALSE
      /\ w.kind = s.app.waves.kind /\ w.source = s.app.waves.source
      /\ w.unique_id = s.app.waves.unique_id /\ w.body = s.app.waves.body
      /\ w.remote = s.app.waves.remote /\ w.signals = s.app.waves.signals
  BY <1>4, <1>6 DEF Waves
<1>8. PICK b : b = [a.app EXCEPT !.progress_tracker = TRUE]
  OBVIOUS
<1>9. PICK c : c = [a EXCEPT !.app = b]
  OBVIOUS
<1>10. a.app \in App /\ a.app.waves = w
  BY <1>5, <1>6, <1>7 DEF App
<1>11. /\ SameTraffic(s, c) /\ c.app = b /\ c.app \in App /\ c.app.waves = w
       /\ SameContainer(s, c) /\ c.app.progress_tracker = TRUE
  <2>1. SameTraffic(s, c) /\ c.app = b
    BY <1>5, <1>9 DEF SameTraffic, Formed
  <2>2. b \in App /\ b.waves = w /\ b.progress_tracker = TRUE
    BY <1>8, <1>10 DEF App
  <2>3. /\ b.waves = w /\ b.unique_ids = s.app.unique_ids /\ b.overlapped = s.app.overlapped
        /\ b.selected = s.app.selected /\ b.file_infos = s.app.file_infos
        /\ b.displayed = s.app.displayed /\ b.trouble = s.app.trouble
        /\ b.panic = s.app.panic
    <3>1. /\ a.app.unique_ids = s.app.unique_ids /\ a.app.overlapped = s.app.overlapped
          /\ a.app.selected = s.app.selected /\ a.app.file_infos = s.app.file_infos
          /\ a.app.displayed = s.app.displayed /\ a.app.trouble = s.app.trouble
          /\ a.app.panic = s.app.panic
      BY <1>5, <1>6 DEF App
    <3>2. QED
      BY <1>8, <1>10, <2>2, <3>1 DEF App
  <2>4. SameContainer(s, c)
    BY <1>7, <2>1, <2>3 DEF SameContainer
  <2>5. QED
    BY <2>1, <2>2, <2>4
<1>12. Containers(c)
  BY <1>7, <1>11 DEF Good, Containers, SameContainer
<1>13. Free(s, SignalsWork(s.app.waves.unique_id))
  BY DEF CanRequest, Good, SourceShared
<1>14. Good(c)
  BY <1>7, <1>11, <1>12, <1>13, AppInvariant DEF SameContainer, Good, OneByOne
<1>15. /\ y \in Task /\ y \in Working \ Streaming /\ y \notin Asking \cup OfServerFile
       /\ y \in Numbered /\ y.id = s.app.waves.unique_id
       /\ \A i : y \notin OtherBodies(i) /\ (y \in SignalsWork(i) <=> s.app.waves.unique_id = i)
  <2>1. s.app.waves.unique_id \in Nat /\ s.app.waves.remote \in BOOLEAN
    BY <1>6 DEF Waves
  <2>2. Wanted(s, ids) \in SUBSET Signals
    BY <1>6 DEF Wanted, Waves
  <2>3. PICK id, remote, of : /\ id = s.app.waves.unique_id /\ remote = s.app.waves.remote
                              /\ of = Wanted(s, ids)
                              /\ id \in Nat /\ remote \in BOOLEAN /\ of \in SUBSET Signals
    BY <2>1, <2>2
  <2>4. y = [do |-> "signals", id |-> id, of |-> of, remote |-> remote]
    BY <1>1, <2>3 DEF Request
  <2>5. QED
    BY <2>3, <2>4, SignalsTask DEF ForSignals
<1>16. Fits(c, y)
  <2>1. s.app.waves.body \in Nat /\ s.app.waves.body # 0
    BY <1>6 DEF CanRequest, Waves
  <2>2. \A P : Free(c, P) <=> Free(s, P)
    BY <1>11, SameTrafficFree
  <2>3. Known(c, y)
    <3>1. s.app.waves.unique_id \in 1..s.app.unique_ids
      BY <2>1 DEF Good, Containers
    <3>2. QED
      BY <1>11, <1>15, <3>1 DEF Known, SameContainer
  <2>4. QED
    BY <1>7, <1>11, <1>13, <1>15, <2>1, <2>2, <2>3 DEF Fits, SameContainer, Room
<1>17. Good(Spawn(c, y)) /\ Spawn(c, y).app = c.app
  BY <1>14, <1>15, <1>16, SpawnInvariant
<1>18. Spawn(c, y) = r
  BY <1>3, <1>5, <1>8, <1>9 DEF SameTraffic, Formed, Spawn, Progress
<1>19. /\ r.tasks = s.tasks (+) SetToBag({y}) /\ r.channel = s.channel /\ r.msgs = s.msgs
  BY <1>11, <1>18 DEF SameTraffic, Formed, Spawn
<1>20. QED
  BY <1>1, <1>7, <1>11, <1>15, <1>17, <1>18, <1>19 DEF SameContainer

LEMMA LoadSignalsInvariant ==
  ASSUME NEW s, NEW ids \in SUBSET Signals, Good(s), CanRequest(s) => Room(s)
  PROVE  /\ Good(LoadSignals(s, ids)) /\ SameContainer(s, LoadSignals(s, ids))
         /\ CanRequest(LoadSignals(s, ids)) => Room(LoadSignals(s, ids))
<1>1. PICK r : r = LoadSignals(s, ids)
  OBVIOUS
<1>2. CASE ~CanRequest(s) \/ Wanted(s, ids) = {}
  <2>1. /\ Good(r) /\ SameTraffic(s, r) /\ SameContainer(s, r)
        /\ r.app.waves.handle = s.app.waves.handle
    BY <1>1, <1>2, SignalsQueued
  <2>2. CanRequest(r) => CanRequest(s)
    BY <2>1 DEF SameContainer, CanRequest
  <2>3. \A P : Free(r, P) <=> Free(s, P)
    BY <2>1, SameTrafficFree
  <2>4. CanRequest(r) => Room(r)
    BY <2>1, <2>2, <2>3 DEF SameContainer, Room
  <2>5. QED
    BY <1>1, <2>1, <2>4
<1>3. CASE CanRequest(s) /\ Wanted(s, ids) # {}
  <2>1. Good(r) /\ SameContainer(s, r) /\ r.app.waves.handle = FALSE
    BY <1>1, <1>3, SignalsRequested
  <2>2. QED
    BY <1>1, <2>1 DEF CanRequest
<1>4. QED
  BY <1>2, <1>3

-----------------------------------------------------------------------------
(* Starting a load *)

\* A task is spawned and its progress shown.
LEMMA WorkInvariant ==
  ASSUME NEW s, NEW y \in Task, Good(s), Fits(Progress(s, TRUE), y)
  PROVE  Good(Progress(Spawn(s, y), TRUE))
<1>1. PICK t : t = Progress(s, TRUE)
  OBVIOUS
<1>2. Good(t) /\ Fits(t, y)
  BY <1>1, ProgressInvariant
<1>3. Good(Spawn(t, y))
  BY <1>2, SpawnInvariant
<1>4. Spawn(t, y) = Progress(Spawn(s, y), TRUE)
  BY <1>1 DEF Good, Formed, Spawn, Progress
<1>5. QED
  BY <1>3, <1>4

LEMMA HeaderInvariant ==
  ASSUME NEW s, NEW source \in Sources, NEW keep \in BOOLEAN, Good(s), Room(s)
  PROVE  Good(Progress(Spawn(s, [do |-> "header", of |-> source, keep |-> keep]), TRUE))
<1>1. PICK t : t = Progress(s, TRUE)
  OBVIOUS
<1>2. Room(t) /\ t.app.progress_tracker
  BY <1>1, ProgressInvariant, AlikeFits
<1>3. PICK y : y = [do |-> "header", of |-> source, keep |-> keep]
  OBVIOUS
<1>4. y \in Task /\ Fits(t, y)
  BY <1>2, <1>3, SingleTasks, SingleFits
<1>5. QED
  BY <1>1, <1>3, <1>4, WorkInvariant

LEMMA StreamsInvariant ==
  ASSUME NEW s, NEW source \in Sources, Good(s), Room(s)
  PROVE  Good(Send(s, Streams(source)))
<1>1. PICK y : y = Streams(source)
  OBVIOUS
<1>2. /\ y \in Message /\ y \in Working /\ y \in Streaming
      /\ y \notin Asking \cup OfServerFile \cup Numbered
  BY <1>1, StreamsMessage
<1>3. \A id : SignalsWork(id) \subseteq Numbered /\ OtherBodies(id) \subseteq Numbered
  BY DEF SignalsWork, OtherBodies, Numbered
<1>4. Fits(s, y)
  BY <1>2, <1>3 DEF Fits, Known, Room
<1>5. QED
  BY <1>1, <1>2, <1>4, SendInvariant

LEMMA LoadFromFileInvariant ==
  ASSUME NEW s, NEW source \in Sources, NEW keep \in BOOLEAN, Good(s), Room(s)
  PROVE  \A r \in LoadFromFile(s, source, keep) \cup LoadFromBytes(s, source, keep) : Good(r)
BY HeaderInvariant, StreamsInvariant, OutcomesInvariant DEF LoadFromFile, LoadFromBytes

LEMMA LoadFromUrlInvariant ==
  ASSUME NEW s, NEW source \in Sources, NEW keep \in BOOLEAN, NEW force_switch \in BOOLEAN,
         NEW file \in Remote \cup {None}, Good(s), Room(s),
         NEW r, r = LoadFromUrl(s, source, keep, force_switch, file)
  PROVE  /\ Good(r) /\ r.app.selected = IF file # None THEN file ELSE s.app.selected
<1>1. PICK file2 : file2 = IF file # None THEN file ELSE s.app.selected
  OBVIOUS
<1>2. PICK t : t = [s EXCEPT !.app.selected = file2]
  OBVIOUS
<1>3. SameTraffic(s, t) /\ t.app = [s.app EXCEPT !.selected = file2]
  BY <1>2 DEF SameTraffic, Good, Formed
<1>4. s.app \in App
  BY DEF Good, Containers
<1>5. /\ t.app \in App /\ t.app.waves = s.app.waves /\ t.app.unique_ids = s.app.unique_ids
      /\ t.app.overlapped = s.app.overlapped /\ t.app.selected = file2
      /\ t.app.progress_tracker = s.app.progress_tracker
  BY <1>1, <1>3, <1>4 DEF App
<1>6. Good(t)
  <2>1. Containers(t)
    BY <1>5 DEF Good, Containers
  <2>2. t.app.selected = None => s.app.selected = None
    BY <1>1, <1>5
  <2>3. QED
    BY <1>3, <1>5, <2>1, <2>2, AppInvariant DEF Good, OneByOne
<1>7. Room(t)
  <2>1. \A P : Free(t, P) <=> Free(s, P)
    BY <1>3, SameTrafficFree
  <2>2. t.app.selected = None => s.app.selected = None
    BY <1>1, <1>5
  <2>3. QED
    BY <1>5, <2>1, <2>2 DEF Room
<1>8. PICK y : y = [do |-> "download", of |-> source, keep |-> keep,
                    force_switch |-> force_switch, file |-> file]
  OBVIOUS
<1>9. /\ y \in Task /\ y \in Working \ Streaming /\ y \notin Asking \cup Numbered
      /\ y \in OfServerFile <=> file # None
  BY <1>8, DownloadTask
<1>10. PICK u : u = Progress(t, TRUE)
  OBVIOUS
<1>11. Room(u) /\ Alike(t, u) /\ u.app.progress_tracker
  BY <1>6, <1>7, <1>10, ProgressInvariant, AlikeFits
<1>12. u.app.selected = None => file = None
  BY <1>1, <1>5, <1>11 DEF Alike
<1>13. \A id : SignalsWork(id) \subseteq Numbered /\ OtherBodies(id) \subseteq Numbered
  BY DEF SignalsWork, OtherBodies, Numbered
<1>14. Fits(u, y)
  BY <1>9, <1>11, <1>12, <1>13 DEF Fits, Known, Room
<1>15. Good(Progress(Spawn(t, y), TRUE))
  BY <1>6, <1>9, <1>10, <1>14, WorkInvariant
<1>16. r = Progress(Spawn(t, y), TRUE)
  BY <1>1, <1>2, <1>8, Zenon DEF LoadFromUrl
<1>17. r.app.selected = file2
  <2>1. PICK v : v = Spawn(t, y)
    OBVIOUS
  <2>2. v.app = t.app /\ Formed(v)
    BY <1>3, <2>1 DEF Spawn, SameTraffic, Formed
  <2>3. PICK z : z = Progress(v, TRUE)
    OBVIOUS
  <2>4. z.app = [v.app EXCEPT !.progress_tracker = TRUE]
    BY <2>2, <2>3 DEF Progress, Formed
  <2>5. z.app.selected = file2
    <3>1. z.app = [t.app EXCEPT !.progress_tracker = TRUE]
      BY <2>2, <2>4
    <3>2. t.app \in App /\ t.app.selected = file2
      BY <1>5
    <3>3. QED
      BY <3>1, <3>2 DEF App
  <2>6. QED
    BY <1>16, <2>1, <2>3, <2>5
<1>18. QED
  BY <1>1, <1>15, <1>16, <1>17

LEMMA MessageFields ==
  ASSUME NEW m \in Message
  PROVE  /\ m.msg \in {"Load", "FileDownloaded"} => m.of \in Sources /\ m.keep \in BOOLEAN
         /\ m.msg = "LoadSurverFileByIndex" => m.of \in Remote /\ m.keep \in BOOLEAN
         /\ m.msg = "AddVariables" => m.of \in Signals
         /\ m.msg = "WaveHeaderLoaded" =>
              m.of \in Sources /\ m.remote \in BOOLEAN /\ m.keep \in BOOLEAN
         /\ m.msg = "WaveBodyLoaded" => m.remote \in BOOLEAN /\ m.id \in Nat
         /\ m.msg = "SignalsLoaded" => m.id \in Nat /\ m.of \in SUBSET Signals
         /\ m.msg = "TransactionStreamsLoaded" => m.of \in Sources
         /\ m.msg \in {"Load", "LoadSurverFileByIndex", "ReloadWaveform", "AddVariables",
                       "WaveHeaderLoaded", "WaveBodyLoaded", "SignalsLoaded",
                       "TransactionStreamsLoaded", "FileDownloaded", "SetSurverStatus",
                       "StopProgressTracker", "Error", "Exit"}
BY DEF Message

\* A beginning operation has room.
LEMMA BeginRoom ==
  ASSUME NEW s, Good(s)
  PROVE  /\ Good(Begin(s)) /\ Room(Begin(s)) /\ SameTraffic(s, Begin(s))
         /\ Begin(s).app.waves = s.app.waves /\ Begin(s).app.file_infos = s.app.file_infos
         /\ Begin(s).app.selected = s.app.selected
         /\ Begin(s).app.overlapped \in BOOLEAN /\ (s.app.overlapped => Begin(s).app.overlapped)
<1>1. PICK r : r = Begin(s)
  OBVIOUS
<1>2. /\ Good(r) /\ SameTraffic(s, r) /\ r.app = [s.app EXCEPT !.overlapped = r.app.overlapped]
      /\ ~r.app.overlapped => Free(s, Working) /\ Free(s, Asking)
      /\ s.app.overlapped => r.app.overlapped
  BY <1>1, BeginInvariant
<1>3. Room(r)
  BY <1>2, SameTrafficFree DEF Room
<1>4. s.app \in App /\ r.app \in App
  BY <1>2 DEF Good, Containers
<1>5. /\ r.app.waves = s.app.waves /\ r.app.file_infos = s.app.file_infos
      /\ r.app.selected = s.app.selected /\ r.app.overlapped \in BOOLEAN
  BY <1>2, <1>4 DEF App
<1>6. QED
  BY <1>1, <1>2, <1>3, <1>5

LEMMA OnLoadInvariant ==
  ASSUME NEW s, Good(s), NEW m \in Message, m.msg = "Load"
  PROVE  \A r \in OnLoad(s, m) : Good(r)
<1>1. m.of \in Sources /\ m.keep \in BOOLEAN
  BY MessageFields
<1>2. PICK u : u = Begin(s)
  OBVIOUS
<1>3. Good(u) /\ Room(u)
  BY <1>2, BeginRoom
<1>4. ~u.app.overlapped => Free(u, OfServerFile) /\ Free(u, Asking)
  BY <1>2, BeginInvariant, SameTrafficFree
<1>5. PICK t : t = [u EXCEPT !.app.selected = None]
  OBVIOUS
<1>6. SameTraffic(u, t) /\ t.app = [u.app EXCEPT !.selected = None]
  BY <1>3, <1>5 DEF SameTraffic, Good, Formed
<1>7. /\ t.app \in App /\ t.app.waves = u.app.waves /\ t.app.unique_ids = u.app.unique_ids
      /\ t.app.overlapped = u.app.overlapped
      /\ t.app.progress_tracker = u.app.progress_tracker
  BY <1>3, <1>6 DEF App, Good, Containers
<1>8. Good(t)
  <2>1. Containers(t)
    BY <1>3, <1>7 DEF Good, Containers
  <2>2. QED
    BY <1>3, <1>4, <1>6, <1>7, <2>1, AppInvariant DEF Good, OneByOne
<1>9. Room(t)
  <2>1. \A P : Free(t, P) <=> Free(u, P)
    BY <1>6, SameTrafficFree
  <2>2. QED
    BY <1>3, <1>4, <1>7, <2>1 DEF Room
<1>10. \A r \in LoadFromFile(t, m.of, m.keep) : Good(r)
  BY <1>1, <1>8, <1>9, LoadFromFileInvariant
<1>11. Good(LoadFromUrl(t, m.of, m.keep, TRUE, None))
  BY <1>1, <1>8, <1>9, LoadFromUrlInvariant
<1>12. QED
  BY <1>2, <1>5, <1>10, <1>11 DEF OnLoad

LEMMA OnPickInvariant ==
  ASSUME NEW s, Good(s), NEW m \in Message, m.msg = "LoadSurverFileByIndex"
  PROVE  \A r \in OnLoadSurverFileByIndex(s, m) : Good(r)
<1>1. /\ m.of \in Remote \cup {None} /\ m.keep \in BOOLEAN /\ Server \in Sources
      /\ (s.app.selected # m.of) \in BOOLEAN
  BY MessageFields DEF Sources
<1>2. Good(Begin(s)) /\ Room(Begin(s))
  BY BeginRoom
<1>3. PICK force_switch \in BOOLEAN : force_switch = (s.app.selected # m.of)
  BY <1>1
<1>4. Good(LoadFromUrl(Begin(s), Server, m.keep, force_switch, m.of))
  BY <1>1, <1>2, LoadFromUrlInvariant
<1>5. QED
  BY <1>3, <1>4, Zenon DEF OnLoadSurverFileByIndex

LEMMA OnReloadInvariant ==
  ASSUME NEW s, Good(s)
  PROVE  \A r \in OnReloadWaveform(s) : Good(r)
<1>1. Good(Begin(s)) /\ Room(Begin(s))
  BY BeginRoom
<1>2. CASE s.app.waves.kind # "none"
  <2>1. /\ s.app.waves.source \in Sources /\ s.app.selected \in Remote \cup {None}
    BY <1>2 DEF Good, Containers, App
  <2>2. \A r \in LoadFromFile(Begin(s), s.app.waves.source, TRUE) : Good(r)
    BY <1>1, <2>1, LoadFromFileInvariant
  <2>3. Good(LoadFromUrl(Begin(s), s.app.waves.source, TRUE, FALSE, s.app.selected))
    <3>1. PICK t, source, file : /\ t = Begin(s) /\ source = s.app.waves.source
                                 /\ file = s.app.selected
      OBVIOUS
    <3>2. source \in Sources /\ file \in Remote \cup {None} /\ Good(t) /\ Room(t)
      BY <1>1, <2>1, <3>1
    <3>3. Good(LoadFromUrl(t, source, TRUE, FALSE, file))
      BY <3>2, LoadFromUrlInvariant
    <3>4. QED
      BY <3>1, <3>3
  <2>4. QED
    BY <1>2, <2>2, <2>3 DEF OnReloadWaveform
<1>3. CASE s.app.waves.kind = "none"
  BY <1>3 DEF OnReloadWaveform
<1>4. QED
  BY <1>2, <1>3

LEMMA PanicInvariant ==
  ASSUME NEW s, Good(s)
  PROVE  Good(Panic(s, "no variables"))
<1>1. PICK r : r = Panic(s, "no variables")
  OBVIOUS
<1>2. SameTraffic(s, r) /\ r.app = [s.app EXCEPT !.panic = "no variables"]
  BY <1>1 DEF Panic, SameTraffic, Good, Formed
<1>3. s.app \in App
  BY DEF Good, Containers
<1>4. /\ r.app \in App /\ r.app.waves = s.app.waves /\ r.app.unique_ids = s.app.unique_ids
      /\ r.app.overlapped = s.app.overlapped /\ r.app.selected = s.app.selected
      /\ r.app.progress_tracker = s.app.progress_tracker
  BY <1>2, <1>3 DEF App
<1>5. Containers(r)
  BY <1>4 DEF Good, Containers
<1>6. Good(r)
  BY <1>2, <1>4, <1>5, AppInvariant DEF Good, OneByOne
<1>7. QED
  BY <1>1, <1>6

\* A request is seen by the task that it adds.
LEMMA RequestSeen ==
  ASSUME NEW b, IsABag(b), NEW y
  PROVE  b (+) SetToBag({y}) # b
<1>1. y \in DOMAIN (b (+) SetToBag({y}))
  BY DEF (+), SetToBag
<1>2. y \in DOMAIN b => b[y] \in Nat /\ (b (+) SetToBag({y}))[y] = b[y] + 1
  BY DEF IsABag, (+), SetToBag
<1>3. QED
  BY <1>1, <1>2

LEMMA OnAddVariablesInvariant ==
  ASSUME NEW s, Good(s), NEW m \in Message, m.msg = "AddVariables"
  PROVE  \A r \in OnAddVariables(s, m) : Good(r)
<1>1. m.of \in Signals /\ {m.of} \in SUBSET Signals
  BY MessageFields
<1>2. CASE s.app.waves.kind = "none"
  BY <1>2 DEF OnAddVariables
<1>3. CASE s.app.waves.kind \notin {"none", "wellen"}
  BY <1>3, PanicInvariant DEF OnAddVariables
<1>4. CASE s.app.waves.kind = "wellen"
  <2>1. PICK d : d = s.app.displayed \cup {m.of}
    OBVIOUS
  <2>2. PICK a : a = [s EXCEPT !.app.displayed = d]
    OBVIOUS
  <2>3. PICK t : t = LoadSignals(a, {m.of})
    OBVIOUS
  <2>4. PICK o : o = Begin(s).app.overlapped
    OBVIOUS
  <2>5. OnAddVariables(s, m) = {IF t.tasks = s.tasks THEN t ELSE [t EXCEPT !.app.overlapped = o]}
    BY <1>4, <2>1, <2>2, <2>3, <2>4 DEF OnAddVariables
  <2>6. s.app \in App
    BY DEF Good, Containers
  <2>7. d \subseteq Signals
    BY <1>1, <2>1, <2>6 DEF App
  <2>8. SameTraffic(s, a) /\ a.app = [s.app EXCEPT !.displayed = d]
    BY <2>2 DEF SameTraffic, Good, Formed
  <2>9. /\ a.app \in App /\ a.app.waves = s.app.waves /\ a.app.unique_ids = s.app.unique_ids
        /\ a.app.overlapped = s.app.overlapped /\ a.app.selected = s.app.selected
        /\ a.app.progress_tracker = s.app.progress_tracker
    BY <2>6, <2>7, <2>8 DEF App
  <2>10. Good(a)
    <3>1. Containers(a)
      BY <2>9 DEF Good, Containers
    <3>2. QED
      BY <2>8, <2>9, <3>1, AppInvariant DEF Good, OneByOne
  <2>11. CASE ~CanRequest(a) \/ Wanted(a, {m.of}) = {}
    <3>1. Good(t) /\ t.tasks = s.tasks
      BY <1>1, <2>3, <2>8, <2>10, <2>11, SignalsQueued DEF SameTraffic
    <3>2. QED
      BY <2>5, <3>1
  <2>12. CASE CanRequest(a) /\ Wanted(a, {m.of}) # {}
    <3>1. PICK c : c = [a EXCEPT !.app.overlapped = o]
      OBVIOUS
    <3>2. /\ o \in BOOLEAN /\ (s.app.overlapped => o)
          /\ ~o => Free(s, Working) /\ Free(s, Asking)
      BY <2>4, BeginRoom, BeginInvariant
    <3>3. SameTraffic(a, c) /\ c.app = [a.app EXCEPT !.overlapped = o]
      BY <2>10, <3>1 DEF SameTraffic, Good, Formed
    <3>4. /\ c.app \in App /\ c.app.waves = a.app.waves /\ c.app.unique_ids = a.app.unique_ids
          /\ c.app.overlapped = o /\ c.app.selected = a.app.selected
          /\ c.app.progress_tracker = a.app.progress_tracker
      BY <2>9, <3>2, <3>3 DEF App
    <3>5. Good(c)
      <4>1. Containers(c)
        BY <2>10, <3>4 DEF Good, Containers
      <4>2. QED
        BY <2>9, <2>10, <3>2, <3>3, <3>4, <4>1, AppInvariant DEF Good, OneByOne
    <3>6. Room(c)
      BY <2>8, <3>2, <3>3, <3>4, SameTrafficFree DEF Room
    <3>7. CanRequest(c) /\ Wanted(c, {m.of}) # {}
      BY <2>12, <3>4 DEF CanRequest, Wanted
    <3>8. Good(LoadSignals(c, {m.of})) /\ LoadSignals(c, {m.of}).tasks # s.tasks
      <4>1. PICK u, y, ids : /\ ids = {m.of} /\ ids \in SUBSET Signals
                             /\ u = LoadSignals(c, ids) /\ y = Request(c, ids)
        BY <1>1
      <4>2. Good(u)
        BY <3>5, <3>6, <4>1, LoadSignalsInvariant
      <4>3. Wanted(c, ids) # {} /\ CanRequest(c) /\ Formed(c) /\ c.app \in App
        BY <3>4, <3>5, <3>7, <4>1 DEF Good
      <4>4. PICK x : u = WithTask(c, x, y)
        BY <4>1, <4>3, RequestedState
      <4>5. u.tasks = c.tasks (+) SetToBag({y})
        BY <4>4 DEF WithTask
      <4>6. IsABag(s.tasks) /\ c.tasks = s.tasks
        BY <2>8, <3>3 DEF SameTraffic, Good, Traffic
      <4>7. u.tasks # s.tasks
        BY <4>5, <4>6, RequestSeen
      <4>8. QED
        BY <4>1, <4>2, <4>7
    <3>9. LoadSignals(c, {m.of}) = [t EXCEPT !.app.overlapped = o] /\ t.tasks # s.tasks
      <4>1. PICK y : y = Request(a, {m.of}) /\ y = Request(c, {m.of})
        BY <3>4 DEF Request, Wanted
      <4>2. PICK f : f = Lent(a.app.waves)
        OBVIOUS
      <4>3. t = WithTask(a, [a.app EXCEPT !.waves = f, !.progress_tracker = TRUE], y)
        BY <2>3, <2>9, <2>10, <2>12, <4>1, <4>2, RequestedState DEF Good
      <4>4. LoadSignals(c, {m.of}) =
              WithTask(c, [c.app EXCEPT !.waves = f, !.progress_tracker = TRUE], y)
        BY <3>4, <3>5, <3>7, <4>1, <4>2, RequestedState DEF Good
      <4>5. [c.app EXCEPT !.waves = f, !.progress_tracker = TRUE]
              = [[a.app EXCEPT !.waves = f, !.progress_tracker = TRUE] EXCEPT !.overlapped = o]
        BY <2>9, <3>3 DEF App
      <4>6. LoadSignals(c, {m.of}) = [t EXCEPT !.app.overlapped = o]
        BY <3>3, <4>3, <4>4, <4>5 DEF SameTraffic, WithTask
      <4>7. t.tasks # s.tasks
        BY <3>8, <4>6, <4>3 DEF WithTask
      <4>8. QED
        BY <4>6, <4>7
    <3>10. QED
      BY <2>5, <3>8, <3>9
  <2>13. QED
    BY <2>11, <2>12
<1>5. QED
  BY <1>2, <1>3, <1>4

-----------------------------------------------------------------------------
(* Answers *)

\* The header's container has no body yet; the traffic stays.
LEMMA OnWavesLoadedInvariant ==
  ASSUME NEW s, NEW source \in Sources, NEW remote \in BOOLEAN, NEW keep \in BOOLEAN, Good(s),
         ~s.app.overlapped => Free(s, Working),
         NEW r, r = OnWavesLoaded(s, source, remote, keep)
  PROVE  /\ Good(r) /\ SameTraffic(s, r)
         /\ r.app.unique_ids = s.app.unique_ids + 1
         /\ r.app.waves.unique_id = r.app.unique_ids /\ r.app.waves.kind = "wellen"
         /\ r.app.overlapped = s.app.overlapped /\ r.app.selected = s.app.selected
         /\ r.app.progress_tracker = s.app.progress_tracker
         /\ r.app.trouble = s.app.trouble
         /\ r.app.displayed = {} \/ r.app.waves.to_be_loaded = r.app.displayed
<1>1. PICK kept \in BOOLEAN : kept = (keep /\ s.app.waves.kind # "none")
  OBVIOUS
<1>2. PICK id : id = s.app.unique_ids + 1
  OBVIOUS
<1>3. PICK d : d = IF kept THEN s.app.displayed ELSE {}
  OBVIOUS
<1>4. PICK w : w = [NoWaves EXCEPT !.kind = "wellen", !.source = source, !.unique_id = id,
                                   !.remote = remote, !.handle = remote]
  OBVIOUS
<1>5. PICK t : /\ t = [s EXCEPT !.app.unique_ids = id, !.app.displayed = IF kept THEN @ ELSE {},
                                !.app.waves = w]
               /\ r = IF kept THEN LoadSignals(t, t.app.displayed) ELSE t
  <2>1. CASE kept
    <3>1. keep /\ s.app.waves.kind # "none"
      BY <1>1, <2>1
    <3>2. PICK t : t = [s EXCEPT !.app.unique_ids = s.app.unique_ids + 1,
                               !.app.displayed = IF keep /\ s.app.waves.kind # "none" THEN @ ELSE {},
                               !.app.waves = [NoWaves EXCEPT
                                  !.kind = "wellen", !.source = source,
                                  !.unique_id = s.app.unique_ids + 1, !.remote = remote,
                                  !.handle = remote]]
      OBVIOUS
    <3>3. r = LoadSignals(t, t.app.displayed)
      BY <3>1, <3>2, Zenon DEF OnWavesLoaded
    <3>4. t = [s EXCEPT !.app.unique_ids = id, !.app.displayed = IF kept THEN @ ELSE {},
                        !.app.waves = w]
      BY <1>2, <1>4, <2>1, <3>1, <3>2
    <3>5. QED
      BY <2>1, <3>3, <3>4
  <2>2. CASE ~kept
    <3>1. ~(keep /\ s.app.waves.kind # "none")
      BY <1>1, <2>2
    <3>2. QED
      BY <1>2, <1>4, <2>2, <3>1 DEF OnWavesLoaded
  <2>3. QED
    BY <2>1, <2>2
<1>6. r = IF kept THEN LoadSignals(t, t.app.displayed) ELSE t
  BY <1>5
<1>7. SameTraffic(s, t) /\ t.app = [s.app EXCEPT !.unique_ids = id, !.displayed = d, !.waves = w]
  BY <1>3, <1>5 DEF SameTraffic, Good, Formed
<1>8. s.app \in App /\ s.app.unique_ids \in Nat /\ id \in Nat /\ s.app.displayed \subseteq Signals
  <2>1. s.app \in App /\ s.app.unique_ids \in Nat /\ s.app.displayed \subseteq Signals
    BY DEF Good, Containers, App
  <2>2. QED
    BY <1>2, <2>1
<1>9. /\ w.kind = "wellen" /\ w.source = source /\ w.unique_id = id /\ w.remote = remote
      /\ w.body = 0 /\ w.handle = remote /\ w.signals = {} /\ w.to_be_loaded = {}
      /\ w \in Waves
  BY <1>4, <1>8 DEF NoWaves, Waves
<1>10. d \subseteq Signals
  BY <1>3, <1>8
<1>11. /\ t.app \in App /\ t.app.waves = w /\ t.app.unique_ids = id /\ t.app.displayed = d
       /\ t.app.overlapped = s.app.overlapped /\ t.app.selected = s.app.selected
       /\ t.app.progress_tracker = s.app.progress_tracker
       /\ t.app.trouble = s.app.trouble
  <2>1. s.app \in App /\ d \in SUBSET Signals /\ w \in Waves /\ id \in Nat
    BY <1>8, <1>9, <1>10
  <2>2. t.app = [s.app EXCEPT !.unique_ids = id, !.displayed = d, !.waves = w]
    BY <1>7
  <2>3. t.app \in App
    BY <2>1, <2>2 DEF App
  <2>4. t.app.waves = w /\ t.app.unique_ids = id /\ t.app.displayed = d
    BY <2>1, <2>2 DEF App
  <2>5. /\ t.app.overlapped = s.app.overlapped /\ t.app.selected = s.app.selected
        /\ t.app.progress_tracker = s.app.progress_tracker
        /\ t.app.trouble = s.app.trouble
    BY <2>1, <2>2 DEF App
  <2>6. QED
    BY <2>3, <2>4, <2>5
<1>12. Containers(t)
  BY <1>2, <1>8, <1>9, <1>11 DEF Containers
<1>13. Good(t)
  <2>1. id \notin 1..s.app.unique_ids /\ s.app.unique_ids <= id
    BY <1>2, <1>8
  <2>2. QED
    BY <1>7, <1>9, <1>11, <1>12, <2>1, NewContainer
<1>14. CASE ~kept
  BY <1>2, <1>3, <1>6, <1>7, <1>9, <1>11, <1>13, <1>14
<1>15. CASE kept
  <2>1. ~CanRequest(t)
    BY <1>9, <1>11 DEF CanRequest
  <2>2. r = LoadSignals(t, d) /\ d \in SUBSET Signals
    BY <1>6, <1>10, <1>11, <1>15
  <2>3. /\ Good(r) /\ SameTraffic(t, r) /\ SameContainer(t, r)
        /\ r.app.progress_tracker = t.app.progress_tracker
        /\ r.app.waves.to_be_loaded = Wanted(t, d)
    BY <1>13, <2>1, <2>2, SignalsQueued
  <2>4. Wanted(t, d) = d
    BY <1>9, <1>11 DEF Wanted, Has
  <2>5. SameTraffic(s, r)
    BY <1>7, <2>3 DEF SameTraffic
  <2>6. QED
    BY <1>2, <1>9, <1>11, <2>3, <2>4, <2>5 DEF SameContainer
<1>16. QED
  BY <1>14, <1>15

LEMMA OnWaveHeaderLoadedInvariant ==
  ASSUME NEW s, Good(s), NEW m \in Message, m.msg = "WaveHeaderLoaded", Fits(s, m)
  PROVE  \A r \in OnWaveHeaderLoaded(s, m) : Good(r)
<1>1. m.of \in Sources /\ m.remote \in BOOLEAN /\ m.keep \in BOOLEAN
  BY MessageFields
<1>2. m \in Working \ Streaming
  BY DEF Working, Streaming
<1>3. /\ ~s.app.overlapped => /\ Free(s, Working) /\ s.app.progress_tracker
                              /\ s.app.selected = None => Free(s, Asking)
  BY <1>2 DEF Fits
<1>4. PICK t : t = OnWavesLoaded(s, m.of, m.remote, m.keep)
  OBVIOUS
<1>5. /\ Good(t) /\ SameTraffic(s, t)
      /\ t.app.unique_ids = s.app.unique_ids + 1
      /\ t.app.waves.unique_id = t.app.unique_ids
      /\ t.app.overlapped = s.app.overlapped /\ t.app.selected = s.app.selected
      /\ t.app.progress_tracker = s.app.progress_tracker
  BY <1>1, <1>3, <1>4, OnWavesLoadedInvariant
<1>6. PICK part : part = IF m.remote THEN "time table" ELSE "body"
  OBVIOUS
<1>7. PICK id, y : id = t.app.unique_ids /\ y = [do |-> part, id |-> id]
  OBVIOUS
<1>8. s.app.unique_ids \in Nat /\ id \in Nat /\ id \in 1..id
  <2>1. PICK n \in Nat : n = s.app.unique_ids
    BY DEF Good, Containers, App
  <2>2. id = n + 1
    BY <1>5, <1>7, <2>1
  <2>3. id \in Nat /\ 1 <= id
    BY <2>1, <2>2
  <2>4. QED
    BY <2>1, <2>3
<1>9. y \in Task /\ ForBody(y, id)
  <2>1. y = [do |-> "body", id |-> id] \/ y = [do |-> "time table", id |-> id]
    BY <1>6, <1>7
  <2>2. QED
    BY <1>8, <2>1, BodyTask
<1>10. \A P : Free(t, P) <=> Free(s, P)
  BY <1>5, SameTrafficFree
<1>11. ASSUME NEW u, Alike(t, u), m.remote \/ u.app.progress_tracker,
              m.remote => u.app.progress_tracker = t.app.progress_tracker
       PROVE  Fits(u, y)
  <2>1. \A P : Free(u, P) <=> Free(s, P)
    BY <1>10, <1>11, SameTrafficFree DEF Alike
  <2>2. Known(u, y)
    BY <1>7, <1>8, <1>9, <1>11 DEF Known, Alike, ForBody
  <2>3. QED
    BY <1>3, <1>5, <1>7, <1>9, <1>11, <2>1, <2>2 DEF Fits, Alike, ForBody
<1>12. CASE m.remote
  <2>1. Alike(t, t)
    BY <1>5 DEF Alike, SameTraffic
  <2>2. Good(Spawn(t, y))
    BY <1>5, <1>9, <1>11, <1>12, <2>1, SpawnInvariant
  <2>3. QED
    BY <1>4, <1>6, <1>7, <1>12, <2>2 DEF OnWaveHeaderLoaded
<1>13. CASE ~m.remote
  <2>1. Alike(t, Progress(t, TRUE)) /\ Progress(t, TRUE).app.progress_tracker
    BY <1>5, ProgressInvariant
  <2>2. Fits(Progress(t, TRUE), y)
    BY <1>11, <1>13, <2>1
  <2>3. Good(Progress(Spawn(t, y), TRUE))
    BY <1>5, <1>9, <2>2, WorkInvariant
  <2>4. QED
    BY <1>4, <1>6, <1>7, <1>13, <2>3 DEF OnWaveHeaderLoaded
<1>14. QED
  BY <1>12, <1>13
\* The container gets a body, signals or its source back.
LEMMA WavesInvariant ==
  ASSUME NEW s, NEW w \in Waves, Good(s), s.app.waves.kind = "wellen",
         w.kind = "wellen", w.unique_id = s.app.waves.unique_id,
         w.source = s.app.waves.source, \A x \in w.signals : x.from = w.unique_id,
         w.handle \/ w.body = 0 =>
           s.app.waves.body = 0 \/ Free(s, SignalsWork(s.app.waves.unique_id)),
         ~s.app.overlapped => w.body \in {0, w.unique_id},
         NEW r, SameTraffic(s, r), r.app = [s.app EXCEPT !.waves = w]
  PROVE  Good(r) /\ (Room(s) => Room(r))
<1>2. s.app \in App
  BY DEF Good, Containers
<1>3. /\ r.app \in App /\ r.app.waves = w /\ r.app.unique_ids = s.app.unique_ids
      /\ r.app.overlapped = s.app.overlapped /\ r.app.selected = s.app.selected
      /\ r.app.progress_tracker = s.app.progress_tracker
  BY <1>2 DEF App
<1>4. Containers(r)
  BY <1>3 DEF Good, Containers
<1>5. Good(r)
  BY <1>3, <1>4, AppInvariant DEF Good, OneByOne
<1>6. Room(s) => Room(r)
  BY <1>3, SameTrafficFree DEF Room
<1>7. QED
  BY <1>5, <1>6

LEMMA SecondBodyInvariant ==
  ASSUME NEW s, Good(s)
  PROVE  LET r == [s EXCEPT !.app.second_body = TRUE]
         IN Good(r) /\ Alike(s, r) /\ r.app.displayed = s.app.displayed
<1>0. PICK r : r = [s EXCEPT !.app.second_body = TRUE]
  OBVIOUS
<1>1. SameTraffic(s, r) /\ r.app = [s.app EXCEPT !.second_body = TRUE]
  BY <1>0 DEF SameTraffic, Good, Formed
<1>2. s.app \in App
  BY DEF Good, Containers
<1>3. /\ r.app \in App /\ Alike(s, r) /\ r.app.progress_tracker = s.app.progress_tracker
      /\ r.app.displayed = s.app.displayed
  BY <1>1, <1>2 DEF App, Alike
<1>4. Containers(r)
  BY <1>3 DEF Good, Containers, Alike
<1>5. Good(r)
  BY <1>1, <1>3, <1>4, AppInvariant DEF Alike, Good, OneByOne
<1>6. QED
  BY <1>0, <1>3, <1>5

\* Waveforms are there when an answer for a container arrives.
LEMMA ContainerThere ==
  ASSUME NEW s, Good(s), NEW m \in Numbered, Known(s, m)
  PROVE  s.app.waves.kind # "none"
<1>1. m.id \in 1..s.app.unique_ids
  BY DEF Known
<1>2. s.app.waves.kind = "none" => s.app.unique_ids = 0
  BY DEF Good, Containers
<1>3. 1..0 = {}
  OBVIOUS
<1>4. QED
  BY <1>1, <1>2, <1>3

\* The work of m is over, and progress ends.
LEMMA WorkEnds ==
  ASSUME NEW s, Good(s), NEW m \in Working \ Streaming, Fits(s, m), NEW t, t = Progress(s, FALSE)
  PROVE  Good(t) /\ Alike(s, t) /\ Room(t)
<1>1. ~s.app.overlapped => Free(s, Working)
  BY DEF Fits
<1>2. Working \ Streaming \subseteq Working
  OBVIOUS
<1>3. s.app.overlapped \/ Free(s, Working \ Streaming)
  BY <1>1, <1>2, FreeSubset
<1>4. Good(t) /\ Alike(s, t)
  BY <1>3, ProgressInvariant
<1>5. Room(t)
  BY <1>4, WorkHasRoom, AlikeFits
<1>6. QED
  BY <1>4, <1>5

LEMMA AddBodyInvariant ==
  ASSUME NEW s, Good(s), Room(s), s.app.waves.kind = "wellen",
         NEW m, m.id \in Nat \ {0}, ~s.app.overlapped => m.id = s.app.waves.unique_id
  PROVE  /\ Good(AddBody(s, m)) /\ (CanRequest(AddBody(s, m)) => Room(AddBody(s, m)))
         /\ AddBody(s, m).app.displayed = s.app.displayed
<1>1. CASE s.app.waves.body # 0
  <2>1. PICK r : r = [s EXCEPT !.app.second_body = TRUE]
    OBVIOUS
  <2>2. Good(r) /\ Alike(s, r) /\ r.app.displayed = s.app.displayed
    BY <2>1, SecondBodyInvariant
  <2>3. Room(r)
    BY <2>2, AlikeFits
  <2>4. QED
    BY <1>1, <2>1, <2>2, <2>3 DEF AddBody
<1>2. CASE s.app.waves.body = 0 /\ m.remote # s.app.waves.remote
  BY <1>2 DEF AddBody
<1>3. CASE s.app.waves.body = 0 /\ m.remote = s.app.waves.remote
  <2>1. PICK w : w = [s.app.waves EXCEPT !.body = m.id, !.handle = TRUE]
    OBVIOUS
  <2>2. s.app \in App /\ s.app.waves \in Waves
    BY DEF Good, Containers, App
  <2>3. /\ w \in Waves /\ w.body = m.id /\ w.kind = s.app.waves.kind
        /\ w.unique_id = s.app.waves.unique_id /\ w.source = s.app.waves.source
        /\ w.signals = s.app.waves.signals
    BY <2>1, <2>2 DEF Waves
  <2>4. PICK a : a = [s EXCEPT !.app.waves = w]
    OBVIOUS
  <2>5. \A x \in w.signals : x.from = w.unique_id
    BY <2>3 DEF Good, Containers
  <2>6. Good(a) /\ Room(a) /\ a.app = [s.app EXCEPT !.waves = w]
    <3>1. SameTraffic(s, a) /\ a.app = [s.app EXCEPT !.waves = w]
      BY <2>4 DEF SameTraffic, Good, Formed
    <3>2. QED
      BY <1>3, <2>3, <2>5, <3>1, WavesInvariant
  <2>7. /\ Good(LoadSignals(a, {})) /\ SameContainer(a, LoadSignals(a, {}))
        /\ CanRequest(LoadSignals(a, {})) => Room(LoadSignals(a, {}))
    BY <2>6, LoadSignalsInvariant
  <2>8. a = [s EXCEPT !.app.waves.body = m.id, !.app.waves.handle = TRUE]
    BY <2>1, <2>2, <2>4 DEF Good, Formed, App
  <2>9. AddBody(s, m) = LoadSignals(a, {})
    BY <1>3, <2>8, Zenon DEF AddBody
  <2>10. a.app.displayed = s.app.displayed
    BY <2>2, <2>6 DEF App
  <2>11. QED
    BY <2>7, <2>9, <2>10 DEF SameContainer
<1>4. QED
  BY <1>1, <1>2, <1>3

LEMMA OnWaveBodyLoadedInvariant ==
  ASSUME NEW s, Good(s), NEW m \in Message, m.msg = "WaveBodyLoaded", Fits(s, m)
  PROVE  \A r \in OnWaveBodyLoaded(s, m) : Good(r)
<1>1. m \in Working \ Streaming /\ m \in Bodies /\ m \in Numbered
  BY DEF Working, Streaming, Bodies, Numbered
<1>2. s.app.waves.kind # "none"
  BY <1>1, ContainerThere DEF Fits
<1>3. m.id \in Nat \ {0}
  <2>1. PICK n \in Nat : n = s.app.unique_ids
    BY DEF Good, Containers, App
  <2>2. m.id \in 1..n
    BY <1>1, <2>1 DEF Fits, Known
  <2>3. QED
    BY <2>1, <2>2
<1>4. ~s.app.overlapped => m.id = s.app.waves.unique_id
  BY <1>1 DEF Fits, OtherBodies
<1>5. PICK t : t = Progress(s, FALSE)
  OBVIOUS
<1>6. Good(t) /\ Alike(s, t) /\ Room(t)
  BY <1>1, <1>5, WorkEnds
<1>7. CASE t.app.waves.kind = "wellen"
  <2>1. PICK b : b = AddBody(t, m)
    OBVIOUS
  <2>2. Good(b) /\ (CanRequest(b) => Room(b))
    BY <1>3, <1>4, <1>6, <1>7, <2>1, AddBodyInvariant DEF Alike
  <2>3. Params \in SUBSET Signals
    BY WaveLoadingAssumption
  <2>4. Good(LoadSignals(b, Params))
    BY <2>2, <2>3, LoadSignalsInvariant
  <2>5. QED
    BY <1>5, <1>7, <2>1, <2>4 DEF OnWaveBodyLoaded
<1>8. CASE t.app.waves.kind # "wellen"
  BY <1>2, <1>5, <1>6, <1>8 DEF OnWaveBodyLoaded, Alike
<1>9. QED
  BY <1>7, <1>8
LEMMA OnSignalsInvariant ==
  ASSUME NEW s, Good(s), NEW m \in Message, m.msg = "SignalsLoaded", Fits(s, m)
  PROVE  \A r \in OnSignals(s, m) : Good(r)
<1>1. m \in Working \ Streaming /\ m \in Numbered
  BY DEF Working, Streaming, Numbered
<1>2. s.app.waves.kind # "none"
  BY <1>1, ContainerThere DEF Fits
<1>3. PICK t : t = Progress(s, FALSE)
  OBVIOUS
<1>4. Good(t) /\ Alike(s, t) /\ Room(t)
  BY <1>1, <1>3, WorkEnds
<1>5. CASE t.app.waves.kind = "wellen" /\ m.id # t.app.waves.unique_id
  <2>1. Good(LoadSignals(t, {}))
    BY <1>4, LoadSignalsInvariant
  <2>2. QED
    BY <1>3, <1>5, <2>1 DEF OnSignals, OnSignalsLoaded
<1>6. CASE t.app.waves.kind = "wellen" /\ m.id = t.app.waves.unique_id
  <2>1. m \in SignalsWork(s.app.waves.unique_id)
    BY <1>4, <1>6 DEF SignalsWork, Alike
  <2>2. /\ Free(s, SignalsWork(s.app.waves.unique_id))
        /\ ~t.app.waves.handle /\ t.app.waves.body # 0
    BY <1>4, <2>1 DEF Fits, Alike
  <2>3. Free(t, SignalsWork(t.app.waves.unique_id))
    BY <1>4, <2>2, SameTrafficFree DEF Alike
  <2>4. PICK new : new = [of : m.of, from : {m.id}]
    OBVIOUS
  <2>5. PICK w : w = [t.app.waves EXCEPT !.handle = TRUE, !.signals = @ \cup new]
    OBVIOUS
  <2>6. t.app \in App /\ t.app.waves \in Waves
    BY <1>4 DEF Good, Containers, App
  <2>7. new \in SUBSET [of : Signals, from : Nat] /\ \A x \in new : x.from = t.app.waves.unique_id
    BY <1>6, <2>4, MessageFields
  <2>8. /\ w \in Waves /\ w.body = t.app.waves.body /\ w.kind = t.app.waves.kind
        /\ w.unique_id = t.app.waves.unique_id /\ w.source = t.app.waves.source
        /\ w.signals = t.app.waves.signals \cup new
    BY <2>5, <2>6, <2>7 DEF Waves
  <2>9. \A x \in w.signals : x.from = w.unique_id
    BY <1>4, <2>7, <2>8 DEF Good, Containers
  <2>10. ~t.app.overlapped => w.body \in {0, w.unique_id}
    BY <1>4, <2>8 DEF Good, OneByOne
  <2>11. PICK a : a = [t EXCEPT !.app.waves = w]
    OBVIOUS
  <2>12. SameTraffic(t, a) /\ a.app = [t.app EXCEPT !.waves = w]
    BY <1>4, <2>11 DEF SameTraffic, Good, Formed
  <2>13. Good(a) /\ Room(a)
    BY <1>4, <1>6, <2>3, <2>8, <2>9, <2>10, <2>12, WavesInvariant
  <2>14. Good(LoadSignals(a, {}))
    BY <2>13, LoadSignalsInvariant
  <2>15. a = [t EXCEPT !.app.waves.handle = TRUE, !.app.waves.signals = @ \cup new]
    BY <1>4, <2>5, <2>6, <2>11 DEF Good, Formed, App, Waves
  <2>16. OnSignalsLoaded(t, m) = LoadSignals(a, {})
    BY <1>6, <2>2, <2>4, <2>15 DEF OnSignalsLoaded
  <2>17. QED
    BY <1>3, <1>6, <2>14, <2>16 DEF OnSignals
<1>7. CASE t.app.waves.kind # "wellen"
  BY <1>2, <1>3, <1>4, <1>7 DEF OnSignals, Alike
<1>8. QED
  BY <1>5, <1>6, <1>7

LEMMA OnTransactionStreamsLoadedInvariant ==
  ASSUME NEW s, Good(s), NEW m \in Message, m.msg = "TransactionStreamsLoaded", Fits(s, m)
  PROVE  \A r \in OnTransactionStreamsLoaded(s, m) : Good(r)
<1>1. m.of \in Sources /\ m \in Working
  BY MessageFields DEF Working, Streaming
<1>2. ~s.app.overlapped => Free(s, Working)
  BY <1>1 DEF Fits
<1>3. PICK w : w = [NoWaves EXCEPT !.kind = "transactions", !.source = m.of]
  OBVIOUS
<1>4. PICK r : r = [s EXCEPT !.app.displayed = {}, !.app.waves = w]
  OBVIOUS
<1>5. SameTraffic(s, r) /\ r.app = [s.app EXCEPT !.displayed = {}, !.waves = w]
  BY <1>4 DEF SameTraffic, Good, Formed
<1>6. s.app \in App /\ s.app.unique_ids \in Nat
  BY DEF Good, Containers, App
<1>7. /\ w \in Waves /\ w.kind = "transactions" /\ w.source = m.of /\ w.unique_id = 0
      /\ w.body = 0 /\ w.signals = {} /\ w.handle = FALSE
  BY <1>1, <1>3 DEF NoWaves, Waves
<1>8. /\ r.app \in App /\ r.app.waves = w /\ r.app.unique_ids = s.app.unique_ids
      /\ r.app.overlapped = s.app.overlapped /\ r.app.selected = s.app.selected
      /\ r.app.progress_tracker = s.app.progress_tracker
  BY <1>5, <1>6, <1>7 DEF App
<1>9. Containers(r)
  BY <1>1, <1>7, <1>8 DEF Containers
<1>10. 0 \notin 1..s.app.unique_ids /\ s.app.unique_ids <= s.app.unique_ids
  BY <1>6
<1>11. Good(r)
  BY <1>2, <1>5, <1>7, <1>8, <1>9, <1>10, NewContainer
<1>12. QED
  BY <1>3, <1>4, <1>11 DEF OnTransactionStreamsLoaded

LEMMA ServerStatusToProgressInvariant ==
  ASSUME NEW s, Good(s), s.app.selected # None
  PROVE  Good(ServerStatusToProgress(s))
<1>1. PICK y : y = [do |-> "status"]
  OBVIOUS
<1>2. y \in Task /\ y \notin Working \cup OfServerFile \cup Numbered
  BY <1>1, StatusItems
<1>3. PICK t : t = Progress(s, TRUE)
  OBVIOUS
<1>4. t.app.selected # None
  BY <1>3, ProgressInvariant DEF Alike
<1>5. \A id : SignalsWork(id) \subseteq Numbered /\ OtherBodies(id) \subseteq Numbered
  BY DEF SignalsWork, OtherBodies, Numbered
<1>6. Fits(t, y)
  BY <1>2, <1>4, <1>5 DEF Fits, Known
<1>7. Good(Progress(Spawn(s, y), TRUE))
  BY <1>2, <1>3, <1>6, WorkInvariant
<1>8. QED
  BY <1>1, <1>7 DEF ServerStatusToProgress

LEMMA ServerKnown ==
  ASSUME NEW s, Good(s)
  PROVE  LET r == [s EXCEPT !.app.surver_url = TRUE]
         IN Good(r) /\ Alike(s, r) /\ r.app.progress_tracker = s.app.progress_tracker
<1>1. PICK r : r = [s EXCEPT !.app.surver_url = TRUE]
  OBVIOUS
<1>2. SameTraffic(s, r) /\ r.app = [s.app EXCEPT !.surver_url = TRUE]
  BY <1>1 DEF SameTraffic, Good, Formed
<1>3. s.app \in App
  BY DEF Good, Containers
<1>4. r.app \in App /\ Alike(s, r) /\ r.app.progress_tracker = s.app.progress_tracker
  BY <1>2, <1>3 DEF App, Alike
<1>5. Containers(r)
  BY <1>4 DEF Good, Containers, Alike
<1>6. Good(r)
  BY <1>2, <1>4, <1>5, AppInvariant DEF Alike, Good, OneByOne
<1>7. QED
  BY <1>1, <1>4, <1>6

LEMMA OnSetSurverStatusInvariant ==
  ASSUME NEW s, Good(s), NEW m \in Message, m.msg = "SetSurverStatus", Fits(s, m)
  PROVE  \A r \in OnSetSurverStatus(s) : Good(r)
<1>1. ~s.app.overlapped /\ s.app.selected = None => Free(s, Working)
  BY DEF Fits, Asking
<1>2. PICK known : known = [s EXCEPT !.app.surver_url = TRUE]
  OBVIOUS
<1>3. Good(known) /\ Alike(s, known)
  BY <1>2, ServerKnown
<1>4. CASE known.app.file_infos = {}
  BY <1>2, <1>3, <1>4, ReportInvariant DEF OnSetSurverStatus
<1>5. CASE known.app.file_infos # {} /\ known.app.selected # None
  <2>1. Good(ServerStatusToProgress(known))
    BY <1>3, <1>5, ServerStatusToProgressInvariant
  <2>2. QED
    BY <1>2, <1>5, <2>1 DEF OnSetSurverStatus
<1>6. CASE /\ known.app.file_infos # {} /\ known.app.selected = None
           /\ Cardinality(known.app.file_infos) = 1
  <2>1. PICK file : file = CHOOSE info \in known.app.file_infos : TRUE
    OBVIOUS
  <2>2. known.app.file_infos \subseteq Remote
    BY <1>3 DEF Good, Containers, App
  <2>3. file \in Remote \cup {None} /\ Server \in Sources
    BY <1>6, <2>1, <2>2 DEF Sources
  <2>4. PICK t : t = LoadFromUrl(Begin(known), Server, FALSE, FALSE, file)
    OBVIOUS
  <2>5. Good(t)
    BY <1>3, <2>3, <2>4, BeginRoom, LoadFromUrlInvariant
  <2>6. t.app.selected # None => Good(ServerStatusToProgress(t))
    BY <2>5, ServerStatusToProgressInvariant
  <2>7. QED
    BY <1>2, <1>6, <2>1, <2>4, <2>5, <2>6 DEF OnSetSurverStatus
<1>7. CASE /\ known.app.file_infos # {} /\ known.app.selected = None
           /\ Cardinality(known.app.file_infos) # 1
  <2>1. PICK t : t = Progress(known, FALSE)
    OBVIOUS
  <2>2. ~known.app.overlapped => Free(known, Working)
    BY <1>1, <1>3, <1>7, SameTrafficFree DEF Alike
  <2>3. Working \ Streaming \subseteq Working
    OBVIOUS
  <2>4. known.app.overlapped \/ Free(known, Working \ Streaming)
    BY <2>2, <2>3, FreeSubset
  <2>5. Good(t) /\ Alike(known, t)
    BY <1>3, <2>1, <2>4, ProgressInvariant
  <2>6. t.app.selected = None
    BY <1>7, <2>5 DEF Alike
  <2>7. QED
    BY <1>2, <1>7, <2>1, <2>5, <2>6 DEF OnSetSurverStatus
<1>8. QED
  BY <1>4, <1>5, <1>6, <1>7

\* Every handler of a message that was under way.
LEMMA UpdateInvariant ==
  ASSUME NEW s, Good(s), NEW m \in Message, Fits(s, m)
  PROVE  \A r \in Update(s, m) : Good(r)
<1>1. CASE m.msg = "Load"
  BY <1>1, OnLoadInvariant DEF Update
<1>2. CASE m.msg = "LoadSurverFileByIndex"
  BY <1>2, OnPickInvariant DEF Update
<1>3. CASE m.msg = "ReloadWaveform"
  BY <1>3, OnReloadInvariant DEF Update
<1>4. CASE m.msg = "AddVariables"
  BY <1>4, OnAddVariablesInvariant DEF Update
<1>5. CASE m.msg = "WaveHeaderLoaded"
  BY <1>5, OnWaveHeaderLoadedInvariant DEF Update
<1>6. CASE m.msg = "WaveBodyLoaded"
  BY <1>6, OnWaveBodyLoadedInvariant DEF Update
<1>7. CASE m.msg = "SignalsLoaded"
  BY <1>7, OnSignalsInvariant DEF Update
<1>8. CASE m.msg = "TransactionStreamsLoaded"
  BY <1>8, OnTransactionStreamsLoadedInvariant DEF Update
<1>9. CASE m.msg = "FileDownloaded"
  <2>1. m \in Working /\ m.of \in Sources /\ m.keep \in BOOLEAN
    BY <1>9, MessageFields DEF Working
  <2>2. Room(s)
    BY <2>1, WorkHasRoom
  <2>3. \A r \in LoadFromBytes(s, m.of, m.keep) : Good(r)
    BY <2>1, <2>2, LoadFromFileInvariant
  <2>4. QED
    BY <1>9, <2>3 DEF Update
<1>10. CASE m.msg = "SetSurverStatus"
  BY <1>10, OnSetSurverStatusInvariant DEF Update
<1>11. CASE m.msg = "StopProgressTracker"
  <2>1. m \in Working \ Streaming
    BY <1>11 DEF Working, Streaming
  <2>2. Good(Progress(s, FALSE))
    BY <2>1, WorkEnds
  <2>3. QED
    BY <1>11, <2>2 DEF Update
<1>12. CASE m.msg \in {"Error", "Exit"}
  BY <1>12 DEF Update
<1>13. QED
  BY <1>1, <1>2, <1>3, <1>4, <1>5, <1>6, <1>7, <1>8, <1>9, <1>10, <1>11, <1>12, MessageFields
-----------------------------------------------------------------------------
(* Tasks that end *)

LEMMA TaskFields ==
  ASSUME NEW y \in Task
  PROVE  /\ y.do = "header" => y.of \in Sources /\ y.keep \in BOOLEAN
         /\ y.do \in {"body", "time table"} => y.id \in Nat
         /\ y.do = "signals" => y.id \in Nat /\ y.of \in SUBSET Signals /\ y.remote \in BOOLEAN
         /\ y.do = "download" =>
              /\ y.of \in Sources /\ y.keep \in BOOLEAN /\ y.force_switch \in BOOLEAN
              /\ y.file \in Remote \cup {None}
         /\ y.do \in {"hierarchy", "reload"} => y.file \in Remote \cup {None} /\ y.keep \in BOOLEAN
         /\ y.do \in Kinds
BY DEF Task, Kinds

LEMMA WorkingTask ==
  ASSUME NEW y \in Task, y.do # "status"
  PROVE  y \in Working \ Streaming
BY TasksAreNoMessages DEF Working, Streaming

LEMMA StatusFits ==
  ASSUME NEW s, NEW x, NEW y, x \in Working \cup Asking, Fits(s, x), y \in Asking,
         y \notin Working \cup OfServerFile \cup Numbered
  PROVE  Fits(s, y)
<1>1. \A id : SignalsWork(id) \subseteq Numbered /\ OtherBodies(id) \subseteq Numbered
  BY DEF SignalsWork, OtherBodies, Numbered
<1>2. Follows(y, x)
  BY <1>1 DEF Follows
<1>3. QED
  BY <1>2, FollowerFits

\* The server is asked for its status and for a hierarchy.
LEMMA StatusAndHierarchy ==
  ASSUME NEW s, NEW t, NEW x, NEW a, NEW y, Fits(s, x), x \in OfServerFile,
         x \in Working \ Streaming, Good(t), t.app = s.app, Puts(s, t, a),
         a \notin Working, Single(y)
  PROVE  Fits(t, y)
<1>1. \A id : SignalsWork(id) \subseteq Numbered /\ OtherBodies(id) \subseteq Numbered
  BY DEF SignalsWork, OtherBodies, Numbered
<1>2. ~s.app.overlapped => /\ Free(t, Working) /\ s.app.progress_tracker
                           /\ s.app.selected # None
  BY DEF Fits, Puts
<1>3. QED
  BY <1>1, <1>2 DEF Fits, Known, Single

LEMMA AnsweredInvariant ==
  ASSUME NEW s, Good(s), NEW y \in Task, y.do = "download", Fits(s, y)
  PROVE  Good(Answered(s, y))
<1>1. /\ y.of \in Sources /\ y.keep \in BOOLEAN /\ y.force_switch \in BOOLEAN
      /\ y.file \in Remote \cup {None}
  BY TaskFields
<1>2. y \in Working \ Streaming /\ (y.file # None => y \in OfServerFile)
  BY WorkingTask DEF OfServerFile
<1>3. PICK a, h, l : /\ a = [do |-> "status"]
                     /\ h = [do |-> "hierarchy", file |-> y.file, keep |-> y.keep]
                     /\ l = [do |-> "reload", file |-> y.file, keep |-> y.keep]
  OBVIOUS
<1>4. /\ Single(h) /\ h \in Task /\ a \in Task /\ a \in Asking
      /\ a \notin Working \cup OfServerFile \cup Numbered
  <2>1. PICK file, keep : /\ file = y.file /\ keep = y.keep
                          /\ file \in Remote \cup {None} /\ keep \in BOOLEAN
    BY <1>1
  <2>2. Server \in Sources
    BY DEF Sources
  <2>3. Single(h) /\ h \in Task
    BY <1>3, <2>1, <2>2, SingleTasks
  <2>4. QED
    BY <1>3, <2>3, StatusItems
<1>5. Good(Send(s, Downloaded(y.of, y.keep)))
  <2>1. PICK m : m = Downloaded(y.of, y.keep)
    OBVIOUS
  <2>2. m \in Message /\ Single(m)
    BY <1>1, <2>1, SingleMessages
  <2>3. QED
    BY <1>2, <2>1, <2>2, SingleFollows, SendInvariant
<1>6. Fits(s, a)
  BY <1>2, <1>4, StatusFits
<1>7. PICK t : t = Spawn(s, a)
  OBVIOUS
<1>8. Good(t) /\ Puts(s, t, a) /\ t.app = s.app
  BY <1>4, <1>6, <1>7, SpawnInvariant
<1>9. y.file # None => Good(Spawn(t, h))
  BY <1>2, <1>4, <1>8, StatusAndHierarchy, SpawnInvariant
<1>10. Good(Spawn(s, h))
  BY <1>2, <1>4, SingleFollows, SpawnInvariant
<1>11. y.file # None => Good(Spawn(s, l))
  <2>1. /\ l \in Task /\ l \in Working \ Streaming /\ l \notin Asking \cup Numbered
        /\ l \in OfServerFile
    <3>1. PICK file, keep : /\ file = y.file /\ keep = y.keep
                            /\ file \in Remote \cup {None} /\ keep \in BOOLEAN
      BY <1>1
    <3>2. QED
      BY <1>3, <3>1, ReloadTask
  <2>2. \A id : SignalsWork(id) \subseteq Numbered /\ OtherBodies(id) \subseteq Numbered
    BY DEF SignalsWork, OtherBodies, Numbered
  <2>3. y.file # None => Follows(l, y)
    BY <1>2, <2>1, <2>2 DEF Follows
  <2>4. QED
    BY <2>1, <2>3, FollowerFits, SpawnInvariant
<1>12. Good(Report(s))
  BY ReportInvariant
<1>13. CASE y.of # Server
  BY <1>5, <1>13 DEF Answered
<1>14. CASE y.of = Server
  <2>1. CASE ~y.keep
    BY <1>3, <1>7, <1>8, <1>9, <1>14, <2>1 DEF Answered
  <2>2. CASE y.keep /\ y.file # None
    BY <1>3, <1>10, <1>11, <1>14, <2>2 DEF Answered
  <2>3. CASE y.keep /\ y.file = None
    BY <1>3, <1>7, <1>8, <1>12, <1>14, <2>3 DEF Answered
  <2>4. QED
    BY <2>1, <2>2, <2>3
<1>15. QED
  BY <1>13, <1>14

\* A message of the same kind of work is sent.
LEMMA SendOutcomes ==
  ASSUME NEW s, NEW y \in Message, Good(s), Fits(s, y)
  PROVE  Good(Send(s, y)) /\ \A r \in Outcomes(s, Send(s, y)) : Good(r)
BY SendInvariant, OutcomesInvariant

LEMMA DoneInvariant ==
  ASSUME NEW s, Good(s), NEW y \in Task, Fits(s, y)
  PROVE  \A r \in Done(s, y) : Good(r)
<1>1. CASE y.do = "header"
  <2>1. PICK m : m = Header(y.of, FALSE, y.keep)
    OBVIOUS
  <2>2. m \in Message /\ Single(m)
    BY <1>1, <2>1, TaskFields, SingleMessages
  <2>3. Fits(s, m)
    BY <1>1, <2>2, WorkingTask, SingleFollows
  <2>4. QED
    BY <1>1, <2>1, <2>2, <2>3, SendOutcomes DEF Done
<1>2. CASE y.do \in {"body", "time table"}
  <2>1. PICK remote \in BOOLEAN : remote = (y.do = "time table")
    OBVIOUS
  <2>2. PICK m, id : m = Body(remote, id) /\ id = y.id /\ id \in Nat
    BY <1>2, TaskFields
  <2>3. m \in Message /\ ForBody(m, id)
    BY <2>2, BodyMessage
  <2>4. ForBody(y, id)
    BY <1>2, <2>2, TasksAreNoMessages
    DEF ForBody, Working, Streaming, Asking, OfServerFile, Numbered, Bodies, OtherBodies, SignalsWork
  <2>5. Follows(m, y)
    BY <2>3, <2>4 DEF ForBody, Follows
  <2>6. Fits(s, m)
    BY <2>5, FollowerFits
  <2>7. QED
    BY <1>2, <2>1, <2>2, <2>3, <2>6, SendOutcomes DEF Done
<1>3. CASE y.do = "signals"
  <2>1. PICK m, id, of : /\ m = Loaded(id, of) /\ id = y.id /\ of = y.of
                         /\ id \in Nat /\ of \in SUBSET Signals
    BY <1>3, TaskFields
  <2>2. m \in Message /\ ForSignals(m, id)
    BY <2>1, SignalsMessage
  <2>3. /\ y \in Working \ Streaming /\ y \in Numbered /\ y.id = id
        /\ \A i : y \in SignalsWork(i) <=> id = i
    BY <1>3, <2>1, TasksAreNoMessages DEF Working, Streaming, Numbered, SignalsWork
  <2>4. Follows(m, y)
    BY <2>2, <2>3 DEF ForSignals, Follows
  <2>5. Fits(s, m)
    BY <2>4, FollowerFits
  <2>6. Good(Send(s, m)) /\ \A r \in Outcomes(s, Send(s, m)) : Good(r)
    BY <2>2, <2>5, SendOutcomes
  <2>7. QED
    BY <1>3, <2>1, <2>6 DEF Done
<1>4. CASE y.do = "download"
  BY <1>4, AnsweredInvariant, OutcomesInvariant DEF Done
<1>5. CASE y.do = "status"
  <2>1. y \in Asking
    BY <1>5 DEF Asking
  <2>2. Fits(s, Status) /\ Status \in Message
    BY <2>1, StatusItems, StatusFits
  <2>3. QED
    BY <1>5, <2>2, SendOutcomes DEF Done
<1>6. CASE y.do = "hierarchy"
  <2>1. PICK m : m = Header(Server, TRUE, y.keep)
    OBVIOUS
  <2>2. m \in Message /\ Single(m)
    BY <1>6, <2>1, TaskFields, SingleMessages DEF Sources
  <2>3. Fits(s, m)
    BY <1>6, <2>2, WorkingTask, SingleFollows
  <2>4. QED
    BY <1>6, <2>1, <2>2, <2>3, SendOutcomes DEF Done
<1>7. CASE y.do = "reload"
  <2>1. y \in Working \ Streaming /\ y \in OfServerFile
    BY <1>7, WorkingTask DEF OfServerFile
  <2>2. PICK t : t = Send(s, Status)
    OBVIOUS
  <2>3. Fits(s, Status) /\ Status \in Message /\ Status \notin Working
    BY <2>1, StatusItems, StatusFits
  <2>4. Good(t) /\ Puts(s, t, Status) /\ t.app = s.app
    BY <2>2, <2>3, SendInvariant
  <2>5. PICK h : h = [do |-> "hierarchy", file |-> y.file, keep |-> y.keep]
    OBVIOUS
  <2>6. Single(h) /\ h \in Task
    <3>1. PICK file, keep : /\ file = y.file /\ keep = y.keep
                            /\ file \in Remote \cup {None} /\ keep \in BOOLEAN
      BY <1>7, TaskFields
    <3>2. Server \in Sources
      BY DEF Sources
    <3>3. QED
      BY <2>5, <3>1, <3>2, SingleTasks
  <2>7. Good(Spawn(t, h))
    BY <2>1, <2>3, <2>4, <2>6, StatusAndHierarchy, SpawnInvariant
  <2>8. Good(Send(s, Stop))
    <3>1. Stop \in Message /\ Single(Stop)
      BY SingleMessages DEF Sources
    <3>2. QED
      BY <2>1, <3>1, SingleFollows, SendInvariant
  <2>9. QED
    BY <1>7, <2>2, <2>5, <2>7, <2>8, OutcomesInvariant DEF Done
<1>8. QED
  BY <1>1, <1>2, <1>3, <1>4, <1>5, <1>6, <1>7, TaskFields DEF Kinds
-----------------------------------------------------------------------------
(* What is displayed *)

\* States whose application's state may change.
Shaped(s) ==
  Formed(s) /\ s.app \in App /\ IsABag(s.tasks) /\ s.channel \in Seq(Message)

\* What brings signal x to a container.
Carriers(id, x) == {y \in SignalsWork(id) : x \in y.of}

Accounted(s, x) ==
  \/ Has(s.app.waves, x) \/ x \in s.app.waves.to_be_loaded
  \/ ~Free(s, Carriers(s.app.waves.unique_id, x))

\* Nothing displayed is forgotten but the signals of E.
Kept(s, E) ==
  s.app.waves.kind = "wellen" /\ ~s.app.trouble =>
    \A x \in s.app.displayed : x \in E \/ Accounted(s, x)

\* An operation that forgets nothing.
Keeps(s, r) ==
  Shaped(s) =>
    /\ Shaped(r) /\ r.app.waves = s.app.waves /\ r.app.displayed = s.app.displayed
    /\ s.app.trouble => r.app.trouble
    /\ \A P : Free(r, P) => Free(s, P)

LEMMA GoodIsShaped ==
  ASSUME NEW s, Good(s)
  PROVE  Shaped(s)
BY DEF Good, Shaped, Containers, Traffic

LEMMA KeepsKept ==
  ASSUME NEW s, NEW r, NEW E, Shaped(s), Keeps(s, r), Kept(s, E)
  PROVE  Shaped(r) /\ Kept(r, E)
BY DEF Keeps, Kept, Accounted

LEMMA KeepsOn ==
  ASSUME NEW s, NEW r, NEW t, Keeps(s, r), Keeps(r, t)
  PROVE  Keeps(s, t)
BY DEF Keeps

LEMMA KeepsItself == \A s : Keeps(s, s)
BY DEF Keeps

\* The application's state changes, but not the container.
LEMMA AppKeeps ==
  ASSUME NEW s, NEW r, SameTraffic(s, r), s.app \in App => r.app \in App,
         s.app \in App => /\ r.app.waves = s.app.waves /\ r.app.displayed = s.app.displayed
                          /\ s.app.trouble => r.app.trouble
  PROVE  Keeps(s, r)
<1>1. \A P : Free(r, P) <=> Free(s, P)
  BY SameTrafficFree
<1>2. QED
  BY <1>1 DEF Keeps, Shaped, SameTraffic

LEMMA ProgressKeeps ==
  ASSUME NEW s, NEW b \in BOOLEAN
  PROVE  Keeps(s, Progress(s, b))
<1>1. SUFFICES ASSUME Shaped(s)
               PROVE  Keeps(s, Progress(s, b))
  BY DEF Keeps
<1>2. PICK r : r = Progress(s, b)
  OBVIOUS
<1>3. SameTraffic(s, r) /\ r.app = [s.app EXCEPT !.progress_tracker = b]
  BY <1>1, <1>2 DEF Progress, SameTraffic, Shaped, Formed
<1>4. s.app \in App
  BY <1>1 DEF Shaped
<1>5. /\ r.app \in App /\ r.app.waves = s.app.waves /\ r.app.displayed = s.app.displayed
      /\ r.app.trouble = s.app.trouble
  BY <1>3, <1>4 DEF App
<1>6. QED
  BY <1>2, <1>3, <1>5, AppKeeps

LEMMA ReportKeeps ==
  ASSUME NEW s
  PROVE  Keeps(s, Report(s)) /\ (Shaped(s) => Report(s).app.trouble)
<1>1. SUFFICES ASSUME Shaped(s)
               PROVE  Keeps(s, Report(s)) /\ Report(s).app.trouble
  BY DEF Keeps
<1>2. PICK r : r = Report(s)
  OBVIOUS
<1>3. SameTraffic(s, r) /\ r.app = [s.app EXCEPT !.trouble = TRUE]
  BY <1>1, <1>2 DEF Report, SameTraffic, Shaped, Formed
<1>4. s.app \in App
  BY <1>1 DEF Shaped
<1>5. /\ r.app \in App /\ r.app.waves = s.app.waves /\ r.app.displayed = s.app.displayed
      /\ r.app.trouble
  BY <1>3, <1>4 DEF App
<1>6. QED
  BY <1>2, <1>3, <1>5, AppKeeps

LEMMA BeginKeeps ==
  ASSUME NEW s
  PROVE  Keeps(s, Begin(s))
<1>1. SUFFICES ASSUME Shaped(s)
               PROVE  Keeps(s, Begin(s))
  BY DEF Keeps
<1>2. PICK r : r = Begin(s)
  OBVIOUS
<1>3. PICK b \in BOOLEAN : b = (s.app.overlapped \/ Work(s) # {})
  OBVIOUS
<1>4. SameTraffic(s, r) /\ r.app = [s.app EXCEPT !.overlapped = b]
  BY <1>1, <1>2, <1>3 DEF Begin, SameTraffic, Shaped, Formed
<1>5. s.app \in App
  BY <1>1 DEF Shaped
<1>6. /\ r.app \in App /\ r.app.waves = s.app.waves /\ r.app.displayed = s.app.displayed
      /\ r.app.trouble = s.app.trouble
  BY <1>4, <1>5 DEF App
<1>7. QED
  BY <1>2, <1>4, <1>6, AppKeeps

LEMMA SelectionKeeps ==
  ASSUME NEW s, NEW file \in Remote \cup {None}
  PROVE  Keeps(s, [s EXCEPT !.app.selected = file])
<1>1. SUFFICES ASSUME Shaped(s)
               PROVE  Keeps(s, [s EXCEPT !.app.selected = file])
  BY DEF Keeps
<1>2. PICK r : r = [s EXCEPT !.app.selected = file]
  OBVIOUS
<1>3. SameTraffic(s, r) /\ r.app = [s.app EXCEPT !.selected = file]
  BY <1>1, <1>2 DEF SameTraffic, Shaped, Formed
<1>4. s.app \in App
  BY <1>1 DEF Shaped
<1>5. /\ r.app \in App /\ r.app.waves = s.app.waves /\ r.app.displayed = s.app.displayed
      /\ r.app.trouble = s.app.trouble
  BY <1>3, <1>4 DEF App
<1>6. QED
  BY <1>2, <1>3, <1>5, AppKeeps

LEMMA SpawnKeeps ==
  ASSUME NEW s, NEW y
  PROVE  Keeps(s, Spawn(s, y)) /\ (Shaped(s) => ~Free(Spawn(s, y), {y}))
<1>1. SUFFICES ASSUME Shaped(s)
               PROVE  Keeps(s, Spawn(s, y)) /\ ~Free(Spawn(s, y), {y})
  BY DEF Keeps
<1>2. PICK r : r = Spawn(s, y)
  OBVIOUS
<1>3. /\ r.app = s.app /\ r.tasks = s.tasks (+) SetToBag({y})
      /\ r.channel = s.channel /\ r.msgs = s.msgs /\ Formed(r)
  BY <1>1, <1>2 DEF Spawn, Shaped, Formed
<1>4. IsABag(r.tasks) /\ DOMAIN r.tasks = DOMAIN s.tasks \cup {y}
  BY <1>1, <1>3, BagPut DEF Shaped
<1>5. \A P : Free(r, P) => Free(s, P) /\ y \notin P
  BY <1>3, <1>4 DEF Free, BagFree
<1>6. QED
  BY <1>1, <1>2, <1>3, <1>4, <1>5 DEF Keeps, Shaped

LEMMA SendKeeps ==
  ASSUME NEW s, NEW y \in Message
  PROVE  Keeps(s, Send(s, y)) /\ (Shaped(s) => ~Free(Send(s, y), {y}))
<1>1. SUFFICES ASSUME Shaped(s)
               PROVE  Keeps(s, Send(s, y)) /\ ~Free(Send(s, y), {y})
  BY DEF Keeps
<1>2. PICK r : r = Send(s, y)
  OBVIOUS
<1>3. /\ r.app = s.app /\ r.tasks = s.tasks
      /\ r.channel = Append(s.channel, y) /\ r.msgs = s.msgs /\ Formed(r)
  BY <1>1, <1>2 DEF Send, Shaped, Formed
<1>4. PICK b, c : b = s.channel /\ c = r.channel /\ b \in Seq(Message) /\ c = Append(b, y)
  BY <1>1, <1>3 DEF Shaped
<1>5. c \in Seq(Message) /\ Appended(b, c, y)
  BY <1>4, SeqPut
<1>6. \A P : Free(r, P) => Free(s, P) /\ y \notin P
  BY <1>3, <1>4, <1>5 DEF Appended, Free
<1>7. QED
  BY <1>1, <1>2, <1>3, <1>4, <1>5, <1>6 DEF Keeps, Shaped

LEMMA OutcomesKeep ==
  ASSUME NEW s, NEW good
  PROVE  /\ Keeps(s, good) => \A r \in Outcomes(s, good) : Keeps(s, r)
         /\ \A E : Shaped(s) /\ Kept(good, E) => \A r \in Outcomes(s, good) : Kept(r, E)
<1>1. PICK t, f : t = Report(s) /\ f = Send(t, Error)
  OBVIOUS
<1>2. Keeps(s, t) /\ (Shaped(s) => t.app.trouble)
  BY <1>1, ReportKeeps
<1>3. Keeps(t, f)
  BY <1>1, SendKeeps, PlainMessages
<1>4. Keeps(s, f)
  BY <1>2, <1>3, KeepsOn
<1>5. Shaped(s) => f.app.trouble
  BY <1>2, <1>3 DEF Keeps
<1>6. \A r \in Outcomes(s, good) : r = good \/ r = f
  BY <1>1 DEF Outcomes, Fail
<1>7. QED
  BY <1>4, <1>5, <1>6 DEF Kept

LEMMA LoadFromFileKeeps ==
  ASSUME NEW s, NEW source \in Sources, NEW keep \in BOOLEAN
  PROVE  \A r \in LoadFromFile(s, source, keep) \cup LoadFromBytes(s, source, keep) : Keeps(s, r)
<1>1. PICK y : y = [do |-> "header", of |-> source, keep |-> keep]
  OBVIOUS
<1>2. Keeps(s, Progress(Spawn(s, y), TRUE))
  BY SpawnKeeps, ProgressKeeps, KeepsOn
<1>3. Keeps(s, Send(s, Streams(source)))
  BY SendKeeps, StreamsMessage
<1>4. QED
  BY <1>1, <1>2, <1>3, OutcomesKeep DEF LoadFromFile, LoadFromBytes

LEMMA LoadFromUrlKeeps ==
  ASSUME NEW s, NEW source, NEW keep, NEW force_switch, NEW file \in Remote \cup {None}
  PROVE  Keeps(s, LoadFromUrl(s, source, keep, force_switch, file))
<1>1. SUFFICES ASSUME Shaped(s)
               PROVE  Keeps(s, LoadFromUrl(s, source, keep, force_switch, file))
  BY DEF Keeps
<1>2. PICK new, y : /\ new = IF file # None THEN file ELSE s.app.selected
                    /\ y = [do |-> "download", of |-> source, keep |-> keep,
                            force_switch |-> force_switch, file |-> file]
  OBVIOUS
<1>3. new \in Remote \cup {None}
  BY <1>1, <1>2 DEF Shaped, App
<1>4. PICK a : a = [s EXCEPT !.app.selected = new]
  OBVIOUS
<1>5. Keeps(s, a) /\ Keeps(a, Spawn(a, y)) /\ Keeps(Spawn(a, y), Progress(Spawn(a, y), TRUE))
  BY <1>3, <1>4, SelectionKeeps, SpawnKeeps, ProgressKeeps
<1>6. LoadFromUrl(s, source, keep, force_switch, file) = Progress(Spawn(a, y), TRUE)
  BY <1>2, <1>4, Zenon DEF LoadFromUrl
<1>7. QED
  BY <1>5, <1>6, KeepsOn

\* What is wanted is queued or on its way.
LEMMA LoadSignalsKept ==
  ASSUME NEW s, NEW ids \in SUBSET Signals, NEW E \in SUBSET Signals, Shaped(s),
         s.app.waves.unique_id \in Nat, Kept(s, E)
  PROVE  /\ Shaped(LoadSignals(s, ids)) /\ Kept(LoadSignals(s, ids), E \ ids)
         /\ LoadSignals(s, ids).app.waves.unique_id = s.app.waves.unique_id
<1>1. PICK r, to : r = LoadSignals(s, ids) /\ to = Wanted(s, ids)
  OBVIOUS
<1>2. s.app \in App /\ s.app.waves \in Waves
  BY DEF Shaped, App
<1>3. to \in SUBSET Signals /\ s.app.waves.to_be_loaded \subseteq to
  BY <1>1, <1>2 DEF Wanted, Waves
<1>4. \A x \in ids : Has(s.app.waves, x) \/ x \in to
  BY <1>1 DEF Wanted
<1>5. CASE ~CanRequest(s) \/ to = {}
  <2>1. PICK w : w = [s.app.waves EXCEPT !.to_be_loaded = to]
    OBVIOUS
  <2>2. r = [s EXCEPT !.app.waves.to_be_loaded = to]
    BY <1>1, <1>5, Zenon DEF LoadSignals, Wanted, CanRequest
  <2>3. SameTraffic(s, r) /\ r.app = [s.app EXCEPT !.waves = w]
    BY <2>1, <2>2 DEF SameTraffic, Shaped, Formed
  <2>4. /\ w \in Waves /\ w.to_be_loaded = to /\ w.kind = s.app.waves.kind
        /\ w.unique_id = s.app.waves.unique_id /\ w.signals = s.app.waves.signals
    BY <1>2, <1>3, <2>1 DEF Waves
  <2>5. /\ r.app \in App /\ r.app.waves = w /\ r.app.displayed = s.app.displayed
        /\ r.app.trouble = s.app.trouble
    BY <1>2, <2>3, <2>4 DEF App
  <2>6. Shaped(r)
    BY <2>3, <2>5 DEF Shaped, SameTraffic
  <2>7. \A P : Free(r, P) <=> Free(s, P)
    BY <2>3, SameTrafficFree
  <2>8. \A x : /\ Accounted(s, x) => Accounted(r, x)
               /\ x \in ids => Accounted(r, x)
    BY <1>3, <1>4, <2>4, <2>5, <2>7 DEF Accounted, Has
  <2>9. Kept(r, E \ ids)
    BY <2>4, <2>5, <2>8 DEF Kept
  <2>10. QED
    BY <1>1, <2>4, <2>5, <2>6, <2>9
<1>6. CASE CanRequest(s) /\ to # {}
  <2>1. PICK w : w = Lent(s.app.waves)
    OBVIOUS
  <2>2. PICK y : y = Request(s, ids)
    OBVIOUS
  <2>3. r = WithTask(s, [s.app EXCEPT !.waves = w, !.progress_tracker = TRUE], y)
    BY <1>1, <1>2, <1>6, <2>1, <2>2, RequestedState DEF Shaped
  <2>4. /\ r.app = [s.app EXCEPT !.waves = w, !.progress_tracker = TRUE]
        /\ r.tasks = s.tasks (+) SetToBag({y}) /\ r.channel = s.channel /\ r.msgs = s.msgs
        /\ Formed(r)
    BY <2>3 DEF WithTask, Formed
  <2>5. /\ w \in Waves /\ w.kind = s.app.waves.kind
        /\ w.unique_id = s.app.waves.unique_id /\ w.signals = s.app.waves.signals
    BY <1>2, <2>1 DEF Waves, Lent
  <2>6. /\ r.app \in App /\ r.app.waves = w /\ r.app.displayed = s.app.displayed
        /\ r.app.trouble = s.app.trouble
    BY <1>2, <2>4, <2>5 DEF App
  <2>7. IsABag(r.tasks) /\ DOMAIN r.tasks = DOMAIN s.tasks \cup {y}
    BY <2>4, BagPut DEF Shaped
  <2>8. Shaped(r)
    BY <2>4, <2>6, <2>7 DEF Shaped
  <2>9. \A P : Free(r, P) => Free(s, P) /\ y \notin P
    BY <2>4, <2>7 DEF Free, BagFree
  <2>10. y \in SignalsWork(s.app.waves.unique_id) /\ y.of = to
    BY <1>1, <1>2, <1>3, <2>2 DEF Request, SignalsWork, Task, Waves
  <2>11. \A x \in to : y \in Carriers(s.app.waves.unique_id, x)
    BY <2>10 DEF Carriers
  <2>12. \A x : /\ Accounted(s, x) => Accounted(r, x)
                /\ x \in ids => Accounted(r, x)
    BY <1>3, <1>4, <2>5, <2>6, <2>9, <2>11 DEF Accounted, Has
  <2>13. Kept(r, E \ ids)
    BY <2>5, <2>6, <2>12 DEF Kept
  <2>14. QED
    BY <1>1, <2>5, <2>6, <2>8, <2>13
<1>7. QED
  BY <1>1, <1>5, <1>6

\* What m carries to the container shown.
Held(s, m) == IF m \in SignalsWork(s.app.waves.unique_id) THEN m.of ELSE {}

LEMMA OthersHoldNothing ==
  /\ \A s : \A m \in Message : m.msg # "SignalsLoaded" => Held(s, m) = {}
  /\ \A s : \A y \in Task : y.do # "signals" => Held(s, y) = {}
BY TasksAreNoMessages DEF Held, SignalsWork

LEMMA OnLoadKeeps ==
  ASSUME NEW s, NEW m \in Message, m.msg = "Load"
  PROVE  \A r \in OnLoad(s, m) : Keeps(s, r)
<1>1. PICK t : t = [Begin(s) EXCEPT !.app.selected = None]
  OBVIOUS
<1>2. Keeps(s, t)
  BY <1>1, BeginKeeps, SelectionKeeps, KeepsOn
<1>3. m.of \in Sources /\ m.keep \in BOOLEAN
  BY MessageFields
<1>4. \A r \in LoadFromFile(t, m.of, m.keep) : Keeps(t, r)
  BY <1>3, LoadFromFileKeeps
<1>5. Keeps(t, LoadFromUrl(t, m.of, m.keep, TRUE, None))
  BY LoadFromUrlKeeps
<1>6. \A r \in OnLoad(s, m) : Keeps(t, r)
  BY <1>1, <1>4, <1>5 DEF OnLoad
<1>7. QED
  BY <1>2, <1>6, KeepsOn

LEMMA OnPickKeeps ==
  ASSUME NEW s, NEW m \in Message, m.msg = "LoadSurverFileByIndex"
  PROVE  \A r \in OnLoadSurverFileByIndex(s, m) : Keeps(s, r)
<1>1. m.of \in Remote \cup {None}
  BY MessageFields
<1>2. PICK t, b : t = Begin(s) /\ b = (s.app.selected # m.of)
  OBVIOUS
<1>3. Keeps(s, t) /\ Keeps(t, LoadFromUrl(t, Server, m.keep, b, m.of))
  BY <1>1, <1>2, BeginKeeps, LoadFromUrlKeeps
<1>4. Keeps(s, LoadFromUrl(t, Server, m.keep, b, m.of))
  BY <1>3, KeepsOn
<1>5. QED
  BY <1>2, <1>4, KeepsItself, Zenon DEF OnLoadSurverFileByIndex

LEMMA OnReloadKeeps ==
  ASSUME NEW s, Good(s)
  PROVE  \A r \in OnReloadWaveform(s) : Keeps(s, r)
<1>1. CASE s.app.waves.kind # "none"
  <2>1. PICK t, source, file : /\ t = Begin(s) /\ source = s.app.waves.source
                               /\ file = s.app.selected
    OBVIOUS
  <2>2. source \in Sources /\ file \in Remote \cup {None}
    BY <1>1, <2>1 DEF Good, Containers, App
  <2>3. \A r \in LoadFromFile(t, source, TRUE) : Keeps(t, r)
    BY <2>2, LoadFromFileKeeps
  <2>4. Keeps(t, LoadFromUrl(t, source, TRUE, FALSE, file))
    BY <2>2, LoadFromUrlKeeps
  <2>5. \A r \in OnReloadWaveform(s) : Keeps(t, r)
    BY <1>1, <2>1, <2>3, <2>4 DEF OnReloadWaveform
  <2>6. QED
    BY <2>1, <2>5, BeginKeeps, KeepsOn
<1>2. CASE s.app.waves.kind = "none"
  BY <1>2, KeepsItself DEF OnReloadWaveform
<1>3. QED
  BY <1>1, <1>2

LEMMA OnSetSurverStatusKeeps ==
  ASSUME NEW s, Good(s)
  PROVE  \A r \in OnSetSurverStatus(s) : Keeps(s, r)
<1>1. PICK known : known = [s EXCEPT !.app.surver_url = TRUE]
  OBVIOUS
<1>2. Keeps(s, known) /\ known.app.file_infos \subseteq Remote
  <2>1. SameTraffic(s, known) /\ known.app = [s.app EXCEPT !.surver_url = TRUE]
    BY <1>1 DEF SameTraffic, Good, Formed
  <2>2. s.app \in App
    BY DEF Good, Containers
  <2>3. /\ known.app \in App /\ known.app.waves = s.app.waves
        /\ known.app.displayed = s.app.displayed /\ known.app.trouble = s.app.trouble
    BY <2>1, <2>2 DEF App
  <2>4. Keeps(s, known)
    BY <2>1, <2>3, AppKeeps
  <2>5. QED
    BY <2>3, <2>4 DEF App
<1>3. \A t : Keeps(t, ServerStatusToProgress(t))
  BY SpawnKeeps, ProgressKeeps, KeepsItself, KeepsOn DEF ServerStatusToProgress
<1>4. PICK file : file = CHOOSE info \in known.app.file_infos : TRUE
  OBVIOUS
<1>5. PICK u : u = LoadFromUrl(Begin(known), Server, FALSE, FALSE, file)
  OBVIOUS
<1>6. known.app.file_infos # {} => Keeps(known, u)
  <2>1. SUFFICES ASSUME known.app.file_infos # {}
                 PROVE  Keeps(known, u)
    OBVIOUS
  <2>2. file \in Remote \cup {None}
    BY <1>2, <1>4, <2>1
  <2>3. Keeps(known, Begin(known)) /\ Keeps(Begin(known), u)
    BY <1>5, <2>2, BeginKeeps, LoadFromUrlKeeps
  <2>4. QED
    BY <2>3, KeepsOn
<1>7. PICK t : t = IF known.app.selected # None THEN known
                   ELSE IF Cardinality(known.app.file_infos) = 1 THEN u
                   ELSE Progress(known, FALSE)
  OBVIOUS
<1>8. known.app.file_infos # {} => Keeps(known, t)
  BY <1>6, <1>7, KeepsItself, ProgressKeeps
<1>9. known.app.file_infos # {} => Keeps(known, ServerStatusToProgress(t))
  BY <1>3, <1>8, KeepsOn
<1>10. OnSetSurverStatus(s) =
         {IF known.app.file_infos = {} THEN Report(known)
          ELSE IF t.app.selected = None THEN t ELSE ServerStatusToProgress(t)}
  BY <1>1, <1>4, <1>5, <1>7, Zenon DEF OnSetSurverStatus
<1>11. \A r \in OnSetSurverStatus(s) : Keeps(known, r)
  BY <1>8, <1>9, <1>10, ReportKeeps
<1>12. QED
  BY <1>2, <1>11, KeepsOn

LEMMA OnAddVariablesKept ==
  ASSUME NEW s, Good(s), NEW m \in Message, m.msg = "AddVariables", Kept(s, {})
  PROVE  \A r \in OnAddVariables(s, m) : Kept(r, {})
<1>1. CASE s.app.waves.kind = "none"
  BY <1>1 DEF OnAddVariables
<1>2. CASE s.app.waves.kind \notin {"none", "wellen"}
  <2>1. s.app \in App
    BY DEF Good, Containers
  <2>2. PICK r : r = Panic(s, "no variables")
    OBVIOUS
  <2>3. r.app = [s.app EXCEPT !.panic = "no variables"]
    BY <2>2 DEF Panic, Good, Formed
  <2>4. r.app.waves = s.app.waves
    BY <2>1, <2>3 DEF App
  <2>5. Kept(r, {})
    BY <1>2, <2>4 DEF Kept
  <2>6. QED
    BY <1>2, <2>2, <2>5 DEF OnAddVariables
<1>3. CASE s.app.waves.kind = "wellen"
  <2>0. m.of \in Signals
    BY MessageFields
  <2>1. PICK d, ids : d = s.app.displayed \cup ids /\ ids = {m.of} /\ ids \in SUBSET Signals
    BY <2>0
  <2>2. PICK a : a = [s EXCEPT !.app.displayed = d]
    OBVIOUS
  <2>3. PICK t, o : t = LoadSignals(a, ids) /\ o = Begin(s).app.overlapped
    OBVIOUS
  <2>4. OnAddVariables(s, m) = {IF t.tasks = s.tasks THEN t ELSE [t EXCEPT !.app.overlapped = o]}
    BY <1>3, <2>1, <2>2, <2>3 DEF OnAddVariables
  <2>5. SameTraffic(s, a) /\ a.app = [s.app EXCEPT !.displayed = d]
    BY <2>2 DEF SameTraffic, Good, Formed
  <2>6. s.app \in App /\ s.app.displayed \subseteq Signals /\ s.app.waves.unique_id \in Nat
    BY DEF Good, Containers, App, Waves
  <2>7. /\ a.app \in App /\ a.app.waves = s.app.waves /\ a.app.displayed = d
        /\ a.app.trouble = s.app.trouble
    <3>1. d \in SUBSET Signals
      BY <2>1, <2>6
    <3>2. QED
      BY <2>5, <2>6, <3>1 DEF App
  <2>8. Shaped(a) /\ Kept(a, ids)
    <3>1. \A P : Free(a, P) <=> Free(s, P)
      BY <2>5, SameTrafficFree
    <3>2. Shaped(a)
      BY <2>5, <2>7, GoodIsShaped DEF Shaped, SameTraffic
    <3>3. Kept(a, ids)
      BY <2>1, <2>7, <3>1 DEF Kept, Accounted
    <3>4. QED
      BY <3>2, <3>3
  <2>9. Shaped(t) /\ Kept(t, {})
    <3>1. Shaped(t) /\ Kept(t, ids \ ids)
      BY <2>1, <2>3, <2>6, <2>7, <2>8, LoadSignalsKept
    <3>2. ids \ ids = {}
      OBVIOUS
    <3>3. QED
      BY <3>1, <3>2
  <2>10. Kept([t EXCEPT !.app.overlapped = o], {})
    <3>1. PICK c : c = [t EXCEPT !.app.overlapped = o]
      OBVIOUS
    <3>2. SameTraffic(t, c) /\ c.app = [t.app EXCEPT !.overlapped = o]
      BY <2>9, <3>1 DEF SameTraffic, Shaped, Formed
    <3>3. o \in BOOLEAN
      BY <2>3, BeginRoom
    <3>4. /\ c.app \in App /\ c.app.waves = t.app.waves /\ c.app.displayed = t.app.displayed
          /\ c.app.trouble = t.app.trouble
      BY <2>9, <3>2, <3>3 DEF App, Shaped
    <3>5. Keeps(t, c)
      BY <3>2, <3>4, AppKeeps
    <3>6. QED
      BY <2>9, <3>1, <3>5, KeepsKept
  <2>11. QED
    BY <2>4, <2>9, <2>10
<1>4. QED
  BY <1>1, <1>2, <1>3

LEMMA OnWaveHeaderLoadedKept ==
  ASSUME NEW s, Good(s), NEW m \in Message, m.msg = "WaveHeaderLoaded", Fits(s, m)
  PROVE  \A r \in OnWaveHeaderLoaded(s, m) : Kept(r, {})
<1>1. m.of \in Sources /\ m.remote \in BOOLEAN /\ m.keep \in BOOLEAN
  BY MessageFields
<1>2. m \in Working
  BY DEF Working
<1>3. ~s.app.overlapped => Free(s, Working)
  BY <1>2 DEF Fits
<1>4. PICK t : t = OnWavesLoaded(s, m.of, m.remote, m.keep)
  OBVIOUS
<1>5. Good(t) /\ (t.app.displayed = {} \/ t.app.waves.to_be_loaded = t.app.displayed)
  BY <1>1, <1>3, <1>4, OnWavesLoadedInvariant
<1>6. Kept(t, {}) /\ Shaped(t)
  BY <1>5, GoodIsShaped DEF Kept, Accounted
<1>7. PICK y : y = [do |-> IF m.remote THEN "time table" ELSE "body", id |-> t.app.unique_ids]
  OBVIOUS
<1>8. Keeps(t, Spawn(t, y)) /\ Keeps(t, Progress(Spawn(t, y), TRUE))
  BY SpawnKeeps, ProgressKeeps, KeepsOn
<1>9. \A r \in OnWaveHeaderLoaded(s, m) : Keeps(t, r)
  BY <1>4, <1>7, <1>8 DEF OnWaveHeaderLoaded
<1>10. QED
  BY <1>6, <1>9, KeepsKept

LEMMA AddBodyKept ==
  ASSUME NEW s, Shaped(s), s.app.waves.unique_id \in Nat, Kept(s, {}), NEW m, m.id \in Nat
  PROVE  /\ Shaped(AddBody(s, m)) /\ Kept(AddBody(s, m), {})
         /\ AddBody(s, m).app.waves.unique_id = s.app.waves.unique_id
<1>1. s.app \in App /\ s.app.waves \in Waves
  BY DEF Shaped, App
<1>2. CASE s.app.waves.body # 0
  <2>1. PICK r : r = [s EXCEPT !.app.second_body = TRUE]
    OBVIOUS
  <2>2. SameTraffic(s, r) /\ r.app = [s.app EXCEPT !.second_body = TRUE]
    BY <2>1 DEF SameTraffic, Shaped, Formed
  <2>3. /\ r.app \in App /\ r.app.waves = s.app.waves /\ r.app.displayed = s.app.displayed
        /\ r.app.trouble = s.app.trouble
    BY <1>1, <2>2 DEF App
  <2>4. Shaped(r) /\ Kept(r, {})
    BY <2>2, <2>3, AppKeeps, KeepsKept
  <2>5. QED
    BY <1>2, <2>1, <2>3, <2>4 DEF AddBody
<1>3. CASE s.app.waves.body = 0 /\ m.remote # s.app.waves.remote
  BY <1>3 DEF AddBody
<1>4. CASE s.app.waves.body = 0 /\ m.remote = s.app.waves.remote
  <2>1. PICK w : w = [s.app.waves EXCEPT !.body = m.id, !.handle = TRUE]
    OBVIOUS
  <2>2. /\ w \in Waves /\ w.kind = s.app.waves.kind /\ w.unique_id = s.app.waves.unique_id
        /\ w.signals = s.app.waves.signals /\ w.to_be_loaded = s.app.waves.to_be_loaded
    BY <1>1, <2>1 DEF Waves
  <2>3. PICK a : a = [s EXCEPT !.app.waves.body = m.id, !.app.waves.handle = TRUE]
    OBVIOUS
  <2>4. SameTraffic(s, a) /\ a.app = [s.app EXCEPT !.waves = w]
    BY <1>1, <2>1, <2>3 DEF SameTraffic, Shaped, Formed, App
  <2>5. /\ a.app \in App /\ a.app.waves = w /\ a.app.displayed = s.app.displayed
        /\ a.app.trouble = s.app.trouble
    BY <1>1, <2>2, <2>4 DEF App
  <2>6. \A P : Free(a, P) <=> Free(s, P)
    BY <2>4, SameTrafficFree
  <2>7. Shaped(a)
    BY <2>4, <2>5 DEF Shaped, SameTraffic
  <2>8. Kept(a, {})
    BY <2>2, <2>5, <2>6 DEF Kept, Accounted, Has
  <2>9. /\ Shaped(LoadSignals(a, {})) /\ Kept(LoadSignals(a, {}), {})
        /\ LoadSignals(a, {}).app.waves.unique_id = s.app.waves.unique_id
    <3>1. PICK none : none = {}
      OBVIOUS
    <3>2. none \in SUBSET Signals /\ none \ none = none
      BY <3>1
    <3>3. a.app.waves.unique_id \in Nat /\ Kept(a, none)
      BY <2>2, <2>5, <2>8, <3>1
    <3>4. /\ Shaped(LoadSignals(a, none)) /\ Kept(LoadSignals(a, none), none \ none)
          /\ LoadSignals(a, none).app.waves.unique_id = a.app.waves.unique_id
      BY <2>7, <3>2, <3>3, LoadSignalsKept
    <3>5. QED
      BY <2>2, <2>5, <3>1, <3>2, <3>4
  <2>10. AddBody(s, m) = LoadSignals(a, {})
    BY <1>4, <2>3, Zenon DEF AddBody
  <2>11. QED
    BY <2>9, <2>10
<1>5. QED
  BY <1>2, <1>3, <1>4

\* Signals are asked for, and nothing else changes.
LEMMA LoadSignalsKeptAll ==
  ASSUME NEW s, NEW ids \in SUBSET Signals, Shaped(s),
         s.app.waves.unique_id \in Nat, Kept(s, {})
  PROVE  Kept(LoadSignals(s, ids), {})
<1>1. PICK none : none = {}
  OBVIOUS
<1>2. none \in SUBSET Signals /\ none \ ids = none
  BY <1>1
<1>3. Kept(LoadSignals(s, ids), none \ ids)
  BY <1>1, <1>2, LoadSignalsKept
<1>4. QED
  BY <1>1, <1>2, <1>3

LEMMA OnWaveBodyLoadedKept ==
  ASSUME NEW s, Good(s), NEW m \in Message, m.msg = "WaveBodyLoaded", Fits(s, m), Kept(s, {})
  PROVE  \A r \in OnWaveBodyLoaded(s, m) : Kept(r, {})
<1>1. m \in Numbered /\ m.id \in Nat
  BY MessageFields DEF Numbered, Bodies
<1>2. s.app.waves.kind # "none"
  BY <1>1, ContainerThere DEF Fits
<1>3. PICK t : t = Progress(s, FALSE)
  OBVIOUS
<1>4. Shaped(t) /\ Kept(t, {}) /\ t.app.waves = s.app.waves
  BY <1>3, GoodIsShaped, ProgressKeeps, KeepsKept DEF Keeps
<1>5. t.app.waves.unique_id \in Nat
  BY <1>4 DEF Shaped, App, Waves
<1>6. PICK b : b = AddBody(t, m)
  OBVIOUS
<1>7. Shaped(b) /\ Kept(b, {}) /\ b.app.waves.unique_id = t.app.waves.unique_id
  BY <1>1, <1>4, <1>5, <1>6, AddBodyKept
<1>8. Params \in SUBSET Signals
  BY WaveLoadingAssumption
<1>9. Kept(LoadSignals(b, Params), {})
  BY <1>5, <1>7, <1>8, LoadSignalsKeptAll
<1>10. QED
  BY <1>2, <1>3, <1>4, <1>6, <1>9 DEF OnWaveBodyLoaded

LEMMA OnSignalsKept ==
  ASSUME NEW s, Good(s), NEW m \in Message, m.msg = "SignalsLoaded", Fits(s, m),
         Kept(s, Held(s, m))
  PROVE  \A r \in OnSignals(s, m) : Kept(r, {})
<1>1. m \in Numbered
  BY DEF Numbered
<1>2. s.app.waves.kind # "none"
  BY <1>1, ContainerThere DEF Fits
<1>3. PICK t : t = Progress(s, FALSE)
  OBVIOUS
<1>4. Shaped(t) /\ Kept(t, Held(s, m)) /\ t.app.waves = s.app.waves
  BY <1>3, GoodIsShaped, ProgressKeeps, KeepsKept DEF Keeps
<1>5. t.app \in App /\ t.app.waves \in Waves /\ t.app.waves.unique_id \in Nat
  BY <1>4 DEF Shaped, App, Waves
<1>6. {} \in SUBSET Signals
  OBVIOUS
<1>7. CASE t.app.waves.kind = "wellen" /\ m.id # t.app.waves.unique_id
  <2>1. Held(s, m) = {}
    BY <1>4, <1>7, TasksAreNoMessages DEF Held, SignalsWork
  <2>2. Kept(LoadSignals(t, {}), {})
    BY <1>4, <1>5, <1>6, <2>1, LoadSignalsKeptAll
  <2>3. QED
    BY <1>3, <1>7, <2>2 DEF OnSignals, OnSignalsLoaded
<1>8. CASE t.app.waves.kind = "wellen" /\ m.id = t.app.waves.unique_id
  <2>1. m \in SignalsWork(s.app.waves.unique_id)
    BY <1>4, <1>8 DEF SignalsWork
  <2>2. Held(s, m) = m.of /\ ~t.app.waves.handle
    BY <1>4, <2>1 DEF Fits, Held
  <2>3. PICK new : new = [of : m.of, from : {m.id}]
    OBVIOUS
  <2>4. /\ new \in SUBSET [of : Signals, from : Nat]
        /\ \A x \in m.of : \E y \in new : y.of = x
    <3>1. m.of \in SUBSET Signals /\ m.id \in Nat
      BY MessageFields
    <3>2. \A x \in m.of : [of |-> x, from |-> m.id] \in new
      BY <2>3
    <3>3. QED
      BY <2>3, <3>1, <3>2
  <2>5. PICK w : w = [t.app.waves EXCEPT !.handle = TRUE, !.signals = @ \cup new]
    OBVIOUS
  <2>6. /\ w \in Waves /\ w.kind = t.app.waves.kind /\ w.unique_id = t.app.waves.unique_id
        /\ w.signals = t.app.waves.signals \cup new
        /\ w.to_be_loaded = t.app.waves.to_be_loaded
    BY <1>5, <2>4, <2>5 DEF Waves
  <2>7. PICK a : a = [t EXCEPT !.app.waves.handle = TRUE, !.app.waves.signals = @ \cup new]
    OBVIOUS
  <2>8. SameTraffic(t, a) /\ a.app = [t.app EXCEPT !.waves = w]
    BY <1>4, <1>5, <2>5, <2>7 DEF SameTraffic, Shaped, Formed, App, Waves
  <2>9. /\ a.app \in App /\ a.app.waves = w /\ a.app.displayed = t.app.displayed
        /\ a.app.trouble = t.app.trouble
    BY <1>5, <2>6, <2>8 DEF App
  <2>10. \A P : Free(a, P) <=> Free(t, P)
    BY <2>8, SameTrafficFree
  <2>11. Shaped(a)
    BY <1>4, <2>8, <2>9 DEF Shaped, SameTraffic
  <2>12. Kept(a, {})
    <3>1. \A x : Accounted(t, x) => Accounted(a, x)
      BY <2>6, <2>9, <2>10 DEF Accounted, Has
    <3>2. \A x \in m.of : Accounted(a, x)
      BY <2>4, <2>6, <2>9 DEF Accounted, Has
    <3>3. QED
      BY <1>4, <2>2, <2>6, <2>9, <3>1, <3>2 DEF Kept
  <2>13. Kept(LoadSignals(a, {}), {})
    BY <1>5, <1>6, <2>6, <2>9, <2>11, <2>12, LoadSignalsKeptAll
  <2>14. OnSignalsLoaded(t, m) = LoadSignals(a, {})
    BY <1>8, <2>2, <2>3, <2>7 DEF OnSignalsLoaded
  <2>15. QED
    BY <1>3, <1>8, <2>13, <2>14 DEF OnSignals
<1>9. CASE t.app.waves.kind # "wellen"
  BY <1>2, <1>3, <1>4, <1>9 DEF OnSignals, Kept
<1>10. QED
  BY <1>7, <1>8, <1>9

LEMMA UpdateKept ==
  ASSUME NEW s, Good(s), NEW m \in Message, Fits(s, m), Kept(s, Held(s, m))
  PROVE  \A r \in Update(s, m) : Kept(r, {})
<1>1. Shaped(s)
  BY GoodIsShaped
<1>2. m.msg # "SignalsLoaded" => Kept(s, {})
  BY OthersHoldNothing
<1>3. ASSUME m.msg # "SignalsLoaded", \A r \in Update(s, m) : Keeps(s, r)
      PROVE  \A r \in Update(s, m) : Kept(r, {})
  BY <1>1, <1>2, <1>3, KeepsKept
<1>4. CASE m.msg = "Load"
  BY <1>3, <1>4, OnLoadKeeps DEF Update
<1>5. CASE m.msg = "LoadSurverFileByIndex"
  BY <1>3, <1>5, OnPickKeeps DEF Update
<1>6. CASE m.msg = "ReloadWaveform"
  BY <1>3, <1>6, OnReloadKeeps DEF Update
<1>7. CASE m.msg = "AddVariables"
  BY <1>2, <1>7, OnAddVariablesKept DEF Update
<1>8. CASE m.msg = "WaveHeaderLoaded"
  BY <1>8, OnWaveHeaderLoadedKept DEF Update
<1>9. CASE m.msg = "WaveBodyLoaded"
  BY <1>2, <1>9, OnWaveBodyLoadedKept DEF Update
<1>10. CASE m.msg = "SignalsLoaded"
  BY <1>10, OnSignalsKept DEF Update
<1>11. CASE m.msg = "TransactionStreamsLoaded"
  <2>1. PICK w : w = [NoWaves EXCEPT !.kind = "transactions", !.source = m.of]
    OBVIOUS
  <2>2. w.kind = "transactions"
    BY <2>1 DEF NoWaves
  <2>3. PICK r : r = [s EXCEPT !.app.displayed = {}, !.app.waves = w]
    OBVIOUS
  <2>4. r.app = [s.app EXCEPT !.displayed = {}, !.waves = w]
    BY <1>1, <2>3 DEF Shaped, Formed
  <2>5. r.app.waves = w
    BY <1>1, <2>4 DEF Shaped, App
  <2>6. Kept(r, {})
    BY <2>2, <2>5 DEF Kept
  <2>7. QED
    BY <1>11, <2>1, <2>3, <2>6 DEF Update, OnTransactionStreamsLoaded
<1>12. CASE m.msg = "FileDownloaded"
  <2>1. m.of \in Sources /\ m.keep \in BOOLEAN
    BY <1>12, MessageFields
  <2>2. \A r \in LoadFromBytes(s, m.of, m.keep) : Keeps(s, r)
    BY <2>1, LoadFromFileKeeps
  <2>3. QED
    BY <1>3, <1>12, <2>2 DEF Update
<1>13. CASE m.msg = "SetSurverStatus"
  BY <1>3, <1>13, OnSetSurverStatusKeeps DEF Update
<1>14. CASE m.msg = "StopProgressTracker"
  BY <1>3, <1>14, ProgressKeeps DEF Update
<1>15. CASE m.msg \in {"Error", "Exit"}
  BY <1>2, <1>15 DEF Update
<1>16. QED
  BY <1>4, <1>5, <1>6, <1>7, <1>8, <1>9, <1>10, <1>11, <1>12, <1>13, <1>14, <1>15, MessageFields

LEMMA AnsweredKeeps ==
  ASSUME NEW s, NEW y \in Task, y.do = "download"
  PROVE  Keeps(s, Answered(s, y))
<1>1. \A a, b : Keeps(s, Spawn(s, a)) /\ Keeps(s, Spawn(Spawn(s, a), b))
  BY SpawnKeeps, KeepsOn
<1>2. Keeps(s, Report(s))
  BY ReportKeeps
<1>3. Keeps(s, Send(s, Downloaded(y.of, y.keep)))
  <2>1. PICK m : m = Downloaded(y.of, y.keep)
    OBVIOUS
  <2>2. m \in Message
    BY <2>1, TaskFields, SingleMessages
  <2>3. QED
    BY <2>1, <2>2, SendKeeps
<1>4. QED
  BY <1>1, <1>2, <1>3, Zenon DEF Answered

LEMMA DoneKept ==
  ASSUME NEW s, Good(s), NEW y \in Task, Kept(s, Held(s, y))
  PROVE  \A r \in Done(s, y) : Kept(r, {})
<1>1. Shaped(s)
  BY GoodIsShaped
<1>2. ASSUME y.do # "signals", \A r \in Done(s, y) : Keeps(s, r)
      PROVE  \A r \in Done(s, y) : Kept(r, {})
  <2>1. Kept(s, {})
    BY <1>2, OthersHoldNothing
  <2>2. QED
    BY <1>1, <1>2, <2>1, KeepsKept
<1>3. ASSUME NEW m \in Message
      PROVE  \A r \in Outcomes(s, Send(s, m)) : Keeps(s, r)
  BY SendKeeps, OutcomesKeep
<1>4. CASE y.do = "header"
  <2>1. Header(y.of, FALSE, y.keep) \in Message
    BY <1>4, TaskFields, SingleMessages
  <2>2. QED
    BY <1>2, <1>3, <1>4, <2>1 DEF Done
<1>5. CASE y.do \in {"body", "time table"}
  <2>1. y.id \in Nat
    BY <1>5, TaskFields
  <2>2. Body(TRUE, y.id) \in Message /\ Body(FALSE, y.id) \in Message
    BY <2>1, BodyMessage
  <2>3. QED
    BY <1>2, <1>3, <1>5, <2>2 DEF Done
<1>6. CASE y.do = "signals"
  <2>1. PICK m, id, of : /\ m = Loaded(id, of) /\ id = y.id /\ of = y.of
                         /\ id \in Nat /\ of \in SUBSET Signals
    BY <1>6, TaskFields
  <2>2. m \in Message /\ m.msg = "SignalsLoaded" /\ m.id = id /\ m.of = of
    BY <2>1 DEF Message, Loaded
  <2>3. PICK r : r = Send(s, m)
    OBVIOUS
  <2>4. Keeps(s, r) /\ ~Free(r, {m}) /\ Shaped(r)
    BY <1>1, <2>2, <2>3, SendKeeps DEF Keeps
  <2>5. Kept(r, {})
    <3>1. CASE id = s.app.waves.unique_id
      <4>1. Held(s, y) = of
        BY <1>6, <2>1, <3>1 DEF Held, SignalsWork
      <4>2. m \in SignalsWork(s.app.waves.unique_id)
        BY <2>2, <3>1 DEF SignalsWork
      <4>3. \A x \in of : {m} \subseteq Carriers(s.app.waves.unique_id, x)
        BY <2>2, <4>2 DEF Carriers
      <4>4. r.app.waves = s.app.waves
        BY <1>1, <2>4 DEF Keeps
      <4>5. \A x \in of : Accounted(r, x)
        BY <2>4, <4>3, <4>4, FreeSubset DEF Accounted
      <4>6. Kept(r, of)
        BY <1>1, <2>4, <4>1, KeepsKept
      <4>7. QED
        BY <4>5, <4>6 DEF Kept
    <3>2. CASE id # s.app.waves.unique_id
      <4>1. Held(s, y) = {}
        BY <1>6, <2>1, <3>2, TasksAreNoMessages DEF Held, SignalsWork
      <4>2. QED
        BY <1>1, <2>4, <4>1, KeepsKept
    <3>3. QED
      BY <3>1, <3>2
  <2>6. \A t \in Outcomes(s, r) : Kept(t, {})
    BY <1>1, <2>5, OutcomesKeep
  <2>7. QED
    BY <1>6, <2>1, <2>3, <2>5, <2>6 DEF Done
<1>7. CASE y.do = "download"
  BY <1>2, <1>7, AnsweredKeeps, OutcomesKeep DEF Done
<1>8. CASE y.do = "status"
  BY <1>2, <1>3, <1>8, StatusItems DEF Done
<1>9. CASE y.do = "hierarchy"
  <2>1. Header(Server, TRUE, y.keep) \in Message
    BY <1>9, TaskFields, SingleMessages DEF Sources
  <2>2. QED
    BY <1>2, <1>3, <1>9, <2>1 DEF Done
<1>10. CASE y.do = "reload"
  <2>1. Stop \in Message /\ Status \in Message
    BY StatusItems DEF Message, Stop
  <2>2. \A h : Keeps(s, Spawn(Send(s, Status), h))
    BY <2>1, SendKeeps, SpawnKeeps, KeepsOn
  <2>3. QED
    BY <1>2, <1>10, <2>1, <2>2, SendKeeps, OutcomesKeep DEF Done
<1>11. QED
  BY <1>4, <1>5, <1>6, <1>7, <1>8, <1>9, <1>10, TaskFields DEF Kinds

-----------------------------------------------------------------------------
(* The steps *)

\* c is q and then p.
Joined(q, p, c) ==
  /\ \A i \in 1..Len(c) : \/ i \in 1..Len(q) /\ c[i] = q[i]
                          \/ i - Len(q) \in 1..Len(p) /\ c[i] = p[i - Len(q)]
  /\ \A P : /\ SeqFree(q, P) => /\ SeqFree(p, P) => SeqFree(c, P)
                                /\ SeqOne(p, P) => SeqOne(c, P)
            /\ SeqFree(c, P) => SeqFree(p, P)

LEMMA SeqJoin ==
  ASSUME NEW S, NEW q \in Seq(S), NEW p \in Seq(S), NEW c, c = q \o p
  PROVE  c \in Seq(S) /\ Joined(q, p, c)
<1>1. PICK n \in Nat, k \in Nat : n = Len(q) /\ k = Len(p)
  BY LenProperties
<1>2. c \in Seq(S) /\ Len(c) = n + k
  BY <1>1, ConcatProperties
<1>3. \A i \in 1..Len(c) : \/ i \in 1..n /\ c[i] = q[i]
                           \/ i - n \in 1..k /\ c[i] = p[i - n]
  BY <1>1, <1>2, ConcatProperties
<1>4. ASSUME NEW P, SeqFree(q, P), SeqFree(p, P)
      PROVE  SeqFree(c, P)
  BY <1>1, <1>3, <1>4 DEF SeqFree
<1>5. ASSUME NEW P, SeqFree(q, P), SeqOne(p, P)
      PROVE  SeqOne(c, P)
  <2>1. SUFFICES ASSUME NEW i \in 1..Len(c), NEW j \in 1..Len(c), c[i] \in P, c[j] \in P
                 PROVE  i = j
    BY DEF SeqOne
  <2>2. i \in Int /\ j \in Int
    BY <1>2
  <2>3. /\ i - n \in 1..k /\ c[i] = p[i - n]
        /\ j - n \in 1..k /\ c[j] = p[j - n]
    BY <1>1, <1>3, <1>5, <2>1 DEF SeqFree
  <2>4. i - n = j - n
    BY <1>1, <1>5, <2>1, <2>3 DEF SeqOne
  <2>5. QED
    BY <1>1, <2>2, <2>4
<1>6. ASSUME NEW P, SeqFree(c, P)
      PROVE  SeqFree(p, P)
  <2>1. \A i \in 1..k : n + i \in 1..Len(c) /\ c[n + i] = p[i]
    BY <1>1, <1>2, ConcatProperties
  <2>2. QED
    BY <1>1, <1>6, <2>1 DEF SeqFree
<1>7. QED
  BY <1>1, <1>2, <1>3, <1>4, <1>5, <1>6 DEF Joined

\* A frame takes the messages of the channel, after those of the user.
LEMMA TakenTraffic ==
  ASSUME NEW s, NEW r, NEW user \in Seq(Message), \A i \in 1..Len(user) : Plain(user[i]),
         Traffic(s), s.msgs = <<>>, r.tasks = s.tasks, r.channel = <<>>,
         r.msgs = user \o s.channel, r.app.unique_ids = s.app.unique_ids
  PROVE  /\ Traffic(r) /\ \A P : Free(r, P) => Free(s, P)
         /\ \A P \in SUBSET (Working \cup Asking \cup OfServerFile \cup Numbered) :
              (Free(s, P) => Free(r, P)) /\ (AtMostOne(s, P) => AtMostOne(r, P))
<1>1. s.channel \in Seq(Message)
  BY DEF Traffic
<1>2. PICK b, c : b = s.channel /\ b \in Seq(Message) /\ c = user \o b /\ c = r.msgs
  BY <1>1
<1>3. c \in Seq(Message) /\ Joined(user, b, c)
  BY <1>2, SeqJoin
<1>4. \A y : Plain(y) => Known(r, y)
  BY DEF Plain, Known
<1>5. \A i \in 1..Len(c) : Known(r, c[i])
  BY <1>2, <1>3, <1>4 DEF Joined, Traffic, Known
<1>6. <<>> \in Seq(Message) /\ Len(<<>>) = 0 /\ 1..0 = {}
  BY EmptySeq
<1>7. Traffic(r)
  BY <1>2, <1>3, <1>5, <1>6 DEF Traffic, Known
<1>8. ASSUME NEW P \in SUBSET (Working \cup Asking \cup OfServerFile \cup Numbered)
      PROVE  (Free(s, P) => Free(r, P)) /\ (AtMostOne(s, P) => AtMostOne(r, P))
  <2>1. SeqFree(user, P)
    BY <1>8 DEF SeqFree, Plain
  <2>2. /\ SeqFree(b, P) => SeqFree(c, P)
        /\ SeqOne(b, P) => SeqOne(c, P)
    BY <1>3, <2>1 DEF Joined
  <2>3. SeqFree(<<>>, P) /\ SeqOne(<<>>, P)
    BY <1>6 DEF SeqFree, SeqOne
  <2>4. QED
    BY <1>2, <2>2, <2>3 DEF Free, AtMostOne
<1>9. ASSUME NEW P, Free(r, P)
      PROVE  Free(s, P)
  BY <1>2, <1>3, <1>6, <1>9 DEF Joined, Free, SeqFree
<1>10. QED
  BY <1>7, <1>8, <1>9

LEMMA FrameInvariant ==
  ASSUME NEW s, NEW r, NEW user \in Seq(Message), \A i \in 1..Len(user) : Plain(user[i]),
         Good(s), s.msgs = <<>>, Formed(r), r.tasks = s.tasks, r.channel = <<>>,
         r.msgs = user \o s.channel, r.app = [s.app EXCEPT !.requests = @ + Len(user)]
  PROVE  Good(r)
<1>1. s.app \in App
  BY DEF Good, Containers
<1>2. PICK n \in Nat : n = s.app.requests + Len(user)
  <2>1. Len(user) \in Nat
    BY LenProperties
  <2>2. s.app.requests \in Nat
    BY <1>1 DEF App
  <2>3. QED
    BY <2>1, <2>2
<1>3. r.app = [s.app EXCEPT !.requests = n]
  BY <1>2
<1>4. /\ r.app \in App /\ r.app.waves = s.app.waves /\ r.app.unique_ids = s.app.unique_ids
      /\ r.app.overlapped = s.app.overlapped /\ r.app.selected = s.app.selected
      /\ r.app.progress_tracker = s.app.progress_tracker
  BY <1>1, <1>3 DEF App
<1>5. Containers(r)
  BY <1>4 DEF Good, Containers
<1>6. /\ Traffic(r)
      /\ \A P \in SUBSET (Working \cup Asking \cup OfServerFile \cup Numbered) :
           (Free(s, P) => Free(r, P)) /\ (AtMostOne(s, P) => AtMostOne(r, P))
  BY <1>4, TakenTraffic DEF Good
<1>7. \A id : /\ SignalsWork(id) \in SUBSET (Working \cup Asking \cup OfServerFile \cup Numbered)
              /\ OtherBodies(id) \in SUBSET (Working \cup Asking \cup OfServerFile \cup Numbered)
  BY DEF SignalsWork, OtherBodies, Numbered
<1>8. SourceShared(r)
  BY <1>4, <1>6, <1>7 DEF Good, SourceShared
<1>9. OneByOne(r)
  <2>1. SUFFICES ASSUME ~s.app.overlapped
                 PROVE  OneByOne(r)
    BY <1>4 DEF OneByOne
  <2>2. AtMostOne(r, Working) /\ Free(r, OtherBodies(s.app.waves.unique_id))
    BY <1>6, <1>7, <2>1 DEF Good, OneByOne
  <2>3. ~s.app.progress_tracker => Free(r, Working \ Streaming)
    BY <1>6, <2>1 DEF Good, OneByOne
  <2>4. s.app.selected = None =>
          Free(r, OfServerFile) /\ (Free(r, Working) \/ Free(r, Asking))
    BY <1>6, <2>1 DEF Good, OneByOne
  <2>5. QED
    BY <1>4, <2>1, <2>2, <2>3, <2>4 DEF Good, OneByOne
<1>10. QED
  BY <1>5, <1>6, <1>8, <1>9 DEF Good

LEMMA InitInvariant == Init => IInv
<1>1. SUFFICES ASSUME Init
               PROVE  IInv
  OBVIOUS
<1>2. PICK setup \in Setups :
        /\ batch = [phase |-> "idle", messages |-> setup.script, completed |-> FALSE,
                    should_exit |-> FALSE, closed |-> FALSE]
        /\ app = [waves |-> NoWaves, file_infos |-> setup.offered,
                  displayed |-> {}, progress_tracker |-> FALSE,
                  selected |-> None, surver_url |-> FALSE, unique_ids |-> 0,
                  requests |-> 0, overlapped |-> FALSE, second_body |-> FALSE,
                  trouble |-> FALSE, panic |-> "no"]
  BY <1>1 DEF Init
<1>3. tasks = EmptyBag /\ channel = <<>> /\ msgs = <<>>
  BY <1>1 DEF Init
<1>4. BatchTyped
  BY <1>2, <1>3, ScriptsAssumption DEF BatchTyped
<1>5. PICK s : s = State
  OBVIOUS
<1>6. Formed(s) /\ s.app = app /\ s.tasks = tasks /\ s.channel = <<>> /\ s.msgs = <<>>
  BY <1>3, <1>5 DEF Formed, State
<1>7. NoWaves \in Waves /\ NoWaves.kind = "none" /\ NoWaves.unique_id = 0 /\ NoWaves.body = 0
      /\ NoWaves.signals = {}
  BY DEF NoWaves, Waves
<1>8. setup.offered \subseteq Remote
  BY <1>2, WaveLoadingAssumption
<1>9. app \in App /\ app.waves = NoWaves /\ app.unique_ids = 0
  BY <1>2, <1>7, <1>8 DEF App
<1>10. Containers(s)
  BY <1>6, <1>7, <1>9 DEF Containers
<1>11. IsABag(tasks) /\ DOMAIN tasks = {}
  BY <1>3 DEF EmptyBag, SetToBag, IsABag
<1>12. <<>> \in Seq(Message) /\ Len(<<>>) = 0 /\ 1..0 = {}
  BY EmptySeq
<1>13. Traffic(s)
  BY <1>6, <1>11, <1>12 DEF Traffic
<1>14. \A P : Free(s, P) /\ AtMostOne(s, P)
  <2>1. \A P : Free(s, P)
    BY <1>6, <1>11, <1>12 DEF Free, BagFree, SeqFree
  <2>2. QED
    BY <2>1, FreeIsAtMostOne
<1>15. SourceShared(s) /\ OneByOne(s)
  BY <1>6, <1>7, <1>9, <1>14 DEF SourceShared, OneByOne
<1>16. QED
  BY <1>4, <1>5, <1>6, <1>10, <1>13, <1>15 DEF IInv, Good

\* The state after a step.
LEMMA Becomes ==
  ASSUME NEW s, Good(s), Become(s)
  PROVE  Good(State)'
<1>1. State' = s
  BY DEF Good, Formed, State, Become
<1>2. QED
  BY <1>1

LEMMA UserTyped ==
  ASSUME IInv, NEW user, user = <<>> \/ \E m \in UserMessages : user = <<m>>
  PROVE  user \in Seq(Message) /\ \A i \in 1..Len(user) : Plain(user[i])
<1>1. app.file_infos \subseteq Remote
  <2>1. PICK s : s.app = app /\ Good(s)
    BY DEF IInv, State
  <2>2. QED
    BY <2>1 DEF Good, Containers, App
<1>2. CASE user = <<>>
  BY <1>2, EmptySeq
<1>3. ASSUME NEW m \in UserMessages, user = <<m>>
      PROVE  user \in Seq(Message) /\ \A i \in 1..Len(user) : Plain(user[i])
  <2>1. m \in Message /\ Plain(m)
    BY <1>1, <1>3, UserMessagesTyped
  <2>2. user \in Seq(Message) /\ Len(user) = 1 /\ user[1] = m /\ 1..1 = {1}
    BY <1>3, <2>1
  <2>3. QED
    BY <2>1, <2>2
<1>4. QED
  BY <1>2, <1>3

LEMMA BeginFrameInvariant ==
  ASSUME IInv, NEW user, user = <<>> \/ \E m \in UserMessages : user = <<m>>, BeginFrame(user)
  PROVE  IInv'
<1>1. PICK s, r : s = State /\ r = State'
  OBVIOUS
<1>2. /\ Good(s) /\ s.app = app /\ s.tasks = tasks /\ s.channel = channel /\ s.msgs = msgs
      /\ Formed(r) /\ r.app = app' /\ r.tasks = tasks' /\ r.channel = channel' /\ r.msgs = msgs'
  BY <1>1 DEF IInv, State, Formed
<1>4. user \in Seq(Message) /\ \A i \in 1..Len(user) : Plain(user[i])
  BY UserTyped
<1>5. Good(r)
  BY <1>2, <1>4, FrameInvariant DEF BeginFrame, IInv, BatchTyped
<1>6. BatchTyped'
  BY DEF BeginFrame, IInv, BatchTyped
<1>7. QED
  BY <1>1, <1>5, <1>6 DEF IInv

LEMMA HandleMessageInvariant == IInv /\ HandleMessage => IInv'
<1>1. SUFFICES ASSUME IInv, HandleMessage
               PROVE  IInv'
  OBVIOUS
<1>2. PICK s, r, m : s = State /\ r = [State EXCEPT !.msgs = Front(@)] /\ m = Last(msgs)
  OBVIOUS
<1>3. /\ Good(s) /\ s.msgs # <<>> /\ m = Last(s.msgs) /\ Formed(r)
      /\ r.app = s.app /\ r.tasks = s.tasks /\ r.channel = s.channel /\ r.msgs = Front(s.msgs)
  BY <1>1, <1>2 DEF IInv, State, Formed, HandleMessage
<1>4. Takes(s, r, m) /\ Traffic(r) /\ m \in Message /\ Known(r, m)
  BY <1>3, PopTakes DEF Good
<1>5. Good(r) /\ Fits(r, m)
  BY <1>3, <1>4, TakeInvariant
<1>6. PICK t \in Update(r, m) : Become(t)
  BY <1>1, <1>2 DEF HandleMessage
<1>7. Good(State)'
  BY <1>4, <1>5, <1>6, UpdateInvariant, Becomes
<1>8. BatchTyped'
  BY <1>1 DEF HandleMessage, IInv, BatchTyped
<1>9. QED
  BY <1>7, <1>8 DEF IInv

LEMMA BatchCommandInvariant == IInv /\ BatchCommand => IInv'
<1>1. SUFFICES ASSUME IInv, BatchCommand
               PROVE  IInv'
  OBVIOUS
<1>2. PICK q : q = batch.messages /\ q \in Seq(BatchMessage) /\ q # <<>>
  BY <1>1 DEF IInv, BatchTyped, BatchCommand
<1>3. Head(q) \in BatchMessage /\ Tail(q) \in Seq(BatchMessage)
  BY <1>2
<1>4. Head(q) \in Message /\ Fits(State, Head(q))
  BY <1>3, BatchMessages, PlainFits
<1>5. PICK t \in Update(State, Head(q)) : Become(t)
  BY <1>1, <1>2 DEF BatchCommand
<1>6. Good(State)'
  BY <1>1, <1>4, <1>5, UpdateInvariant, Becomes DEF IInv
<1>7. BatchTyped'
  BY <1>1, <1>2, <1>3 DEF BatchCommand, IInv, BatchTyped
<1>8. QED
  BY <1>6, <1>7 DEF IInv

LEMMA EndFrameState ==
  ASSUME EndFrame, NEW s, s = State
  PROVE  State' = s \/ State' = Send(s, Exit)
<1>1. /\ app' = app /\ tasks' = tasks /\ msgs' = msgs
      /\ channel' = channel \/ channel' = Append(channel, Exit)
  BY DEF EndFrame
<1>2. CASE channel' = channel
  BY <1>1, <1>2 DEF State
<1>3. CASE channel' = Append(channel, Exit)
  <2>1. Send(s, Exit) = [app |-> app, tasks |-> tasks, channel |-> Append(channel, Exit),
                         msgs |-> msgs]
    BY DEF State, Send
  <2>2. QED
    BY <1>1, <1>3, <2>1 DEF State
<1>4. QED
  BY <1>1, <1>2, <1>3

LEMMA EndFrameInvariant == IInv /\ EndFrame => IInv'
<1>1. SUFFICES ASSUME IInv, EndFrame
               PROVE  IInv'
  OBVIOUS
<1>2. PICK s : s = State
  OBVIOUS
<1>3. Good(Send(s, Exit)) /\ Good(s)
  BY <1>1, <1>2, PlainMessages, PlainFits, SendInvariant DEF IInv
<1>4. State' = s \/ State' = Send(s, Exit)
  BY <1>1, <1>2, EndFrameState
<1>5. Good(State')
  BY <1>3, <1>4
<1>6. BatchTyped'
  BY <1>1 DEF EndFrame, IInv, BatchTyped
<1>7. QED
  BY <1>5, <1>6 DEF IInv

\* Tasks do not touch the messages of the frame.
LEMMA DoneKeepsMessages ==
  ASSUME NEW s, Formed(s), NEW y \in Task, NEW t \in Done(s, y)
  PROVE  t.msgs = s.msgs
<1>1. \A r, x : Formed(r) => Formed(Spawn(r, x)) /\ Spawn(r, x).msgs = r.msgs
  BY DEF Formed, Spawn
<1>2. ASSUME NEW r, NEW x, Formed(r)
      PROVE  Formed(Send(r, x)) /\ Send(r, x).msgs = r.msgs
  <2>1. PICK sent : sent = Send(r, x)
    OBVIOUS
  <2>2. Formed(sent) /\ sent.msgs = r.msgs
    BY <1>2, <2>1 DEF Formed, Send
  <2>3. QED
    BY <2>1, <2>2
<1>3. Formed(Report(s)) /\ Report(s).msgs = s.msgs
  <2>1. PICK r : r = Report(s)
    OBVIOUS
  <2>2. r = [app |-> [s.app EXCEPT !.trouble = TRUE], tasks |-> s.tasks,
             channel |-> s.channel, msgs |-> s.msgs]
    BY <2>1 DEF Formed, Report
  <2>3. QED
    BY <2>1, <2>2 DEF Formed
<1>4. Send(Report(s), Error).msgs = s.msgs
  BY <1>2, <1>3
<1>5. ASSUME NEW good, good.msgs = s.msgs
      PROVE  \A r \in Outcomes(s, good) : r.msgs = s.msgs
  BY <1>4, <1>5 DEF Outcomes, Fail
<1>6. Answered(s, y).msgs = s.msgs
  BY <1>1, <1>2, <1>3 DEF Answered
<1>7. CASE y.do \in {"header", "body", "signals", "status", "hierarchy", "time table"}
  <2>1. \E x : t \in Outcomes(s, Send(s, x)) \cup {Send(s, x)}
    BY <1>7 DEF Done
  <2>2. QED
    BY <1>2, <1>5, <2>1
<1>8. CASE y.do = "download"
  BY <1>5, <1>6, <1>8 DEF Done
<1>9. CASE y.do = "reload"
  <2>1. \E x : t \in {Send(s, Stop)} \cup Outcomes(s, Spawn(Send(s, Status), x))
    BY <1>9 DEF Done
  <2>2. QED
    BY <1>1, <1>2, <1>5, <2>1
<1>10. QED
  BY <1>7, <1>8, <1>9, TaskFields DEF Kinds

LEMMA EndTaskInvariant ==
  ASSUME IInv, NEW kind, EndTask(kind)
  PROVE  IInv'
<1>1. PICK y \in BagToSet(tasks) :
        \E t \in Done([State EXCEPT !.tasks = @ (-) SetToBag({y})], y) : Become(t)
  BY DEF EndTask
<1>2. PICK s, r : s = State /\ r = [State EXCEPT !.tasks = @ (-) SetToBag({y})]
  OBVIOUS
<1>3. /\ Good(s) /\ s.tasks = tasks /\ Formed(r) /\ r.app = s.app /\ r.channel = s.channel
      /\ r.msgs = s.msgs /\ r.tasks = s.tasks (-) SetToBag({y})
  BY <1>2 DEF IInv, State, Formed
<1>4. Takes(s, r, y) /\ Traffic(r) /\ y \in Task /\ Known(r, y)
  BY <1>3, EndTakes DEF Good
<1>5. Good(r) /\ Fits(r, y)
  BY <1>3, <1>4, TakeInvariant
<1>6. PICK t \in Done(r, y) : Become(t)
  BY <1>1, <1>2
<1>7. Good(State)'
  BY <1>4, <1>5, <1>6, DoneInvariant, Becomes
<1>8. BatchTyped'
  <2>1. t.msgs = msgs
    BY <1>2, <1>3, <1>4, <1>6, DoneKeepsMessages DEF State
  <2>2. msgs' = msgs /\ batch' = batch
    BY <1>6, <2>1 DEF EndTask, Become
  <2>3. QED
    BY <2>2 DEF IInv, BatchTyped
<1>9. QED
  BY <1>7, <1>8 DEF IInv
LEMMA StepInvariant == IInv /\ [Next]_vars => IInv'
<1>1. SUFFICES ASSUME IInv, [Next]_vars
               PROVE  IInv'
  OBVIOUS
<1>2. CASE BeginFrame(<<>>)
  BY <1>1, <1>2, BeginFrameInvariant
<1>3. CASE HandleMessage
  BY <1>1, <1>3, HandleMessageInvariant
<1>4. CASE BatchCommand
  BY <1>1, <1>4, BatchCommandInvariant
<1>5. CASE EndFrame
  BY <1>1, <1>5, EndFrameInvariant
<1>6. CASE \E m \in UserMessages : BeginFrame(<<m>>)
  <2>1. PICK m \in UserMessages : BeginFrame(<<m>>)
    BY <1>6
  <2>2. QED
    BY <1>1, <2>1, BeginFrameInvariant
<1>7. CASE \E kind \in Kinds : EndTask(kind)
  BY <1>1, <1>7, EndTaskInvariant
<1>8. CASE UNCHANGED vars
  BY <1>1, <1>8 DEF vars, IInv, State, BatchTyped
<1>9. QED
  BY <1>1, <1>2, <1>3, <1>4, <1>5, <1>6, <1>7, <1>8 DEF Next, Frame

\* What a task or a message held is still held as it is taken away.
LEMMA TakeKept ==
  ASSUME NEW s, NEW r, NEW y, Takes(s, r, y), r.app = s.app, Kept(s, {})
  PROVE  Kept(r, Held(r, y))
<1>1. ASSUME NEW x, Accounted(s, x)
      PROVE  x \in Held(r, y) \/ Accounted(r, x)
  <2>1. CASE y \in Carriers(s.app.waves.unique_id, x)
    BY <2>1 DEF Held, Carriers
  <2>2. CASE y \notin Carriers(s.app.waves.unique_id, x)
    BY <1>1, <2>2 DEF Takes, Accounted
  <2>3. QED
    BY <2>1, <2>2
<1>2. QED
  BY <1>1 DEF Kept

LEMMA BecomesKept ==
  ASSUME NEW s, Good(s), Become(s), Kept(s, {})
  PROVE  Kept(State, {})'
<1>1. State' = s
  BY DEF Good, Formed, State, Become
<1>2. QED
  BY <1>1

LEMMA InitKept == Init => Kept(State, {})
<1>1. SUFFICES ASSUME Init
               PROVE  Kept(State, {})
  OBVIOUS
<1>2. State.app = app
  BY DEF State
<1>3. app.displayed = {}
  BY <1>1 DEF Init
<1>4. QED
  BY <1>2, <1>3 DEF Kept

LEMMA BeginFrameKept ==
  ASSUME IInv, Kept(State, {}), NEW user, user = <<>> \/ \E m \in UserMessages : user = <<m>>,
         BeginFrame(user)
  PROVE  Kept(State, {})'
<1>1. PICK s, r : s = State /\ r = State'
  OBVIOUS
<1>2. /\ Good(s) /\ s.app = app /\ s.tasks = tasks /\ s.channel = channel /\ s.msgs = msgs
      /\ Formed(r) /\ r.app = app' /\ r.tasks = tasks' /\ r.channel = channel' /\ r.msgs = msgs'
  BY <1>1 DEF IInv, State, Formed
<1>3. user \in Seq(Message) /\ \A i \in 1..Len(user) : Plain(user[i])
  BY UserTyped
<1>4. s.app \in App
  BY <1>2 DEF Good, Containers
<1>5. r.app = [s.app EXCEPT !.requests = @ + Len(user)]
  BY <1>2 DEF BeginFrame
<1>6. /\ r.app.waves = s.app.waves /\ r.app.displayed = s.app.displayed
      /\ r.app.trouble = s.app.trouble /\ r.app.unique_ids = s.app.unique_ids
  BY <1>4, <1>5 DEF App
<1>7. \A P : Free(r, P) => Free(s, P)
  <2>1. /\ s.msgs = <<>> /\ r.tasks = s.tasks /\ r.channel = <<>>
        /\ r.msgs = user \o s.channel
    BY <1>2 DEF BeginFrame, IInv, BatchTyped
  <2>2. QED
    BY <1>2, <1>3, <1>6, <2>1, TakenTraffic DEF Good
<1>8. Kept(s, {})
  BY <1>1
<1>9. Kept(r, {})
  BY <1>6, <1>7, <1>8 DEF Kept, Accounted
<1>10. QED
  BY <1>1, <1>9

LEMMA HandleMessageKept == IInv /\ Kept(State, {}) /\ HandleMessage => Kept(State, {})'
<1>1. SUFFICES ASSUME IInv, Kept(State, {}), HandleMessage
               PROVE  Kept(State, {})'
  OBVIOUS
<1>2. PICK s, r, m : s = State /\ r = [State EXCEPT !.msgs = Front(@)] /\ m = Last(msgs)
  OBVIOUS
<1>3. /\ Good(s) /\ s.msgs # <<>> /\ m = Last(s.msgs) /\ Formed(r)
      /\ r.app = s.app /\ r.tasks = s.tasks /\ r.channel = s.channel /\ r.msgs = Front(s.msgs)
  BY <1>1, <1>2 DEF IInv, State, Formed, HandleMessage
<1>4. Takes(s, r, m) /\ Traffic(r) /\ m \in Message /\ Known(r, m)
  BY <1>3, PopTakes DEF Good
<1>5. Good(r) /\ Fits(r, m)
  BY <1>3, <1>4, TakeInvariant
<1>6. PICK t \in Update(r, m) : Become(t)
  BY <1>1, <1>2 DEF HandleMessage
<1>7. Kept(s, {})
  BY <1>1, <1>2
<1>8. Kept(r, Held(r, m))
  BY <1>3, <1>4, <1>7, TakeKept
<1>9. Good(t) /\ Kept(t, {})
  BY <1>4, <1>5, <1>6, <1>8, UpdateInvariant, UpdateKept
<1>10. QED
  BY <1>6, <1>9, BecomesKept

LEMMA BatchCommandKept == IInv /\ Kept(State, {}) /\ BatchCommand => Kept(State, {})'
<1>1. SUFFICES ASSUME IInv, Kept(State, {}), BatchCommand
               PROVE  Kept(State, {})'
  OBVIOUS
<1>2. PICK q : q = batch.messages /\ q \in Seq(BatchMessage) /\ q # <<>>
  BY <1>1 DEF IInv, BatchTyped, BatchCommand
<1>3. Head(q) \in BatchMessage
  BY <1>2
<1>4. Head(q) \in Message /\ Fits(State, Head(q)) /\ Plain(Head(q))
  BY <1>3, BatchMessages, PlainFits
<1>5. PICK t \in Update(State, Head(q)) : Become(t)
  BY <1>1, <1>2 DEF BatchCommand
<1>6. Head(q) \notin SignalsWork(State.app.waves.unique_id)
  BY <1>4 DEF Plain, SignalsWork, Numbered
<1>7. Held(State, Head(q)) = {}
  BY <1>6 DEF Held
<1>8. Good(t) /\ Kept(t, {})
  BY <1>1, <1>4, <1>5, <1>7, UpdateInvariant, UpdateKept DEF IInv
<1>9. QED
  BY <1>5, <1>8, BecomesKept

LEMMA EndFrameKept == IInv /\ Kept(State, {}) /\ EndFrame => Kept(State, {})'
<1>1. SUFFICES ASSUME IInv, Kept(State, {}), EndFrame
               PROVE  Kept(State, {})'
  OBVIOUS
<1>2. PICK s : s = State
  OBVIOUS
<1>3. Keeps(s, Send(s, Exit)) /\ Shaped(s) /\ Kept(s, {})
  BY <1>1, <1>2, SendKeeps, PlainMessages, GoodIsShaped DEF IInv
<1>4. Kept(Send(s, Exit), {})
  BY <1>3, KeepsKept
<1>5. State' = s \/ State' = Send(s, Exit)
  BY <1>1, <1>2, EndFrameState
<1>6. QED
  BY <1>3, <1>4, <1>5

LEMMA EndTaskKept ==
  ASSUME IInv, Kept(State, {}), NEW kind, EndTask(kind)
  PROVE  Kept(State, {})'
<1>1. PICK y \in BagToSet(tasks) :
        \E t \in Done([State EXCEPT !.tasks = @ (-) SetToBag({y})], y) : Become(t)
  BY DEF EndTask
<1>2. PICK s, r : s = State /\ r = [State EXCEPT !.tasks = @ (-) SetToBag({y})]
  OBVIOUS
<1>3. /\ Good(s) /\ s.tasks = tasks /\ Formed(r) /\ r.app = s.app /\ r.channel = s.channel
      /\ r.msgs = s.msgs /\ r.tasks = s.tasks (-) SetToBag({y})
  BY <1>2 DEF IInv, State, Formed
<1>4. Takes(s, r, y) /\ Traffic(r) /\ y \in Task /\ Known(r, y)
  BY <1>3, EndTakes DEF Good
<1>5. Good(r) /\ Fits(r, y)
  BY <1>3, <1>4, TakeInvariant
<1>6. PICK t \in Done(r, y) : Become(t)
  BY <1>1, <1>2
<1>7. Kept(s, {})
  BY <1>2
<1>8. Kept(r, Held(r, y))
  BY <1>3, <1>4, <1>7, TakeKept
<1>9. Good(t) /\ Kept(t, {})
  BY <1>4, <1>5, <1>6, <1>8, DoneInvariant, DoneKept
<1>10. QED
  BY <1>6, <1>9, BecomesKept

LEMMA StepKept == IInv /\ Kept(State, {}) /\ [Next]_vars => Kept(State, {})'
<1>1. SUFFICES ASSUME IInv, Kept(State, {}), [Next]_vars
               PROVE  Kept(State, {})'
  OBVIOUS
<1>2. CASE BeginFrame(<<>>)
  BY <1>1, <1>2, BeginFrameKept
<1>3. CASE HandleMessage
  BY <1>1, <1>3, HandleMessageKept
<1>4. CASE BatchCommand
  BY <1>1, <1>4, BatchCommandKept
<1>5. CASE EndFrame
  BY <1>1, <1>5, EndFrameKept
<1>6. CASE \E m \in UserMessages : BeginFrame(<<m>>)
  <2>1. PICK m \in UserMessages : BeginFrame(<<m>>)
    BY <1>6
  <2>2. QED
    BY <1>1, <2>1, BeginFrameKept
<1>7. CASE \E kind \in Kinds : EndTask(kind)
  BY <1>1, <1>7, EndTaskKept
<1>8. CASE UNCHANGED vars
  <2>1. State' = State
    BY <1>8 DEF vars, State
  <2>2. QED
    BY <1>1, <2>1
<1>9. QED
  BY <1>1, <1>2, <1>3, <1>4, <1>5, <1>6, <1>7, <1>8 DEF Next, Frame

-----------------------------------------------------------------------------
(* The theorems *)

\* What is under way is a task or a message.
LEMMA PendingItems ==
  ASSUME NEW s, Good(s)
  PROVE  /\ Pending(s) \subseteq Item
         /\ \A P : Free(s, P) <=> Pending(s) \cap P = {}
<1>1. PICK b, c : b = s.channel /\ c = s.msgs /\ b \in Seq(Message) /\ c \in Seq(Message)
  BY DEF Good, Traffic
<1>2. /\ DOMAIN b = 1..Len(b) /\ DOMAIN c = 1..Len(c)
      /\ \A i \in 1..Len(b) : b[i] \in Message
      /\ \A i \in 1..Len(c) : c[i] \in Message
  BY <1>1, LenProperties, ElementOfSeq
<1>3. /\ ToSet(b) = {b[i] : i \in 1..Len(b)} /\ ToSet(c) = {c[i] : i \in 1..Len(c)}
      /\ BagToSet(s.tasks) = DOMAIN s.tasks
  BY <1>2 DEF ToSet, BagToSet
<1>4. DOMAIN s.tasks \subseteq Task
  BY DEF Good, Traffic
<1>5. Pending(s) = DOMAIN s.tasks \cup ToSet(b) \cup ToSet(c)
  BY <1>1, <1>3 DEF Pending
<1>6. Pending(s) \subseteq Item
  BY <1>2, <1>3, <1>4, <1>5 DEF Item
<1>7. ASSUME NEW P
      PROVE  Free(s, P) <=> Pending(s) \cap P = {}
  BY <1>1, <1>3, <1>5 DEF Free, BagFree, SeqFree
<1>8. QED
  BY <1>6, <1>7

\* Answers of workers and servers change only the container they were asked
\* for: its signals and, as long as operations do not overlap, its body; and no
\* handler of them fails on a container that is gone or a source that is taken
\* (on_signals_loaded, add_body, lib.rs).
THEOREM AnswersReachTheirContainer == Spec => []AnswersOfContainer
<1>1. Spec => []IInv
  BY InitInvariant, StepInvariant, PTL DEF Spec
<1>2. IInv => AnswersOfContainer
  <2>1. SUFFICES ASSUME IInv
                 PROVE  AnswersOfContainer
    OBVIOUS
  <2>2. PICK s : s = State /\ Good(s) /\ s.app = app /\ s.tasks = tasks
    BY <2>1 DEF IInv, State
  <2>3. app \in App /\ app.waves \in Waves
    BY <2>2 DEF Good, Containers, App
  <2>4. TypeOK
    BY <2>1, <2>2, <2>3 DEF TypeOK, App, Waves, Good, Traffic, IInv, BatchTyped
  <2>5. NoPanic
    BY <2>3 DEF NoPanic, App
  <2>6. SignalsOfContainer
    BY <2>2 DEF SignalsOfContainer, Good, Containers
  <2>7. BodyOfContainer
    BY <2>2 DEF BodyOfContainer, Good, OneByOne
  <2>8. QED
    BY <2>4, <2>5, <2>6, <2>7 DEF AnswersOfContainer
<1>3. QED
  BY <1>1, <1>2, PTL

\* Nothing displayed is forgotten, however answers and replaced waveforms come
\* in between (load_signals, on_signals_loaded, on_waves_loaded), and as long as
\* operations do not overlap progress is shown for all work but the streams of
\* transactions: batch commands and the exit after them wait for it
\* (can_start_batch_command).
THEOREM NoWorkForgotten == Spec => []WorkAccounted
<1>1. Spec => []IInv
  BY InitInvariant, StepInvariant, PTL DEF Spec
<1>2. Spec => [](Kept(State, {}))
  BY <1>1, InitKept, StepKept, PTL DEF Spec
<1>3. IInv /\ Kept(State, {}) => WorkAccounted
  <2>1. SUFFICES ASSUME IInv, Kept(State, {})
                 PROVE  WorkAccounted
    OBVIOUS
  <2>2. PICK s : /\ s = State /\ Good(s) /\ s.app = app /\ s.tasks = tasks
                 /\ s.channel = channel /\ s.msgs = msgs
    BY <2>1 DEF IInv, State
  <2>3. Pending(s) \subseteq Item /\ \A P : ~Free(s, P) => Pending(s) \cap P # {}
    BY <2>2, PendingItems
  <2>4. NothingForgotten
    <3>1. SUFFICES ASSUME app.waves.kind = "wellen", ~app.trouble, NEW x \in app.displayed,
                          ~Has(app.waves, x), x \notin app.waves.to_be_loaded
                   PROVE  x \in InFlight(app.waves.unique_id)
      BY DEF NothingForgotten
    <3>2. ~Free(s, Carriers(app.waves.unique_id, x))
      BY <2>1, <2>2, <3>1 DEF Kept, Accounted
    <3>3. PICK y \in Pending(s) : y \in Carriers(app.waves.unique_id, x)
      BY <2>3, <3>2
    <3>4. /\ x \in y.of /\ y.id = app.waves.unique_id
          /\ \/ "do" \in DOMAIN y /\ y.do = "signals"
             \/ "msg" \in DOMAIN y /\ y.msg = "SignalsLoaded"
      BY <3>3, TasksAreNoMessages DEF Carriers, SignalsWork
    <3>5. QED
      BY <2>2, <3>3, <3>4 DEF InFlight
  <2>5. ProgressCoversWork
    <3>1. SUFFICES ASSUME ~app.overlapped, ~app.progress_tracker, NEW x \in Pending(s), IsWork(x)
                   PROVE  IsStatus(x) \/ ("msg" \in DOMAIN x /\ x.msg = "TransactionStreamsLoaded")
      BY <2>2 DEF ProgressCoversWork, Work
    <3>2. x \notin Working \ Streaming
      BY <2>2, <3>1, PendingItems DEF Good, OneByOne
    <3>3. x \in Task \cup Message
      BY <2>3 DEF Item
    <3>4. QED
      BY <3>1, <3>2, <3>3, TasksAreNoMessages DEF Working, Streaming, IsWork, IsStatus
  <2>6. QED
    BY <2>4, <2>5 DEF WorkAccounted
<1>4. QED
  BY <1>1, <1>2, <1>3, PTL

=============================================================================
