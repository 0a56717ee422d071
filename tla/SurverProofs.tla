---------------------------- MODULE SurverProofs ----------------------------
(***************************************************************************)
(* Surver implements WaveService, for any number of connections, signals   *)
(* and versions of the file.                                               *)
(*                                                                         *)
(* The inductive invariant relates what is published to what the loader    *)
(* thread holds: once a body is published, every stored signal is of the   *)
(* published version, and so is the body the loader reads signals from,    *)
(* until the next reload takes both away in one critical section.          *)
(***************************************************************************)
EXTENDS Surver, TLAPS

VersionsNat == MaxVersion \in Nat \ {0}

-----------------------------------------------------------------------------
(* The inductive invariant *)

HandlerPc == {"idle", "send", "check", "unlocked", "waiting", "meta", "decide",
              "sendReload", "done"}
Codes == {"none", "200", "202", "304", "404", "error"}
LoaderPc == {"body", "publish", "recv", "store", "dead"}

HandlerType ==
  [pc : HandlerPc, cmd : Commands, ids : IdArgs, mtime : 0..MaxVersion, code : Codes,
   data : SUBSET Versions]
Messages ==
  [type : {"SignalRequest"}, ids : SUBSET Signals] \cup [type : {"Reload"}]
LoaderType ==
  [pc : LoaderPc, file : Versions, body : Versions, ids : SUBSET Signals]

Types ==
  /\ disk \in 0..MaxVersion
  /\ info \in FileInfo
  /\ chan \in Seq(Messages)
  /\ loader \in LoaderType
  /\ handler \in [Handlers -> HandlerType]

\* What is stored is of the published version.
StoredIsPublished ==
  \A s \in DOMAIN info.signals : info.table # 0 /\ info.signals[s] = info.table

\* The loader serves signals from the body it has published.
LoaderServesPublished ==
  loader.pc \in {"recv", "store"} => loader.body = info.table

\* A handler that looks for signals looks for some.
LooksForSignals(h) ==
  handler[h].pc \in {"send", "check", "unlocked", "waiting"} =>
    /\ handler[h].ids \subseteq Signals
    /\ handler[h].cmd = "table" \/ handler[h].ids # {}

\* A handler without an answer has no data.
NoDataYet(h) == handler[h].pc # "done" => handler[h].data = {}

IInv ==
  /\ Types
  /\ StoredIsPublished
  /\ LoaderServesPublished
  /\ \A h \in Handlers : LooksForSignals(h) /\ NoDataYet(h)

-----------------------------------------------------------------------------
(* Lemmas about the records of the server *)

\* The stored signals are a function from some of the signals.
LEMMA StoredSignals ==
  ASSUME NEW S, NEW V, NEW f
  PROVE  f \in UNION {[T -> V] : T \in SUBSET S}
           <=> DOMAIN f \subseteq S /\ f \in [DOMAIN f -> V]
<1>1. ASSUME DOMAIN f \subseteq S, f \in [DOMAIN f -> V]
      PROVE  f \in UNION {[T -> V] : T \in SUBSET S}
  BY <1>1
<1>2. ASSUME NEW T \in SUBSET S, f \in [T -> V]
      PROVE  DOMAIN f \subseteq S /\ f \in [DOMAIN f -> V]
  BY <1>2
<1>3. QED
  BY <1>1, <1>2

\* NotifyWaiters only sends waiting handlers back to look again.
LEMMA Notified ==
  ASSUME Types, \A h \in Handlers : LooksForSignals(h) /\ NoDataYet(h),
         handler' = NotifyWaiters
  PROVE  /\ handler' \in [Handlers -> HandlerType]
         /\ \A h \in Handlers : LooksForSignals(h)' /\ NoDataYet(h)'
         /\ \A h \in Handlers : handler'[h].data = handler[h].data
<1>1. \A h \in Handlers :
        handler'[h] = IF handler[h].pc = "waiting" THEN [handler[h] EXCEPT !.pc = "check"]
                      ELSE handler[h]
  BY DEF NotifyWaiters
<1>2. handler' = [h \in Handlers |-> handler'[h]]
  BY DEF NotifyWaiters
<1>3. ASSUME NEW h \in Handlers
      PROVE  /\ handler'[h] \in HandlerType
             /\ LooksForSignals(h)' /\ NoDataYet(h)'
             /\ handler'[h].data = handler[h].data
  <2>1. handler[h] \in HandlerType
    BY DEF Types
  <2>2. CASE handler[h].pc = "waiting"
    <3>1. handler'[h] = [handler[h] EXCEPT !.pc = "check"]
      BY <1>1, <2>2
    <3>2. QED
      BY <2>1, <2>2, <3>1 DEF HandlerType, HandlerPc, LooksForSignals, NoDataYet
  <2>3. CASE handler[h].pc # "waiting"
    <3>1. handler'[h] = handler[h]
      BY <1>1, <2>3
    <3>2. QED
      BY <2>1, <2>3, <3>1 DEF LooksForSignals, NoDataYet
  <2>4. QED
    BY <2>2, <2>3
<1>4. QED
  BY <1>2, <1>3

\* One handler goes on; the others stay as they are.
LEMMA OneHandler ==
  ASSUME Types, \A g \in Handlers : LooksForSignals(g) /\ NoDataYet(g),
         NEW h \in Handlers, NEW next \in HandlerType,
         handler' = [handler EXCEPT ![h] = next],
         next.pc \in {"send", "check", "unlocked", "waiting"} =>
            next.ids \subseteq Signals /\ (next.cmd = "table" \/ next.ids # {}),
         next.pc # "done" => next.data = {}
  PROVE  /\ handler' \in [Handlers -> HandlerType]
         /\ \A g \in Handlers : LooksForSignals(g)' /\ NoDataYet(g)'
<1>1. handler' \in [Handlers -> HandlerType]
  BY DEF Types
<1>2. handler'[h] = next /\ \A g \in Handlers \ {h} : handler'[g] = handler[g]
  BY DEF Types
<1>3. QED
  BY <1>1, <1>2 DEF LooksForSignals, NoDataYet

-----------------------------------------------------------------------------
(* The invariant *)

LEMMA InitInvariant ==
  ASSUME VersionsNat
  PROVE  Init => IInv
<1> SUFFICES ASSUME Init PROVE IInv
  OBVIOUS
<1>1. NoSignals \in UNION {[T -> Versions] : T \in SUBSET Signals} /\ DOMAIN NoSignals = {}
  <2>1. DOMAIN NoSignals = {} /\ NoSignals \in [{} -> Versions]
    BY DEF NoSignals
  <2>2. QED
    BY <2>1, StoredSignals
<1>2. 1 \in Versions /\ 0 \in 0..MaxVersion /\ 1 \in 0..MaxVersion
  BY DEF VersionsNat, Versions
<1>3. info \in FileInfo
  BY <1>1, <1>2 DEF Init, FileInfo
<1>4. loader \in LoaderType /\ chan \in Seq(Messages) /\ disk \in 0..MaxVersion
  BY <1>2 DEF Init, LoaderType, LoaderPc
<1>5. Idle \in HandlerType
  BY <1>2 DEF Idle, HandlerType, HandlerPc, Commands, IdArgs, Codes
<1>6. handler \in [Handlers -> HandlerType] /\ \A h \in Handlers : handler[h] = Idle
  BY <1>5 DEF Init
<1>7. QED
  BY <1>1, <1>3, <1>4, <1>6
  DEF IInv, Types, Init, StoredIsPublished, LoaderServesPublished, LooksForSignals,
      NoDataYet, Idle

\* Files are written and removed: only disk changes.
LEMMA DiskInvariant ==
  ASSUME VersionsNat, IInv, WriteFile \/ RemoveFile
  PROVE  IInv'
<1>1. disk' \in 0..MaxVersion /\ UNCHANGED <<info, chan, loader, handler>>
  BY DEF WriteFile, RemoveFile, VersionsNat, Versions
<1>2. QED
  BY <1>1 DEF IInv, Types, StoredIsPublished, LoaderServesPublished, LooksForSignals, NoDataYet

\* A new request: of the commands, only a request for signals waits for signals.
LEMMA ReceiveInvariant ==
  ASSUME VersionsNat, IInv, NEW h \in Handlers, NEW cmd \in Commands, NEW ids \in IdArgs,
         Receive(h, cmd, ids)
  PROVE  IInv' /\ handler'[h].data = {} /\ info'.table = info.table
         /\ \A g \in Handlers \ {h} : handler'[g] = handler[g]
<1> DEFINE start == [Idle EXCEPT !.cmd = cmd, !.ids = ids]
           done(code) == [start EXCEPT !.pc = "done", !.code = code]
           next == CASE cmd = "other" -> done("404")
             [] cmd \in {"status", "hierarchy"} -> done("200")
             [] cmd = "signals" /\ ids = {"invalid"} -> done("error")
             [] cmd = "signals" /\ ids = {} -> done("200")
             [] cmd = "signals" /\ ids \notin {{}, {"invalid"}} -> [start EXCEPT !.pc = "send"]
             [] cmd = "table" -> [start EXCEPT !.pc = "check"]
             [] cmd = "reload" -> [start EXCEPT !.pc = "meta"]
<1>1. Idle \in HandlerType /\ Idle.data = {}
  BY DEF VersionsNat, Idle, HandlerType, HandlerPc, Commands, IdArgs, Codes
<1>2. start \in HandlerType /\ start.cmd = cmd /\ start.ids = ids /\ start.data = {}
  BY <1>1 DEF HandlerType
<1>3. /\ \A code \in Codes : done(code) \in HandlerType /\ done(code).pc = "done"
                             /\ done(code).data = {}
      /\ \A pc \in HandlerPc : LET n == [start EXCEPT !.pc = pc] IN
           n \in HandlerType /\ n.pc = pc /\ n.cmd = cmd /\ n.ids = ids /\ n.data = {}
  <2> HIDE DEF start
  <2>1. QED
    BY <1>2 DEF HandlerType, HandlerPc
<1>4. \/ \E code \in Codes : next = done(code)
      \/ cmd = "signals" /\ ids \notin {{}, {"invalid"}} /\ next = [start EXCEPT !.pc = "send"]
      \/ cmd = "table" /\ next = [start EXCEPT !.pc = "check"]
      \/ next = [start EXCEPT !.pc = "meta"]
  BY DEF Commands, Codes
<1>5. handler' = [handler EXCEPT ![h] = next]
  BY DEF Receive
<1>6. cmd = "table" => ids = {}
  BY DEF Receive
<1> HIDE DEF next, done, start
<1>7. /\ next \in HandlerType
      /\ next.pc \in {"send", "check", "unlocked", "waiting"} =>
           next.ids \subseteq Signals /\ (next.cmd = "table" \/ next.ids # {})
      /\ next.data = {}
  <2>1. CASE \E code \in Codes : next = done(code)
    BY <1>3, <2>1
  <2>2. CASE cmd = "signals" /\ ids \notin {{}, {"invalid"}} /\ next = [start EXCEPT !.pc = "send"]
    BY <1>3, <2>2 DEF HandlerPc, IdArgs
  <2>3. CASE cmd = "table" /\ next = [start EXCEPT !.pc = "check"]
    <3>1. LET n == [start EXCEPT !.pc = "check"] IN
            /\ n \in HandlerType /\ n.cmd = cmd /\ n.ids = ids /\ n.data = {} /\ n.pc = "check"
      BY <1>3 DEF HandlerPc
    <3>2. QED
      BY <1>6, <2>3, <3>1
  <2>4. CASE next = [start EXCEPT !.pc = "meta"]
    BY <1>3, <2>4 DEF HandlerPc
  <2>5. QED
    BY <1>4, <2>1, <2>2, <2>3, <2>4
<1>8. /\ handler' \in [Handlers -> HandlerType]
      /\ \A g \in Handlers : LooksForSignals(g)' /\ NoDataYet(g)'
  BY <1>5, <1>7, OneHandler DEF IInv
<1>9. info' \in FileInfo /\ info'.signals = info.signals /\ info'.table = info.table
  BY DEF Receive, IInv, Types, FileInfo
<1>10. UNCHANGED <<disk, chan, loader>>
  BY DEF Receive
<1>11. handler'[h] = next /\ \A g \in Handlers \ {h} : handler'[g] = handler[g]
  BY <1>5 DEF IInv, Types
<1>12. QED
  BY <1>7, <1>8, <1>9, <1>10, <1>11
  DEF IInv, Types, StoredIsPublished, LoaderServesPublished

\* A handler goes on while the server's data stays as it is.
LEMMA HandlerStep ==
  ASSUME VersionsNat, IInv, NEW h \in Handlers, NEW next \in HandlerType,
         handler' = [handler EXCEPT ![h] = next],
         next.cmd = handler[h].cmd, next.ids = handler[h].ids,
         next.pc \in {"send", "check", "unlocked", "waiting"} =>
            handler[h].pc \in {"send", "check", "unlocked", "waiting"},
         next.pc # "done" => next.data = {},
         disk' = disk, loader' = loader, chan' \in Seq(Messages),
         info' \in FileInfo, info'.signals = info.signals, info'.table = info.table
  PROVE  IInv' /\ handler'[h] = next /\ \A g \in Handlers \ {h} : handler'[g] = handler[g]
<1>1. handler'[h] = next /\ \A g \in Handlers \ {h} : handler'[g] = handler[g]
  BY DEF IInv, Types
<1>2. next.pc \in {"send", "check", "unlocked", "waiting"} =>
        next.ids \subseteq Signals /\ (next.cmd = "table" \/ next.ids # {})
  BY DEF IInv, LooksForSignals
<1>3. /\ handler' \in [Handlers -> HandlerType]
      /\ \A g \in Handlers : LooksForSignals(g)' /\ NoDataYet(g)'
  BY <1>2, OneHandler DEF IInv
<1>4. QED
  BY <1>1, <1>3 DEF IInv, Types, StoredIsPublished, LoaderServesPublished

\* The answers of the handlers change as the record of one of them does.
Keeps(h) == handler'[h].data = handler[h].data
Drops(h) == handler'[h].data = {}
Publishes(h) == info.table # 0 /\ handler'[h].data = {info.table}

\* Each step of a handler keeps the invariant and the published version; it
\* answers from that version, without data, or not at all.
LEMMA ServeInvariant ==
  ASSUME VersionsNat, IInv, NEW h \in Handlers, Serve(h)
  PROVE  /\ IInv'
         /\ info'.table = info.table
         /\ \A g \in Handlers \ {h} : handler'[g] = handler[g]
         /\ Keeps(h) \/ Drops(h) \/ Publishes(h)
<1> DEFINE this == handler[h]
<1>1. this \in HandlerType
  BY DEF IInv, Types
<1> HIDE DEF this
<1>2. \A code \in Codes, data \in SUBSET Versions : \E n \in HandlerType :
        /\ n.pc = "done" /\ n.cmd = this.cmd /\ n.ids = this.ids /\ n.data = data
        /\ Answered(h, code, data) = [handler EXCEPT ![h] = n]
  <2>1. ASSUME NEW code \in Codes, NEW data \in SUBSET Versions
        PROVE  LET n == [this EXCEPT !.pc = "done", !.code = code, !.data = data] IN
               /\ n \in HandlerType /\ n.pc = "done" /\ n.cmd = this.cmd
               /\ n.ids = this.ids /\ n.data = data
    BY <1>1 DEF HandlerType, HandlerPc
  <2>2. QED
      BY <2>1 DEF Answered, this
<1>3. \A pc \in HandlerPc :
        LET n == [this EXCEPT !.pc = pc] IN
        /\ n \in HandlerType /\ n.pc = pc /\ n.cmd = this.cmd /\ n.ids = this.ids
        /\ n.data = this.data
        /\ [handler EXCEPT ![h].pc = pc] = [handler EXCEPT ![h] = n]
  BY <1>1 DEF HandlerType, this
<1>4. chan \in Seq(Messages) /\ info \in FileInfo
  BY DEF IInv, Types
<1>5. this.pc # "done" => this.data = {}
  BY DEF IInv, NoDataYet, this
<1>6. CASE SendRequest(h)
  <2>1. this.pc = "send" /\ UNCHANGED <<disk, info, loader, requests>>
    BY <1>6 DEF SendRequest, this
  <2>2. CASE loader.pc = "dead"
    <3>1. UNCHANGED chan /\ handler' = Answered(h, "error", {})
      BY <1>6, <2>2 DEF SendRequest
    <3>2. PICK n \in HandlerType : /\ n.pc = "done" /\ n.cmd = this.cmd /\ n.ids = this.ids
                                   /\ n.data = {} /\ handler' = [handler EXCEPT ![h] = n]
      BY <1>2, <3>1 DEF Codes
    <3>3. QED
      BY <1>4, <2>1, <3>1, <3>2, HandlerStep DEF this, Drops
  <2>3. CASE loader.pc # "dead"
    <3>1. /\ chan' = Append(chan, [type |-> "SignalRequest", ids |-> handler[h].ids])
          /\ handler' = [handler EXCEPT ![h].pc = "check"]
      BY <1>6, <2>3 DEF SendRequest
    <3>2. PICK n \in HandlerType : /\ n.pc = "check" /\ n.cmd = this.cmd /\ n.ids = this.ids
                                   /\ n.data = this.data
                                   /\ handler' = [handler EXCEPT ![h] = n]
      BY <1>3, <3>1 DEF HandlerPc
    <3>3. this.ids \in SUBSET Signals
      BY <2>1 DEF IInv, LooksForSignals, this
    <3>4. chan' \in Seq(Messages)
      BY <1>4, <3>1, <3>3 DEF Messages, this
    <3>5. QED
      BY <1>4, <1>5, <2>1, <3>2, <3>4, HandlerStep DEF this, Drops
  <2>4. QED
    BY <2>2, <2>3
<1>7. CASE Check(h)
  <2>1. this.pc = "check" /\ UNCHANGED <<disk, info, chan, loader, requests>>
    BY <1>7 DEF Check, this
  <2>2. CASE Available(h)
    <3>1. DataFor(h) = {info.table} /\ info.table \in Versions
      <4>1. CASE this.cmd = "table"
        BY <1>4, <2>2, <4>1 DEF Available, DataFor, HasTimes, FileInfo, Versions, VersionsNat, this
      <4>2. CASE this.cmd # "table"
        <5>1. this.ids # {} /\ this.ids \subseteq DOMAIN info.signals
          BY <2>1, <2>2, <4>2 DEF IInv, LooksForSignals, Available, this
        <5>2. /\ \A s \in this.ids : info.signals[s] = info.table
              /\ info.table # 0
          BY <5>1 DEF IInv, StoredIsPublished
        <5>3. info.table \in Versions
          BY <1>4, <5>2 DEF FileInfo, Versions, VersionsNat
        <5>4. DataFor(h) = {info.signals[s] : s \in this.ids}
          BY <4>2 DEF DataFor, this
        <5>5. QED
          BY <5>1, <5>2, <5>3, <5>4
      <4>3. QED
        BY <4>1, <4>2
    <3>2. handler' = Answered(h, "200", {info.table})
      BY <1>7, <2>2, <3>1 DEF Check
    <3>3. PICK n \in HandlerType : /\ n.pc = "done" /\ n.cmd = this.cmd /\ n.ids = this.ids
                                   /\ n.data = {info.table}
                                   /\ handler' = [handler EXCEPT ![h] = n]
      BY <1>2, <3>1, <3>2 DEF Codes
    <3>4. QED
      <4>1. /\ IInv' /\ handler'[h] = n
            /\ \A g \in Handlers \ {h} : handler'[g] = handler[g]
        BY <1>4, <2>1, <3>3, HandlerStep DEF this
      <4>2. info.table # 0
        BY <3>1 DEF Versions
      <4>3. QED
        BY <2>1, <3>3, <4>1, <4>2 DEF Publishes
  <2>3. CASE ~Available(h)
    <3>1. handler' = [handler EXCEPT ![h].pc = "unlocked"]
      BY <1>7, <2>3 DEF Check
    <3>2. PICK n \in HandlerType : /\ n.pc = "unlocked" /\ n.cmd = this.cmd /\ n.ids = this.ids
                                   /\ n.data = this.data
                                   /\ handler' = [handler EXCEPT ![h] = n]
      BY <1>3, <3>1 DEF HandlerPc
    <3>3. QED
      BY <1>4, <1>5, <2>1, <3>2, HandlerStep DEF this, Drops
  <2>4. QED
    BY <2>2, <2>3
<1>8. CASE StartWaiting(h)
  <2>1. /\ this.pc = "unlocked" /\ UNCHANGED <<disk, info, chan, loader, requests>>
        /\ handler' = [handler EXCEPT ![h].pc = "waiting"]
    BY <1>8 DEF StartWaiting, this
  <2>2. PICK n \in HandlerType : /\ n.pc = "waiting" /\ n.cmd = this.cmd /\ n.ids = this.ids
                                 /\ n.data = this.data
                                 /\ handler' = [handler EXCEPT ![h] = n]
    BY <1>3, <2>1 DEF HandlerPc
  <2>3. QED
    BY <1>4, <1>5, <2>1, <2>2, HandlerStep DEF this, Drops
<1>9. CASE ReloadMeta(h)
  <2>1. this.pc = "meta" /\ UNCHANGED <<disk, info, chan, loader, requests>>
    BY <1>9 DEF ReloadMeta, this
  <2>2. CASE disk = 0
    <3>1. handler' = Answered(h, "404", {})
      BY <1>9, <2>2 DEF ReloadMeta
    <3>2. PICK n \in HandlerType : /\ n.pc = "done" /\ n.cmd = this.cmd /\ n.ids = this.ids
                                   /\ n.data = {} /\ handler' = [handler EXCEPT ![h] = n]
      BY <1>2, <3>1 DEF Codes
    <3>3. QED
      BY <1>4, <2>1, <3>2, HandlerStep DEF this, Drops
  <2>3. CASE disk # 0
    <3>1. handler' = [handler EXCEPT ![h].pc = "decide", ![h].mtime = disk]
      BY <1>9, <2>3 DEF ReloadMeta
    <3>2. disk \in 0..MaxVersion
      BY DEF IInv, Types
    <3>3. PICK n : n = [this EXCEPT !.pc = "decide", !.mtime = disk]
      OBVIOUS
    <3>4. /\ n \in HandlerType /\ n.pc = "decide" /\ n.cmd = this.cmd /\ n.ids = this.ids
          /\ n.data = this.data
      BY <1>1, <3>2, <3>3 DEF HandlerType, HandlerPc
    <3>5. handler' = [handler EXCEPT ![h] = n]
      BY <3>1, <3>3 DEF this
    <3>6. QED
      BY <1>4, <1>5, <2>1, <3>4, <3>5, HandlerStep DEF this, Drops
  <2>4. QED
    BY <2>2, <2>3
<1>10. CASE ReloadDecide(h)
  <2>1. this.pc = "decide" /\ UNCHANGED <<disk, chan, loader, requests>>
    BY <1>10 DEF ReloadDecide, this
  <2>2. this.mtime \in 0..MaxVersion
    BY <1>1 DEF HandlerType
  <2>3. /\ info' \in FileInfo /\ info'.signals = info.signals /\ info'.table = info.table
        /\ \/ handler' = [handler EXCEPT ![h].pc = "sendReload"]
           \/ \E code \in Codes : handler' = Answered(h, code, {})
    BY <1>4, <1>10, <2>2 DEF ReloadDecide, FileInfo, Codes, this
  <2>4. \E n \in HandlerType : /\ n.pc \in {"done", "sendReload"} /\ n.cmd = this.cmd
                                /\ n.ids = this.ids /\ n.data = {}
                                /\ handler' = [handler EXCEPT ![h] = n]
    <3>1. CASE handler' = [handler EXCEPT ![h].pc = "sendReload"]
      BY <1>3, <1>5, <2>1, <3>1 DEF HandlerPc
    <3>2. CASE \E code \in Codes : handler' = Answered(h, code, {})
      BY <1>2, <3>2
    <3>3. QED
      BY <2>3, <3>1, <3>2
  <2>5. QED
    BY <1>4, <2>1, <2>3, <2>4, HandlerStep DEF this, Drops
<1>11. CASE SendReload(h)
  <2>1. this.pc = "sendReload" /\ UNCHANGED <<disk, info, loader, requests>>
    BY <1>11 DEF SendReload, this
  <2>2. chan' \in Seq(Messages)
    BY <1>4, <1>11 DEF SendReload, Messages
  <2>3. \E code \in Codes : handler' = Answered(h, code, {})
    BY <1>11 DEF SendReload, Codes
  <2>4. \E n \in HandlerType : /\ n.pc = "done" /\ n.cmd = this.cmd /\ n.ids = this.ids
                                /\ n.data = {} /\ handler' = [handler EXCEPT ![h] = n]
    BY <1>2, <2>3
  <2>5. QED
    BY <1>4, <2>1, <2>2, <2>4, HandlerStep DEF this, Drops
<1>12. QED
  BY <1>6, <1>7, <1>8, <1>9, <1>10, <1>11 DEF Serve

\* A viewer that leaves takes its request along.
LEMMA AbandonInvariant ==
  ASSUME VersionsNat, IInv, NEW h \in Handlers, Abandon(h)
  PROVE  /\ IInv' /\ info'.table = info.table /\ Drops(h)
         /\ \A g \in Handlers \ {h} : handler'[g] = handler[g]
<1>1. Idle \in HandlerType /\ Idle.pc = "idle" /\ Idle.data = {}
  BY DEF VersionsNat, Idle, HandlerType, HandlerPc, Commands, IdArgs, Codes
<1>2. handler' = [handler EXCEPT ![h] = Idle] /\ UNCHANGED <<disk, info, chan, loader, requests>>
  BY DEF Abandon
<1>3. /\ handler' \in [Handlers -> HandlerType]
      /\ \A g \in Handlers : LooksForSignals(g)' /\ NoDataYet(g)'
  BY <1>1, <1>2, OneHandler DEF IInv
<1>4. handler'[h] = Idle /\ \A g \in Handlers \ {h} : handler'[g] = handler[g]
  BY <1>2 DEF IInv, Types
<1>5. QED
  BY <1>1, <1>2, <1>3, <1>4
  DEF IInv, Types, StoredIsPublished, LoaderServesPublished, Drops

\* Each step of the loader thread keeps the invariant and the answers; what is
\* published is one version of the file.
LEMMA LoadInvariant ==
  ASSUME VersionsNat, IInv, Load
  PROVE  /\ IInv'
         /\ info'.table = info.table \/ info'.table \in Versions
         /\ \A h \in Handlers : Keeps(h)
<1>1. /\ info \in FileInfo /\ loader \in LoaderType /\ chan \in Seq(Messages)
      /\ disk \in 0..MaxVersion /\ handler \in [Handlers -> HandlerType]
      /\ \A h \in Handlers : LooksForSignals(h) /\ NoDataYet(h)
  BY DEF IInv, Types
<1>2. /\ DOMAIN info.signals \subseteq Signals
      /\ info.signals \in [DOMAIN info.signals -> Versions]
  BY <1>1, StoredSignals DEF FileInfo
<1>3. CASE ReadBody
  <2>1. UNCHANGED <<disk, chan, handler, requests>>
    BY <1>3 DEF ReadBody
  <2>2. info' \in FileInfo /\ info'.signals = info.signals /\ info'.table = info.table
    BY <1>1, <1>3 DEF ReadBody, FileInfo
  <2>3. loader' \in LoaderType /\ loader'.pc \in {"dead", "publish"}
    <3>1. PICK v \in {loader.file, disk} \ {0} :
            loader' = IF v \in Broken THEN [loader EXCEPT !.pc = "dead"]
                      ELSE [loader EXCEPT !.pc = "publish", !.body = v]
      BY <1>3 DEF ReadBody
    <3>2. v \in Versions
      BY <1>1 DEF LoaderType, Versions, VersionsNat
    <3>3. QED
      BY <1>1, <3>1, <3>2 DEF LoaderType, LoaderPc
  <2>4. QED
    BY <1>1, <2>1, <2>2, <2>3
    DEF IInv, Types, StoredIsPublished, LoaderServesPublished, LooksForSignals, NoDataYet, Keeps
<1>4. CASE Publish
  <2>1. UNCHANGED <<disk, chan, requests>> /\ handler' = NotifyWaiters
    BY <1>4 DEF Publish
  <2>2. NoSignals \in UNION {[T -> Versions] : T \in SUBSET Signals} /\ DOMAIN NoSignals = {}
    <3>1. DOMAIN NoSignals = {} /\ NoSignals \in [{} -> Versions]
      BY DEF NoSignals
    <3>2. QED
      BY <3>1, StoredSignals
  <2>3. loader.body \in Versions /\ loader.body \in 0..MaxVersion
    BY <1>1 DEF LoaderType, Versions, VersionsNat
  <2>4. info' \in FileInfo /\ info'.signals = NoSignals /\ info'.table = loader.body
    BY <1>1, <1>4, <2>2, <2>3 DEF Publish, FileInfo
  <2>5. loader' \in LoaderType /\ loader'.body = loader.body
    BY <1>1, <1>4 DEF Publish, LoaderType, LoaderPc
  <2>6. /\ handler' \in [Handlers -> HandlerType]
        /\ \A h \in Handlers : LooksForSignals(h)' /\ NoDataYet(h)' /\ Keeps(h)
    BY <2>1, Notified DEF IInv, Keeps
  <2>7. QED
    BY <1>1, <2>1, <2>2, <2>3, <2>4, <2>5, <2>6
    DEF IInv, Types, StoredIsPublished, LoaderServesPublished
<1>5. CASE RecvSignals
  <2>1. UNCHANGED <<disk, info, handler, requests>> /\ chan # <<>> /\ chan' = Tail(chan)
    BY <1>5 DEF RecvSignals
  <2>2. chan' \in Seq(Messages) /\ Head(chan) \in Messages
    BY <1>1, <2>1
  <2>3. Head(chan).type = "SignalRequest" /\ Head(chan).ids \subseteq Signals
    BY <1>5, <2>2 DEF RecvSignals, Messages
  <2>4. loader' \in LoaderType /\ loader'.body = loader.body /\ loader.pc = "recv"
    BY <1>1, <1>5, <2>3 DEF RecvSignals, LoaderType, LoaderPc
  <2>5. QED
    BY <1>1, <2>1, <2>2, <2>4
    DEF IInv, Types, StoredIsPublished, LoaderServesPublished, LooksForSignals, NoDataYet, Keeps
<1>6. CASE StoreSignals
  <2>1. UNCHANGED <<disk, chan, requests>> /\ handler' = NotifyWaiters /\ loader.pc = "store"
    BY <1>6 DEF StoreSignals
  <2>2. loader.body = info.table /\ info.table \in Versions /\ info.table # 0
    BY <1>1, <2>1 DEF IInv, LoaderServesPublished, LoaderType, Versions
  <2>3. PICK f : f = [s \in DOMAIN info.signals \cup loader.ids |->
                        IF s \in loader.ids THEN loader.body ELSE info.signals[s]]
    OBVIOUS
  <2>4. /\ DOMAIN f \subseteq Signals /\ f \in [DOMAIN f -> Versions]
        /\ \A s \in DOMAIN f : f[s] = info.table
    BY <1>1, <1>2, <2>2, <2>3 DEF LoaderType, IInv, StoredIsPublished
  <2>5. f \in UNION {[T -> Versions] : T \in SUBSET Signals}
    BY <2>4, StoredSignals
  <2>6. info' = [info EXCEPT !.signals = f]
    BY <1>6, <2>3 DEF StoreSignals
  <2>7. info' \in FileInfo /\ info'.signals = f /\ info'.table = info.table
    BY <1>1, <2>5, <2>6 DEF FileInfo
  <2>8. loader' \in LoaderType /\ loader'.body = loader.body
    BY <1>1, <1>6 DEF StoreSignals, LoaderType, LoaderPc
  <2>9. /\ handler' \in [Handlers -> HandlerType]
        /\ \A h \in Handlers : LooksForSignals(h)' /\ NoDataYet(h)' /\ Keeps(h)
    BY <2>1, Notified DEF IInv, Keeps
  <2>10. QED
    BY <1>1, <2>1, <2>2, <2>4, <2>7, <2>8, <2>9
    DEF IInv, Types, StoredIsPublished, LoaderServesPublished
<1>7. CASE RecvReload
  <2>1. UNCHANGED <<disk, handler, requests>> /\ chan # <<>> /\ chan' = Tail(chan)
    BY <1>7 DEF RecvReload
  <2>2. chan' \in Seq(Messages)
    BY <1>1, <2>1
  <2>3. info' \in FileInfo /\ info'.signals = info.signals /\ info'.table = info.table
    BY <1>1, <1>7 DEF RecvReload, FileInfo
  <2>4. loader' \in LoaderType /\ loader'.pc \in {"dead", "body"}
    <3>1. disk # 0 => disk \in Versions
      BY <1>1 DEF Versions, VersionsNat
    <3>2. QED
      BY <1>1, <1>7, <3>1 DEF RecvReload, LoaderType, LoaderPc
  <2>5. QED
    BY <1>1, <2>1, <2>2, <2>3, <2>4
    DEF IInv, Types, StoredIsPublished, LoaderServesPublished, LooksForSignals, NoDataYet, Keeps
<1>8. QED
  BY <1>3, <1>4, <1>5, <1>6, <1>7 DEF Load

\* Every step keeps the invariant, and changes what is published or the data of
\* one answer, never both.
LEMMA NextInvariant ==
  ASSUME VersionsNat, IInv, [Next]_surverVars
  PROVE  /\ IInv'
         /\ \/ /\ info'.table = info.table \/ info'.table \in Versions
               /\ \A h \in Handlers : Keeps(h)
            \/ /\ info'.table = info.table
               /\ \E h \in Handlers :
                    /\ Drops(h) \/ Publishes(h)
                    /\ \A g \in Handlers \ {h} : handler'[g] = handler[g]
<1>1. ASSUME NEW h \in Handlers, NEW cmd \in Commands, NEW ids \in IdArgs, Receive(h, cmd, ids)
      PROVE  /\ IInv' /\ info'.table = info.table /\ Drops(h)
             /\ \A g \in Handlers \ {h} : handler'[g] = handler[g]
  BY <1>1, ReceiveInvariant DEF Drops
<1>2. ASSUME NEW h \in Handlers, Serve(h)
      PROVE  /\ IInv' /\ info'.table = info.table
             /\ Keeps(h) \/ Drops(h) \/ Publishes(h)
             /\ \A g \in Handlers \ {h} : handler'[g] = handler[g]
  BY <1>2, ServeInvariant
<1>3. ASSUME NEW h \in Handlers, Abandon(h)
      PROVE  /\ IInv' /\ info'.table = info.table /\ Drops(h)
             /\ \A g \in Handlers \ {h} : handler'[g] = handler[g]
  BY <1>3, AbandonInvariant
<1>4. CASE Load
  BY <1>4, LoadInvariant
<1>5. CASE WriteFile \/ RemoveFile
  <2>1. UNCHANGED <<info, handler>>
    BY <1>5 DEF WriteFile, RemoveFile
  <2>2. QED
    BY <1>5, <2>1, DiskInvariant DEF Keeps
<1>6. CASE UNCHANGED surverVars
  BY <1>6 DEF surverVars, IInv, Types, StoredIsPublished, LoaderServesPublished,
              LooksForSignals, NoDataYet, Keeps
<1>7. QED
  BY <1>1, <1>2, <1>3, <1>4, <1>5, <1>6, Zenon DEF Next, Keeps

-----------------------------------------------------------------------------
(* The theorems *)

\* What a step does to the published version and to the answers, it does in
\* WaveService.
LEMMA StepsAsService ==
  ASSUME VersionsNat, IInv, [Next]_surverVars
  PROVE  [Service!Next]_(Service!serviceVars)
<1> DEFINE data == [h \in Handlers |-> handler[h].data]
<1>1. /\ Service!serviceVars = <<info.table, data>>
      /\ Service!serviceVars' = <<info'.table, data'>>
  BY DEF Service!serviceVars
<1>2. data' = [h \in Handlers |-> handler'[h].data]
  OBVIOUS
<1>3. CASE /\ info'.table = info.table \/ info'.table \in Versions
           /\ \A h \in Handlers : Keeps(h)
  <2>1. data' = data
    BY <1>2, <1>3 DEF Keeps
  <2>2. CASE info'.table = info.table
    BY <1>1, <2>1, <2>2
  <2>3. CASE info'.table \in Versions
    BY <2>1, <2>3 DEF Service!Next, Service!Publish
  <2>4. QED
    BY <1>3, <2>2, <2>3
<1>4. ASSUME info'.table = info.table, NEW h \in Handlers,
             \A g \in Handlers \ {h} : handler'[g] = handler[g],
             Drops(h)
      PROVE  Service!Next
  <2>1. data' = [data EXCEPT ![h] = {}]
    BY <1>2, <1>4 DEF Drops
  <2>2. Service!Begin(h)
    BY <1>4, <2>1 DEF Service!Begin, Service!NoData
  <2>3. QED
    BY <2>2 DEF Service!Next
<1>5. ASSUME info'.table = info.table, NEW h \in Handlers,
             \A g \in Handlers \ {h} : handler'[g] = handler[g],
             Publishes(h)
      PROVE  Service!Next
  <2>1. data' = [data EXCEPT ![h] = {info.table}] /\ info.table # 0
    BY <1>2, <1>5 DEF Publishes
  <2>2. Service!Answer(h)
    BY <1>5, <2>1 DEF Service!Answer
  <2>3. QED
    BY <2>2 DEF Service!Next
<1>6. QED
  BY <1>3, <1>4, <1>5, NextInvariant

\* Nothing is published and no handler has an answer.
LEMMA StartsAsService == Init => Service!Init
<1>1. QED
  BY DEF Init, Idle, Service!Init, Service!NoData

\* The invariant says more of the records than TypeOK.
LEMMA InvariantTypes == IInv => TypeOK
<1>1. IInv => \A i \in DOMAIN chan : chan[i] \in Messages
  BY DEF IInv, Types
<1>2. QED
  BY <1>1 DEF IInv, Types, TypeOK, HandlerType, HandlerPc, Codes, LoaderType, LoaderPc, Messages

\* The records of the file, of the loader thread and of the handlers keep their
\* types, for any number of connections, signals and versions: a handler that
\* waits or has ended holds versions of the file only.
THEOREM ServerTypes == ASSUME VersionsNat PROVE Spec => []TypeOK
<1>1. QED
  BY InitInvariant, NextInvariant, InvariantTypes, PTL DEF Spec

\* An answer of the server with signals or times is wholly of the version that
\* is published when it is made, although signals are read outside the lock,
\* requests wait across reloads and a reload drops what was stored.
THEOREM ServesOneVersion == ASSUME VersionsNat PROVE Spec => ImplementsWaveService
<1>1. QED
  BY InitInvariant, NextInvariant, StartsAsService, StepsAsService, PTL
  DEF Spec, ImplementsWaveService, Service!Spec
=============================================================================
