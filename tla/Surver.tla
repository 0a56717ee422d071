------------------------------- MODULE Surver -------------------------------
(***************************************************************************)
(* The waveform server: a loader thread per file, and handlers that serve  *)
(* requests concurrently.  The state of one file is behind a lock; a       *)
(* handler that finds its data missing releases the lock and only then     *)
(* starts to wait for a notification.  Each action is what happens under   *)
(* one lock, or between two of them.                                       *)
(*                                                                         *)
(* A version number stands for the contents of the file, for its           *)
(* modification time (every write has its own) and for the tables and      *)
(* signals read from it.                                                   *)
(***************************************************************************)
EXTENDS Naturals, Sequences, FiniteSets

CONSTANTS Handlers,     \* connections that serve one request at a time
          Signals,      \* signal references of the hierarchy
          MaxVersion,   \* bound: versions of the file
          Broken,       \* versions that do not parse
          NoTimes,      \* versions without any time step
          MaxRequests   \* bound: requests served

Versions == 1..MaxVersion

VARIABLES disk,      \* version in the file system, 0 when the file is missing
          info,      \* FileInfo of the file
          chan,      \* messages to the loader thread
          loader,    \* the loader thread
          handler,   \* the request each connection serves
          requests   \* requests taken so far

surverVars == <<disk, info, chan, loader, handler, requests>>

\* The commands of a request with a valid token; "other" stands for an unknown
\* command, an index out of range or a wrong number of arguments.
Commands == {"status", "hierarchy", "table", "signals", "reload", "other"}

\* What a signal request names; "invalid" is an id that does not parse.
IdArgs == (SUBSET Signals) \cup {{"invalid"}}

\* No signal is stored: SignalRef -> version, over the stored ones.
NoSignals == [s \in {} |-> 0]

FileInfo ==
  [hierarchy : Versions, table : 0..MaxVersion, progress : {"none", "all"},
   signals : UNION {[S -> Versions] : S \in SUBSET Signals},
   reloading : BOOLEAN, requested : BOOLEAN, reloadOk : BOOLEAN, mtime : 0..MaxVersion]

Idle == [pc |-> "idle", cmd |-> "other", ids |-> {}, mtime |-> 0, code |-> "none", data |-> {}]

\* surver_main: the header is read, then the loader starts on the body.
Init ==
  /\ disk = 1
  /\ info = [hierarchy |-> 1, table |-> 0, progress |-> "none", signals |-> NoSignals,
             reloading |-> FALSE, requested |-> FALSE, reloadOk |-> TRUE, mtime |-> 0]
  /\ chan = <<>>
  /\ loader = [pc |-> "body", file |-> 1, body |-> 1, ids |-> {}]
  /\ handler = [h \in Handlers |-> Idle]
  /\ requests = 0

\* The simulator writes the file again, or removes it.
WriteFile ==
  /\ \E v \in Versions : (v > disk /\ v > info.table /\ v > loader.file) /\ disk' = v
  /\ UNCHANGED <<info, chan, loader, handler, requests>>

RemoveFile ==
  /\ disk # 0
  /\ disk' = 0
  /\ UNCHANGED <<info, chan, loader, handler, requests>>

-----------------------------------------------------------------------------
(* Request handlers *)

Answered(h, code, data) ==
  [handler EXCEPT ![h] = [@ EXCEPT !.pc = "done", !.code = code, !.data = data]]

\* handle and handle_cmd up to the first wait.  A status or hierarchy is
\* answered at once, the info page like a status; a wrong token or an unknown
\* command is a 404.  The commands that name a file mark it as requested.
Receive(h, cmd, ids) ==
  /\ handler[h].pc \in {"idle", "done"}
  /\ requests < MaxRequests
  /\ requests' = requests + 1
  /\ cmd # "signals" => ids = {}
  /\ info' = [info EXCEPT !.requested = @ \/ cmd \in {"hierarchy", "table", "signals"}]
  /\ LET start == [Idle EXCEPT !.cmd = cmd, !.ids = ids]
         done(code) == [start EXCEPT !.pc = "done", !.code = code]
     IN  handler' = [handler EXCEPT ![h] =
           CASE cmd = "other" -> done("404")
             [] cmd \in {"status", "hierarchy"} -> done("200")
             [] cmd = "signals" /\ ids = {"invalid"} -> done("error")
             [] cmd = "signals" /\ ids = {} -> done("200")
             [] cmd = "signals" /\ ids \notin {{}, {"invalid"}} -> [start EXCEPT !.pc = "send"]
             [] cmd = "table" -> [start EXCEPT !.pc = "check"]
             [] cmd = "reload" -> [start EXCEPT !.pc = "meta"]]
  /\ UNCHANGED <<disk, chan, loader>>

\* get_signals sends the request to the loader; the channel of a loader that
\* has ended is closed.
SendRequest(h) ==
  /\ handler[h].pc = "send"
  /\ IF loader.pc = "dead"
     THEN handler' = Answered(h, "error", {}) /\ UNCHANGED chan
     ELSE /\ chan' = Append(chan, [type |-> "SignalRequest", ids |-> handler[h].ids])
          /\ handler' = [handler EXCEPT ![h].pc = "check"]
  /\ UNCHANGED <<disk, info, loader, requests>>

\* The data a waiting handler looks for: a time table that is not empty, all
\* signals it asked for.
HasTimes(v) == v # 0 /\ v \notin NoTimes
Available(h) ==
  IF handler[h].cmd = "table" THEN HasTimes(info.table)
                              ELSE handler[h].ids \subseteq DOMAIN info.signals
DataFor(h) ==
  IF handler[h].cmd = "table" THEN {info.table}
                              ELSE {info.signals[s] : s \in handler[h].ids}

\* The loops of get_timetable and get_signals, under the read lock.
Check(h) ==
  /\ handler[h].pc = "check"
  /\ handler' = IF Available(h) THEN Answered(h, "200", DataFor(h))
                ELSE [handler EXCEPT ![h].pc = "unlocked"]
  /\ UNCHANGED <<disk, info, chan, loader, requests>>

\* notify.notified(): only from here on does notify_waiters wake the handler.
StartWaiting(h) ==
  /\ handler[h].pc = "unlocked"
  /\ handler' = [handler EXCEPT ![h].pc = "waiting"]
  /\ UNCHANGED <<disk, info, chan, loader, requests>>

\* The viewer closes the connection, and the handler's future is dropped.
Abandon(h) ==
  /\ handler[h].pc = "waiting"
  /\ handler' = [handler EXCEPT ![h] = Idle]
  /\ UNCHANGED <<disk, info, chan, loader, requests>>

\* handle_reload_cmd reads the modification time under the read lock ...
ReloadMeta(h) ==
  /\ handler[h].pc = "meta"
  /\ handler' = IF disk = 0 THEN Answered(h, "404", {})
                ELSE [handler EXCEPT ![h].pc = "decide", ![h].mtime = disk]
  /\ UNCHANGED <<disk, info, chan, loader, requests>>

\* ... and compares it under the write lock.
Unchanged(h) == info.mtime = handler[h].mtime /\ info.reloadOk
ReloadDecide(h) ==
  /\ handler[h].pc = "decide"
  /\ \/ /\ Unchanged(h)
        /\ handler' = Answered(h, IF info.requested THEN "304" ELSE "202", {})
        /\ info' = [info EXCEPT !.requested = TRUE]
     \/ /\ ~Unchanged(h)
        /\ info' = [info EXCEPT !.requested = TRUE, !.mtime = handler[h].mtime,
                                !.reloading = TRUE, !.reloadOk = FALSE]
        /\ handler' = [handler EXCEPT ![h].pc = "sendReload"]
  /\ UNCHANGED <<disk, chan, loader, requests>>

\* The message to the loader follows outside the lock.
SendReload(h) ==
  /\ handler[h].pc = "sendReload"
  /\ IF loader.pc = "dead"
     THEN handler' = Answered(h, "error", {}) /\ UNCHANGED chan
     ELSE chan' = Append(chan, [type |-> "Reload"]) /\ handler' = Answered(h, "202", {})
  /\ UNCHANGED <<disk, info, loader, requests>>

-----------------------------------------------------------------------------
(* The loader thread *)

\* notify_waiters: every handler that waits now looks again.
NotifyWaiters ==
  [h \in Handlers |-> IF handler[h].pc = "waiting" THEN [handler[h] EXCEPT !.pc = "check"]
                      ELSE handler[h]]

\* read_body without the lock, from the file opened with the header: its old
\* contents, or the new ones when it was overwritten in place since.  An error
\* ends the thread.
ReadBody ==
  /\ loader.pc = "body"
  /\ \E v \in {loader.file, disk} \ {0} :
        loader' = IF v \in Broken THEN [loader EXCEPT !.pc = "dead"]
                  ELSE [loader EXCEPT !.pc = "publish", !.body = v]
  /\ info' = [info EXCEPT !.progress = "all"]
  /\ UNCHANGED <<disk, chan, handler, requests>>

\* (mutated) Signals of the old body are kept over a reload.
Mut_PublishKeepsSignals ==
  /\ loader.pc = "publish"
  /\ info' = [info EXCEPT !.table = loader.body, !.mtime = IF disk = 0 THEN @ ELSE disk,
                          !.reloading = FALSE, !.reloadOk = TRUE]
  /\ handler' = NotifyWaiters
  /\ loader' = [loader EXCEPT !.pc = "recv"]
  /\ UNCHANGED <<disk, chan, requests>>

\* The body is published under the write lock; the modification time is the
\* one of the file as it is now.
Publish ==
  /\ loader.pc = "publish"
  /\ info' = [info EXCEPT !.table = loader.body, !.signals = NoSignals,
                          !.mtime = IF disk = 0 THEN @ ELSE disk,
                          !.reloading = FALSE, !.reloadOk = TRUE]
  /\ handler' = NotifyWaiters
  /\ loader' = [loader EXCEPT !.pc = "recv"]
  /\ UNCHANGED <<disk, chan, requests>>

\* A request for signals: only the ones that are not stored yet are loaded.
RecvSignals ==
  /\ loader.pc = "recv"
  /\ chan # <<>>
  /\ Head(chan).type = "SignalRequest"
  /\ LET ids == Head(chan).ids \ DOMAIN info.signals
     IN  loader' = IF ids = {} THEN loader
                   ELSE [loader EXCEPT !.pc = "store", !.ids = ids]
  /\ chan' = Tail(chan)
  /\ UNCHANGED <<disk, info, handler, requests>>

StoreSignals ==
  /\ loader.pc = "store"
  /\ info' = [info EXCEPT !.signals =
       [s \in DOMAIN @ \cup loader.ids |-> IF s \in loader.ids THEN loader.body ELSE @[s]]]
  /\ handler' = NotifyWaiters
  /\ loader' = [loader EXCEPT !.pc = "recv", !.ids = {}]
  /\ UNCHANGED <<disk, chan, requests>>

\* (mutated) A file that is missing is left for the next reload.
Mut_RecvReload ==
  /\ loader.pc = "recv"
  /\ chan # <<>>
  /\ Head(chan).type = "Reload"
  /\ info' = [info EXCEPT !.progress = "none"]
  /\ loader' = IF disk = 0 THEN loader
               ELSE [loader EXCEPT !.pc = IF disk \in Broken THEN "dead" ELSE "body", !.file = disk]
  /\ chan' = Tail(chan)
  /\ UNCHANGED <<disk, handler, requests>>

\* A reload reads the header again; the hierarchy of the file stays the one of
\* the first load.  Without a readable header the thread ends.
RecvReload ==
  /\ loader.pc = "recv"
  /\ chan # <<>>
  /\ Head(chan).type = "Reload"
  /\ info' = [info EXCEPT !.progress = "none"]
  /\ loader' = IF disk = 0 \/ disk \in Broken THEN [loader EXCEPT !.pc = "dead"]
               ELSE [loader EXCEPT !.pc = "body", !.file = disk]
  /\ chan' = Tail(chan)
  /\ UNCHANGED <<disk, handler, requests>>

Serve(h) ==
  \/ SendRequest(h)
  \/ Check(h)
  \/ StartWaiting(h)
  \/ ReloadMeta(h)
  \/ ReloadDecide(h)
  \/ SendReload(h)

Load == ReadBody \/ Publish \/ RecvSignals \/ StoreSignals \/ RecvReload

Next ==
  \/ \E h \in Handlers, cmd \in Commands, ids \in IdArgs : Receive(h, cmd, ids)
  \/ \E h \in Handlers : Serve(h)
  \/ \E h \in Handlers : Abandon(h)
  \/ Load
  \/ WriteFile
  \/ RemoveFile

\* The runtime polls every handler that can go on, the loader is a thread.
Fairness == WF_surverVars(Load) /\ \A h \in Handlers : WF_surverVars(Serve(h))
Spec == Init /\ [][Next]_surverVars /\ Fairness

-----------------------------------------------------------------------------

\* The state of the file, of the thread and of the handlers has its type.
TypeOK ==
  /\ disk \in 0..MaxVersion
  /\ info \in FileInfo
  /\ loader.pc \in {"body", "publish", "recv", "store", "dead"}
  /\ loader.file \in Versions /\ loader.body \in Versions /\ loader.ids \subseteq Signals
  /\ \A h \in Handlers :
        /\ handler[h].pc \in {"idle", "send", "check", "unlocked", "waiting", "meta",
                              "decide", "sendReload", "done"}
        /\ handler[h].code \in {"none", "200", "202", "304", "404", "error"}
        /\ handler[h].data \subseteq Versions
  /\ \A i \in DOMAIN chan : chan[i].type \in {"SignalRequest", "Reload"}

\* Surver implements WaveService: a published body is served until the next
\* one is published, and no answer mixes two bodies, although signals are
\* loaded outside the lock and reloads drop them.
Service == INSTANCE WaveService WITH
             published <- info.table,
             answer <- [h \in Handlers |-> handler[h].data]
ImplementsWaveService == Service!Spec

\* A reload that was accepted ends: the flag the viewers poll is cleared,
\* unless the loader thread has ended on a file it cannot read.
ReloadEnds == info.reloading ~> (~info.reloading \/ loader.pc = "dead")

\* "Wait until the time table is available" (get_timetable): no handler waits
\* for a time table that is available.
WaitsForTable ==
  \A h \in Handlers :
     handler[h].pc = "waiting" /\ handler[h].cmd = "table" => ~HasTimes(info.table)

\* "File unchanged since last reload" (ReloadError): the 304 of the server says
\* that what it serves is what the file held when it was looked at.
NotModifiedTruthful ==
  \A h \in Handlers : handler[h].code = "304" => info.table >= handler[h].mtime

=============================================================================
