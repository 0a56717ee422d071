---------------------------- MODULE WaveLoading ----------------------------
(***************************************************************************)
(* How waveforms are loaded (libsurfer/src/wave_source.rs, wellen.rs,      *)
(* remote/client.rs, the handlers of lib.rs) and how batch commands wait   *)
(* for it (batch_commands.rs).                                             *)
(*                                                                         *)
(* A load goes through tasks on other threads (header, body, signals;      *)
(* download; status, hierarchy and time table of a server).  A task sends  *)
(* its answer into a channel.  A frame of the user interface takes the     *)
(* whole channel, handles its messages from the last to the first, and     *)
(* then runs batch commands while no progress is shown.                    *)
(*                                                                         *)
(* A definition marked "Mutant" is the one after it with a plausible bug;  *)
(* a property of the runs must tell the two apart.                         *)
(***************************************************************************)
EXTENDS Naturals, Sequences, SequencesExt, FiniteSets, Bags

CONSTANTS
  Files,             \* waveform files
  Transactions,      \* transaction (FTR) files
  Urls,              \* waveforms and transactions behind a URL
  TransactionUrls,   \* those of Urls that are transactions
  Remote,            \* files that a surver instance may offer
  Server,            \* its URL
  None,
  Signals,           \* signals, the same in every waveform
  Params,            \* those of parameters, loaded with the body
  Setups,            \* batch commands and files the server offers, in pairs
  MaxRequests,       \* bound: what the user asks for while they run
  Failures           \* bound: whether one file or request may fail

ASSUME WaveLoadingAssumption ==
  /\ TransactionUrls \subseteq Urls
  /\ Params \subseteq Signals
  /\ MaxRequests \in Nat
  /\ Failures \in BOOLEAN
  /\ \A setup \in Setups : setup.offered \subseteq Remote

VARIABLES
  app,        \* SystemState, as far as it takes part
  tasks,      \* bag of running tasks
  channel,    \* msg_sender to msg_receiver
  msgs,       \* messages of the frame that are still to be handled
  batch       \* batch_messages and what surrounds them

vars == <<app, tasks, channel, msgs, batch>>

NoWaves ==
  [kind |-> "none", source |-> None, unique_id |-> 0, remote |-> FALSE,
   body |-> 0, handle |-> FALSE, signals |-> {}, to_be_loaded |-> {}]

Init ==
  /\ \E setup \in Setups :
     /\ batch = [phase |-> "idle", messages |-> setup.script, completed |-> FALSE,
                 should_exit |-> FALSE, closed |-> FALSE]
     /\ app = [waves |-> NoWaves, file_infos |-> setup.offered,
               displayed |-> {}, progress_tracker |-> FALSE,
               selected |-> None, surver_url |-> FALSE, unique_ids |-> 0,
               requests |-> 0, overlapped |-> FALSE, second_body |-> FALSE,
               trouble |-> FALSE, panic |-> "no"]
  /\ tasks = EmptyBag
  /\ channel = <<>>
  /\ msgs = <<>>

-----------------------------------------------------------------------------
(* Messages and tasks.  The handlers below work on a state s with the        *)
(* fields app, tasks, channel and msgs.                                      *)

Load(source, keep)  == [msg |-> "Load", of |-> source, keep |-> keep]
Pick(file, keep)    == [msg |-> "LoadSurverFileByIndex", of |-> file, keep |-> keep]
Reload              == [msg |-> "ReloadWaveform"]
Add(signal)         == [msg |-> "AddVariables", of |-> signal]
Exit                == [msg |-> "Exit"]
Error               == [msg |-> "Error"]
Stop                == [msg |-> "StopProgressTracker"]
Status              == [msg |-> "SetSurverStatus"]
Header(source, remote, keep) ==
  [msg |-> "WaveHeaderLoaded", of |-> source, remote |-> remote, keep |-> keep]
Body(remote, id)    == [msg |-> "WaveBodyLoaded", remote |-> remote, id |-> id]
Loaded(id, signals) == [msg |-> "SignalsLoaded", id |-> id, of |-> signals]
Downloaded(source, keep) == [msg |-> "FileDownloaded", of |-> source, keep |-> keep]
Streams(source)     == [msg |-> "TransactionStreamsLoaded", of |-> source]

\* What a batch file may contain of it.
BatchMessage ==
  {Exit, Reload} \cup {Add(x) : x \in Signals}
    \cup {Pick(file, keep) : file \in Remote, keep \in BOOLEAN}
    \cup {Load(source, keep) : source \in Files \cup Transactions \cup Urls \cup {Server},
                               keep \in BOOLEAN}

\* The parser of batch files makes nothing else (batch_commands.rs).
ASSUME ScriptsAssumption == \A setup \in Setups : setup.script \in Seq(BatchMessage)

State == [app |-> app, tasks |-> tasks, channel |-> channel, msgs |-> msgs]

Spawn(s, task)    == [s EXCEPT !.tasks = @ (+) SetToBag({task})]
Send(s, message)  == [s EXCEPT !.channel = Append(@, message)]
Progress(s, b)    == [s EXCEPT !.app.progress_tracker = b]
Report(s)         == [s EXCEPT !.app.trouble = TRUE]
Panic(s, reason)  == [s EXCEPT !.app.panic = reason]

\* The outcomes of an operation on s that may fail.  A failure is a message of
\* its own, whose handler only shows it.
Fail(s) == Send(Report(s), Error)
Outcomes(s, good) ==
  {good} \cup (IF Failures /\ ~s.app.trouble THEN {Fail(s)} ELSE {})

\* Tasks and messages of loads that are under way.
Pending(s) == BagToSet(s.tasks) \cup ToSet(s.channel) \cup ToSet(s.msgs)
IsStatus(x) == \/ "do" \in DOMAIN x /\ x.do = "status"
               \/ "msg" \in DOMAIN x /\ x.msg = "SetSurverStatus"
IsWork(x) == \/ "do" \in DOMAIN x
             \/ x.msg \in {"WaveHeaderLoaded", "WaveBodyLoaded", "SignalsLoaded",
                           "FileDownloaded", "TransactionStreamsLoaded",
                           "SetSurverStatus", "StopProgressTracker"}
Work(s) == {x \in Pending(s) : IsWork(x)}

\* An operation begins.  Whether another one is under way is recorded, for the
\* properties only.
Begin(s) == [s EXCEPT !.app.overlapped = @ \/ Work(s) # {}]

-----------------------------------------------------------------------------
(* WellenContainer *)

Has(w, signal) == \E x \in w.signals : x.of = signal

\* Mutant: the source stays available while signals are loaded from it.
LoadSignalsKeepingSource(s, ids) ==
  LET w  == s.app.waves
      to == w.to_be_loaded \cup {x \in ids : ~Has(w, x)}
  IN IF to # {} /\ w.body # 0 /\ w.handle
     THEN Progress(Spawn([s EXCEPT !.app.waves.to_be_loaded = {}],
                         [do |-> "signals", id |-> w.unique_id, of |-> to,
                          remote |-> w.remote]), TRUE)
     ELSE [s EXCEPT !.app.waves.to_be_loaded = to]

\* load_signals and, when it returns a command, SystemState::load_variables:
\* the source or server goes to the task and comes back with its answer.
LoadSignals(s, ids) ==
  LET w  == s.app.waves
      to == w.to_be_loaded \cup {x \in ids : ~Has(w, x)}
  IN IF to # {} /\ w.body # 0 /\ w.handle
     THEN Progress(Spawn([s EXCEPT !.app.waves.to_be_loaded = {},
                                   !.app.waves.handle = FALSE],
                         [do |-> "signals", id |-> w.unique_id, of |-> to,
                          remote |-> w.remote]), TRUE)
     ELSE [s EXCEPT !.app.waves.to_be_loaded = to]

\* add_body: a second body, or a local one for a remote waveform, is refused
\* with an error in the log.
AddBody(s, m) ==
  LET w == s.app.waves
  IN IF w.body # 0 THEN [s EXCEPT !.app.second_body = TRUE]
     ELSE IF m.remote # w.remote THEN s
     ELSE LoadSignals([s EXCEPT !.app.waves.body = m.id,
                                !.app.waves.handle = TRUE], {})

\* Mutant: an answer to another container's request is taken.
OnSignalsLoadedAny(s, m) ==
  LoadSignals([s EXCEPT
                 !.app.waves.handle = TRUE,
                 !.app.waves.signals = @ \cup [of : m.of, from : {m.id}]], {})

\* Mutant: what was asked for in the meantime is not loaded.
OnSignalsLoadedOnly(s, m) ==
  IF m.id = s.app.waves.unique_id
  THEN [s EXCEPT !.app.waves.handle = TRUE,
                 !.app.waves.signals = @ \cup [of : m.of, from : {m.id}]]
  ELSE s

\* on_signals_loaded
OnSignalsLoaded(s, m) ==
  LoadSignals(
    IF m.id # s.app.waves.unique_id THEN s
    ELSE IF s.app.waves.handle THEN Panic(s, "source taken")
    ELSE [s EXCEPT !.app.waves.handle = TRUE,
                   !.app.waves.signals = @ \cup [of : m.of, from : {m.id}]], {})

-----------------------------------------------------------------------------
(* Starting a load *)

\* load_from_file: a missing file is only reported; transactions are read
\* here and now.
LoadFromFile(s, source, keep) ==
  IF source \in Transactions
  THEN Outcomes(s, Send(s, Streams(source)))
  ELSE Outcomes(s, Progress(Spawn(s, [do |-> "header", of |-> source, keep |-> keep]), TRUE))

\* load_from_bytes, of a download.
LoadFromBytes(s, source, keep) ==
  IF source \in TransactionUrls
  THEN Outcomes(s, Send(s, Streams(source)))
  ELSE {Progress(Spawn(s, [do |-> "header", of |-> source, keep |-> keep]), TRUE)}

\* Mutant: the server is taken for the file.
LoadFromUrlAsFile(s, source, keep, force_switch, file) ==
  Progress(Spawn([s EXCEPT !.app.selected = IF file # None THEN source ELSE @],
                 [do |-> "download", of |-> source, keep |-> keep,
                  force_switch |-> force_switch, file |-> file]), TRUE)

\* load_wave_from_url
LoadFromUrl(s, source, keep, force_switch, file) ==
  Progress(Spawn([s EXCEPT !.app.selected = IF file # None THEN file ELSE @],
                 [do |-> "download", of |-> source, keep |-> keep,
                  force_switch |-> force_switch, file |-> file]), TRUE)

\* LoadFile and LoadWaveformFileFromUrl
OnLoad(s, m) ==
  LET t == [Begin(s) EXCEPT !.app.selected = None]
  IN IF m.of \in Files \cup Transactions THEN LoadFromFile(t, m.of, m.keep)
     ELSE {LoadFromUrl(t, m.of, m.keep, TRUE, None)}

OnLoadSurverFileByIndex(s, m) ==
  {IF s.app.surver_url
   THEN LoadFromUrl(Begin(s), Server, m.keep, s.app.selected # m.of, m.of)
   ELSE s}

OnReloadWaveform(s) ==
  LET source == s.app.waves.source
  IN IF s.app.waves.kind = "none" THEN {s}
     ELSE IF source \in Files \cup Transactions
     THEN LoadFromFile(Begin(s), source, TRUE)
     ELSE {LoadFromUrl(Begin(s), source, TRUE, FALSE, s.app.selected)}

\* AddVariables: transactions have no variables to add.
OnAddVariables(s, m) ==
  LET t == LoadSignals([s EXCEPT !.app.displayed = @ \cup {m.of}], {m.of})
  IN {IF s.app.waves.kind = "none" THEN s
      ELSE IF s.app.waves.kind # "wellen" THEN Panic(s, "no variables")
      ELSE IF t.tasks = s.tasks THEN t
      ELSE [t EXCEPT !.app.overlapped = Begin(s).app.overlapped]}

-----------------------------------------------------------------------------
(* Answers *)

\* Mutant: the signals of the displayed variables are not asked for again.
OnWavesLoadedLazily(s, source, remote, keep) ==
  [s EXCEPT
     !.app.unique_ids = @ + 1,
     !.app.displayed = IF keep THEN @ ELSE {},
     !.app.waves = [NoWaves EXCEPT
                      !.kind = "wellen", !.source = source,
                      !.unique_id = s.app.unique_ids + 1, !.remote = remote,
                      !.handle = remote]]

\* Mutant: the container is updated in place.
OnWavesLoadedOver(s, source, remote, keep) ==
  LET id == s.app.unique_ids + 1
      t  == [s EXCEPT !.app.unique_ids = id,
                      !.app.displayed = IF keep THEN @ ELSE {},
                      !.app.waves.kind = "wellen",
                      !.app.waves.source = source,
                      !.app.waves.unique_id = id,
                      !.app.waves.remote = remote]
  IN LoadSignals(t, t.app.displayed)

\* on_waves_loaded: a new container; the displayed variables are kept or not.
OnWavesLoaded(s, source, remote, keep) ==
  LET kept == keep /\ s.app.waves.kind # "none"
      id   == s.app.unique_ids + 1
      t    == [s EXCEPT
                 !.app.unique_ids = id,
                 !.app.displayed = IF kept THEN @ ELSE {},
                 !.app.waves = [NoWaves EXCEPT
                                  !.kind = "wellen", !.source = source,
                                  !.unique_id = id, !.remote = remote,
                                  !.handle = remote]]
  IN IF kept THEN LoadSignals(t, t.app.displayed) ELSE t

\* Mutant: the progress ends with the header.
OnWaveHeaderLoadedDone(s, m) ==
  LET t == OnWavesLoaded(s, m.of, m.remote, m.keep)
  IN {Progress(Spawn(t, [do |-> IF m.remote THEN "time table" ELSE "body",
                         id |-> t.app.unique_ids]), FALSE)}

\* WaveHeaderLoaded: the container first, then its body or time table.
OnWaveHeaderLoaded(s, m) ==
  LET t    == OnWavesLoaded(s, m.of, m.remote, m.keep)
      task == [do |-> IF m.remote THEN "time table" ELSE "body",
               id |-> t.app.unique_ids]
  IN {IF m.remote THEN Spawn(t, task) ELSE Progress(Spawn(t, task), TRUE)}

\* WaveBodyLoaded
OnWaveBodyLoaded(s, m) ==
  LET t == Progress(s, FALSE)
  IN {IF t.app.waves.kind = "none" THEN Panic(t, "Waves should be loaded")
      ELSE IF t.app.waves.kind # "wellen" THEN t
      ELSE LoadSignals(AddBody(t, m), Params)}

\* Mutant: the progress goes on.
OnSignalsQuietly(s, m) ==
  {IF s.app.waves.kind = "none" THEN Panic(s, "Waves should be loaded")
   ELSE IF s.app.waves.kind # "wellen" THEN s
   ELSE OnSignalsLoaded(s, m)}

\* SignalsLoaded
OnSignals(s, m) ==
  LET t == Progress(s, FALSE)
  IN {IF t.app.waves.kind = "none" THEN Panic(t, "Waves should be loaded")
      ELSE IF t.app.waves.kind # "wellen" THEN t
      ELSE OnSignalsLoaded(t, m)}

\* TransactionStreamsLoaded does not touch the progress.
OnTransactionStreamsLoaded(s, m) ==
  {[s EXCEPT !.app.displayed = {},
             !.app.waves = [NoWaves EXCEPT !.kind = "transactions",
                                           !.source = m.of]]}

\* server_status_to_progress: asks again until the body is there.
ServerStatusToProgress(s) ==
  IF s.app.waves.body # 0 \/ s.app.waves.kind = "transactions" THEN s
  ELSE Progress(Spawn(s, [do |-> "status"]), TRUE)

\* SetSurverStatus: a single file is loaded, of several one is to be picked.
OnSetSurverStatus(s) ==
  LET known == [s EXCEPT !.app.surver_url = TRUE]
      t     == IF known.app.selected # None THEN known
               ELSE IF Cardinality(known.app.file_infos) = 1
               THEN LoadFromUrl(Begin(known), Server, FALSE, FALSE,
                                CHOOSE file \in known.app.file_infos : TRUE)
               ELSE Progress(known, FALSE)
  IN {IF known.app.file_infos = {} THEN Report(known)
      ELSE IF t.app.selected = None THEN t ELSE ServerStatusToProgress(t)}

\* SystemState::update, for the messages of this module.
Update(s, m) ==
  CASE m.msg = "Load"                     -> OnLoad(s, m)
    [] m.msg = "LoadSurverFileByIndex"    -> OnLoadSurverFileByIndex(s, m)
    [] m.msg = "ReloadWaveform"           -> OnReloadWaveform(s)
    [] m.msg = "AddVariables"             -> OnAddVariables(s, m)
    [] m.msg = "WaveHeaderLoaded"         -> OnWaveHeaderLoaded(s, m)
    [] m.msg = "WaveBodyLoaded"           -> OnWaveBodyLoaded(s, m)
    [] m.msg = "SignalsLoaded"            -> OnSignals(s, m)
    [] m.msg = "TransactionStreamsLoaded" -> OnTransactionStreamsLoaded(s, m)
    [] m.msg = "FileDownloaded"           -> LoadFromBytes(s, m.of, m.keep)
    [] m.msg = "SetSurverStatus"          -> OnSetSurverStatus(s)
    [] m.msg = "StopProgressTracker"      -> {Progress(s, FALSE)}
    [] m.msg \in {"Error", "Exit"}         -> {s}

-----------------------------------------------------------------------------
(* Tasks *)

\* What a download finds: a file, or a server to ask further.
Answered(s, task) ==
  IF task.of # Server
  THEN Send(s, Downloaded(task.of, task.keep))
  ELSE LET hierarchy == [do |-> "hierarchy", file |-> task.file, keep |-> task.keep]
       IN IF ~task.keep
          THEN IF task.file = None THEN Spawn(s, [do |-> "status"])
               ELSE Spawn(Spawn(s, [do |-> "status"]), hierarchy)
          ELSE IF task.file # None
          THEN IF task.force_switch THEN Spawn(s, hierarchy)
               ELSE Spawn(s, [do |-> "reload", file |-> task.file, keep |-> task.keep])
          ELSE IF task.force_switch THEN Spawn(s, [do |-> "status"])
          ELSE Report(s)

\* The states a task may leave when it ends.
Done(s, task) ==
  CASE task.do = "header"     -> Outcomes(s, Send(s, Header(task.of, FALSE, task.keep)))
    [] task.do = "body"       -> Outcomes(s, Send(s, Body(FALSE, task.id)))
    [] task.do = "signals"    -> IF task.remote
                                 THEN Outcomes(s, Send(s, Loaded(task.id, task.of)))
                                 ELSE {Send(s, Loaded(task.id, task.of))}
    [] task.do = "download"   -> Outcomes(s, Answered(s, task))
    [] task.do = "status"     -> Outcomes(s, Send(s, Status))
    [] task.do = "hierarchy"  -> Outcomes(s, Send(s, Header(Server, TRUE, task.keep)))
    [] task.do = "time table" -> Outcomes(s, Send(s, Body(TRUE, task.id)))
    [] task.do = "reload"     -> {Send(s, Stop)} \cup Outcomes(s,
         Spawn(Send(s, Status), [do |-> "hierarchy", file |-> task.file,
                                 keep |-> task.keep]))

Become(s) ==
  /\ app' = s.app /\ tasks' = s.tasks /\ channel' = s.channel /\ msgs' = s.msgs

Running == ~batch.closed /\ app.panic = "no"

\* A task of one kind ends.
EndTask(kind) ==
  /\ Running
  /\ \E task \in BagToSet(tasks) :
       /\ task.do = kind
       /\ \E s \in Done([State EXCEPT !.tasks = @ (-) SetToBag({task})], task) :
            Become(s)
  /\ UNCHANGED batch

-----------------------------------------------------------------------------
(* Frames *)

\* What the user may ask for, within the bound.
UserMessages ==
  IF app.requests = MaxRequests THEN {}
  ELSE {Load(source, keep) : source \in Files \cup Transactions \cup Urls
                                          \cup (IF app.file_infos = {} THEN {} ELSE {Server}),
                             keep \in BOOLEAN}
         \cup (IF app.surver_url
               THEN {Pick(file, keep) : file \in app.file_infos, keep \in BOOLEAN} ELSE {})
         \cup (IF app.waves.kind = "none" THEN {} ELSE {Reload})
         \cup (IF app.waves.kind = "wellen"
               THEN {Add(x) : x \in Signals \ app.displayed} ELSE {})

\* A frame begins: the message of a widget, then those of the channel.  Frames
\* with nothing to do are left out.
BeginFrame(user) ==
  /\ Running
  /\ batch.phase = "idle"
  /\ user \o channel # <<>> \/ (~batch.completed /\ ~app.progress_tracker)
  /\ msgs' = user \o channel
  /\ channel' = <<>>
  /\ batch' = [batch EXCEPT !.phase = "update"]
  /\ app' = [app EXCEPT !.requests = @ + Len(user)]
  /\ UNCHANGED tasks

\* The messages of a frame are popped from the end.
HandleMessage ==
  /\ Running
  /\ batch.phase = "update"
  /\ msgs # <<>>
  /\ \E s \in Update([State EXCEPT !.msgs = Front(@)], Last(msgs)) : Become(s)
  /\ batch' = [batch EXCEPT !.closed = Last(msgs) = Exit]

\* handle_batch_commands: one turn of its loop.
BatchCommand ==
  /\ Running
  /\ batch.phase = "update" /\ msgs = <<>>
  /\ ~app.progress_tracker /\ batch.messages # <<>>
  /\ \E s \in Update(State, Head(batch.messages)) : Become(s)
  /\ batch' = [batch EXCEPT !.messages = Tail(@),
                            !.should_exit = @ \/ Head(batch.messages) = Exit]

\* handle_batch_commands after its loop, and the end of the frame.
EndFrame ==
  LET done == ~batch.completed /\ batch.messages = <<>> /\ ~app.progress_tracker
  IN /\ Running
     /\ batch.phase = "update" /\ msgs = <<>>
     /\ app.progress_tracker \/ batch.messages = <<>>
     /\ batch' = [batch EXCEPT !.phase = "idle", !.should_exit = FALSE,
                               !.completed = @ \/ done]
     /\ channel' = IF done /\ batch.should_exit THEN Append(channel, Exit) ELSE channel
     /\ UNCHANGED <<app, tasks, msgs>>

Kinds == {"header", "body", "signals", "download", "status", "hierarchy",
          "time table", "reload"}

Frame == BeginFrame(<<>>) \/ HandleMessage \/ BatchCommand \/ EndFrame

Next ==
  \/ Frame
  \/ \E m \in UserMessages : BeginFrame(<<m>>)
  \/ \E kind \in Kinds : EndTask(kind)

\* A frame that the program sees to itself: the first one, and the next one as
\* long as progress is shown (request_repaint at the end of ui).  Any other one
\* is up to the user and the window system: sending a message asks for none.
Repaint ==
  /\ app.progress_tracker \/ ~batch.completed
  /\ BeginFrame(<<>>)

\* Those frames happen, a frame that began comes to its end, and a spawned task
\* runs to its end.
Fairness ==
  /\ WF_vars(Repaint)
  /\ WF_vars(HandleMessage \/ BatchCommand \/ EndFrame)
  /\ \A kind \in Kinds : WF_vars(EndTask(kind))

Spec == Init /\ [][Next]_vars /\ Fairness

-----------------------------------------------------------------------------
(* Properties *)

\* The types of the state.
TypeOK ==
  /\ app.waves.kind \in {"none", "wellen", "transactions"}
  /\ app.waves.to_be_loaded \subseteq Signals
  /\ app.waves.signals \subseteq [of : Signals, from : Nat]
  /\ app.displayed \subseteq Signals
  /\ app.selected \in Remote \cup {None}
  /\ IsABag(tasks)
  /\ batch.messages \in Seq(BatchMessage)

\* An answer to a request for signals reaches only the container that asked,
\* however often the waveform was replaced in between.
SignalsOfContainer ==
  \A x \in app.waves.signals : x.from = app.waves.unique_id

\* No answer meets a failing expect or assertion: waveforms are there when a
\* body or signals arrive, and the source is away while signals are loaded
\* from it, so that no two requests share it.
NoPanic == app.panic \in {"no", "no variables"}

\* "Did we just parse the body twice? That should not happen!" (add_body).
NoBodyTwice == ~app.second_body

InFlight(id) ==
  UNION {x.of : x \in {y \in Pending(State) :
    /\ \/ "do" \in DOMAIN y /\ y.do = "signals"
       \/ "msg" \in DOMAIN y /\ y.msg = "SignalsLoaded"
    /\ y.id = id}}

\* Nothing that is displayed is forgotten: its signal is loaded, queued or on
\* its way, over replaced waveforms and answers in any order.
NothingForgotten ==
  app.waves.kind = "wellen" /\ ~app.trouble =>
    \A x \in app.displayed :
      \/ Has(app.waves, x)
      \/ x \in app.waves.to_be_loaded \cup InFlight(app.waves.unique_id)

\* As long as no operation begins while another one is under way, a waveform
\* gets its own body.
BodyOfContainer ==
  ~app.overlapped => app.waves.body \in {0, app.waves.unique_id}

\* "if the progress tracker is none -> all operations have completed"
\* (can_start_batch_command), as long as operations do not overlap: batch
\* commands never run into the middle of a load.  Transactions are the
\* exception, they show no progress.
ProgressCoversWork ==
  ~app.overlapped /\ ~app.progress_tracker =>
    \A x \in Work(State) :
      IsStatus(x) \/ ("msg" \in DOMAIN x /\ x.msg = "TransactionStreamsLoaded")

\* A displayed variable eventually has its values, with no other frames than
\* the program asks for, unless it goes away, operations overlap or an error
\* is reported.
DisplayedLoaded ==
  \A x \in Signals :
    (x \in app.displayed) ~>
      \/ Has(app.waves, x) \/ x \notin app.displayed
      \/ app.overlapped \/ app.trouble \/ ~Running

\* Batch commands that end with Exit send it, under the same conditions: none
\* waits forever for the one before it.  The frame that closes the window is
\* up to the window system.  Transactions behind a URL are the exception: their
\* download shows progress that nothing ends.
BatchExits ==
  <>(\/ Exit \in ToSet(channel)
     \/ app.overlapped \/ app.trouble \/ ~Running
     \/ app.waves.source \in TransactionUrls)

\* "Path to a file containing 'commands' to run after a waveform has been
\* loaded." (main.rs, --command-file): the commands after a load run, whatever
\* is loaded, unless operations overlap or an error is reported.
CommandsRun ==
  <>(batch.messages = <<>> \/ app.overlapped \/ app.trouble \/ ~Running)

=============================================================================
