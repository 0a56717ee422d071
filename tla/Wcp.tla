-------------------------------- MODULE Wcp --------------------------------
(***************************************************************************)
(* The waveform control protocol: the server task that talks to a client   *)
(* over TCP (wcp/wcp_server.rs), the handler that the user interface       *)
(* thread runs once per frame (wcp/wcp_handler.rs), the two bounded        *)
(* channels between them, and the three flags (stop, running, greeted)     *)
(* that both sides store and load without a lock.  A server that was       *)
(* stopped may still be running when the next one is started, so servers   *)
(* are numbered.  Requests carry the client that sent them and their place *)
(* in the order the server read them; the code knows neither.              *)
(***************************************************************************)
EXTENDS Naturals, Sequences, FiniteSets, SequencesExt, Functions

CONSTANTS Cap,          \* capacity of each channel: 100 in the code
          MaxServers, MaxClients, MaxRequests, MaxItems,
          Variables     \* the variables of the waveform

VARIABLES
    thread,     \* the server whose handle and channel ends the UI holds, or 0
    stop, running, greeted,     \* the shared flags
    task,       \* server -> [pc, initiate, client, held]
    c2s, s2c,   \* server -> the messages in its two channels
    read,       \* server -> how many requests it read
    delivered,  \* server -> what it wrote to its clients
    todo,       \* requests the UI took from the channel and did not handle
    sending,    \* messages the UI is about to send: it blocks on the first
    caps,       \* wcp_client_capabilities.waveforms_loaded
    waves,      \* <<>>, or <<items>>: shown and hidden displayed items
    clients     \* connections made so far

vars == <<thread, stop, running, greeted, task, c2s, s2c, read, delivered,
          todo, sending, caps, waves, clients>>
tasks == <<stop, running, task, c2s, s2c, read, delivered, clients>>

Servers == 1..MaxServers
Ids == 1..MaxItems
NoTask == [pc |-> "none", initiate |-> FALSE, client |-> 0, held |-> <<>>]
Queries == {"get_item_list", "get_item_info"}
Adds == {"add_variables", "add_scope", "add_items", "add_markers"}
Views == {"reload", "set_viewport_to", "set_viewport_range", "zoom_to_fit", "set_cursor"}
OfItem == {"set_item_color", "focus_item"}

(* What a client may send.  arg is the argument the answer depends on: the *)
(* ids of get_item_info, the names to add, how many markers, the item, the *)
(* version greeted with and whether waveforms_loaded is among its commands.*)
Commands(kinds) ==
    [kind : kinds \cap {"get_item_info", "remove_items"}, arg : SUBSET Ids]
        \cup [kind : kinds \cap {"add_variables"}, arg : SUBSET Variables]
        \cup [kind : kinds \cap OfItem, arg : Ids]
        \cup [kind : kinds \cap {"add_markers"}, arg : 0..MaxItems]
        \cup [kind : kinds \cap {"greeting"}, arg : {"0", "0 loaded", "1"}]
        \cup [kind : kinds \cap {"load"}, arg : {"file", "url", "illegal"}]
        \cup [kind : kinds \ ({"get_item_info", "remove_items", "add_variables",
                               "add_markers", "greeting", "load"} \cup OfItem), arg : {{}}]

Init ==
    /\ thread = 0 /\ stop = FALSE /\ running = FALSE /\ greeted = FALSE
    /\ task = [s \in Servers |-> NoTask]
    /\ c2s = [s \in Servers |-> <<>>] /\ s2c = [s \in Servers |-> <<>>]
    /\ read = [s \in Servers |-> 0] /\ delivered = [s \in Servers |-> <<>>]
    /\ todo = <<>> /\ sending = <<>> /\ caps = FALSE /\ waves = <<>>
    /\ clients = 0

-----------------------------------------------------------------------------
(* The handler.  Every answer is [client, n, kind, ok]; the data it        *)
(* carries is the list of ids where the protocol promises one.             *)
Answer(r, ok, ids) == <<[client |-> r.client, n |-> r.n, kind |-> r.kind, ok |-> ok, ids |-> ids]>>
Loaded == waves # <<>>
All == IF Loaded THEN waves[1].shown \cup waves[1].hidden ELSE {}
Fresh(n) == {i \in Ids : i > Cardinality(All) /\ i <= Cardinality(All) + n}

(* A plausible slip: the error of an unknown id without the return.        *)
Mut_ItemQuery(r) ==
    /\ IF ~Loaded THEN sending' = Answer(r, FALSE, {})
       ELSE IF r.kind = "get_item_list" THEN sending' = Answer(r, TRUE, waves[1].shown)
       ELSE sending' = (IF r.arg \subseteq All THEN <<>> ELSE Answer(r, FALSE, {}))
                       \o Answer(r, TRUE, r.arg \cap All)
    /\ UNCHANGED <<waves, greeted, caps>>

(* get_item_list names the visible items only; get_item_info knows the     *)
(* hidden ones too, and answers with an error for the first unknown id.    *)
ItemQuery(r) ==
    /\ IF ~Loaded THEN sending' = Answer(r, FALSE, {})
       ELSE IF r.kind = "get_item_list" THEN sending' = Answer(r, TRUE, waves[1].shown)
       ELSE sending' = Answer(r, r.arg \subseteq All, r.arg \cap All)
    /\ UNCHANGED <<waves, greeted, caps>>

(* The new items are shown; names the waveform does not have are skipped.  *)
(* There are 255 markers: the first one that has no index left is answered *)
(* with an error, and those before it stay.                                *)
AddItems(r) ==
    LET n == IF r.kind = "add_variables" THEN Cardinality(r.arg)
             ELSE IF r.kind = "add_markers" THEN r.arg ELSE Cardinality(Variables)
        Showing(ids) == <<[waves[1] EXCEPT !.shown = @ \cup ids]>> IN
    /\ \/ ~Loaded /\ sending' = Answer(r, FALSE, {}) /\ UNCHANGED waves
       \/ Loaded /\ sending' = Answer(r, TRUE, Fresh(n)) /\ waves' = Showing(Fresh(n))
       \/ /\ Loaded /\ r.kind = "add_markers" /\ sending' = Answer(r, FALSE, {})
          /\ \E k \in 0..(n - 1) : waves' = Showing(Fresh(k))
    /\ UNCHANGED <<greeted, caps>>

(* The viewport, the cursor and a reload are acknowledged at once, also    *)
(* when there is nothing to move or reload.                                *)
SetView(r) == sending' = Answer(r, TRUE, {}) /\ UNCHANGED <<waves, greeted, caps>>

(* The item is looked up among the visible ones.                           *)
ChangeItem(r) ==
    /\ sending' = Answer(r, Loaded /\ r.arg \in waves[1].shown, {})
    /\ UNCHANGED <<waves, greeted, caps>>

(* remove_items removes what it is given; clear what is visible.           *)
RemoveItems(r) ==
    LET gone == IF r.kind = "clear" THEN waves[1].shown ELSE r.arg IN
    /\ sending' = Answer(r, Loaded \/ r.kind = "clear", {})
    /\ waves' = IF Loaded THEN <<[shown |-> waves[1].shown \ gone,
                                  hidden |-> waves[1].hidden \ gone]>> ELSE waves
    /\ UNCHANGED <<greeted, caps>>

(* The file or URL is loaded later; what is neither is an error.           *)
LoadSource(r) ==
    sending' = Answer(r, r.arg \in {"file", "url"}, {}) /\ UNCHANGED <<waves, greeted, caps>>

(* Only version 0 is spoken; the capabilities of the client before are     *)
(* forgotten when a greeting is accepted.                                  *)
Greeting(r) ==
    /\ sending' = Answer(r, r.arg # "1", {})
    /\ IF r.arg # "1" THEN greeted' = TRUE /\ caps' = (r.arg = "0 loaded")
       ELSE UNCHANGED <<greeted, caps>>
    /\ UNCHANGED waves

(* handle_wcp_cs_message *)
Handle(r) ==
    CASE ~greeted /\ r.kind # "greeting" ->
             sending' = Answer(r, FALSE, {}) /\ UNCHANGED <<waves, greeted, caps>>
      [] r.kind = "greeting" -> Greeting(r)
      [] greeted /\ r.kind \in Queries -> ItemQuery(r)
      [] greeted /\ r.kind \in Adds -> AddItems(r)
      [] greeted /\ r.kind \in Views -> SetView(r)
      [] greeted /\ r.kind \in OfItem -> ChangeItem(r)
      [] greeted /\ r.kind \in {"remove_items", "clear"} -> RemoveItems(r)
      [] greeted /\ r.kind = "load" -> LoadSource(r)

-----------------------------------------------------------------------------
(* The user interface thread.  While it sends it does nothing else.        *)
Alive(s) == task[s].pc \notin {"none", "ended"}
Idle == todo = <<>> /\ sending = <<>>

(* handle_wcp_commands: everything that arrived is taken at once.          *)
TakeRequests ==
    /\ Idle /\ thread # 0 /\ c2s[thread] # <<>>
    /\ todo' = c2s[thread] /\ c2s' = [c2s EXCEPT ![thread] = <<>>]
    /\ UNCHANGED <<thread, stop, running, greeted, task, s2c, read, delivered, sending,
                   caps, waves, clients>>

HandleNext ==
    /\ sending = <<>> /\ todo # <<>>
    /\ todo' = Tail(todo) /\ Handle(Head(todo))
    /\ UNCHANGED <<thread, tasks>>

(* block_on(send): waits for room in the channel; a channel whose server   *)
(* task has ended takes nothing, and the failure is ignored.               *)
SendReply ==
    /\ sending # <<>>
    /\ IF thread \in {s \in Servers : Alive(s)}
       THEN /\ Len(s2c[thread]) < Cap
            /\ s2c' = [s2c EXCEPT ![thread] = Append(@, Head(sending))]
       ELSE UNCHANGED s2c
    /\ sending' = Tail(sending)
    /\ UNCHANGED <<thread, stop, running, greeted, task, c2s, read, delivered, todo, caps,
                   waves, clients>>

(* A waveform is loaded: a client that asked for it is told.               *)
WaveformsLoaded ==
    /\ Idle /\ waves' = <<[shown |-> {}, hidden |-> {}]>> /\ waves' # waves
    /\ sending' = IF greeted /\ caps
                  THEN <<[client |-> 0, n |-> 0, kind |-> "waveforms_loaded", ok |-> TRUE, ids |-> {}]>>
                  ELSE <<>>
    /\ UNCHANGED <<thread, tasks, greeted, todo, caps>>

(* The user folds a group: its items stay, out of sight.                   *)
Fold ==
    /\ Idle /\ Loaded
    /\ \E i \in waves[1].shown :
          waves' = <<[shown |-> waves[1].shown \ {i}, hidden |-> waves[1].hidden \cup {i}]>>
    /\ UNCHANGED <<thread, tasks, greeted, todo, sending, caps>>

(* start_wcp_server: the flags are stored before the task is spawned.      *)
StartWcpServer(initiate) ==
    /\ Idle /\ thread = 0 /\ ~running
    /\ \E s \in Servers :
          /\ task[s] = NoTask /\ \A q \in 1..(s - 1) : task[q] # NoTask
          /\ thread' = s
          /\ task' = [task EXCEPT ![s] = [NoTask EXCEPT !.pc = "starting", !.initiate = initiate]]
    /\ stop' = FALSE /\ running' = TRUE /\ greeted' = TRUE
    /\ UNCHANGED <<c2s, s2c, read, delivered, todo, sending, caps, waves, clients>>

(* A plausible slip: the handle is dropped and the task not told.          *)
Mut_StopWcpServer ==
    /\ Idle /\ thread # 0
    /\ stop' = stop /\ thread' = 0
    /\ UNCHANGED <<running, greeted, task, c2s, s2c, read, delivered, todo, sending, caps,
                   waves, clients>>

(* stop_wcp_server: the channel ends are dropped with the handle.          *)
StopWcpServer ==
    /\ Idle /\ thread # 0
    /\ stop' = TRUE /\ thread' = 0
    /\ UNCHANGED <<running, greeted, task, c2s, s2c, read, delivered, todo, sending, caps,
                   waves, clients>>

-----------------------------------------------------------------------------
(* The server task.                                                        *)
Goto(s, pc) == task' = [task EXCEPT ![s].pc = pc, ![s].client = IF pc \in {"serving", "writing"} THEN @ ELSE 0]
ui == <<thread, todo, sending, caps, waves>>
chans == <<c2s, s2c, read, delivered>>

(* WcpServer::new binds or connects; on an error the task is over and      *)
(* nothing is stored in the flags.                                         *)
Bind(s) ==
    /\ task[s].pc = "starting"
    /\ \/ ~task[s].initiate /\ Goto(s, "listening") /\ UNCHANGED clients
       \/ task[s].initiate /\ clients < MaxClients /\ clients' = clients + 1
          /\ task' = [task EXCEPT ![s].pc = "serving", ![s].client = clients + 1]
       \/ Goto(s, "ended") /\ UNCHANGED clients
    /\ UNCHANGED <<ui, chans, stop, running, greeted>>

Accept(s) ==
    /\ task[s].pc = "listening" /\ clients < MaxClients
    /\ clients' = clients + 1
    /\ task' = [task EXCEPT ![s].pc = "serving", ![s].client = clients + 1]
    /\ UNCHANGED <<ui, chans, stop, running, greeted>>

(* read_frame, then the send into the UI thread, which waits for room      *)
(* unless the UI has dropped its end.                                      *)
ReadFrame(s, command) ==
    /\ task[s].pc = "serving" /\ FoldFunction(+, 0, read) < MaxRequests
    /\ read' = [read EXCEPT ![s] = @ + 1]
    /\ task' = [task EXCEPT ![s].pc = "sending",
                            ![s].held = <<[client |-> task[s].client, n |-> read[s] + 1,
                                           kind |-> command.kind, arg |-> command.arg]>>]
    /\ UNCHANGED <<ui, c2s, s2c, delivered, stop, running, greeted, clients>>

Forward(s) ==
    /\ task[s].pc = "sending"
    /\ \/ thread = s /\ Len(c2s[s]) < Cap /\ c2s' = [c2s EXCEPT ![s] = Append(@, task[s].held[1])]
       \/ thread # s /\ UNCHANGED c2s
    /\ task' = [task EXCEPT ![s].pc = "serving", ![s].held = <<>>]
    /\ UNCHANGED <<ui, s2c, read, delivered, stop, running, greeted, clients>>

(* receiver.next, and the message is written to whoever is connected.  The *)
(* write is awaited in the arm of the select that was chosen: until it has *)
(* ended the task neither reads nor looks at the stop signal.              *)
Deliver(s) ==
    /\ task[s].pc = "serving" /\ s2c[s] # <<>>
    /\ delivered' = [delivered EXCEPT ![s] = Append(@, [to |-> task[s].client, m |-> Head(s2c[s])])]
    /\ s2c' = [s2c EXCEPT ![s] = Tail(@)]
    /\ Goto(s, "writing")
    /\ UNCHANGED <<ui, c2s, read, stop, running, greeted, clients>>

(* The write ends when the connection has room for the message, or with a  *)
(* warning when the client is gone: a client that does neither read nor    *)
(* disconnect can keep it from ending.                                     *)
EndWrite(s) ==
    /\ task[s].pc = "writing" /\ Goto(s, "serving")
    /\ UNCHANGED <<ui, chans, stop, running, greeted, clients>>

(* The connection ends: shutdown, end of file, a frame that is no message, *)
(* or the stop signal.  A listening server clears greeted and goes on to   *)
(* the next client; one that called the client is through.                 *)
Disconnect(s) ==
    /\ task[s].pc = "serving"
    /\ IF task[s].initiate THEN Goto(s, "end greeted") /\ UNCHANGED greeted
       ELSE Goto(s, "listening") /\ greeted' = FALSE
    /\ UNCHANGED <<ui, chans, stop, running, clients>>

StopSeen(s) ==
    /\ stop /\ task[s].pc \in {"listening", "serving"}
    /\ IF task[s].pc = "listening" \/ task[s].initiate
       THEN Goto(s, "end greeted") /\ UNCHANGED greeted
       ELSE Goto(s, "listening") /\ greeted' = FALSE
    /\ UNCHANGED <<ui, chans, stop, running, clients>>

(* The end of run: three stores, one after the other.                      *)
ClearGreeted(s) ==
    /\ task[s].pc = "end greeted" /\ greeted' = FALSE /\ Goto(s, "end running")
    /\ UNCHANGED <<ui, chans, stop, running, clients>>
ClearRunning(s) ==
    /\ task[s].pc = "end running" /\ running' = FALSE /\ Goto(s, "end stop")
    /\ UNCHANGED <<ui, chans, stop, greeted, clients>>
SetStop(s) ==
    /\ task[s].pc = "end stop" /\ stop' = TRUE /\ Goto(s, "ended")
    /\ UNCHANGED <<ui, chans, running, greeted, clients>>

TaskStep(s) ==
    Bind(s) \/ Forward(s) \/ StopSeen(s) \/ ClearGreeted(s) \/ ClearRunning(s) \/ SetStop(s)

Next(commands) ==
    \/ TakeRequests \/ HandleNext \/ SendReply \/ WaveformsLoaded \/ Fold \/ StopWcpServer
    \/ \E initiate \in BOOLEAN : StartWcpServer(initiate)
    \/ \E s \in Servers :
          \/ Bind(s) \/ Accept(s) \/ Forward(s) \/ Deliver(s) \/ EndWrite(s) \/ Disconnect(s)
          \/ StopSeen(s) \/ ClearGreeted(s) \/ ClearRunning(s) \/ SetStop(s)
          \/ \E command \in commands : ReadFrame(s, command)

(* The runtime keeps polling the task; the stop signal is looked at every  *)
(* 100 ms, whatever else the select has to offer.  That a write ends is up *)
(* to the client.                                                          *)
Fairness == \A s \in Servers : WF_vars(TaskStep(s)) /\ WF_vars(StopSeen(s))
ClientsRead == \A s \in Servers : WF_vars(EndWrite(s))

-----------------------------------------------------------------------------
TypeOK ==
    /\ thread \in 0..MaxServers /\ stop \in BOOLEAN /\ running \in BOOLEAN /\ greeted \in BOOLEAN
    /\ \A s \in Servers :
          /\ Len(c2s[s]) <= Cap /\ Len(s2c[s]) <= Cap
          /\ task[s].held # <<>> <=> task[s].pc = "sending"
          /\ (task[s].client = 0) = (task[s].pc \notin {"serving", "sending", "writing"})
    /\ caps \in BOOLEAN /\ clients \in 0..MaxClients

Written(s) == [i \in 1..Len(delivered[s]) |-> delivered[s][i].m]
Replies(s) == SelectSeq(Written(s) \o s2c[s] \o sending, LAMBDA m : m.kind # "waveforms_loaded")

(* Every request the server reads is answered exactly once and in order:   *)
(* while the server that the UI knows is alive, the answers written or     *)
(* being written, those queued, the requests being handled and those on    *)
(* their way are, one after the other, all requests ever read.             *)
Traffic(s) == Written(s) \o s2c[s] \o sending \o todo \o c2s[s] \o task[s].held
Numbered(all, n) ==
    LET numbered == {i \in DOMAIN all : all[i].kind # "waveforms_loaded"} IN
    /\ {all[i].n : i \in numbered} = 1..n
    /\ \A i, j \in numbered : i < j => all[i].n < all[j].n
OneReplyEach == thread # 0 /\ Alive(thread) => Numbered(Traffic(thread), read[thread])

(* wcp_server_stop: "Stop the WCP server." (docs/commands/README.md:413)   *)
(* The server that the user interface let go of ends, whatever its client, *)
(* its channels and the servers started after it do.  It does not when the *)
(* client stops reading.                                                   *)
StoppedServerEnds ==
    \A s \in Servers : (Alive(s) /\ thread # s) ~> ~Alive(s)

(* It does when every client goes on reading, or disconnects.              *)
DroppedServerEnds == ClientsRead => StoppedServerEnds

(* Greetings are required: no command of a client is carried out before a  *)
(* greeting of that client was accepted.                                   *)
GreetedFirst ==
    \A s \in {thread} \ {0} : \A i \in 1..Len(Replies(s)) :
        LET m == Replies(s)[i] IN
        m.ok /\ m.kind # "greeting"
            => \E j \in 1..(i - 1) : LET g == Replies(s)[j] IN
                  g.kind = "greeting" /\ g.ok /\ g.client = m.client

(* An answer goes to the client that asked.                                *)
AnswersGoToAsker ==
    \A s \in Servers : \A i \in 1..Len(delivered[s]) :
        delivered[s][i].m.client \in {0, delivered[s][i].to}

(* The user interface and the server task never wait for each other: one   *)
(* for room in s2c, the other for room in c2s.                             *)
NoMutualWait ==
    thread # 0 => ~(/\ sending # <<>> /\ Len(s2c[thread]) = Cap
                    /\ task[thread].pc = "sending" /\ Len(c2s[thread]) = Cap)

(* A server that was started and not stopped is not told to stop.          *)
StartedServerRuns == thread # 0 /\ Alive(thread) /\ ~task[thread].initiate => ~stop
=============================================================================
