------------------------------- MODULE Cxxrtl -------------------------------
(***************************************************************************)
(* The client of a running CXXRTL simulation (cxxrtl_container.rs,         *)
(* cxxrtl/): every piece of data the drawing code asks for is a cache that *)
(* is uncached, waiting for an answer or filled; a command is sent with a  *)
(* callback, and answers, which do not say what they answer, are matched   *)
(* with the callbacks in order.  The simulation executes commands in order *)
(* and reports pauses by itself; the two sockets and the worker between    *)
(* them are one queue in each direction.  Times are multiples of the       *)
(* 100000000 fs an unpause lets the simulation run.                        *)
(***************************************************************************)
EXTENDS Naturals, Sequences, FiniteSets

CONSTANTS Variables,    \* what may be loaded
          Unknown,      \* those of them the simulation does not know
          Refused,      \* the commands it may answer with an error
          MaxCommands,  \* commands under way; the channels hold 100
          MaxFills,     \* answers being decoded
          MaxTime

VARIABLES
    cache,          \* name -> [state, prev]: prev is <<>> or <<data>>
    loaded,         \* loaded_signals
    callbacks,      \* callback_queue
    cs, sc,         \* commands to and messages from the simulation
    values,         \* interval_query_cache: time -> variable -> whose value is there
    fills,          \* the answers whose decoding runs in the background
    connected,      \* the worker runs
    panicked,
    sim             \* the simulation: [time, mode, until, reference]

vars == <<cache, loaded, callbacks, cs, sc, values, fills, connected, panicked, sim>>

Caches == {"scopes", "items", "module", "query", "status"}
Empty == [state |-> "Uncached", prev |-> <<>>]
MakeUncached(c) == [c EXCEPT !.state = "Uncached"]
Filled(data) == [state |-> "Filled", prev |-> <<data>>]

Init ==
    /\ cache = [c \in Caches |-> Empty] /\ loaded = <<>> /\ callbacks = <<>>
    /\ cs = <<>> /\ sc = <<>> /\ values = [t \in {} |-> <<>>] /\ fills = {}
    /\ connected = TRUE /\ panicked = FALSE
    /\ sim = [time |-> 0, mode |-> "paused", until |-> 0, reference |-> <<>>]

-----------------------------------------------------------------------------
(* run_command: the callback is queued first.  Sending into the channel of *)
(* a worker that ended panics.                                             *)
Command(kind) == [kind |-> kind, arg |-> 0, signals |-> <<>>]
RunCommands(commands) ==
    /\ Len(callbacks) + Len(commands) <= MaxCommands
    /\ callbacks' = callbacks \o commands
    /\ cs' = IF connected THEN cs \o commands ELSE cs
    /\ panicked' = (panicked \/ (~connected /\ commands # <<>>))

(* fetch_if_needed: a request is made for what is uncached only, and what  *)
(* was known before is returned meanwhile.                                 *)
Needed(c) == cache[c].state = "Uncached"
(* A plausible slip: what is filled is marked as waiting too.              *)
Mut_Fetch(caches) ==
    [c \in Caches |-> IF c \in caches THEN [cache[c] EXCEPT !.state = "Waiting"] ELSE cache[c]]
Fetch(caches) ==
    [c \in Caches |-> IF c \in caches /\ Needed(c) THEN [cache[c] EXCEPT !.state = "Waiting"]
                      ELSE cache[c]]
Request(c, command) == IF Needed(c) THEN <<command>> ELSE <<>>
Known(c) == cache[c].prev # <<>>

UiIdle == ~panicked
server == <<sc, sim, connected>>

(* The hierarchy asks for the scopes and for the items of the one chosen.  *)
GetScopes ==
    /\ UiIdle /\ cache' = Fetch({"scopes"})
    /\ RunCommands(Request("scopes", Command("list_scopes")))
    /\ UNCHANGED <<loaded, values, fills, server>>
FetchItemsInModule ==
    /\ UiIdle /\ cache' = Fetch({"module"})
    /\ RunCommands(Request("module", Command("list_items of module")))
    /\ UNCHANGED <<loaded, values, fills, server>>
FetchItem ==
    /\ UiIdle /\ cache' = Fetch({"items"})
    /\ RunCommands(Request("items", Command("list_items")))
    /\ UNCHANGED <<loaded, values, fills, server>>

(* query_variable needs the simulation status first, then all items, and   *)
(* only with both asks for the samples of everything loaded.               *)
QueryVariable ==
    LET status == Request("status", Command("get_simulation_status"))
        items == Request("items", Command("list_items"))
        query == Request("query", [kind |-> "query_interval", arg |-> cache["status"].prev[1].time,
                                   signals |-> loaded]) IN
    /\ UiIdle
    /\ IF ~Known("status") THEN cache' = Fetch({"status"}) /\ RunCommands(status)
       ELSE IF ~Known("items")
       THEN cache' = Fetch({"status", "items"}) /\ RunCommands(status \o items)
       ELSE cache' = Fetch({"status", "items", "query"}) /\ RunCommands(status \o items \o query)
    /\ UNCHANGED <<loaded, values, fills, server>>

(* load_variables: the reference is sent again whatever is new in it.      *)
LoadVariables(v) ==
    LET all == IF v \in {loaded[i] : i \in DOMAIN loaded} THEN loaded ELSE Append(loaded, v) IN
    /\ UiIdle /\ loaded' = all
    /\ RunCommands(<<[Command("reference_items") EXCEPT !.signals = all]>>)
    /\ UNCHANGED <<cache, values, fills, server>>

Unpause ==
    LET from == IF Known("status") THEN cache["status"].prev[1].time ELSE 0 IN
    /\ UiIdle /\ cache' = Fetch({"status"}) /\ from < MaxTime
    /\ RunCommands(Request("status", Command("get_simulation_status"))
                   \o <<[Command("run_simulation") EXCEPT !.arg = from + 1]>>)
    /\ UNCHANGED <<loaded, values, fills, server>>

Pause ==
    /\ UiIdle /\ RunCommands(<<Command("pause_simulation")>>)
    /\ UNCHANGED <<cache, loaded, values, fills, server>>

-----------------------------------------------------------------------------
(* tick: the messages that arrived.                                        *)
(* A new status invalidates the samples and keeps them for display.        *)
StatusUpdate(status) ==
    cache' = [cache EXCEPT !["status"] = Filled(status), !["query"] = MakeUncached(@)]

Callback(cb, m) ==
    CASE cb.kind = "list_scopes" -> cache' = [cache EXCEPT !["scopes"] = Filled(TRUE)]
      [] cb.kind = "list_items" -> cache' = [cache EXCEPT !["items"] = Filled(TRUE)]
      [] cb.kind = "list_items of module" -> cache' = [cache EXCEPT !["module"] = Filled(TRUE)]
      [] cb.kind = "get_simulation_status" -> StatusUpdate([mode |-> m.mode, time |-> m.time])
      [] cb.kind = "pause_simulation" -> StatusUpdate([mode |-> "paused", time |-> m.time])
      [] cb.kind = "run_simulation" ->
             cache' = [cache EXCEPT !["status"] = Filled([mode |-> "running", time |-> 0])]
      [] cb.kind = "reference_items" -> cache' = [cache EXCEPT !["query"] = MakeUncached(@)]
      [] cb.kind = "query_interval" -> cache' = [cache EXCEPT !["query"] = Filled(cb.arg)]

(* populate: the values are decoded in a task of their own.                *)
Populate(cb, m) ==
    IF cb.kind = "query_interval"
    THEN /\ Cardinality(fills) < MaxFills
         /\ fills' = fills \cup {[variables |-> cb.signals, reference |-> m.reference, upto |-> m.time]}
    ELSE UNCHANGED fills

Respond(m) ==
    IF callbacks = <<>> THEN UNCHANGED <<cache, callbacks, fills>>
    ELSE callbacks' = Tail(callbacks) /\ Callback(Head(callbacks), m) /\ Populate(Head(callbacks), m)

(* A plausible slip: an error leaves the callback where it is.             *)
Mut_ReportError == UNCHANGED <<callbacks, cache, fills>>

(* The callback of a command that failed is dropped.                       *)
ReportError ==
    /\ callbacks' = IF callbacks = <<>> THEN <<>> ELSE Tail(callbacks)
    /\ UNCHANGED <<cache, fills>>

Tick ==
    /\ UiIdle /\ sc # <<>> /\ sc' = Tail(sc)
    /\ LET m == Head(sc) IN
       CASE m.type = "response" -> Respond(m)
         [] m.type = "error" -> ReportError
         [] m.type = "event" -> /\ StatusUpdate([mode |-> m.mode, time |-> m.time])
                                /\ UNCHANGED <<callbacks, fills>>
    /\ UNCHANGED <<loaded, cs, values, connected, panicked, sim>>

(* fill_variable_values: word i of a sample is taken for variable i of the *)
(* list the request was made with.  A variable nobody knows the width of,  *)
(* or more variables than words, ends the task.                            *)
Fill(f) ==
    /\ f \in fills /\ fills' = fills \ {f}
    /\ values' = IF \/ \E i \in DOMAIN f.variables : f.variables[i] \in Unknown
                    \/ Len(f.variables) > Len(f.reference)
                 THEN values
                 ELSE [t \in DOMAIN values \cup 0..f.upto |->
                          IF t > f.upto THEN values[t]
                          ELSE [v \in {f.variables[i] : i \in DOMAIN f.variables} |->
                                   f.reference[CHOOSE i \in DOMAIN f.variables : f.variables[i] = v]]]
    /\ UNCHANGED <<cache, loaded, callbacks, cs, sc, connected, panicked, sim>>

(* query: the sample before the time asked for.                            *)
Query(v, time) ==
    LET before == {t \in DOMAIN values : t < time} IN
    IF before = {} THEN <<>>
    ELSE LET last == CHOOSE t \in before : \A u \in before : u <= t IN
         IF v \in DOMAIN values[last] THEN <<[time |-> last, of |-> values[last][v]]>> ELSE <<>>

-----------------------------------------------------------------------------
(* The simulation, behind the socket.                                      *)
Message(type, kind) == [type |-> type, kind |-> kind, mode |-> sim.mode, time |-> sim.time,
                        reference |-> sim.reference]
ExecuteCommand(ok) ==
    /\ connected /\ cs # <<>> /\ cs' = Tail(cs)
    /\ LET c == Head(cs) IN
       /\ ok = FALSE => c.kind \in Refused
       /\ c.kind = "reference_items" /\ ok => {c.signals[i] : i \in DOMAIN c.signals} \cap Unknown = {}
       /\ sim' = IF ~ok THEN sim
                 ELSE IF c.kind = "reference_items" THEN [sim EXCEPT !.reference = c.signals]
                 ELSE IF c.kind = "run_simulation" THEN [sim EXCEPT !.mode = "running", !.until = c.arg]
                 ELSE IF c.kind = "pause_simulation" THEN [sim EXCEPT !.mode = "paused"]
                 ELSE sim
       /\ sc' = Append(sc, IF ~ok THEN Message("error", c.kind)
                           ELSE IF c.kind = "query_interval" /\ c.arg < sim.time
                           THEN [Message("response", c.kind) EXCEPT !.time = c.arg]
                           ELSE Message("response", c.kind))
    /\ UNCHANGED <<cache, loaded, callbacks, values, fills, connected, panicked>>

(* It ran as far as it was told, or to its end.                            *)
SimulationPaused(mode) ==
    /\ connected /\ sim.mode = "running" /\ Len(sc) < MaxCommands
    /\ LET t == IF sim.until > sim.time THEN sim.until ELSE sim.time IN
       /\ sim' = [sim EXCEPT !.mode = mode, !.time = t]
       /\ sc' = Append(sc, [Message("event", "event") EXCEPT !.mode = mode, !.time = t])
    /\ UNCHANGED <<cache, loaded, callbacks, cs, values, fills, connected, panicked>>

(* A read error ends the worker and drops what is on the way.              *)
Disconnect ==
    /\ connected /\ connected' = FALSE /\ cs' = <<>>
    /\ UNCHANGED <<cache, loaded, callbacks, sc, values, fills, panicked, sim>>

UiNext ==
    \/ GetScopes \/ FetchItemsInModule \/ FetchItem \/ QueryVariable \/ Unpause \/ Pause
    \/ \E v \in Variables : LoadVariables(v)

OtherNext ==
    \/ Tick
    \/ \E f \in fills : Fill(f)
    \/ \E ok \in BOOLEAN : ExecuteCommand(ok)
    \/ \E mode \in {"paused", "finished"} : SimulationPaused(mode)
    \/ Disconnect

(* The frame loop ticks on, decoding tasks run, the simulation answers.    *)
Fairness == WF_vars(Tick) /\ WF_vars(\E f \in fills : Fill(f)) /\ WF_vars(ExecuteCommand(TRUE))
Spec == Init /\ [][UiNext \/ OtherNext]_vars /\ Fairness

-----------------------------------------------------------------------------
TypeOK ==
    /\ DOMAIN cache = Caches
    /\ \A c \in Caches : /\ cache[c].state \in {"Uncached", "Waiting", "Filled"}
                         /\ Len(cache[c].prev) <= 1
                         /\ cache[c].state = "Filled" => Known(c)
    /\ Len(callbacks) <= MaxCommands /\ Cardinality(fills) <= MaxFills

(* Answers say nothing of what they answer: they reach the callback of     *)
(* their command because the callbacks waiting are, in order, those of the *)
(* answers that arrived and of the commands under way.  place says where   *)
(* in the queues each callback has its answer or its command.              *)
Queue == sc \o cs
Answers == {i \in DOMAIN Queue : i > Len(sc) \/ sc[i].type # "event"}
Matches(place, n) ==
    /\ {place[k] : k \in 1..n} = Answers
    /\ \A k \in 1..n : /\ Queue[place[k]].kind = callbacks[k].kind
                       /\ \A l \in 1..(k - 1) : place[l] < place[k]
AnswersMeetCallbacks ==
    connected => \E place \in [1..Len(callbacks) -> Answers] : Matches(place, Len(callbacks))

(* What is waited for arrives, as long as the command is not refused and   *)
(* the connection lasts.                                                   *)
AnswerArrives ==
    \A c \in {"scopes", "items", "module", "status"} :
        cache[c].state = "Waiting" ~> (cache[c].state = "Filled" \/ ~connected \/ panicked)

(* A sample shows every variable the value of that variable.               *)
ValuesOfTheirVariable ==
    \A t \in DOMAIN values : \A v \in DOMAIN values[t] : values[t][v] = v

(* What is waited for has been asked for.                                  *)
WaitingWasAsked ==
    \A c \in {"scopes", "items", "module"} :
        cache[c].state = "Waiting"
            => \E i \in DOMAIN callbacks :
                  callbacks[i].kind = CASE c = "scopes" -> "list_scopes" [] c = "items" -> "list_items"
                                        [] c = "module" -> "list_items of module"

(* A filled cache is up to date: the samples reach to the time the         *)
(* simulation is known to be paused at.                                    *)
FilledIsUpToDate ==
    cache["query"].state = "Filled" /\ Known("status") /\ cache["status"].prev[1].mode # "running"
        => cache["query"].prev[1] = cache["status"].prev[1].time

(* When everything is up to date and nothing is being decoded, all samples *)
(* have all loaded variables.                                              *)
AllLoadedShown ==
    cache["query"].state = "Filled" /\ fills = {} /\ callbacks = <<>>
        => \A t \in DOMAIN values : {loaded[i] : i \in DOMAIN loaded} \subseteq DOMAIN values[t]

(* A lost connection does not take the program down.                       *)
NoPanic == ~panicked
=============================================================================
