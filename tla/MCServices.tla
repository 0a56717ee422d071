----------------------------- MODULE MCServices -----------------------------
(***************************************************************************)
(* The parts of the program that talk to a task, a thread or another       *)
(* program, each by itself: the waveform server, the background builds of  *)
(* analog caches, the waveform control protocol and the client of a        *)
(* running simulation.  A behaviour is a behaviour of one part; the state  *)
(* of the others stays as it is.                                           *)
(***************************************************************************)
EXTENDS Naturals, FiniteSets

CONSTANTS Parts,                          \* the parts explored
          Handlers, Signals,              \* of the server
          MaxVersion, Broken, NoTimes,
          ServerRequests,                 \* bound: requests the server takes
          Rows, Translators,              \* of the analog caches
          MaxEntries, MaxWaves,
          Variables,                      \* of the protocol and the simulation
          Cap,                            \* of the protocol
          MaxServers, MaxClients, MaxRequests, MaxItems,
          Unknown, Refused,               \* of the simulation
          MaxCommands, MaxFills, MaxTime,
          AnalogSteps,                    \* bound: steps of the analog caches
          CxxrtlSteps                     \* bound: calls of the drawing code

VARIABLES part, left,
  disk, info, chan, loader, handler, requests,
  row, entries, wave, generation, inflight, waveLoaded, building, results, drawRequests,
  thread, stop, running, greeted, task, c2s, s2c, read, delivered, todo, sending, caps, waves,
  clients,
  cache, loaded, callbacks, cs, sc, values, fills, connected, panicked, sim

serverVars == <<disk, info, chan, loader, handler, requests>>
analogVars == <<row, entries, wave, generation, inflight, waveLoaded, building, results,
                drawRequests>>
protocolVars == <<thread, stop, running, greeted, task, c2s, s2c, read, delivered, todo,
                  sending, caps, waves, clients>>
cxxrtlVars == <<cache, loaded, callbacks, cs, sc, values, fills, connected, panicked, sim>>
vars == <<part, left, serverVars, analogVars, protocolVars, cxxrtlVars>>

server   == INSTANCE Surver WITH MaxRequests <- ServerRequests
analog   == INSTANCE AnalogCache WITH loaded <- waveLoaded, requests <- drawRequests
protocol == INSTANCE Wcp
cxxrtl   == INSTANCE Cxxrtl

\* What a client of the protocol sends.
ClientCommands ==
  {[kind |-> "greeting", arg |-> "0 loaded"], [kind |-> "get_item_info", arg |-> {1}],
   [kind |-> "add_markers", arg |-> 1]}

Init ==
  /\ part \in Parts
  /\ left = CASE part = "analog" -> AnalogSteps [] part = "cxxrtl" -> CxxrtlSteps [] OTHER -> 0
  /\ server!Init /\ analog!Init /\ protocol!Init /\ cxxrtl!Init
  \* the first formats of the rows matter to their own part only
  /\ part # "analog" => \A r \in Rows : row[r].format = CHOOSE f \in Translators : TRUE

ServerStep ==
  /\ part = "server" /\ server!Next
  /\ UNCHANGED <<part, left, analogVars, protocolVars, cxxrtlVars>>
AnalogStep ==
  /\ part = "analog" /\ left > 0 /\ left' = left - 1 /\ analog!Next
  /\ UNCHANGED <<part, serverVars, protocolVars, cxxrtlVars>>
ProtocolStep ==
  /\ part = "protocol" /\ protocol!Next(ClientCommands)
  /\ UNCHANGED <<part, left, serverVars, analogVars, cxxrtlVars>>
CxxrtlStep ==
  /\ part = "cxxrtl"
  /\ \/ left > 0 /\ left' = left - 1 /\ cxxrtl!UiNext
     \/ cxxrtl!OtherNext /\ UNCHANGED left
  /\ UNCHANGED <<part, serverVars, analogVars, protocolVars>>

Next == ServerStep \/ AnalogStep \/ ProtocolStep \/ CxxrtlStep

\* The fairness of each part, while it is the one that is explored.
Fairness ==
  /\ WF_serverVars(part = "server" /\ server!Load)
  /\ \A h \in Handlers : WF_serverVars(part = "server" /\ server!Serve(h))
  /\ \A s \in protocol!Servers :
        /\ WF_protocolVars(part = "protocol" /\ protocol!TaskStep(s))
        /\ WF_protocolVars(part = "protocol" /\ protocol!StopSeen(s))
  /\ WF_cxxrtlVars(part = "cxxrtl" /\ cxxrtl!Tick)
  /\ WF_cxxrtlVars(part = "cxxrtl" /\ \E f \in fills : cxxrtl!Fill(f))
  /\ WF_cxxrtlVars(part = "cxxrtl" /\ cxxrtl!ExecuteCommand(TRUE))

Spec == Init /\ [][Next]_vars /\ Fairness
-----------------------------------------------------------------------------
\* The server behind the viewers does what WaveService promises: one version is
\* published at a time and no answer mixes two.
ImplementsWaveService == []server!TypeOK /\ server!ImplementsWaveService

\* An accepted reload ends, unless the loader thread ended (server.rs).
ReloadEnds == server!ReloadEnds

\* One cache entry per signal and translator is shown, and it is one of the
\* waveform that is shown (wave_data.rs).
EntriesKept == analog!TypeOK /\ analog!OneEntryPerKey /\ analog!EntriesOfThisWave

\* Every request a client sends is answered once, in order (wcp_handler.rs).
OneReplyEach == protocol!TypeOK /\ protocol!OneReplyEach

\* A protocol server that the user interface let go of ends, while the clients
\* read what they are sent or disconnect (wcp_server.rs).
DroppedServerEnds == protocol!DroppedServerEnds

\* The answers of the simulation reach the callbacks of their commands, what is
\* waited for was asked for, and a sample gives every variable its own value
\* (cxxrtl_container.rs).
AnswersMatched ==
  cxxrtl!TypeOK /\ cxxrtl!AnswersMeetCallbacks /\ cxxrtl!WaitingWasAsked /\ cxxrtl!ValuesOfTheirVariable

\* What the simulation is asked for arrives while the connection lasts.
AnswerArrives == cxxrtl!AnswerArrives
=============================================================================
