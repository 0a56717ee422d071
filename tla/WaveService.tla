---------------------------- MODULE WaveService ----------------------------
(***************************************************************************)
(* What Surver promises the viewers that ask it for a waveform: at any     *)
(* time one version of the file is published, and an answer with signals   *)
(* or with a time table is wholly of the version published when the answer *)
(* is made.  How the loader thread, the channel and the waiting handlers   *)
(* achieve it is in Surver, which implements this specification.           *)
(***************************************************************************)
EXTENDS Naturals

CONSTANTS Handlers,   \* connections that serve one request at a time
          Versions    \* the contents the file takes over time

VARIABLES published,  \* the version served now, 0 before the first load
          answer      \* per handler, the versions its last answer is made of

serviceVars == <<published, answer>>

NoData == {}

Init == published = 0 /\ answer = [h \in Handlers |-> NoData]

\* A load or a reload of the file has finished.
Publish ==
  /\ \E v \in Versions : published' = v
  /\ UNCHANGED answer

\* A request is answered from the published version.
Answer(h) ==
  /\ published # 0
  /\ answer' = [answer EXCEPT ![h] = {published}]
  /\ UNCHANGED published

\* A handler takes its next request, or answers one without data.
Begin(h) ==
  /\ answer' = [answer EXCEPT ![h] = NoData]
  /\ UNCHANGED published

Next == Publish \/ \E h \in Handlers : Answer(h) \/ Begin(h)

Spec == Init /\ [][Next]_serviceVars
=============================================================================
