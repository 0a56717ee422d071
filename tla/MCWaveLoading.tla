--------------------------- MODULE MCWaveLoading ---------------------------
EXTENDS WaveLoading, TLC

CONSTANTS vcd, ftr, url, ftrUrl, clk, width, r1, r2

\* Load something, show one of its signals, perhaps load it again, and leave:
\* from a file, from a URL and from a server with two files; a file while a
\* server is there that offers one file; and transactions, also from a URL.
AllSetups ==
  {[script  |-> <<Load(vcd, FALSE), Add(clk), Reload, Exit>>,
    offered |-> {}],
   [script  |-> <<Load(vcd, FALSE), Exit>>,
    offered |-> {r1}],
   [script  |-> <<Load(url, FALSE), Add(clk), Reload, Exit>>,
    offered |-> {}],
   [script  |-> <<Load(Server, FALSE), Pick(r1, FALSE), Add(clk), Exit>>,
    offered |-> {r1, r2}],
   [script  |-> <<Load(ftr, FALSE), Exit>>,
    offered |-> {}],
   [script  |-> <<Load(ftrUrl, FALSE), Exit>>,
    offered |-> {}]}

\* One file, and no server.
FileSetup == {[script |-> <<Load(vcd, FALSE), Exit>>, offered |-> {}]}

\* What a worker or a server answers late changes only the waveform it was
\* asked for, its signals and its body, and no handler fails on it
\* (wave_container.rs, wellen.rs).
AnswersOfContainer == TypeOK /\ NoPanic /\ SignalsOfContainer /\ BodyOfContainer

\* No work is forgotten, and while something is loaded progress is shown, which
\* batch commands and the exit after them wait for (wave_source.rs, lib.rs).
WorkAccounted == NothingForgotten /\ ProgressCoversWork
=============================================================================
