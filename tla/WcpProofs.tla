------------------------------- MODULE WcpProofs -------------------------------
(***************************************************************************)
(* Every request is answered once and in order, for any number of servers, *)
(* clients and requests, any capacity of the channels and any commands the *)
(* handler knows.                                                          *)
(*                                                                         *)
(* The property is inductive with the types, with what the task holds in   *)
(* each of its states, and with this: a server that was never started has  *)
(* read nothing and has nothing in its channels.  What the user interface  *)
(* does moves the requests and answers of its server along the chain of    *)
(* queues, puts an answer in the place of its request or puts a report     *)
(* that answers nothing between them.                                      *)
(***************************************************************************)
EXTENDS Wcp, SequenceTheorems, TLAPS

CONSTANT Sent   \* what the clients send

\* The commands handle_wcp_cs_message has a branch for.
Kinds == {"greeting", "load", "remove_items", "clear"} \cup Queries \cup Adds \cup Views \cup OfItem
CommandsKnown == \A command \in Sent : command.kind \in Kinds

BoundsNat == /\ Cap \in Nat /\ MaxServers \in Nat /\ MaxClients \in Nat /\ MaxItems \in Nat

Spec == Init /\ [][Next(Sent)]_vars

-----------------------------------------------------------------------------
(* The inductive invariant *)

Report == "waveforms_loaded"
Pcs == {"none", "starting", "listening", "serving", "sending", "writing", "end greeted", "end running",
        "end stop", "ended"}
Request == [client : Nat, n : Nat, kind : Kinds, arg : {command.arg : command \in Sent}]
Reply == [client : Nat, n : Nat, kind : Kinds \cup {Report}, ok : BOOLEAN, ids : SUBSET Ids]
Item == Request \cup Reply
Written1 == [to : Nat, m : Reply]
TaskType == [pc : Pcs, initiate : BOOLEAN, client : Nat, held : Seq(Request)]
WaveType == [shown : SUBSET Ids, hidden : SUBSET Ids]

TypesOfChannels ==
  /\ c2s \in [Servers -> Seq(Request)] /\ s2c \in [Servers -> Seq(Reply)]
  /\ read \in [Servers -> Nat] /\ delivered \in [Servers -> Seq(Written1)]
TypesOfUi ==
  /\ thread \in 0..MaxServers /\ caps \in BOOLEAN
  /\ todo \in Seq(Request) /\ sending \in Seq(Reply) /\ waves \in Seq(WaveType)
TypesOfFlags ==
  /\ stop \in BOOLEAN /\ running \in BOOLEAN /\ greeted \in BOOLEAN
  /\ clients \in 0..MaxClients

\* A task holds the one request it is about to forward, and knows its client
\* while it serves it.
TaskSound(t) ==
  /\ t.held # <<>> <=> t.pc = "sending"
  /\ Len(t.held) <= 1
  /\ (t.client = 0) <=> (t.pc \notin {"serving", "sending", "writing"})

TasksSound == task \in [Servers -> TaskType] /\ \A s \in Servers : TaskSound(task[s])
WithinCap == \A s \in Servers : Len(c2s[s]) <= Cap /\ Len(s2c[s]) <= Cap

\* A server that was not started has read nothing, and nothing is on its way.
NotStarted ==
  \A s \in Servers : task[s].pc = "none"
    => c2s[s] = <<>> /\ s2c[s] = <<>> /\ delivered[s] = <<>> /\ read[s] = 0

IInv ==
  /\ TypesOfChannels /\ TypesOfUi /\ TypesOfFlags
  /\ TasksSound /\ WithinCap /\ NotStarted
  /\ OneReplyEach

-----------------------------------------------------------------------------
(* Messages in order *)

\* What comes from one queue goes to the end of the queue before it.
LEMMA Moved ==
  ASSUME NEW S, NEW s \in Seq(S), NEW t \in Seq(S), t # <<>>
  PROVE  /\ Head(t) \in S /\ Tail(t) \in Seq(S) /\ Append(s, Head(t)) \in Seq(S)
         /\ Append(s, Head(t)) \o Tail(t) = s \o t
<1>1. Head(t) \in S /\ Tail(t) \in Seq(S)
  OBVIOUS
<1>2. PICK x \in S, rest \in Seq(S) : x = Head(t) /\ rest = Tail(t)
  BY <1>1
<1>3. t = <<x>> \o rest
  BY <1>2
<1>4. Append(s, x) = s \o <<x>> /\ <<x>> \in Seq(S)
  BY AppendIsConcat
<1>5. (s \o <<x>>) \o rest = s \o (<<x>> \o rest)
  BY <1>4, ConcatAssociative
<1>6. s \o <<x>> \in Seq(S)
  BY <1>4
<1>7. QED
  BY <1>1, <1>2, <1>3, <1>4, <1>5, <1>6

\* One message in the place of another with its number.
LEMMA NumberedReplaced ==
  ASSUME NEW S, NEW u \in Seq(S), NEW v \in Seq(S), NEW x \in S, NEW y \in S, NEW n \in Nat,
         y.n = x.n, y.kind = x.kind, Numbered((u \o <<x>>) \o v, n)
  PROVE  Numbered((u \o <<y>>) \o v, n)
<1>1. PICK a \in Nat : a = Len(u)
  OBVIOUS
<1>2. PICK b \in Nat : b = Len(v)
  OBVIOUS
<1>3. PICK q, r : q = (u \o <<x>>) \o v /\ r = (u \o <<y>>) \o v
  OBVIOUS
<1>4. ASSUME NEW z \in S, NEW o, o = (u \o <<z>>) \o v
      PROVE  /\ DOMAIN o = 1..(a + 1 + b)
             /\ \A i \in 1..(a + 1 + b) :
                  o[i] = IF i <= a THEN u[i] ELSE IF i = a + 1 THEN z ELSE v[i - (a + 1)]
  BY <1>1, <1>2, <1>4
<1>5. \A i \in 1..(a + 1 + b) : r[i].n = q[i].n /\ r[i].kind = q[i].kind
  <2>1. \A i \in 1..(a + 1 + b) :
          q[i] = IF i <= a THEN u[i] ELSE IF i = a + 1 THEN x ELSE v[i - (a + 1)]
    BY <1>3, <1>4
  <2>2. \A i \in 1..(a + 1 + b) :
          r[i] = IF i <= a THEN u[i] ELSE IF i = a + 1 THEN y ELSE v[i - (a + 1)]
    BY <1>3, <1>4
  <2>3. \A i \in 1..(a + 1 + b) : r[i] = q[i] \/ (r[i] = y /\ q[i] = x)
    BY <2>1, <2>2
  <2>4. QED
    BY <2>3
<1>6. PICK D : D = 1..(a + 1 + b)
  OBVIOUS
<1>7. /\ DOMAIN q = D /\ DOMAIN r = D
      /\ \A i \in D : r[i].n = q[i].n /\ r[i].kind = q[i].kind
  BY <1>3, <1>4, <1>5, <1>6
<1>8. PICK P : P = {i \in DOMAIN q : q[i].kind # "waveforms_loaded"}
  OBVIOUS
<1>9. /\ P = {i \in DOMAIN r : r[i].kind # "waveforms_loaded"}
      /\ \A i \in P : r[i].n = q[i].n
  BY <1>7, <1>8
<1>10. /\ {q[i].n : i \in P} = 1..n
       /\ \A i, j \in P : i < j => q[i].n < q[j].n
  BY <1>3, <1>8 DEF Numbered
<1>11. {r[i].n : i \in P} = {q[i].n : i \in P}
  BY <1>9
<1>12. \A i, j \in P : i < j => r[i].n < r[j].n
  BY <1>9, <1>10
<1>13. Numbered(r, n)
  BY <1>9, <1>10, <1>11, <1>12 DEF Numbered
<1>14. QED
  BY <1>3, <1>13

\* A report between the others.
LEMMA NumberedInserted ==
  ASSUME NEW S, NEW u \in Seq(S), NEW v \in Seq(S), NEW x \in S, NEW n \in Nat,
         x.kind = Report, Numbered(u \o v, n)
  PROVE  Numbered((u \o <<x>>) \o v, n)
<1>1. PICK a \in Nat : a = Len(u)
  OBVIOUS
<1>2. PICK b \in Nat : b = Len(v)
  OBVIOUS
<1>3. PICK q, r : q = u \o v /\ r = (u \o <<x>>) \o v
  OBVIOUS
<1>4. /\ DOMAIN q = 1..(a + b) /\ DOMAIN r = 1..(a + 1 + b)
      /\ \A i \in 1..(a + b) : q[i] = IF i <= a THEN u[i] ELSE v[i - a]
      /\ \A i \in 1..(a + 1 + b) :
           r[i] = IF i <= a THEN u[i] ELSE IF i = a + 1 THEN x ELSE v[i - (a + 1)]
  BY <1>1, <1>2, <1>3
<1>5. PICK P, Q : /\ P = {i \in DOMAIN q : q[i].kind # "waveforms_loaded"}
                  /\ Q = {i \in DOMAIN r : r[i].kind # "waveforms_loaded"}
  OBVIOUS
<1>6. /\ {q[i].n : i \in P} = 1..n
      /\ \A i, j \in P : i < j => q[i].n < q[j].n
  BY <1>3, <1>5 DEF Numbered
<1>7. PICK f : f = [i \in 1..(a + 1 + b) |-> IF i <= a THEN i ELSE i - 1]
  OBVIOUS
<1>8. \A i \in Q : i \in 1..(a + 1 + b) /\ i # a + 1
  BY <1>4, <1>5 DEF Report
<1>9. ASSUME NEW i \in Q
      PROVE  f[i] \in P /\ r[i] = q[f[i]]
  <2>1. i \in 1..(a + 1 + b) /\ i # a + 1 /\ r[i].kind # "waveforms_loaded"
    BY <1>5, <1>8
  <2>2. CASE i <= a
    <3>1. f[i] = i /\ i \in 1..(a + b) /\ r[i] = u[i] /\ q[i] = u[i]
      BY <1>4, <1>7, <2>1, <2>2
    <3>2. QED
      BY <1>4, <1>5, <2>1, <3>1
  <2>3. CASE ~(i <= a)
    <3>1. PICK k : k = i - 1
      OBVIOUS
    <3>2. /\ f[i] = k /\ k \in 1..(a + b) /\ ~(k <= a) /\ k - a = i - (a + 1)
      BY <1>7, <2>1, <2>3, <3>1
    <3>3. r[i] = v[i - (a + 1)] /\ q[k] = v[k - a]
      BY <1>4, <2>1, <2>3, <3>2
    <3>4. QED
      BY <1>4, <1>5, <2>1, <3>2, <3>3
  <2>4. QED
    BY <2>2, <2>3
<1>10. ASSUME NEW k \in P
       PROVE  \E i \in Q : f[i] = k
  <2>1. k \in 1..(a + b) /\ q[k].kind # "waveforms_loaded"
    BY <1>4, <1>5
  <2>2. CASE k <= a
    <3>1. k \in 1..(a + 1 + b) /\ f[k] = k /\ r[k] = u[k] /\ q[k] = u[k]
      BY <1>4, <1>7, <2>1, <2>2
    <3>2. QED
      BY <1>4, <1>5, <2>1, <3>1
  <2>3. CASE ~(k <= a)
    <3>1. PICK i : i = k + 1
      OBVIOUS
    <3>2. /\ i \in 1..(a + 1 + b) /\ f[i] = k /\ ~(i <= a) /\ i # a + 1 /\ k - a = i - (a + 1)
      BY <1>7, <2>1, <2>3, <3>1
    <3>3. r[i] = v[i - (a + 1)] /\ q[k] = v[k - a]
      BY <1>4, <2>1, <2>3, <3>2
    <3>4. i \in DOMAIN r
      BY <1>4, <3>2
    <3>5. r[i] = q[k]
      BY <3>2, <3>3
    <3>6. i \in Q
      BY <1>5, <2>1, <3>4, <3>5
    <3>7. QED
      BY <3>2, <3>6
  <2>4. QED
    BY <2>2, <2>3
<1>11. \A i, j \in Q : i < j => f[i] < f[j]
  BY <1>7, <1>8
<1>12. {r[i].n : i \in Q} = {q[i].n : i \in P}
  BY <1>9, <1>10
<1>13. \A i, j \in Q : i < j => r[i].n < r[j].n
  BY <1>6, <1>9, <1>11
<1>14. Numbered(r, n)
  BY <1>5, <1>6, <1>12, <1>13 DEF Numbered
<1>15. QED
  BY <1>3, <1>14

\* The next request comes last.
LEMMA NumberedMore ==
  ASSUME NEW S, NEW u \in Seq(S), NEW x \in S, NEW n \in Nat,
         x.kind # Report, x.n = n + 1, Numbered(u, n)
  PROVE  Numbered(u \o <<x>>, n + 1)
<1>1. PICK a \in Nat : a = Len(u)
  OBVIOUS
<1>2. PICK r : r = u \o <<x>>
  OBVIOUS
<1>3. /\ DOMAIN u = 1..a /\ DOMAIN r = 1..(a + 1)
      /\ \A i \in 1..a : r[i] = u[i] /\ i \in 1..(a + 1) /\ i < a + 1
      /\ r[a + 1] = x /\ a + 1 \in 1..(a + 1)
      /\ \A i \in 1..(a + 1) : i \in 1..a \/ i = a + 1
  BY <1>1, <1>2
<1>4. PICK P, Q : /\ P = {i \in DOMAIN u : u[i].kind # "waveforms_loaded"}
                  /\ Q = {i \in DOMAIN r : r[i].kind # "waveforms_loaded"}
  OBVIOUS
<1>5. /\ {u[i].n : i \in P} = 1..n
      /\ \A i, j \in P : i < j => u[i].n < u[j].n
  BY <1>4 DEF Numbered
<1>6. \A i : i \in Q <=> i \in P \/ i = a + 1
  BY <1>3, <1>4 DEF Report
<1>7. \A i \in P : i \in 1..a /\ r[i] = u[i] /\ u[i].n \in 1..n
  BY <1>3, <1>4, <1>5
<1>8. {r[i].n : i \in Q} = 1..(n + 1)
  <2>1. \A i \in Q : r[i].n \in 1..(n + 1)
    BY <1>3, <1>6, <1>7
  <2>2. ASSUME NEW k \in 1..(n + 1)
        PROVE  \E i \in Q : r[i].n = k
    <3>1. CASE k = n + 1
      BY <1>3, <1>6, <3>1
    <3>2. CASE k # n + 1
      <4>1. k \in 1..n
        BY <3>2
      <4>2. PICK i \in P : u[i].n = k
        BY <1>5, <4>1
      <4>3. QED
        BY <1>6, <1>7, <4>2
    <3>3. QED
      BY <3>1, <3>2
  <2>3. QED
    BY <2>1, <2>2
<1>9. ASSUME NEW i \in Q, NEW j \in Q, i < j
      PROVE  r[i].n < r[j].n
  <2>1. i \in 1..(a + 1) /\ j \in 1..(a + 1)
    BY <1>3, <1>6, <1>7
  <2>2. i \in P
    BY <1>6, <1>9, <2>1
  <2>3. CASE j \in P
    BY <1>5, <1>7, <1>9, <2>2, <2>3
  <2>4. CASE j = a + 1
    BY <1>3, <1>7, <2>2, <2>4
  <2>5. QED
    BY <1>6, <2>3, <2>4
<1>10. Numbered(r, n + 1)
  BY <1>4, <1>8, <1>9 DEF Numbered
<1>11. QED
  BY <1>2, <1>10

-----------------------------------------------------------------------------
(* The chain of queues, from what the clients got to what the task holds *)

\* An instance of associativity, kept whole until it is needed.
AssociativeAt(p, q, r) == (p \o q) \o r = p \o (q \o r)

\* Concatenation stays among the sequences of a set, and is associative.
LEMMA Joined ==
  ASSUME NEW S
  PROVE  /\ \A p, q \in Seq(S) : p \o q \in Seq(S)
         /\ \A p, q, r \in Seq(S) : AssociativeAt(p, q, r)
<1>1. \A p, q \in Seq(S) : p \o q \in Seq(S)
  OBVIOUS
<1>2. ASSUME NEW p \in Seq(S), NEW q \in Seq(S), NEW r \in Seq(S)
      PROVE  AssociativeAt(p, q, r)
  BY ConcatAssociative DEF AssociativeAt
<1>3. QED
  BY <1>1, <1>2

Chain(w, a, b, c, d, e) == ((((w \o a) \o b) \o c) \o d) \o e

\* The user interface takes what arrived.
LEMMA ChainTaken ==
  ASSUME NEW S, NEW w \in Seq(S), NEW a \in Seq(S), NEW d \in Seq(S), NEW e \in Seq(S)
  PROVE  Chain(w, a, <<>>, d, <<>>, e) = Chain(w, a, <<>>, <<>>, d, e)
<1>1. PICK u \in Seq(S) : u = w \o a
  BY Joined
<1>2. u \o <<>> = u /\ u \o d \in Seq(S)
  BY ConcatEmptySeq
<1>3. (u \o d) \o <<>> = u \o d
  BY <1>2, ConcatEmptySeq
<1>4. QED
  BY <1>1, <1>2, <1>3 DEF Chain

\* A request, or its answer in the queue before, between u and the rest.
SplitAt(u, x, rest, d, e) ==
  /\ ((u \o (<<x>> \o rest)) \o d) \o e = (u \o <<x>>) \o ((rest \o d) \o e)
  /\ (((u \o <<x>>) \o rest) \o d) \o e = (u \o <<x>>) \o ((rest \o d) \o e)

\* The chain is what stands before the first request, that one, and the rest.
LEMMA ChainSplit ==
  ASSUME NEW S, NEW u \in Seq(S), NEW x \in S, NEW rest \in Seq(S), NEW d \in Seq(S), NEW e \in Seq(S)
  PROVE  SplitAt(u, x, rest, d, e)
<1>1. <<x>> \in Seq(S)
  OBVIOUS
<1>2. u \o <<x>> \in Seq(S) /\ rest \o d \in Seq(S)
  BY <1>1, Joined, Zenon
<1>3. AssociativeAt(u, <<x>>, rest)
  BY <1>1, Joined, Zenon
<1>4. AssociativeAt(u \o <<x>>, rest, d) /\ AssociativeAt(u \o <<x>>, rest \o d, e)
  BY <1>2, Joined, Zenon
<1>5. PICK one, p, q : one = <<x>> /\ p = u \o one /\ q = rest \o d
  OBVIOUS
<1>6. /\ p \o rest = u \o (one \o rest) /\ (p \o rest) \o d = p \o q /\ (p \o q) \o e = p \o (q \o e)
  BY <1>3, <1>4, <1>5, Zenon DEF AssociativeAt
<1>7. QED
  BY <1>5, <1>6, Zenon DEF SplitAt

\* Messages of S at every link of the chain, c waiting for an answer.
Links(S, w, a, c, d, e) ==
  /\ w \in Seq(S) /\ a \in Seq(S) /\ d \in Seq(S) /\ e \in Seq(S)
  /\ c \in Seq(S) /\ c # <<>>

\* It answers the first request.
LEMMA ChainHandled ==
  ASSUME NEW S, NEW w, NEW a, NEW c, NEW d, NEW e, Links(S, w, a, c, d, e),
         NEW x \in S, NEW n \in Nat, x.n = Head(c).n, x.kind = Head(c).kind,
         Numbered(Chain(w, a, <<>>, c, d, e), n)
  PROVE  Numbered(Chain(w, a, <<x>>, Tail(c), d, e), n)
<1>0. /\ w \in Seq(S) /\ a \in Seq(S) /\ d \in Seq(S) /\ e \in Seq(S)
      /\ c \in Seq(S) /\ c # <<>>
  BY DEF Links
<1>1. PICK u \in Seq(S) : u = w \o a
  BY <1>0, Joined
<1>2. Head(c) \in S /\ Tail(c) \in Seq(S)
  BY <1>0
<1>3. PICK h \in S, rest \in Seq(S) : h = Head(c) /\ rest = Tail(c)
  BY <1>2
<1>4. c = <<h>> \o rest /\ u \o <<>> = u
  BY <1>3
<1>5. PICK v \in Seq(S) : v = (rest \o d) \o e
  <2>1. rest \o d \in Seq(S)
    BY <1>0, Joined, Zenon
  <2>2. (rest \o d) \o e \in Seq(S)
    BY <1>0, <2>1, Joined, Zenon
  <2>3. QED
    BY <2>2
<1>6. SplitAt(u, h, rest, d, e) /\ SplitAt(u, x, rest, d, e)
  BY <1>0, ChainSplit, Zenon
<1>7. /\ ((u \o (<<h>> \o rest)) \o d) \o e = (u \o <<h>>) \o v
      /\ (((u \o <<x>>) \o rest) \o d) \o e = (u \o <<x>>) \o v
  BY <1>5, <1>6, Zenon DEF SplitAt
<1>8. Chain(w, a, <<>>, c, d, e) = (u \o <<h>>) \o v
  BY <1>1, <1>4, <1>7, Zenon DEF Chain
<1>9. Chain(w, a, <<x>>, rest, d, e) = (u \o <<x>>) \o v
  BY <1>1, <1>7, Zenon DEF Chain
<1>10. Numbered((u \o <<h>>) \o v, n) /\ x.n = h.n /\ x.kind = h.kind
  BY <1>3, <1>8, Zenon
<1>11. Numbered((u \o <<x>>) \o v, n)
  BY <1>10, NumberedReplaced
<1>12. QED
  BY <1>3, <1>9, <1>11, Zenon

\* It reports what nobody asked for.
LEMMA ChainReported ==
  ASSUME NEW S, NEW w \in Seq(S), NEW a \in Seq(S), NEW d \in Seq(S), NEW e \in Seq(S),
         NEW x \in S, NEW n \in Nat, x.kind = Report, Numbered(Chain(w, a, <<>>, <<>>, d, e), n)
  PROVE  Numbered(Chain(w, a, <<x>>, <<>>, d, e), n)
<1>1. PICK u \in Seq(S), v \in Seq(S) : u = w \o a /\ v = d \o e
  BY Joined, Zenon
<1>2. /\ <<x>> \in Seq(S) /\ u \o <<x>> \in Seq(S) /\ u \o <<>> = u
      /\ (u \o <<x>>) \o <<>> = u \o <<x>>
  OBVIOUS
<1>3. (u \o d) \o e = u \o v /\ ((u \o <<x>>) \o d) \o e = (u \o <<x>>) \o v
  <2>1. ASSUME NEW p \in Seq(S)
        PROVE  (p \o d) \o e = p \o v
    <3>1. AssociativeAt(p, d, e)
      BY Joined, Zenon
    <3>2. QED
      BY <1>1, <3>1, Zenon DEF AssociativeAt
  <2>2. QED
    BY <1>2, <2>1
<1>4. Chain(w, a, <<>>, <<>>, d, e) = u \o v /\ Chain(w, a, <<x>>, <<>>, d, e) = (u \o <<x>>) \o v
  BY <1>1, <1>2, <1>3 DEF Chain
<1>5. QED
  BY <1>4, NumberedInserted

\* It sends an answer into the channel.
LEMMA ChainSent ==
  ASSUME NEW S, NEW w \in Seq(S), NEW a \in Seq(S), NEW b \in Seq(S), NEW c, NEW d, NEW e, b # <<>>
  PROVE  Chain(w, Append(a, Head(b)), Tail(b), c, d, e) = Chain(w, a, b, c, d, e)
<1>1. /\ Tail(b) \in Seq(S) /\ Append(a, Head(b)) \in Seq(S)
      /\ Append(a, Head(b)) \o Tail(b) = a \o b
  BY Moved
<1>2. PICK x \in Seq(S), rest \in Seq(S) : x = Append(a, Head(b)) /\ rest = Tail(b)
  BY <1>1
<1>3. /\ (w \o x) \o rest = w \o (x \o rest)
      /\ (w \o a) \o b = w \o (a \o b)
  <2>1. AssociativeAt(w, x, rest) /\ AssociativeAt(w, a, b)
    BY Joined, Zenon
  <2>2. QED
    BY <2>1, Zenon DEF AssociativeAt
<1>4. (w \o x) \o rest = (w \o a) \o b
  BY <1>1, <1>2, <1>3
<1>5. QED
  BY <1>2, <1>4 DEF Chain

\* The task writes an answer to its client.
LEMMA ChainDelivered ==
  ASSUME NEW S, NEW w \in Seq(S), NEW a \in Seq(S), NEW b, NEW c, NEW d, NEW e, a # <<>>
  PROVE  Chain(Append(w, Head(a)), Tail(a), b, c, d, e) = Chain(w, a, b, c, d, e)
<1>1. Append(w, Head(a)) \o Tail(a) = w \o a
  BY Moved
<1>2. QED
  BY <1>1 DEF Chain

\* The task puts the request it holds into the channel.
LEMMA ChainForwarded ==
  ASSUME NEW S, NEW p \in Seq(S), NEW d \in Seq(S), NEW x \in S
  PROVE  (p \o Append(d, x)) \o <<>> = (p \o d) \o <<x>>
<1>1. /\ Append(d, x) = d \o <<x>> /\ <<x>> \in Seq(S) /\ d \o <<x>> \in Seq(S)
  BY AppendIsConcat
<1>2. p \o (d \o <<x>>) = (p \o d) \o <<x>> /\ p \o (d \o <<x>>) \in Seq(S)
  BY <1>1, ConcatAssociative
<1>3. (p \o (d \o <<x>>)) \o <<>> = p \o (d \o <<x>>)
  BY <1>2, ConcatEmptySeq
<1>4. QED
  BY <1>1, <1>2, <1>3

\* What the clients of a server got, its channels and what it holds are sequences.
LEMMA TrafficTyped ==
  ASSUME IInv, NEW s \in Servers
  PROVE  /\ Written(s) \in Seq(Item) /\ s2c[s] \in Seq(Item) /\ sending \in Seq(Item)
         /\ todo \in Seq(Item) /\ c2s[s] \in Seq(Item) /\ task[s].held \in Seq(Item)
         /\ Traffic(s) = Chain(Written(s), s2c[s], sending, todo, c2s[s], task[s].held)
         /\ read[s] \in Nat
<1>1. /\ delivered[s] \in Seq(Written1) /\ s2c[s] \in Seq(Reply) /\ c2s[s] \in Seq(Request)
      /\ read[s] \in Nat /\ sending \in Seq(Reply) /\ todo \in Seq(Request) /\ task[s] \in TaskType
  BY DEF IInv, TypesOfChannels, TypesOfUi, TasksSound
<1>2. task[s].held \in Seq(Request)
  BY <1>1 DEF TaskType
<1>3. PICK D \in Seq(Written1) : D = delivered[s]
  BY <1>1
<1>4. PICK n \in Nat : n = Len(D) /\ \A i \in 1..n : D[i] \in Written1
  OBVIOUS
<1>5. \A i \in 1..n : D[i].m \in Reply
  BY <1>4 DEF Written1
<1>6. [i \in 1..n |-> D[i].m] \in Seq(Reply)
  BY <1>5
<1>7. Written(s) \in Seq(Reply)
  BY <1>3, <1>4, <1>6 DEF Written
<1>8. Seq(Reply) \subseteq Seq(Item) /\ Seq(Request) \subseteq Seq(Item)
  BY DEF Item
<1>9. QED
  BY <1>1, <1>2, <1>7, <1>8 DEF Traffic, Chain

-----------------------------------------------------------------------------
(* The steps that move nothing *)

\* Nothing moves between the clients and the server the user interface knows.
LEMMA Kept ==
  ASSUME OneReplyEach, thread' = thread, UNCHANGED <<todo, sending>>,
         thread # 0 /\ task'[thread].pc \notin {"none", "ended"}
           => /\ task[thread].pc \notin {"none", "ended"}
              /\ task'[thread].held = task[thread].held
              /\ c2s'[thread] = c2s[thread] /\ s2c'[thread] = s2c[thread]
              /\ read'[thread] = read[thread] /\ delivered'[thread] = delivered[thread]
  PROVE  OneReplyEach'
<1>1. SUFFICES ASSUME thread # 0, task'[thread].pc \notin {"none", "ended"}
               PROVE  Numbered(Traffic(thread)', read[thread]')
  BY DEF OneReplyEach, Alive
<1>2. Numbered(Traffic(thread), read[thread])
  BY <1>1 DEF OneReplyEach, Alive
<1>3. Written(thread)' = Written(thread)
  BY <1>1 DEF Written
<1>4. Traffic(thread)' = Traffic(thread)
  BY <1>1, <1>3 DEF Traffic
<1>5. QED
  BY <1>1, <1>2, <1>4

\* The task of one server goes on, with the request it holds if it holds one.
LEMMA OneTask ==
  ASSUME IInv, NEW s \in Servers, NEW t \in TaskType, task' = [task EXCEPT ![s] = t],
         TaskSound(t), t.pc # "none", t.held = task[s].held,
         task[s].pc \notin {"none", "ended"},
         UNCHANGED <<ui, chans>>, TypesOfFlags'
  PROVE  IInv'
<1>1. /\ TasksSound /\ TypesOfChannels /\ TypesOfUi /\ WithinCap /\ NotStarted /\ OneReplyEach
      /\ UNCHANGED <<thread, todo, sending, caps, waves, c2s, s2c, read, delivered>>
  BY DEF IInv, ui, chans
<1>2. \A x \in Servers : task'[x] = IF x = s THEN t ELSE task[x]
  BY <1>1 DEF TasksSound
<1>3. TasksSound'
  BY <1>1, <1>2 DEF TasksSound
<1>4. (TypesOfChannels /\ TypesOfUi /\ WithinCap)'
  BY <1>1 DEF TypesOfChannels, TypesOfUi, WithinCap
<1>5. NotStarted'
  BY <1>1, <1>2 DEF NotStarted
<1>6. thread # 0 => thread \in Servers
  BY <1>1 DEF TypesOfUi, Servers
<1>7. OneReplyEach'
  BY <1>1, <1>2, <1>6, Kept
<1>8. QED
  BY <1>3, <1>4, <1>5, <1>7 DEF IInv

\* The task has no client any more.
LEMMA GotoInvariant ==
  ASSUME IInv, NEW s \in Servers, NEW pc \in Pcs, pc \notin {"none", "serving", "sending", "writing"},
         task[s].pc \notin {"none", "ended", "sending", "writing"}, Goto(s, pc),
         UNCHANGED <<ui, chans>>, TypesOfFlags'
  PROVE  IInv'
<1>1. task \in [Servers -> TaskType] /\ task[s] \in TaskType /\ TaskSound(task[s])
  BY DEF IInv, TasksSound
<1>2. PICK t : t = [task[s] EXCEPT !.pc = pc, !.client = 0]
  OBVIOUS
<1>3. task' = [task EXCEPT ![s] = t]
  BY <1>1, <1>2 DEF Goto
<1>4. t \in TaskType /\ t.pc = pc /\ t.client = 0 /\ t.held = task[s].held
  BY <1>1, <1>2 DEF TaskType
<1>5. TaskSound(t)
  BY <1>1, <1>4 DEF TaskSound
<1>6. QED
  BY <1>3, <1>4, <1>5, OneTask

\* The task has a new client.
LEMMA ServesInvariant ==
  ASSUME BoundsNat, IInv, NEW s \in Servers, task[s].pc \in {"starting", "listening"},
         clients < MaxClients, clients' = clients + 1,
         task' = [task EXCEPT ![s].pc = "serving", ![s].client = clients + 1],
         UNCHANGED <<ui, chans, stop, running, greeted>>
  PROVE  IInv'
<1>1. task \in [Servers -> TaskType] /\ task[s] \in TaskType /\ TaskSound(task[s])
  BY DEF IInv, TasksSound
<1>2. TypesOfFlags' /\ clients \in Nat
  BY DEF IInv, TypesOfFlags, BoundsNat
<1>3. PICK k \in Nat : k = clients + 1 /\ k # 0
  BY <1>2
<1>4. PICK t : t = [task[s] EXCEPT !.pc = "serving", !.client = k]
  OBVIOUS
<1>5. task' = [task EXCEPT ![s] = t]
  BY <1>1, <1>3, <1>4
<1>6. "serving" \in Pcs
  BY DEF Pcs
<1>7. t \in TaskType /\ t.pc = "serving" /\ t.client = k /\ t.held = task[s].held
  BY <1>1, <1>4, <1>6 DEF TaskType
<1>8. TaskSound(t)
  BY <1>1, <1>3, <1>7 DEF TaskSound
<1>9. QED
  BY <1>2, <1>5, <1>7, <1>8, OneTask

\* The server starts, takes clients, loses them and ends, and ends its writes.
LEMMA ServerInvariant ==
  ASSUME BoundsNat, IInv, NEW s \in Servers,
         Bind(s) \/ Accept(s) \/ EndWrite(s) \/ Disconnect(s) \/ StopSeen(s) \/ ClearGreeted(s) \/ ClearRunning(s)
         \/ SetStop(s)
  PROVE  IInv'
<1>1. TypesOfFlags
  BY DEF IInv
<1>2. CASE Bind(s)
  <2>1. task[s].pc = "starting" /\ UNCHANGED <<ui, chans, stop, running, greeted>>
    BY <1>2 DEF Bind
  <2>2. CASE /\ clients < MaxClients /\ clients' = clients + 1
             /\ task' = [task EXCEPT ![s].pc = "serving", ![s].client = clients + 1]
    BY <2>1, <2>2, ServesInvariant
  <2>3. CASE (Goto(s, "listening") \/ Goto(s, "ended")) /\ UNCHANGED clients
    <3>1. TypesOfFlags'
      BY <1>1, <2>1, <2>3 DEF TypesOfFlags
    <3>2. QED
      BY <2>1, <2>3, <3>1, GotoInvariant DEF Pcs
  <2>4. QED
    BY <1>2, <2>2, <2>3 DEF Bind
<1>3. CASE Accept(s)
  BY <1>3, ServesInvariant DEF Accept
<1>4. CASE Disconnect(s) \/ StopSeen(s)
  <2>1. /\ task[s].pc \in {"listening", "serving"} /\ UNCHANGED <<ui, chans, stop, running, clients>>
        /\ greeted' = greeted \/ greeted' = FALSE
        /\ Goto(s, "end greeted") \/ Goto(s, "listening")
    BY <1>4 DEF Disconnect, StopSeen
  <2>2. TypesOfFlags'
    BY <1>1, <2>1 DEF TypesOfFlags
  <2>3. QED
    BY <2>1, <2>2, GotoInvariant DEF Pcs
<1>5. CASE ClearGreeted(s) \/ ClearRunning(s) \/ SetStop(s)
  <2>1. /\ task[s].pc \in {"end greeted", "end running", "end stop"} /\ UNCHANGED <<ui, chans, clients>>
        /\ Goto(s, "end running") \/ Goto(s, "end stop") \/ Goto(s, "ended")
        /\ greeted' \in {greeted, FALSE} /\ running' \in {running, FALSE} /\ stop' \in {stop, TRUE}
    BY <1>5 DEF ClearGreeted, ClearRunning, SetStop
  <2>2. TypesOfFlags'
    BY <1>1, <2>1 DEF TypesOfFlags
  <2>3. QED
    BY <2>1, <2>2, GotoInvariant DEF Pcs
<1>6. CASE EndWrite(s)
  <2>1. /\ task[s].pc = "writing" /\ UNCHANGED <<ui, chans, stop, running, greeted, clients>>
        /\ task[s] \in TaskType /\ TaskSound(task[s]) /\ task \in [Servers -> TaskType]
    BY <1>6 DEF EndWrite, IInv, TasksSound
  <2>2. PICK t : t = [task[s] EXCEPT !.pc = "serving"]
    OBVIOUS
  <2>3. "serving" \in Pcs
    BY DEF Pcs
  <2>4. /\ t \in TaskType /\ t.pc = "serving" /\ t.client = task[s].client
        /\ t.held = task[s].held
    BY <2>1, <2>2, <2>3 DEF TaskType
  <2>5. task' = [task EXCEPT ![s] = t]
    BY <1>6, <2>1, <2>2 DEF EndWrite, Goto, TaskType
  <2>6. TaskSound(t) /\ TypesOfFlags'
    BY <1>1, <2>1, <2>4 DEF TaskSound, TypesOfFlags
  <2>7. QED
    BY <2>1, <2>4, <2>5, <2>6, OneTask
<1>7. QED
  BY <1>2, <1>3, <1>4, <1>5, <1>6

-----------------------------------------------------------------------------
(* The handler *)

\* What is shown and hidden is known by its id.
LEMMA Items ==
  ASSUME TypesOfUi
  PROVE  /\ All \subseteq Ids
         /\ Loaded => /\ waves[1].shown \subseteq Ids /\ waves[1].hidden \subseteq Ids
                      /\ waves[1] = [shown |-> waves[1].shown, hidden |-> waves[1].hidden]
<1>1. Loaded => waves[1] \in WaveType
  BY DEF TypesOfUi, Loaded
<1>2. QED
  BY <1>1 DEF WaveType, All

\* An answer has the number and the kind of its request.
LEMMA AnswerTyped ==
  ASSUME NEW r \in Request, NEW ok \in BOOLEAN, NEW ids \in SUBSET Ids
  PROVE  \E x \in Reply : Answer(r, ok, ids) = <<x>> /\ x.n = r.n /\ x.kind = r.kind
<1>1. r.client \in Nat /\ r.n \in Nat /\ r.kind \in Kinds
  BY DEF Request
<1>2. PICK x : x = [client |-> r.client, n |-> r.n, kind |-> r.kind, ok |-> ok, ids |-> ids]
  OBVIOUS
<1>3. x \in Reply /\ x.n = r.n /\ x.kind = r.kind
  BY <1>1, <1>2 DEF Reply
<1>4. QED
  BY <1>2, <1>3 DEF Answer

\* One answer, and what the handler leaves behind.
Handled(r) ==
  /\ \E x \in Reply : sending' = <<x>> /\ x.n = r.n /\ x.kind = r.kind
  /\ waves' \in Seq(WaveType) /\ greeted' \in BOOLEAN /\ caps' \in BOOLEAN

\* Every request is handled with one answer to it.
LEMMA HandleAnswers ==
  ASSUME TypesOfUi, TypesOfFlags, NEW r \in Request, Handle(r)
  PROVE  Handled(r)
<1>1. waves \in Seq(WaveType) /\ greeted \in BOOLEAN /\ caps \in BOOLEAN
  BY DEF TypesOfUi, TypesOfFlags
<1>2. r.kind \in Kinds
  BY DEF Request
<1>3. ASSUME NEW ok \in BOOLEAN, NEW ids \in SUBSET Ids, sending' = Answer(r, ok, ids),
             waves' \in Seq(WaveType), greeted' \in BOOLEAN, caps' \in BOOLEAN
      PROVE  Handled(r)
  BY <1>3, AnswerTyped, Zenon DEF Handled
<1>4. CASE sending' = Answer(r, FALSE, {}) /\ UNCHANGED <<waves, greeted, caps>>
  <2>1. {} \in SUBSET Ids /\ FALSE \in BOOLEAN
    OBVIOUS
  <2>2. waves' \in Seq(WaveType) /\ greeted' \in BOOLEAN /\ caps' \in BOOLEAN
    BY <1>1, <1>4
  <2>3. QED
    BY <1>3, <1>4, <2>1, <2>2, Zenon
<1>5. CASE Greeting(r)
  <2>1. sending' = Answer(r, r.arg # "1", {}) /\ waves' = waves /\ greeted' \in BOOLEAN /\ caps' \in BOOLEAN
    BY <1>1, <1>5 DEF Greeting
  <2>2. waves' \in Seq(WaveType) /\ (r.arg # "1") \in BOOLEAN /\ {} \in SUBSET Ids
    BY <1>1, <2>1
  <2>3. QED
    BY <1>3, <2>1, <2>2, Zenon
<1>6. CASE ItemQuery(r)
  <2>1. \/ sending' = Answer(r, FALSE, {})
        \/ Loaded /\ sending' = Answer(r, TRUE, waves[1].shown)
        \/ sending' = Answer(r, r.arg \subseteq All, r.arg \cap All)
    BY <1>6, Zenon DEF ItemQuery
  <2>2. /\ Loaded => waves[1].shown \in SUBSET Ids
        /\ r.arg \cap All \in SUBSET Ids /\ {} \in SUBSET Ids
        /\ (r.arg \subseteq All) \in BOOLEAN /\ TRUE \in BOOLEAN /\ FALSE \in BOOLEAN
    BY Items
  <2>3. waves' \in Seq(WaveType) /\ greeted' \in BOOLEAN /\ caps' \in BOOLEAN
    BY <1>1, <1>6 DEF ItemQuery
  <2>4. QED
    BY <1>3, <2>1, <2>2, <2>3, Zenon
<1>7. CASE AddItems(r)
  <2>1. PICK n : n = IF r.kind = "add_variables" THEN Cardinality(r.arg)
                     ELSE IF r.kind = "add_markers" THEN r.arg ELSE Cardinality(Variables)
    OBVIOUS
  <2>2. UNCHANGED <<greeted, caps>>
    BY <1>7 DEF AddItems
  <2>3. \A k : Fresh(k) \in SUBSET Ids
    BY DEF Fresh
  <2>4. \/ sending' = Answer(r, FALSE, {}) /\ waves' = waves
        \/ /\ Loaded /\ sending' = Answer(r, TRUE, Fresh(n))
           /\ waves' = <<[waves[1] EXCEPT !.shown = @ \cup Fresh(n)]>>
        \/ /\ Loaded /\ sending' = Answer(r, FALSE, {})
           /\ \E k \in 0..(n - 1) : waves' = <<[waves[1] EXCEPT !.shown = @ \cup Fresh(k)]>>
    BY <1>7, <2>1, Zenon DEF AddItems
  <2>5. Loaded => \A ids \in SUBSET Ids : [waves[1] EXCEPT !.shown = @ \cup ids] \in WaveType
    BY Items DEF WaveType
  <2>6. waves' \in Seq(WaveType)
    <3>1. \A w \in WaveType : <<w>> \in Seq(WaveType)
      OBVIOUS
    <3>2. QED
      BY <1>1, <2>3, <2>4, <2>5, <3>1, Zenon
  <2>7. greeted' \in BOOLEAN /\ caps' \in BOOLEAN /\ {} \in SUBSET Ids /\ TRUE \in BOOLEAN /\ FALSE \in BOOLEAN
    BY <1>1, <2>2
  <2>8. QED
    BY <1>3, <2>3, <2>4, <2>6, <2>7, Zenon
<1>8. CASE SetView(r) \/ ChangeItem(r) \/ LoadSource(r)
  <2>1. /\ waves' \in Seq(WaveType) /\ greeted' \in BOOLEAN /\ caps' \in BOOLEAN
        /\ {} \in SUBSET Ids /\ TRUE \in BOOLEAN
        /\ (Loaded /\ r.arg \in waves[1].shown) \in BOOLEAN
        /\ (r.arg \in {"file", "url"}) \in BOOLEAN
    <3>1. UNCHANGED <<waves, greeted, caps>>
      BY <1>8, Zenon DEF SetView, ChangeItem, LoadSource
    <3>2. QED
      BY <1>1, <3>1
  <2>2. \/ sending' = Answer(r, TRUE, {})
        \/ sending' = Answer(r, Loaded /\ r.arg \in waves[1].shown, {})
        \/ sending' = Answer(r, r.arg \in {"file", "url"}, {})
    <3>1. CASE SetView(r)
      BY <3>1, Zenon DEF SetView
    <3>2. CASE ChangeItem(r)
      BY <3>2, Zenon DEF ChangeItem
    <3>3. CASE LoadSource(r)
      BY <3>3, Zenon DEF LoadSource
    <3>4. QED
      BY <1>8, <3>1, <3>2, <3>3, Zenon
  <2>3. QED
    BY <1>3, <2>1, <2>2, Zenon
<1>9. CASE RemoveItems(r)
  <2> DEFINE gone == IF r.kind = "clear" THEN waves[1].shown ELSE r.arg
  <2>2. /\ sending' = Answer(r, Loaded \/ r.kind = "clear", {})
        /\ waves' = IF Loaded THEN <<[shown |-> waves[1].shown \ gone,
                                      hidden |-> waves[1].hidden \ gone]>> ELSE waves
        /\ UNCHANGED <<greeted, caps>>
    BY <1>9, Zenon DEF RemoveItems
  <2> HIDE DEF gone
  <2>3. Loaded => [shown |-> waves[1].shown \ gone, hidden |-> waves[1].hidden \ gone] \in WaveType
    BY Items DEF WaveType
  <2>4. waves' \in Seq(WaveType)
    BY <1>1, <2>2, <2>3
  <2>5. /\ greeted' \in BOOLEAN /\ caps' \in BOOLEAN /\ {} \in SUBSET Ids
        /\ (Loaded \/ r.kind = "clear") \in BOOLEAN
    BY <1>1, <2>2
  <2>6. QED
    BY <1>3, <2>2, <2>4, <2>5, Zenon
<1>10. \/ ~greeted /\ r.kind # "greeting"
       \/ r.kind = "greeting"
       \/ greeted /\ r.kind \in Queries
       \/ greeted /\ r.kind \in Adds
       \/ greeted /\ r.kind \in Views
       \/ greeted /\ r.kind \in OfItem
       \/ greeted /\ r.kind \in {"remove_items", "clear"}
       \/ greeted /\ r.kind = "load"
  BY <1>1, <1>2 DEF Kinds
<1>11. \/ sending' = Answer(r, FALSE, {}) /\ UNCHANGED <<waves, greeted, caps>>
       \/ Greeting(r) \/ ItemQuery(r) \/ AddItems(r) \/ SetView(r) \/ ChangeItem(r)
       \/ RemoveItems(r) \/ LoadSource(r)
  BY <1>10 DEF Handle
<1>12. QED
  BY <1>4, <1>5, <1>6, <1>7, <1>8, <1>9, <1>11

-----------------------------------------------------------------------------
(* The steps of the user interface *)

\* It takes all requests that arrived.
LEMMA TakeInvariant ==
  ASSUME BoundsNat, IInv, TakeRequests
  PROVE  IInv'
<1>1. /\ TasksSound /\ TypesOfChannels /\ TypesOfUi /\ TypesOfFlags /\ WithinCap /\ NotStarted
      /\ OneReplyEach
  BY DEF IInv
<1>2. /\ todo = <<>> /\ sending = <<>> /\ thread # 0
      /\ todo' = c2s[thread] /\ c2s' = [c2s EXCEPT ![thread] = <<>>]
      /\ UNCHANGED <<thread, stop, running, greeted, task, s2c, read, delivered, sending,
                     caps, waves, clients>>
  BY DEF TakeRequests, Idle
<1>3. thread \in Servers
  BY <1>1, <1>2 DEF TypesOfUi, Servers
<1>4. c2s[thread] \in Seq(Request) /\ <<>> \in Seq(Request) /\ Len(<<>>) = 0
  BY <1>1, <1>3 DEF TypesOfChannels
<1>5. \A s \in Servers : c2s'[s] = IF s = thread THEN <<>> ELSE c2s[s]
  BY <1>1, <1>2 DEF TypesOfChannels
<1>6. TypesOfChannels'
  BY <1>1, <1>2, <1>4 DEF TypesOfChannels
<1>7. (TypesOfUi /\ TypesOfFlags /\ TasksSound)'
  BY <1>1, <1>2, <1>4 DEF TypesOfUi, TypesOfFlags, TasksSound
<1>8. WithinCap'
  <2>1. \A s \in Servers : Len(c2s[s]) \in Nat /\ Len(c2s[s]) <= Cap /\ Len(s2c[s]) <= Cap
    BY <1>1 DEF WithinCap, TypesOfChannels
  <2>2. ASSUME NEW s \in Servers
        PROVE  Len(c2s'[s]) <= Cap /\ Len(s2c'[s]) <= Cap
    <3>1. CASE s = thread
      <4>1. 0 <= Cap
        BY DEF BoundsNat
      <4>2. QED
        BY <1>2, <1>4, <1>5, <2>1, <3>1, <4>1
    <3>2. CASE s # thread
      BY <1>2, <1>5, <2>1, <3>2
    <3>3. QED
      BY <3>1, <3>2
  <2>3. QED
    BY <2>2 DEF WithinCap
<1>9. NotStarted'
  BY <1>1, <1>2, <1>5 DEF NotStarted
<1>10. OneReplyEach'
  <2>1. PICK w, a, d, e : w = Written(thread) /\ a = s2c[thread] /\ d = c2s[thread] /\ e = task[thread].held
    OBVIOUS
  <2>2. /\ w \in Seq(Item) /\ a \in Seq(Item) /\ d \in Seq(Item) /\ e \in Seq(Item)
        /\ Traffic(thread) = Chain(w, a, <<>>, <<>>, d, e)
    BY <1>2, <1>3, <2>1, TrafficTyped
  <2>3. Written(thread)' = w
    BY <1>2, <2>1 DEF Written
  <2>4. /\ Traffic(thread)' = Chain(Written(thread)', s2c'[thread], sending', todo', c2s'[thread], task'[thread].held)
        /\ s2c'[thread] = a /\ sending' = <<>> /\ todo' = d /\ c2s'[thread] = <<>>
        /\ task'[thread].held = e
    BY <1>2, <1>3, <1>5, <2>1 DEF Traffic, Chain
  <2>5. Traffic(thread)' = Traffic(thread)
    BY <2>2, <2>3, <2>4, ChainTaken
  <2>6. QED
    BY <1>1, <1>2, <2>5 DEF OneReplyEach, Alive
<1>11. QED
  BY <1>6, <1>7, <1>8, <1>9, <1>10 DEF IInv

\* It handles the first of them.
LEMMA HandleInvariant ==
  ASSUME IInv, HandleNext
  PROVE  IInv'
<1>1. /\ TasksSound /\ TypesOfChannels /\ TypesOfUi /\ TypesOfFlags /\ WithinCap /\ NotStarted
      /\ OneReplyEach
  BY DEF IInv
<1>2. /\ sending = <<>> /\ todo # <<>> /\ todo' = Tail(todo) /\ Handle(Head(todo))
      /\ UNCHANGED <<thread, stop, running, task, c2s, s2c, read, delivered, clients>>
  BY DEF HandleNext, tasks
<1>3. todo \in Seq(Request) /\ Head(todo) \in Request /\ Tail(todo) \in Seq(Request)
  BY <1>1, <1>2 DEF TypesOfUi
<1>4. Handled(Head(todo))
  BY <1>1, <1>2, <1>3, HandleAnswers
<1>5. PICK x \in Reply : sending' = <<x>> /\ x.n = Head(todo).n /\ x.kind = Head(todo).kind
  BY <1>4 DEF Handled
<1>6. waves' \in Seq(WaveType) /\ greeted' \in BOOLEAN /\ caps' \in BOOLEAN
  BY <1>4 DEF Handled
<1>7. (TypesOfUi /\ TypesOfFlags /\ TypesOfChannels)'
  <2>1. <<x>> \in Seq(Reply)
    OBVIOUS
  <2>2. QED
    BY <1>1, <1>2, <1>3, <1>5, <1>6, <2>1 DEF TypesOfUi, TypesOfFlags, TypesOfChannels
<1>8. (TasksSound /\ WithinCap /\ NotStarted)'
  BY <1>1, <1>2 DEF TasksSound, WithinCap, NotStarted
<1>9. OneReplyEach'
  <2>1. SUFFICES ASSUME thread # 0, task[thread].pc \notin {"none", "ended"}
                 PROVE  Numbered(Traffic(thread)', read[thread])
    BY <1>2 DEF OneReplyEach, Alive
  <2>2. thread \in Servers
    BY <1>1, <2>1 DEF TypesOfUi, Servers
  <2>3. Numbered(Traffic(thread), read[thread])
    BY <1>1, <2>1 DEF OneReplyEach, Alive
  <2>4. PICK w, a, d, e : w = Written(thread) /\ a = s2c[thread] /\ d = c2s[thread] /\ e = task[thread].held
    OBVIOUS
  <2>5. /\ w \in Seq(Item) /\ a \in Seq(Item) /\ d \in Seq(Item) /\ e \in Seq(Item)
        /\ todo \in Seq(Item) /\ read[thread] \in Nat
        /\ Traffic(thread) = Chain(w, a, <<>>, todo, d, e)
    BY <1>2, <2>2, <2>4, TrafficTyped
  <2>6. Written(thread)' = w
    BY <1>2, <2>4 DEF Written
  <2>7. Traffic(thread)' = Chain(w, a, <<x>>, Tail(todo), d, e)
    BY <1>2, <1>5, <2>4, <2>6 DEF Traffic, Chain
  <2>8. x \in Item
    BY DEF Item
  <2>9. Numbered(Chain(w, a, <<x>>, Tail(todo), d, e), read[thread])
    <3>1. PICK c \in Seq(Item), k \in Nat : c = todo /\ k = read[thread]
      BY <2>5
    <3>2. c # <<>> /\ x.n = Head(c).n /\ x.kind = Head(c).kind
      BY <1>2, <1>5, <3>1
    <3>3. Numbered(Chain(w, a, <<>>, c, d, e), k)
      BY <2>3, <2>5, <3>1
    <3>4. Numbered(Chain(w, a, <<x>>, Tail(c), d, e), k)
      <4>1. Links(Item, w, a, c, d, e)
        BY <2>5, <3>2 DEF Links
      <4>2. QED
        BY <2>8, <3>2, <3>3, <4>1, ChainHandled
    <3>5. QED
      BY <3>1, <3>4
  <2>10. QED
    BY <2>7, <2>9
<1>10. QED
  BY <1>7, <1>8, <1>9 DEF IInv

\* It sends an answer, or finds that its server has ended.
LEMMA SendInvariant ==
  ASSUME BoundsNat, IInv, SendReply
  PROVE  IInv'
<1>1. /\ TasksSound /\ TypesOfChannels /\ TypesOfUi /\ TypesOfFlags /\ WithinCap /\ NotStarted
      /\ OneReplyEach
  BY DEF IInv
<1>2. /\ sending # <<>> /\ sending' = Tail(sending)
      /\ UNCHANGED <<thread, stop, running, greeted, task, c2s, read, delivered, todo, caps,
                     waves, clients>>
  BY DEF SendReply
<1>3. sending \in Seq(Reply) /\ Head(sending) \in Reply /\ Tail(sending) \in Seq(Reply)
  BY <1>1, <1>2 DEF TypesOfUi
<1>4. (TypesOfUi /\ TypesOfFlags /\ TasksSound)'
  BY <1>1, <1>2, <1>3 DEF TypesOfUi, TypesOfFlags, TasksSound
<1>5. CASE thread \in {s \in Servers : Alive(s)}
  <2>1. /\ thread \in Servers /\ task[thread].pc \notin {"none", "ended"}
        /\ Len(s2c[thread]) < Cap
        /\ s2c' = [s2c EXCEPT ![thread] = Append(s2c[thread], Head(sending))]
    BY <1>5 DEF SendReply, Alive
  <2>2. PICK a \in Seq(Reply) : a = s2c[thread]
    BY <1>1, <2>1 DEF TypesOfChannels
  <2>3. PICK y \in Reply : y = Head(sending)
    BY <1>3
  <2>4. Append(a, y) \in Seq(Reply) /\ Len(Append(a, y)) = Len(a) + 1 /\ Len(a) \in Nat
    OBVIOUS
  <2>5. \A s \in Servers : s2c'[s] = IF s = thread THEN Append(a, y) ELSE s2c[s]
    BY <1>1, <2>1, <2>2, <2>3 DEF TypesOfChannels
  <2>6. TypesOfChannels'
    BY <1>1, <1>2, <2>1, <2>2, <2>3, <2>4 DEF TypesOfChannels
  <2>7. WithinCap'
    <3>1. Len(a) + 1 <= Cap
      BY <2>1, <2>2, <2>4 DEF BoundsNat
    <3>2. QED
      BY <1>1, <1>2, <2>4, <2>5, <3>1 DEF WithinCap
  <2>8. NotStarted'
    BY <1>1, <1>2, <2>1, <2>5 DEF NotStarted
  <2>9. OneReplyEach'
    <3>1. Numbered(Traffic(thread), read[thread])
      BY <1>1, <2>1 DEF OneReplyEach, Alive, Servers
    <3>2. PICK w, d, e : w = Written(thread) /\ d = c2s[thread] /\ e = task[thread].held
      OBVIOUS
    <3>3. /\ w \in Seq(Item) /\ a \in Seq(Item) /\ sending \in Seq(Item)
          /\ Traffic(thread) = Chain(w, a, sending, todo, d, e)
      BY <2>1, <2>2, <3>2, TrafficTyped
    <3>4. Written(thread)' = w
      BY <1>2, <3>2 DEF Written
    <3>5. s2c'[thread] = Append(a, Head(sending))
      BY <2>1, <2>3, <2>5
    <3>6. Traffic(thread)' = Chain(w, Append(a, Head(sending)), Tail(sending), todo, d, e)
      BY <1>2, <3>2, <3>4, <3>5 DEF Traffic, Chain
    <3>7. Traffic(thread)' = Traffic(thread)
      BY <1>2, <3>3, <3>6, ChainSent
    <3>8. QED
      BY <1>2, <3>1, <3>7 DEF OneReplyEach
  <2>10. QED
    BY <1>4, <2>6, <2>7, <2>8, <2>9 DEF IInv
<1>6. CASE thread \notin {s \in Servers : Alive(s)}
  <2>1. s2c' = s2c
    BY <1>6 DEF SendReply
  <2>2. (TypesOfChannels /\ WithinCap /\ NotStarted)'
    BY <1>1, <1>2, <2>1 DEF TypesOfChannels, WithinCap, NotStarted
  <2>3. thread # 0 => thread \in Servers
    BY <1>1 DEF TypesOfUi, Servers
  <2>4. OneReplyEach'
    BY <1>2, <1>6, <2>3 DEF OneReplyEach, Alive
  <2>5. QED
    BY <1>4, <2>2, <2>4 DEF IInv
<1>7. QED
  BY <1>5, <1>6
\* A waveform was loaded, and a client that wants to know is told.
LEMMA LoadedInvariant ==
  ASSUME IInv, WaveformsLoaded
  PROVE  IInv'
<1>1. /\ TasksSound /\ TypesOfChannels /\ TypesOfUi /\ TypesOfFlags /\ WithinCap /\ NotStarted
      /\ OneReplyEach
  BY DEF IInv
<1>2. PICK x : x = [client |-> 0, n |-> 0, kind |-> "waveforms_loaded", ok |-> TRUE, ids |-> {}]
  OBVIOUS
<1>3. x \in Reply /\ x.kind = Report
  BY <1>2 DEF Reply, Report
<1>4. /\ todo = <<>> /\ sending = <<>> /\ waves' = <<[shown |-> {}, hidden |-> {}]>>
      /\ sending' = <<x>> \/ sending' = <<>>
      /\ UNCHANGED <<thread, stop, running, greeted, task, c2s, s2c, read, delivered, todo, caps, clients>>
  BY <1>2, Zenon DEF WaveformsLoaded, Idle, tasks
<1>5. waves' \in Seq(WaveType)
  <2>1. [shown |-> {}, hidden |-> {}] \in WaveType
    BY DEF WaveType
  <2>2. \A w \in WaveType : <<w>> \in Seq(WaveType)
    OBVIOUS
  <2>3. QED
    BY <1>4, <2>1, <2>2, Zenon
<1>6. <<x>> \in Seq(Reply) /\ <<>> \in Seq(Reply)
  BY <1>3
<1>7. (TypesOfUi /\ TypesOfFlags /\ TypesOfChannels)'
  BY <1>1, <1>4, <1>5, <1>6 DEF TypesOfUi, TypesOfFlags, TypesOfChannels
<1>8. (TasksSound /\ WithinCap /\ NotStarted)'
  BY <1>1, <1>4 DEF TasksSound, WithinCap, NotStarted
<1>9. OneReplyEach'
  <2>1. SUFFICES ASSUME thread # 0, task[thread].pc \notin {"none", "ended"}
                 PROVE  Numbered(Traffic(thread)', read[thread])
    BY <1>4 DEF OneReplyEach, Alive
  <2>2. thread \in Servers
    BY <1>1, <2>1 DEF TypesOfUi, Servers
  <2>3. Numbered(Traffic(thread), read[thread])
    BY <1>1, <2>1 DEF OneReplyEach, Alive
  <2>4. PICK w, a, d, e : w = Written(thread) /\ a = s2c[thread] /\ d = c2s[thread] /\ e = task[thread].held
    OBVIOUS
  <2>5. /\ w \in Seq(Item) /\ a \in Seq(Item) /\ d \in Seq(Item) /\ e \in Seq(Item)
        /\ read[thread] \in Nat
        /\ Traffic(thread) = Chain(w, a, <<>>, <<>>, d, e)
    BY <1>4, <2>2, <2>4, TrafficTyped
  <2>6. Written(thread)' = w
    BY <1>4, <2>4 DEF Written
  <2>7. Traffic(thread)' = Chain(w, a, sending', <<>>, d, e)
    BY <1>4, <2>4, <2>6 DEF Traffic, Chain
  <2>8. x \in Item
    BY <1>3 DEF Item
  <2>9. Numbered(Chain(w, a, <<x>>, <<>>, d, e), read[thread])
    BY <1>3, <2>3, <2>5, <2>8, ChainReported
  <2>10. QED
    BY <1>4, <2>3, <2>5, <2>7, <2>9
<1>10. QED
  BY <1>7, <1>8, <1>9 DEF IInv

\* The user folds a group.
LEMMA FoldInvariant ==
  ASSUME IInv, Fold
  PROVE  IInv'
<1>1. /\ TasksSound /\ TypesOfChannels /\ TypesOfUi /\ TypesOfFlags /\ WithinCap /\ NotStarted
      /\ OneReplyEach
  BY DEF IInv
<1>2. /\ Loaded
      /\ UNCHANGED <<thread, stop, running, greeted, task, c2s, s2c, read, delivered, todo, sending, caps, clients>>
  BY DEF Fold, tasks
<1>3. waves' \in Seq(WaveType)
  <2>1. PICK i \in waves[1].shown :
          waves' = <<[shown |-> waves[1].shown \ {i}, hidden |-> waves[1].hidden \cup {i}]>>
    BY DEF Fold
  <2>2. [shown |-> waves[1].shown \ {i}, hidden |-> waves[1].hidden \cup {i}] \in WaveType
    BY <1>1, <1>2, Items DEF WaveType
  <2>3. \A w \in WaveType : <<w>> \in Seq(WaveType)
    OBVIOUS
  <2>4. QED
    BY <2>1, <2>2, <2>3, Zenon
<1>4. (TypesOfUi /\ TypesOfFlags /\ TypesOfChannels)'
  BY <1>1, <1>2, <1>3 DEF TypesOfUi, TypesOfFlags, TypesOfChannels
<1>5. (TasksSound /\ WithinCap /\ NotStarted)'
  BY <1>1, <1>2 DEF TasksSound, WithinCap, NotStarted
<1>6. OneReplyEach'
  BY <1>1, <1>2, Kept
<1>7. QED
  BY <1>4, <1>5, <1>6 DEF IInv

\* A server that was started has nothing on its way.
LEMMA StartInvariant ==
  ASSUME IInv, NEW initiate \in BOOLEAN, StartWcpServer(initiate)
  PROVE  IInv'
<1>1. /\ TasksSound /\ TypesOfChannels /\ TypesOfUi /\ TypesOfFlags /\ WithinCap /\ NotStarted
      /\ OneReplyEach
  BY DEF IInv
<1>2. /\ todo = <<>> /\ sending = <<>>
      /\ stop' = FALSE /\ running' = TRUE /\ greeted' = TRUE
      /\ UNCHANGED <<c2s, s2c, read, delivered, todo, sending, caps, waves, clients>>
  BY DEF StartWcpServer, Idle
<1>3. PICK s \in Servers :
        /\ task[s] = NoTask /\ thread' = s
        /\ task' = [task EXCEPT ![s] = [NoTask EXCEPT !.pc = "starting", !.initiate = initiate]]
  BY DEF StartWcpServer
<1>4. PICK t : t = [NoTask EXCEPT !.pc = "starting", !.initiate = initiate]
  OBVIOUS
<1>5. t.pc = "starting" /\ t.client = 0 /\ t.held = <<>> /\ task[s].pc = "none"
  BY <1>3, <1>4 DEF NoTask
<1>6. t \in TaskType
  <2>1. "starting" \in Pcs /\ <<>> \in Seq(Request)
    BY DEF Pcs
  <2>2. t = [pc |-> "starting", initiate |-> initiate, client |-> 0, held |-> <<>>]
    BY <1>4 DEF NoTask
  <2>3. QED
    BY <2>1, <2>2 DEF TaskType
<1>7. \A x \in Servers : task'[x] = IF x = s THEN t ELSE task[x]
  BY <1>1, <1>3, <1>4 DEF TasksSound
<1>8. TasksSound'
  <2>1. TaskSound(t)
    BY <1>5 DEF TaskSound
  <2>2. task' \in [Servers -> TaskType]
    BY <1>1, <1>3, <1>4, <1>6 DEF TasksSound
  <2>3. QED
    BY <1>1, <1>7, <2>1, <2>2 DEF TasksSound
<1>9. (TypesOfUi /\ TypesOfFlags /\ TypesOfChannels /\ WithinCap)'
  <2>1. thread' \in 0..MaxServers
    BY <1>3 DEF Servers
  <2>2. QED
    BY <1>1, <1>2, <2>1 DEF TypesOfUi, TypesOfFlags, TypesOfChannels, WithinCap
<1>10. NotStarted'
  BY <1>1, <1>2, <1>5, <1>7 DEF NotStarted
<1>11. c2s[s] = <<>> /\ s2c[s] = <<>> /\ delivered[s] = <<>> /\ read[s] = 0
  BY <1>1, <1>5 DEF NotStarted
<1>12. OneReplyEach'
  <2>1. Written(s)' = <<>>
    <3>1. Written(s)' = [i \in 1..Len(delivered'[s]) |-> delivered'[s][i].m]
      BY DEF Written
    <3>2. delivered'[s] = <<>> /\ Len(<<>>) = 0
      BY <1>2, <1>11
    <3>3. QED
      BY <3>1, <3>2
  <2>2. Traffic(s)' = <<>>
    <3>1. Traffic(s)' = Written(s)' \o s2c'[s] \o sending' \o todo' \o c2s'[s] \o task'[s].held
      BY DEF Traffic
    <3>2. s2c'[s] = <<>> /\ sending' = <<>> /\ todo' = <<>> /\ c2s'[s] = <<>> /\ task'[s].held = <<>>
      BY <1>2, <1>5, <1>7, <1>11
    <3>3. <<>> \o <<>> = <<>>
      OBVIOUS
    <3>4. QED
      BY <2>1, <3>1, <3>2, <3>3, Zenon
  <2>3. Numbered(<<>>, 0)
    BY DEF Numbered
  <2>4. thread' = s /\ read'[s] = 0
    BY <1>2, <1>3, <1>11
  <2>5. Traffic(thread)' = <<>> /\ read'[thread'] = 0
    BY <2>2, <2>4 DEF Traffic, Written
  <2>6. QED
    BY <2>3, <2>5 DEF OneReplyEach
<1>13. QED
  BY <1>8, <1>9, <1>10, <1>12 DEF IInv

\* The user interface lets its server go.
LEMMA StopInvariant ==
  ASSUME BoundsNat, IInv, StopWcpServer
  PROVE  IInv'
<1>1. /\ TasksSound /\ TypesOfChannels /\ TypesOfUi /\ TypesOfFlags /\ WithinCap /\ NotStarted
  BY DEF IInv
<1>2. /\ stop' = TRUE /\ thread' = 0
      /\ UNCHANGED <<running, greeted, task, c2s, s2c, read, delivered, todo, sending, caps,
                     waves, clients>>
  BY DEF StopWcpServer
<1>3. (TypesOfUi /\ TypesOfFlags)'
  BY <1>1, <1>2 DEF TypesOfUi, TypesOfFlags, BoundsNat
<1>4. (TasksSound /\ TypesOfChannels /\ WithinCap /\ NotStarted)'
  BY <1>1, <1>2 DEF TasksSound, TypesOfChannels, WithinCap, NotStarted
<1>5. OneReplyEach'
  BY <1>2 DEF OneReplyEach
<1>6. QED
  BY <1>3, <1>4, <1>5 DEF IInv

-----------------------------------------------------------------------------
(* The steps of the server that move requests and answers *)

\* It reads the next request.
LEMMA ReadInvariant ==
  ASSUME CommandsKnown, IInv, NEW s \in Servers, NEW command \in Sent, ReadFrame(s, command)
  PROVE  IInv'
<1>1. /\ TasksSound /\ TypesOfChannels /\ TypesOfUi /\ TypesOfFlags /\ WithinCap /\ NotStarted
      /\ OneReplyEach
  BY DEF IInv
<1>2. task[s] \in TaskType /\ TaskSound(task[s]) /\ read[s] \in Nat
  BY <1>1 DEF TasksSound, TypesOfChannels
<1>3. PICK r : r = [client |-> task[s].client, n |-> read[s] + 1, kind |-> command.kind,
                    arg |-> command.arg]
  OBVIOUS
<1>4. /\ task[s].pc = "serving" /\ read' = [read EXCEPT ![s] = read[s] + 1]
      /\ task' = [task EXCEPT ![s].pc = "sending", ![s].held = <<r>>]
      /\ UNCHANGED <<thread, todo, sending, caps, waves, c2s, s2c, delivered, stop, running, greeted, clients>>
  BY <1>3 DEF ReadFrame, ui
<1>5. r \in Request /\ r.n = read[s] + 1 /\ r.kind # Report
  <2>1. task[s].client \in Nat /\ command.kind \in Kinds
    BY <1>2 DEF TaskType, CommandsKnown
  <2>2. command.kind # Report
    BY <2>1 DEF Kinds, Queries, Adds, Views, OfItem, Report
  <2>3. QED
    BY <1>2, <1>3, <2>1, <2>2 DEF Request
<1>6. PICK t : t = [task[s] EXCEPT !.pc = "sending", !.held = <<r>>]
  OBVIOUS
<1>7. /\ t.pc = "sending" /\ t.held = <<r>> /\ t.client = task[s].client /\ t \in TaskType
  <2>1. "sending" \in Pcs /\ <<r>> \in Seq(Request)
    BY <1>5 DEF Pcs
  <2>2. QED
    BY <1>2, <1>6, <2>1 DEF TaskType
<1>8. TaskSound(t)
  <2>1. <<r>> # <<>> /\ Len(<<r>>) = 1
    OBVIOUS
  <2>2. QED
    BY <1>2, <1>4, <1>7, <2>1 DEF TaskSound
<1>9. task' = [task EXCEPT ![s] = t]
  BY <1>1, <1>4, <1>6 DEF TasksSound
<1>10. \A x \in Servers : /\ task'[x] = IF x = s THEN t ELSE task[x]
                          /\ read'[x] = IF x = s THEN read[s] + 1 ELSE read[x]
  BY <1>1, <1>4, <1>9 DEF TasksSound, TypesOfChannels
<1>11. TasksSound'
  BY <1>1, <1>7, <1>8, <1>9, <1>10 DEF TasksSound
<1>12. (TypesOfChannels /\ TypesOfUi /\ TypesOfFlags /\ WithinCap)'
  BY <1>1, <1>2, <1>4 DEF TypesOfChannels, TypesOfUi, TypesOfFlags, WithinCap
<1>13. NotStarted'
  BY <1>1, <1>4, <1>7, <1>10 DEF NotStarted
<1>14. OneReplyEach'
  <2>1. thread # 0 => thread \in Servers
    BY <1>1 DEF TypesOfUi, Servers
  <2>2. CASE thread # s
    BY <1>1, <1>4, <1>10, <2>1, <2>2, Kept
  <2>3. CASE thread = s
    <3>1. task[s].held = <<>>
      BY <1>2, <1>4 DEF TaskSound
    <3>2. thread # 0 /\ Alive(thread)
      BY <1>4, <2>3 DEF Alive, Servers
    <3>3. Numbered(Traffic(s), read[s])
      BY <1>1, <2>3, <3>2 DEF OneReplyEach
    <3>4. PICK p : p = Written(s) \o s2c[s] \o sending \o todo \o c2s[s]
      OBVIOUS
    <3>5. p \in Seq(Item)
      BY <3>4, TrafficTyped, Joined, Zenon
    <3>6. Traffic(s) = p
      <4>1. Traffic(s) = p \o <<>>
        BY <3>1, <3>4 DEF Traffic
      <4>2. QED
        BY <3>5, <4>1, ConcatEmptySeq
    <3>7. Written(s)' = Written(s)
      BY <1>4 DEF Written
    <3>8. Traffic(s)' = p \o <<r>>
      BY <1>4, <1>7, <1>10, <3>4, <3>7 DEF Traffic
    <3>9. r \in Item
      BY <1>5 DEF Item
    <3>10. Numbered(p \o <<r>>, read[s] + 1)
      BY <1>2, <1>5, <3>3, <3>5, <3>6, <3>9, NumberedMore
    <3>11. Traffic(thread)' = p \o <<r>> /\ read'[thread'] = read[s] + 1
      BY <1>4, <1>10, <2>3, <3>8 DEF Traffic, Written
    <3>12. QED
      BY <3>10, <3>11 DEF OneReplyEach
  <2>4. QED
    BY <2>2, <2>3
<1>15. QED
  BY <1>11, <1>12, <1>13, <1>14 DEF IInv

\* It forwards the request it holds, or finds that the user interface let it go.
LEMMA ForwardInvariant ==
  ASSUME BoundsNat, IInv, NEW s \in Servers, Forward(s)
  PROVE  IInv'
<1>1. /\ TasksSound /\ TypesOfChannels /\ TypesOfUi /\ TypesOfFlags /\ WithinCap /\ NotStarted
      /\ OneReplyEach
  BY DEF IInv
<1>2. task[s] \in TaskType /\ TaskSound(task[s])
  BY <1>1 DEF TasksSound
<1>3. /\ task[s].pc = "sending"
      /\ \/ thread = s /\ Len(c2s[s]) < Cap /\ c2s' = [c2s EXCEPT ![s] = Append(c2s[s], task[s].held[1])]
         \/ thread # s /\ c2s' = c2s
      /\ task' = [task EXCEPT ![s].pc = "serving", ![s].held = <<>>]
      /\ UNCHANGED <<thread, todo, sending, caps, waves, s2c, read, delivered, stop, running, greeted, clients>>
  BY DEF Forward, ui
<1>4. PICK r \in Request : task[s].held = <<r>>
  <2>1. task[s].held \in Seq(Request) /\ task[s].held # <<>> /\ Len(task[s].held) <= 1
    BY <1>2, <1>3 DEF TaskType, TaskSound
  <2>2. PICK h \in Seq(Request) : h = task[s].held
    BY <2>1
  <2>3. h = <<h[1]>> /\ h[1] \in Request
    BY <2>1, <2>2
  <2>4. QED
    BY <2>2, <2>3
<1>5. PICK t : t = [task[s] EXCEPT !.pc = "serving", !.held = <<>>]
  OBVIOUS
<1>6. t.pc = "serving" /\ t.held = <<>> /\ t.client = task[s].client /\ t \in TaskType
  <2>1. "serving" \in Pcs /\ <<>> \in Seq(Request)
    BY DEF Pcs
  <2>2. QED
    BY <1>2, <1>5, <2>1 DEF TaskType
<1>7. TaskSound(t)
  BY <1>2, <1>3, <1>6 DEF TaskSound
<1>8. task' = [task EXCEPT ![s] = t]
  BY <1>1, <1>3, <1>5 DEF TasksSound
<1>9. \A x \in Servers : task'[x] = IF x = s THEN t ELSE task[x]
  BY <1>1, <1>8 DEF TasksSound
<1>10. TasksSound'
  BY <1>1, <1>6, <1>7, <1>8, <1>9 DEF TasksSound
<1>11. (TypesOfUi /\ TypesOfFlags)'
  BY <1>1, <1>3 DEF TypesOfUi, TypesOfFlags
<1>12. thread # 0 => thread \in Servers
  BY <1>1 DEF TypesOfUi, Servers
<1>13. CASE thread = s
  <2>1. PICK d \in Seq(Request) : d = c2s[s]
    BY <1>1 DEF TypesOfChannels
  <2>2. Append(d, r) \in Seq(Request) /\ Len(Append(d, r)) = Len(d) + 1 /\ Len(d) \in Nat
    OBVIOUS
  <2>3. Len(d) < Cap /\ c2s' = [c2s EXCEPT ![s] = Append(d, r)]
    BY <1>3, <1>4, <1>13, <2>1
  <2>4. \A x \in Servers : c2s'[x] = IF x = s THEN Append(d, r) ELSE c2s[x]
    BY <1>1, <2>3 DEF TypesOfChannels
  <2>5. TypesOfChannels'
    BY <1>1, <1>3, <2>2, <2>3 DEF TypesOfChannels
  <2>6. WithinCap'
    <3>1. Len(d) + 1 <= Cap
      BY <2>2, <2>3 DEF BoundsNat
    <3>2. QED
      BY <1>1, <1>3, <2>2, <2>4, <3>1 DEF WithinCap
  <2>7. NotStarted'
    BY <1>1, <1>3, <1>6, <1>9, <2>4 DEF NotStarted
  <2>8. OneReplyEach'
    <3>1. thread # 0 /\ Alive(thread)
      BY <1>3, <1>13 DEF Alive, Servers
    <3>2. Numbered(Traffic(s), read[s])
      BY <1>1, <1>13, <3>1 DEF OneReplyEach
    <3>3. PICK p : p = Written(s) \o s2c[s] \o sending \o todo
      OBVIOUS
    <3>4. p \in Seq(Item) /\ d \in Seq(Item) /\ r \in Item
      <4>1. p \in Seq(Item)
        BY <3>3, TrafficTyped, Joined, Zenon
      <4>2. QED
        BY <2>1, <4>1, TrafficTyped DEF Item
    <3>5. Traffic(s) = (p \o d) \o <<r>>
      BY <1>4, <2>1, <3>3 DEF Traffic
    <3>6. Written(s)' = Written(s)
      BY <1>3 DEF Written
    <3>7. c2s'[s] = Append(d, r) /\ task'[s].held = <<>>
      BY <1>6, <1>9, <2>4
    <3>8. Traffic(s)' = (p \o Append(d, r)) \o <<>>
      BY <1>3, <3>3, <3>6, <3>7 DEF Traffic
    <3>9. Traffic(s)' = Traffic(s)
      BY <3>4, <3>5, <3>8, ChainForwarded
    <3>10. Traffic(thread)' = Traffic(s) /\ read'[thread'] = read[s]
      BY <1>3, <1>13, <3>9 DEF Traffic, Written
    <3>11. QED
      BY <3>2, <3>10 DEF OneReplyEach
  <2>9. QED
    BY <1>10, <1>11, <2>5, <2>6, <2>7, <2>8 DEF IInv
<1>14. CASE thread # s
  <2>1. c2s' = c2s
    BY <1>3, <1>14
  <2>2. (TypesOfChannels /\ WithinCap)'
    BY <1>1, <1>3, <2>1 DEF TypesOfChannels, WithinCap
  <2>3. NotStarted'
    BY <1>1, <1>3, <1>6, <1>9, <2>1 DEF NotStarted
  <2>4. OneReplyEach'
    BY <1>1, <1>3, <1>9, <1>12, <1>14, <2>1, Kept
  <2>5. QED
    BY <1>10, <1>11, <2>2, <2>3, <2>4 DEF IInv
<1>15. QED
  BY <1>13, <1>14

\* It writes the next answer to whoever is connected.
LEMMA DeliverInvariant ==
  ASSUME BoundsNat, IInv, NEW s \in Servers, Deliver(s)
  PROVE  IInv'
<1>1. /\ TasksSound /\ TypesOfChannels /\ TypesOfUi /\ TypesOfFlags /\ WithinCap /\ NotStarted
      /\ OneReplyEach
  BY DEF IInv
<1>2. PICK a \in Seq(Reply) : a = s2c[s]
  BY <1>1 DEF TypesOfChannels
<1>3. PICK D \in Seq(Written1) : D = delivered[s]
  BY <1>1 DEF TypesOfChannels
<1>4. PICK z : z = [to |-> task[s].client, m |-> Head(a)]
  OBVIOUS
<1>5. /\ task[s].pc = "serving" /\ a # <<>>
      /\ delivered' = [delivered EXCEPT ![s] = Append(D, z)]
      /\ s2c' = [s2c EXCEPT ![s] = Tail(a)]
      /\ Goto(s, "writing")
      /\ UNCHANGED <<thread, todo, sending, caps, waves, c2s, read, stop, running, greeted, clients>>
  BY <1>2, <1>3, <1>4 DEF Deliver, ui
<1>6. Head(a) \in Reply /\ Tail(a) \in Seq(Reply) /\ Len(Tail(a)) <= Len(a) /\ Len(Tail(a)) \in Nat
  BY <1>5
<1>7. z \in Written1 /\ z.m = Head(a)
  <2>1. task[s].client \in Nat
    BY <1>1 DEF TasksSound, TaskType
  <2>2. QED
    BY <1>4, <1>6, <2>1 DEF Written1
<1>8. /\ Append(D, z) \in Seq(Written1) /\ Len(Append(D, z)) = Len(D) + 1 /\ Len(D) \in Nat
      /\ \A i \in 1..(Len(D) + 1) : Append(D, z)[i] = IF i <= Len(D) THEN D[i] ELSE z
  BY <1>7
<1>9. \A x \in Servers : /\ s2c'[x] = IF x = s THEN Tail(a) ELSE s2c[x]
                         /\ delivered'[x] = IF x = s THEN Append(D, z) ELSE delivered[x]
  BY <1>1, <1>5 DEF TypesOfChannels
<1>10. (TypesOfUi /\ TypesOfFlags)'
  BY <1>1, <1>5 DEF TypesOfUi, TypesOfFlags
<1>11. PICK t : t = [task[s] EXCEPT !.pc = "writing"]
  OBVIOUS
<1>12. task[s] \in TaskType /\ TaskSound(task[s])
  BY <1>1 DEF TasksSound
<1>13. /\ t \in TaskType /\ t.pc = "writing" /\ t.client = task[s].client
       /\ t.held = task[s].held
  <2>1. "writing" \in Pcs
    BY DEF Pcs
  <2>2. QED
    BY <1>11, <1>12, <2>1 DEF TaskType
<1>14. task' = [task EXCEPT ![s] = t]
  BY <1>1, <1>5, <1>11, <1>12 DEF Goto, TaskType, TasksSound
<1>15. \A x \in Servers : task'[x] = IF x = s THEN t ELSE task[x]
  BY <1>1, <1>14 DEF TasksSound
<1>16. TaskSound(t)
  BY <1>5, <1>12, <1>13 DEF TaskSound
<1>17. TasksSound'
  BY <1>1, <1>13, <1>14, <1>15, <1>16 DEF TasksSound
<1>18. TypesOfChannels'
  BY <1>1, <1>5, <1>6, <1>8 DEF TypesOfChannels
<1>19. WithinCap'
  <2>1. Len(a) <= Cap /\ Len(a) \in Nat
    BY <1>1, <1>2 DEF WithinCap
  <2>2. Len(Tail(a)) <= Cap
    BY <1>6, <2>1 DEF BoundsNat
  <2>3. QED
    BY <1>1, <1>5, <1>9, <2>2 DEF WithinCap
<1>20. NotStarted'
  BY <1>1, <1>5, <1>9, <1>13, <1>15 DEF NotStarted
<1>21. thread # 0 => thread \in Servers
  BY <1>1 DEF TypesOfUi, Servers
<1>22. OneReplyEach'
  <2>1. CASE thread # s
    BY <1>1, <1>5, <1>9, <1>21, <1>15, <2>1, Kept
  <2>2. CASE thread = s
    <3>1. thread # 0 /\ Alive(thread)
      BY <1>5, <2>2 DEF Alive, Servers
    <3>2. Numbered(Traffic(s), read[s])
      BY <1>1, <2>2, <3>1 DEF OneReplyEach
    <3>3. PICK w, d, e : w = Written(s) /\ d = c2s[s] /\ e = task[s].held
      OBVIOUS
    <3>4. w \in Seq(Item) /\ a \in Seq(Item) /\ Traffic(s) = Chain(w, a, sending, todo, d, e)
      BY <1>2, <3>3, TrafficTyped
    <3>5. Written(thread)' = Append(w, Head(a))
      <4>1. PICK n \in Nat : n = Len(D)
        BY <1>8
      <4>2. w = [i \in 1..n |-> D[i].m]
        BY <1>3, <3>3, <4>1 DEF Written
      <4>3. PICK q : q = [i \in 1..(n + 1) |-> Append(D, z)[i].m]
        OBVIOUS
      <4>4. Written(thread)' = q
        <5>1. Written(thread)' = [i \in 1..Len(delivered'[thread']) |-> delivered'[thread'][i].m]
          BY DEF Written
        <5>2. delivered'[thread'] = Append(D, z)
          BY <1>5, <1>9, <2>2
        <5>3. Len(Append(D, z)) = n + 1
          BY <1>8, <4>1
        <5>4. QED
          BY <4>3, <5>1, <5>2, <5>3, Zenon
      <4>5. Len(w) = n /\ \A i \in 1..n : w[i] = D[i].m
        BY <4>2
      <4>6. \A i \in 1..(n + 1) : q[i] = IF i <= n THEN w[i] ELSE Head(a)
        BY <1>7, <1>8, <4>1, <4>3, <4>5
      <4>7. PICK v \in Seq(Item) : v = Append(w, Head(a))
        <5>1. Head(a) \in Item
          BY <1>6 DEF Item
        <5>2. Append(w, Head(a)) \in Seq(Item)
          BY <3>4, <5>1
        <5>3. QED
          BY <5>2
      <4>8. Len(v) = n + 1 /\ \A i \in 1..(n + 1) : v[i] = IF i <= n THEN w[i] ELSE Head(a)
        BY <3>4, <4>5, <4>7
      <4>9. q \in Seq(Item) /\ Len(q) = n + 1
        <5>1. \A i \in 1..(n + 1) : v[i] \in Item
          BY <4>8
        <5>2. \A i \in 1..(n + 1) : Append(D, z)[i].m \in Item
          BY <4>3, <4>6, <4>8, <5>1
        <5>3. PICK k \in Nat : k = n + 1
          BY <4>1
        <5>4. ASSUME NEW g, \A i \in 1..k : g[i].m \in Item
              PROVE  /\ [i \in 1..k |-> g[i].m] \in Seq(Item)
                     /\ Len([i \in 1..k |-> g[i].m]) = k
          BY <5>4
        <5>5. QED
          BY <4>3, <5>2, <5>3, <5>4
      <4>10. \A i \in 1..Len(q) : q[i] = v[i]
        BY <4>6, <4>8, <4>9
      <4>11. q = v
        BY <4>8, <4>9, <4>10, SeqEqual
      <4>12. QED
        BY <4>4, <4>7, <4>11
    <3>6. Traffic(thread)' = Chain(Append(w, Head(a)), Tail(a), sending, todo, d, e)
      <4>1. Traffic(thread)' = Chain(Written(thread)', s2c'[thread'], sending', todo', c2s'[thread'],
                                      task'[thread'].held)
        BY DEF Traffic, Chain
      <4>2. /\ s2c'[thread'] = Tail(a) /\ sending' = sending /\ todo' = todo /\ c2s'[thread'] = d
            /\ task'[thread'].held = e
        BY <1>5, <1>9, <1>13, <1>15, <2>2, <3>3
      <4>3. QED
        BY <3>5, <4>1, <4>2
    <3>7. Traffic(thread)' = Traffic(s)
      BY <1>5, <3>4, <3>6, ChainDelivered
    <3>8. read'[thread'] = read[s]
      BY <1>5, <2>2
    <3>9. QED
      BY <3>2, <3>7, <3>8 DEF OneReplyEach
  <2>3. QED
    BY <2>1, <2>2
<1>23. QED
  BY <1>10, <1>18, <1>19, <1>20, <1>22, <1>17 DEF IInv

-----------------------------------------------------------------------------
(* The whole *)

\* Nothing was started and nothing read.
LEMMA InitInvariant ==
  ASSUME BoundsNat, Init
  PROVE  IInv
<1>1. \A s \in Servers : task[s] = NoTask /\ c2s[s] = <<>> /\ s2c[s] = <<>> /\ read[s] = 0
                         /\ delivered[s] = <<>>
  BY DEF Init
<1>2. TypesOfChannels
  <2>1. <<>> \in Seq(Request) /\ <<>> \in Seq(Reply) /\ <<>> \in Seq(Written1) /\ 0 \in Nat
    OBVIOUS
  <2>2. QED
    BY <2>1 DEF Init, TypesOfChannels
<1>3. TypesOfUi /\ TypesOfFlags
  <2>1. <<>> \in Seq(Request) /\ <<>> \in Seq(Reply) /\ <<>> \in Seq(WaveType)
    OBVIOUS
  <2>2. 0 \in 0..MaxServers /\ 0 \in 0..MaxClients
    BY DEF BoundsNat
  <2>3. QED
    BY <2>1, <2>2 DEF Init, TypesOfUi, TypesOfFlags
<1>4. TasksSound
  <2>1. NoTask \in TaskType
    <3>1. "none" \in Pcs /\ <<>> \in Seq(Request)
      BY DEF Pcs
    <3>2. QED
      BY <3>1 DEF NoTask, TaskType
  <2>2. TaskSound(NoTask)
    BY DEF NoTask, TaskSound
  <2>3. QED
    BY <1>1, <2>1, <2>2 DEF Init, TasksSound
<1>5. WithinCap
  <2>1. Len(<<>>) = 0 /\ 0 <= Cap
    BY DEF BoundsNat
  <2>2. QED
    BY <1>1, <2>1 DEF WithinCap
<1>6. NotStarted
  BY <1>1 DEF NotStarted
<1>7. OneReplyEach
  BY DEF Init, OneReplyEach
<1>8. QED
  BY <1>2, <1>3, <1>4, <1>5, <1>6, <1>7 DEF IInv

\* Every step keeps the invariant.
LEMMA NextInvariant ==
  ASSUME BoundsNat, CommandsKnown, IInv, [Next(Sent)]_vars
  PROVE  IInv'
<1>1. CASE TakeRequests
  BY <1>1, TakeInvariant
<1>2. CASE HandleNext
  BY <1>2, HandleInvariant
<1>3. CASE SendReply
  BY <1>3, SendInvariant
<1>4. CASE WaveformsLoaded
  BY <1>4, LoadedInvariant
<1>5. CASE Fold
  BY <1>5, FoldInvariant
<1>6. CASE StopWcpServer
  BY <1>6, StopInvariant
<1>7. CASE \E initiate \in BOOLEAN : StartWcpServer(initiate)
  BY <1>7, StartInvariant
<1>8. ASSUME NEW s \in Servers,
             \/ Bind(s) \/ Accept(s) \/ Forward(s) \/ Deliver(s) \/ EndWrite(s) \/ Disconnect(s)
             \/ StopSeen(s) \/ ClearGreeted(s) \/ ClearRunning(s) \/ SetStop(s)
             \/ \E command \in Sent : ReadFrame(s, command)
      PROVE  IInv'
  BY <1>8, ServerInvariant, ForwardInvariant, DeliverInvariant, ReadInvariant
<1>9. CASE UNCHANGED vars
  <2>1. UNCHANGED <<thread, stop, running, greeted, task, c2s, s2c, read, delivered,
                    todo, sending, caps, waves, clients>>
    BY <1>9 DEF vars
  <2>2. (TypesOfChannels /\ TypesOfUi /\ TypesOfFlags)'
    BY <2>1 DEF IInv, TypesOfChannels, TypesOfUi, TypesOfFlags
  <2>3. (TasksSound /\ WithinCap /\ NotStarted)'
    BY <2>1 DEF IInv, TasksSound, WithinCap, NotStarted
  <2>4. OneReplyEach'
    BY <2>1, Kept DEF IInv
  <2>5. QED
    BY <2>2, <2>3, <2>4 DEF IInv
<1>10. QED
  BY <1>1, <1>2, <1>3, <1>4, <1>5, <1>6, <1>7, <1>8, <1>9, Zenon DEF Next

\* The invariant says what the types of Wcp say.
LEMMA InvariantTypes ==
  ASSUME IInv
  PROVE  TypeOK
<1>1. TypesOfUi /\ TypesOfFlags /\ TasksSound /\ WithinCap
  BY DEF IInv
<1>2. QED
  BY <1>1 DEF TypesOfUi, TypesOfFlags, TasksSound, TaskSound, WithinCap, TypeOK

\* Every request the server read is answered once and in order, whatever the
\* user, the clients and the servers do, as long as the clients send commands
\* that handle_wcp_cs_message has a branch for.
THEOREM RequestsAnswered ==
  ASSUME BoundsNat, CommandsKnown
  PROVE  Spec => [](TypeOK /\ OneReplyEach)
<1>1. Init => IInv
  BY InitInvariant
<1>2. IInv /\ [Next(Sent)]_vars => IInv'
  BY NextInvariant
<1>3. IInv => TypeOK /\ OneReplyEach
  BY InvariantTypes DEF IInv
<1>4. QED
  BY <1>1, <1>2, <1>3, PTL DEF Spec
=============================================================================
