---------------------------- MODULE ServicesProofs ----------------------------
(***************************************************************************)
(* What the parts promise holds of the module that explores them side by   *)
(* side: its steps are steps of one part, which leave the others as they   *)
(* are.  The analog caches are proved about here; the server, the protocol *)
(* and the simulation in SurverProofs, WcpProofs and CxxrtlProofs.         *)
(***************************************************************************)
EXTENDS MCServices, Sequences, TLAPS

S == INSTANCE SurverProofs WITH MaxRequests <- ServerRequests
W == INSTANCE WcpProofs WITH Sent <- ClientCommands
X == INSTANCE CxxrtlProofs

\* The server's file has a first version (Surver's versions start at 1), and
\* the entries of the analog caches are counted.
VersionsNat == MaxVersion \in Nat \ {0}
EntriesNat == MaxEntries \in Nat

\* The channels of the protocol have a size, and the servers, clients and items
\* are counted.
ProtocolNat == /\ Cap \in Nat /\ MaxServers \in Nat /\ MaxClients \in Nat /\ MaxItems \in Nat

\* The channels to the simulation and the decoding tasks have limits, and the
\* simulation refuses no list: a cache would wait for it for good.
BoundsNat == MaxCommands \in Nat /\ MaxFills \in Nat
ListsNotRefused == Refused \cap {"list_scopes", "list_items", "list_items of module"} = {}

\* Each part goes on as its own module says, or stays as it is.
LEMMA PartSteps ==
  ASSUME [Next]_vars
  PROVE  /\ [server!Next]_(server!surverVars) /\ [analog!Next]_(analog!cacheVars)
         /\ [protocol!Next(ClientCommands)]_(protocol!vars)
         /\ [cxxrtl!UiNext \/ cxxrtl!OtherNext]_(cxxrtl!vars)
<1>1. UNCHANGED serverVars => UNCHANGED server!surverVars
  BY DEF server!surverVars, serverVars
<1>2. UNCHANGED analogVars => UNCHANGED analog!cacheVars
  BY DEF analog!cacheVars, analogVars
<1>3. UNCHANGED cxxrtlVars => UNCHANGED cxxrtl!vars
  BY DEF cxxrtl!vars, cxxrtlVars
<1>4. UNCHANGED protocolVars => UNCHANGED protocol!vars
  BY DEF protocol!vars, protocolVars
<1>5. \/ server!Next /\ UNCHANGED <<analogVars, protocolVars, cxxrtlVars>>
      \/ analog!Next /\ UNCHANGED <<serverVars, protocolVars, cxxrtlVars>>
      \/ protocol!Next(ClientCommands) /\ UNCHANGED <<serverVars, analogVars, cxxrtlVars>>
      \/ (cxxrtl!UiNext \/ cxxrtl!OtherNext) /\ UNCHANGED <<serverVars, analogVars, protocolVars>>
      \/ UNCHANGED <<serverVars, analogVars, protocolVars, cxxrtlVars>>
  <2>1. CASE ServerStep
    BY <2>1, Zenon DEF ServerStep
  <2>2. CASE AnalogStep
    BY <2>2, Zenon DEF AnalogStep
  <2>3. CASE ProtocolStep
    BY <2>3, Zenon DEF ProtocolStep
  <2>4. CASE CxxrtlStep
    BY <2>4, Zenon DEF CxxrtlStep
  <2>5. CASE UNCHANGED vars
    BY <2>5 DEF vars
  <2>6. QED
    BY <2>1, <2>2, <2>3, <2>4, <2>5, Zenon DEF Next
<1>6. QED
  BY <1>1, <1>2, <1>3, <1>4, <1>5, Zenon

-----------------------------------------------------------------------------
(* The analog caches.  Generations start again from 0 with a new waveform,   *)
(* so a generation alone does not tell a row's entry from one of an earlier  *)
(* waveform.  The inductive invariant is about every entry that a row or the *)
(* registry holds: it is of this generation and of this waveform, and all    *)
(* that is drawn or in flight under one key is the same entry.               *)

Entry == [key : Translators, generation : Nat, ready : BOOLEAN, wave : Nat]
CacheRequest == [row : Rows, key : Translators]

CachesTyped ==
  /\ row \in [Rows -> analog!Row]
  /\ entries \in Seq(Entry) /\ Len(entries) <= MaxEntries
  /\ wave \in Nat /\ generation \in Nat
  /\ DOMAIN inflight \subseteq Translators
  /\ building \subseteq DOMAIN entries
  /\ \A m \in results : m.entry \in DOMAIN entries
  /\ drawRequests \subseteq CacheRequest

\* An entry of the waveform shown, in its generation.
Current(e) ==
  e \in DOMAIN entries /\ entries[e].generation = generation /\ entries[e].wave = wave

\* A row that has an entry has a current one; a row that is not analog has none.
RowsCurrent ==
  \A r \in Rows : /\ row[r].cache # analog!NoEntry => Current(row[r].cache)
                  /\ ~row[r].analog => row[r].cache = analog!NoEntry

InFlightCurrent ==
  \A k \in DOMAIN inflight : Current(inflight[k]) /\ entries[inflight[k]].key = k

\* The row is drawn with entry e.
DrawnWith(r, e) == analog!Drawn(r) /\ row[r].cache = e /\ e # analog!NoEntry

\* One entry per key, among the rows drawn and what is in flight.
OneForAll ==
  /\ \A r, q \in Rows : \A d, e \in DOMAIN entries :
       DrawnWith(r, d) /\ DrawnWith(q, e) /\ entries[d].key = entries[e].key => d = e
  /\ \A r \in Rows : \A e \in DOMAIN entries :
       DrawnWith(r, e) /\ entries[e].key \in DOMAIN inflight => e = inflight[entries[e].key]

CachesInv == CachesTyped /\ RowsCurrent /\ InFlightCurrent /\ OneForAll

-----------------------------------------------------------------------------
(* Steps that change one row *)

\* Entry e is the one of its key among the rows other than r and in flight.
OnlyOne(r, e) ==
  /\ \A q \in Rows \ {r} : \A d \in DOMAIN entries :
       DrawnWith(q, d) /\ entries[d].key = entries[e].key => d = e
  /\ entries[e].key \in DOMAIN inflight => e = inflight[entries[e].key]

\* One row becomes n: what it holds then must be current, and the only entry of
\* its key when the row is drawn.
LEMMA RowStep ==
  ASSUME CachesInv, NEW r \in Rows, NEW n \in analog!Row,
         row' = [row EXCEPT ![r] = n],
         entries' = entries, wave' = wave, generation' = generation, inflight' = inflight,
         building' = building, results' = results, drawRequests' \subseteq CacheRequest,
         n.cache # analog!NoEntry => Current(n.cache) /\ n.analog,
         n.cache # analog!NoEntry /\ n.shown => OnlyOne(r, n.cache)
  PROVE  CachesInv'
<1>1. /\ row' \in [Rows -> analog!Row] /\ row'[r] = n
      /\ \A q \in Rows \ {r} : row'[q] = row[q]
  BY DEF CachesInv, CachesTyped
<1>2. \A e : Current(e)' <=> Current(e)
  BY DEF Current
<1>3. CachesTyped'
  BY <1>1 DEF CachesInv, CachesTyped
<1>4. RowsCurrent'
  BY <1>1, <1>2 DEF CachesInv, RowsCurrent
<1>5. InFlightCurrent'
  BY <1>2 DEF CachesInv, InFlightCurrent
<1>6. \A q \in Rows \ {r} : \A e : DrawnWith(q, e)' <=> DrawnWith(q, e)
  BY <1>1 DEF DrawnWith, analog!Drawn
<1>7. \A e : DrawnWith(r, e)' => e = n.cache /\ n.shown /\ e # analog!NoEntry
  BY <1>1 DEF DrawnWith, analog!Drawn
<1>8. OneForAll'
  <2>1. ASSUME NEW p \in Rows, NEW q \in Rows, NEW d \in DOMAIN entries, NEW e \in DOMAIN entries,
               DrawnWith(p, d)', DrawnWith(q, e)', entries[d].key = entries[e].key
        PROVE  d = e
    <3>1. CASE p = r
      BY <1>6, <1>7, <2>1, <3>1 DEF OnlyOne
    <3>2. CASE q = r
      BY <1>6, <1>7, <2>1, <3>2 DEF OnlyOne
    <3>3. CASE p # r /\ q # r
      BY <1>6, <2>1, <3>3 DEF CachesInv, OneForAll
    <3>4. QED
      BY <3>1, <3>2, <3>3
  <2>2. ASSUME NEW q \in Rows, NEW e \in DOMAIN entries,
               DrawnWith(q, e)', entries[e].key \in DOMAIN inflight
        PROVE  e = inflight[entries[e].key]
    <3>1. CASE q = r
      BY <1>7, <2>2, <3>1 DEF OnlyOne
    <3>2. CASE q # r
      BY <1>6, <2>2, <3>2 DEF CachesInv, OneForAll
    <3>3. QED
      BY <3>1, <3>2
  <2>3. QED
    BY <2>1, <2>2 DEF OneForAll
<1>9. QED
  BY <1>3, <1>4, <1>5, <1>8 DEF CachesInv

\* What a drawn row holds is the only entry of its key.
LEMMA DrawnIsOnlyOne ==
  ASSUME CachesInv, NEW r \in Rows, analog!Drawn(r), row[r].cache # analog!NoEntry
  PROVE  \A q \in Rows : OnlyOne(q, row[r].cache)
<1>1. row[r].cache \in DOMAIN entries /\ DrawnWith(r, row[r].cache)
  BY DEF CachesInv, RowsCurrent, Current, DrawnWith
<1>2. QED
  BY <1>1 DEF CachesInv, OneForAll, OnlyOne

\* Removing, restoring and formatting a row, and its analog settings.
LEMMA RowKeeps ==
  ASSUME EntriesNat, CachesInv, NEW r \in Rows,
         \/ analog!RemoveRow(r)
         \/ analog!RestoreRow(r)
         \/ \E f \in Translators : analog!SetFormat(r, f)
         \/ \E on \in BOOLEAN : analog!SetAnalogSettings(r, on)
  PROVE  CachesInv'
<1>0. Len(entries) \in Nat /\ Len(entries) <= MaxEntries /\ MaxEntries \in Nat
  BY DEF CachesInv, CachesTyped, EntriesNat
<1>1. row[r] \in analog!Row /\ drawRequests \subseteq CacheRequest
  BY DEF CachesInv, CachesTyped
<1>2. /\ row[r].cache # analog!NoEntry => Current(row[r].cache) /\ row[r].analog
      /\ row[r].cache # analog!NoEntry /\ row[r].shown => OnlyOne(r, row[r].cache)
  BY <1>1, DrawnIsOnlyOne DEF CachesInv, RowsCurrent, analog!Drawn, analog!Row
<1>3. PICK n : /\ row' = [row EXCEPT ![r] = n] /\ n \in analog!Row
               /\ \/ n.cache = analog!NoEntry
                  \/ n.cache = row[r].cache /\ (n.shown => row[r].shown)
                     /\ (row[r].analog => n.analog)
  <2>1. CASE analog!RemoveRow(r)
    <3>1. PICK n : n = [row[r] EXCEPT !.shown = FALSE]
      OBVIOUS
    <3>2. row' = [row EXCEPT ![r] = n]
      BY <2>1, <3>1 DEF analog!RemoveRow
    <3>3. n \in analog!Row /\ n.cache = row[r].cache /\ n.shown = FALSE /\ n.analog = row[r].analog
      BY <1>1, <3>1 DEF analog!Row
    <3>4. QED
      BY <3>2, <3>3
  <2>2. CASE analog!RestoreRow(r)
    <3>1. PICK n : n = [row[r] EXCEPT !.shown = TRUE, !.cache = analog!NoEntry]
      OBVIOUS
    <3>2. row' = [row EXCEPT ![r] = n]
      BY <2>2, <3>1 DEF analog!RestoreRow
    <3>3. analog!NoEntry \in 0..MaxEntries
      BY <1>0 DEF analog!NoEntry
    <3>4. n \in analog!Row /\ n.cache = analog!NoEntry
      BY <1>1, <3>1, <3>3 DEF analog!Row
    <3>5. QED
      BY <3>2, <3>4
  <2>3. ASSUME NEW f \in Translators, analog!SetFormat(r, f)
        PROVE  \E n \in analog!Row : /\ row' = [row EXCEPT ![r] = n] /\ n.cache = row[r].cache
                              /\ n.shown = row[r].shown /\ n.analog = row[r].analog
    <3>1. PICK n : n = [row[r] EXCEPT !.format = f]
      OBVIOUS
    <3>2. row' = [row EXCEPT ![r] = n]
      BY <2>3, <3>1 DEF analog!SetFormat
    <3>3. /\ n \in analog!Row /\ n.cache = row[r].cache
          /\ n.shown = row[r].shown /\ n.analog = row[r].analog
      BY <1>1, <3>1 DEF analog!Row
    <3>4. QED
      BY <3>2, <3>3
  <2>4. ASSUME NEW on \in BOOLEAN, analog!SetAnalogSettings(r, on)
        PROVE  \E n \in analog!Row : /\ row' = [row EXCEPT ![r] = n]
                              /\ n.shown = row[r].shown /\ n.analog = on
                              /\ n.cache = IF on THEN row[r].cache ELSE analog!NoEntry
    <3>1. PICK c : c = IF on THEN row[r].cache ELSE analog!NoEntry
      OBVIOUS
    <3>2. c \in 0..MaxEntries
      BY <1>0, <1>1, <3>1 DEF analog!Row, analog!NoEntry
    <3>3. PICK n : n = [row[r] EXCEPT !.analog = on, !.cache = c]
      OBVIOUS
    <3>4. row' = [row EXCEPT ![r] = n]
      BY <2>4, <3>1, <3>3 DEF analog!SetAnalogSettings
    <3>5. n \in analog!Row /\ n.cache = c /\ n.shown = row[r].shown /\ n.analog = on
      BY <1>1, <3>2, <3>3 DEF analog!Row
    <3>6. QED
      BY <3>1, <3>4, <3>5
  <2>5. QED
    BY <2>1, <2>2, <2>3, <2>4
<1>4. UNCHANGED <<entries, wave, generation, inflight, building, results, drawRequests>>
  BY DEF analog!RemoveRow, analog!RestoreRow, analog!SetFormat, analog!SetAnalogSettings
<1>5. QED
  BY <1>1, <1>2, <1>3, <1>4, RowStep

-----------------------------------------------------------------------------
(* Steps of the caches *)

\* An entry of another row that is shared is current, of the key asked for, and
\* the only one of its key.
LEMMA ShareableIsOnlyOne ==
  ASSUME CachesInv, NEW r \in Rows, NEW key, NEW e \in analog!Shareable(key)
  PROVE  e # analog!NoEntry /\ Current(e) /\ OnlyOne(r, e)
<1>1. PICK q \in Rows : analog!Drawn(q) /\ analog!Valid(q, key) /\ row[q].cache = e
  BY DEF analog!Shareable, analog!Drawn
<1>2. e # analog!NoEntry
  BY <1>1 DEF analog!Valid
<1>3. QED
  BY <1>1, <1>2, DrawnIsOnlyOne DEF CachesInv, RowsCurrent

\* A request that is ignored or served with an entry that is there.
LEMMA ShareKeeps ==
  ASSUME EntriesNat, CachesInv, NEW q \in drawRequests,
         analog!RequestIgnored(q) \/ analog!ShareInFlight(q) \/ analog!ShareExisting(q),
         drawRequests' = drawRequests \ {q}, UNCHANGED <<wave, generation, waveLoaded, results>>
  PROVE  CachesInv'
<1>1. q.row \in Rows /\ row[q.row] \in analog!Row /\ drawRequests' \subseteq CacheRequest
  BY DEF CachesInv, CachesTyped, CacheRequest
<1>2. UNCHANGED <<entries, wave, generation, inflight, building, results>>
  BY DEF analog!RequestIgnored, analog!ShareInFlight, analog!ShareExisting
<1>3. CASE analog!RequestIgnored(q)
  <2>1. row' = row
    BY <1>3 DEF analog!RequestIgnored
  <2>2. row' = [row EXCEPT ![q.row] = row[q.row]]
    BY <1>1, <2>1 DEF CachesInv, CachesTyped
  <2>3. /\ row[q.row].cache # analog!NoEntry => Current(row[q.row].cache) /\ row[q.row].analog
        /\ row[q.row].cache # analog!NoEntry /\ row[q.row].shown
             => OnlyOne(q.row, row[q.row].cache)
    BY <1>1, DrawnIsOnlyOne DEF CachesInv, RowsCurrent, analog!Drawn, analog!Row
  <2>4. QED
    BY <1>1, <1>2, <2>2, <2>3, RowStep
<1>4. ASSUME NEW e, e # analog!NoEntry, Current(e), OnlyOne(q.row, e),
             analog!Attach(q.row, e), analog!Drawn(q.row)
      PROVE  CachesInv'
  <2>1. e \in 0..MaxEntries
    BY <1>4 DEF Current, CachesInv, CachesTyped, EntriesNat
  <2>2. PICK n : n = [row[q.row] EXCEPT !.cache = e]
    OBVIOUS
  <2>3. row' = [row EXCEPT ![q.row] = n]
    BY <1>4, <2>2 DEF analog!Attach
  <2>4. n \in analog!Row /\ n.cache = e /\ n.analog = row[q.row].analog
    BY <1>1, <2>1, <2>2 DEF analog!Row
  <2>5. n.analog
    BY <1>4, <2>4 DEF analog!Drawn
  <2>6. QED
    BY <1>1, <1>2, <1>4, <2>3, <2>4, <2>5, RowStep
<1>5. CASE analog!ShareInFlight(q)
  <2>1. PICK e : e = inflight[q.key]
    OBVIOUS
  <2>2. q.key \in DOMAIN inflight /\ analog!Attach(q.row, e) /\ analog!Drawn(q.row)
    BY <1>5, <2>1 DEF analog!ShareInFlight, analog!InFlight
  <2>3. Current(e) /\ entries[e].key = q.key /\ e \in DOMAIN entries /\ e # analog!NoEntry
    BY <2>1, <2>2 DEF CachesInv, CachesTyped, InFlightCurrent, Current, analog!NoEntry
  <2>4. OnlyOne(q.row, e)
    BY <2>1, <2>2, <2>3 DEF CachesInv, OneForAll, OnlyOne
  <2>5. QED
    BY <1>4, <2>2, <2>3, <2>4
<1>6. CASE analog!ShareExisting(q)
  <2>1. PICK e \in analog!Shareable(q.key) : analog!Attach(q.row, e) /\ analog!Drawn(q.row)
    BY <1>6 DEF analog!ShareExisting
  <2>2. QED
    BY <1>1, <1>4, <2>1, ShareableIsOnlyOne
<1>7. QED
  BY <1>3, <1>5, <1>6

\* A new entry: nothing that is drawn or in flight has its key.
LEMMA StartBuildKeeps ==
  ASSUME EntriesNat, CachesInv, NEW q \in drawRequests, analog!StartBuild(q),
         drawRequests' = drawRequests \ {q}, UNCHANGED <<wave, generation, waveLoaded, results>>
  PROVE  CachesInv'
<1>1. /\ q.row \in Rows /\ q.key \in Translators
      /\ row \in [Rows -> analog!Row] /\ row[q.row] \in analog!Row
      /\ drawRequests' \subseteq CacheRequest
  BY DEF CachesInv, CachesTyped, CacheRequest
<1>2. PICK new : new = [key |-> q.key, generation |-> generation, ready |-> FALSE, wave |-> wave]
  OBVIOUS
<1>3. new \in Entry /\ new.key = q.key /\ new.generation = generation /\ new.wave = wave
  BY <1>1, <1>2 DEF CachesInv, CachesTyped, Entry
<1>4. PICK m : m = Len(entries) + 1
  OBVIOUS
<1>5. /\ entries \in Seq(Entry) /\ entries' = Append(entries, new)
      /\ Len(entries) \in Nat /\ Len(entries) < MaxEntries
  BY <1>2 DEF analog!StartBuild, CachesInv, CachesTyped
<1>6. /\ entries' \in Seq(Entry) /\ Len(entries') = m /\ m <= MaxEntries /\ m \in 1..MaxEntries
      /\ DOMAIN entries' = DOMAIN entries \cup {m} /\ m \notin DOMAIN entries
      /\ entries'[m] = new /\ \A e \in DOMAIN entries : entries'[e] = entries[e]
  BY <1>3, <1>4, <1>5 DEF EntriesNat
<1>7. \A e : Current(e) => Current(e)' /\ entries'[e] = entries[e]
  BY <1>6 DEF Current
<1>8. Current(m)' /\ entries'[m].key = q.key
  BY <1>3, <1>6 DEF Current
<1>9. PICK n : n = [row[q.row] EXCEPT !.cache = m]
  OBVIOUS
<1>10. /\ n \in analog!Row /\ n.cache = m /\ n.analog = row[q.row].analog /\ n.analog
       /\ m # analog!NoEntry
  <2>1. m \in 0..MaxEntries /\ m # analog!NoEntry
    BY <1>6 DEF EntriesNat, analog!NoEntry
  <2>2. n \in analog!Row /\ n.cache = m /\ n.analog = row[q.row].analog
    BY <1>1, <1>9, <2>1 DEF analog!Row
  <2>3. n.analog
    BY <2>2 DEF analog!StartBuild, analog!Drawn
  <2>4. QED
    BY <2>1, <2>2, <2>3
<1>11. row' = [row EXCEPT ![q.row] = n]
  BY <1>6, <1>9 DEF analog!StartBuild, analog!Attach
<1>12. /\ row' \in [Rows -> analog!Row] /\ row'[q.row] = n
       /\ \A r \in Rows \ {q.row} : row'[r] = row[r]
  BY <1>1, <1>10, <1>11
<1>13. /\ DOMAIN inflight' = DOMAIN inflight \cup {q.key} /\ inflight'[q.key] = m
       /\ \A k \in DOMAIN inflight \ {q.key} : inflight'[k] = inflight[k]
  BY <1>6 DEF analog!StartBuild, analog!With
<1>14. q.key \notin DOMAIN inflight
  BY DEF analog!StartBuild, analog!InFlight, CachesInv, InFlightCurrent, Current
<1>15. \A r \in Rows : \A e \in DOMAIN entries : DrawnWith(r, e) => entries[e].key # q.key
  <2>1. ASSUME NEW r \in Rows, NEW e \in DOMAIN entries, DrawnWith(r, e), entries[e].key = q.key
        PROVE  FALSE
    <3>1. analog!Drawn(r) /\ row[r].cache = e /\ e # analog!NoEntry /\ Current(e)
      BY <2>1 DEF DrawnWith, CachesInv, RowsCurrent
    <3>2. analog!Valid(r, q.key)
      BY <2>1, <3>1 DEF analog!Valid, Current
    <3>3. row[r].cache \in analog!Shareable(q.key)
      BY <3>1, <3>2 DEF analog!Shareable, analog!Drawn
    <3>4. QED
      BY <3>3 DEF analog!StartBuild
  <2>2. QED
    BY <2>1
<1>16. \A r \in Rows \ {q.row} : \A e : DrawnWith(r, e)' <=> DrawnWith(r, e)
  BY <1>12 DEF DrawnWith, analog!Drawn
<1>17. \A e : DrawnWith(q.row, e)' => e = m
  BY <1>10, <1>12 DEF DrawnWith, analog!Drawn
<1>18. CachesTyped'
  <2>1. building' \subseteq DOMAIN entries'
    BY <1>6 DEF analog!StartBuild, CachesInv, CachesTyped
  <2>2. \A k \in results' : k.entry \in DOMAIN entries'
    BY <1>6 DEF CachesInv, CachesTyped
  <2>3. QED
    BY <1>1, <1>6, <1>12, <1>13, <2>1, <2>2 DEF CachesInv, CachesTyped
<1>19. RowsCurrent'
  BY <1>7, <1>8, <1>10, <1>12 DEF CachesInv, RowsCurrent
<1>20. InFlightCurrent'
  BY <1>7, <1>8, <1>13 DEF CachesInv, InFlightCurrent
<1>21. \A r \in Rows : \A e \in DOMAIN entries' :
         DrawnWith(r, e)' => \/ r = q.row /\ e = m
                             \/ /\ r # q.row /\ e \in DOMAIN entries /\ DrawnWith(r, e)
                                /\ entries'[e] = entries[e] /\ entries[e].key # q.key
  <2>1. ASSUME NEW r \in Rows, r # q.row, NEW e, DrawnWith(r, e)
        PROVE  e \in DOMAIN entries
    BY <2>1 DEF DrawnWith, CachesInv, RowsCurrent, Current
  <2>2. QED
    BY <1>6, <1>15, <1>16, <1>17, <2>1
<1>22. OneForAll'
  <2>1. ASSUME NEW p \in Rows, NEW r \in Rows, NEW d \in DOMAIN entries', NEW e \in DOMAIN entries',
               DrawnWith(p, d)', DrawnWith(r, e)', entries'[d].key = entries'[e].key
        PROVE  d = e
    BY <1>8, <1>21, <2>1 DEF CachesInv, OneForAll
  <2>2. ASSUME NEW r \in Rows, NEW e \in DOMAIN entries',
               DrawnWith(r, e)', entries'[e].key \in DOMAIN inflight'
        PROVE  e = inflight'[entries'[e].key]
    BY <1>8, <1>13, <1>21, <2>2 DEF CachesInv, OneForAll
  <2>3. QED
    BY <2>1, <2>2 DEF OneForAll
<1>23. QED
  BY <1>18, <1>19, <1>20, <1>22 DEF CachesInv

\* A waveform is loaded: no row and no registration keeps an entry.
LEMMA LoadKeeps ==
  ASSUME EntriesNat, CachesInv, analog!Reload \/ analog!LoadNew
  PROVE  CachesInv'
<1>1. /\ UNCHANGED <<entries, building, results, drawRequests>>
      /\ inflight' = [k \in {} |-> 0] /\ DOMAIN inflight' = {}
      /\ wave' \in Nat /\ generation' \in Nat
  <2>1. wave \in Nat /\ generation \in Nat
    BY DEF CachesInv, CachesTyped
  <2>2. /\ UNCHANGED <<entries, building, results, drawRequests>>
        /\ inflight' = [k \in {} |-> 0] /\ wave' = wave + 1
        /\ generation' = generation + 1 \/ generation' = 0
    BY DEF analog!Reload, analog!LoadNew
  <2>3. QED
    BY <2>1, <2>2
<1>2. /\ row' \in [Rows -> analog!Row]
      /\ \A r \in Rows : row'[r].cache = analog!NoEntry
  <2>1. ASSUME NEW r \in Rows
        PROVE  /\ [row[r] EXCEPT !.cache = analog!NoEntry] \in analog!Row
               /\ [row[r] EXCEPT !.cache = analog!NoEntry].cache = analog!NoEntry
               /\ [row[r] EXCEPT !.shown = FALSE, !.cache = analog!NoEntry] \in analog!Row
               /\ [row[r] EXCEPT !.shown = FALSE, !.cache = analog!NoEntry].cache = analog!NoEntry
    <3>1. row[r] \in analog!Row
      BY DEF CachesInv, CachesTyped
    <3>2. analog!NoEntry \in 0..MaxEntries
      BY DEF CachesInv, CachesTyped, analog!NoEntry, EntriesNat
    <3>3. QED
      BY <3>1, <3>2 DEF analog!Row
  <2>2. CASE analog!Reload
    BY <2>1, <2>2 DEF analog!Reload
  <2>3. CASE analog!LoadNew
    BY <2>1, <2>3 DEF analog!LoadNew
  <2>4. QED
    BY <2>2, <2>3
<1>3. \A r \in Rows : \A e : ~DrawnWith(r, e)'
  BY <1>2 DEF DrawnWith
<1>4. CachesTyped'
  BY <1>1, <1>2 DEF CachesInv, CachesTyped
<1>5. RowsCurrent' /\ InFlightCurrent' /\ OneForAll'
  BY <1>1, <1>2, <1>3 DEF RowsCurrent, InFlightCurrent, OneForAll
<1>6. QED
  BY <1>4, <1>5 DEF CachesInv

\* The rows and what is in flight stay, or less is in flight; entries get ready.
LEMMA EntriesStep ==
  ASSUME CachesInv, UNCHANGED <<row, wave, generation>>,
         entries' \in Seq(Entry), DOMAIN entries' = DOMAIN entries, Len(entries') = Len(entries),
         \A e \in DOMAIN entries : /\ entries'[e].key = entries[e].key
                                   /\ entries'[e].generation = entries[e].generation
                                   /\ entries'[e].wave = entries[e].wave,
         DOMAIN inflight' \subseteq DOMAIN inflight,
         \A k \in DOMAIN inflight' : inflight'[k] = inflight[k],
         building' \subseteq DOMAIN entries,
         \A m \in results' : m.entry \in DOMAIN entries,
         drawRequests' \subseteq CacheRequest
  PROVE  CachesInv'
<1>1. CachesTyped'
  BY DEF CachesInv, CachesTyped
<1>2. \A e : Current(e) => Current(e)'
  BY DEF Current
<1>3. RowsCurrent'
  BY <1>2 DEF CachesInv, RowsCurrent
<1>4. InFlightCurrent'
  <2>1. ASSUME NEW k \in DOMAIN inflight'
        PROVE  /\ inflight'[k] \in DOMAIN entries' /\ entries'[inflight'[k]].generation = generation'
               /\ entries'[inflight'[k]].wave = wave' /\ entries'[inflight'[k]].key = k
    BY <2>1 DEF CachesInv, InFlightCurrent, Current
  <2>2. QED
    BY <2>1 DEF InFlightCurrent, Current
<1>5. \A r, e : DrawnWith(r, e)' <=> DrawnWith(r, e)
  BY DEF DrawnWith, analog!Drawn
<1>6. OneForAll'
  BY <1>5 DEF CachesInv, OneForAll
<1>7. QED
  BY <1>1, <1>3, <1>4, <1>6 DEF CachesInv

\* Drawing asks, a task ends, its result arrives, signals arrive.
LEMMA CacheTaskKeeps ==
  ASSUME CachesInv,
         \/ \E r \in Rows : analog!Draw(r)
         \/ \E e \in building, ok \in BOOLEAN : analog!FinishBuild(e, ok)
         \/ \E m \in results : analog!AnalogCacheBuilt(m)
         \/ analog!LoadSignals
  PROVE  CachesInv'
<1>1. /\ entries \in Seq(Entry) /\ drawRequests \subseteq CacheRequest
      /\ building \subseteq DOMAIN entries
  BY DEF CachesInv, CachesTyped
<1>2. ASSUME NEW r \in Rows, analog!Draw(r)
      PROVE  CachesInv'
  <2>1. row[r].format \in Translators
    BY DEF CachesInv, CachesTyped, analog!Row
  <2>2. drawRequests' \subseteq CacheRequest
    BY <1>1, <1>2, <2>1 DEF analog!Draw, CacheRequest
  <2>3. UNCHANGED <<row, wave, generation, entries, inflight, building, results>>
    BY <1>2 DEF analog!Draw
  <2>4. QED
    BY <1>1, <2>2, <2>3, EntriesStep DEF CachesInv, CachesTyped
<1>3. ASSUME NEW e \in building, NEW ok \in BOOLEAN, analog!FinishBuild(e, ok)
      PROVE  CachesInv'
  <2>1. UNCHANGED <<row, wave, generation, entries, inflight, drawRequests>>
    BY <1>3 DEF analog!FinishBuild
  <2>2. building' \subseteq DOMAIN entries /\ \A m \in results' : m.entry \in DOMAIN entries
    BY <1>1, <1>3 DEF analog!FinishBuild, CachesInv, CachesTyped
  <2>3. QED
    BY <1>1, <2>1, <2>2, EntriesStep
<1>4. ASSUME NEW m \in results, analog!AnalogCacheBuilt(m)
      PROVE  CachesInv'
  <2>1. UNCHANGED <<row, wave, generation, building, drawRequests>>
    BY <1>4 DEF analog!AnalogCacheBuilt
  <2>2. m.entry \in DOMAIN entries /\ \A k \in results' : k.entry \in DOMAIN entries
    BY <1>4 DEF analog!AnalogCacheBuilt, CachesInv, CachesTyped
  <2>3. DOMAIN inflight' \subseteq DOMAIN inflight /\ \A k \in DOMAIN inflight' : inflight'[k] = inflight[k]
    BY <1>4 DEF analog!AnalogCacheBuilt, analog!Without
  <2>4. PICK x : x = [entries[m.entry] EXCEPT !.ready = TRUE]
    OBVIOUS
  <2>5. /\ x \in Entry /\ x.key = entries[m.entry].key
        /\ x.generation = entries[m.entry].generation /\ x.wave = entries[m.entry].wave
    <3>1. entries[m.entry] \in Entry
      BY <1>1, <2>2
    <3>2. QED
      BY <2>4, <3>1 DEF Entry
  <2>6. entries' = [entries EXCEPT ![m.entry] = x] \/ entries' = entries
    BY <1>4, <2>4 DEF analog!AnalogCacheBuilt
  <2>7. /\ entries' \in Seq(Entry) /\ DOMAIN entries' = DOMAIN entries /\ Len(entries') = Len(entries)
        /\ \A e \in DOMAIN entries : /\ entries'[e].key = entries[e].key
                                     /\ entries'[e].generation = entries[e].generation
                                     /\ entries'[e].wave = entries[e].wave
    BY <1>1, <2>2, <2>5, <2>6
  <2>8. QED
    BY <1>1, <2>1, <2>2, <2>3, <2>7, EntriesStep
<1>5. CASE analog!LoadSignals
  <2>1. UNCHANGED <<row, wave, generation, entries, inflight, building, results, drawRequests>>
    BY <1>5 DEF analog!LoadSignals
  <2>2. QED
    BY <1>1, <2>1, EntriesStep DEF CachesInv, CachesTyped
<1>6. QED
  BY <1>2, <1>3, <1>4, <1>5

LEMMA CachesStart ==
  ASSUME EntriesNat, analog!Init
  PROVE  CachesInv
<1>1. ASSUME NEW r \in Rows
      PROVE  row[r] \in analog!Row /\ row[r].cache = analog!NoEntry
  <2>1. row[r] \in {[shown |-> TRUE, analog |-> TRUE, format |-> f, cache |-> analog!NoEntry]
                      : f \in Translators}
    BY <1>1 DEF analog!Init
  <2>2. PICK f \in Translators :
          row[r] = [shown |-> TRUE, analog |-> TRUE, format |-> f, cache |-> analog!NoEntry]
    BY <2>1
  <2>3. analog!NoEntry \in 0..MaxEntries
    BY DEF analog!NoEntry, EntriesNat
  <2>4. QED
    BY <2>2, <2>3 DEF analog!Row
<1>2. row \in [Rows -> analog!Row]
  BY <1>1 DEF analog!Init
<1>3. DOMAIN inflight = {} /\ entries \in Seq(Entry) /\ Len(entries) = 0
  BY DEF analog!Init
<1>4. CachesTyped
  BY <1>2, <1>3 DEF analog!Init, CachesTyped, EntriesNat
<1>5. RowsCurrent /\ InFlightCurrent /\ OneForAll
  BY <1>1, <1>3 DEF RowsCurrent, InFlightCurrent, OneForAll, DrawnWith
<1>6. QED
  BY <1>4, <1>5 DEF CachesInv

LEMMA CachesStep ==
  ASSUME EntriesNat, CachesInv, [analog!Next]_(analog!cacheVars)
  PROVE  CachesInv'
<1>1. ASSUME NEW q \in drawRequests, analog!BuildAnalogCache(q)
      PROVE  CachesInv'
  BY <1>1, ShareKeeps, StartBuildKeeps DEF analog!BuildAnalogCache
<1>2. CASE UNCHANGED analog!cacheVars
  BY <1>2, EntriesStep DEF analog!cacheVars, CachesInv, CachesTyped
<1>3. QED
  BY <1>1, <1>2, RowKeeps, LoadKeeps, CacheTaskKeeps, Zenon DEF analog!Next

\* What the invariant says of the rows that are drawn.
LEMMA CachesInvKeeps ==
  ASSUME CachesInv
  PROVE  analog!TypeOK /\ analog!OneEntryPerKey /\ analog!EntriesOfThisWave
<1>1. analog!TypeOK
  <2>1. \A e \in DOMAIN entries : entries[e] \in Entry
    BY DEF CachesInv, CachesTyped
  <2>2. \A e \in DOMAIN entries : entries[e].key \in Translators /\ entries[e].generation \in Nat
    BY <2>1 DEF Entry
  <2>3. \A k \in DOMAIN inflight : inflight[k] \in DOMAIN entries /\ entries[inflight[k]].key = k
    BY DEF CachesInv, InFlightCurrent, Current
  <2>4. QED
    BY <2>2, <2>3 DEF CachesInv, CachesTyped, analog!TypeOK
<1>2. analog!OneEntryPerKey
  <2>1. ASSUME NEW r \in Rows, NEW q \in Rows, analog!Drawn(r), analog!Drawn(q),
               row[r].format = row[q].format,
               analog!Valid(r, row[r].format), analog!Valid(q, row[q].format)
        PROVE  row[r].cache = row[q].cache
    <3>1. /\ row[r].cache \in DOMAIN entries /\ DrawnWith(r, row[r].cache)
          /\ row[q].cache \in DOMAIN entries /\ DrawnWith(q, row[q].cache)
          /\ entries[row[r].cache].key = entries[row[q].cache].key
      BY <2>1 DEF analog!Valid, DrawnWith, CachesInv, RowsCurrent, Current
    <3>2. QED
      BY <3>1 DEF CachesInv, OneForAll
  <2>2. QED
    BY <2>1 DEF analog!OneEntryPerKey
<1>3. analog!EntriesOfThisWave
  BY DEF CachesInv, RowsCurrent, Current, analog!Valid, analog!EntriesOfThisWave
<1>4. QED
  BY <1>1, <1>2, <1>3

-----------------------------------------------------------------------------
(* The parts explored are those proved about: the same modules with the same *)
(* parameters, under two names.                                              *)

\* The server.
LEMMA SameServer ==
  /\ server!Init => S!Init
  /\ [server!Next]_(server!surverVars) => [S!Next]_(S!surverVars)
  /\ S!TypeOK => server!TypeOK
  /\ S!Service!Init => server!Service!Init
  /\ [S!Service!Next]_(S!Service!serviceVars) => [server!Service!Next]_(server!Service!serviceVars)
<1>1. server!Init => S!Init
  BY DEF server!Init, S!Init, server!Idle, S!Idle, server!NoSignals, S!NoSignals
<1>2. [server!Next]_(server!surverVars) => [S!Next]_(S!surverVars)
  BY DEF server!Versions, server!Commands, server!IdArgs, server!NoSignals,
         server!FileInfo, server!Idle, server!Init, server!WriteFile, server!RemoveFile,
         server!Answered, server!Receive, server!SendRequest, server!HasTimes,
         server!Available, server!DataFor, server!Check, server!StartWaiting,
         server!Abandon, server!ReloadMeta, server!Unchanged, server!ReloadDecide,
         server!SendReload, server!NotifyWaiters, server!ReadBody, server!Publish,
         server!RecvSignals, server!StoreSignals, server!RecvReload, server!Serve,
         server!Load, server!Next, server!surverVars, S!Versions, S!Commands, S!IdArgs,
         S!NoSignals, S!FileInfo, S!Idle, S!Init, S!WriteFile, S!RemoveFile, S!Answered,
         S!Receive, S!SendRequest, S!HasTimes, S!Available, S!DataFor, S!Check,
         S!StartWaiting, S!Abandon, S!ReloadMeta, S!Unchanged, S!ReloadDecide,
         S!SendReload, S!NotifyWaiters, S!ReadBody, S!Publish, S!RecvSignals,
         S!StoreSignals, S!RecvReload, S!Serve, S!Load, S!Next, S!surverVars
<1>3. S!TypeOK => server!TypeOK
  BY DEF S!TypeOK, server!TypeOK, S!FileInfo, server!FileInfo, S!Versions, server!Versions,
         S!Commands, server!Commands, S!IdArgs, server!IdArgs
<1>4. S!Service!Init => server!Service!Init
  BY DEF S!Service!Init, server!Service!Init, S!Service!NoData, server!Service!NoData
<1>5. [S!Service!Next]_(S!Service!serviceVars) => [server!Service!Next]_(server!Service!serviceVars)
  BY DEF S!Service!Next, server!Service!Next, S!Service!serviceVars, server!Service!serviceVars,
         S!Service!Publish, server!Service!Publish, S!Service!Answer, server!Service!Answer,
         S!Service!Begin, server!Service!Begin, S!Service!NoData, server!Service!NoData,
         S!Versions, server!Versions
<1>6. QED
  BY <1>1, <1>2, <1>3, <1>4, <1>5

\* The protocol.
LEMMA SameProtocol ==
  /\ protocol!Init => W!Init
  /\ [protocol!Next(ClientCommands)]_(protocol!vars) => [W!Next(ClientCommands)]_(W!vars)
  /\ W!TypeOK => protocol!TypeOK
  /\ W!OneReplyEach => protocol!OneReplyEach
<1>1. protocol!Init => W!Init
  BY DEF protocol!Init, W!Init, protocol!Servers, W!Servers, protocol!NoTask, W!NoTask
<1>2. [protocol!Next(ClientCommands)]_(protocol!vars) => [W!Next(ClientCommands)]_(W!vars)
  BY DEF protocol!vars, protocol!tasks, protocol!Servers, protocol!Ids, protocol!NoTask,
         protocol!Queries, protocol!Adds, protocol!Views, protocol!OfItem,
         protocol!Init, protocol!Answer, protocol!Loaded, protocol!All, protocol!Fresh,
         protocol!ItemQuery, protocol!AddItems, protocol!SetView, protocol!ChangeItem,
         protocol!RemoveItems, protocol!LoadSource, protocol!Greeting, protocol!Handle,
         protocol!Alive, protocol!Idle, protocol!TakeRequests, protocol!HandleNext,
         protocol!SendReply, protocol!WaveformsLoaded, protocol!Fold,
         protocol!StartWcpServer, protocol!StopWcpServer, protocol!Goto, protocol!ui,
         protocol!chans, protocol!Bind, protocol!Accept, protocol!ReadFrame,
         protocol!Forward, protocol!Deliver, protocol!EndWrite, protocol!Disconnect, protocol!StopSeen,
         protocol!ClearGreeted, protocol!ClearRunning, protocol!SetStop, protocol!Next,
         protocol!Cardinality, protocol!FoldFunction, protocol!FoldFunctionOnSet,
         protocol!MapThenFoldSet, W!vars,
         W!tasks, W!Servers, W!Ids, W!NoTask, W!Queries, W!Adds, W!Views, W!OfItem,
         W!Init, W!Answer, W!Loaded, W!All, W!Fresh, W!ItemQuery, W!AddItems, W!SetView,
         W!ChangeItem, W!RemoveItems, W!LoadSource, W!Greeting, W!Handle, W!Alive,
         W!Idle, W!TakeRequests, W!HandleNext, W!SendReply, W!WaveformsLoaded, W!Fold,
         W!StartWcpServer, W!StopWcpServer, W!Goto, W!ui, W!chans, W!Bind, W!Accept,
         W!ReadFrame, W!Forward, W!Deliver, W!EndWrite, W!Disconnect, W!StopSeen, W!ClearGreeted,
         W!ClearRunning, W!SetStop, W!Next, W!Cardinality, W!FoldFunction, W!FoldFunctionOnSet,
         W!MapThenFoldSet
<1>3. W!TypeOK => protocol!TypeOK
  BY DEF W!TypeOK, protocol!TypeOK, W!Servers, protocol!Servers
<1>4. W!OneReplyEach => protocol!OneReplyEach
  BY DEF W!OneReplyEach, protocol!OneReplyEach, W!Alive, protocol!Alive, W!Numbered,
         protocol!Numbered, W!Traffic, protocol!Traffic, W!Written, protocol!Written
<1>5. QED
  BY <1>1, <1>2, <1>3, <1>4

\* The client of the simulation.
LEMMA SameSimulation ==
  /\ cxxrtl!Init => X!Init
  /\ [cxxrtl!UiNext \/ cxxrtl!OtherNext]_(cxxrtl!vars) => [X!UiNext \/ X!OtherNext]_(X!vars)
  /\ X!TypeOK => cxxrtl!TypeOK
  /\ X!AnswersMeetCallbacks => cxxrtl!AnswersMeetCallbacks
  /\ X!WaitingWasAsked => cxxrtl!WaitingWasAsked
  /\ X!ValuesOfTheirVariable => cxxrtl!ValuesOfTheirVariable
<1>1. cxxrtl!Init => X!Init
  BY DEF cxxrtl!Init, X!Init, cxxrtl!Caches, X!Caches, cxxrtl!Empty, X!Empty
<1>2. [cxxrtl!UiNext \/ cxxrtl!OtherNext]_(cxxrtl!vars) => [X!UiNext \/ X!OtherNext]_(X!vars)
  BY DEF cxxrtl!Cardinality, X!Cardinality, cxxrtl!Caches, cxxrtl!Empty,
         cxxrtl!MakeUncached, cxxrtl!Filled, cxxrtl!Init,
         cxxrtl!Command, cxxrtl!RunCommands, cxxrtl!Needed, cxxrtl!Fetch,
         cxxrtl!Request, cxxrtl!Known, cxxrtl!UiIdle, cxxrtl!server, cxxrtl!GetScopes,
         cxxrtl!FetchItemsInModule, cxxrtl!FetchItem, cxxrtl!QueryVariable,
         cxxrtl!LoadVariables, cxxrtl!Unpause, cxxrtl!Pause, cxxrtl!StatusUpdate,
         cxxrtl!Callback, cxxrtl!Populate, cxxrtl!Respond, cxxrtl!ReportError,
         cxxrtl!Tick, cxxrtl!Fill, cxxrtl!Message, cxxrtl!ExecuteCommand,
         cxxrtl!SimulationPaused, cxxrtl!Disconnect, cxxrtl!UiNext, cxxrtl!OtherNext,
         cxxrtl!vars, X!Caches, X!Empty, X!MakeUncached, X!Filled, X!Init, X!Command,
         X!RunCommands, X!Needed, X!Fetch, X!Request, X!Known, X!UiIdle, X!server,
         X!GetScopes, X!FetchItemsInModule, X!FetchItem, X!QueryVariable,
         X!LoadVariables, X!Unpause, X!Pause, X!StatusUpdate, X!Callback, X!Populate,
         X!Respond, X!ReportError, X!Tick, X!Fill, X!Message, X!ExecuteCommand,
         X!SimulationPaused, X!Disconnect, X!UiNext, X!OtherNext, X!vars
<1>3. X!TypeOK => cxxrtl!TypeOK
  BY DEF X!TypeOK, cxxrtl!TypeOK, X!Caches, cxxrtl!Caches, X!Known, cxxrtl!Known, X!Cardinality,
         cxxrtl!Cardinality
<1>4. X!AnswersMeetCallbacks => cxxrtl!AnswersMeetCallbacks
  BY DEF X!AnswersMeetCallbacks, cxxrtl!AnswersMeetCallbacks, X!Matches, cxxrtl!Matches,
         X!Answers, cxxrtl!Answers, X!Queue, cxxrtl!Queue
<1>5. X!WaitingWasAsked => cxxrtl!WaitingWasAsked
  BY DEF X!WaitingWasAsked, cxxrtl!WaitingWasAsked
<1>6. X!ValuesOfTheirVariable => cxxrtl!ValuesOfTheirVariable
  BY DEF X!ValuesOfTheirVariable, cxxrtl!ValuesOfTheirVariable
<1>7. QED
  BY <1>1, <1>2, <1>3, <1>4, <1>5, <1>6

-----------------------------------------------------------------------------
(* The theorems *)

\* Rows drawn with the same translator share one analog cache, which was made for
\* the waveform shown, in any interleaving of drawing, tasks, reloads and edits.
THEOREM CacheEntriesKept == ASSUME EntriesNat PROVE Spec => []EntriesKept
<1>1. Init => CachesInv
  BY CachesStart DEF Init
<1>2. CachesInv /\ [Next]_vars => CachesInv'
  BY PartSteps, CachesStep
<1>3. CachesInv => EntriesKept
  BY CachesInvKeeps DEF EntriesKept
<1>4. QED
  BY <1>1, <1>2, <1>3, PTL DEF Spec

\* An answer of the server is wholly of the version published when it is made.
THEOREM ServerAsService == ASSUME VersionsNat PROVE Spec => ImplementsWaveService
<1>1. Init => S!IInv /\ server!Service!Init
  BY SameServer, S!InitInvariant, S!StartsAsService DEF Init, VersionsNat, S!VersionsNat
<1>2. S!IInv /\ [Next]_vars => S!IInv' /\ [server!Service!Next]_(server!Service!serviceVars)
  BY SameServer, PartSteps, S!NextInvariant, S!StepsAsService DEF VersionsNat, S!VersionsNat
<1>3. S!IInv => server!TypeOK
  BY SameServer, S!InvariantTypes
<1>4. QED
  BY <1>1, <1>2, <1>3, PTL
  DEF Spec, ImplementsWaveService, server!ImplementsWaveService, server!Service!Spec

\* Every request a protocol server reads is answered once and in order while the
\* user interface keeps that server, whatever becomes of the servers before it.
THEOREM RequestsAnswered == ASSUME ProtocolNat PROVE Spec => []OneReplyEach
<1>1. W!BoundsNat /\ W!CommandsKnown
  BY DEF ProtocolNat, W!BoundsNat, W!CommandsKnown, ClientCommands, W!Kinds, W!Queries, W!Adds,
         W!Views, W!OfItem
<1>2. Init => W!IInv
  BY <1>1, SameProtocol, W!InitInvariant DEF Init
<1>3. W!IInv /\ [Next]_vars => W!IInv'
  BY <1>1, SameProtocol, PartSteps, W!NextInvariant
<1>4. W!IInv => OneReplyEach
  BY SameProtocol, W!InvariantTypes DEF OneReplyEach, W!IInv
<1>5. QED
  BY <1>2, <1>3, <1>4, PTL DEF Spec

\* An answer of the simulation reaches the callback of its command, what is waited
\* for was asked for, and a sample gives every variable its own value.
THEOREM AnswersMeetTheirCommands ==
  ASSUME BoundsNat, ListsNotRefused
  PROVE  Spec => []AnswersMatched
<1>1. X!BoundsNat /\ X!ListsNotRefused
  BY DEF BoundsNat, ListsNotRefused, X!BoundsNat, X!ListsNotRefused, X!ListCommands
<1>2. Init => X!IInv
  BY <1>1, SameSimulation, X!InitInvariant DEF Init
<1>3. X!IInv /\ [Next]_vars => X!IInv'
  BY <1>1, SameSimulation, PartSteps, X!NextInvariant
<1>4. X!IInv => AnswersMatched
  BY <1>1, SameSimulation, X!InvariantMatches DEF AnswersMatched, X!IInv, X!ListsAwaited
<1>5. QED
  BY <1>2, <1>3, <1>4, PTL DEF Spec
=============================================================================
