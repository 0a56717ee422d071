---------------------------- MODULE AnalogCache ----------------------------
(***************************************************************************)
(* The caches behind rows drawn as analog traces.  Drawing a row asks for  *)
(* a cache; the request is handled at the end of the frame, after the      *)
(* results of background tasks; a task builds the cache; its result comes  *)
(* back as a message.  Entries are shared by all rows with the same signal *)
(* and translator, and every reload of the waveform starts a generation.   *)
(*                                                                         *)
(* All rows of the model show the same signal, so the translator alone is  *)
(* the cache key.  An entry is a position in entries, like the Arc it is.  *)
(***************************************************************************)
EXTENDS Naturals, Sequences, FiniteSets

CONSTANTS Rows,          \* displayed variables
          Translators,   \* formats a row can have
          MaxEntries,    \* bound: cache entries ever made
          MaxWaves       \* bound: waveforms loaded

VARIABLES row,         \* the displayed variables
          entries,     \* AnalogCacheEntry, in the order of their creation
          wave,        \* number of the waveform shown
          generation,  \* WaveData::cache_generation
          inflight,    \* WaveData::inflight_caches: translator -> entry
          loaded,      \* the signal is loaded in the waveform shown
          building,    \* entries a task works on
          results,     \* AnalogCacheBuilt messages on their way
          requests     \* BuildAnalogCache messages of the frame

cacheVars == <<row, entries, wave, generation, inflight, loaded, building, results, requests>>

NoEntry == 0
Row == [shown : BOOLEAN, analog : BOOLEAN, format : Translators, cache : 0..MaxEntries]

\* The row has an entry for its key in the current generation, ready or not.
Valid(r, key) ==
  /\ row[r].cache # NoEntry
  /\ entries[row[r].cache].generation = generation
  /\ entries[row[r].cache].key = key

Drawn(r) == row[r].shown /\ row[r].analog

Init ==
  /\ row \in [Rows -> {[shown |-> TRUE, analog |-> TRUE, format |-> f, cache |-> NoEntry]
                         : f \in Translators}]
  /\ entries = <<>>
  /\ wave = 1
  /\ generation = 0
  /\ inflight = [k \in {} |-> 0]
  /\ loaded = FALSE
  /\ building = {}
  /\ results = {}
  /\ requests = {}

\* variable_analog_draw_commands: a missing or stale cache is asked for.  A row
\* whose signal is not loaded is not drawn at all.
Draw(r) ==
  /\ Drawn(r) /\ loaded
  /\ ~Valid(r, row[r].format)
  /\ requests' = requests \cup {[row |-> r, key |-> row[r].format]}
  /\ UNCHANGED <<row, entries, wave, generation, inflight, loaded, building, results>>

-----------------------------------------------------------------------------
(* Message::BuildAnalogCache *)

Without(f, k) == [j \in DOMAIN f \ {k} |-> f[j]]
With(f, k, v) == [j \in DOMAIN f \cup {k} |-> IF j = k THEN v ELSE f[j]]

\* (mutated) Only builds in flight are shared, not the entries of other rows.
Mut_Shareable(key) == {}

\* An entry of another row that can be shared.
Shareable(key) == {row[r].cache : r \in {r \in Rows : row[r].shown /\ row[r].analog /\ Valid(r, key)}}

Attach(r, e) == row' = [row EXCEPT ![r].cache = e]

\* The row is gone, is not analog any more, or has its entry already.
RequestIgnored(q) ==
  /\ ~Drawn(q.row) \/ Valid(q.row, q.key)
  /\ UNCHANGED <<row, entries, inflight, building>>

InFlight(key) == key \in DOMAIN inflight /\ entries[inflight[key]].generation = generation

ShareInFlight(q) ==
  /\ Drawn(q.row) /\ ~Valid(q.row, q.key)
  /\ InFlight(q.key)
  /\ Attach(q.row, inflight[q.key])
  /\ UNCHANGED <<entries, inflight, building>>

ShareExisting(q) ==
  /\ Drawn(q.row) /\ ~Valid(q.row, q.key)
  /\ ~InFlight(q.key)
  /\ \E e \in Shareable(q.key) : Attach(q.row, e)
  /\ UNCHANGED <<entries, inflight, building>>

\* A new entry is registered before build_analog_cache_async looks whether the
\* signal is there; without it no task starts, and nothing is undone.
StartBuild(q) ==
  /\ Drawn(q.row) /\ ~Valid(q.row, q.key)
  /\ ~InFlight(q.key) /\ Shareable(q.key) = {}
  /\ Len(entries) < MaxEntries
  /\ entries' = Append(entries, [key |-> q.key, generation |-> generation,
                                 ready |-> FALSE, wave |-> wave])
  /\ Attach(q.row, Len(entries'))
  /\ inflight' = With(inflight, q.key, Len(entries'))
  /\ building' = IF loaded THEN building \cup {Len(entries')} ELSE building

BuildAnalogCache(q) ==
  /\ q \in requests
  /\ RequestIgnored(q) \/ ShareInFlight(q) \/ ShareExisting(q) \/ StartBuild(q)
  /\ requests' = requests \ {q}
  /\ UNCHANGED <<wave, generation, loaded, results>>

\* The task ends; a signal without changes gives no cache.
FinishBuild(e, ok) ==
  /\ e \in building
  /\ building' = building \ {e}
  /\ results' = results \cup {[entry |-> e, ok |-> ok]}
  /\ UNCHANGED <<row, entries, wave, generation, inflight, loaded, requests>>

\* Message::AnalogCacheBuilt removes whatever is in flight under the key.
AnalogCacheBuilt(m) ==
  /\ m \in results
  /\ results' = results \ {m}
  /\ inflight' = Without(inflight, entries[m.entry].key)
  /\ entries' = IF m.ok THEN [entries EXCEPT ![m.entry].ready = TRUE] ELSE entries
  /\ UNCHANGED <<row, wave, generation, loaded, building, requests>>

-----------------------------------------------------------------------------
(* What happens around it *)

\* update_with_waves: the rows are cloned, and a clone has no cache.
Reload ==
  /\ wave < MaxWaves
  /\ wave' = wave + 1
  /\ generation' = generation + 1
  /\ inflight' = [k \in {} |-> 0]
  /\ loaded' = FALSE
  /\ row' = [r \in Rows |-> [row[r] EXCEPT !.cache = NoEntry]]
  /\ UNCHANGED <<entries, building, results, requests>>

\* A waveform loaded with LoadOptions::Clear starts from generation 0 again.
LoadNew ==
  /\ wave < MaxWaves
  /\ wave' = wave + 1
  /\ generation' = 0
  /\ inflight' = [k \in {} |-> 0]
  /\ loaded' = FALSE
  /\ row' = [r \in Rows |-> [row[r] EXCEPT !.shown = FALSE, !.cache = NoEntry]]
  /\ UNCHANGED <<entries, building, results, requests>>

\* The signals of the rows arrive.
LoadSignals ==
  /\ ~loaded
  /\ loaded' = TRUE
  /\ UNCHANGED <<row, entries, wave, generation, inflight, building, results, requests>>

\* A row is removed; it comes back through undo or by being added again,
\* without a cache.
RemoveRow(r) ==
  /\ row[r].shown
  /\ row' = [row EXCEPT ![r].shown = FALSE]
  /\ UNCHANGED <<entries, wave, generation, inflight, loaded, building, results, requests>>

\* (mutated) The clone in the undo stack keeps its cache.
Mut_RestoreRow(r) ==
  /\ ~row[r].shown
  /\ \E e \in 0..Len(entries) :
        /\ e # NoEntry => entries[e].key = row[r].format
        /\ row' = [row EXCEPT ![r].shown = TRUE, ![r].cache = e]
  /\ UNCHANGED <<entries, wave, generation, inflight, loaded, building, results, requests>>

RestoreRow(r) ==
  /\ ~row[r].shown
  /\ row' = [row EXCEPT ![r].shown = TRUE, ![r].cache = NoEntry]
  /\ UNCHANGED <<entries, wave, generation, inflight, loaded, building, results, requests>>

\* Message::VariableFormatChange: the cache stays, under the old key.
SetFormat(r, f) ==
  /\ row[r].shown
  /\ row' = [row EXCEPT ![r].format = f]
  /\ UNCHANGED <<entries, wave, generation, inflight, loaded, building, results, requests>>

\* Message::SetAnalogSettings: switching analog off drops the entry, new
\* settings keep it.
SetAnalogSettings(r, on) ==
  /\ row[r].shown
  /\ row' = [row EXCEPT ![r].analog = on, ![r].cache = IF on THEN @ ELSE NoEntry]
  /\ UNCHANGED <<entries, wave, generation, inflight, loaded, building, results, requests>>

Next ==
  \/ \E r \in Rows : Draw(r)
  \/ \E q \in requests : BuildAnalogCache(q)
  \/ \E e \in building, ok \in BOOLEAN : FinishBuild(e, ok)
  \/ \E m \in results : AnalogCacheBuilt(m)
  \/ Reload
  \/ LoadNew
  \/ LoadSignals
  \/ \E r \in Rows : RemoveRow(r) \/ RestoreRow(r)
  \/ \E r \in Rows, f \in Translators : SetFormat(r, f)
  \/ \E r \in Rows, on \in BOOLEAN : SetAnalogSettings(r, on)

Spec == Init /\ [][Next]_cacheVars

-----------------------------------------------------------------------------

\* Rows, entries and the registry have their types.
TypeOK ==
  /\ row \in [Rows -> Row]
  /\ \A e \in DOMAIN entries : entries[e].key \in Translators /\ entries[e].generation \in Nat
  /\ DOMAIN inflight \subseteq Translators
  /\ \A k \in DOMAIN inflight : inflight[k] \in DOMAIN entries /\ entries[inflight[k]].key = k
  /\ building \subseteq DOMAIN entries
  /\ \A m \in results : m.entry \in DOMAIN entries

\* Rows that show the same values share one entry, so nothing is built twice for
\* what is on the screen, whichever of them asked first and whatever was
\* removed, reloaded or finished in between.
OneEntryPerKey ==
  \A r, q \in Rows :
     /\ Drawn(r) /\ Drawn(q)
     /\ row[r].format = row[q].format
     /\ Valid(r, row[r].format) /\ Valid(q, row[q].format)
     => row[r].cache = row[q].cache

\* An entry that a row may draw was made for the waveform that is shown, also
\* when the generations start again from 0.
EntriesOfThisWave ==
  \A r \in Rows : Drawn(r) /\ Valid(r, row[r].format) => entries[row[r].cache].wave = wave

\* "Spawn async worker to build analog cache" (build_analog_cache_async): what is
\* registered as being built has a worker, or its result on the way.
RegisteredIsBuilt ==
  \A k \in DOMAIN inflight :
     inflight[k] \in building \/ \E m \in results : m.entry = inflight[k]
=============================================================================
