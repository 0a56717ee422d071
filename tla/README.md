# A TLA+ verification project for Kahuna

Kahuna is a waveform viewer, a fork of Surfer. It loads a simulation trace,
shows a chosen list of its variables over time, and lets the user edit that list:
add, remove, reorder, group, fold, mark, undo. This directory holds TLA+ modules
that model the code under `src/`, TLC configurations that check them on small
instances, and TLAPS proofs. `PROJECT.json` maps every definition to the lines it
models and lists the runs, the hazards and the findings.

## The system

| Part | State | Operations | Interacts with |
|---|---|---|---|
| Displayed item tree (`displayed_item_tree.rs`) | a vector of nodes: item reference, level, folded, selected | insert, remove, dissolve, drain, move one step, move several, fold, select | called by the canvas handlers |
| Canvas editing (`lib.rs`, `wave_data.rs`, `marker.rs`, `view.rs`) | tree, map of items, focused row, markers, reference counter, drag source and target | one message per user action | tree; undo; reload; analog cache |
| Attributes of items (`displayed_item.rs`, `lib.rs`) | format, colours, name, height, analog settings per item | one message each, for the item, the focus or the selection | translators; undo; reload |
| Undo and redo (`state.rs`, `lib.rs`) | two stacks of canvases | save, undo n, redo n | every editing handler must save first |
| State files (`state.rs`, `state_file_io.rs`) | serialized user state | save, load | replaces canvas and counter |
| Loading pipeline (`wave_source.rs`, `wellen.rs`, `batch_commands.rs`) | progress tracker, wave container, signals to load, batch queue | header, body and signal loading in worker tasks, answers as messages | replaces or updates the canvas; gates batch commands |
| Analog cache (`analog_signal_cache.rs`, `lib.rs`) | entries shared by rows, builds in flight, generation | build, share, invalidate, query | worker tasks; reload |
| Surver (`surver/src/server.rs`) and its client (`remote/`) | file infos under a lock, loader thread per file, notification | status, hierarchy, time table, signals, reload | HTTP; loading pipeline |
| CXXRTL client (`cxxrtl*`) | pending callbacks, query caches, simulation status | commands, queries, events over TCP or mailbox | loading pipeline, canvas |
| WCP (`wcp/`, `surfer-wcp/`) | server thread, stop, running and greeted flags, two channels | commands and events for another tool | turns requests into canvas messages |
| Protocol decoders (`decoders/`) | decoder settings, rows | decode SPI, I2C, UART over signal edges | canvas rows |
| Viewport (`viewport.rs`) | left and right edge, target of an eased movement | zoom, scroll, go to, clip, reload | every view of time |
| Gestures (`mousegestures.rs`, `drawing_canvas.rs`) | origin of a gesture, of a measurement, the annotation tool | drags with modifiers | viewport, annotations |
| Annotations (`annotation*.rs`, `comment.rs`, `rectangle.rs`, `arrow.rs`) | annotations, groups, selection, menu, identifier counter | create, group, comment, remove, cycle | undo; state files |
| Side panel (`hierarchy.rs`, `variable_filter.rs`, `variable_name_type.rs`) | filter, cached expression, cached rows, open scopes | filter, expand, add what is listed | reload; translators |
| Viewers (`memory_viewer.rs`, `frame_buffer.rs`) | array shown, filters, caches of rows and pixels | open, search, step, load | signals; cursor |
| Prompt (`command_prompt.rs`, `command_parser.rs`, `fzcmd.rs`), shortcuts | text, suggestions, highlighted row, earlier commands | type, expand, run | send messages |
| Toolbar, time field (`toolbar.rs`, `time.rs`) | rows of groups, drop target; text, unit | drag, hide, move; type, choose | send messages |
| Translators (`translation/`) | none, or a table read from a file | value to text and number | drawing, attributes |
| Drawing (`drawing_canvas.rs`, `clock_highlighting.rs`, `transactions.rs`) | draw commands per frame | regions per pixel, snapping, next and previous | all of the above |

All state is changed by one function, `SystemState::update`, on one thread, one
message at a time. Concurrency comes from worker tasks and threads that send their
answers as further messages, from the server's loader threads, from the programs at
the other end of a socket, and from the time between two messages of one gesture: a
drag remembers positions in one message and uses them in another.

What is hard here, and what makes each part correct:

* *Tree.* The structure is implicit in the levels of a flat vector, so every
  operation must keep levels legal (they go in by one at most), keep each item once,
  and not change the parents of items it does not touch. Subtrees are found by scanning
  levels, folded subtrees are skipped, levels are `u8`.
* *Canvas.* The tree, the map of items, the markers' times and the focused row are
  updated separately by some forty handlers. They must show the same items; only groups
  may have children; nothing hidden is selected; nothing is added out of sight.
  Handlers `unwrap`, `expect` and `assert` what others are supposed to guarantee.
* *Undo.* Each handler must save before it edits; undo and redo must be inverse; a
  reference must not be given to two items although old canvases come back.
* *Reload.* A variable the new waveform lacks turns into a placeholder, and back; what
  it looks like, where the view is and what was cached must survive or go.
* *Loading.* Answers arrive late, out of order, for a waveform that is no longer loaded,
  or as errors; batch commands wait for all of it.
* *Server and clients.* Handlers that wait for a notification between two looks at
  shared state; reloads that replace what others are waiting for; replies that do not
  say what they answer; flags shared by an old and a new server.
* *Interface.* Text, suggestions, targets of drags and caches remembered from one frame
  and used in another.
* *Algorithms.* State machines over edges, range queries, ticks, number formats: many
  cases, few of them in tests.

## The modules

| Module | Models |
|---|---|
| `DisplayedItemTree` | The tree type and all its algorithms, as operators. |
| `ItemTree`, `MCItemTree` | The tree as an object: one action per mutating method, any order of calls. |
| `MCTreeAlgorithms` | All small trees, and the algorithms on each of them against reference definitions. |
| `Canvas`, `MCCanvas` | `WaveData`, the stacks and the drag, one action per message; selections of its messages, and two state files. |
| `ItemAttributes` | What items look like, under their messages, reloads, undo, failing translators and state files. |
| `WaveLoading`, `MCWaveLoading` | Loads in tasks, answers as messages, frames, the progress tracker and batch commands. |
| `WaveService` | What the server promises: one published version, no answer of two. Abstract. |
| `Surver` | Handlers, loader, channel, lock and notification of the server; implements `WaveService`. |
| `AnalogCache` | Entries, builds, results and generations of the analog cache. |
| `SignalRMQ` | The range-minimum structure inside an entry. |
| `Wcp` | Servers of the control protocol, their clients, channels and flags, and the handler in the interface. |
| `Cxxrtl` | The client of a running simulation: caches, commands, callbacks, samples. |
| `MCServices` | `Surver`, `AnalogCache`, `Wcp` and `Cxxrtl` for TLC. |
| `Viewport` | Edges, eased movement, clipping, reload. |
| `Gestures`, `Annotations` | What a drag on the canvas is; what is drawn on the canvas. |
| `Toolbar`, `TimeInput` | The toolbar's rows; the time field. |
| `Hierarchy`, `UniqueNames` | The side panel; the shortest unique names. |
| `Viewers` | The memory viewer and the frame buffer. |
| `Commands`, `CommandPrompt` | The command language, its parser and command files; the prompt that runs it. |
| `Interface` | `Viewport`, `Annotations`, `Gestures` and `Hierarchy` side by side, with what each promises. |
| `MCInterface` | These and the other stateful parts of the interface for TLC. |
| `Decoders`, `DecoderSenders` | The SPI, I2C and UART decoders; senders that drive the lines for known data. |
| `Translators`, `MappingTranslator` | Values as text and numbers; translators read from files. |
| `Times` | Units, parsing, formatting, ticks. |
| `Shortcuts` | The table of key bindings and its dispatch. |
| `Drawing`, `Navigation` | What is drawn per pixel; moving through what is drawn. |
| `MCAlgorithms` | All algorithms for TLC, on all small inputs. |
| `DisplayedItemTreeProofs` | What each algorithm of the tree preserves, and which items it leaves in the tree, for all trees. |
| `InterfaceProofs` | Three invariants of `ItemTree`, for all references and levels; what `Annotations`, `Gestures`, `Hierarchy` and `Viewport` remember from one message or frame to the next. |
| `CanvasProofs` | Three invariants of `Canvas`: what its helpers make of sound waves, then one lemma per message. |
| `SurverProofs` | `Surver` implements `WaveService`. |
| `CxxrtlProofs` | Three invariants of `Cxxrtl`, and lemmas about pairing two queues in order. |
| `WcpProofs` | `OneReplyEach` of `Wcp`, and lemmas about a chain of queues. |
| `ServicesProofs` | Two invariants of `AnalogCache`; these and the results about the server, the protocol and the simulation for `MCServices`, which puts the four side by side. |
| `WaveLoadingProofs` | Two invariants of `WaveLoading`: what can be under way together, one lemma per handler and per kind of task, and that no displayed signal is dropped. |

### `DisplayedItemTree` and `ItemTree`

A tree is a sequence of nodes with the four fields of `Node`. The code counts
positions from 0, the model from 1, and 0 means "none" where the code has an
`Option`. Iterators are modelled by the set of positions they visit
(`VisiblePositions`); that this set is what the walk of `next_visible_item` visits is
itself checked (in `PlacesKeepParents`). The callback of `move_item` and
`valid_levels_visible` that asks whether an item may have children is the set of
groups. The errors of `MoveError` are one status, `"err"`, since callers
do not tell them apart; a slice index out of range is `"panic"`. `MoveItems` keeps the
detail its defect is about: the end of a subtree is read from the tree as it was, the
range is cut from what is left.

`u8` levels are `0..MaxLevel`; `shift_subtree_to_level` fails beyond it and keeps the
nodes it had already shifted, and `Shift` does so too. `MaxLevel` is a parameter, so
that TLC reaches the limit with trees of a few nodes. `move_item`, `insert_position` and
`add_scope_as_group` add one to a level without a check: with `OverflowChecks`, the addition
ends the program at the limit, as in a debug build; without, the level wraps around to 0
(`Deeper`, `Below`), as in a release build.

### `Canvas` and `ItemAttributes`

`waves` is `WaveData` with the fields the properties tell apart; `undo_stack` and
`redo_stack` hold canvases (`CanvasState`); `drag` holds `drag_source_idx` and
`drag_target_idx`. Every action is one message handled to its end, with its early
returns, its save of the canvas and its repair of the focus. `Recorded` is a handler
that saves the canvas first, `Unrecorded` one that does not. A failed `unwrap`,
`expect` or `assert` sets `waves.panic` and stops the model.

Items are variables, placeholders, markers, groups, decoder rows and dividers; a
divider also stands for a timeline and a transaction stream, which only take part in
the tree. What they look like is `ItemAttributes`, where items are rows in a fixed
order that only a reload removes: the two modules share the reload, undo and state
files, each with its own part of the state.

`Environment` switches on what is studied apart, because the code misbehaves there and
would hide everything else: `"overlapping moves"` (a group and an item inside it are
both moved, see `TreeOverlap`), `"self drops"` (a row is dropped directly below itself
and deeper), `"replacing"` (a waveform with `LoadOptions::Clear`, or a state file,
replaces all; with undo see `KeyOfOneRow` among what does not hold), `"late drops"` (other messages arrive while a drag is under way).
`Sessions` chooses the messages of a behaviour of `MCCanvas`: editing, dragging, or
undoing.

### `WaveLoading`

`app` is the part of `SystemState` that takes part: `waves` is the loaded container
(`WellenContainer`, or transactions), `displayed` the signals of displayed variables,
then the progress tracker, the selected server file and what is known of the server.
`tasks` is the bag of work under way on other threads, `channel` what they have sent,
`msgs` what the current frame has still to handle, `batch` the queue of batch commands
and the place in the frame. A task is one of `Kinds`: reading a header, a body or
signals, a download, or a request to a server (status, hierarchy, time table, reload).
The container's `unique_id` is the code's; the identifier a body carries exists only
in the model, so that a body at the wrong container can be told. `handle` says that
the container holds its signal source or server URL, which the code lends to the
task that loads signals.

A frame is `BeginFrame` (widgets, then everything in the channel), `HandleMessage`
for each message from the last to the first, `BatchCommand` as long as no progress is
shown, `EndFrame`. Handlers are operators from a state to the set of states they may
leave; a handler is one step, since the thread that runs it is the only one that
changes `app`. Tasks end at any time between the steps. At most one file or request
fails, in any place; it is then reported (`trouble`), and the liveness properties
claim nothing any more. Transactions may come from a file or a URL; behind a URL their
progress is never cleared, which `BatchExits` leaves out and `CommandsRun` states, among what does not hold.

`overlapped` is a history variable: an operation (a load, or a request for signals of
a newly added variable) began while another was under way. The code has no
protection against that: `LoadOverlap` shows what it does to bodies, and the same holds
of the progress tracker, which any answer clears. `BodyOfContainer`,
`ProgressCoversWork` and the liveness properties are about behaviours without such
an overlap; the others about all behaviours.

Waveforms all have the same signals, so that an answer for a replaced waveform looks
plausible for the new one. `KeepAvailable` and `KeepAll` differ only in placeholders, which
`Canvas` models, and are one value of `keep` here. What a server offers does not change
(the server itself is `Surver`, where files change).

### `Surver` and `WaveService`

One file: its versions on disk (`disk`), what the server knows under the lock (`info`),
the channel to the loader thread, where the loader is, and one record per handler. An
action is what happens under one lock, or between two: a handler that misses its data
releases the lock in one step and begins to wait in the next, and `notify_waiters`
wakes only those that already wait. A version number stands for the modification time,
the time table and the signals read from it. Some versions do not parse: the loader thread then
ends and nothing answers any more.

`WaveService` has two variables: the version published and, per handler, the set of versions
its last answer is made of. Its steps publish a version or answer wholly from the one
published. `Surver` instantiates it with what `info` holds and with the history of its
answers.

### `AnalogCache` and `SignalRMQ`

All rows show one signal, so that the translator alone is the cache key. The order within a frame is the
code's: answers of tasks first, then the requests that drawing left behind. `entries`
are positions, as the `Arc`s that rows share; an entry has a generation, and a build
carries the entry it was begun for. `SignalRMQ` is the data structure of an entry:
blocks, prefixes and the sparse table, with values that are not finite.

### `Wcp` and `Cxxrtl`

`Wcp` numbers the servers: one that was told to stop may still run when the next is
started, and both store to the same three flags. Requests carry the client and the
order in which the server read them, which the code does not know; the properties
speak of them. Sends into the two bounded channels block, and a blocked task or frame
is a state of its own. So is a task that writes to its client (`"writing"`): it neither
reads nor looks at the stop signal until the write ends (`EndWrite`), and the client decides when.
There are 255 markers in the code; here adding several may fail at any of them.

`Cxxrtl` has one queue per direction for both transports. Every cache is uncached,
waiting for an answer, or filled; replies are matched with callbacks in the order of
the commands. The simulation may run, pause by itself, end, or refuse commands.

### The interface

`Viewport` counts relative positions in steps of `1 / Unit` and rounds down; easing may
pass any point between its ends. `Gestures` models the remembered origins and what a
release does with them. `Annotations` has its own canvas, with undo, reload and state
files. `Toolbar` has the rows and the drop target, `TimeInput` the text
and the two units. `Hierarchy` has the filter with its cached expression, the cached
rows, and the two keys under which rows are kept; one `Draw` is one frame. What a list shows
(`VariableRows`) and what the button adds (`FilteredVariables`) are filtered and sorted apart: only the list looks at the
`Priority` a translator gives to a name, and in the style "Variables" the list matches full paths
where the button matches names, so that what the two have in common is stated of the style "Separate". `Viewers`
has both windows and the two caches of the frame buffer. `CommandPrompt` is one step per frame with
at most one key; a frame's messages are applied when it ends, the last one first.

### The algorithms

Each is a set of operators with the names of the code's functions. The references they
are compared with are independent definitions: `DecoderSenders` drives the lines for
known words and knows nothing of the decoders; a range query is compared with
minimum and maximum over the samples; what is drawn with what was recorded for the times of
a pixel; a shown time with the time that is parsed from it. Floating-point positions
in `Drawing` are the exact fractions they stand for, and texts are sequences of digits
or words. A shown time passes through an `f64`, and this is modelled: `Printed` rounds to
`MantissaBits` bits and then to the digits that are printed. A time of at most
`2^(MantissaBits - 1)` ticks, 2^52 in the code, keeps its digits (`DigitsSurvive`); beyond, the
time that is shown may be another one, and nothing is claimed.

## The runs

`CHECK_DEADLOCK FALSE` stands in every configuration because the model stops where its
bounds end, where the program would have panicked, and when it has exited.

`MCServices` and `MCInterface` explore one part in each behaviour: the parts do not share
the state that is modelled, so that a product of them would only repeat the same steps.
Where a part's states keep growing its behaviours have a step budget (`AnalogSteps`,
`CxxrtlSteps`, `Budgets`). The first step of a behaviour of `MCAlgorithms` chooses an input,
or grows an item tree; the invariants compare what the algorithm makes of it.

| Run | Question | Bounds | Result |
|---|---|---|---|
| `ItemTree` | Does any sequence of method calls keep levels in range and legal, and items unique, if additions are checked? | 4 references (2 groups), levels 0..2 | holds, 88 thousand states |
| `Canvas` | Do editing, grouping, focus, drag and load messages keep the canvas consistent, the tree and the items alike, and new items in sight, and do they panic only for a focus on no row? | 3 references, 1 variable, 1 marker index, levels 0..3, no undo depth; sessions that edit and sessions that drag | holds, 230 thousand states |
| `CanvasUndo` | Are undo and redo inverse, bounded and safe for references? | 2 references, undo size 2, up to 2 steps in a message | holds, 121 thousand states |
| `WaveLoading` | Do answers reach only the waveform they are for, do displayed signals arrive, do batch commands come to their end? | 6 setups of batch commands and server files, 2 signals (1 parameter), 1 user request, 1 failure | holds, 250 thousand states |
| `Services` | Does the server implement `WaveService` and end its reloads; are caches shared and fresh; is each protocol request answered once, in order; do answers of a simulation meet their commands and arrive? | 2 handlers, 3 versions of a file (the last does not parse), 2 requests; 2 rows, 2 translators, 2 waveforms, 8 steps; 2 servers and 2 clients, channels of one; 2 commands under way, 4 calls of the drawing code | holds, 443 thousand states |
| `Interface` | Do the parts of the interface keep what they remember true? | see `MCInterface`; 4 to 7 steps for the growing parts | holds, 660 thousand states |
| `Algorithms` | Does each algorithm compute what its reference says? | see below | holds, 69 thousand inputs |
| `TreeOverlap` | Does `move_items` do what it documents for overlapping selections? | 4 items | violated |
| `CanvasFocus` | Does the focused row exist whenever a fold expects it? | 2 references | violated |
| `LoadOverlap` | Does a waveform get one body? | 1 file, 1 user request | violated |
| `SurverWakeup` | Does no request wait for a table that is there? | 1 handler, 2 versions | violated |
| `BatchInclude` | Is an included command file run in its place? | files of up to 2 commands | violated |

Why the bounds are enough.

*Tree and canvas.* Every algorithm on the tree looks at one subtree, its
neighbours and, for moves, a target; a tree of five nodes has a nested group with a
sibling before, inside and after it, folded or not at each level, and two disjoint
subtrees to move past a third. Three displayed items are enough for a group,
its child and a neighbour, and every handler treats further items like one of
these. One variable that the waveform has or has not distinguishes a variable from a
placeholder; one marker index makes the markers run out. An undo size of two
has a middle canvas and drops its oldest one. The levels reach `MaxLevel` in `ItemTree`
and in `CanvasUndo`.

*Loading.* One request of the user against a batch of two or
three commands already crosses every kind of load with every other one at every
point; a parameter is loaded with the body, so a request for another signal meets one in
flight; a server with one file loads it by itself, one with two waits for a choice.

*Services.* Two handlers are needed for one to wait while another reloads, three versions
for a reload under way while the file changes again and for one that fails. Two rows
share an entry or differ in format while a build is under way; a second waveform makes
everything of the first one stale. Two servers overlap; channels of one message are full as soon as
one is under way, which makes every send one that may block. Two commands under way
are the least for answers to be matched wrongly.

*Interface.* Three toolbar groups in two rows have a group to drag past another, into a
row, and a row that empties; two annotations and two groups have a member to remove before
and after the one a counter points at; two versions of a file differ in a variable lost and one gained; arrays
have two levels of two; three drags leave a remembered origin from the one before.

*Algorithms.* All waveforms of short words for decoders, in every setting; all signals of up to five samples in blocks of one and two,
where a query covers no, one, two or more blocks with ragged ends; all values of up to nine bits;
all signals with two changes in every position relative to a pixel, of clocks and of others; up to
three transactions that overlap, but do not contain each other (see `FirstVisibleFound` among what does not hold); every command that is
offered, in two sessions whose names are parts of each other; times up to 1500 in every
unit, through numbers of ten bits, so that the inputs reach past what such a number holds. The inputs leave out what is known to go wrong: an SPI clock that stops in the
middle of a word, an invalid bit before the last one of an I2C byte, a parity bit on a UART
line that idles low, and two zeros in a row where zeros are skipped.

Each property of a passing run has a mutant in `PROJECT.json`: a definition marked
`Mut_`, "Mutant" or "mutated" in the modules that changes one operator the way a plausible bug would,
and that breaks the property under the run's own configuration. Properties that
state several things have a mutant for several of them.

### Fairness

* `WaveLoading`. A task that was spawned ends. A frame that began is handled to its
  end. A frame begins on its own only if it is the first one or progress is shown
  (`Repaint`): `ui` requests a repaint only then, and `checked_send` requests none, so
  no fairness is assumed of any other frame. That displayed signals arrive thus
  depends on the progress being shown as long as work is under way, which is
  `ProgressCoversWork`.
* `Surver`. The loader is a thread and goes on when it can (`Load`); the runtime
  polls each handler that can go on (`Serve`). No handler is ever assumed to be notified.
* `Wcp`. The server task goes on when it can, and sees the stop flag (`TaskStep`,
  `StopSeen`: it polls with a timeout). Clients need not send anything. That they read is not
  assumed either: `DroppedServerEnds` says it where it needs it (`ClientsRead`, every write ends), and
  without it `StoppedServerEnds` does not hold.
* `Cxxrtl`. The interface polls the channel every frame (`Tick`), background decoding
  ends (`Fill`), and the simulation executes the commands it is sent (`ExecuteCommand`).

`Surver` implements `WaveService` as `[][...]`: `WaveService` promises no progress, which
is what `SurverWakeup` shows it cannot do.

### What the violated runs show

* `TreeOverlap`: with a group and its child both selected, dragging or grouping them
  moves an unselected neighbour along or panics in `drain`.
* `CanvasFocus`: focus the last row, dissolve a group, fold anything: the handler
  panics with "Inconsistent state". Moving the focused row panics as well.
* `LoadOverlap`: with a second load begun before the first one is done, both bodies
  arrive at the second container. The first one to arrive is taken, whichever file it
  is of; the other one is refused with "Did we just parse the body twice?".
* `SurverWakeup`: a handler looks for the time table, releases the lock, and begins to
  wait after the only notification; the table is there and the handler waits.
* `BatchInclude`: the commands of an included file are queued while the lines of the
  including file are still being read, and so run before all of them.

### Definitions that state what does not hold

These are kept in the modules and are in no run. TLC finds each of them violated on the
bounds of the run the module belongs to; they say where the
code does less than a reader might expect.

| Definition | What happens instead |
|---|---|
| `ItemTree.LevelsOK` with `OverflowChecks = FALSE`, a third group | An item just below a group at the largest level is moved into it. `this_level + 1` and `*level + 1` (`displayed_item_tree.rs:395`, `:369`) are not checked: a debug build panics, a release build wraps the level to 0, and what followed the item is deeper than its new neighbour by more than one. |
| `Canvas.KeyOfOneRow` with `"replacing"` and undo | Add items, load another waveform, undo, add: `on_waves_loaded` counts from 0 again and leaves the stacks (`state.rs:386`), so the new item takes the reference, and the place in the map, of one that undo brought back. |
| `WaveLoading.CommandsRun` | Downloading transactions sets the progress (`wave_source.rs:454`), `TransactionStreamsLoaded` does not clear it, and the batch commands behind it wait for ever. |
| `Wcp.StoppedServerEnds` | The server writes to a client that keeps the connection and does not read; the stop signal is another arm of the `select` whose chosen arm waits for the write (`wcp_server.rs:241`). |
| `Hierarchy.AddsInListOrder` | The list is sorted by the priority of translated names and then by name (`hierarchy.rs:757`), what the button adds only by name, under the comment "in the same order as the variable list" (`variable_filter.rs:345-347`). |
| `Drawing.FirstVisibleFound` | Transactions are searched by their ends (`drawing_canvas.rs:617`), which are in order only if none contains another; one that reaches into the view is passed over, and not drawn, when shorter ones after it end before the view begins. |
| `Canvas.EditsCanBeUndone` | Removing a marker, removing placeholders and dropping variables from the hierarchy save nothing, so undo skips them. |
| `Canvas.DecoderRowsInOrder` | Without a focus, the rows of a decoder are appended from the last to the first. |
| `Canvas.GroupsOnly` with `"self drops"` | An unfolded group offers a place inside itself while it is dragged; dropped there it becomes the child of the variable above it. |
| `ItemAttributes.LoadedInfoIsActual` | `update_metadata` computes the variable's info and does not store it. |
| `AnalogCache.RegisteredIsBuilt` | A request drawn before a reload is handled after it: the entry is registered, the signal is not loaded yet, no build begins and no result comes. Later requests share the entry and none starts a build. |
| `Surver.NotModifiedTruthful` | The file is written between the reading of its body and the reading of its modification time: the old body is published with the new time, and a reload is answered 304. |
| `Wcp.GreetedFirst` | The greeted flag is set when a server starts, so a client is served without a greeting. |
| `Wcp.AnswersGoToAsker` | The asker disconnects, and its answer, still in the channel, goes to the next client. |
| `Wcp.StartedServerRuns` | An old server is in its cleanup: `running` is cleared, a new server starts, and then the old one sets `stop`. |
| `Wcp.NoMutualWait` | More requests than both channels hold, five for channels of one: the interface waits to send to a server that waits to send to the interface. Two requests, the bound of `Services`, are too few. |
| `Cxxrtl.FilledIsUpToDate` | A query sent before the simulation ran is answered after it paused again; its answer fills the cache that the pause had just invalidated. |
| `Cxxrtl.AllLoadedShown` | The simulation refuses to reference a new variable, which stays among the loaded ones. |
| `Cxxrtl.NoPanic` | The connection is lost, and the next command panics. |
| `Hierarchy.RowsAreCurrent` | The generation in the key of the rows starts again with each waveform, so the rows of the replaced one are shown. |
| `Viewers.RowsAreCurrent`, `PixelsAreCurrent` | The keys of the caches do not change on a reload, or when signals arrive. |
| `Viewport.ReloadZoomsIn` | A view with margins on both sides shows more time after a reload of a longer file. |
| `Annotations.AnnotationsListed` | Deleting the group "Ungrouped" leaves its annotations in no group. |
| `Annotations.CommentBoxDrawable` | The item of a rectangle is removed or folded while its comment box is open. |
| `Annotations.MenuHasPosition` | Undo brings back a selection after the position of the menu was forgotten. |
| `Annotations.GroupNamesUnique` | A group is created with the name of one that exists. |
| `TimeInput.SelectedUnitUsed` | A unit chosen in the list after the number was typed is not what the number is sent in. |
| `Times.PlainIsTicks`, `DividerTextPlaced` | "0.5" without a unit is five ticks; zoomed into one time unit the label of a divider divides by zero. |
| `MappingTranslator.KindsAccepted`, `FileReadOrRefused` | Some documented kinds are refused; a line "0b" without digits panics. |
| `Drawing.ClockColorStable` | A clock without an edge in view is not counted, and the colours of those after it change. |

Met while modelling, with no definition of their own: `set_cursor_at_transition` panics on
"previous" with the cursor before the first value; with a stream and one of its
generators both shown, "next transaction" stays at one that is listed twice, and with
nothing shown it subtracts one from an empty list; scopes are offered as groups with
transactions although that is refused; a reload never refreshes the server's hierarchy,
`get_signals` waits for ever when a reload drops its signals, and an empty time table is
waited for although it is complete.

## What is proved

Eleven components have an inductive invariant that is proved for every value of the constants.
`PROJECT.json` lists the theorems; the others in the proof modules are the lemmas they rest on.

| Theorem | Says | Assumes |
|---|---|---|
| `InterfaceProofs.TypeCorrect`, `LevelsCorrect`, `RefsCorrect` | `TypeOK`, `LevelsOK`, `UniqueRefs` of `ItemTree` | `MaxLevelAssumption`, `OverflowAssumption`, `GroupsAssumption`; `LevelsOK` if additions are checked or no group is at the largest level |
| `CanvasProofs.DisplayedItemsKept`, `NewReferencesFresh`, `UndoAndRedoSound` | `ItemsKept`, `FreshRefs`, `UndoStacksSound` of `Canvas` | `StateFilesSound`; no step breaks `ReplacesNothingSaved` |
| `SurverProofs.ServesOneVersion`, `ServerTypes` | `Surver` implements `WaveService`; its types | `VersionsNat` |
| `WaveLoadingProofs.AnswersReachTheirContainer`, `NoWorkForgotten` | `AnswersOfContainer`, `WorkAccounted` of `MCWaveLoading`, for the constants of `WaveLoading` | `WaveLoadingAssumption`, `ScriptsAssumption` |
| `WcpProofs.RequestsAnswered` | `OneReplyEach` | `BoundsNat`, `CommandsKnown` |
| `CxxrtlProofs.AnswersMatched` | `AnswersMeetCallbacks`, `ValuesOfTheirVariable`; `WaitingWasAsked` if `ListsNotRefused` | `BoundsNat` |
| `ServicesProofs.CacheEntriesKept` | `EntriesKept`: `OneEntryPerKey` and `EntriesOfThisWave` of `AnalogCache` | `EntriesNat` |
| `ServicesProofs.ServerAsService`, `RequestsAnswered`, `AnswersMeetTheirCommands` | the results about the server, the protocol and the simulation, as the run `Services` states them | those of the part; `ListsNotRefused` for the last |
| `InterfaceProofs.CyclesInRange` | `CycleInRange` of `Annotations` | - |
| `InterfaceProofs.AnnotationsOfTheirDrag` | `AnnotationFromThisDrag` of `Gestures` | - |
| `InterfaceProofs.ClosedScopesStay` | `ClosedStaysClosed` of `Hierarchy` | - |
| `InterfaceProofs.FilterTellsTheTruth` | `FilterHonest`: `MarkedWhenInvalid` and `AddsWhatIsListed` of `Hierarchy` | `ContentsAssumption` |
| `InterfaceProofs.MovementsArrive` | `ArrivesAtTarget` of `Viewport` | - |

`VersionsNat`, `EntriesNat`, `BoundsNat` and `ProtocolNat` only say that bounds are numbers
(and that there is a first version). The other assumptions are explained below.

### The tree

`LevelsCorrect` follows from the inductive
invariant `TreeInv`: the items are a sequence of nodes, levels go in by at most one, and
references are distinct. It holds as long as no level wraps around, that is if the build checks
additions or if no group has got to the largest level; without either TLC finds it violated. The other two hold
without, and have an invariant of their own, `ItemsInv`, that says nothing of the steps between levels.
The parts of `TreeInv` cannot be proved one by one: that a dissolved group
leaves no level below 0 needs the shape of the subtree, which needs legal levels; that
a moved subtree has legal levels needs that its first node is its least; that a cut
leaves legal levels needs that what follows a subtree is no deeper than its root.

The argument is one lemma per operator in `DisplayedItemTreeProofs`: the bounds of
`SubtreeEnd` and that levels inside a subtree exceed the root's; cutting a subtree out
keeps a well-formed tree; inserting at a checked location does; dissolving does;
draining does, by induction along the recursive function that builds what is kept; a
shifted subtree keeps its steps, also when the shift fails half way; extracting and
placing a subtree keeps the tree well-formed or returns it unchanged; a step up or
down is one of these; folding and selecting touch no level and no reference.
`InterfaceProofs` then has one step per action.

### The canvas

`IInv` says of the waves on screen, and of every canvas on both stacks: the references in the
tree are those of the displayed items, each once; displayed markers differ and have
times; and all references are at most the counter. It further bounds the undo stack and says that a drag remembers a place.
The counter is needed because an insertion is only sound if its reference is new, also for the
canvas that the handler has just saved. That displayed markers differ is needed because removing one
removes its time. The levels are not part of it: the moves of
several items (see `TreeOverlap`) do not keep them legal, and what is proved here does not depend on them.

For this `DisplayedItemTreeProofs` says of each algorithm which references it leaves:
a cut takes those of the range away, a move keeps all of them, also one that fails half way. `CanvasProofs`
first has what the helpers make of sound waves (inserting one item or several, removing, repairing the focus,
saving, undoing, restoring placeholders after a reload), then one lemma per message, panics included.

Two assumptions. `StateFilesSound`: a state file holds a canvas that satisfies the
invariant, as one that was saved does. `ReplacesNothingSaved` is about steps, not constants: one that replaces
the waves (`LoadClear`, `LoadState`) finds no canvas on the stacks with a reference past the new count.
The theorems are about all behaviours of `Spec` whose steps satisfy it, whatever the undo depth and
`Environment`. The code does not see to it: both steps give the counter a new start and leave the stacks, and from there
Such a step leads on to two rows with one key (`KeyOfOneRow`). What is proved is that nothing else can lead there.

### Loading

`SignalsOfContainer`, `BodyOfContainer`, `NoPanic` and `ProgressCoversWork` depend on what is
under way: tasks, messages in the channel, messages of the frame. `IInv` says of these together:

* what carries a container's number carries one that was given out (`Traffic`);
* at most one request for signals of the container shown, or its answer, is under way, and
  none while the container has its source (`SourceShared`). This is why the answer finds the source
  away, and it holds also when operations overlap: the source is lent to one task at a time, and a new
  container has a new number;
* as long as operations do not overlap, at most one piece of work is under way; a body or
  time table on its way is that of the container shown, and so is the one it has; and progress is shown, but for
  transactions (`OneByOne`).

The last part needs the server's client. A status question is no work, a second one may be
asked while the first is under way, and its answer may start a load. So `OneByOne` adds that, as long as no file of the
server is selected, no work on one is under way, and never work and a
question both: the answer then starts a load beside nothing else.

`Fits` says what may be under way beside something when it is put there, and holds of a
message or task when it is taken. A handler is then followed from the state without its message:
`PutInvariant` and `TakeInvariant` add and take one thing, `AppInvariant` and `NewContainer`
change the application, and each handler is a few of these (`On...Invariant`, `UpdateInvariant`,
`DoneInvariant`).

`NothingForgotten` has an invariant of its own beside `IInv`. `Kept(s, E)`: as long as nothing failed,
every displayed signal but those of `E` is loaded, queued, or in a request or answer for the container
shown. A handler begins with the signals of its message in `E` (`Held`) and must
leave `Kept` with nothing in `E`; most handlers leave container and displayed
signals alone and take nothing away (`Keeps`).

`ScriptsAssumption`: a batch contains only messages that the parser of commands makes, with
files, signals and servers that are among the constants. TLC evaluates it in the runs.

### The server

`IInv` relates what is published to what the loader holds: once a body is published
every stored signal is of the published version, and so is the body the loader reads
from; a reload takes both away under one lock. With it, every step of `Surver` is a step of
`WaveService` or a stutter: only `Publish` changes the version, and only a handler that holds the lock answers.
Waiting, notification and the bound on requests play no part.

### The analog caches

Their proof is in `ServicesProofs`. Generations start again from 0 with each waveform, so that a generation alone does not tell whose an
entry is. `IInv` is about every entry that a row or the registry holds: it is of this generation
and of this waveform, and whatever is drawn or in flight under one key is the same entry. The result of an older task takes whatever is in
flight under its key out of the registry; the rows must therefore agree among themselves.

### The protocol

The requests and answers of a server are one chain: answers written to clients or being written, answers in
the channel, answers about to be sent, requests taken, requests in the channel, the request the
task holds. `OneReplyEach` says that this chain, without the reports that nobody asked for,
counts from 1 to the number of requests read. A step moves a message to the end of
the queue before it (`ChainTaken`, `ChainSent`, `ChainDelivered`, `ChainForwarded`), puts an answer in the place of its
request (`ChainHandled`) or a report between the others (`ChainReported`), or adds a request at the end
(`NumberedMore`). `IInv` adds what makes the chain that of one server: a task holds a request
exactly while it forwards it, and a server that was not started has read nothing and has
nothing on its way.

`CommandsKnown`: the clients send commands that `handle_wcp_cs_message` has a branch for; others
do not parse and are no message. `ServicesProofs` shows it of the commands of the run.

### The simulation

An answer carries nothing that says what it answers. `IInv` says that the answers that arrived and the commands under
way match the first callbacks in order, and all of them while the connection
lasts. Further, every list of variables that is on its way, that the simulation knows, or that is being decoded
is a beginning of the list of all variables ever loaded: so a sample and the list it was asked for with
agree wherever both have a variable. What waits was asked for only if the
simulation refuses no list (`ListsNotRefused`): an error takes the callback and leaves the
cache waiting, for good.

### The interface

The four parts in `Interface` share no variable, and each is proved about by itself. What they have in common is that something remembered is used later.

* Annotations: `CycleInRange` speaks of the groups shown, but undo, redo and state files bring back others.
  `GroupsInv` therefore says it of every canvas in the two stacks and in the state file. One lemma per helper
  on groups, and one per message that changes them, shows that a list that
  gets shorter starts its counter again.
* Gestures: `DragInv` says that while an annotation is drawn the remembered origin is that of the drag under way.
  It holds because the tool cannot be changed during a drag and every drag with a tool sets the origin.
* The side panel: `ScopesInv` says that a request to expand a scope has forgotten what was closed. The request is
  dropped in the frame that serves it, but not for a root scope or for all scopes in the tree; while the tree keeps one
  (`StaysPending`), what is closed does not count.
  `Honest` says that the cached expression and its error belong to one pattern.
  For the button, `ListInv` says that what is listed beside the scopes is what the filter
  selects now, of the scope selected now: every message in between empties it. That the two
  sortings then agree rests on `PlacesByOrder`: in a finite set with a strict order the numbers of elements below one are
  all the places, each taken once.
* The view: every message either sends the view somewhere or leaves its movement alone
  (`MessagesSend`); only the last step of a movement, and a reload, end one.

### Side by side

`MCServices` takes one step of one part at a time. `ServicesProofs` shows that each step of it is
a step of the part or leaves the part's variables as they are (`PartSteps`), and so carries the
theorems of `SurverProofs`, `WcpProofs` and `CxxrtlProofs` over to the properties that the run
`Services` checks. The invariant of the analog caches is proved there directly, since nothing else uses it.

### Checked besides

TLC checked the invariants as well:
that of `Canvas` on all 230,008 states of its run, and on 6.4 million
states with undo before time ran out; that of `AnalogCache` on 15 million states before time
ran out; that of `WaveLoading`, with `Kept`, on all states of its run; that of `Cxxrtl` on 206,005 states, and that of `Wcp` on 935,406 states with seven
commands and two items (before writes to a client had a state of their own), all three complete.

### What is only model-checked

* Of `Canvas`: `Consistent` (only groups have children, placeholders, selection), `FailsOnlyWithoutRow` and
  `NewItemsVisible`. They depend on legal levels, and so on moves of several disjoint subtrees,
  for which there is no lemma yet.
* `ViewStaysNear` of `Viewport`. It is not inductive for all constants: every reload rounds down, so
  that for some units the view may drift by a step each time; the bound of one step holds for those of the run.
* The other properties of the interface (`Toolbar`, `TimeInput`, `CommandPrompt`, `Viewers`, `ItemAttributes`), and
  the algorithms, among them the comparisons with reference definitions.
* The properties that TLC finds violated.
* All liveness properties, among them that displayed signals arrive and that batch commands exit: they hold under fairness, which is out of the prover's reach, as
  is what a recursive definition computes for every input.

## Not modelled

* Painting, layout and the widgets of menus, dialogs, status bar and help: they read
  the state and send messages, and the handlers of these are modelled. Which buttons and
  texts are shown is translated where it depends on the state (the button sets of
  `Toolbar`, `Gestures.Feedback`, `Drawing.VariableDrawCommands`, `BoolHeight`,
  `BitLaneFor` and `Relations`); no property is about these.
* File formats, HTTP, JSON, RON and TOML, and the libraries that read them: their results
  are parameters. Wide floating point, posits, instruction decoders, Python and WASM
  translators are libraries too.
* The file watcher turns events of the operating system into the reload message that
  `WaveLoading` already sends.
* Configuration and themes are read once into records.
* The WASM interface, the desktop binary, the VS Code extension and the documentation
  generator forward arguments and messages.
* Within modelled components: `previous_waves` of a loaded file, batching of signal
  requests by URL length, compression and tokens of the server, the browser's handler of
  the control protocol, the overview, the analog renderer, the easing curve (any point
  between the ends), fuzzy scores and locale grouping of digits.

`PROJECT.json` says for each component what is left out.

## Plan

Theorems to add, in this order:

1. Moves of several disjoint subtrees keep legal levels; then `GroupsOnly`, `HiddenNotSelected` and `FailsOnlyWithoutRow` of `Canvas`.
2. Lemmas about algorithms without recursion, those of `Toolbar` and `Viewers` first.

To model next: an abstract wave source that `WaveLoading` refines where no two operations
overlap, and the server's client composed with `Surver` itself.
