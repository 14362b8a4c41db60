# A verification of dd-client

`dd-client` attaches a terminal or a phone to a session on a remote agent. The agent's
output is raw PTY bytes over a Noise connection; the client derives from it, locally, an
append-mostly *block log* (prose, code, diffs) beside a vt100 screen, and shows one or
the other. This directory models that client in TLA+, checks the models with TLC and
proves the most important results with TLAPS.

Line numbers below are those of the repository's sources. `<crate>` paths are shortened:
`stream.rs` is `crates/dd-client-session/src/stream.rs`, and so on.

## 1. The system

### Components, their state and operations

| Part | State | Operations |
|---|---|---|
| Block log and view (`stream.rs`, `block.rs`) | `BlockLog`: blocks in order, id index, next id. `BlockView`: blocks, index, order | log: append, patch, finalize, truncate, snapshot. view: `from_snapshot`, `apply` |
| Session engine (`engine.rs`) | adapter, log and screen, each under its own mutex; a broadcast channel of 4096 events | `feed_output`, `finish`, `subscribe`, `snapshot`, `screen_snapshot`, `resize` |
| Adapters (`derive/mod.rs`, `floor.rs`, `claude_code.rs`) | floor: line under construction, escape state, `in_code`, `in_diff`, the open block. Claude Code: unterminated line, open text block | `feed`, `flush`, and through `BlockSink` append, patch, finalize |
| Menus and screen (`derive/menu.rs`, `derive/screen.rs`) | the vt100 parser | process, resize, snapshot, `detect_menu` |
| Transport pump (`transport.rs`) | the input channel, the split connection | one loop over input and frames |
| Raw chords (`input.rs`) | `armed` | `feed`, `menu_select_keys` |
| Session UI (`session_ui.rs`, `mode.rs`) | the shared `ViewMode`; per regime a key reader thread or stdin, a channel of 64 events; scroll position and following | `run`, `run_structured`, `draw`, `run_raw`, the pump's callback |
| Mobile session handle (`dd-client-ffi/src/lib.rs`) | engine, mode, input sender, pump task, observer task | attach, `subscribe`, `send_text`, `set_mode`, `close` |
| iOS app (`SessionModel.swift`, `ContentView.swift`) | session, blocks, status on the main actor | connect, disconnect, reload |
| Device key store (`dd-client-core/src/lib.rs`) | the key file and its temporary file | `load_or_create_key`, `persist_key` |
| Connection, attestation, RPC (`dd-client-core`, `ita.rs`) | Noise handshake state, verified claims | `fetch_and_verify_server_pubkey`, `connect`, `call`, attach |
| History (`history.rs`) | none | `open_record`, `decrypt_replay` |
| Command line (`main.rs`) | none | twelve commands: load the key, connect, one or two requests, print or enter the session UI |

### How they interact

```
 keys -> key reader thread --channel(64)--> UI --channel(256)--> pump --Noise--> agent
 keys -> stdin (Raw) -> ChordParser -----^    |                  |
                                         ViewMode (mutex)        | frames
 terminal <- UI draws / repaints              |                  v
 terminal <- raw mirror (only in Raw) <-------+-------------- callback
                                                                 |
 renderers <- broadcast(4096) <- EngineSink <- adapter <- SessionEngine.feed_output
           <- snapshots <- BlockLog (mutex), screen (mutex)
```

The pump is one task: while it sends it receives nothing, and the callback runs inside
it. The adapter's calls go through `EngineSink`, which locks the log for one call and
broadcasts its event under the lock. A renderer treats an event, and `Lagged`, as a
wake-up only, and takes a fresh snapshot. The UI, the key reader, the pump and its
callback share the mode, the terminal and two bounded channels.

A command line process is a sequence: load the key, ask the agent's health address for
its key and token, verify, dial, send requests. Several processes share the key file,
and the agent may change between any two of these steps.

### What is hard

* The engine: joining while the log is edited, a receiver that lags, the last event of a
  burst consumed by a resync that had already begun.
* Events are broadcast *before* the screen has processed the frame.
* Event replay onto a view that was seeded late, across truncations.
* Adapters: any order of fences, hunks, prose, or of texts, tool uses and results within
  and across messages; readers in between two calls; output that ends, or is cut by a
  frame, in the middle of an event.
* The mode is read, its lock released, then acted upon (mirror, `send_text`).
* Flipping regimes: two readers and three queues of keys, a thread to be joined, a
  repaint that races the mirror.
* Quitting: queued keys must be delivered, and everyone waits for someone.
* First runs of several processes create the device key; crashes in between.
* Health and the websocket are two connections: what was verified on the first need not
  hold of the second.
* A replay loads the key twice, and its transcript was sealed to the keys enrolled at
  the time of each record, not to those of today.
* A damaged record need not look damaged: it may look like another device's.
* A list of an earlier question is still on the screen above the live one.
* A reader who has scrolled back, while output, menus and resizes change the window.

`PROJECT.json` lists each hazard at its line with the properties that cover it, and says
what of it no property covers.

### What makes each part correct

* Log and view: the index is the inverse of the order; ids are never reused; revisions
  count edits; replay reproduces the log.
* Engine: no event slips between snapshot and subscription; nobody sleeps on a stale
  document; pictures never go back; who stays sees the newest document.
* Adapters: a reader sees a document that only grows at its end, with one open block; no
  line is lost, doubled, moved or put in a block of the wrong kind.
* Transport: the wire is a prefix of what was queued; nothing after a stop; closing
  drains; the pump ends.
* Chords: cutting input into reads changes nothing.
* UI: keys arrive in typing order, never from Watch, and all before quitting; Raw shows
  every frame once; quitting ends.
* The view: whoever follows sees the newest line, whoever does not keeps the place; a
  menu is the one on the screen, and its keys pick the option they are for.
* Key store: all processes end up using one key; a death leaves no damaged file.
* Connection: requests go only to the agent whose key was verified, and verified for
  what the user's options ask.
* History: a replay prints every output record since the enrolment, or fails; it leaves
  out only what damage made look like a record that is not the device's.

## 2. The modules

| Module | Models | Uses |
|---|---|---|
| `BlockLog` | the log's and view's operations as operators on records | |
| `BlockReplay` | one producer, one consumer that replays | `BlockLog` |
| `BlockLogProofs` | lemmas about the log's and the view's operations | `BlockLog` |
| `BlockReplayProofs` | proofs | `BlockReplay`, `BlockLogProofs` |
| `Document` | abstract: what an engine promises its renderers | |
| `SessionEngine` | pump, log mutex, broadcast channel, screen, renderers | implements `Document` |
| `SessionEngineProofs` | proofs | `SessionEngine` |
| `ChatDocument` | abstract: a document that grows at its end only | |
| `BlockSink` | the `BlockSink` calls, one at a time, on the log | `BlockLog`, `ChatDocument` |
| `FloorLines` | the floor adapter's bytes becoming lines | |
| `FloorAdapter` | the floor adapter, a line at a time | `BlockSink` |
| `ClaudeCodeAdapter` | the adapter for stream-json, an item of a message at a time | `BlockSink` |
| `Adapters` | the one a session picked, over its log | both adapters; implements `ChatDocument` |
| `AdaptersProofs` | proofs about both adapters, that they implement `ChatDocument`, and about the floor's lines | `Adapters`, `FloorLines`, `BlockLogProofs` |
| `Transport` | input channel and pump | |
| `ChordParser` | the parser as a fold over bytes | |
| `ChordReads` | the parser against a definition without state | `ChordParser` |
| `SessionUi` | UI, key reader, stdin, mode, callback, terminal | `Transport`, `ChordParser` |
| `SessionUiProofs` | proofs about the transport, about the UI that implements its environment, and about the parser | `SessionUi`, `ChordReads` |
| `MobileSession` | `SessionHandle`, its pump and observer task, and the app's `SessionModel` | `Transport` |
| `MobileSessionProofs` | proofs | `MobileSession` |
| `Menus` | `detect_menu` and `menu_select_keys` as operators on rows | |
| `View` | the window on the document, the grid, the menu below; keys that scroll | `Menus` |
| `ViewProofs` | proofs about the window and about menu detection | `View` |
| `DeviceKey` | the key file under several processes that may die | |
| `Attestation` | what verification demands, as operators | |
| `History` | opening sealed records, as operators | |
| `Client` | a command line process from start to exit, the agent, the transcript | `DeviceKey`, `Attestation`, `History` |
| `ClientProofs` | proofs about the key file, and about the client that implements its environment | `Client` |
| `MC*` | the values of constants for TLC | |

`PROJECT.json` ("map") gives the source lines of every definition. Some modules hold,
just before a definition `X`, variants named `X_Something`: `X` with one plausible bug.
No specification uses them. They serve to see that each property would notice that bug.

### Correspondence with the code

**BlockLog / BlockReplay.** A block is its kind, revision, text, options, selection and
completeness; ids are numbers, as in the code. The log is a record `[blocks, index,
next_id]`; `LogAppend`, `LogPatch`, `LogFinalize`, `LogTruncate` are the four methods,
and each action of `BlockReplay` also publishes the event that method returns.
`FromSnapshot` and `ViewApply` are `BlockView`'s; a slice out of range in `apply` is
`ViewPanics`. `Replay` takes the next event; `Seed` is a consumer that joins late.
`hist` is auxiliary: every version the log has had.

**SessionEngine.** The log and the screen are their version numbers, since nothing
depends on what is in them. The log's mutex is `log_lock`. A sink call is two steps,
`SinkMutate` and `SinkSend`, because renderers run in between. `Subscribe` and
`SubscribeSnapshot` are two steps under the lock. The broadcast channel is tokio's:
`tail` is its length since the start, `rx[r]` a receiver's position, and a receiver more
than `Capacity` behind gets `Lagged` and jumps to the oldest event kept. A send without
receivers stores nothing. The screen is captured in `Draw` without the log's lock, as
`draw` does.

**BlockSink and the adapters.** An adapter's handling of a line computes all its calls
at once, which is faithful because the adapter is single threaded and the only writer of
the log; the calls are then performed one by one (`SinkStep`), with readers in between,
because the log is locked for one call only. The floor adapter's lines are represented
by their class and their number (the text). A stream-json line is the sequence of items
the adapter's loops go through (`content`), in any number and order: texts and tool
uses, with or without an input, of an assistant message; tool results of a user message;
a final result with or without a text; items that are skipped; or a line that is no
JSON. An item is represented by what the code does with it, and by its number in the
stream (its text); `HandleNext` is one turn of the loop, with all calls made for that
item. The buffer is what the bytes after the last newline are *as a line so far*;
`CanBecome` says how more bytes may change that. `Flush` handles what is left in it if
that is an event, and drops it otherwise, as the code does.

**Adapters.** The frontend picks an adapter when it attaches, and it stays; the two
modules are instances over one log, and one run asks everything of both.

**FloorLines.** The bytes of `feed`, one at a time and by class: all of the adapter's
state outlives a call, so where frames are cut does not show. A line is the positions of
the bytes kept. `LinesExact` compares the lines with `Shown`, which is defined over the
whole output without any of the adapter's state: which bytes are inside an escape
sequence, the last carriage return that something follows, the bytes that backspaces
take back.

**Transport.** `Send` waits for room; `TakeInput`, `Sent`, `SendFails`, `RecvFrame`,
`OutputReturns`, `SocketEnds`, `InputClosed` are the branches of the `select!` loop and
its error exits. `End` drops the channel's receiver with its content. A receiver that
returns `None` means: no sender *and* nothing queued. `queued` is auxiliary.

**ChordParser / ChordReads.** `Feed` folds `ConsumeByte` over a read. `ChordReads`
splits an input into reads in every way, and compares with `Meaning`, the effects of all
bytes one after the other, each defined from the whole input (`Effect`).

**SessionUi.** `ui` is the UI task's place in `run`, `run_structured` and `run_raw`;
`held` are actions decided on and not carried out, because `send().await` may wait. The
reader thread has four places (check the flag, poll, blocked in `blocking_send`, gone).
Leaving a regime, restoring the terminal and setting the flag (`StopReader`), and joining
the thread are three steps, in which the thread may go on reading.
The callback has three (feed the engine, check the mode, write). Keys are numbered in
typing order; frames are numbered too, and the terminal in Raw is the sequence of frames
it shows. Sessions start in Watch, as every caller in `main.rs` does.

**MobileSession.** A session is numbered; the log is its version, as in `SessionEngine`.
Attaching runs detached (`Attached`, `AttachFails`); `OnAttached` is `onAttached` up to
`subscribe`, `OnAttachedReload` the rest of it, with edits in between. The observer task
is `drain`, its position `rx`. `on_changed` posts a job; `Reload` is that job.
`Disconnect` is `disconnect` with the `close` it calls: both tasks are aborted, but a
call of `on_changed` that is under way still returns (`OnChangedLate`). The jobs of the
main actor do not interleave, except that the `await` of a detached task is a job of its
own. Connecting twice or disconnecting while attaching cannot happen: `ContentView`
shows the buttons for neither.

**Menus / View.** A row of the screen is the form of its text (blank, prose, a question,
an option with a digit, with two digits, with a letter in brackets), whether a marker
comes first, and whether a cell of it is in reverse video. The other spellings of an
option (`1)`, `(a)`) are left out, since detection treats them alike, and so is a
hotkey's case: `[A]` gets the small letter, and an app that minds is not modelled.
`MenuIsExact` says what a user sees, without the scan. It says nothing of a screen with
a list above a question: there `detect_menu` shows the list, though the question may be
the live one. A list with nothing live below it is shown as well, however old.
`KeysPick` says what an app does with the keys sent for an option, by the text of its
rows: it takes a key that a row shows, or moves its cursor. Where the app has its cursor
is known when one row of the list is marked; with none or several the code counts from
the first or the last of them, and the property says nothing of arrows. Of the document,
`View` keeps the number of lines and whether one is wider than the terminal. `Detect`
and `Draw` are two steps, since the menu and the grid come from two snapshots.
`MaxScroll`, with its cut to u16 and its saturating differences, is `draw`'s.

**DeviceKey.** A file is an inode, so that a process keeps what it has open across a
rename, and a truncation shows to all; `path` and `tmp` are the two names. Each system
call of `load_or_create_key` and `persist_key` is a step; `Dies` may come before any of
them and stands for calls that fail as well. The 32 bytes are one `write` and are there
or not. `raced` and `torn` are auxiliary.

**Attestation / Client.** A token is what `Verifier` and `verify_quote_binding` read of
it; a claim about a key names the life of the agent whose key it is. `HealthReplies` has
every token that differs from a good one in one respect, those of earlier lives of the
agent, and a missing one. `Vouches` is what a user wants, written without the code's
checks: a signature that only the issuer can make, a report of 32 or 64 bytes that binds
this key and nothing else, the pins. Reports come as hex, with or without `0x`, as
base64, and as neither. A process goes through `key`, `dial` and `call`; a replay loads
the key once for itself and once more in `connect`. Commands that send one request and
print it differ in nothing that is modelled; `Requests` lists all twelve. The agent
seals each record to the keys enrolled at that time.

**History.** A stanza and a body are whole, garbled (decode but do not decrypt) or
malformed; stanzas are tried in their order, as `open_record` does. A record that is not
a string is passed over (`filter_map`). `Damaged` has each damage that one record may
have suffered, this one and a garbled stanza of the device itself included. After those
two the code cannot tell that the record is the device's, and goes on without it:
`Hidden` names them, and `ReplayExact` says that nothing else is ever missing.

## 3. What is checked

All runs are exhaustive within their bounds. Deadlock is not checked (`CHECK_DEADLOCK
FALSE`) because every one of these systems may stop: the session ends, the client quits,
or the bound on inputs is reached. That nobody waits for ever is checked by liveness
instead (`ImplementsDocument`, whose `Document` has fairness, `QuitEnds`,
`AppCatchesUp`).

| Run | Bounds | Shows |
|---|---|---|
| `block_replay` | 5 events; Markdown, Menu, Input blocks; one chunk of text, one option | `IndexConsistent`, `FreshViewMirrors` (replay from the start equals the log at that position, no panic), `IdsNeverReused`, `RevisionsGapless`, `SeededTailExact` (what a late view does follow) |
| `session_engine` | 2 renderers, capacity 1, 2 frames, 3 edits | `NoEventSlips`, `NoLostWakeup`, `DrawnMonotone`, and that the engine implements `Document` with its fairness; with capacity 1 two pending events already lag |
| `adapters` | 6 lines of 5 classes of plain output, or 5 stream-json items with the session's end, up to 3 in one message, cut into frames anywhere | `CurrentIsOpen`, `NothingLost`, `LinesRouted`, `ProseInOneBlock` (floor), `TextBlockIsOpen`, `InOrder`, `ItemsShown` (Claude Code), and both implement `ChatDocument` |
| `parsers` | 5 keys of 5 classes, in reads of any size, or 5 output bytes of 10 classes | `Verbatim` (the chord parser), `LinesExact` (the floor adapter's bytes) |
| `session_ui` | 4 keys of 6 classes, 1 frame, channels of 1 and 2 | `KeysInOrder`, `QuitDelivers`, `WatchQueuesNothing`, `RawShowsFrames`, `QuitEnds`; on the pump's channel `WireIsPrefix`, `NothingAfterStop` |
| `mobile` | 2 sessions, 3 edits each, 2 texts, 1 frame, channels of 1 | `ShownIsCurrent`, `NoChangeMissed`, `AppCatchesUp` |
| `view` | every first screen of up to 3 rows of 7 kinds, and of 5 rows of 4 kinds, then 3 screens; heights 4 and 8; 7 lines; a u16 of 7 values | `MenuExact`, `PickReachesOption`, `FollowShowsNewest`, `KeepsPlace` |
| `client` | 3 invocations of 3 commands, 2 at a time; 2 lives of the agent; 2 records, one of them damaged in any way; 3 sets of options | `KeyFileWhole`, `OneDeviceKey`, `RequestsReachAttested`, `ReplayExact` |

Why these bounds are enough. Five log events let a block be truncated and followed by
another with edits before and after it. One text chunk suffices since patches are
recorded by position. Renderers do not affect one another except through the lock and
the count of receivers, which two show. Six lines are a fence pair, a hunk and prose
around it; the adapters remember no more than two flags and one block. Five stream-json
items give every sequence of up to four before the end, in one message (up to three) or
spread over several: a tool use between two texts, a skipped item between two shown
ones, several results in one message. The adapter remembers one open block, so longer
sequences meet the same situations. A channel of one or two elements is as full, empty
or partly full as any larger one, and the real capacities (64, 256, 4096) are never
compared with anything else. Four keys go from Watch to Interact, send, go to Raw, and
send again, or visit Raw twice with a frame before, between or after. Five bytes are the
longest mix of interest: a terminated escape sequence with a byte before and after it,
or text rewritten and taken back. Two sessions are what a late callback of the first
needs to meet the second. The pump is run with the UI as its sender, which fills and
closes the channel in every way a sender can. Three rows are a list with a row above or
below it, or two options and a gap; five rows hold two lists of two options, a list of
four or five, or a list above a question; heights 4 and 8 leave the document no line,
one, or several, with and without a menu; seven lines reach the small u16. Three
invocations are two that overlap, and one that finds what they left; key generation, a
replay and a shell are a command without, with one and with two requests.

### Disagreements between code and documentation

Each is a run in which TLC finds the statement violated; `PROJECT.json` ("findings")
quotes the line.

| Run | Statement | What the code does |
|---|---|---|
| `seeded_panic` | `apply` ignores what it does not know (`stream.rs:103`) | a truncation drains `order`, which lacks the seeded blocks, at a position of `blocks`: panic |
| `screen_stale` | full-screen apps get the faithful grid (`session_ui.rs:349`) | a renderer is woken before the screen has processed the frame, or not at all if no block was edited |
| `replay_hole` | what a replay skips is "not our recipient" (`history.rs:131`), and malformed input is an error (`history.rs:83`) | a record of the device is skipped when its stanza is garbled (103–108) or when it is no string (129), and the transcript is printed with a hole |
| `quit_stuck` | the reader "exits promptly on quit" (`session_ui.rs:111`) | a reader blocked on its full channel is awaited by the task that should empty it |

No caller in the repository uses `BlockView` yet, so the first is latent; the renderers
take snapshots instead, for which `NoLostWakeup` and `ImplementsDocument` hold.

Other differences that show when the definitions are read beside the documentation,
without a run of their own:

* `flush` drops a line it cannot parse, against "surfaced as Markdown rather than
  dropped, so nothing is lost" (`claude_code.rs:12`); `ItemsShown` covers the lines
  whose newline has come.
* A frame processed while Raw repaints the terminal is shown twice or overwritten,
  against "flipping is lossless" (`session_ui.rs:6`); `RawShowsFrames` excludes that
  overlap.
* A seeded view has no ids for the blocks of its snapshot and ignores their edits
  (`SeededTailExact` says what it does follow), against `stream.rs:4`.
* A fence inside a hunk leaves `in_diff` set, so a later line that starts with a blank
  opens a Diff block without a header (`InHunk` spells this out).
* Two consecutive assistant messages share a block, against "one block per assistant
  turn" (`claude_code.rs:6`).
* `Ctrl-]` alone does not detach, against `README.md:51`; it is a prefix.
* Keys queued earlier are sent while the mode is Watch; `WatchQueuesNothing` is what
  holds of "Transmits nothing" (`mode.rs:10`).
* The callback may write to the terminal just after Raw was left, against
  `session_ui.rs:66`.
* Menu detection runs on every drawing, against "Callers gate this on output quiescence"
  (`menu.rs:10`); `MenuExact` is about a screen, not about when it is read.
* A list anywhere on the screen hides a `(y/n)` question below it; `MenuExact` leaves
  such screens out.
* `draw` counts lines before they wrap, and cuts their number to 16 bits: with long
  lines or very long documents "follow" leaves the newest line out of view.
  `FollowShowsNewest` and `KeepsPlace` are about the others (`Counted`).
* A full-screen app sets the scroll position to 0: when it ends, a reader's place is
  lost. `Follow` has no key in Interact, so there only scrolling down gets back to the
  end, without following.
* Two first runs that overlap make two keys, and the one that was printed first may not
  be the one stored; if one of them dies, the stored file may stay empty. `OneDeviceKey`
  and `KeyFileWhole` name exactly these exceptions.
* `shell` leaves its session on the agent when attaching to it fails.

### Fairness

Only what the runtime gives. A call that was started returns, a ready task is scheduled
(weak fairness on the steps inside the pump, the callback, the renderers, the reader
thread). `select!` picks at random among ready branches, so a branch that is ready again
and again is taken: strong fairness on `Recv`, `TakeInput`, `InputClosed`. A send
returns or fails (`WF(Sent \/ SendFails)`): the socket takes the bytes or breaks.
Nothing makes a frame arrive, a user type, quit or leave, or a session end. A log mutex
that other tasks take again and again is granted in the end (strong fairness on
`Resync`): nobody holds it for longer than one call, and a renderer competes only with
edits and with renderers that subscribe anew. In `MobileSession` the observer task is
polled, `on_changed` returns and the main actor gets to each of its jobs (weak fairness
on `OnAttached`, `OnAttachedReload`, `Recv`, `OnChanged`, `Reload`).

## 4. What is proved

Theorems hold for every value of the constants allowed by the named assumptions, and for
behaviours of any length: the bounds occur only as guards.

**BlockLogProofs, BlockReplayProofs** (assume `KindsAssumption`). `TypeCorrect`,
`LogConsistent` (`[]IndexConsistent`), `ReplayIsExact` (`[]FreshViewMirrors`),
`IdsAreFresh` (`[]IdsNeverReused`), `RevisionsCountEdits` (`[]RevisionsGapless`) and
`SeededViewFollows` (`[]SeededTailExact`). The lemmas come in three layers: each log
operation preserves types and well-formedness (`AppendSound`, `EditSound`,
`TruncateSound`); each operation's event turns the view of the old log into the view of
the new one (`AppendMirrors`, `PatchMirrors`, `FinalizeMirrors`, `TruncateMirrors`); and
a view, seeded or not, stays well typed under any event (`ViewApplySound`).
`FreshViewMirrors` alone is not inductive: the consumer replays an event long after it
was published. The inductive invariant `IInv` adds `EventsMirror`, which holds for every
adjacent pair of versions in `hist`. The counts are not inductive either: the stream
alone does not say what the log will give out next. `CountInv` adds that every event's
id is below `next_id`, and that the revision of each block *in the log* is the number of
its edits in the stream; `Advances` says what an operation does to these numbers. For a
seeded view `SeedInv` relates it to a view that was there from the start (`Follows`):
the same blocks behind the snapshot's, and an index that lacks those alone. An event then
does the same to both, or touches a block of the snapshot and does nothing to one.

**SessionEngineProofs** (assumes `TaskAssumption`, `CapacityAssumption`). `TypeCorrect`,
`NoEventIsLost` (`[]NoEventSlips`), `NoWakeupIsLost` (`[]NoLostWakeup`),
`PicturesMoveForward` (`DrawnMonotone`), and `EngineImplementsDocument`: every step of
the engine is a step of `Document` or a stutter. `NoEventSlips` needs `LockInv` (a
subscribing renderer holds the lock, so the log stands still and its position is the
tail), `BehindInv` and `CountInv` (no event without its edit); it covers a renderer
asleep or about to draw only, since in between an event has been consumed whose effect
the coming resync will bring.

**AdaptersProofs** (assumes `LinesAssumption`: the number of a line or an item is a
text). `CurrentIsOpenHolds`, `NothingLostHolds`, `LinesRoutedHolds`,
`ProseInOneBlockHolds` for the floor, `TextBlockIsOpenHolds`, `InOrderHolds`,
`ItemsShownHolds` for Claude Code, and `Refinement`: what readers see implements
`ChatDocument`, whichever adapter was picked. The messages have any number of items, in
any order. An adapter decides on all calls for a line, or an item of one, at once and
performs them one by one, so its own variables describe the log only *after* the calls
still to be made. The invariants `FloorInv` and `ClaudeInv` therefore say that there is
such a log, `end`, to which the pending calls lead (`Leads`), each call by a step that
the rules of its adapter allow (`Takes`: a new block when none is open, text for the
open block, or its end), and relate the variables to `end`. What must hold in between as
well (`LinesRouted`, the refinement) follows from the single steps, which keep the
document `Lawful`: each line is in a block of a kind meant for it, and blocks of one
kind follow one another only where the rules say so.

`LinesExactHolds` (`[]LinesExact`, no assumption) is about the bytes of `FloorLines`. The
invariant `LinesInv` holds until `flush`; afterwards nothing moves. `AnsiSays` relates
`ansi` to the definition: either no sequence is open (`Covers` of the last byte is not
beyond it), or there is a byte where one started and has not ended, and `ansi` is its
stage. `Complete` says that the lines given away are the first rows of `Shown`,
`Current` what the line under construction is. That it holds the bytes `Kept` names is
not inductive: a backspace would have to know which of them it takes back. `LineSays`
adds that behind the i-th byte of the line there are as many more bytes of text than
backspaces as bytes of the line, so that the last one is the one that the next backspace
covers; and `pending_cr` says that nothing has come after some carriage return
(`Pending`). What the definition says of the bytes so far must not change when another
one comes: `CoversGrows`, `RowsGrow` and `ShownStays` state this for sequences, rows and
complete lines.

**SessionUiProofs** (assumes `QueueCapAssumption`, `KeyCapAssumption` and
`MessageAssumption`: a message may carry any keys). First the transport under any
sender: `TransportTypeCorrect`, `SendsInOrder` (`[]WireIsPrefix`), `StopsAtStop`
(`[]NothingAfterStop`), `ClosingDrains` (`[]ClosedIsDrained`, on which `QuitDelivers`
rests, the property that the run checks); the strengthening is `Accounted`: everything
queued is what was sent, then the message in hand, then what is queued, element by
element. Then the UI: `UiImplementsTransport` shows that each of its steps is a step of
`Transport` or leaves it alone, so that these results hold of it (`UiSendsInOrder`). The
inductive invariant `UiInv` has five parts. `Control` says in which combinations the UI,
the reader thread and the pump can be, `Output` where the callback stands with respect
to the frames, `Screen` what Raw shows (all up to the repaint, then each frame), `Typed`
what the channels carry, and `KeysInLine` that the keys ever queued, those of the
actions in hand, and those held back by the parser or on their way from the reader
thread are in the order of typing, one group after the other. Hence `TypesCorrect`,
`WatchIsSilent`, `RawIsFaithful`, `KeysStayInOrder`. `KeysInLine` needs what the chord
parser, a fold, does with keys in order (`FeedKeepsOrder`), and that flattening a
sequence in line gives one that rises (`FlattenInLine`). Both are proved by induction
over the positions, in a form that needs no predicate variable: a set with 0 and, with
each number, its successor, has all numbers (`BoundedInduction`, by the pigeonhole
principle), applied to the positions up to which the intermediate results (`FoldSteps`,
`FlattenSteps`) are right. `QuittingDelivers` (`[]QuitDelivers`) adds `Quitting`: the
EOF key is the last that is queued and nothing but it stops the pump, and the UI is done
only when the pump has ended.

`ForwardedVerbatim` (`[]Verbatim`, assumes `MaxBytesAssumption`) is about the parser
alone, under reads of any size (`ChordReads`). The invariant `ReadsInv` says that between
two reads the parser holds back a Ctrl-] exactly when the input ends in a prefix that
nothing has followed, and that all the rest is in the actions. One byte
(`ByteSays`) adds its `Effect` to what the parser has decided (`Said`): this needs
`PrefixedStep`, which relates a byte's prefix, a count of all the Ctrl-] before it, to the
byte before it, and `EffectIsLocal`, that later bytes do not change an effect. A read is a
fold over its bytes, so `FeedSays` goes through its intermediate results (`FoldSteps`),
and `FlattenConcat` puts the pieces together.

**MobileSessionProofs** (assumes `CapacityAssumption`). `AppShowsItsSession`
(`[]ShownIsCurrent`) and `NoEditIsMissed` (`[]NoChangeMissed`). They are inductive
together with `Attaching` (one session at a time, attached only while there is none),
`Observing` (the observer task is there from `subscribe` to `close`, never ahead of the
channel) and `Counters`.

**ViewProofs** (assumes `HeightAssumption`, `U16Assumption`, `ScreenAssumption`: a
screen is rows). `NewestIsShown` (`[]FollowShowsNewest`), `ReaderKeepsPlace`
(`KeepsPlace`), `MenusAreWhatIsSeen` (`[]MenuExact`) and `PicksReachOptions`
(`[]PickReachesOption`). The invariant `ViewInv` adds to types that the view's document
is the engine's or an earlier one (`Lagging`), and that a picture, as long as no key has
come, is of the state of the loop but for lines that were added since (`Pictured`). Menu
detection is a fold over the rows: `ScanOk` says what it knows after some of them (the
options right above, the last list so far, and that it has none above it), `ScanStepOk`
that a row preserves this, `LastRunFinds` what follows for the whole screen, by the same
induction as above. `MenuFound` turns that into the menu of the rows from `a` to `b`,
`KeysLand` counts the arrows, and `PickIsMeant` puts them together.

**ClientProofs** (no assumptions). First the key file under processes that do anything
with it: `KeyFileIsWhole` and `OneKeyPerDevice`. The inductive invariant has parts that
always hold (`EmptyIsBeingWritten`: an inode without bytes has a writer, or lost it;
`CreatorHasKey`; `NamesDiffer`) and `Unraced`, which holds while first runs have not
overlapped: one process creates the key and only while there is none, the temporary file
is its own and holds what it wrote when it is renamed, who reads has the file that is
stored, and every key handed out is the one stored. Then `ClientImplementsDevice`: every
step of a client is one of the key file or leaves it alone, so that these results hold
of it (`ClientKeyFileIsWhole`, `ClientHasOneKey`). `RequestsGoToAttested`: the invariant
`TrustInv` says that who dials does so with the key it has reason to trust;
`VerifiedIsTrusted` shows that what the code accepts, of all that an agent may serve, is
what the user wants. `ReplaysPrintWhatIsDue` (`[]ReplayExact`): `ReplayInv` says that
each record is sealed to exactly the keys enrolled before it (`SealedAt`), that every
key enrolled, or used for a replay, was returned by the key file, and that what a replay
has printed is what was due to its key less what it lost; `SealedReads` goes through the
ways in which a line may be damaged, those that hide a record included, and
`OneDeviceKey` makes the replay's key the enrolled one while first runs do not overlap.

### Only model-checked

* All liveness (`QuitEnds`, `AppCatchesUp`, the fairness part of `ImplementsDocument`):
  liveness under fairness and `ENABLED` are out of the prover's reach.
* What four scenarios show that the code's documentation excludes (`seeded_panic`,
  `screen_stale`, `replay_hole`, `quit_stuck`): these are counterexamples, and need no
  proof.

Every invariant and every safety property of the passing runs is a theorem.

## 5. What is not modelled

| Part | Why |
|---|---|
| styles, colours, the layout of the status line | no state another component reads |
| `DerivationAdapter::confidence` | no caller reads it |
| block fields no operation writes | they never change |
| the vt100 emulator, serde, Noise cryptography, TLS | libraries; external |
| the words of a menu's options, a question's wording | detection tells apart their forms only, and the rows are those forms |
| directories, file modes | no other call reads them |
| URLs, HTTP, JSON of requests and replies | formats; a request is its method |
| `keygen` and the block conversions of the FFI crate | each a call of a function that is modelled, or a copy |
| `ContentView.swift`, `DevOpsDefenderApp.swift`, argument parsing in `main.rs` | layout, printing |
| the crossterm event queue across regimes | external, and undocumented: keys it read ahead of a flip are its own |

## 6. Plan

Done, in this order: log and replay, engine, adapters, transport, chords, session UI,
mobile session, lines, key file, client with verification and history, menus, view;
proofs of the log, its counts and seeded views, the engine, the transport, the key file,
the client, the adapters, the mobile session, the session UI, the view, the chord parser
and the floor's lines.

Models that could follow: two clients attached to one session; a session that is taken
up again after its connection was lost.
