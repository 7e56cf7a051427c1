# Renderd in TLA+

A TLA+ development of Renderd, a low-latency screen-streaming system: a host
captures its screen, encodes it and sends it in QUIC datagrams; a viewer
reassembles, decodes and shows it. The modules beside this file model the parts
of the Rust code in which order, timing, loss and failure decide whether that
works. TLC checks them on small instances; TLAPS proves the most important
properties for every instance.

Paths are relative to the repository (`src/` in PROJECT.json), and `app.rs`,
`encode.rs`, `data.rs` without a directory mean the host's.

## 1. The system

### The path of a frame

    screen ──> capture ──> EncodePipeline ──> ring (8) ──> DataSender ──> datagrams
                 │  ^        (KeyframeGate,                   │   ^
       refiner ──┘  │         resize, sharpen)                │   │ resend requests,
                    │              ^                          v   │ keyframe requests,
                 pacing            │ bitrate, size      RetransmitCache   feedback
                                   │                          │   │
                              AbrEngine, governor <───────────┘   │
                                                                  │
    display <── FrameQueue (3) <── decoder <── ReceiveWindow <── datagrams

Stream 0 of the QUIC connection carries the hello, the pairing and the
configuration; datagrams carry the frames; reports and recovery requests go
back to the host.

### Components

| component | source | state | operations | what is hard |
|---|---|---|---|---|
| receive window | `renderd-frame/src/receive.rs` | slots by frame id, `next_id`, `highest_seen`, the broken-chain flag, timers | `insert`, `poll`, `next_deadline`, `require_keyframe`, `set_rtt` | loss, reordering, duplication; timers against late answers; overflow by a jump |
| accept loop and session | host `app.rs`, `session/mod.rs`, `network/control.rs` | session state and viewer; who owns encoder, capture, link | accept, negotiate, set up, tear down | a task per connection, check before an await and act after it, failure at each step |
| keyframe gate | `encode.rs:40-160` | request flag, time of the last keyframe | `request`, `take_at`, `record_keyframe`, `reset` | separate atomics, several threads |
| encode pipeline, ring | `encode.rs` | hardware session, parameters, base size, ring | `init`, `submit`, output callback, `resize`, `shutdown` | callback thread, full ring, failed frames |
| encoder size | `encode.rs:311-531` | parameters, hardware size, base size, resizing lock | `reconfigure`, `sharpen`, `restore_size` | three threads and a session that ends meanwhile |
| data sender | `network/data.rs` | frame in hand, `awaiting_keyframe` | receive, skip ahead, withhold, send, fail | backlog, partial sends |
| retransmit cache | `network/retransmit.rs` | recent frames by id | `insert`, `lookup`, eviction | requests for what is not yet, or no longer, there |
| link pressure | `network/pressure.rs` | skip state, loss window, counters last seen | `attach`, `detach`, `should_skip_frame`, `packet_loss` | hysteresis with a moving rate; one window for all sessions |
| still-screen refiner | `refine.rs` | schedule, motion detector, held surface, thread | `on_capture`, pass, sharpen, restore, stop | contends with capture for the encoder; joined while it works |
| bitrate control | host `abr.rs`, `renderd-abr` | rate, state, hold ticks | report, decide, `set_bitrate` | bounds, a rate given during a rebuild |
| resolution governor | `scale.rs` | rung, pressure, stability times | `update` for either policy | oscillation, retries of a size that fails |
| host clock and capture | `clock.rs`, `capture.rs`, `app.rs`, `renderd-sc-sys` | applied interval, floor, stream, virtual display | vsync report, apply, start, stop, reconfigure | blocking jobs that outlive a session; answers late or never |
| Stream 0 | both `network/control.rs`, `envelope.rs`, `framing.rs`, `scale.rs` | hello, settings, configuration | send, answer, accept, refuse | rounding, limits of both ends |
| pairing | host `session/pairing.rs`, `devices.rs`, viewer `pairing/`, `renderd-keychain` | PIN, failures, lockout, tokens | generate, verify and save, reset, revoke | retries, limits, a write that fails after the PIN is spent |
| viewer receive pass | viewer `network/data.rs` | window, batch, last timestamp | drain, decode, signal, skip to a keyframe | dropped signals, backlog, timestamps that wrap |
| viewer feedback | viewer `app.rs`, `abr/` | counters, debounce, delay baseline | record, report, ask | what is counted as loss; which delay is true |
| decoders | `decode/*.rs`, VideoToolbox shim | transform or session, surfaces, fence | decode, drain, reset | surfaces reused, callbacks, three GPU lists on two queues |
| frame queue, window | `frame_queue.rs`, `app.rs`, `render/`, `renderer.rs` | bounded queue, frame in view | push, pop the latest, draw, fall back | wake-ups, frames of a session that ended |
| discovery and reconnect | `renderd-discovery`, viewer `discovery/`, `app.rs` | table of hosts, address picked, backoff | announce, lose, pick, connect, back off | hosts that move or vanish silently |
| VideoToolbox sessions | `renderd-vt-sys/src/session.rs` and its shim | session, callback box, frames in flight, reference counts | create, code, call back, drop | a drop while callbacks run; objects retained by two sides |
| capture surfaces | `renderd-vt-sys/src/surface.rs`, `renderd-sc-sys/src/stream.rs`, `refine.rs` | references and use counts | capture, hold, submit, release, stop | a reference alone does not keep the pool from drawing over a picture |
| legacy reassembler | `reassembly.rs` | pending frames, watermark | `insert` | eviction, late fragments, headers that disagree |
| configuration, start-up, shutdown | `renderd-config`, host `main.rs`, `app.rs` | settings, endpoint, mDNS record | load, validate, bind, register, shut down | limits that slip through; sessions that go on during the shutdown |
| UI | `ui/`, `autostart.rs`, ... | none that matters over time | | |

Every one of them is listed in PROJECT.json with its status; section 7 says why
the rest is left out or still to come.

### What makes each of them correct

- **Receive window**: the decoder gets only frames whose reference it holds, in
  order, once; every hole is asked for, filled or given up; memory is bounded;
  the loop that polls it neither spins nor sleeps through a deadline; a window
  that cannot go on asks for a keyframe until one comes.
- **Session**: one viewer at a time, served by a pipeline that is its own; every
  exit path gives back what was taken; the host is idle and listening again when
  the viewer is gone.
- **Sender**: a frame that references one that was not sent does not follow it
  out; whoever waits for a keyframe will get one.
- **Settings**: the rate, the size and the capture interval decided are the ones in
  force, whichever calls overlapped; nothing is left running after shutdown.
- **Control loops**: a bad link is not tried over and over; a good one is used.
- **Still screen**: when the screen rests, the viewer ends on its current content.
- **Recovery**: a datagram lost once costs no keyframe; a lost tail is noticed.
- **Viewer**: what is on screen is the session's, whole, in order and new; nothing
  decoded waits for ever; a host that can be found is reached.

## 2. The modules

| module | models | lines on it |
|---|---|---|
| `DecodeFeed` | the abstract promise of a frame receiver to its decoder | the specification `ReceiveWindow` implements |
| `ReceiveWindow` | `ReceiveWindow` of `receive.rs`, with `FragmentHeader::validate` | one action per public call, one operator per private step |
| `ReceiveWindowProofs` | theorems about it: its states, and what a call does | |
| `HostSession` | accept loop, connection tasks, session state, teardown | one action per critical section or shared-state call |
| `HostSessionProofs` | theorems about it | |
| `HostSender` | keyframe gate, `submit`, output callback, ring, sender loop | four kinds of thread |
| `HostSenderProofs` | theorems about it | |
| `EncoderSize` | `init`, `reconfigure`, `sharpen`, `restore_size`, `resize`, `shutdown` | three threads and the session's task |
| `StillScreen` | capture callback, refiner, submission, rebuild, frames in flight | a step between two unlocks of the refiner's mutex |
| `SizeGovernor` | `ResolutionGovernor` | one action per report |
| `RateControl` | the engine of `renderd-abr`, `AbrManager`, `set_bitrate` against a rebuild | |
| `LinkPressure` | `LinkPressure` with the thread that captures and the tasks that read | load, decide and store are steps |
| `CaptureSurfaces` | the surface pool, `IoSurface`, `HeldSurface`, what the refiner keeps, the pipeline's stop | two threads, the pool and the encoder |
| `CaptureControl` | `ClockController`, `CapturePipeline`, display choice, `ScreenStream`, `VirtualDisplay` | blocking jobs and late answers |
| `Negotiation` | Stream 0's hello and configuration, `stream_size` | both ends |
| `HostStart` | the host's process: settings, engine bounds, endpoint, mDNS record, shutdown | one action per step of `main` and `run` |
| `Pairing` | PIN, lockout, tokens, keychain, revocation, the viewer's prompt | both ends |
| `StreamRecovery` | sender, tail probe, retransmit cache, lossy link, the window's requests | end to end |
| `Bitstream` | NAL units and parameter sets from encoder to decoder | bytes |
| `FrameTimes` | timestamps that wrap, the delay baseline | host to report |
| `ViewerFeedback` | the receive pass's signals, the bounded channel, the feedback task | |
| `LiveView` | the abstract promise of the viewer's window | the specification `ViewerPipeline` implements |
| `ViewerPipeline` | receive loop's decoding half, decoders, frame queue, window, renderers | threads and callbacks |
| `D3D12Decode` | the D3D12 decoder's two queues, three allocators and fence | GPU and CPU |
| `Picture` | visible size, planes and pitches, fit into the window | pixels |
| `VtSessions` | VideoToolbox sessions of both sides, callbacks, what they retain | owner and callback threads |
| `Presenter` | the D3D11 presenter: swap chain, processor, cached views, upload texture | one action per call, which may fail |
| `Reassembly` | `ReassemblyBuffer` of `reassembly.rs` | one action per branch of `insert` |
| `Reconnect` | browser, table of hosts, connection task | |
| `HostParts`, `ViewerParts` | the parts above, each on its own, for any constants | see below |
| `HostPartsProofs`, `ViewerPartsProofs`, `ViewerEdgeProofs`, `BitstreamProofs` | theorems about them | |
| `DataLemmas` | lemmas about sequences, and induction over their lengths | for the proofs |
| `MC*` | constants and symmetry for TLC | |

Operators whose name starts with `Mut` are plausible bugs in the definition that
follows them. PROJECT.json pairs each with the property that catches it; no
specification uses them.

### ReceiveWindow and DecodeFeed

The variable `rx` is the struct: `slots` (frame id to slot), `next_id`,
`need_keyframe`, `highest_seen`, the age of the last keyframe request and the
round trip, together with the `ReceiveOutput` of the latest call (`frames`,
`nacks`, `lost`, `askKeyframe`). A private step of the code is an operator on
such a record; a call is their composition in the code's order, for example

    Inserted(w, h) == EnforceCapacity(RequestMissing(Release(Store(NoteNewFrame(w, h), h))))

for `insert` (receive.rs:308-380), with its early returns in `InsertRedundant`.
Two loops of the code are given in closed form: `release`, as the run from
`next_id` and the newest complete keyframe; and `enforce_capacity`, as giving up
through one cut. The comments at the operators say why they come out the same.

*Time.* The code stores instants; the model stores ages, which `Tick` advances.
An age saturates at `AgeCap`, and `AgeAssumption` makes sure that no comparison
in the code can tell a saturated age from a larger one. This keeps time
unbounded and the state finite.

*The decoder.* `handed`, `ref` and `top` are the decoder's side: what the latest
call handed out, which frame the decoder holds, the newest it was given. They
are the variables of `DecodeFeed`, so the refinement mapping is the identity and
`FeedsDecodably == FeedSpec` is checked, and proved, of `ReceiveWindow`.
`RequireKeyframe` is a restart by the caller (a decode backlog or a decode
error) at any moment between calls.

*Left out*: payload bytes, timestamps, and the counters of the statistics.
The assembled frame is the set of fragments, since the code indexes payloads by
the same numbers.

### HostSession

Each connection has a task; `task[c]` is where it is between two calls that
touch shared state. `session` is `HostSession`'s state; `encoder`, `capture` and
`link` name the connection the resource was last set up for. The loop's check
of `is_idle` (app.rs:256) and the task's `complete_pairing`
(session/mod.rs:179-207) are different actions with anything in between, as in
the code, where a network round trip separates them. `teardown_session`
(app.rs:669-685) is three actions: `StopCapture`, `ReleaseEncoder`,
`ResetSession`. A viewer may dial, hang up or vanish at any time, and a
negotiation may fail at any time.

`overlapped` is a history variable, not state of the code: it turns TRUE when a
viewer dials while another connection has a task that does not own the session.
Several properties are claimed only until then; section 6 says what goes wrong
after.

*Left out*: pairing during negotiation (the path that would enter `PAIRING` is
never taken: nothing calls `begin_pairing`), the choice of codec and size, the
virtual display, and the process's own exit.

### HostSender

`TakeCheck` and `TakeSwap` are the two halves of `take_at` (encode.rs:104-126),
which reads and swaps two atomics without a lock. `coding` is what the hardware
encoder holds, as a sequence of "was this one forced". `Output` is the output
callback (encode.rs:536-612) and `Lose` its error and dropped-frame returns.
`Receive`, `Withhold`, `Send` and `SendFails` are the branches of
`DataSender::run_blocking` (data.rs:250-397): `Chosen` is the frame left after
draining a backlog with `prefer_decodable`.

Frame ids are consecutive where the encoder emits them, so all that matters of
an id is whether the frame before it went out: a frame is `[key, gap]`. Time is
one bit, whether the keyframe cooldown still runs.

*Left out*: fragmenting, pacing, the tail probe and the retransmit cache, the
bitrate (whose fall may lengthen a cooldown that already ran out: the
boolean `cooling` does not return without a keyframe).

### EncoderSize

A step is one critical section of `encode.rs`: `params`, `base_size` and
`session` each have their own mutex, and the `resizing` lock serialises
`reconfigure`, `sharpen` and `restore_size` (`holder`), though not `init` and
`shutdown`. `at[t]` is where thread `t` is between waiting for that lock and
storing the new size. `teardown` joins the capture callback and the refiner
before `shutdown`, and does not wait for the link's resize, which runs on a
blocking thread (app.rs:570); `StopSession` says exactly this.

`linkSize` (what the link last called for and got) and `spoilt` are history.
`spoilt` turns TRUE at the three steps of section 6 that break the properties.

### StillScreen

`at[t]` is where the capture callback and the refiner's thread are; each is one
thread, and what it does between two unlocks is one action. `coding` holds the
frames in flight of *all* hardware sessions, so a session that was replaced can
still output: `Swapped` says how a rebuild waits for it. Submission is two steps,
before and inside the session lock, since a rebuild may come between. Times
(settling, pass interval, cooldown) are reduced to whether they have come.

### CaptureSurfaces

What `StillScreen` takes for granted: that the surface the refiner keeps still has
the picture it kept it for. ScreenCaptureKit (`DrawBegins`) draws into any surface
with a use count of zero, whoever has a reference to it. `refs` and `uses` are those
two counts, raised and lowered where `IoSurface` and `HeldSurface` are cloned and dropped:
`on_capture` holds the new surface before it releases the one kept so far, and a pass
clones the surface without holding it (refine.rs:445), unlocks, and submits. `meant` is
the capture a submission is for and `shows` what the surface has when the encoder takes it.
Two things of Apple's are assumed and not in the code: a delivered sample buffer and
a pixel buffer that VideoToolbox encodes each keep the surface in use.

### SizeGovernor, RateControl, LinkPressure

The three loops that follow the link. `SizeGovernor` takes a report a time unit;
an `Option<Instant>` is its age, saturated at the longest span it is compared
with, as in `ReceiveWindow`. `RateControl` keeps the engine's integer arithmetic
(percentages, clamps) on a small range of rates, and classes of loss and delay in
the order of their thresholds; `set_bitrate` and a rebuild of the encoder are
threads that meet at the session lock. `LinkPressure` serves all sessions in
turn: `ReadStats` and `Sample` are the two locks of `packet_loss`, and a reader may
belong to a session that is over. `straddled`, `overlapped`, `calm` and `owedWait`
are history.

### CaptureControl, Negotiation, Pairing

`CaptureControl` has the jobs (`jobs`, `applying`) that apply an interval on a
blocking thread with nothing to tie them to their session, and ScreenCaptureKit's
own streams (`os`), which start and stop when they like; `refused` is history.
`Negotiation` computes with real sizes, in integers: bits per pixel are in
thousandths and even, scaled sizes come out as in `scale.rs`. In `Pairing` the
handler's mutex is dropped before the keychain is written; macOS's write is
`DeleteOld`, then `Save`, and either may fail.

### HostStart

`phase` is where `main` and `HostApp::run` are. The file and the flags are partial functions
on the settings; `rest` stands for the fields that are only checked to be in range. A
failure on the way up is a branch of the step that fails, with what goes out of scope; a
signal handler that cannot be installed is the one failure with viewers already
accepted (`HandlerFails`), whose drops are two steps. The runtime's tasks
(`Accept`, `CaptureStarts`, `Teardown`) interleave with the shutdown.

### StreamRecovery, Bitstream, FrameTimes

Three views of one frame's way. `StreamRecovery` has whether it arrives: each
datagram may be lost, each request answered from a cache that evicts, and the
network is timely only in that a timer does not expire while the answer is on its
way. `Bitstream` has its bytes: what the encoder put out is written as Annex B, cut,
joined, searched for parameter sets and split again, with encoder sessions
changing and keyframes lost. `FrameTimes` has its timestamp, 24 bits of
microseconds on the wire (`Period`), placed by the viewer, once at arrival and once
when decoded, and the delay baseline that subtracts it.

### ViewerPipeline, D3D12Decode, Picture, LiveView

`ViewerPipeline` follows a frame from the receive loop's pass through a Media
Foundation or VideoToolbox decoder, `output`, `queue` and `hand` to the window.
Surfaces of the GPU pool are state (`pool`): one is free only when no queue, no hand
and no presenter holds it. A wake-up of the window is a flag that coalesces, as
winit's user events and redraw requests do. `LiveView` is what the
window promises to whoever looks at it; the mapping takes `session`, the phase, the
frame in hand and the frame in view, and `ShowsLive` checks that every step of the
pipeline is one of it. `D3D12Decode` models the GPU's two queues as sequences of
command lists, signals and waits, and the CPU's wait without a timeout. `Picture`
takes a byte to be "plane, column, row", so that a picture copied wrong is one
whose cells are in the wrong place; colours are left out.

### VtSessions, Presenter, Reassembly

`VtSessions` has one module for the encoder's and the decoder's sessions (`side`), which
the code wraps alike. A drop is three steps (`Completed`, `Invalidate`, `Freed`), with
callbacks of the frames still inside in between; the decoder's callback takes the lock
of the output queue, which `reset` takes only after the drop. Objects are counted as
`CFRetain` and `CFRelease` are called: a pixel buffer for each frame encoded, a format
description for each keyframe decoded. VideoToolbox is taken to have read a sample's
bytes when `DecodeFrame` returns, as the shim does when it frees them there.

`Presenter` has the D3D11 presenter's caches: the processor for one size of texture and
one of window, views of textures by address and slice, the upload texture. A texture's
address may be another's once nobody refers to it, which is what makes a cache by address
a question at all. Each call is an action, with a second one for its failure part
way (`RenderFails`, `ResizeFails`). After a failed `ResizeBuffers` the code has stored the
new size and keeps the old buffers until the next resize: `missed` is the history of that.

`Reassembly` is the buffer the receive window replaced, branch by branch of `insert`:
`abandoned` is history and `out` what it handed out.

### ViewerFeedback, Reconnect

`ViewerFeedback` has the receive pass put signals into a bounded channel with
`try_send`, which drops them when it is full, and the task that counts frames and
debounces keyframe requests. `Reconnect` has hosts that come, go and move, a browser
that announces them and may or may not withdraw them, the table that prefers
addresses by score, and the connection task with its backoff.

### HostParts and ViewerParts

The parts of a machine that share no state once what they take from each other is
left open (a report, a resize, a frame) are checked in one run: the variable
`machine` chooses one of them in the initial state, and only it steps, so TLC explores the
sum of the state spaces and not their product. What this shows is each part for
itself, under any behaviour of the others that its open inputs allow; it is not
their composition. Where parts do interact through state
they are in one module (refiner, capture and encoder in `StillScreen`; sender, cache
and window in `StreamRecovery`; decoder, queue and window in `ViewerPipeline`).
The two modules take every part's constants as their own, so that the theorems about them hold
for any; `MCHostParts` and `MCViewerParts` only choose values. Setting `Machines` to one name
in the cfg runs one part alone.

## 3. The runs

| run | question | instance | size |
|---|---|---|---|
| `receive_window` | is the window right, safe and live? | 5 frames in 7 fragments, 2 deceptive headers, window of 3, gap 1, 2 rounds, 2 round-trip times | 102 thousand states |
| `receive_window_gap` | is every gap noticed the moment it appears? (no) | the same stream, no deceptive header | found at once |
| `host_session` | does every session end clean, however connections overlap? | 3 connections, 2 open at once | 44 thousand states |
| `host_session_overlap` | is teardown safe from the handshake-failure path? (no) | 2 connections | found at once |
| `host_session_listen` | is an idle host listening? (no) | 2 connections | found at once |
| `host_sender` | is what goes out decodable, and a keyframe owed to whoever waits? | 2 submitters, ring of 3, backlog 2, 2 frames in the encoder | 3.5 million states |
| `host_sender_live` | does the awaited keyframe get through? | 1 submitter, ring of 2, backlog 1 | 248 thousand states |
| `host_sender_smear` | are non-key frames withheld until they are decodable? (no) | 1 submitter, ring of 4, backlog 3 | found at once |
| `host_parts` | is each part of the host's control right? | ten components, section "Bounds" | 476 thousand states |
| `viewer_parts` | is each part of the viewer, and of a frame's way to it, right? | eleven components, section "Bounds" | 289 thousand states |
| `encoder_size_stale` | is `base_size` this link's size? (no) | 4 sizes, 2 sessions, rebuilds may fail | found at once |
| `frame_times` | is the nearest placement of a timestamp always right? (no) | period of 10 units, 3 frames | found at once |

The six runs marked "(no)" each state what a comment of the repository says,
quoted in PROJECT.json's findings, and TLC shows a behaviour of the code that
does otherwise. The others pass.

### What the passing properties say

*receive_window.* `FeedsDecodably` is the point of the component. `ChainWhole`
relates the flag `need_keyframe` to the truth about the decoder.
`WithinCapacity` bounds what is kept. `KnownHolesAsked` says no incomplete frame
is waited for in silence.
`LostForGood` is about two steps: what is lost stays lost, once.
`HolesResolved` and `KeyframeAskedFor` are liveness.

*host_session.* `NothingLeaks` ties every resource to a task that has yet to
reach the call that gives it back. `ServedWhole` and `OnlyOwnerEnds` are what a
viewer gets while handshakes do not overlap. `SessionFreed` and `HostGoesQuiet`
are liveness.

*host_sender.* `BreaksOnlyAfterKeyframe` confines the damage of the flaw in
section 6: a frame without its reference goes out only directly behind a
keyframe. `KeyframeOwed` says where the keyframe is that a waiting sender waits
for. `AwaitedKeyframeComes` says it arrives: the sender does not throw away the
answer to its own request over and over.

*host_parts.*
- `EndsOnCurrentScreen`: once the screen rests and nothing is on its way, the last
  frame that came out shows the newest capture, whatever the encoder dropped, a busy
  link shed, or a rebuild replaced meanwhile (`StillScreen`); a frame shows the
  capture it was submitted for, unless a newer capture was noted meanwhile and is encoded after
  it, and once nothing uses a surface the pool has it back (`SurfacesTrue` of
  `CaptureSurfaces`).
- `OldSessionFirst`: a replaced encoder session's frames come out before the new
  one's, so ids given at the output are in decoding order.
- `SettingsInForce`: four invariants. The encoder runs at the engine's rate once
  both threads are done with it (`RateInForce`); capture runs at the interval the
  clock takes for applied (`IntervalInForce`); sharpening and restoring, in any order
  with the link's resizes and with any of them failing, never undo the size the link
  asked for (`LinkSizeInForce`); the host has what flag, file and default say in
  that order, the engine's bounds are in order for whatever `validate` lets through, a port
  is advertised only while an endpoint has it, and the end leaves neither, nor a capture
  (`RunsAsConfigured` of `HostStart`). Each but the clauses on settings and ports excludes, by a
  history variable, the steps of section 6.
- `StreamAgreed`: the configuration suits both ends, is even, in the display's shape,
  and the best size the bitrate affords.
- `LossIsTheSessions`: one loss window serves all sessions, yet what it sums up is
  the session's own packets.
- `RetriesSpread`: a size that failed is retried after a wait that doubles, however
  reports alternate.
- `LinkUsed`: three liveness properties of a link that turned good: native size comes
  back to stay, the highest rate is reached, skipping ends.
- `PinGuarded`: the right PIN is accepted once among viewers who submit it together,
  and a guess past the threshold waits for its lockout, across new PINs.

*viewer_parts.*
- `ShowsLive`: the pipeline implements `LiveView`.
- `FramesShown`: no wake-up of the window is lost, so a frame decoded last is shown.
- `PicturesIntact`: a surface is not decoded into while a frame on its way to the
  screen, or on it, still refers to it, and the decoder always finds one.
- `FramesTrue`, `DecodeEnds`: each D3D12 call returns its own packet's picture, whole;
  no allocator is reset in flight; the wait without a timeout ends. Of `VtSessions`: no
  callback reads a box that is gone, what is retained is released, and a drop ends although it
  waits for callbacks that lock a queue its thread also locks.
- `BitstreamWhole`: the decoder gets the NAL units and the parameter sets the encoder
  put out for that frame; the older reassembler hands a frame out whole, once and in order.
- `PictureTrue`: the window shows all of the picture, in its shape, from the right
  cells, for sizes and pitches that do not divide (`Picture`); and it shows the newest frame, from
  its own texture and for the size it has, whatever textures, processors and views came and
  went (`Presenter`).
- `LossRecovered`: no keyframe is needed on account of datagrams lost once, while the
  cache holds the frame. `CatchesUp`: after the last frame of a still screen the
  viewer has it, or the host knows that a keyframe is needed.
- `KeyframeAsked`: a stream that cannot be decoded has a keyframe asked for although
  signals are dropped.
- `TimesTrue`: only a long silence, or a wrap before anything arrived, misplaces a
  timestamp, and the delay reported is wrong no longer than the baseline looks back.
- `ReachesHost`: a host that can be known is reached in the end.

### Bounds and why they are enough

- *receive_window.* Two keyframes with non-key frames before and after each; one
  frame of each kind in two fragments, so a frame can be half there; a gap of two
  frames, so the jump past `MaxGap` happens; more frames than the window holds, so
  capacity gives up; two round-trip times, so the timers change under a running
  wait; intervals that are short, distinct and not multiples of each other.
  The proofs remove the bounds for the properties they cover.
- *host_session.* Two connections overlap in every way and a third comes after or
  takes the place of one that ended. `MaxOpen` bounds the viewers, not the tasks: a
  task goes on after its viewer is gone.
- *host_sender.* The ring is above the backlog threshold and can be full; two
  submitters can both be past the gate's check; two frames are in the encoder, one
  behind a forced one. The live run has one submitter and a smaller ring, since
  fairness is expensive and the two submitters compete only at the gate.
- *host_parts.* `StillScreen`: two captures, two passes out of three attempts, one
  frame in each encoder session, one dropped: a capture comes during a pass, a drop
  costs one attempt, a rebuild meets a frame in flight. `CaptureSurfaces`: three surfaces, one each
  to draw, keep and encode, and as many captures, so the pool runs out and is reused. `SizeGovernor`: three
  rungs, rates that afford one, two and all, and spans of different lengths so that
  each can end first. `RateControl`: four rates, so that both steps and
  both clamps occur. `Pairing`: two viewers, two PINs, failures up to
  the cap of the lockout. `LinkPressure`: two sessions, a queue above, at and below
  the thresholds. `CaptureControl`: two sessions, two intervals, so that a job of the
  first meets the second. `Negotiation`: seven displays, among them sizes odd in
  a dimension and of unusual shape, each codec choice, three ceilings, three
  configured heights. `EncoderSize`: a link size, another, the display's and one
  more; a second session sees what the first left behind. `HostStart`: two settings from the
  file, on both sides of their limits, and one flag; both bounds of the bitrate can be
  given together, below, around and above the rate it starts at.
- *viewer_parts.* `ViewerPipeline`: five frames, then two of a second session, queue
  of one, output of two, four surfaces; the code's sizes are larger, and what matters
  is that each queue overflows and that the pool is larger than what can be held.
  `D3D12Decode`: three calls, two errors. `VtSessions`: three sessions, four frames, two
  in a session: a session is replaced with frames inside, and its successor too. `Presenter`:
  two sizes of window and texture, one slice of the decoder's texture and the upload's, two
  addresses for three textures and a cache of two views; frames are not bounded,
  so that an address is used again, sizes change under a cached view, and the cache
  fills. `Reassembly`: four frames of one or two fragments, a window of two. `ViewerFeedback`: a channel of two that
  fills. `Reconnect`: two hosts, four addresses of three scores, three moves.
  `StreamRecovery`: two frames of two fragments, a datagram may be lost twice, three
  losses in all, two retained frames. `Bitstream`: three frames, two parameter sets
  that differ, NAL units with runs of zeros at places where a start code could
  be misread, chunks that cut units. `Picture`: blocks of 4 instead of 16, so that
  sizes fill none, one or both of the last blocks. `FrameTimes`: a period of ten
  units, frames on both sides of a wrap.
- *frame_times*, *encoder_size_stale*: the same instances.

`CHECK_DEADLOCK FALSE` stands where the system really stops: connections are used
once, the number of sessions, frames, captures or moves is bounded.

### Fairness

- `ReceiveWindow!FairSpec`: time advances, and the receive loop polls when a
  deadline is due, which is what its sleep until `next_deadline` does. Nothing is
  assumed of the network: no fragment need ever arrive.
- `HostSession!FairSpec`: the runtime runs tasks that can move; a sender returns
  from its 50 ms wait; a negotiation with a viewer that has gone ends, by the
  transport's idle timeout. Nothing is assumed of viewers who stay silent.
- `HostSender!FairSpec`: threads run, time passes, the encoder outputs what it
  holds, and neither it nor the connection refuses every frame (strong fairness of
  `Encode` and `Send`). The screen goes on changing: a keyframe needs a frame.
  `AwaitedKeyframeComes` supposes, in addition, that the ring stops overflowing and
  the encoder stops losing forced frames.
- `MCHostParts!FairSpec`: a viewer goes on reporting; a rate that was decided reaches
  the encoder; the link drains its queue, and the screen goes on changing, so that
  frames are captured (`SkippingEnds` needs a next one).
- `MCViewerParts!FairSpec`: threads and tasks go on, a decoder answers, the GPU runs
  what it is given, discovery's events are handled, datagrams that are not lost
  arrive and timers expire; VideoToolbox calls back for each frame it holds. Not fair: connections, new packets, loss, hosts.
- `EncoderSize!FairSpec` is used by `encoder_size_stale` only, which checks an
  invariant and does not depend on it.

## 4. What is proved

All of it by TLAPS, for every value of the constants that satisfies the named
assumptions (`ConfigAssumption`, `AgeAssumption`, `ConnAssumption`, `SizeAssumption` of
the sender, and `PartsAssumption`, which joins those of the parts). An assumption says what a
constant is, and the few relations the code's own numbers have: the backlog is shorter
than the ring, the surfaces are more than the queues can hold, and the like.

Each proof has an inductive invariant, which TLC checked on the run's instance first.

**ReceiveWindowProofs.** `TypeCorrect`, `ChainAlwaysWhole` and `DecodesInOrder`.
The last one is the refinement: `Spec => FeedsDecodably`, for every stream of
headers, true or false, and every configuration. `ChainWhole` is not inductive
alone: whether releasing the next frame is right depends on the slots lying
between `next_id` and `highest_seen` and on the frames already collected in the
same call. `Sound(w, r, t)` therefore states the invariant in the *middle* of a
call that began with the decoder at reference `r` and newest frame `t`. Each
private step has a lemma that it preserves `Sound` (`NoteNewFrameSound`,
`StoreSound`, `ReleaseSound`, `RequestMissingSound`, `GiveUpThroughSound`, ...);
a call is their chain (`InsertedSound`, `PolledSound`); `CallStarts` and
`CallEnds` join it to the invariant between calls.

The same module proves `WindowWithinCapacity`, `EveryHoleAsked` and `LossIsFinal`, which
speak of what a call does to the slots it found. `Carried(v, w)` follows a slot
through the steps of a call: what is waited for was waited for before, or is new; `HolesAsked`
says of a slot that is not complete when it was last asked for, and `Within` what the
capacity leaves. That a frame given up is never handed out, in this call or a later
one, needs both what `next_id` passed and what the frames of the call are.

**HostSessionProofs.** `NothingEverLeaks` holds for any number of connections,
overlapping in any way; `TypeOK /\ NothingLeaks` is inductive as it stands.
`ServedAlone` and `OwnerEndsSession` need a strengthening: until handshakes
overlap, of two connections with something under way one owns the session and
the other is still knocking (`Exclusive`), and each phase of a task finds what
the phases before it set up (`Owned`). `Exclusive` is what makes the check in
the accept loop and the claim in the task agree: the only other connection can
do nothing but knock.

**HostSenderProofs.** `SenderIsOwed` and `DamageIsConfined`, for a ring and a backlog of any
size and any number of submitters. `KeyframeOwed` is inductive with the types.
`BreaksOnlyAfterKeyframe` needs `Chain`: frames lost to a full ring are so far back that only
a skip to a keyframe reaches past them (`Gaps`), and the frame before the next one is missing only
directly behind such a skip, or while a keyframe is awaited (`Holes`). What the sender keeps of a drained backlog is a fold over the ring, written as
a recursive function; `DataLemmas` has the induction.

**HostPartsProofs.** The parts of the host, each with an invariant
of its own:
- `ScreenEndsCurrent`: each pass that landed since the newest capture used up an output, so
  that what is stale in the hardware is fewer and fewer (`PassesOvertake`); whoever submits has the
  newest capture (`Carries`). The theorem supposes `Passes > MaxCoding`, that
  the refiner makes more passes than the hardware holds frames when it begins: without it
  the property is false (limit 20). The code makes two passes (refine.rs:51) and asks VideoToolbox
  for a frame delay of zero (videotoolbox_shim.c:115). For the surfaces `CountsFollow` says who
  raised every count, `InOrder` that captures are noted and encoded in turn.
- `SessionsInOrder`, the action property: two frames in flight are of one session.
- `SettingsHold`: the four parts of `SettingsInForce`, from `RateFollows`,
  `IntervalFollows`, `SizeFollows` and `StartFollows`, which say of each thread
  between two locks what it still has to do.
- `StreamSuitsBoth`: for every display, ceiling and bitrate the size agreed on is the best
  that the bitrate affords. The arithmetic is in `QuotientsGrow` and `ScaledFits`: a lower
  height costs fewer pixels, however the widths are rounded.
- `LossIsOwn`: for any number of sessions and a window of any length the sums of the
  loss window telescope (`LossAddsUp`) to counters of the session's own.
- `RetriesAreSpread`, `PinsAreGuarded`: the action properties, from the wait
  that the governor owes and from what a PIN in force has been tried with.
- `HostTypesHold`: the types of all ten parts.

**ViewerPartsProofs.** The viewer's pipeline: `SurfacesKeepPictures` and `ViewIsLive`, the
refinement of `LiveView`. `InLine` says that decoder, output queue, frame queue, hand and
view have the session's frames in the order they were decoded in; `Sessions` that nothing of
a later session is anywhere before its time; `Pictured` that the surface of each frame has its
picture; `Drained` that the Media Foundation decoder puts out all it will before it is given
more, so that there are fewer frames about than surfaces (`SurfaceIsFree`, by counting).
`PlatformFramesTrue` is `FramesTrue`, in two halves. For D3D12 `InOrderOfCall` says what the
two queues have left of the call, for each place the fence has come to (`AtUploaded`,
`AtDecoded`, `AtCopied`): that the copy waits for the decode and the decode for the upload is
all that makes the picture the packet's own. For VideoToolbox `InLife` says that a session is
dropped from its place and has no frame left when it is invalidated, and `Balanced` is
inductive with the types: `KeptChanges`, `HoldingAppends` and `HoldingTail` count what a
step adds to the holders of an object and takes from them.
`ViewerTypesHold` is `TypeOK` of all eleven parts, those of the two modules below
included. Hardly any of it is inductive alone. A submitted operation is typed by the fence
it waits for (`GpuOps`), an object's count by `Balanced`, the retransmit cache by `CacheInOrder`,
and the watermark by what was handed out (`WatermarkKept`). The delay that is reported is
no less than zero because nothing is placed later than it was captured (`Early`), so that transits
are positive (`TimesTyped`); what the window shows has a size because
there is no buffer without one, nor, until the presenter is replaced, a minimised window before there
are buffers (`PresenterTyped`). The proof gave `Reconnect` an assumption it had left
unsaid: that the hosts are finitely many.

**ViewerEdgeProofs.** The link whose losses the viewer repairs and whose delays it measures, and the
window it draws:
- `OneLossRecovers`, that a datagram lost once costs no keyframe. `CacheInOrder`: the host
  keeps the frames up to the newest without a gap. `Traced`: a fragment that is missing is on
  its way or was lost; `AllAsked`: the window asked for what it knows
  to be missing. `Repeated` is the point: once a request has been repeated, what is still missing was lost, and has been
  asked for or is on its way again, so that giving up takes a second loss. The
  theorem supposes `MaxRounds > 1`: with a single round a frame is given up while its first answer
  is on the way, as TLC shows. The code's default is three (renderd-frame receive.rs:72).
- `PictureIsTrue`, in two halves. Of the pixels, `PixelsInv`: the picture is of the session's size or of a rung of it
  (`StreamFits`), the frame handed on has each of its pixels in its place (`FrameWhole`), and the rectangle
  painted is the picture's, in its shape (`PictureIn`); the lemmas are on quotients, on addresses with a pitch
  and on the aspect fit. Of the presenter, `PresenterInv`: each cached view is of the texture that is now at its
  address, and made for the processor in use (`Fits`), no two textures in use share an
  address (`Apart`), and window, buffers and processor agree in size
  unless a resize failed (`SizesAgree`).
- `TimesAreTrue`, an action property. `Early`: whatever was placed is whole periods
  before its capture, by one at least. `UnwrapIs` says what the nearest candidate is among all
  times alike on the wire, not among three; `RunReleased` that the frames released begin with the one
  that came, so that placing each again for the decoder leaves the last where its capture has it. `InBucket` and
  `ArrivedNow` carry the estimate: a bucket of the time since when frames were placed alike is off by as much
  as they are. The proof changed the model: the value for "no time yet" was one that a
  time placed wrongly often enough could have.

**BitstreamProofs.** `BitstreamIsWhole` has two halves. `ReassembledWhole` is of the older buffer: `ReassemblyInv` says
that what was handed out or given up is behind the watermark, that a frame handed out is neither pending nor
given up, and what is pending is within the capacity. `BytesAreWhole` is of a frame's bytes. `AnnexB(d, u, f)`
says that `d` has the units `u` at the offsets `f`, each behind a start code; `ExtractWrites` that
the host's extractor writes such bytes, given the room that `EncodedLength` finds, and `FragmentsJoin` that they
come through cutting and joining. `ShortCode` and `LongCode` are the heart of it: a start code is found where
one was written and nowhere else, within a unit, across its end or over two of them. So the scanners find
the units (`UnitsAre`, `AnnexbNalUnitsAre`), the parameter sets among them
(`SetsFound`) and their description (`DescriptionMade`). `BitsInv` carries that from frame to frame: a frame that is no
keyframe is for the session there is, and `paramSets` are the bytes of that session's sets. The
theorem supposes `Distinct`, that different groups of parameter sets differ in their bytes put one
after the other, since these are all the decoder compares (limit 27).

**Only model-checked.**
- All liveness: `HolesResolved`, `KeyframeAskedFor`, `SessionFreed`, `HostGoesQuiet`,
  `AwaitedKeyframeComes`, `LinkUsed`, `FramesShown`, `DecodeEnds`, `KeyframeAsked`, `ReachesHost`
  and `CatchesUp`. No prover here handles fairness or ENABLED.

Every invariant and every action property that a passing run checks is a theorem; three of them
under the supposition named above (`EndsOnCurrentScreen`, `LossRecovered`, `BitstreamWhole`).

No module with a theorem declares a RECURSIVE operator, without which the provers
could not be used; the library's induction theorems take operators, which they cannot
use either. Where a definition recurs, `DataLemmas` has the induction as a
statement about a set of numbers (`UpTo`).

## 5. How to run

In this directory: `tlc -workers 2 -config MCHostSession.cfg MCHostSession`,
and the same for the other configurations (PROJECT.json pairs each with its
module); `tlapm HostSessionProofs.tla`, and the same for the other modules of proofs and for
`DataLemmas`.

## 6. Known limits of the code, as the models show them

With a run of its own, and quoted in PROJECT.json:

1. *A gap opened by a restart is not noticed* (`receive_window_gap`).
   `require_keyframe`, and a jump past `max_gap`, forget slots without listing them
   as missing; an older keyframe still held may later complete and restart the
   chain behind frames the window does not know of.
2. *A failed handshake tears down the session being served*
   (`host_session_overlap`): app.rs:499-502 runs `teardown_session` whether or not
   the connection owns the session.
3. *One failed QUIC handshake ends the accept loop* (`host_session_listen`),
   app.rs:252.
4. *Skipping ahead to a keyframe discards the frames behind it*
   (`host_sender_smear`), and the next one goes out without its reference.
5. *`base_size` outlives its session* (`encoder_size_stale`), so the next one is
   "restored" to a size its link never asked for.
6. *A timestamp goes back after a long silence* (`frame_times`): a still desktop is
   silent for more than half of the 16.7 s after which the field wraps, and the next
   frame is placed a period early.

Modelled, and excluded from the properties by a history variable or a premise
rather than given a run:

7. *Two viewers served* (`overlapped` of HostSession; app.rs:253-255 says one at a
   time). Three overlapping handshakes, one of which fails in between: limit 2 frees
   the session under the first.
8. *A forced frame lost in the encoder* (`forcedLost`; encode.rs:49 says a request is
   never lost). `take_at` has consumed the request; the callback's early returns
   (encode.rs:553-566) do not renew it.
9. *`reconfigure` forgets the base size before the rebuild that may fail*
   (`spoilt`, encode.rs:373).
10. *A queued resize builds an encoder after shutdown* (`spoilt`; app.rs:570,
    encode.rs:614).
11. *A rate set while the encoder is rebuilt is lost* (`overlapped` of RateControl;
    encode.rs:781): it goes to the session about to be replaced, and the new one was
    created with the rate before. It stays so until the next change.
12. *A capture interval of an ended session reaches the next* (`refused`; clock.rs:36
    and 84-90), and a stream that starts or stops after its timeout
    (renderd-sc-sys stream.rs:569-583) goes on unknown to the host.
13. *A late reader of the previous session distorts one loss report* (`straddled`;
    pressure.rs:150-157): the counters are read under one lock and sampled under another.
14. *A D3D12 call that returns early leaves its lists on the queues* (`abandoned`;
    d3d12_decode.rs:279): the next call resets allocators in flight, and its wait may
    be for a value a slower queue's signal undoes.
15. *A host that vanished or moved without a goodbye stays listed* and, by its score,
    shadows others (`Found`; the Windows browser never reports a loss).
16. *A silence of half a period, or a wrap before anything arrived, misplaces a
    frame in time* (`TimesTrue`'s two exceptions); from 8.4 to 10 s of silence
    the delay reported can be a whole period, which the rate answers with a panic cut.

17. *A session whose start crosses the shutdown captures again after it was stopped*
    (`late` of HostStart; app.rs:526-529), until the process is gone; nothing asks whether a
    shutdown has begun, and the session is made idle before the endpoint closes.

Modelled, without a property:

18. Two submitters both past the check of `take_at`, with a request renewed between
    their swaps, force two keyframes within one cooldown (encode.rs:118; the comment at
    121-123 says this cannot happen).
19. A keyframe asked for while the screen is still is not encoded until it changes:
    the refiner's passes are over, and `force_keyframe` (encode.rs:732) only sets a flag.
20. The refiner counts any output as its own (refine.rs:199-204): a pass that was
    dropped may be taken for landed on account of another frame. With a single pass, or with two and
    two frames in the hardware before them, the viewer can be left on an older screen: with
    `Passes` at 1, or `MaxCoding` at 2, TLC finds `EndsOnCurrentScreen` violated. refine.rs:49 says
    that "the first makes sure the viewer ends on the current screen"; it takes both.
21. A PIN is consumed before the keychain write that may fail; on macOS the old entry
    is deleted first. The viewer saves its copy of the token without hearing from the host.
22. A frame skipped for a decode backlog widens the gap of ids that `record_frame`
    counts as loss, which data.rs:91-93 says must never happen; a frame given up is
    counted twice.
23. VideoToolbox's last frame waits in its output queue for the next packet; a
    renderer's fall-back loses the frame in hand; the software renderer does not repaint
    on resize.
24. After a failed `ResizeBuffers` the presenter has the new size and the old buffers, and draws
    for the wrong size until the next resize (`missed` of Presenter); the error is only logged.
25. The older reassembler's pending frames below the watermark hold slots until they are evicted.
26. `monotonic_pts` hands out a timestamp before the session lock is taken (encode.rs:284): two
    threads may submit in the opposite order of their timestamps.
27. The VideoToolbox decoder notices new parameter sets by comparing them joined without their
    boundaries (videotoolbox_decode.rs:68): two triples that join to the same bytes would leave the old
    session in use. A parameter set's syntax says where it ends, so that a real encoder's sets never do.

Seen while modelling, outside the models: the VideoToolbox shim never frees the context it allocates for a
session's callback, a small leak for each session; the older reassembler's `dropped_frames`
counts fragments refused, where its comment says frames; a stream that ScreenCaptureKit stops by
itself is never noticed (the delegate at stream.rs:304 of `renderd-sc-sys` is empty); the second rung of the
ladder can be larger than the display for unusual shapes (1004x898 gives 1008x896); a path
given with `--config` where no file is starts the host on defaults, without a word (load.rs:30); TOML's `nan`
passes the check of `abr.loss_threshold` (validate.rs:86), and the rate then never rises;
`host.max_bitrate_kbps`, "Maximum allowed encoding bitrate" in schema.rs, is where the rate starts
(abr.rs:59), and `[abr]` bounds it; the viewer's `--width` and `--height` are applied after its settings
were validated.

## 7. Not modelled, and what is left

*Parts of modelled components.* Pacing of a burst and the published rate
(`set_sent_kbps`, `is_app_limited`; the engine's `limited` input is left open instead);
receive-rate estimation; the clock's epoch estimator, which decides nothing; device
creation, colour spaces, shaders and tearing; the properties set on a compression session;
the mDNS calls; statistics and logging. `begin_pairing`, `process_datagram`, `drop_stale`,
`push_frame`, `reconnect/watchdog.rs` and `d3d12_renderer.rs` have no caller outside tests.

*Compositions.* `HostSession` with the senders' ring (a previous session's sender may
live for 50 ms past its flag and take a frame of the next one) is 44 thousand times
3.5 million states; `ReceiveWindow` in full with `StreamRecovery` likewise, so the latter
has the window's decisions without its timers. The governor's pacing would bound
how often two resizes are queued at a time; `EncoderSize` queues one.

*Never*: SPAKE2+ itself (cryptography); what codecs, GPUs, ScreenCaptureKit and window
systems do inside (what the modelled code sees of them is an external choice);
menus, autostart and logging (no behaviour over time); the
floating-point estimators, whose arithmetic TLA+ would only imitate.
