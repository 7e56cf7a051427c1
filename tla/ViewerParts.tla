---------------------------- MODULE ViewerParts -----------------------------
(***************************************************************************)
(* The parts of the viewer that share no state, and the recovery of a frame *)
(* over the link: a behaviour is of one of them, for any value of its      *)
(* constants.                                                              *)
(***************************************************************************)
EXTENDS Naturals, Sequences

CONSTANT Machines   \* the components run, each on its own

\* Those of the components, where their modules say what they are.
CONSTANTS
  \* ViewerPipeline
  MaxFrames, MaxLater, MaxSessions, Capacity, OutputCap, Delay, Surfaces,
  \* D3D12Decode
  MaxCalls, MaxErrors,
  \* ViewerFeedback
  FeedbackMaxFrames, Channel,
  \* Reconnect
  Hosts, Score, MaxMoves, MaxFailures, MaxBackoff,
  \* StreamRecovery
  RecoveryMaxFrames, Fragments, Retained, MaxRounds, MaxLosses, MaxLost,
  \* Bitstream
  Codec, ParameterSets, Slices, MaxSlices, BitsMaxFrames, ChunkSize, MinCapacity,
  \* Picture
  Block, SessionSizes, Windows, RowPadding,
  \* FrameTimes
  Period, DelayWindow, MaxDelay, MaxResend, TimesMaxFrames, MaxTime,
  \* VtSessions
  VtMaxSessions, VtMaxFrames, MaxCoding,
  \* Presenter
  PresenterWindows, Codeds, PresenterSlices, Addresses, MaxViews, MaxTextures,
  \* Reassembly
  Frames, MaxTotal, ReassemblyCapacity

VARIABLE machine    \* the one this behaviour is of

VARIABLES   \* ViewerPipeline
  backend, session, phase, ready, fed, hardware, inside, output, at, pushed, queue, wakes,
  hand, renderer, gpuFrames, shown, view, failed, pool

VARIABLES   \* D3D12Decode
  handles, call, d3d12At, allocator, queues, fenceValue, fence, upload, bitstream,
  texture, readback, frames, errors, abandoned

VARIABLES   \* ViewerFeedback
  frame, awaiting, held, asked, channel, debounced, request, last, lost

VARIABLES   \* Reconnect
  where, moves, failures, events, table, tray, noted, reconnectAt, target, linked,
  backoff, reconnectShown

VARIABLES   \* StreamRecovery
  keys, owed, recoveryAt, sent, cache, resent, probe, wire, control, got, nextId,
  needKeyframe, recoveryAsked, whole, rounds, recoveryShown, losses, recoveryLost, evicted

VARIABLES   \* Bitstream
  bitsFrames, inForce, sample, data, datagrams, needKey, paramSets, bitsSession,
  formatDesc, handed, bitsAt

VARIABLES   \* Picture
  decoder, pixelsSession, picture, aperture, pitch, pixelsFrame, window, dest, pixelsAt

VARIABLES   \* FrameTimes
  now, end, timesSent, arrived, next, timesLast, decoded, buckets, interval, timesQueue,
  origin, skew, sure, decodedBack

VARIABLES   \* VtSessions
  side, made, current, fresh, dropping, owner, box, given, coding, callback, holder,
  clears, cached, refs

VARIABLES   \* Presenter
  presenterMade, textures, decoders, chain, size, presenterWindow, processor, built,
  views, presenterUpload, presenterShown, screen, missed, gone

VARIABLES   \* Reassembly
  pending, watermark, reassemblyAbandoned, out

pipeline == <<backend, session, phase, ready, fed, hardware, inside, output, at, pushed,
  queue, wakes, hand, renderer, gpuFrames, shown, view, failed, pool>>
d3d12 == <<handles, call, d3d12At, allocator, queues, fenceValue, fence, upload,
  bitstream, texture, readback, frames, errors, abandoned>>
feedback == <<frame, awaiting, held, asked, channel, debounced, request, last, lost>>
reconnect == <<where, moves, failures, events, table, tray, noted, reconnectAt, target,
  linked, backoff, reconnectShown>>
recovery == <<keys, owed, recoveryAt, sent, cache, resent, probe, wire, control, got,
  nextId, needKeyframe, recoveryAsked, whole, rounds, recoveryShown, losses, recoveryLost,
  evicted>>
bits == <<bitsFrames, inForce, sample, data, datagrams, needKey, paramSets, bitsSession,
  formatDesc, handed, bitsAt>>
pixels == <<decoder, pixelsSession, picture, aperture, pitch, pixelsFrame, window, dest,
  pixelsAt>>
times == <<now, end, timesSent, arrived, next, timesLast, decoded, buckets, interval,
  timesQueue, origin, skew, sure, decodedBack>>
vt == <<side, made, current, fresh, dropping, owner, box, given, coding, callback, holder,
  clears, cached, refs>>
presenter == <<presenterMade, textures, decoders, chain, size, presenterWindow, processor,
  built, views, presenterUpload, presenterShown, screen, missed, gone>>
reassembly == <<pending, watermark, reassemblyAbandoned, out>>
vars == <<machine, pipeline, d3d12, feedback, reconnect, recovery, bits, pixels, times,
  vt, presenter, reassembly>>

Pipeline == INSTANCE ViewerPipeline

D3D12 == INSTANCE D3D12Decode WITH
  at <- d3d12At

Feedback == INSTANCE ViewerFeedback WITH
  MaxFrames <- FeedbackMaxFrames

Finder == INSTANCE Reconnect WITH
  at <- reconnectAt, shown <- reconnectShown

Recovery == INSTANCE StreamRecovery WITH
  MaxFrames <- RecoveryMaxFrames, at <- recoveryAt, asked <- recoveryAsked,
  shown <- recoveryShown, lost <- recoveryLost

Bits == INSTANCE Bitstream WITH
  MaxFrames <- BitsMaxFrames, frames <- bitsFrames, session <- bitsSession, at <- bitsAt

Pixels == INSTANCE Picture WITH
  session <- pixelsSession, frame <- pixelsFrame, at <- pixelsAt

Times == INSTANCE FrameTimes WITH
  Window <- DelayWindow, MaxFrames <- TimesMaxFrames, sent <- timesSent, last <- timesLast, queue <- timesQueue

Vt == INSTANCE VtSessions WITH
  MaxSessions <- VtMaxSessions, MaxFrames <- VtMaxFrames

Presenter == INSTANCE Presenter WITH
  Windows <- PresenterWindows, Slices <- PresenterSlices, made <- presenterMade,
  window <- presenterWindow, upload <- presenterUpload, shown <- presenterShown

Reassembly == INSTANCE Reassembly WITH
  Capacity <- ReassemblyCapacity, abandoned <- reassemblyAbandoned

ASSUME PartsAssumption ==
  /\ Pipeline!Assumption
  /\ D3D12!Assumption
  /\ Feedback!Assumption
  /\ Finder!Assumption
  /\ Recovery!Assumption
  /\ Bits!Assumption
  /\ Pixels!Assumption
  /\ Times!Assumption
  /\ Vt!Assumption
  /\ Presenter!Assumption
  /\ Reassembly!Assumption

TypeOK ==
  /\ machine \in Machines
  /\ machine = "pipeline" => Pipeline!TypeOK
  /\ machine = "d3d12" => D3D12!TypeOK
  /\ machine = "feedback" => Feedback!TypeOK
  /\ machine = "reconnect" => Finder!TypeOK
  /\ machine = "recovery" => Recovery!TypeOK
  /\ machine = "bits" => Bits!TypeOK
  /\ machine = "pixels" => Pixels!TypeOK
  /\ machine = "times" => Times!TypeOK
  /\ machine = "vt" => Vt!TypeOK
  /\ machine = "presenter" => Presenter!TypeOK
  /\ machine = "reassembly" => Reassembly!TypeOK

\* A component that does not run starts in one of its initial states.
Init ==
  /\ machine \in Machines
  /\ Pipeline!Init
  /\ machine # "pipeline" => backend = "mf"
  /\ D3D12!Init
  /\ Feedback!Init
  /\ Finder!Init
  /\ Recovery!Init
  /\ Bits!Init
  /\ machine # "bits" => inForce = CHOOSE sets \in ParameterSets : TRUE
  /\ Pixels!Init
  /\ machine # "pixels" =>
       /\ decoder = "vt"
       /\ pixelsSession = (CHOOSE s \in SessionSizes : TRUE)
       /\ picture = pixelsSession
       /\ aperture = picture
       /\ pitch = Pixels!Coded.w + (CHOOSE p \in RowPadding : TRUE)
       /\ window = CHOOSE w \in Windows : TRUE
  /\ Times!Init
  /\ machine # "times" => now = Period
  /\ Vt!Init
  /\ machine # "vt" => side = "encoder"
  /\ Presenter!Init
  /\ machine # "presenter" => presenterWindow = CHOOSE w \in PresenterWindows : TRUE
  /\ Reassembly!Init

\* A step of one component leaves the others where they are.
Next ==
  \/ /\ machine = "pipeline" /\ Pipeline!Next
     /\ UNCHANGED <<machine, d3d12, feedback, reconnect, recovery, bits, pixels, times,
                    vt, presenter, reassembly>>
  \/ /\ machine = "d3d12" /\ D3D12!Next
     /\ UNCHANGED <<machine, pipeline, feedback, reconnect, recovery, bits, pixels, times,
                    vt, presenter, reassembly>>
  \/ /\ machine = "feedback" /\ Feedback!Next
     /\ UNCHANGED <<machine, pipeline, d3d12, reconnect, recovery, bits, pixels, times,
                    vt, presenter, reassembly>>
  \/ /\ machine = "reconnect" /\ Finder!Next
     /\ UNCHANGED <<machine, pipeline, d3d12, feedback, recovery, bits, pixels, times, vt,
                    presenter, reassembly>>
  \/ /\ machine = "recovery" /\ Recovery!Next
     /\ UNCHANGED <<machine, pipeline, d3d12, feedback, reconnect, bits, pixels, times,
                    vt, presenter, reassembly>>
  \/ /\ machine = "bits" /\ Bits!Next
     /\ UNCHANGED <<machine, pipeline, d3d12, feedback, reconnect, recovery, pixels,
                    times, vt, presenter, reassembly>>
  \/ /\ machine = "pixels" /\ Pixels!Next
     /\ UNCHANGED <<machine, pipeline, d3d12, feedback, reconnect, recovery, bits, times,
                    vt, presenter, reassembly>>
  \/ /\ machine = "times" /\ Times!Next
     /\ UNCHANGED <<machine, pipeline, d3d12, feedback, reconnect, recovery, bits, pixels,
                    vt, presenter, reassembly>>
  \/ /\ machine = "vt" /\ Vt!Next
     /\ UNCHANGED <<machine, pipeline, d3d12, feedback, reconnect, recovery, bits, pixels,
                    times, presenter, reassembly>>
  \/ /\ machine = "presenter" /\ Presenter!Next
     /\ UNCHANGED <<machine, pipeline, d3d12, feedback, reconnect, recovery, bits, pixels,
                    times, vt, reassembly>>
  \/ /\ machine = "reassembly" /\ Reassembly!Next
     /\ UNCHANGED <<machine, pipeline, d3d12, feedback, reconnect, recovery, bits, pixels,
                    times, vt, presenter>>

Spec == Init /\ [][Next]_vars

\* ViewerPipeline: the receive loop ends the pass it began, the decoder answers
\* and the window's thread handles its events.  Connections, which end when
\* they will, and new packets are not fair.
\* D3D12Decode: the queues run what they are given, and the CPU's wait returns
\* when it may.  New packets are not fair.
\* ViewerFeedback: the receive loop wakes on the window's deadline, and the
\* feedback task on whatever is in the channel.
\* Reconnect: discovery's events are handled and the connecting task goes on;
\* failures are bounded, hosts come and go as they like.
\* StreamRecovery: frames are sent, datagrams and requests arrive and timers
\* expire; each step of these is one of finitely many, so they need not be told
\* apart.  Losing a datagram is not fair.
\* VtSessions: who drops a session goes on, and VideoToolbox calls back for
\* every frame it holds, session by session.
FairSpec ==
  /\ Spec
  /\ WF_pipeline(machine = "pipeline" /\ at = "next" /\ Pipeline!FrameOfPass)
  /\ WF_pipeline(machine = "pipeline" /\ Pipeline!ProcessOutput)
  /\ WF_pipeline(machine = "pipeline" /\ Pipeline!NeedMoreInput)
  /\ WF_pipeline(machine = "pipeline" /\ Pipeline!Drain)
  /\ WF_pipeline(machine = "pipeline" /\ Pipeline!EndPass)
  /\ WF_pipeline(machine = "pipeline" /\ Pipeline!OutputCallback)
  /\ WF_pipeline(machine = "pipeline" /\ Pipeline!Resumed)
  /\ WF_pipeline(machine = "pipeline" /\ Pipeline!Window)
  /\ WF_d3d12(machine = "d3d12" /\ D3D12!Gpu)
  /\ WF_d3d12(machine = "d3d12" /\ D3D12!CpuWait)
  /\ WF_feedback(machine = "feedback" /\ Feedback!AskAgain)
  /\ WF_feedback(machine = "feedback" /\ Feedback!RetryDue)
  /\ WF_feedback(machine = "feedback" /\ Feedback!Record)
  /\ WF_feedback(machine = "feedback" /\ Feedback!DebounceOver)
  /\ WF_reconnect(machine = "reconnect" /\ Finder!ApplyEvent)
  /\ WF_reconnect(machine = "reconnect" /\ Finder!Connecting)
  /\ WF_recovery(machine = "recovery" /\ Recovery!Step)
  /\ WF_vt(machine = "vt" /\ Vt!DropStep)
  /\ \A s \in Vt!Session : WF_vt(machine = "vt" /\ Vt!Callback(s))

-----------------------------------------------------------------------------
(* Properties, each of one component.                                      *)

\* The decoder, the frame queue and the window implement LiveView: frames of
\* the session in progress, each newer than the last.
ShowsLive == Pipeline!ShowsLive

\* No GPU surface is decoded into while a frame on its way to the screen, or on
\* it, still shows it, and the decoder never runs out of surfaces.
PicturesIntact == Pipeline!PicturesIntact

\* What is decoded is shown, or something newer is: no wake-up of the window is
\* lost.
FramesShown == Pipeline!FramesShown

\* What the platform's decoder and encoder hand back is whole and safe to
\* touch: the D3D12 queues and fences give each packet's own picture, and
\* VideoToolbox calls into no session that is gone, nor is an object it holds
\* released.
FramesTrue ==
  /\ D3D12!FramesTrue
  /\ Vt!SessionsSafe

\* Waits without a timeout end: the CPU's for the D3D12 fence, and that for
\* VideoToolbox's last callback when a session is dropped.
DecodeEnds ==
  /\ D3D12!DecodeEnds
  /\ Vt!DropEnds

\* A stream that cannot be decoded has a keyframe asked for, whatever signals
\* were dropped.
KeyframeAsked == Feedback!KeyframeAsked

\* A host that can be known is reached, whatever went wrong before.
ReachesHost == Finder!ReachesHost

\* What comes out of many pieces is whole: VideoToolbox on the viewer is given
\* the NAL units and parameter sets that VideoToolbox on the host put out, and
\* the reassembly buffer hands frames out whole, in order and once.
BitstreamWhole ==
  /\ Bits!BitstreamWhole
  /\ Reassembly!FramesWhole

\* The window shows all of the host's picture and nothing else, and the newest
\* one, however textures, processors and the window's size change.
PictureTrue ==
  /\ Pixels!PictureTrue
  /\ Presenter!ScreenTrue

\* After a still screen's last frame the viewer catches up or the host knows a
\* keyframe is needed.
CatchesUp == Recovery!CatchesUp

\* A datagram lost once never costs a keyframe while the host's cache holds its
\* frame.
LossRecovered == Recovery!LossRecovered

\* Only half a period of silence, or a wrap at the very start, misplaces a
\* frame in time, and it spoils the queue delay reported no longer than the
\* baseline looks back.
TimesTrue == Times!TimesTrue
=============================================================================
